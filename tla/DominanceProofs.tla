-------------------------- MODULE DominanceProofs --------------------------
(***************************************************************************)
(* Facts about control-flow graphs and reachability that the proofs about  *)
(* the passes rest on.                                                     *)
(***************************************************************************)
EXTENDS Dominance, TLAPS, WellFoundedInduction, FiniteSetTheorems

(* The entry is one of the blocks. *)
LEMMA EntryIsBlock == Entry \in Blocks
BY NBlocksAssumption DEF Entry, Blocks

(* NoBlock is not a block. *)
LEMMA NoBlockIsNone == NoBlock \notin Blocks
BY NBlocksAssumption DEF NoBlock, Blocks

(* The successors and predecessors of a block are blocks. *)
LEMMA NeighboursAreBlocks ==
    ASSUME NEW c \in Cfg, NEW b \in Blocks
    PROVE  Succs(c, b) \subseteq Blocks /\ Preds(c, b) \subseteq Blocks
<1>1. c.succs[b] \in Seq(Blocks) /\ c.preds[b] \in Seq(Blocks)
  BY DEF Cfg
<1> QED
  BY <1>1 DEF Succs, Preds

(* A CFG without edges is well formed. *)
THEOREM NewCfgWellFormed == WellFormed(NewCfg)
<1>1. NewCfg \in Cfg
  BY DEF NewCfg, Cfg
<1>2. ASSUME NEW b \in Blocks
      PROVE  Succs(NewCfg, b) = {} /\ Preds(NewCfg, b) = {}
  BY DEF NewCfg, Succs, Preds
<1> QED
  BY <1>1, <1>2 DEF WellFormed

(* The elements of a sequence that one more is appended to. *)
LEMMA AppendElements ==
    ASSUME NEW S, NEW q \in Seq(S), NEW e \in S
    PROVE  /\ Append(q, e) \in Seq(S)
           /\ Len(Append(q, e)) = Len(q) + 1
           /\ \A k \in 1 .. Len(q) : Append(q, e)[k] = q[k]
           /\ Append(q, e)[Len(q) + 1] = e
OBVIOUS

(* The same as a set. *)
LEMMA AppendRange ==
    ASSUME NEW S, NEW q \in Seq(S), NEW e \in S
    PROVE  {Append(q, e)[k] : k \in 1 .. Len(Append(q, e))}
               = {q[k] : k \in 1 .. Len(q)} \union {e}
<1> DEFINE a == Append(q, e)
<1>1. Len(q) \in Nat
  OBVIOUS
<1>2. Len(a) = Len(q) + 1
  BY AppendElements
<1>3. a[Len(q) + 1] = e
  BY AppendElements
<1>4. \A k \in 1 .. Len(q) : a[k] = q[k]
  BY AppendElements
<1>5. 1 .. Len(a) = 1 .. Len(q) \union {Len(q) + 1}
  BY <1>1, <1>2
<1> HIDE DEF a
<1>6. {a[k] : k \in 1 .. Len(a)} = {q[k] : k \in 1 .. Len(q)} \union {e}
  BY <1>3, <1>4, <1>5
<1> QED
  BY <1>6 DEF a

(* Adding an edge to a well-formed CFG gives a well-formed CFG with exactly *)
(* that edge more: add_edge keeps the two lists of edges in step.           *)
THEOREM AddEdgeWellFormed ==
    ASSUME NEW c, WellFormed(c), NEW s \in Blocks, NEW d \in Blocks
    PROVE  /\ WellFormed(AddEdge(c, s, d))
           /\ \A b \in Blocks : Succs(AddEdge(c, s, d), b)
                                    = Succs(c, b) \union (IF b = s THEN {d} ELSE {})
<1> DEFINE n == AddEdge(c, s, d)
<1>1. c \in Cfg
  BY DEF WellFormed
<1>2. \A b \in Blocks : c.succs[b] \in Seq(Blocks) /\ c.preds[b] \in Seq(Blocks)
  BY <1>1 DEF Cfg
<1>3. \A b \in Blocks : /\ n.succs[b] = IF b = s THEN Append(c.succs[b], d) ELSE c.succs[b]
                        /\ n.preds[b] = IF b = d THEN Append(c.preds[b], s) ELSE c.preds[b]
  BY <1>1 DEF AddEdge, Cfg
<1>4. n \in Cfg
  <2>1. n.succs \in [Blocks -> Seq(Blocks)]
    BY <1>1, <1>2, AppendElements DEF AddEdge, Cfg
  <2>2. n.preds \in [Blocks -> Seq(Blocks)]
    BY <1>1, <1>2, AppendElements DEF AddEdge, Cfg
  <2> QED
    BY <2>1, <2>2 DEF AddEdge, Cfg
<1>5. \A b \in Blocks : Succs(n, b) = Succs(c, b) \union (IF b = s THEN {d} ELSE {})
  <2> SUFFICES ASSUME NEW b \in Blocks
               PROVE  Succs(n, b) = Succs(c, b) \union (IF b = s THEN {d} ELSE {})
    OBVIOUS
  <2>1. CASE b = s
    <3>1. n.succs[b] = Append(c.succs[b], d)
      BY <1>3, <2>1
    <3> HIDE DEF n
    <3> QED
      BY <3>1, <1>2, <2>1, AppendRange DEF Succs
  <2>2. CASE b # s
    <3> HIDE DEF n
    <3> QED
      BY <1>3, <2>2 DEF Succs
  <2> QED
    BY <2>1, <2>2
<1>6. \A b \in Blocks : Preds(n, b) = Preds(c, b) \union (IF b = d THEN {s} ELSE {})
  <2> SUFFICES ASSUME NEW b \in Blocks
               PROVE  Preds(n, b) = Preds(c, b) \union (IF b = d THEN {s} ELSE {})
    OBVIOUS
  <2>1. CASE b = d
    <3>1. n.preds[b] = Append(c.preds[b], s)
      BY <1>3, <2>1
    <3> HIDE DEF n
    <3> QED
      BY <3>1, <1>2, <2>1, AppendRange DEF Preds
  <2>2. CASE b # d
    <3> HIDE DEF n
    <3> QED
      BY <1>3, <2>2 DEF Preds
  <2> QED
    BY <2>1, <2>2
<1> HIDE DEF n
<1>7. \A b, e \in Blocks : e \in Succs(n, b) <=> b \in Preds(n, e)
  BY <1>5, <1>6 DEF WellFormed
<1>8. WellFormed(n)
  BY <1>4, <1>7 DEF WellFormed
<1> QED
  BY <1>5, <1>8 DEF n

(* Reachability starts at its start ... *)
LEMMA ReachableStart ==
    ASSUME NEW c, NEW start \in Blocks, NEW avoid, start # avoid
    PROVE  start \in ReachableFrom(c, start, avoid)
BY DEF ReachableFrom, ClosedSets

(* ... is closed under the edges that do not lead to the avoided block ... *)
LEMMA ReachableClosed ==
    ASSUME NEW c \in Cfg, NEW start \in Blocks, NEW avoid,
           NEW b \in ReachableFrom(c, start, avoid),
           NEW d \in Succs(c, b), d # avoid
    PROVE  d \in ReachableFrom(c, start, avoid)
<1>1. start # avoid /\ b \in Blocks
  BY DEF ReachableFrom
<1>2. d \in Blocks
  BY <1>1, NeighboursAreBlocks
<1>3. \A S \in ClosedSets(c, start, avoid) : b \in S
  BY <1>1 DEF ReachableFrom
<1>4. \A S \in ClosedSets(c, start, avoid) : d \in S
  BY <1>3 DEF ClosedSets
<1> QED
  BY <1>1, <1>2, <1>4 DEF ReachableFrom

(* ... never holds the block that is avoided ... *)
LEMMA ReachableAvoids ==
    ASSUME NEW c \in Cfg, NEW start \in Blocks, NEW avoid
    PROVE  avoid \notin ReachableFrom(c, start, avoid)
<1>1. CASE start = avoid
  BY <1>1 DEF ReachableFrom
<1>2. CASE start # avoid
  <2>1. Blocks \ {avoid} \in ClosedSets(c, start, avoid)
    BY <1>2, NeighboursAreBlocks DEF ClosedSets
  <2> QED
    BY <1>2, <2>1 DEF ReachableFrom
<1> QED
  BY <1>1, <1>2

(* ... and has nothing that some closed set does not have. *)
LEMMA ReachableLeast ==
    ASSUME NEW c, NEW start, NEW avoid, start # avoid,
           NEW S \in ClosedSets(c, start, avoid)
    PROVE  ReachableFrom(c, start, avoid) \subseteq S
BY DEF ReachableFrom

(* An edge is a way to its target. *)
LEMMA ReachableEdge ==
    ASSUME NEW c \in Cfg, NEW b \in Blocks, NEW d \in Succs(c, b)
    PROVE  d \in ReachableFrom(c, b, NoBlock)
<1>1. b \in ReachableFrom(c, b, NoBlock)
  BY NoBlockIsNone, ReachableStart
<1>2. d # NoBlock
  BY NoBlockIsNone, NeighboursAreBlocks
<1> QED
  BY <1>1, <1>2, ReachableClosed

(* What can be reached from a block that can be reached can be reached. *)
LEMMA ReachableTransitive ==
    ASSUME NEW c \in Cfg, NEW start \in Blocks, NEW avoid,
           NEW b \in ReachableFrom(c, start, avoid),
           NEW d \in ReachableFrom(c, b, avoid)
    PROVE  d \in ReachableFrom(c, start, avoid)
<1> DEFINE S == ReachableFrom(c, start, avoid)
<1>1. start # avoid /\ b # avoid /\ S \subseteq Blocks
  BY DEF ReachableFrom
<1>2. avoid \notin S
  BY ReachableAvoids
<1>3. \A u \in S : Succs(c, u) \ {avoid} \subseteq S
  BY ReachableClosed
<1>4. S \in ClosedSets(c, b, avoid)
  <2> HIDE DEF S
  <2> QED
    BY <1>1, <1>2, <1>3 DEF ClosedSets, S
<1> QED
  BY <1>1, <1>4, ReachableLeast

(* A way can be made longer by an edge at its start. *)
LEMMA ReachablePrepend ==
    ASSUME NEW c \in Cfg, NEW avoid, NEW b \in Blocks, b # avoid, NEW u \in Succs(c, b),
           NEW d \in ReachableFrom(c, u, avoid)
    PROVE  d \in ReachableFrom(c, b, avoid)
<1>1. u # avoid
  BY DEF ReachableFrom
<1>2. u \in ReachableFrom(c, b, avoid)
  BY <1>1, ReachableStart, ReachableClosed
<1> QED
  BY <1>2, ReachableTransitive

-----------------------------------------------------------------------------

(* A block that can be reached dominates itself, ... *)
LEMMA DominatesItself ==
    ASSUME NEW c \in Cfg, NEW b \in Reachable(c)
    PROVE  Dominates(c, b, b)
BY ReachableAvoids, EntryIsBlock DEF Dominates

(* ... nothing but the entry dominates the entry, ... *)
LEMMA EntryDominators ==
    ASSUME NEW c, NEW a, Dominates(c, a, Entry)
    PROVE  a = Entry
BY ReachableStart, EntryIsBlock DEF Dominates

(* ... and a dominator of a block other than the block itself dominates each *)
(* of its predecessors that can be reached.                                  *)
LEMMA DominatesPreds ==
    ASSUME NEW c, WellFormed(c), NEW a, NEW b \in Blocks, a # b, Dominates(c, a, b),
           NEW u \in Preds(c, b), u \in Reachable(c)
    PROVE  Dominates(c, a, u)
<1>1. c \in Cfg /\ u \in Blocks /\ b \in Succs(c, u)
  BY NeighboursAreBlocks DEF WellFormed
<1>2. u \notin ReachableFrom(c, Entry, a)
  BY <1>1, ReachableClosed, EntryIsBlock DEF Dominates
<1> QED
  BY <1>2 DEF Dominates

(* What dominates the end of a way it is not on dominates its start, ... *)
LEMMA DominatesStart ==
    ASSUME NEW c \in Cfg, NEW a, NEW d, Dominates(c, a, d),
           NEW b \in Reachable(c), d \in ReachableFrom(c, b, a)
    PROVE  Dominates(c, a, b)
<1>1. ASSUME b \in ReachableFrom(c, Entry, a) PROVE FALSE
  BY <1>1, EntryIsBlock, ReachableTransitive DEF Dominates
<1> QED
  BY <1>1 DEF Dominates

(* ... and from a dominator there is a way past any block above it. *)
LEMMA DominatedReached ==
    ASSUME NEW c \in Cfg, NEW a \in Reachable(c), NEW d \in Blocks, a # d,
           ~Dominates(c, d, a), NEW b, Dominates(c, d, b)
    PROVE  b \in ReachableFrom(c, d, a)
<1> DEFINE W == ReachableFrom(c, Entry, d) \union ReachableFrom(c, d, a)
<1>1. a \in ReachableFrom(c, Entry, d)
  BY DEF Dominates
<1>2. Entry # d /\ W \subseteq Blocks
  BY <1>1 DEF ReachableFrom
<1>3. Entry \in W /\ d \in W
  BY <1>2, EntryIsBlock, ReachableStart
<1>4. \A u \in W : Succs(c, u) \subseteq W
  <2> SUFFICES ASSUME NEW u \in W, NEW v \in Succs(c, u) PROVE v \in W
    OBVIOUS
  <2>1. CASE u \in ReachableFrom(c, Entry, d) /\ v # d
    BY <2>1, EntryIsBlock, ReachableClosed
  <2>2. CASE u \in ReachableFrom(c, d, a) /\ v # a
    BY <2>2, ReachableClosed
  <2> QED
    BY <1>1, <1>3, <2>1, <2>2
<1>5. W \in ClosedSets(c, Entry, NoBlock)
  <2> HIDE DEF W
  <2> QED
    BY <1>2, <1>3, <1>4, NoBlockIsNone DEF ClosedSets
<1>6. b \in W
  <2> HIDE DEF W
  <2> QED
    BY <1>5, EntryIsBlock, NoBlockIsNone, ReachableLeast DEF Reachable, Dominates
<1> QED
  BY <1>6 DEF Dominates

(* The table of all dominators has the dominators of each block. *)
LEMMA DominatorTable ==
    ASSUME NEW c, NEW b \in Blocks
    PROVE  DominatorSets(c)[b] = {a \in Blocks : Dominates(c, a, b)}
BY DEF DominatorSets, Dominates

-----------------------------------------------------------------------------

(* The least element of a set of naturals, and the greatest of a set of      *)
(* integers with a bound.  Proofs by induction are made with these two: of   *)
(* the counterexamples to what is claimed they take the least, or the        *)
(* greatest, and refute it.                                                  *)
LEMMA NatMin ==
    ASSUME NEW T \in SUBSET Nat, T # {}
    PROVE  \E m \in T : \A k \in T : m <= k
<1> DEFINE R == OpToRel(<, Nat)
<1>1. IsWellFoundedOn(R, Nat)
  BY NatLessThanWellFounded, Zenon
<1>2. \A x, y \in Nat : <<x, y>> \in R <=> x < y
  BY DEF OpToRel
<1> HIDE DEF R
<1>3. PICK m \in T : \A y \in T : ~(<<y, m>> \in R)
  BY <1>1, WFMin
<1>4. ASSUME NEW k \in T PROVE m <= k
  <2>1. m \in Nat /\ k \in Nat
    OBVIOUS
  <2>2. ~(<<k, m>> \in R)
    BY <1>3
  <2>3. ~(k < m)
    BY <1>2, <2>1, <2>2
  <2> QED
    BY <2>1, <2>3
<1> QED
  BY <1>4

LEMMA IntMax ==
    ASSUME NEW T \in SUBSET Int, T # {}, NEW bound \in Int, \A k \in T : k <= bound
    PROVE  \E m \in T : \A k \in T : k <= m
<1> DEFINE U == {bound - k : k \in T}
<1>1. U \in SUBSET Nat
  OBVIOUS
<1>2. U # {}
  OBVIOUS
<1>3. PICK u \in U : \A v \in U : u <= v
  <2> HIDE DEF U
  <2> QED
    BY <1>1, <1>2, NatMin
<1>4. PICK m \in T : u = bound - m
  BY <1>3
<1>5. ASSUME NEW k \in T PROVE k <= m
  <2>1. k \in Int /\ m \in Int
    OBVIOUS
  <2>2. bound - k \in U
    OBVIOUS
  <2>3. bound - m <= bound - k
    BY <1>3, <1>4, <2>2
  <2> QED
    BY <2>1, <2>3
<1> QED
  BY <1>5

-----------------------------------------------------------------------------
(* Termination.  That a pass ends is liveness.  That it cannot go on for    *)
(* ever is not: for each pass there is a tuple of numbers of what it has    *)
(* left to do, and every step lowers it in the order of a dictionary, in    *)
(* which nothing descends for ever.                                         *)

Lexicographic(m) == LexProductOrdering(OpToRel(<, Nat), Nat, m)

(* Tuples of one length with that order are well-founded: a sequence of   *)
(* tuples each of which is lower than the one before it ends.              *)
LEMMA LexicographicDescentEnds ==
    \A m \in Nat : IsWellFoundedOn(Lexicographic(m), [1 .. m -> Nat])
<1> DEFINE R == OpToRel(<, Nat)
<1>1. IsWellFoundedOn(R, Nat)
  BY NatLessThanWellFounded, Zenon
<1> HIDE DEF R
<1>2. \A m \in Nat : IsWellFoundedOn(LexProductOrdering(R, Nat, m), [1 .. m -> Nat])
  BY <1>1, WFLexProductOrdering
<1> QED
  BY <1>2, Zenon DEF Lexicographic, R

(* A tuple is lower if the first place where it differs has a lower number. *)
LEMMA LowerAt ==
    ASSUME NEW m \in Nat, NEW a \in [1 .. m -> Nat], NEW b \in [1 .. m -> Nat],
           NEW k \in 1 .. m, a[k] < b[k], \A j \in 1 .. k - 1 : a[j] = b[j]
    PROVE  <<a, b>> \in Lexicographic(m)
<1>1. a[k] \in Nat /\ b[k] \in Nat
  OBVIOUS
<1>2. <<a[k], b[k]>> \in OpToRel(<, Nat)
  BY <1>1 DEF OpToRel
<1> QED
  BY <1>2 DEF Lexicographic, LexProductOrdering

(* The same for three numbers written out ... *)
LEMMA LowerOfThree ==
    ASSUME NEW a1 \in Nat, NEW a2 \in Nat, NEW a3 \in Nat,
           NEW b1 \in Nat, NEW b2 \in Nat, NEW b3 \in Nat,
           \/ a1 < b1
           \/ a1 = b1 /\ a2 < b2
           \/ a1 = b1 /\ a2 = b2 /\ a3 < b3
    PROVE  <<<<a1, a2, a3>>, <<b1, b2, b3>>>> \in Lexicographic(3)
<1> DEFINE a == <<a1, a2, a3>>
           b == <<b1, b2, b3>>
<1>1. a \in [1 .. 3 -> Nat] /\ b \in [1 .. 3 -> Nat]
  OBVIOUS
<1>2. PICK k \in 1 .. 3 : a[k] < b[k] /\ \A j \in 1 .. k - 1 : a[j] = b[j]
  OBVIOUS
<1> HIDE DEF a, b
<1>3. <<a, b>> \in Lexicographic(3)
  BY <1>1, <1>2, LowerAt
<1> QED
  BY <1>3 DEF a, b

(* ... and four. *)
LEMMA LowerOfFour ==
    ASSUME NEW a1 \in Nat, NEW a2 \in Nat, NEW a3 \in Nat, NEW a4 \in Nat,
           NEW b1 \in Nat, NEW b2 \in Nat, NEW b3 \in Nat, NEW b4 \in Nat,
           \/ a1 < b1
           \/ a1 = b1 /\ a2 < b2
           \/ a1 = b1 /\ a2 = b2 /\ a3 < b3
           \/ a1 = b1 /\ a2 = b2 /\ a3 = b3 /\ a4 < b4
    PROVE  <<<<a1, a2, a3, a4>>, <<b1, b2, b3, b4>>>> \in Lexicographic(4)
<1> DEFINE a == <<a1, a2, a3, a4>>
           b == <<b1, b2, b3, b4>>
<1>1. a \in [1 .. 4 -> Nat] /\ b \in [1 .. 4 -> Nat]
  OBVIOUS
<1>2. PICK k \in 1 .. 4 : a[k] < b[k] /\ \A j \in 1 .. k - 1 : a[j] = b[j]
  OBVIOUS
<1> HIDE DEF a, b
<1>3. <<a, b>> \in Lexicographic(4)
  BY <1>1, <1>2, LowerAt
<1> QED
  BY <1>3 DEF a, b

(* Tuples put together. *)
LEMMA Together ==
    ASSUME NEW m \in Nat, NEW a \in [1 .. m -> Nat],
           NEW n_ \in Nat, NEW c \in [1 .. n_ -> Nat]
    PROVE  /\ a \o c \in [1 .. m + n_ -> Nat]
           /\ \A k \in 1 .. m : (a \o c)[k] = a[k]
           /\ \A k \in 1 .. n_ : (a \o c)[m + k] = c[k]
<1>1. a \in Seq(Nat) /\ Len(a) = m /\ c \in Seq(Nat) /\ Len(c) = n_
  OBVIOUS
<1>2. a \o c \in Seq(Nat) /\ Len(a \o c) = m + n_
  BY <1>1
<1>3. \A k \in 1 .. m + n_ : (a \o c)[k] = IF k <= m THEN a[k] ELSE c[k - m]
  BY <1>1
<1> DEFINE e == a \o c
<1> HIDE DEF e
<1>4. \A k \in 1 .. m + n_ : e[k] = IF k <= m THEN a[k] ELSE c[k - m]
  BY <1>3 DEF e
<1>5. \A k \in 1 .. m : e[k] = a[k]
  BY <1>4
<1>6. ASSUME NEW k \in 1 .. n_ PROVE e[m + k] = c[k]
  <2>1. m + k \in 1 .. m + n_ /\ ~(m + k <= m) /\ (m + k) - m = k
    OBVIOUS
  <2> QED
    BY <1>4, <2>1
<1>7. e \in [1 .. m + n_ -> Nat]
  <2>1. e \in Seq(Nat) /\ Len(e) = m + n_
    BY <1>2 DEF e
  <2> QED
    BY <2>1
<1> QED
  BY <1>5, <1>6, <1>7 DEF e

(* A step that lowers the first part, whatever becomes of the second ... *)
LEMMA LowerBefore ==
    ASSUME NEW m \in Nat, NEW a, NEW b, <<a, b>> \in Lexicographic(m),
           NEW n_ \in Nat, NEW c \in [1 .. n_ -> Nat], NEW d \in [1 .. n_ -> Nat]
    PROVE  <<a \o c, b \o d>> \in Lexicographic(m + n_)
<1> DEFINE e == a \o c
           f == b \o d
<1>1. /\ a \in [1 .. m -> Nat] /\ b \in [1 .. m -> Nat]
      /\ \E k \in 1 .. m : a[k] < b[k] /\ \A j \in 1 .. k - 1 : a[j] = b[j]
  BY DEF Lexicographic, LexProductOrdering, OpToRel
<1>2. PICK k \in 1 .. m : a[k] < b[k] /\ \A j \in 1 .. k - 1 : a[j] = b[j]
  BY <1>1
<1>3. /\ e \in [1 .. m + n_ -> Nat] /\ f \in [1 .. m + n_ -> Nat]
      /\ \A j \in 1 .. m : e[j] = a[j] /\ f[j] = b[j]
  BY <1>1, Together
<1> HIDE DEF e, f
<1>4. e[k] < f[k] /\ \A j \in 1 .. k - 1 : e[j] = f[j]
  BY <1>2, <1>3
<1>5. m + n_ \in Nat /\ k \in 1 .. m + n_
  OBVIOUS
<1>6. <<e, f>> \in Lexicographic(m + n_)
  BY <1>3, <1>4, <1>5, LowerAt
<1> QED
  BY <1>6 DEF e, f

(* ... or leaves it and lowers the second lowers the whole. *)
LEMMA LowerBehind ==
    ASSUME NEW m \in Nat, NEW a \in [1 .. m -> Nat],
           NEW n_ \in Nat, NEW c, NEW d, <<c, d>> \in Lexicographic(n_)
    PROVE  <<a \o c, a \o d>> \in Lexicographic(m + n_)
<1> DEFINE e == a \o c
           f == a \o d
<1>1. /\ c \in [1 .. n_ -> Nat] /\ d \in [1 .. n_ -> Nat]
      /\ \E k \in 1 .. n_ : c[k] < d[k] /\ \A j \in 1 .. k - 1 : c[j] = d[j]
  BY DEF Lexicographic, LexProductOrdering, OpToRel
<1>2. PICK k \in 1 .. n_ : c[k] < d[k] /\ \A j \in 1 .. k - 1 : c[j] = d[j]
  BY <1>1
<1>3. /\ e \in [1 .. m + n_ -> Nat] /\ f \in [1 .. m + n_ -> Nat]
      /\ \A j \in 1 .. m : e[j] = a[j] /\ f[j] = a[j]
      /\ \A j \in 1 .. n_ : e[m + j] = c[j] /\ f[m + j] = d[j]
  BY <1>1, Together
<1> HIDE DEF e, f
<1>4. e[m + k] < f[m + k]
  BY <1>2, <1>3
<1>5. ASSUME NEW j \in 1 .. (m + k) - 1 PROVE e[j] = f[j]
  <2>1. CASE j <= m
    BY <1>3, <2>1
  <2>2. CASE j > m
    <3>1. j - m \in 1 .. k - 1 /\ j - m \in 1 .. n_ /\ m + (j - m) = j
      BY <2>2
    <3> QED
      BY <1>2, <1>3, <3>1
  <2> QED
    BY <2>1, <2>2
<1>6. m + n_ \in Nat /\ m + k \in 1 .. m + n_
  OBVIOUS
<1>7. <<e, f>> \in Lexicographic(m + n_)
  BY <1>3, <1>4, <1>5, <1>6, LowerAt
<1> QED
  BY <1>7 DEF e, f

(* A set of numbers of what is left that loses an element has fewer. *)
LEMMA FewerLeft ==
    ASSUME NEW S, IsFiniteSet(S), NEW T, T \subseteq S, NEW x \in S, x \notin T
    PROVE  Cardinality(T) \in Nat /\ Cardinality(S) \in Nat /\ Cardinality(T) < Cardinality(S)
<1>1. IsFiniteSet(T) /\ Cardinality(T) <= Cardinality(S) /\ Cardinality(T) # Cardinality(S)
  BY FS_Subset
<1>2. Cardinality(T) \in Nat /\ Cardinality(S) \in Nat
  BY <1>1, FS_CardinalityType
<1> QED
  BY <1>1, <1>2

=============================================================================
