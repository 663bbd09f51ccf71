------------------------ MODULE LengauerTarjanProofs ------------------------
(***************************************************************************)
(* lt_slow on every graph of any size, from the search to the last loop.   *)
(*                                                                         *)
(* The lemmas are about graphs, numberings, forests and buckets given as   *)
(* parameters.  Those of the search say what numbers and parents are like  *)
(* while a stack holds the blocks still to be visited.  SearchTree is what *)
(* it leaves: a depth-first tree, for which the theory of semidominators   *)
(* is proved.  Forest and Buckets are the state of the first loop between  *)
(* two of its steps.  Inv puts them together.                              *)
(***************************************************************************)
EXTENDS LengauerTarjan, DominanceProofs, FiniteSetTheorems, FunctionTheorems

(* The arrays that hold links between blocks. *)
Links == [Blocks -> Blocks \union {UNDEFINED_BBNUM}]

(* UNDEFINED_BBNUM is the number of no block. *)
LEMMA UndefinedIsNone == UNDEFINED_BBNUM \notin Blocks
BY NBlocksAssumption DEF UNDEFINED_BBNUM, Blocks

-----------------------------------------------------------------------------
(* The way up a forest. *)

(* The way up from b starts at b, *)
LEMMA UpStart ==
    ASSUME NEW f, NEW b \in Blocks
    PROVE  b \in UpFrom(f, b) /\ UpFrom(f, b) \subseteq Blocks
BY DEF UpFrom

(* goes on from a block to its parent, *)
LEMMA UpClosed ==
    ASSUME NEW f \in Links, NEW b, NEW x \in UpFrom(f, b), f[x] # UNDEFINED_BBNUM
    PROVE  f[x] \in UpFrom(f, b)
<1>1. x \in Blocks
  BY DEF UpFrom
<1>2. f[x] \in Blocks
  BY <1>1 DEF Links
<1> QED
  BY <1>1, <1>2 DEF UpFrom

(* and stays in every set that is closed in this way. *)
LEMMA UpLeast ==
    ASSUME NEW f, NEW S \in SUBSET Blocks, NEW b \in S,
           \A x \in S : f[x] = UNDEFINED_BBNUM \/ f[x] \in S
    PROVE  UpFrom(f, b) \subseteq S
BY DEF UpFrom

(* What is above a block of the way is on the way. *)
LEMMA UpTransitive ==
    ASSUME NEW f \in Links, NEW b, NEW x \in UpFrom(f, b)
    PROVE  UpFrom(f, x) \subseteq UpFrom(f, b)
<1>1. UpFrom(f, b) \subseteq Blocks
  BY DEF UpFrom
<1>2. \A y \in UpFrom(f, b) : f[y] = UNDEFINED_BBNUM \/ f[y] \in UpFrom(f, b)
  BY UpClosed
<1> QED
  BY <1>1, <1>2, UpLeast

(* The way from a block is the block and the way from its parent, *)
LEMMA UpStep ==
    ASSUME NEW f \in Links, NEW b \in Blocks, f[b] # UNDEFINED_BBNUM
    PROVE  UpFrom(f, b) = {b} \union UpFrom(f, f[b])
<1>1. f[b] \in Blocks
  BY DEF Links
<1>2. UpFrom(f, f[b]) \subseteq UpFrom(f, b)
  BY UpStart, UpClosed, UpTransitive
<1> DEFINE S == {b} \union UpFrom(f, f[b])
<1>3. S \in SUBSET Blocks /\ f[b] \in S
  BY <1>1, UpStart
<1>4. ASSUME NEW x \in S PROVE f[x] = UNDEFINED_BBNUM \/ f[x] \in S
  BY <1>3, UpClosed
<1>5. UpFrom(f, b) \subseteq S
  <2>1. b \in S
    OBVIOUS
  <2> HIDE DEF S
  <2> QED
    BY <1>3, <1>4, <2>1, UpLeast
<1> QED
  BY <1>2, <1>5, UpStart

(* or the block alone. *)
LEMMA UpRoot ==
    ASSUME NEW f, NEW b \in Blocks, f[b] = UNDEFINED_BBNUM
    PROVE  UpFrom(f, b) = {b}
<1>1. UpFrom(f, b) \subseteq {b}
  BY UpLeast
<1> QED
  BY <1>1, UpStart

(* It does not change where the links do not. *)
LEMMA UpSame ==
    ASSUME NEW f \in Links, NEW g \in Links, NEW b \in Blocks,
           \A x \in UpFrom(f, b) : g[x] = f[x]
    PROVE  UpFrom(g, b) = UpFrom(f, b)
<1>1. UpFrom(f, b) \subseteq Blocks /\ b \in UpFrom(f, b)
  BY UpStart
<1>2. \A x \in UpFrom(f, b) : g[x] = UNDEFINED_BBNUM \/ g[x] \in UpFrom(f, b)
  BY UpClosed
<1>3. UpFrom(g, b) \subseteq UpFrom(f, b)
  BY <1>1, <1>2, UpLeast
<1>4. \A x \in UpFrom(g, b) : f[x] = UNDEFINED_BBNUM \/ f[x] \in UpFrom(g, b)
  BY <1>3, UpClosed
<1>5. UpFrom(g, b) \subseteq Blocks /\ b \in UpFrom(g, b)
  BY UpStart
<1>6. UpFrom(f, b) \subseteq UpFrom(g, b)
  BY <1>4, <1>5, UpLeast
<1> QED
  BY <1>3, <1>6

-----------------------------------------------------------------------------
(* The search numbers the blocks 1, 2, ...: num maps a block to its number, *)
(* or 0, vtx a number to its block, and n numbers are given.                *)

IsNumbering(num, vtx, n) ==
    /\ n \in 0 .. NBlocks
    /\ num \in [Blocks -> 0 .. n]
    /\ vtx \in [Numbers -> Blocks \union {UNDEFINED_BBNUM}]
    /\ \A k \in Numbers : k <= n => vtx[k] \in Blocks /\ num[vtx[k]] = k
    /\ \A k \in Numbers : k > n => vtx[k] = UNDEFINED_BBNUM
    /\ \A b \in Blocks : num[b] >= 1 => vtx[num[b]] = b

(* There are as many numbers as blocks. *)
LEMMA BlockCount == IsFiniteSet(Blocks) /\ Cardinality(Blocks) = NBlocks
BY NBlocksAssumption, FS_Interval DEF Blocks

(* A block without a number leaves a number over, *)
LEMMA RoomForMore ==
    ASSUME NEW num, NEW vtx, NEW n, IsNumbering(num, vtx, n),
           NEW w \in Blocks, num[w] = 0
    PROVE  n < NBlocks
<1>1. IsFiniteSet(Blocks \ {w}) /\ Cardinality(Blocks \ {w}) = NBlocks - 1
  BY BlockCount, FS_RemoveElement
<1>2. NBlocks \in Nat /\ n \in Nat /\ n <= NBlocks
  BY NBlocksAssumption DEF IsNumbering
<1>3. IsFiniteSet(1 .. n) /\ Cardinality(1 .. n) = n
  BY <1>2, FS_Interval
<1> DEFINE f == [k \in 1 .. n |-> vtx[k]]
<1>4. \A k \in 1 .. n : k \in Numbers /\ vtx[k] \in Blocks /\ num[vtx[k]] = k
  BY <1>2 DEF IsNumbering, Numbers
<1>5. f \in Injection(1 .. n, Blocks \ {w})
  <2>1. \A k \in 1 .. n : vtx[k] \in Blocks \ {w}
    BY <1>4
  <2>2. f \in [1 .. n -> Blocks \ {w}]
    BY <2>1
  <2>3. \A j, k \in 1 .. n : f[j] = f[k] => j = k
    BY <1>4
  <2> HIDE DEF f
  <2> QED
    BY <2>2, <2>3, Fun_IsInj
<1>6. n <= NBlocks - 1
  <2> HIDE DEF f
  <2> QED
    BY <1>1, <1>3, <1>5, FS_Injection
<1> QED
  BY <1>2, <1>6

(* and no block without one leaves none. *)
LEMMA NoNumberLeft ==
    ASSUME NEW num, NEW vtx, NEW n, IsNumbering(num, vtx, n),
           \A b \in Blocks : num[b] # 0
    PROVE  n = NBlocks
<1>1. NBlocks \in Nat /\ n \in Nat /\ n <= NBlocks
  BY NBlocksAssumption DEF IsNumbering
<1>2. IsFiniteSet(1 .. n) /\ Cardinality(1 .. n) = n
  BY <1>1, FS_Interval
<1>3. num \in Injection(Blocks, 1 .. n)
  <2>1. num \in [Blocks -> 1 .. n]
    BY <1>1 DEF IsNumbering
  <2>2. \A a, b \in Blocks : num[a] = num[b] => a = b
    BY <1>1 DEF IsNumbering
  <2> QED
    BY <2>1, <2>2, Fun_IsInj
<1>4. NBlocks <= n
  BY <1>2, <1>3, BlockCount, FS_Injection
<1> QED
  BY <1>1, <1>4

(* Giving a block without a number the next one keeps the numbering. *)
LEMMA NumberNext ==
    ASSUME NEW num, NEW vtx, NEW n, IsNumbering(num, vtx, n),
           NEW w \in Blocks, num[w] = 0
    PROVE  IsNumbering([num EXCEPT ![w] = n + 1], [vtx EXCEPT ![n + 1] = w], n + 1)
<1> DEFINE m == [num EXCEPT ![w] = n + 1]
           v == [vtx EXCEPT ![n + 1] = w]
<1>1. NBlocks \in Nat /\ n \in Nat /\ n + 1 <= NBlocks
  <2>1. n < NBlocks
    BY RoomForMore
  <2> QED
    BY <2>1, NBlocksAssumption DEF IsNumbering
<1>2. num \in [Blocks -> 0 .. n] /\ vtx \in [Numbers -> Blocks \union {UNDEFINED_BBNUM}]
  BY DEF IsNumbering
<1>3. m[w] = n + 1 /\ \A b \in Blocks : b # w => m[b] = num[b]
  BY <1>2
<1>4. v[n + 1] = w /\ \A k \in Numbers : k # n + 1 => v[k] = vtx[k]
  BY <1>1, <1>2 DEF Numbers
<1>5. m \in [Blocks -> 0 .. n + 1]
  <2>1. \A b \in Blocks : num[b] \in 0 .. n + 1
    BY <1>1, <1>2
  <2> QED
    BY <1>1, <1>2, <2>1
<1>6. v \in [Numbers -> Blocks \union {UNDEFINED_BBNUM}]
  BY <1>2
<1> HIDE DEF m, v
<1>7. ASSUME NEW k \in Numbers, k <= n + 1
      PROVE  v[k] \in Blocks /\ m[v[k]] = k
  <2>1. CASE k = n + 1
    BY <1>3, <1>4, <2>1
  <2>2. CASE k # n + 1
    <3>1. k <= n /\ k # 0
      BY <1>1, <1>7, <2>2 DEF Numbers
    <3>2. vtx[k] \in Blocks /\ num[vtx[k]] = k
      BY <3>1 DEF IsNumbering
    <3> QED
      BY <1>3, <1>4, <2>2, <3>1, <3>2
  <2> QED
    BY <2>1, <2>2
<1>8. ASSUME NEW k \in Numbers, k > n + 1
      PROVE  v[k] = UNDEFINED_BBNUM
  <2>1. k > n /\ k # n + 1
    BY <1>1, <1>8 DEF Numbers
  <2> QED
    BY <1>4, <2>1 DEF IsNumbering
<1>9. ASSUME NEW b \in Blocks, m[b] >= 1
      PROVE  v[m[b]] = b
  <2>1. CASE b = w
    BY <1>3, <1>4, <2>1
  <2>2. CASE b # w
    <3>1. m[b] = num[b] /\ num[b] \in 0 .. n
      BY <1>2, <1>3, <2>2
    <3>2. num[b] \in Numbers /\ num[b] # n + 1
      BY <1>1, <1>9, <3>1 DEF Numbers
    <3> QED
      BY <1>4, <1>9, <3>1, <3>2 DEF IsNumbering
  <2> QED
    BY <2>1, <2>2
<1>10. n + 1 \in 0 .. NBlocks
  BY <1>1
<1>11. IsNumbering(m, v, n + 1)
  BY <1>5, <1>6, <1>7, <1>8, <1>9, <1>10 DEF IsNumbering
<1> QED
  BY <1>11 DEF m, v

-----------------------------------------------------------------------------
(* A depth-first tree of the blocks numbered so far, those not numbered     *)
(* hanging where they would be visited from.                                *)

(* Parents are numbered, and before their children. *)
TreeEdges(c, num, par) ==
    /\ par \in Links
    /\ par[Entry] = UNDEFINED_BBNUM
    /\ num[Entry] = 1
    /\ \A b \in Blocks : par[b] # UNDEFINED_BBNUM =>
          par[b] \in Preds(c, b) /\ num[par[b]] >= 1
    /\ \A b \in Blocks \ {Entry} : num[b] >= 1 =>
          par[b] # UNDEFINED_BBNUM /\ num[par[b]] < num[b]

(* An edge up in number goes to a descendant. *)
EdgesUp(c, num, par) ==
    \A v \in Blocks : \A w \in Succs(c, v) :
        num[v] >= 1 /\ num[v] < num[w] => v \in UpFrom(par, w)

(* The descendants of a block are numbered one after the other. *)
Intervals(num, par) ==
    \A u, x, y \in Blocks :
        /\ num[x] >= 1
        /\ u \in UpFrom(par, x)
        /\ num[u] <= num[y]
        /\ num[y] <= num[x]
        => u \in UpFrom(par, y)

(* b is on the stack. *)
OnStack(stk, b) == \E k \in 1 .. Len(stk) : stk[k] = b

(* d is on the stack, above all entries of b. *)
Beneath(stk, b, d) ==
    \E p \in 1 .. Len(stk) : stk[p] = d /\ \A j \in p .. Len(stk) : stk[j] # b

(* The blocks without a number that have a parent are those on the stack.   *)
(* The parents are all on the way up from the block visited last, the lower *)
(* the entry on the stack the higher the parent.                            *)
StackInv(num, par, stk, cur) ==
    /\ \A b \in Blocks : num[b] = 0 => (OnStack(stk, b) <=> par[b] # UNDEFINED_BBNUM)
    /\ \A b \in Blocks : num[b] = 0 /\ par[b] # UNDEFINED_BBNUM => par[b] \in UpFrom(par, cur)
    /\ \A b, d \in Blocks :
          num[b] = 0 /\ num[d] = 0 /\ OnStack(stk, b) /\ Beneath(stk, b, d)
              => par[b] \in UpFrom(par, par[d])

(* An edge from a numbered block to one that is not will be looked at, or   *)
(* that one will be visited from a descendant of the edge's source.         *)
EdgesLeft(c, num, par, cur, idx) ==
    \A v \in Blocks : \A w \in Succs(c, v) :
        num[v] >= 1 /\ num[w] = 0 =>
            \/ v = cur /\ \E k \in 1 .. idx : c.succs[v][k] = w
            \/ par[w] # UNDEFINED_BBNUM /\ v \in UpFrom(par, par[w])

(* What is above a numbered block is numbered, and lower. *)
LEMMA AboveIsLower ==
    ASSUME NEW c, NEW n \in Nat, NEW num \in [Blocks -> 0 .. n], NEW par,
           TreeEdges(c, num, par),
           NEW b \in Blocks, num[b] >= 1, NEW x \in UpFrom(par, b)
    PROVE  x \in Blocks /\ num[x] >= 1 /\ num[x] <= num[b]
<1> DEFINE S == {y \in Blocks : num[y] >= 1 /\ num[y] <= num[b]}
<1>1. ASSUME NEW y \in S PROVE par[y] = UNDEFINED_BBNUM \/ par[y] \in S
  <2>1. CASE y = Entry
    BY <2>1 DEF TreeEdges
  <2>2. CASE y # Entry
    <3>1. par[y] # UNDEFINED_BBNUM /\ num[par[y]] < num[y] /\ num[par[y]] >= 1
      BY <2>2 DEF TreeEdges
    <3>2. par[y] \in Blocks
      BY <3>1 DEF TreeEdges, Links
    <3>3. num[par[y]] \in Nat /\ num[y] \in Nat /\ num[b] \in Nat
      BY <3>2
    <3> QED
      BY <3>1, <3>2, <3>3
  <2> QED
    BY <2>1, <2>2
<1>2. b \in S /\ S \in SUBSET Blocks
  OBVIOUS
<1>3. UpFrom(par, b) \subseteq S
  <2> HIDE DEF S
  <2> QED
    BY <1>1, <1>2, UpLeast
<1> QED
  BY <1>3

(* The visit of w, the top of the stack. *)
LEMMA VisitKeepsTree ==
    ASSUME NEW c, WellFormed(c), NEW n \in Nat, NEW num \in [Blocks -> 0 .. n], NEW par,
           NEW cur \in Blocks, n <= num[cur], n >= 1,
           TreeEdges(c, num, par), EdgesUp(c, num, par), Intervals(num, par),
           EdgesLeft(c, num, par, cur, 0),
           NEW w \in Blocks, num[w] = 0, par[w] # UNDEFINED_BBNUM,
           par[w] \in UpFrom(par, cur),
           NEW m \in [Blocks -> 0 .. n + 1], m[w] = n + 1,
           \A b \in Blocks : b # w => m[b] = num[b]
    PROVE  TreeEdges(c, m, par) /\ EdgesUp(c, m, par) /\ Intervals(m, par)
<1>1. par \in Links /\ par[w] \in Blocks /\ num[par[w]] >= 1 /\ par[w] # w
  BY DEF TreeEdges, Links
<1>2. UpFrom(par, w) = {w} \union UpFrom(par, par[w])
  BY <1>1, UpStep
<1>3. \A b \in Blocks : num[b] \in Nat /\ num[b] <= n
  OBVIOUS
<1>4. TreeEdges(c, m, par)
  <2>1. par[Entry] = UNDEFINED_BBNUM /\ m[Entry] = 1
    BY EntryIsBlock DEF TreeEdges
  <2>2. ASSUME NEW b \in Blocks, par[b] # UNDEFINED_BBNUM
        PROVE  par[b] \in Preds(c, b) /\ m[par[b]] >= 1
    <3>1. par[b] \in Preds(c, b) /\ num[par[b]] >= 1 /\ par[b] \in Blocks
      BY <2>2 DEF TreeEdges, Links
    <3>2. par[b] # w
      BY <3>1
    <3> QED
      BY <3>1, <3>2
  <2>3. ASSUME NEW b \in Blocks \ {Entry}, m[b] >= 1
        PROVE  par[b] # UNDEFINED_BBNUM /\ m[par[b]] < m[b]
    <3>1. CASE b = w
      <4>1. m[par[w]] = num[par[w]] /\ m[par[w]] <= n
        BY <1>1, <1>3
      <4> QED
        BY <3>1, <4>1, <1>1, <1>3
    <3>2. CASE b # w
      <4>1. num[b] >= 1 /\ m[b] = num[b]
        BY <2>3, <3>2
      <4>2. par[b] # UNDEFINED_BBNUM /\ num[par[b]] < num[b] /\ num[par[b]] >= 1
        BY <4>1 DEF TreeEdges
      <4>3. par[b] \in Blocks /\ par[b] # w
        BY <4>2, <1>1 DEF Links
      <4> QED
        BY <4>1, <4>2, <4>3
    <3> QED
      BY <3>1, <3>2
  <2> QED
    BY <1>1, <2>1, <2>2, <2>3 DEF TreeEdges
<1>5. EdgesUp(c, m, par)
  <2> SUFFICES ASSUME NEW v \in Blocks, NEW x \in Succs(c, v), m[v] >= 1, m[v] < m[x]
               PROVE  v \in UpFrom(par, x)
    BY DEF EdgesUp
  <2>1. x \in Blocks
    BY NeighboursAreBlocks DEF WellFormed
  <2>2. v # w /\ m[v] = num[v]
    <3>1. m[x] <= n + 1 /\ m[x] \in Nat /\ m[v] \in Nat
      BY <2>1
    <3> QED
      BY <3>1
  <2>3. CASE x = w
    <3>1. v \in UpFrom(par, par[w])
      BY <2>2, <2>3 DEF EdgesLeft
    <3> QED
      BY <3>1, <1>2, <2>3
  <2>4. CASE x # w
    <3>1. m[x] = num[x]
      BY <2>1, <2>4
    <3> QED
      BY <2>2, <3>1 DEF EdgesUp
  <2> QED
    BY <2>3, <2>4
<1>6. Intervals(m, par)
  <2> SUFFICES ASSUME NEW u \in Blocks, NEW x \in Blocks, NEW y \in Blocks, m[x] >= 1,
                      u \in UpFrom(par, x), m[u] <= m[y], m[y] <= m[x]
               PROVE  u \in UpFrom(par, y)
    BY DEF Intervals
  <2>1. m[u] \in Nat /\ m[x] \in Nat /\ m[y] \in Nat
    OBVIOUS
  <2>2. CASE x # w
    <3>1. m[x] = num[x] /\ num[x] <= n
      BY <2>2, <1>3
    <3>2. num[u] >= 1 /\ u # w
      BY <3>1, AboveIsLower
    <3>3. y # w
      BY <2>1, <3>1
    <3>4. m[u] = num[u] /\ m[y] = num[y]
      BY <3>2, <3>3
    <3> QED
      BY <3>1, <3>4 DEF Intervals
  <2>3. CASE x = w /\ y = w
    BY <2>3
  <2>4. CASE x = w /\ y # w
    <3>1. m[y] = num[y] /\ num[y] <= n
      BY <2>4, <1>3
    <3>2. u # w
      BY <2>1, <3>1
    <3>3. u \in UpFrom(par, par[w])
      BY <1>2, <2>4, <3>2
    <3>4. u \in UpFrom(par, cur)
      BY <1>1, <3>3, UpTransitive
    <3>5. num[u] <= num[y] /\ num[y] <= num[cur]
      BY <3>1, <3>2
    <3> QED
      BY <3>4, <3>5 DEF Intervals
  <2> QED
    BY <2>2, <2>3, <2>4
<1> QED
  BY <1>4, <1>5, <1>6

(* A block with a number is taken from the top of the stack. *)
LEMMA PopKeepsStack ==
    ASSUME NEW num, NEW par, NEW cur, NEW stk \in Seq(Blocks), stk # <<>>,
           num[stk[Len(stk)]] # 0,
           StackInv(num, par, stk, cur)
    PROVE  StackInv(num, par, SubSeq(stk, 1, Len(stk) - 1), cur)
<1> DEFINE t == SubSeq(stk, 1, Len(stk) - 1)
           top == stk[Len(stk)]
<1>1. Len(stk) \in Nat /\ Len(stk) >= 1
  OBVIOUS
<1>2. Len(t) = Len(stk) - 1 /\ \A k \in 1 .. Len(stk) - 1 : t[k] = stk[k]
  BY <1>1
<1> HIDE DEF t
<1>3. ASSUME NEW b \in Blocks, num[b] = 0
      PROVE  OnStack(t, b) <=> OnStack(stk, b)
  <2>1. b # top
    BY <1>3
  <2>2. 1 .. Len(stk) = 1 .. Len(t) \union {Len(stk)}
    BY <1>1, <1>2
  <2> QED
    BY <1>2, <2>1, <2>2 DEF OnStack
<1>4. ASSUME NEW b \in Blocks, NEW d \in Blocks, num[b] = 0, num[d] = 0, Beneath(t, b, d)
      PROVE  Beneath(stk, b, d)
  <2>1. PICK p \in 1 .. Len(t) : t[p] = d /\ \A j \in p .. Len(t) : t[j] # b
    BY <1>4 DEF Beneath
  <2>2. p \in 1 .. Len(stk) /\ stk[p] = d
    BY <1>1, <1>2, <2>1
  <2>3. ASSUME NEW j \in p .. Len(stk) PROVE stk[j] # b
    <3>1. CASE j = Len(stk)
      BY <1>4, <3>1
    <3>2. CASE j # Len(stk)
      <4>1. j \in p .. Len(t) /\ j \in 1 .. Len(stk) - 1
        <5>1. Len(stk) - 1 = Len(t) /\ p \in Nat /\ p >= 1 /\ Len(stk) \in Nat
          BY <1>1, <1>2
        <5>2. j \in Nat /\ p <= j /\ j <= Len(stk)
          BY <5>1
        <5> HIDE DEF top
        <5> QED
          BY <3>2, <5>1, <5>2
      <4> QED
        BY <1>2, <2>1, <4>1
    <3> QED
      BY <3>1, <3>2
  <2> QED
    BY <2>2, <2>3 DEF Beneath
<1>5. StackInv(num, par, t, cur)
  BY <1>3, <1>4 DEF StackInv
<1> QED
  BY <1>5 DEF t

(* The visit of w, the top of the stack: its children are to come. *)
LEMMA VisitKeepsStack ==
    ASSUME NEW num, NEW m, NEW par \in Links, NEW cur \in Blocks,
           NEW stk \in Seq(Blocks), stk # <<>>,
           NEW w, w = stk[Len(stk)], num[w] = 0, par[w] # UNDEFINED_BBNUM, m[w] # 0,
           \A b \in Blocks : b # w => m[b] = num[b],
           StackInv(num, par, stk, cur)
    PROVE  StackInv(m, par, SubSeq(stk, 1, Len(stk) - 1), w)
<1>1. Len(stk) \in Nat /\ Len(stk) >= 1 /\ w \in Blocks
  OBVIOUS
<1>2. StackInv(m, par, stk, w)
  <2>1. UpFrom(par, par[w]) \subseteq UpFrom(par, w)
    BY <1>1, UpStep
  <2>2. ASSUME NEW b \in Blocks, m[b] = 0, par[b] # UNDEFINED_BBNUM
        PROVE  par[b] \in UpFrom(par, w)
    <3>1. b # w /\ num[b] = 0
      BY <2>2
    <3>2. OnStack(stk, b)
      BY <2>2, <3>1 DEF StackInv
    <3>3. Beneath(stk, b, w)
      BY <1>1, <3>1 DEF Beneath
    <3>4. par[b] \in UpFrom(par, par[w])
      BY <1>1, <3>1, <3>2, <3>3 DEF StackInv
    <3> QED
      BY <2>1, <3>4
  <2>3. \A b \in Blocks : m[b] = 0 => num[b] = 0
    OBVIOUS
  <2> QED
    BY <2>2, <2>3 DEF StackInv
<1> QED
  BY <1>2, PopKeepsStack

(* All edges of the visited block are left to be looked at. *)
LEMMA VisitKeepsEdges ==
    ASSUME NEW c, WellFormed(c), NEW num, NEW m, NEW par, NEW cur,
           NEW w \in Blocks, num[w] = 0, m[w] # 0,
           \A b \in Blocks : b # w => m[b] = num[b],
           EdgesLeft(c, num, par, cur, 0)
    PROVE  EdgesLeft(c, m, par, w, Len(c.succs[w]))
<1> SUFFICES ASSUME NEW v \in Blocks, NEW x \in Succs(c, v), m[v] >= 1, m[x] = 0
             PROVE  \/ v = w /\ \E k \in 1 .. Len(c.succs[w]) : c.succs[v][k] = x
                    \/ par[x] # UNDEFINED_BBNUM /\ v \in UpFrom(par, par[x])
  BY DEF EdgesLeft
<1>1. x \in Blocks /\ num[x] = 0
  BY NeighboursAreBlocks DEF WellFormed
<1>2. CASE v = w
  BY <1>2 DEF Succs
<1>3. CASE v # w
  <2>1. num[v] >= 1
    BY <1>3
  <2> QED
    BY <1>1, <2>1 DEF EdgesLeft
<1> QED
  BY <1>2, <1>3

(* A successor of the visited block is pushed and becomes its child.  What *)
(* is above the numbered blocks is as it was.                              *)
LEMMA PushKeepsWays ==
    ASSUME NEW c, NEW n \in Nat, NEW num \in [Blocks -> 0 .. n], NEW par,
           TreeEdges(c, num, par),
           NEW s \in Blocks, num[s] = 0, NEW cur \in Blocks,
           NEW b \in Blocks, num[b] >= 1
    PROVE  UpFrom([par EXCEPT ![s] = cur], b) = UpFrom(par, b)
<1>1. par \in Links /\ [par EXCEPT ![s] = cur] \in Links
  BY DEF TreeEdges, Links
<1>2. \A x \in UpFrom(par, b) : x # s
  BY AboveIsLower
<1>3. \A x \in UpFrom(par, b) : x \in Blocks
  BY UpStart
<1>4. \A x \in UpFrom(par, b) : [par EXCEPT ![s] = cur][x] = par[x]
  BY <1>1, <1>2, <1>3 DEF Links
<1> QED
  BY <1>1, <1>4, UpSame

(* So is the tree of the numbered blocks, *)
LEMMA PushKeepsTree ==
    ASSUME NEW c, WellFormed(c), NEW n \in Nat, NEW num \in [Blocks -> 0 .. n], NEW par,
           TreeEdges(c, num, par), EdgesUp(c, num, par), Intervals(num, par),
           NEW cur \in Blocks, num[cur] >= 1, NEW s \in Succs(c, cur), num[s] = 0
    PROVE  LET q == [par EXCEPT ![s] = cur]
           IN  TreeEdges(c, num, q) /\ EdgesUp(c, num, q) /\ Intervals(num, q)
<1> DEFINE q == [par EXCEPT ![s] = cur]
<1>1. s \in Blocks /\ cur \in Preds(c, s)
  <2>1. s \in Blocks
    BY NeighboursAreBlocks DEF WellFormed
  <2> QED
    BY <2>1 DEF WellFormed
<1>2. par \in Links /\ q \in Links
  BY DEF TreeEdges, Links
<1>3. q[s] = cur /\ \A b \in Blocks : b # s => q[b] = par[b]
  BY <1>1, <1>2 DEF Links
<1>4. \A b \in Blocks : num[b] >= 1 => UpFrom(q, b) = UpFrom(par, b)
  BY <1>1, PushKeepsWays
<1>5. \A b \in Blocks : num[b] \in Nat
  OBVIOUS
<1>6. cur # UNDEFINED_BBNUM
  BY UndefinedIsNone
<1> HIDE DEF q
<1>7. TreeEdges(c, num, q)
  <2>1. num[Entry] = 1 /\ s # Entry
    BY DEF TreeEdges
  <2>2. q[Entry] = UNDEFINED_BBNUM
    BY <1>3, <2>1, EntryIsBlock DEF TreeEdges
  <2>3. ASSUME NEW b \in Blocks, q[b] # UNDEFINED_BBNUM
        PROVE  q[b] \in Preds(c, b) /\ num[q[b]] >= 1
    BY <1>1, <1>3, <2>3 DEF TreeEdges
  <2>4. ASSUME NEW b \in Blocks \ {Entry}, num[b] >= 1
        PROVE  q[b] # UNDEFINED_BBNUM /\ num[q[b]] < num[b]
    <3>1. b # s
      BY <2>4
    <3> QED
      BY <1>3, <2>4, <3>1 DEF TreeEdges
  <2> QED
    BY <1>2, <2>1, <2>2, <2>3, <2>4 DEF TreeEdges
<1>8. EdgesUp(c, num, q)
  <2> SUFFICES ASSUME NEW v \in Blocks, NEW w \in Succs(c, v), num[v] >= 1, num[v] < num[w]
               PROVE  v \in UpFrom(q, w)
    BY DEF EdgesUp
  <2>1. w \in Blocks
    BY NeighboursAreBlocks DEF WellFormed
  <2>2. num[w] >= 1
    BY <1>5, <2>1
  <2>3. v \in UpFrom(par, w)
    BY DEF EdgesUp
  <2> QED
    BY <1>4, <2>1, <2>2, <2>3
<1>9. Intervals(num, q)
  <2> SUFFICES ASSUME NEW u \in Blocks, NEW x \in Blocks, NEW y \in Blocks, num[x] >= 1,
                      u \in UpFrom(q, x), num[u] <= num[y], num[y] <= num[x]
               PROVE  u \in UpFrom(q, y)
    BY DEF Intervals
  <2>1. u \in UpFrom(par, x)
    BY <1>4
  <2>2. num[u] >= 1
    BY <2>1, AboveIsLower
  <2>3. num[y] >= 1
    BY <1>5, <2>2
  <2>4. u \in UpFrom(par, y)
    BY <2>1 DEF Intervals
  <2> QED
    BY <1>4, <2>3, <2>4
<1> QED
  BY <1>7, <1>8, <1>9 DEF q

(* what is known of the stack, *)
LEMMA PushKeepsStack ==
    ASSUME NEW c, NEW n \in Nat, NEW num \in [Blocks -> 0 .. n], NEW par,
           TreeEdges(c, num, par),
           NEW cur \in Blocks, num[cur] >= 1, NEW s \in Blocks, num[s] = 0,
           NEW stk \in Seq(Blocks), StackInv(num, par, stk, cur)
    PROVE  StackInv(num, [par EXCEPT ![s] = cur], Append(stk, s), cur)
<1> DEFINE q == [par EXCEPT ![s] = cur]
           t == Append(stk, s)
<1>1. par \in Links
  BY DEF TreeEdges
<1>2. q[s] = cur /\ \A b \in Blocks : b # s => q[b] = par[b]
  BY <1>1 DEF Links
<1>3. UpFrom(q, cur) = UpFrom(par, cur)
  BY PushKeepsWays
<1>4. \A b \in Blocks : num[b] >= 1 => UpFrom(q, b) = UpFrom(par, b)
  BY PushKeepsWays
<1>5. /\ Len(stk) \in Nat
      /\ Len(t) = Len(stk) + 1
      /\ t[Len(stk) + 1] = s
      /\ \A k \in 1 .. Len(stk) : t[k] = stk[k]
  BY AppendElements
<1>6. cur # UNDEFINED_BBNUM
  BY UndefinedIsNone
<1> HIDE DEF q, t
<1>7. \A b \in Blocks : OnStack(t, b) <=> OnStack(stk, b) \/ b = s
  <2>1. 1 .. Len(t) = 1 .. Len(stk) \union {Len(stk) + 1}
    BY <1>5
  <2> QED
    BY <1>5, <2>1 DEF OnStack
<1>8. ASSUME NEW b \in Blocks, num[b] = 0
      PROVE  OnStack(t, b) <=> q[b] # UNDEFINED_BBNUM
  BY <1>2, <1>6, <1>7, <1>8 DEF StackInv
<1>9. ASSUME NEW b \in Blocks, num[b] = 0, q[b] # UNDEFINED_BBNUM
      PROVE  q[b] \in UpFrom(q, cur)
  <2>1. CASE b = s
    BY <1>2, <2>1, UpStart
  <2>2. CASE b # s
    BY <1>2, <1>3, <1>9, <2>2 DEF StackInv
  <2> QED
    BY <2>1, <2>2
<1>10. ASSUME NEW b \in Blocks, NEW d \in Blocks, num[b] = 0, num[d] = 0,
              OnStack(t, b), Beneath(t, b, d)
       PROVE  q[b] \in UpFrom(q, q[d])
  <2>1. PICK p \in 1 .. Len(t) : t[p] = d /\ \A j \in p .. Len(t) : t[j] # b
    BY <1>10 DEF Beneath
  <2>2. b # s
    <3>1. Len(t) \in p .. Len(t)
      BY <1>5
    <3> QED
      BY <1>5, <2>1, <3>1
  <2>3. q[b] # UNDEFINED_BBNUM
    BY <1>8, <1>10
  <2>4. CASE d = s
    BY <1>2, <1>9, <1>10, <2>3, <2>4
  <2>5. CASE d # s
    <3>1. p # Len(stk) + 1
      BY <1>5, <2>1, <2>5
    <3>2. p \in 1 .. Len(stk)
      BY <1>5, <2>1, <3>1
    <3>3. stk[p] = d
      BY <1>5, <2>1, <3>2
    <3>4. \A j \in p .. Len(stk) : j \in 1 .. Len(stk) /\ j \in p .. Len(t)
      BY <1>5, <3>2
    <3>5. Beneath(stk, b, d)
      BY <1>5, <2>1, <3>2, <3>3, <3>4 DEF Beneath
    <3>6. OnStack(stk, b)
      BY <1>7, <1>10, <2>2
    <3>7. par[b] \in UpFrom(par, par[d])
      BY <1>10, <3>5, <3>6 DEF StackInv
    <3>8. OnStack(stk, d)
      BY <3>2, <3>3 DEF OnStack
    <3>9. par[d] # UNDEFINED_BBNUM
      BY <1>10, <3>8 DEF StackInv
    <3>10. num[par[d]] >= 1 /\ par[d] \in Blocks
      BY <1>1, <3>9 DEF TreeEdges, Links
    <3> QED
      BY <1>2, <1>4, <2>2, <2>5, <3>7, <3>10
  <2> QED
    BY <2>4, <2>5
<1>11. StackInv(num, q, t, cur)
  BY <1>8, <1>9, <1>10 DEF StackInv
<1> QED
  BY <1>11 DEF q, t

(* and what is known of the edges looked at. *)
LEMMA PushKeepsEdges ==
    ASSUME NEW c, WellFormed(c), NEW n \in Nat, NEW num \in [Blocks -> 0 .. n], NEW par,
           TreeEdges(c, num, par),
           NEW cur \in Blocks, num[cur] >= 1, NEW idx \in 1 .. Len(c.succs[cur]),
           NEW s, s = c.succs[cur][idx], num[s] = 0,
           NEW stk, StackInv(num, par, stk, cur),
           EdgesLeft(c, num, par, cur, idx)
    PROVE  EdgesLeft(c, num, [par EXCEPT ![s] = cur], cur, idx - 1)
<1> DEFINE q == [par EXCEPT ![s] = cur]
<1>1. par \in Links
  BY DEF TreeEdges
<1>2. s \in Blocks /\ idx \in Nat
  BY NeighboursAreBlocks DEF Succs, WellFormed
<1>3. q[s] = cur /\ \A b \in Blocks : b # s => q[b] = par[b]
  BY <1>1, <1>2 DEF Links
<1>4. \A b \in Blocks : num[b] >= 1 => UpFrom(q, b) = UpFrom(par, b)
  BY <1>2, PushKeepsWays
<1>5. cur # UNDEFINED_BBNUM
  BY UndefinedIsNone
<1> HIDE DEF q
<1>6. ASSUME NEW v \in Blocks, NEW w \in Succs(c, v), num[v] >= 1, num[w] = 0
      PROVE  \/ v = cur /\ \E k \in 1 .. idx - 1 : c.succs[v][k] = w
             \/ q[w] # UNDEFINED_BBNUM /\ v \in UpFrom(q, q[w])
  <2>1. w \in Blocks
    BY NeighboursAreBlocks DEF WellFormed
  <2>2. CASE w = s
    <3>1. CASE v = cur
      BY <1>3, <1>5, <2>2, <3>1, UpStart
    <3>2. CASE v # cur
      <4>1. par[w] # UNDEFINED_BBNUM /\ v \in UpFrom(par, par[w])
        BY <1>6, <3>2 DEF EdgesLeft
      <4>2. par[w] \in UpFrom(par, cur)
        BY <1>6, <2>1, <4>1 DEF StackInv
      <4>3. v \in UpFrom(par, cur)
        BY <1>1, <4>1, <4>2, UpTransitive
      <4> QED
        BY <1>3, <1>4, <1>5, <2>2, <4>3
    <3> QED
      BY <3>1, <3>2
  <2>3. CASE w # s
    <3>1. CASE v = cur /\ \E k \in 1 .. idx : c.succs[v][k] = w
      <4>1. PICK k \in 1 .. idx : c.succs[v][k] = w
        BY <3>1
      <4>2. k # idx
        BY <2>3, <3>1, <4>1
      <4>3. k \in 1 .. idx - 1
        BY <1>2, <4>2
      <4> QED
        BY <3>1, <4>1, <4>3
    <3>2. CASE par[w] # UNDEFINED_BBNUM /\ v \in UpFrom(par, par[w])
      <4>1. par[w] \in Blocks /\ num[par[w]] >= 1
        BY <1>1, <2>1, <3>2 DEF TreeEdges, Links
      <4> QED
        BY <1>3, <1>4, <2>1, <2>3, <3>2, <4>1
    <3> QED
      BY <1>6, <3>1, <3>2 DEF EdgesLeft
  <2> QED
    BY <2>2, <2>3
<1>7. EdgesLeft(c, num, q, cur, idx - 1)
  BY <1>6 DEF EdgesLeft
<1> QED
  BY <1>7 DEF q

(* A successor that has a number is passed over. *)
LEMMA SkipKeepsEdges ==
    ASSUME NEW c, WellFormed(c), NEW num, NEW par, NEW cur \in Blocks,
           NEW idx \in 1 .. Len(c.succs[cur]), num[c.succs[cur][idx]] # 0,
           EdgesLeft(c, num, par, cur, idx)
    PROVE  EdgesLeft(c, num, par, cur, idx - 1)
<1> SUFFICES ASSUME NEW v \in Blocks, NEW w \in Succs(c, v), num[v] >= 1, num[w] = 0
             PROVE  \/ v = cur /\ \E k \in 1 .. idx - 1 : c.succs[v][k] = w
                    \/ par[w] # UNDEFINED_BBNUM /\ v \in UpFrom(par, par[w])
  BY DEF EdgesLeft
<1>1. CASE v = cur /\ \E k \in 1 .. idx : c.succs[v][k] = w
  <2>1. PICK k \in 1 .. idx : c.succs[v][k] = w
    BY <1>1
  <2>2. k # idx
    BY <1>1, <2>1
  <2>3. k \in 1 .. idx - 1
    BY <2>2
  <2> QED
    BY <1>1, <2>1, <2>3
<1>2. CASE par[w] # UNDEFINED_BBNUM /\ v \in UpFrom(par, par[w])
  BY <1>2
<1> QED
  BY <1>1, <1>2 DEF EdgesLeft

(* With the stack empty all that can be reached is numbered, and no more. *)
LEMMA SearchReaches ==
    ASSUME NEW c, WellFormed(c), NEW n \in Nat, NEW num \in [Blocks -> 0 .. n], NEW par,
           TreeEdges(c, num, par), NEW cur,
           StackInv(num, par, <<>>, cur), EdgesLeft(c, num, par, cur, 0)
    PROVE  Reachable(c) = {b \in Blocks : num[b] >= 1}
<1> DEFINE V == {b \in Blocks : num[b] >= 1}
<1>1. \A b \in Blocks : num[b] \in Nat
  OBVIOUS
<1>2. Reachable(c) \subseteq V
  <2>1. ASSUME NEW v \in V, NEW w \in Succs(c, v) PROVE w \in V
    <3>1. w \in Blocks
      BY NeighboursAreBlocks DEF WellFormed
    <3>2. CASE num[w] = 0
      <4>1. par[w] # UNDEFINED_BBNUM
        BY <3>2 DEF EdgesLeft
      <4>2. OnStack(<<>>, w)
        BY <3>1, <3>2, <4>1 DEF StackInv
      <4> QED
        BY <4>2 DEF OnStack
    <3> QED
      BY <1>1, <3>1, <3>2
  <2>2. Entry \in V /\ V \subseteq Blocks /\ NoBlock \notin V
    BY EntryIsBlock, NoBlockIsNone DEF TreeEdges
  <2> HIDE DEF V
  <2>3. V \in ClosedSets(c, Entry, NoBlock)
    BY <2>1, <2>2, NoBlockIsNone DEF ClosedSets
  <2> QED
    BY <2>3, EntryIsBlock, NoBlockIsNone, ReachableLeast DEF Reachable
<1>3. ASSUME NEW b \in V, b \notin Reachable(c) PROVE FALSE
  <2> DEFINE T == {num[x] : x \in V \ Reachable(c)}
  <2>1. PICK k \in T : \A j \in T : k <= j
    <3>1. T \in SUBSET Nat /\ T # {}
      BY <1>1, <1>3
    <3> HIDE DEF T
    <3> QED
      BY <3>1, NatMin
  <2>2. PICK x \in V \ Reachable(c) : k = num[x]
    BY <2>1
  <2>3. x # Entry
    BY EntryIsBlock, NoBlockIsNone, ReachableStart DEF Reachable
  <2>4. par[x] # UNDEFINED_BBNUM /\ num[par[x]] < num[x]
    BY <2>3 DEF TreeEdges
  <2>5. par[x] \in Preds(c, x) /\ num[par[x]] >= 1 /\ par[x] \in Blocks
    BY <2>4 DEF TreeEdges, Links
  <2>6. x \in Succs(c, par[x])
    BY <2>5 DEF WellFormed
  <2>7. par[x] \in Reachable(c)
    <3>1. CASE par[x] \in V \ Reachable(c)
      <4>1. num[par[x]] \in T
        BY <3>1
      <4>2. k <= num[par[x]]
        BY <2>1, <4>1
      <4>3. num[par[x]] \in Nat /\ num[x] \in Nat
        BY <1>1, <2>5
      <4> QED
        BY <2>2, <2>4, <4>2, <4>3
    <3> QED
      BY <2>5, <3>1
  <2>8. x # NoBlock
    BY NoBlockIsNone
  <2>9. x \in Reachable(c)
    BY <2>6, <2>7, <2>8, EntryIsBlock, ReachableClosed DEF Reachable, WellFormed
  <2> QED
    BY <2>2, <2>9
<1> QED
  BY <1>2, <1>3

(* The visit of the entry starts the tree. *)
LEMMA VisitEntry ==
    ASSUME NEW c, WellFormed(c), NEW m \in [Blocks -> 0 .. 1],
           m[Entry] = 1, \A b \in Blocks : b # Entry => m[b] = 0
    PROVE  /\ TreeEdges(c, m, Undefined) /\ EdgesUp(c, m, Undefined)
           /\ Intervals(m, Undefined)
           /\ StackInv(m, Undefined, <<>>, Entry)
           /\ EdgesLeft(c, m, Undefined, Entry, Len(c.succs[Entry]))
<1> DEFINE par == Undefined
<1>1. par \in Links /\ \A b \in Blocks : par[b] = UNDEFINED_BBNUM
  BY DEF Undefined, Links
<1> HIDE DEF par
<1>2. \A b \in Blocks : b = Entry <=> m[b] >= 1
  OBVIOUS
<1>3. TreeEdges(c, m, par)
  BY <1>1, <1>2, EntryIsBlock DEF TreeEdges
<1>4. EdgesUp(c, m, par)
  <2> SUFFICES ASSUME NEW v \in Blocks, NEW w \in Succs(c, v), m[v] >= 1, m[v] < m[w]
               PROVE  FALSE
    BY DEF EdgesUp
  <2>1. w \in Blocks
    BY NeighboursAreBlocks DEF WellFormed
  <2>2. m[w] \in 0 .. 1 /\ m[v] \in 0 .. 1
    BY <2>1
  <2> QED
    BY <2>2
<1>5. Intervals(m, par)
  <2> SUFFICES ASSUME NEW u \in Blocks, NEW x \in Blocks, NEW y \in Blocks, m[x] >= 1,
                      u \in UpFrom(par, x), m[u] <= m[y], m[y] <= m[x]
               PROVE  u \in UpFrom(par, y)
    BY DEF Intervals
  <2>1. UpFrom(par, x) = {x}
    BY <1>1, UpRoot
  <2>2. x = Entry /\ u = Entry
    BY <1>2, <2>1
  <2>3. m[y] >= 1
    BY <2>2
  <2> QED
    BY <1>2, <2>2, <2>3, UpStart
<1>6. StackInv(m, par, <<>>, Entry)
  <2>1. \A b \in Blocks : ~OnStack(<<>>, b)
    BY DEF OnStack
  <2> QED
    BY <1>1, <2>1 DEF StackInv
<1>7. EdgesLeft(c, m, par, Entry, Len(c.succs[Entry]))
  <2> SUFFICES ASSUME NEW v \in Blocks, NEW w \in Succs(c, v), m[v] >= 1, m[w] = 0
               PROVE  v = Entry /\ \E k \in 1 .. Len(c.succs[Entry]) : c.succs[v][k] = w
    BY DEF EdgesLeft
  <2> QED
    BY <1>2 DEF Succs
<1> QED
  BY <1>3, <1>4, <1>5, <1>6, <1>7 DEF par

-----------------------------------------------------------------------------
(* A depth-first tree of a whole graph, and semidominators. *)

SearchTree(c, num, par) ==
    /\ WellFormed(c)
    /\ num \in [Blocks -> Numbers]
    /\ \A a, b \in Blocks : num[a] = num[b] => a = b
    /\ TreeEdges(c, num, par)
    /\ EdgesUp(c, num, par)
    /\ Intervals(num, par)

(* LeadsTo and SemiDefinition for any numbering. *)
Leads(c, num, w) ==
    LET closed == {S \in SUBSET Blocks :
                      \A x \in S : num[x] >= num[w] => Preds(c, x) \subseteq S}
    IN  {x \in Blocks : \A S \in closed : w \in S => x \in S}

SemiOf(c, num, w) ==
    CHOOSE s \in {num[x] : x \in Leads(c, num, w)} :
        \A x \in Leads(c, num, w) : s <= num[x]

(* Numbers are numbers. *)
LEMMA NumsAreNat ==
    ASSUME NEW c, NEW num, NEW par, SearchTree(c, num, par), NEW b \in Blocks
    PROVE  num[b] \in Nat /\ num[b] >= 1 /\ num[b] <= NBlocks
<1>1. num[b] \in Numbers
  BY DEF SearchTree
<1> QED
  BY <1>1, NBlocksAssumption DEF Numbers

(* Ancestors are lower than what they are ancestors of, *)
LEMMA AncestorsLower ==
    ASSUME NEW c, NEW num, NEW par, SearchTree(c, num, par),
           NEW b \in Blocks, NEW x \in UpFrom(par, b)
    PROVE  x \in Blocks /\ num[x] <= num[b] /\ (x # b => num[x] < num[b])
<1>1. num[b] >= 1
  BY NumsAreNat
<1>2. num \in [Blocks -> 0 .. NBlocks] /\ NBlocks \in Nat
  BY NBlocksAssumption DEF SearchTree, Numbers
<1>3. x \in Blocks /\ num[x] <= num[b]
  BY <1>1, <1>2, AboveIsLower DEF SearchTree
<1>4. num[x] \in Nat /\ num[b] \in Nat
  BY <1>3, NumsAreNat
<1>5. num[x] = num[b] => x = b
  BY <1>3 DEF SearchTree
<1> QED
  BY <1>3, <1>4, <1>5

(* and of two ancestors of a block the lower is one of the higher. *)
LEMMA AncestorsChain ==
    ASSUME NEW c, NEW num, NEW par, SearchTree(c, num, par),
           NEW b \in Blocks, NEW x \in UpFrom(par, b), NEW y \in UpFrom(par, b),
           num[x] <= num[y]
    PROVE  x \in UpFrom(par, y)
<1>1. x \in Blocks /\ y \in Blocks /\ num[y] <= num[b]
  BY AncestorsLower
<1>2. num[b] >= 1
  BY NumsAreNat
<1> QED
  BY <1>1, <1>2 DEF SearchTree, Intervals

(* Every block but the entry has a parent, which is a predecessor of it. *)
LEMMA ParentInTree ==
    ASSUME NEW c, NEW num, NEW par, SearchTree(c, num, par), NEW b \in Blocks, b # Entry
    PROVE  /\ par[b] \in Blocks /\ par[b] # UNDEFINED_BBNUM
           /\ par[b] \in Preds(c, b) /\ b \in Succs(c, par[b])
           /\ num[par[b]] < num[b]
           /\ UpFrom(par, b) = {b} \union UpFrom(par, par[b])
<1>1. num[b] >= 1
  BY NumsAreNat
<1>2. par[b] # UNDEFINED_BBNUM /\ num[par[b]] < num[b] /\ par[b] \in Preds(c, b)
  BY <1>1 DEF SearchTree, TreeEdges
<1>3. par \in Links
  BY DEF SearchTree, TreeEdges
<1>4. par[b] \in Blocks
  BY <1>2, <1>3 DEF Links
<1>5. b \in Succs(c, par[b])
  BY <1>2, <1>4 DEF SearchTree, WellFormed
<1>6. UpFrom(par, b) = {b} \union UpFrom(par, par[b])
  BY <1>2, <1>3, UpStep
<1> QED
  BY <1>2, <1>4, <1>5, <1>6

(* The entry has none and is alone above itself. *)
LEMMA EntryInTree ==
    ASSUME NEW c, NEW num, NEW par, SearchTree(c, num, par)
    PROVE  UpFrom(par, Entry) = {Entry} /\ num[Entry] = 1
BY EntryIsBlock, UpRoot DEF SearchTree, TreeEdges

(* What holds of the entry and of a block whose parent it holds of holds of *)
(* every block: of the blocks outside S take the lowest.                    *)
LEMMA TreeInduction ==
    ASSUME NEW c, NEW num, NEW par, SearchTree(c, num, par), NEW S, Entry \in S,
           \A b \in Blocks \ {Entry} : par[b] \in S => b \in S
    PROVE  Blocks \subseteq S
<1> SUFFICES ASSUME NEW b \in Blocks, b \notin S PROVE FALSE
  OBVIOUS
<1> DEFINE T == {num[x] : x \in Blocks \ S}
<1>1. T \in SUBSET Nat /\ T # {}
  BY NumsAreNat
<1>2. PICK k \in T : \A j \in T : k <= j
  <2> HIDE DEF T
  <2> QED
    BY <1>1, NatMin
<1>3. PICK x \in Blocks \ S : k = num[x]
  BY <1>2
<1>4. x # Entry
  OBVIOUS
<1>5. par[x] \in Blocks /\ num[par[x]] < num[x]
  BY <1>3, <1>4, ParentInTree
<1>6. par[x] \notin S
  BY <1>3, <1>4
<1>7. num[par[x]] \in T
  BY <1>5, <1>6
<1>8. num[x] <= num[par[x]]
  BY <1>2, <1>3, <1>7
<1>9. num[x] \in Nat /\ num[par[x]] \in Nat
  BY <1>3, <1>5, NumsAreNat
<1> QED
  BY <1>5, <1>8, <1>9

(* The entry is above every block. *)
LEMMA EntryAbove ==
    ASSUME NEW c, NEW num, NEW par, SearchTree(c, num, par), NEW b \in Blocks
    PROVE  Entry \in UpFrom(par, b)
<1> DEFINE S == {x \in Blocks : Entry \in UpFrom(par, x)}
<1>1. Entry \in S
  BY EntryIsBlock, UpStart
<1>2. ASSUME NEW x \in Blocks \ {Entry}, par[x] \in S PROVE x \in S
  BY <1>2, ParentInTree
<1>3. Blocks \subseteq S
  <2> HIDE DEF S
  <2> QED
    BY <1>1, <1>2, TreeInduction
<1> QED
  BY <1>3

(* The tree leads down from x to y, past all that is not between them. *)
LEMMA TreeWay ==
    ASSUME NEW c, NEW num, NEW par, SearchTree(c, num, par),
           NEW y \in Blocks, NEW x \in UpFrom(par, y), NEW a,
           a \in UpFrom(par, y) => num[a] < num[x]
    PROVE  y \in ReachableFrom(c, x, a)
<1> DEFINE S == {z \in Blocks : x \in UpFrom(par, z) /\ (a \in UpFrom(par, z) => num[a] < num[x])
                                    => z \in ReachableFrom(c, x, a)}
<1>1. x \in Blocks /\ num[x] \in Nat /\ c \in Cfg
  BY AncestorsLower, NumsAreNat DEF SearchTree, WellFormed
<1>2. ASSUME NEW z \in Blocks, z = x, a \in UpFrom(par, z) => num[a] < num[x]
      PROVE  z \in ReachableFrom(c, x, a)
  <2>1. x \in UpFrom(par, z)
    BY <1>2, UpStart
  <2>2. x # a
    BY <1>1, <1>2, <2>1
  <2> QED
    BY <1>1, <1>2, <2>2, ReachableStart
<1>3. Entry \in S
  <2>1. UpFrom(par, Entry) = {Entry}
    BY EntryInTree
  <2> QED
    BY <1>2, <2>1, EntryIsBlock
<1>4. ASSUME NEW z \in Blocks \ {Entry}, par[z] \in S PROVE z \in S
  <2> SUFFICES ASSUME x \in UpFrom(par, z), a \in UpFrom(par, z) => num[a] < num[x], z # x
               PROVE  z \in ReachableFrom(c, x, a)
    BY <1>2
  <2>1. UpFrom(par, z) = {z} \union UpFrom(par, par[z]) /\ z \in Succs(c, par[z])
    BY ParentInTree
  <2>2. x \in UpFrom(par, par[z])
    BY <2>1
  <2>3. par[z] \in ReachableFrom(c, x, a)
    BY <1>4, <2>1, <2>2
  <2>4. z # a
    <3>1. num[x] <= num[z] /\ num[z] \in Nat
      BY AncestorsLower, NumsAreNat
    <3> QED
      BY <1>1, <2>1, <3>1
  <2> QED
    BY <1>1, <2>1, <2>3, <2>4, ReachableClosed
<1>5. Blocks \subseteq S
  <2> HIDE DEF S
  <2> QED
    BY <1>3, <1>4, TreeInduction
<1> QED
  BY <1>5

-----------------------------------------------------------------------------
(* What leads to a block past higher ones. *)

(* What leads to w has w, *)
LEMMA LeadsStart ==
    ASSUME NEW c, NEW num, NEW w \in Blocks
    PROVE  w \in Leads(c, num, w) /\ Leads(c, num, w) \subseteq Blocks
BY DEF Leads

(* with w and a block numbered above it their predecessors, *)
LEMMA LeadsPreds ==
    ASSUME NEW c \in Cfg, NEW num, NEW w, NEW x \in Leads(c, num, w), num[x] >= num[w],
           NEW y \in Preds(c, x)
    PROVE  y \in Leads(c, num, w)
<1>1. x \in Blocks
  BY DEF Leads
<1>2. y \in Blocks
  BY <1>1, NeighboursAreBlocks
<1> QED
  BY <1>1, <1>2 DEF Leads

(* and no more. *)
LEMMA LeadsLeast ==
    ASSUME NEW c, NEW num, NEW S \in SUBSET Blocks, NEW w \in S,
           \A x \in S : num[x] >= num[w] => Preds(c, x) \subseteq S
    PROVE  Leads(c, num, w) \subseteq S
BY DEF Leads

(* What leads to a block that leads on to w leads to w. *)
LEMMA LeadsOn ==
    ASSUME NEW c, NEW num, NEW par, SearchTree(c, num, par),
           NEW w \in Blocks, NEW x \in Leads(c, num, w), num[x] >= num[w]
    PROVE  Leads(c, num, x) \subseteq Leads(c, num, w)
<1> DEFINE S == Leads(c, num, w)
<1>1. S \in SUBSET Blocks /\ x \in S /\ c \in Cfg
  BY LeadsStart DEF SearchTree, WellFormed
<1>2. ASSUME NEW y \in S, num[y] >= num[x] PROVE Preds(c, y) \subseteq S
  <2>1. num[y] \in Nat /\ num[x] \in Nat /\ num[w] \in Nat
    BY <1>1, NumsAreNat
  <2>2. num[y] >= num[w]
    BY <1>2, <2>1
  <2> QED
    BY <1>1, <2>2, LeadsPreds
<1> HIDE DEF S
<1>3. Leads(c, num, x) \subseteq S
  BY <1>1, <1>2, LeadsLeast
<1> QED
  BY <1>3 DEF S

(* Of what leads to a block, the lower ones are its ancestors: the edge that *)
(* comes up from a lower block goes to a descendant of it.                   *)
LEMMA LowerLeadersAbove ==
    ASSUME NEW c, NEW num, NEW par, SearchTree(c, num, par),
           NEW w \in Blocks, NEW x \in Leads(c, num, w), num[x] < num[w]
    PROVE  x \in UpFrom(par, w)
<1> DEFINE S == {y \in Blocks : num[y] < num[w] => y \in UpFrom(par, w)}
<1>1. w \in S
  BY NumsAreNat
<1>2. ASSUME NEW y \in S, num[y] >= num[w], NEW z \in Preds(c, y) PROVE z \in S
  <2>1. z \in Blocks /\ y \in Succs(c, z)
    <3>1. z \in Blocks
      BY NeighboursAreBlocks DEF SearchTree, WellFormed
    <3> QED
      BY <3>1 DEF SearchTree, WellFormed
  <2> SUFFICES ASSUME num[z] < num[w] PROVE z \in UpFrom(par, w)
    BY <2>1
  <2>2. /\ num[y] \in Nat /\ num[z] \in Nat /\ num[w] \in Nat
        /\ num[z] >= 1 /\ num[y] >= 1
    BY <2>1, NumsAreNat
  <2>3. z \in UpFrom(par, y)
    <3>1. num[z] < num[y]
      BY <1>2, <2>2
    <3> QED
      BY <2>1, <2>2, <3>1 DEF SearchTree, EdgesUp
  <2>4. num[z] <= num[w] /\ num[w] <= num[y]
    BY <1>2, <2>2
  <2>5. Intervals(num, par)
    BY DEF SearchTree
  <2> QED
    BY <2>1, <2>2, <2>3, <2>4, <2>5 DEF Intervals
<1>3. S \in SUBSET Blocks
  OBVIOUS
<1>4. Leads(c, num, w) \subseteq S
  <2> HIDE DEF S
  <2> QED
    BY <1>1, <1>2, <1>3, LeadsLeast
<1> QED
  BY <1>4

(* What is on the way up from a block that leads to w and is higher than w *)
(* leads to w.                                                             *)
LEMMA HigherAboveLead ==
    ASSUME NEW c, NEW num, NEW par, SearchTree(c, num, par),
           NEW w \in Blocks, NEW v \in Leads(c, num, w), NEW x \in UpFrom(par, v),
           num[x] > num[w]
    PROVE  x \in Leads(c, num, w)
<1> DEFINE S == {y \in Blocks : num[y] > num[w] => y \in Leads(c, num, w)}
<1>1. v \in S /\ S \in SUBSET Blocks /\ c \in Cfg
  BY LeadsStart DEF SearchTree, WellFormed
<1>2. ASSUME NEW y \in S PROVE par[y] = UNDEFINED_BBNUM \/ par[y] \in S
  <2>1. CASE y = Entry
    BY <2>1 DEF SearchTree, TreeEdges
  <2>2. CASE y # Entry
    <3>1. par[y] \in Blocks /\ par[y] \in Preds(c, y) /\ num[par[y]] < num[y]
      BY <2>2, ParentInTree
    <3>2. num[y] \in Nat /\ num[par[y]] \in Nat /\ num[w] \in Nat
      BY <3>1, NumsAreNat
    <3>3. ASSUME num[par[y]] > num[w] PROVE par[y] \in Leads(c, num, w)
      <4>1. num[y] > num[w] /\ num[y] >= num[w]
        BY <3>1, <3>2, <3>3
      <4>2. y \in Leads(c, num, w)
        BY <4>1
      <4> QED
        BY <1>1, <3>1, <4>1, <4>2, LeadsPreds
    <3> QED
      BY <3>1, <3>3
  <2> QED
    BY <2>1, <2>2
<1>3. UpFrom(par, v) \subseteq S
  <2> HIDE DEF S
  <2> QED
    BY <1>1, <1>2, UpLeast
<1> QED
  BY <1>3

(* The semidominator is the lowest of what leads to a block. *)
LEMMA SemiIsLowest ==
    ASSUME NEW c, NEW num, NEW par, SearchTree(c, num, par), NEW w \in Blocks
    PROVE  /\ SemiOf(c, num, w) \in Numbers
           /\ \E x \in Leads(c, num, w) : num[x] = SemiOf(c, num, w)
           /\ \A x \in Leads(c, num, w) : SemiOf(c, num, w) <= num[x]
<1> DEFINE T == {num[x] : x \in Leads(c, num, w)}
<1>1. w \in Leads(c, num, w) /\ Leads(c, num, w) \subseteq Blocks
  BY LeadsStart
<1>2. T \in SUBSET Nat /\ T # {} /\ T \subseteq Numbers
  <2>1. \A x \in Blocks : num[x] \in Numbers
    BY DEF SearchTree
  <2> QED
    BY <1>1, <2>1, NumsAreNat
<1>3. \E k \in T : \A j \in T : k <= j
  <2> HIDE DEF T
  <2> QED
    BY <1>2, NatMin
<1>4. \E k \in T : \A x \in Leads(c, num, w) : k <= num[x]
  BY <1>3
<1>5. SemiOf(c, num, w) \in T /\ \A x \in Leads(c, num, w) : SemiOf(c, num, w) <= num[x]
  BY <1>4 DEF SemiOf
<1> QED
  BY <1>2, <1>5

(* Only the entry has none above it. *)
LEMMA SemiIsAbove ==
    ASSUME NEW c, NEW num, NEW par, SearchTree(c, num, par), NEW w \in Blocks, w # Entry,
           NEW s \in Blocks, num[s] = SemiOf(c, num, w)
    PROVE  s \in UpFrom(par, w) /\ s \in Leads(c, num, w) /\ num[s] < num[w]
<1>1. w \in Leads(c, num, w) /\ Leads(c, num, w) \subseteq Blocks /\ c \in Cfg
  BY LeadsStart DEF SearchTree, WellFormed
<1>2. par[w] \in Blocks /\ par[w] \in Preds(c, w) /\ num[par[w]] < num[w]
  BY ParentInTree
<1>3. num[w] \in Nat /\ num[par[w]] \in Nat /\ num[s] \in Nat
  BY <1>2, NumsAreNat
<1>4. par[w] \in Leads(c, num, w)
  <2>1. num[w] >= num[w]
    BY <1>3
  <2> QED
    BY <1>1, <1>2, <2>1, LeadsPreds
<1>5. num[s] <= num[par[w]]
  BY <1>4, SemiIsLowest
<1>6. num[s] < num[w]
  BY <1>2, <1>3, <1>5
<1>7. s \in Leads(c, num, w)
  <2>1. PICK x \in Leads(c, num, w) : num[x] = SemiOf(c, num, w)
    BY SemiIsLowest
  <2>2. x = s
    BY <1>1, <2>1 DEF SearchTree
  <2> QED
    BY <2>1, <2>2
<1> QED
  BY <1>6, <1>7, LowerLeadersAbove

(* How semidominators are computed: the lowest number among that of w, those *)
(* of its lower predecessors, and the semidominators of the blocks higher    *)
(* than w on the way up from its higher ones.                                *)
LEMMA SemiRecursion ==
    ASSUME NEW c, NEW num, NEW par, SearchTree(c, num, par), NEW w \in Blocks,
           NEW lowest \in Nat,
           \/ lowest = num[w]
           \/ \E v \in Preds(c, w) :
                 \/ num[v] <= num[w] /\ lowest = num[v]
                 \/ \E x \in UpFrom(par, v) : num[x] > num[w] /\ lowest = SemiOf(c, num, x),
           lowest <= num[w],
           \A v \in Preds(c, w) : num[v] <= num[w] => lowest <= num[v],
           \A v \in Preds(c, w) : \A x \in UpFrom(par, v) :
               num[x] > num[w] => lowest <= SemiOf(c, num, x)
    PROVE  lowest = SemiOf(c, num, w)
<1> DEFINE semiw == SemiOf(c, num, w)
<1>1. w \in Leads(c, num, w) /\ Leads(c, num, w) \subseteq Blocks /\ c \in Cfg
  BY LeadsStart DEF SearchTree, WellFormed
<1>2. \A b \in Blocks : num[b] \in Nat
  BY NumsAreNat
<1>3. \A b \in Blocks : SemiOf(c, num, b) \in Nat
  BY SemiIsLowest DEF Numbers
<1>4. Preds(c, w) \subseteq Leads(c, num, w)
  <2>1. num[w] >= num[w]
    BY <1>2
  <2> QED
    BY <1>1, <2>1, LeadsPreds
<1>5. semiw <= lowest
  <2>1. CASE lowest = num[w]
    BY <1>1, <2>1, SemiIsLowest
  <2>2. CASE \E v \in Preds(c, w) : lowest = num[v]
    BY <1>4, <2>2, SemiIsLowest
  <2>3. CASE \E v \in Preds(c, w) : \E x \in UpFrom(par, v) :
                 num[x] > num[w] /\ lowest = SemiOf(c, num, x)
    <3>0. PICK v \in Preds(c, w) : \E x \in UpFrom(par, v) : num[x] > num[w] /\ lowest = SemiOf(c, num, x)
      BY <2>3
    <3>1. PICK x \in UpFrom(par, v) : num[x] > num[w] /\ lowest = SemiOf(c, num, x)
      BY <3>0
    <3>2. x \in Leads(c, num, w)
      BY <1>4, <3>1, HigherAboveLead
    <3>3. x \in Blocks /\ num[x] >= num[w]
      BY <1>1, <1>2, <3>1, <3>2
    <3>4. PICK y \in Leads(c, num, x) : num[y] = SemiOf(c, num, x)
      BY <3>3, SemiIsLowest
    <3>5. y \in Leads(c, num, w)
      BY <3>2, <3>3, LeadsOn
    <3> QED
      BY <3>1, <3>4, <3>5, SemiIsLowest
  <2> QED
    BY <2>1, <2>2, <2>3
<1> DEFINE S == {w} \union Preds(c, w) \union
                {y \in Blocks : \E v \in Preds(c, w) : \E x \in UpFrom(par, v) :
                                   num[x] > num[w] /\ y \in Leads(c, num, x)}
<1>6. ASSUME NEW v \in Preds(c, w), NEW x \in UpFrom(par, v), num[x] > num[w],
             NEW y \in Leads(c, num, x)
      PROVE  y \in S
  <2>1. v \in Blocks
    BY <1>1, <1>4
  <2>2. x \in Blocks
    BY <2>1, UpStart
  <2>3. y \in Blocks
    BY <2>2, LeadsStart
  <2> QED
    BY <1>6, <2>3
<1>7. S \in SUBSET Blocks /\ w \in S
  BY <1>1, <1>4
<1>8. ASSUME NEW y \in S, num[y] >= num[w], NEW z \in Preds(c, y) PROVE z \in S
  <2>1. CASE y = w
    BY <2>1
  <2>2. CASE y \in Preds(c, w) /\ y # w
    <3>1. y \in Blocks /\ num[y] # num[w]
      BY <1>7, <2>2 DEF SearchTree
    <3>2. num[y] > num[w] /\ num[y] >= num[y]
      BY <1>2, <1>8, <3>1
    <3>3. y \in UpFrom(par, y) /\ y \in Leads(c, num, y)
      BY <3>1, UpStart, LeadsStart
    <3>4. z \in Leads(c, num, y)
      BY <1>1, <3>2, <3>3, LeadsPreds
    <3> QED
      BY <1>6, <2>2, <3>2, <3>3, <3>4
  <2>3. CASE \E v \in Preds(c, w) : \E x \in UpFrom(par, v) :
                 num[x] > num[w] /\ y \in Leads(c, num, x)
    <3>0. PICK v \in Preds(c, w) : \E x \in UpFrom(par, v) : num[x] > num[w] /\ y \in Leads(c, num, x)
      BY <2>3
    <3>1. PICK x \in UpFrom(par, v) : num[x] > num[w] /\ y \in Leads(c, num, x)
      BY <3>0
    <3>2. v \in Blocks /\ y \in Blocks
      BY <1>1, <1>4, <1>7
    <3>3. x \in Blocks
      BY <3>2, UpStart
    <3>4. CASE num[y] >= num[x]
      <4>1. z \in Leads(c, num, x)
        BY <1>1, <3>1, <3>4, LeadsPreds
      <4> QED
        BY <1>6, <3>1, <4>1
    <3>5. CASE num[y] < num[x] /\ y # w
      <4>1. y \in UpFrom(par, x)
        BY <3>1, <3>3, <3>5, LowerLeadersAbove
      <4>2. y \in UpFrom(par, v)
        BY <3>1, <4>1, UpTransitive DEF SearchTree, TreeEdges
      <4>3. num[y] # num[w]
        BY <3>2, <3>5 DEF SearchTree
      <4>4. num[y] > num[w] /\ num[y] >= num[y]
        BY <1>2, <1>8, <3>2, <4>3
      <4>5. z \in Leads(c, num, y)
        BY <1>1, <3>2, <4>4, LeadsStart, LeadsPreds
      <4> QED
        BY <1>6, <4>2, <4>4, <4>5
    <3> QED
      BY <1>2, <2>1, <3>2, <3>3, <3>4, <3>5
  <2> QED
    BY <2>1, <2>2, <2>3
<1>9. ASSUME NEW y \in S PROVE lowest <= num[y]
  <2>1. CASE y = w
    BY <2>1
  <2>2. CASE y \in Preds(c, w)
    <3>1. y \in Blocks
      BY <1>7
    <3>2. CASE num[y] <= num[w]
      BY <2>2, <3>2
    <3>3. CASE num[y] > num[w]
      <4>1. y \in UpFrom(par, y) /\ y \in Leads(c, num, y)
        BY <3>1, UpStart, LeadsStart
      <4>2. lowest <= SemiOf(c, num, y)
        BY <2>2, <3>3, <4>1
      <4>3. SemiOf(c, num, y) <= num[y]
        BY <3>1, <4>1, SemiIsLowest
      <4> QED
        BY <1>2, <1>3, <3>1, <4>2, <4>3
    <3> QED
      BY <1>2, <3>1, <3>2, <3>3
  <2>3. CASE \E v \in Preds(c, w) : \E x \in UpFrom(par, v) :
                 num[x] > num[w] /\ y \in Leads(c, num, x)
    <3>0. PICK v \in Preds(c, w) : \E x \in UpFrom(par, v) : num[x] > num[w] /\ y \in Leads(c, num, x)
      BY <2>3
    <3>1. PICK x \in UpFrom(par, v) : num[x] > num[w] /\ y \in Leads(c, num, x)
      BY <3>0
    <3>2. v \in Blocks /\ y \in Blocks
      BY <1>1, <1>4, <1>7
    <3>3. x \in Blocks
      BY <3>2, UpStart
    <3>4. lowest <= SemiOf(c, num, x)
      BY <3>1
    <3>5. SemiOf(c, num, x) <= num[y]
      BY <3>1, <3>3, SemiIsLowest
    <3> QED
      BY <1>2, <1>3, <3>2, <3>3, <3>4, <3>5
  <2> QED
    BY <2>1, <2>2, <2>3
<1>10. Leads(c, num, w) \subseteq S
  <2> HIDE DEF S
  <2> QED
    BY <1>7, <1>8, LeadsLeast
<1>11. lowest <= semiw
  <2>1. PICK x \in Leads(c, num, w) : num[x] = semiw
    BY SemiIsLowest
  <2> HIDE DEF S
  <2> QED
    BY <1>9, <1>10, <2>1
<1>12. semiw \in Nat
  BY <1>3
<1> QED
  BY <1>5, <1>11, <1>12

-----------------------------------------------------------------------------
(* Dominators in the tree. *)

(* Every block can be reached, and its dominators are above it. *)
LEMMA TreeReaches ==
    ASSUME NEW c, NEW num, NEW par, SearchTree(c, num, par), NEW b \in Blocks
    PROVE  b \in Reachable(c)
<1>1. Entry \in UpFrom(par, b) /\ NoBlock \notin UpFrom(par, b)
  BY EntryAbove, UpStart, NoBlockIsNone
<1> QED
  BY <1>1, TreeWay DEF Reachable

(* The dominators of a block are above it in the tree, *)
LEMMA DominatorsAbove ==
    ASSUME NEW c, NEW num, NEW par, SearchTree(c, num, par),
           NEW b \in Blocks, NEW a, Dominates(c, a, b)
    PROVE  a \in UpFrom(par, b)
<1>1. Entry \in UpFrom(par, b)
  BY EntryAbove
<1>2. a \notin UpFrom(par, b) => b \in ReachableFrom(c, Entry, a)
  BY <1>1, TreeWay
<1> QED
  BY <1>2 DEF Dominates

(* What dominates a block dominates the blocks above it that it is above. *)
LEMMA DominatorsBetween ==
    ASSUME NEW c, NEW num, NEW par, SearchTree(c, num, par),
           NEW b \in Blocks, NEW a, Dominates(c, a, b),
           NEW q \in UpFrom(par, b), a \in UpFrom(par, q)
    PROVE  Dominates(c, a, q)
<1>1. q \in Blocks /\ a \in Blocks /\ c \in Cfg
  <2>1. q \in Blocks
    BY UpStart
  <2> QED
    BY <2>1, UpStart DEF SearchTree, WellFormed
<1>2. q \in Reachable(c)
  BY <1>1, TreeReaches
<1>3. CASE a = q
  BY <1>1, <1>2, <1>3, DominatesItself
<1>4. CASE a # q
  <2>1. num[a] < num[q]
    BY <1>1, <1>4, AncestorsLower
  <2>2. b \in ReachableFrom(c, q, a)
    BY <2>1, TreeWay
  <2> QED
    BY <1>1, <1>2, <2>2, DominatesStart
<1> QED
  BY <1>3, <1>4

(* The strict dominators of a block are above its semidominator: else one   *)
(* goes to the semidominator and on to the block past higher ones.          *)
LEMMA DominatorsAboveSemi ==
    ASSUME NEW c, NEW num, NEW par, SearchTree(c, num, par),
           NEW w \in Blocks, w # Entry,
           NEW s \in Blocks, num[s] = SemiOf(c, num, w),
           NEW a, Dominates(c, a, w), a # w
    PROVE  a \in UpFrom(par, s)
<1>1. a \in UpFrom(par, w)
  BY DominatorsAbove
<1>2. a \in Blocks /\ num[a] < num[w] /\ c \in Cfg
  BY <1>1, AncestorsLower DEF SearchTree, WellFormed
<1>3. s \in UpFrom(par, w) /\ s \in Leads(c, num, w) /\ num[s] < num[w]
  BY SemiIsAbove
<1> SUFFICES ASSUME a \notin UpFrom(par, s) PROVE FALSE
  OBVIOUS
<1>4. s # a
  BY UpStart
<1> DEFINE S == {x \in Blocks : x # a => w \in ReachableFrom(c, x, a)}
<1>5. w \in S /\ S \in SUBSET Blocks
  BY ReachableStart
<1>6. ASSUME NEW y \in S, num[y] >= num[w], NEW z \in Preds(c, y) PROVE z \in S
  <2>1. num[y] \in Nat /\ num[a] \in Nat /\ num[w] \in Nat
    BY <1>2, NumsAreNat
  <2>2. y # a
    BY <1>2, <1>6, <2>1
  <2>3. w \in ReachableFrom(c, y, a)
    BY <2>2
  <2>4. z \in Blocks
    BY <1>2, NeighboursAreBlocks
  <2>5. y \in Succs(c, z)
    BY <2>4 DEF SearchTree, WellFormed
  <2>6. z # a => w \in ReachableFrom(c, z, a)
    BY <1>2, <2>3, <2>4, <2>5, ReachablePrepend
  <2> QED
    BY <2>4, <2>6
<1>7. Leads(c, num, w) \subseteq S
  <2> HIDE DEF S
  <2> QED
    BY <1>5, <1>6, LeadsLeast
<1>8. w \in ReachableFrom(c, s, a)
  BY <1>3, <1>4, <1>7
<1>9. s \in ReachableFrom(c, Entry, a)
  <2>1. Entry \in UpFrom(par, s)
    BY EntryAbove
  <2> QED
    BY <2>1, TreeWay
<1>10. w \in ReachableFrom(c, Entry, a)
  BY <1>2, <1>8, <1>9, EntryIsBlock, ReachableTransitive
<1> QED
  BY <1>10 DEF Dominates

(* Let p be above b, and let no block between them, b included, have a       *)
(* semidominator below `lo`.  If what is above b and between lo and p cannot *)
(* be reached past a, then neither can b: the last edge into what leads to   *)
(* the blocks between p and b would come from there.                         *)
LEMMA NoWayAround ==
    ASSUME NEW c, NEW num, NEW par, SearchTree(c, num, par),
           NEW b \in Blocks, NEW p \in UpFrom(par, b), p # b,
           NEW a \in Blocks, NEW lo \in Nat,
           \A q \in UpFrom(par, b) : num[q] > num[p] => lo <= SemiOf(c, num, q),
           \A x \in UpFrom(par, b) : lo <= num[x] /\ num[x] <= num[p]
                                         => x \notin ReachableFrom(c, Entry, a)
    PROVE  Dominates(c, a, b)
<1> DEFINE D == {x \in Blocks : \E q \in UpFrom(par, b) :
                    num[q] > num[p] /\ x \in Leads(c, num, q) /\ num[x] >= num[q]}
           R == ReachableFrom(c, Entry, a)
           S == R \ D
<1>1. \A x \in Blocks : num[x] \in Nat /\ num[x] >= 1
  BY NumsAreNat
<1>2. p \in Blocks /\ UpFrom(par, b) \subseteq Blocks /\ num[p] < num[b] /\ c \in Cfg
  BY AncestorsLower, UpStart DEF SearchTree, WellFormed
<1>3. b \in D
  BY <1>1, <1>2, UpStart, LeadsStart
<1>4. \A x \in D : num[x] > num[p] /\ num[x] > 1
  BY <1>1, <1>2
<1>5. Entry \notin D
  <2>1. num[Entry] = 1
    BY EntryInTree
  <2> QED
    BY <1>4, <2>1
<1>6. ASSUME NEW x \in S, NEW y \in Succs(c, x), y # a PROVE y \in S
  <2>1. x \in Blocks /\ y \in R
    BY <1>2, <1>6, EntryIsBlock, ReachableClosed DEF ReachableFrom
  <2>2. y \in Blocks /\ x \in Preds(c, y)
    <3>1. y \in Blocks
      BY <1>2, <2>1, NeighboursAreBlocks
    <3> QED
      BY <2>1, <3>1 DEF SearchTree, WellFormed
  <2> SUFFICES ASSUME y \in D PROVE FALSE
    BY <2>1
  <2>3. PICK q \in UpFrom(par, b) :
            num[q] > num[p] /\ y \in Leads(c, num, q) /\ num[y] >= num[q]
    OBVIOUS
  <2>4. q \in Blocks
    BY <1>2
  <2>5. x \in Leads(c, num, q)
    BY <1>2, <2>2, <2>3, LeadsPreds
  <2>6. num[x] < num[q]
    <3>1. ~(num[x] >= num[q])
      BY <2>1, <2>3, <2>5
    <3> QED
      BY <1>1, <2>1, <2>4, <3>1
  <2>7. x \in UpFrom(par, b)
    <3>1. x \in UpFrom(par, q)
      BY <2>4, <2>5, <2>6, LowerLeadersAbove
    <3> QED
      BY <3>1, UpTransitive DEF SearchTree, TreeEdges
  <2>8. num[x] <= num[p]
    <3>1. ASSUME num[x] > num[p] PROVE FALSE
      <4>1. x \in Leads(c, num, x) /\ num[x] >= num[x]
        BY <1>1, <2>1, LeadsStart
      <4>2. x \in D
        BY <2>1, <2>7, <3>1, <4>1
      <4> QED
        BY <4>2
    <3> QED
      BY <1>1, <1>2, <2>1, <3>1
  <2>9. lo <= num[x]
    <3>1. lo <= SemiOf(c, num, q)
      BY <2>3
    <3>2. SemiOf(c, num, q) <= num[x] /\ SemiOf(c, num, q) \in Nat
      BY <2>4, <2>5, SemiIsLowest DEF Numbers
    <3> QED
      BY <1>1, <2>1, <3>1, <3>2
  <2>10. x \notin R
    BY <2>7, <2>8, <2>9
  <2> QED
    BY <2>10
<1>7. b \notin R
  <2>1. CASE Entry = a
    BY <2>1 DEF ReachableFrom
  <2>2. CASE Entry # a
    <3>1. Entry \in S
      BY <1>5, <2>2, EntryIsBlock, ReachableStart
    <3>2. S \in SUBSET (Blocks \ {a})
      BY <1>2, EntryIsBlock, ReachableAvoids DEF ReachableFrom
    <3>3. S \in ClosedSets(c, Entry, a)
      <4> HIDE DEF S
      <4> QED
        BY <1>6, <3>1, <3>2 DEF ClosedSets
    <3>4. R \subseteq S
      <4> HIDE DEF S
      <4> QED
        BY <2>2, <3>3, ReachableLeast
    <3> QED
      BY <1>3, <3>4
  <2> QED
    BY <2>1, <2>2
<1>8. b \in Reachable(c)
  BY TreeReaches
<1> QED
  BY <1>7, <1>8 DEF Dominates

(* If no semidominator between b and its own is lower than its own, that is *)
(* the immediate dominator of b.                                            *)
LEMMA SemiIsImmediate ==
    ASSUME NEW c, NEW num, NEW par, SearchTree(c, num, par),
           NEW b \in Blocks, b # Entry, NEW p \in Blocks, num[p] = SemiOf(c, num, b),
           \A q \in UpFrom(par, b) : num[q] > num[p] => num[p] <= SemiOf(c, num, q)
    PROVE  IsImmediateDominator(DominatorSets(c), p, b)
<1>1. p \in UpFrom(par, b) /\ num[p] < num[b]
  BY SemiIsAbove
<1>2. p # b /\ num[p] \in Nat /\ num[b] \in Nat /\ c \in Cfg
  BY <1>1, NumsAreNat DEF SearchTree, WellFormed
<1>3. ASSUME NEW x \in UpFrom(par, b), num[p] <= num[x], num[x] <= num[p]
      PROVE  x \notin ReachableFrom(c, Entry, p)
  <2>1. x \in Blocks
    BY UpStart
  <2>2. num[x] \in Nat
    BY <2>1, NumsAreNat
  <2>3. x = p
    BY <1>2, <1>3, <2>1, <2>2 DEF SearchTree
  <2> QED
    BY <1>2, <2>3, EntryIsBlock, ReachableAvoids
<1>4. Dominates(c, p, b)
  BY <1>1, <1>2, <1>3, NoWayAround
<1>5. ASSUME NEW a \in Blocks, a # b, Dominates(c, a, b)
      PROVE  Dominates(c, a, p)
  <2>1. a \in UpFrom(par, p)
    BY <1>5, DominatorsAboveSemi
  <2> QED
    BY <1>1, <1>5, <2>1, DominatorsBetween
<1>6. /\ DominatorSets(c)[b] = {a \in Blocks : Dominates(c, a, b)}
      /\ DominatorSets(c)[p] = {a \in Blocks : Dominates(c, a, p)}
  BY DominatorTable
<1> QED
  BY <1>2, <1>4, <1>5, <1>6 DEF IsImmediateDominator

(* Otherwise b has the strict dominators of the block between them with the *)
(* lowest one.                                                              *)
LEMMA RelativeDominators ==
    ASSUME NEW c, NEW num, NEW par, SearchTree(c, num, par),
           NEW b \in Blocks, b # Entry, NEW p \in Blocks, num[p] = SemiOf(c, num, b),
           NEW u \in UpFrom(par, b), num[u] > num[p], SemiOf(c, num, u) < num[p],
           \A q \in UpFrom(par, b) : num[q] > num[p] => SemiOf(c, num, u) <= SemiOf(c, num, q)
    PROVE  /\ num[u] < num[b]
           /\ DominatorSets(c)[u] \ {u} = DominatorSets(c)[b] \ {b}
<1>1. p \in UpFrom(par, b) /\ num[p] < num[b]
  BY SemiIsAbove
<1>2. \A x \in Blocks : num[x] \in Nat /\ num[x] >= 1
  BY NumsAreNat
<1>3. u \in Blocks /\ c \in Cfg /\ p # b
  BY <1>1, <1>2, UpStart DEF SearchTree, WellFormed
<1>4. u # b
  BY <1>2
<1>5. num[u] < num[b]
  BY <1>4, AncestorsLower
<1>6. p \in UpFrom(par, u)
  BY <1>1, <1>2, <1>3, AncestorsChain
<1>7. par \in Links
  BY DEF SearchTree, TreeEdges
<1>8. u # Entry
  <2>1. num[Entry] = 1
    BY EntryInTree
  <2> QED
    BY <1>2, <2>1
<1>9. ASSUME NEW a \in Blocks, a # b, Dominates(c, a, b)
      PROVE  a # u /\ Dominates(c, a, u)
  <2>1. a \in UpFrom(par, p)
    BY <1>9, DominatorsAboveSemi
  <2>2. a \in UpFrom(par, u)
    BY <1>6, <1>7, <2>1, UpTransitive
  <2>3. num[a] <= num[p]
    BY <2>1, AncestorsLower
  <2>4. a # u
    BY <1>2, <1>3, <2>3
  <2> QED
    BY <1>9, <2>2, <2>4, DominatorsBetween
<1>10. ASSUME NEW a \in Blocks, a # u, Dominates(c, a, u)
       PROVE  a # b /\ Dominates(c, a, b)
  <2>1. PICK s \in Blocks : num[s] = SemiOf(c, num, u)
    <3>1. \E x \in Leads(c, num, u) : num[x] = SemiOf(c, num, u)
      BY <1>3, SemiIsLowest
    <3>2. Leads(c, num, u) \subseteq Blocks
      BY <1>3, LeadsStart
    <3> QED
      BY <3>1, <3>2
  <2>2. a \in UpFrom(par, s)
    BY <1>3, <1>8, <1>10, <2>1, DominatorsAboveSemi
  <2>3. num[a] <= num[s]
    BY <2>1, <2>2, AncestorsLower
  <2>4. a # b
    BY <1>2, <1>3, <1>5, <2>1, <2>3
  <2>5. ASSUME NEW x \in UpFrom(par, b), num[s] <= num[x], num[x] <= num[p],
               x \in ReachableFrom(c, Entry, a)
        PROVE  FALSE
    <3>1. x \in Blocks /\ x # a
      BY <1>3, <2>5, EntryIsBlock, ReachableAvoids, UpStart
    <3>2. num[x] <= num[u]
      BY <1>2, <1>3, <2>5, <3>1
    <3>3. x \in UpFrom(par, u)
      BY <3>2, AncestorsChain
    <3>4. num[a] < num[x]
      <4>1. num[a] # num[x]
        BY <3>1 DEF SearchTree
      <4> QED
        BY <1>2, <2>1, <2>3, <2>5, <3>1, <4>1
    <3>5. u \in ReachableFrom(c, x, a)
      BY <1>3, <3>3, <3>4, TreeWay
    <3>6. u \in ReachableFrom(c, Entry, a)
      BY <1>3, <2>5, <3>5, EntryIsBlock, ReachableTransitive
    <3> QED
      BY <1>10, <3>6 DEF Dominates
  <2>6. num[s] \in Nat
    BY <1>2, <2>1
  <2>7. \A q \in UpFrom(par, b) : num[q] > num[p] => num[s] <= SemiOf(c, num, q)
    BY <2>1
  <2> QED
    BY <1>1, <1>3, <2>4, <2>5, <2>6, <2>7, NoWayAround
<1>11. /\ DominatorSets(c)[b] = {a \in Blocks : Dominates(c, a, b)}
       /\ DominatorSets(c)[u] = {a \in Blocks : Dominates(c, a, u)}
  BY <1>3, DominatorTable
<1> QED
  BY <1>5, <1>9, <1>10, <1>11

-----------------------------------------------------------------------------
(* The forest: the blocks numbered above k are linked to their parents and *)
(* have their semidominators.                                              *)

Forest(c, num, par, anc, sm, k) ==
    /\ anc \in Links
    /\ \A b \in Blocks : num[b] > k => anc[b] = par[b] /\ sm[b] = SemiOf(c, num, b)
    /\ \A b \in Blocks : ~(num[b] > k) => anc[b] = UNDEFINED_BBNUM /\ sm[b] = num[b]

(* Lowest for any forest. *)
LowestIn(sm, anc, b) ==
    LET way == {x \in UpFrom(anc, b) : anc[x] # UNDEFINED_BBNUM}
    IN  CHOOSE u \in {b} \union way :
            \A x \in way : sm[u] < sm[x] \/ (sm[u] = sm[x] /\ x \in UpFrom(anc, u))

(* Candidates and BestSemi likewise. *)
CandidatesIn(c, sm, anc, w) == {sm[w]} \union {sm[LowestIn(sm, anc, v)] : v \in Preds(c, w)}
BestIn(c, sm, anc, w) ==
    CHOOSE s \in CandidatesIn(c, sm, anc, w) : \A t \in CandidatesIn(c, sm, anc, w) : s <= t

(* The linked blocks on the way up in the forest are those of the tree. *)
LEMMA WayInForest ==
    ASSUME NEW c, NEW num, NEW par, SearchTree(c, num, par), NEW k \in Nat, k >= 1,
           NEW anc, NEW sm, Forest(c, num, par, anc, sm, k), NEW b \in Blocks
    PROVE  {x \in UpFrom(anc, b) : anc[x] # UNDEFINED_BBNUM}
               = {x \in UpFrom(par, b) : num[x] > k}
<1>1. par \in Links /\ anc \in Links
  BY DEF SearchTree, TreeEdges, Forest
<1>2. UpFrom(par, b) \subseteq Blocks /\ b \in UpFrom(par, b)
      /\ UpFrom(anc, b) \subseteq Blocks /\ b \in UpFrom(anc, b)
  BY UpStart
<1>3. ASSUME NEW x \in UpFrom(anc, b), anc[x] # UNDEFINED_BBNUM
      PROVE  x \in UpFrom(par, b) /\ num[x] > k
  <2>1. \A y \in UpFrom(par, b) : anc[y] = UNDEFINED_BBNUM \/ anc[y] \in UpFrom(par, b)
    BY <1>1, <1>2, UpClosed DEF Forest
  <2>2. UpFrom(anc, b) \subseteq UpFrom(par, b)
    BY <1>2, <2>1, UpLeast
  <2> QED
    BY <1>2, <1>3, <2>2 DEF Forest
<1>4. ASSUME NEW x \in UpFrom(par, b), num[x] > k
      PROVE  x \in UpFrom(anc, b) /\ anc[x] # UNDEFINED_BBNUM
  <2> DEFINE S == {y \in Blocks : num[y] > k => y \in UpFrom(anc, b)}
  <2>1. ASSUME NEW y \in S PROVE par[y] = UNDEFINED_BBNUM \/ par[y] \in S
    <3>1. CASE y = Entry
      BY <3>1 DEF SearchTree, TreeEdges
    <3>2. CASE y # Entry
      <4>1. par[y] \in Blocks /\ num[par[y]] < num[y] /\ par[y] # UNDEFINED_BBNUM
        BY <3>2, ParentInTree
      <4>2. num[y] \in Nat /\ num[par[y]] \in Nat
        BY <4>1, NumsAreNat
      <4>3. ASSUME num[par[y]] > k PROVE par[y] \in UpFrom(anc, b)
        <5>1. num[y] > k
          BY <4>1, <4>2, <4>3
        <5>2. anc[y] = par[y] /\ y \in UpFrom(anc, b)
          BY <5>1 DEF Forest
        <5> QED
          BY <1>1, <4>1, <5>2, UpClosed
      <4> QED
        BY <4>1, <4>3
    <3> QED
      BY <3>1, <3>2
  <2>2. b \in S /\ S \in SUBSET Blocks
    BY <1>2
  <2>3. UpFrom(par, b) \subseteq S
    <3> HIDE DEF S
    <3> QED
      BY <2>1, <2>2, UpLeast
  <2>4. x \in UpFrom(anc, b)
    BY <1>4, <2>3
  <2>5. x # Entry
    <3>1. num[Entry] = 1
      BY EntryInTree
    <3> QED
      BY <1>4, <3>1
  <2>6. par[x] # UNDEFINED_BBNUM
    BY <1>2, <2>5, ParentInTree
  <2> QED
    BY <1>2, <1>4, <2>4, <2>6 DEF Forest
<1> QED
  BY <1>3, <1>4

(* The block with the lowest semi on that way; the block itself if there is *)
(* no way.                                                                  *)
LEMMA LowestOnWay ==
    ASSUME NEW c, NEW num, NEW par, SearchTree(c, num, par), NEW k \in Nat, k >= 1,
           NEW anc, NEW sm, Forest(c, num, par, anc, sm, k), NEW b \in Blocks,
           NEW u, u = LowestIn(sm, anc, b)
    PROVE  /\ ~(num[b] > k) => u = b
           /\ num[b] > k =>
                /\ u \in UpFrom(par, b)
                /\ num[u] > k
                /\ \A x \in UpFrom(par, b) : num[x] > k => SemiOf(c, num, u) <= SemiOf(c, num, x)
<1> DEFINE way == {x \in UpFrom(anc, b) : anc[x] # UNDEFINED_BBNUM}
<1>1. way = {x \in UpFrom(par, b) : num[x] > k}
  BY WayInForest
<1>2. b \in UpFrom(par, b) /\ UpFrom(par, b) \subseteq Blocks
  BY UpStart
<1>3. u = CHOOSE v \in {b} \union way :
              \A x \in way : sm[v] < sm[x] \/ (sm[v] = sm[x] /\ x \in UpFrom(anc, v))
  BY DEF LowestIn
<1> HIDE DEF way
<1>4. \A x \in way : x \in Blocks /\ num[x] > k /\ num[x] \in Nat
  BY <1>1, <1>2, NumsAreNat
<1>5. \A x \in way : sm[x] = SemiOf(c, num, x) /\ sm[x] \in Nat
  <2>1. \A x \in Blocks : SemiOf(c, num, x) \in Nat
    BY SemiIsLowest DEF Numbers
  <2> QED
    BY <1>4, <2>1 DEF Forest
<1>6. CASE ~(num[b] > k)
  <2>1. way = {}
    <3>1. ASSUME NEW x \in way PROVE FALSE
      <4>1. num[x] <= num[b] /\ num[b] \in Nat
        BY <1>1, AncestorsLower, NumsAreNat
      <4> QED
        BY <1>4, <1>6, <4>1
    <3> QED
      BY <3>1
  <2> QED
    BY <1>3, <1>6, <2>1
<1>7. CASE num[b] > k
  <2>1. b \in way
    BY <1>1, <1>2, <1>7
  <2> DEFINE T == {sm[x] : x \in way}
  <2>2. PICK low \in T : \A j \in T : low <= j
    <3>1. T \in SUBSET Nat /\ T # {}
      BY <1>5, <2>1
    <3> HIDE DEF T
    <3> QED
      BY <3>1, NatMin
  <2> DEFINE M == {num[x] : x \in {y \in way : sm[y] = low}}
  <2>3. PICK top \in M : \A j \in M : j <= top
    <3>1. M \in SUBSET Int /\ M # {}
      BY <1>4, <2>2
    <3>2. \A j \in M : j <= NBlocks
      BY <1>4, NumsAreNat
    <3>3. NBlocks \in Int
      BY NBlocksAssumption
    <3> HIDE DEF M
    <3> QED
      BY <3>1, <3>2, <3>3, IntMax
  <2>4. PICK v \in way : sm[v] = low /\ num[v] = top
    BY <2>3
  <2>5. ASSUME NEW x \in way
        PROVE  sm[v] < sm[x] \/ (sm[v] = sm[x] /\ x \in UpFrom(anc, v))
    <3>1. low <= sm[x] /\ sm[x] \in Nat /\ sm[v] \in Nat
      BY <1>5, <2>2
    <3>2. CASE sm[x] = low
      <4>1. num[x] <= num[v]
        BY <2>3, <2>4, <3>2
      <4>2. x \in UpFrom(par, b) /\ v \in UpFrom(par, b) /\ num[x] > k
        BY <1>1
      <4>3. x \in UpFrom(par, v)
        BY <4>1, <4>2, AncestorsChain
      <4>4. v \in Blocks
        BY <1>4
      <4>5. x \in {y \in UpFrom(anc, v) : anc[y] # UNDEFINED_BBNUM}
        BY <4>2, <4>3, <4>4, WayInForest
      <4> QED
        BY <2>4, <3>2, <4>5
    <3>3. CASE sm[x] # low
      BY <2>4, <3>1, <3>3
    <3> QED
      BY <3>2, <3>3
  <2>6. /\ u \in {b} \union way
        /\ \A x \in way : sm[u] < sm[x] \/ (sm[u] = sm[x] /\ x \in UpFrom(anc, u))
    BY <1>3, <2>5
  <2>7. u \in way
    BY <2>1, <2>6
  <2>8. ASSUME NEW x \in UpFrom(par, b), num[x] > k
        PROVE  SemiOf(c, num, u) <= SemiOf(c, num, x)
    <3>1. x \in way
      BY <1>1, <2>8
    <3>2. sm[u] \in Nat /\ sm[x] \in Nat /\ sm[u] = SemiOf(c, num, u) /\ sm[x] = SemiOf(c, num, x)
      BY <1>5, <2>7, <3>1
    <3>3. sm[u] < sm[x] \/ sm[u] = sm[x]
      BY <2>6, <3>1
    <3> QED
      BY <3>2, <3>3
  <2> QED
    BY <1>1, <1>7, <2>7, <2>8
<1> QED
  BY <1>6, <1>7

(* A proper ancestor has a child on the way down. *)
LEMMA ChildOnWay ==
    ASSUME NEW c, NEW num, NEW par, SearchTree(c, num, par),
           NEW b \in Blocks, NEW p \in UpFrom(par, b), p # b
    PROVE  \E y \in UpFrom(par, b) : par[y] = p
<1> DEFINE S == {z \in Blocks : p \in UpFrom(par, z) /\ p # z => \E y \in UpFrom(par, z) : par[y] = p}
<1>1. Entry \in S
  BY EntryInTree, EntryIsBlock
<1>2. ASSUME NEW z \in Blocks \ {Entry}, par[z] \in S PROVE z \in S
  <2> SUFFICES ASSUME p \in UpFrom(par, z), p # z PROVE \E y \in UpFrom(par, z) : par[y] = p
    OBVIOUS
  <2>1. UpFrom(par, z) = {z} \union UpFrom(par, par[z])
    BY ParentInTree
  <2> QED
    BY <1>2, <2>1
<1>3. Blocks \subseteq S
  <2> HIDE DEF S
  <2> QED
    BY <1>1, <1>2, TreeInduction
<1> QED
  BY <1>3

-----------------------------------------------------------------------------
(* The buckets: rest maps a block to the first of the blocks in its bucket  *)
(* that are still to be looked at, link each of them to the next.           *)

Waiting(link, h) == IF h = UNDEFINED_BBNUM THEN {} ELSE UpFrom(link, h)

(* b has its immediate dominator, or a lower block with the same one. *)
IsSettled(c, num, idoms, b) ==
    /\ idoms[b] \in Blocks
    /\ \/ /\ num[idoms[b]] = SemiOf(c, num, b)
          /\ IsImmediateDominator(DominatorSets(c), idoms[b], b)
       \/ /\ num[idoms[b]] > SemiOf(c, num, b)
          /\ num[idoms[b]] < num[b]
          /\ DominatorSets(c)[idoms[b]] \ {idoms[b]} = DominatorSets(c)[b] \ {b}

(* A bucket holds blocks numbered above k with this semidominator. *)
InBuckets(c, num, link, rest, k) ==
    /\ \A b \in Blocks : num[b] > k /\ link[b] # UNDEFINED_BBNUM =>
          num[link[b]] > k /\ SemiOf(c, num, link[b]) = SemiOf(c, num, b)
    /\ \A u \in Blocks : rest[u] # UNDEFINED_BBNUM =>
          num[rest[u]] > k /\ SemiOf(c, num, rest[u]) = num[u]

(* Of those blocks the ones not settled are in their bucket. *)
NoneForgotten(c, num, link, rest, idoms, k) ==
    \A b, u \in Blocks :
        num[b] > k /\ num[u] = SemiOf(c, num, b) /\ ~IsSettled(c, num, idoms, b)
            => b \in Waiting(link, rest[u])

(* A block waits in the bucket of u until the child of u above it has been *)
(* worked on.                                                              *)
NoneLate(par, num, link, rest, top) ==
    \A u, x \in Blocks : \A b \in Waiting(link, rest[u]) :
        par[x] = u /\ x \in UpFrom(par, b) => num[x] <= top

Buckets(c, num, par, link, rest, idoms, k, top) ==
    /\ link \in Links
    /\ rest \in Links
    /\ InBuckets(c, num, link, rest, k)
    /\ NoneForgotten(c, num, link, rest, idoms, k)
    /\ NoneLate(par, num, link, rest, top)

(* All that waits in a bucket belongs there. *)
LEMMA WaitingBelong ==
    ASSUME NEW c, NEW num, NEW link \in Links, NEW rest \in Links, NEW k,
           InBuckets(c, num, link, rest, k),
           NEW u \in Blocks, NEW b \in Waiting(link, rest[u])
    PROVE  b \in Blocks /\ num[b] > k /\ SemiOf(c, num, b) = num[u]
<1> DEFINE S == {x \in Blocks : num[x] > k /\ SemiOf(c, num, x) = num[u]}
<1>1. rest[u] # UNDEFINED_BBNUM /\ rest[u] \in Blocks /\ b \in UpFrom(link, rest[u])
  BY DEF Waiting, Links
<1>2. rest[u] \in S /\ S \in SUBSET Blocks
  BY <1>1 DEF InBuckets
<1>3. ASSUME NEW x \in S PROVE link[x] = UNDEFINED_BBNUM \/ link[x] \in S
  <2>1. link[x] # UNDEFINED_BBNUM => link[x] \in Blocks
    BY DEF Links
  <2> QED
    BY <2>1 DEF InBuckets
<1>4. UpFrom(link, rest[u]) \subseteq S
  <2> HIDE DEF S
  <2> QED
    BY <1>2, <1>3, UpLeast
<1> QED
  BY <1>1, <1>4

(* The block w numbered k, the next one down, goes to the front of the bucket *)
(* of its semidominator s.                                                    *)
LEMMA PutInBucket ==
    ASSUME NEW c, NEW num, NEW par, SearchTree(c, num, par),
           NEW link, NEW rest, NEW idoms, NEW k \in Nat,
           Buckets(c, num, par, link, rest, idoms, k, k),
           NEW w \in Blocks, num[w] = k, NEW s \in Blocks, num[s] = SemiOf(c, num, w)
    PROVE  Buckets(c, num, par, [link EXCEPT ![w] = rest[s]], [rest EXCEPT ![s] = w],
                   idoms, k - 1, k)
<1> DEFINE l == [link EXCEPT ![w] = rest[s]]
           r == [rest EXCEPT ![s] = w]
<1>1. link \in Links /\ rest \in Links /\ InBuckets(c, num, link, rest, k)
      /\ NoneForgotten(c, num, link, rest, idoms, k) /\ NoneLate(par, num, link, rest, k)
  BY DEF Buckets
<1>2. l \in Links /\ r \in Links
  <2>1. rest[s] \in Blocks \union {UNDEFINED_BBNUM}
    BY <1>1 DEF Links
  <2> QED
    BY <1>1, <2>1 DEF Links
<1>3. l[w] = rest[s] /\ \A b \in Blocks : b # w => l[b] = link[b]
  BY <1>1 DEF Links
<1>4. r[s] = w /\ \A u \in Blocks : u # s => r[u] = rest[u]
  BY <1>1 DEF Links
<1> HIDE DEF l, r
<1>5. \A b \in Blocks : num[b] \in Nat /\ (num[b] > k - 1 <=> num[b] > k \/ b = w)
  <2>1. \A b \in Blocks : num[b] \in Nat /\ (num[b] = k => b = w)
    BY NumsAreNat DEF SearchTree
  <2> QED
    BY <2>1
<1>6. ASSUME NEW u \in Blocks PROVE Waiting(l, rest[u]) = Waiting(link, rest[u])
  <2>1. CASE rest[u] = UNDEFINED_BBNUM
    BY <2>1 DEF Waiting
  <2>2. CASE rest[u] # UNDEFINED_BBNUM
    <3>1. rest[u] \in Blocks
      BY <1>1, <2>2 DEF Links
    <3>2. \A b \in UpFrom(link, rest[u]) : b \in Blocks /\ num[b] > k
      BY <1>1, <2>2, WaitingBelong DEF Waiting
    <3>3. \A b \in UpFrom(link, rest[u]) : l[b] = link[b]
      BY <1>3, <1>5, <3>2
    <3>4. UpFrom(l, rest[u]) = UpFrom(link, rest[u])
      BY <1>1, <1>2, <3>1, <3>3, UpSame
    <3> QED
      BY <2>2, <3>4 DEF Waiting
  <2> QED
    BY <2>1, <2>2
<1>7. Waiting(l, r[s]) = {w} \union Waiting(link, rest[s])
  <2>1. w # UNDEFINED_BBNUM
    BY UndefinedIsNone
  <2>2. CASE rest[s] = UNDEFINED_BBNUM
    BY <1>3, <1>4, <2>1, <2>2, UpRoot DEF Waiting
  <2>3. CASE rest[s] # UNDEFINED_BBNUM
    <3>1. UpFrom(l, w) = {w} \union UpFrom(l, rest[s])
      BY <1>2, <1>3, <2>3, UpStep
    <3>2. UpFrom(l, rest[s]) = Waiting(link, rest[s])
      BY <1>6, <2>3 DEF Waiting
    <3> QED
      BY <1>4, <2>1, <3>1, <3>2 DEF Waiting
  <2> QED
    BY <2>2, <2>3
<1>8. \A u \in Blocks : u # s => Waiting(l, r[u]) = Waiting(link, rest[u])
  BY <1>4, <1>6
<1>9. InBuckets(c, num, l, r, k - 1)
  <2>1. ASSUME NEW b \in Blocks, num[b] > k - 1, l[b] # UNDEFINED_BBNUM
        PROVE  num[l[b]] > k - 1 /\ SemiOf(c, num, l[b]) = SemiOf(c, num, b)
    <3>1. l[b] \in Blocks
      BY <1>2, <2>1 DEF Links
    <3>2. CASE b = w
      <4>1. num[l[b]] > k /\ SemiOf(c, num, l[b]) = num[s]
        BY <1>1, <1>3, <2>1, <3>2 DEF InBuckets
      <4> QED
        BY <1>5, <3>1, <3>2, <4>1
    <3>3. CASE b # w
      <4>1. num[l[b]] > k /\ SemiOf(c, num, l[b]) = SemiOf(c, num, b)
        BY <1>1, <1>3, <1>5, <2>1, <3>3 DEF InBuckets
      <4> QED
        BY <1>5, <3>1, <4>1
    <3> QED
      BY <3>2, <3>3
  <2>2. ASSUME NEW u \in Blocks, r[u] # UNDEFINED_BBNUM
        PROVE  num[r[u]] > k - 1 /\ SemiOf(c, num, r[u]) = num[u]
    <3>1. r[u] \in Blocks
      BY <1>2, <2>2 DEF Links
    <3>2. CASE u = s
      BY <1>4, <1>5, <3>2
    <3>3. CASE u # s
      <4>1. num[r[u]] > k /\ SemiOf(c, num, r[u]) = num[u]
        BY <1>1, <1>4, <2>2, <3>3 DEF InBuckets
      <4> QED
        BY <1>5, <3>1, <4>1
    <3> QED
      BY <3>2, <3>3
  <2> QED
    BY <2>1, <2>2 DEF InBuckets
<1>10. NoneForgotten(c, num, l, r, idoms, k - 1)
  <2> SUFFICES ASSUME NEW b \in Blocks, NEW u \in Blocks, num[b] > k - 1,
                      num[u] = SemiOf(c, num, b), ~IsSettled(c, num, idoms, b)
               PROVE  b \in Waiting(l, r[u])
    BY DEF NoneForgotten
  <2>1. CASE b = w
    <3>1. u = s
      BY <2>1 DEF SearchTree
    <3> QED
      BY <1>7, <2>1, <3>1
  <2>2. CASE b # w
    <3>1. b \in Waiting(link, rest[u])
      BY <1>1, <1>5, <2>2 DEF NoneForgotten
    <3> QED
      BY <1>7, <1>8, <3>1
  <2> QED
    BY <2>1, <2>2
<1>11. NoneLate(par, num, l, r, k)
  <2> SUFFICES ASSUME NEW u \in Blocks, NEW x \in Blocks, NEW b \in Waiting(l, r[u]),
                      par[x] = u, x \in UpFrom(par, b)
               PROVE  num[x] <= k
    BY DEF NoneLate
  <2>1. CASE b = w
    BY <2>1, AncestorsLower
  <2>2. CASE b # w
    <3>1. b \in Waiting(link, rest[u])
      BY <1>7, <1>8, <2>2
    <3> QED
      BY <1>1, <3>1 DEF NoneLate
  <2> QED
    BY <2>1, <2>2
<1>12. Buckets(c, num, par, l, r, idoms, k - 1, k)
  BY <1>2, <1>9, <1>10, <1>11 DEF Buckets
<1> QED
  BY <1>12 DEF l, r

(* The first block of the bucket of p is settled. *)
LEMMA TakeFromBucket ==
    ASSUME NEW c, NEW num, NEW par, SearchTree(c, num, par),
           NEW link, NEW rest, NEW idoms \in Links, NEW k \in Nat, NEW top,
           Buckets(c, num, par, link, rest, idoms, k, top),
           NEW p \in Blocks, NEW h \in Blocks, rest[p] = h,
           NEW v, IsSettled(c, num, [idoms EXCEPT ![h] = v], h)
    PROVE  Buckets(c, num, par, link, [rest EXCEPT ![p] = link[h]],
                   [idoms EXCEPT ![h] = v], k, top)
<1> DEFINE r == [rest EXCEPT ![p] = link[h]]
           i == [idoms EXCEPT ![h] = v]
<1>1. link \in Links /\ rest \in Links /\ InBuckets(c, num, link, rest, k)
      /\ NoneForgotten(c, num, link, rest, idoms, k) /\ NoneLate(par, num, link, rest, top)
  BY DEF Buckets
<1>2. r \in Links
  <2>1. link[h] \in Blocks \union {UNDEFINED_BBNUM}
    BY <1>1 DEF Links
  <2> QED
    BY <1>1, <2>1 DEF Links
<1>3. r[p] = link[h] /\ \A u \in Blocks : u # p => r[u] = rest[u]
  BY <1>1 DEF Links
<1>4. \A b \in Blocks : b # h => i[b] = idoms[b]
  BY DEF Links
<1>5. IsSettled(c, num, i, h)
  OBVIOUS
<1> HIDE DEF r, i
<1>6. h # UNDEFINED_BBNUM
  BY UndefinedIsNone
<1>7. Waiting(link, rest[p]) = {h} \union Waiting(link, r[p])
  <2>1. CASE link[h] = UNDEFINED_BBNUM
    BY <1>3, <1>6, <2>1, UpRoot DEF Waiting
  <2>2. CASE link[h] # UNDEFINED_BBNUM
    <3>1. UpFrom(link, h) = {h} \union UpFrom(link, link[h])
      BY <1>1, <2>2, UpStep
    <3> QED
      BY <1>3, <1>6, <2>2, <3>1 DEF Waiting
  <2> QED
    BY <2>1, <2>2
<1>8. \A u \in Blocks : u # p => Waiting(link, r[u]) = Waiting(link, rest[u])
  BY <1>3
<1>9. InBuckets(c, num, link, r, k)
  <2>1. ASSUME NEW u \in Blocks, r[u] # UNDEFINED_BBNUM
        PROVE  num[r[u]] > k /\ SemiOf(c, num, r[u]) = num[u]
    <3>1. CASE u = p
      <4>1. num[h] > k /\ SemiOf(c, num, h) = num[p]
        BY <1>1, <1>6 DEF InBuckets
      <4>2. num[link[h]] > k /\ SemiOf(c, num, link[h]) = SemiOf(c, num, h)
        BY <1>1, <1>3, <2>1, <3>1, <4>1 DEF InBuckets
      <4> QED
        BY <1>3, <3>1, <4>1, <4>2
    <3>2. CASE u # p
      BY <1>1, <1>3, <2>1, <3>2 DEF InBuckets
    <3> QED
      BY <3>1, <3>2
  <2> QED
    BY <1>1, <2>1 DEF InBuckets
<1>10. NoneForgotten(c, num, link, r, i, k)
  <2> SUFFICES ASSUME NEW b \in Blocks, NEW u \in Blocks, num[b] > k,
                      num[u] = SemiOf(c, num, b), ~IsSettled(c, num, i, b)
               PROVE  b \in Waiting(link, r[u])
    BY DEF NoneForgotten
  <2>1. b # h
    BY <1>5
  <2>2. ~IsSettled(c, num, idoms, b)
    BY <1>4, <2>1 DEF IsSettled
  <2>3. b \in Waiting(link, rest[u])
    BY <1>1, <2>2 DEF NoneForgotten
  <2> QED
    BY <1>7, <1>8, <2>1, <2>3
<1>11. NoneLate(par, num, link, r, top)
  <2>1. \A u \in Blocks : Waiting(link, r[u]) \subseteq Waiting(link, rest[u])
    BY <1>7, <1>8
  <2> QED
    BY <1>1, <2>1 DEF NoneLate
<1>12. Buckets(c, num, par, link, r, i, k, top)
  BY <1>1, <1>2, <1>9, <1>10, <1>11 DEF Buckets
<1> QED
  BY <1>12 DEF r, i

(* With the bucket of p empty its children down to w have been worked on. *)
LEMMA LeaveBucket ==
    ASSUME NEW c, NEW num, NEW par, SearchTree(c, num, par),
           NEW link, NEW rest, NEW idoms, NEW k, NEW top \in Nat,
           Buckets(c, num, par, link, rest, idoms, k, top),
           NEW w \in Blocks, num[w] = top, rest[par[w]] = UNDEFINED_BBNUM
    PROVE  Buckets(c, num, par, link, rest, idoms, k, top - 1)
<1>1. NoneLate(par, num, link, rest, top)
  BY DEF Buckets
<1>2. NoneLate(par, num, link, rest, top - 1)
  <2> SUFFICES ASSUME NEW u \in Blocks, NEW x \in Blocks, NEW b \in Waiting(link, rest[u]),
                      par[x] = u, x \in UpFrom(par, b)
               PROVE  num[x] <= top - 1
    BY DEF NoneLate
  <2>1. num[x] <= top /\ num[x] \in Nat
    BY <1>1, NumsAreNat DEF NoneLate
  <2>2. x # w
    BY DEF Waiting
  <2>3. num[x] # top
    BY <2>2 DEF SearchTree
  <2> QED
    BY <2>1, <2>3
<1> QED
  BY <1>2 DEF Buckets

(* In the end nothing waits: there is no child so low. *)
LEMMA BucketsEmpty ==
    ASSUME NEW c, NEW num, NEW par, SearchTree(c, num, par),
           NEW link, NEW rest, NEW idoms, Buckets(c, num, par, link, rest, idoms, 1, 1)
    PROVE  /\ \A u \in Blocks : rest[u] = UNDEFINED_BBNUM
           /\ \A b \in Blocks \ {Entry} : IsSettled(c, num, idoms, b)
<1>1. link \in Links /\ rest \in Links /\ InBuckets(c, num, link, rest, 1)
      /\ NoneForgotten(c, num, link, rest, idoms, 1) /\ NoneLate(par, num, link, rest, 1)
  BY DEF Buckets
<1>2. ASSUME NEW u \in Blocks, NEW b \in Waiting(link, rest[u]) PROVE FALSE
  <2>1. b \in Blocks /\ num[b] > 1 /\ SemiOf(c, num, b) = num[u]
    BY <1>1, WaitingBelong
  <2>2. b # Entry
    BY <2>1, EntryInTree
  <2>3. u \in UpFrom(par, b) /\ num[u] < num[b]
    BY <2>1, <2>2, SemiIsAbove
  <2>4. u # b /\ num[u] \in Nat /\ num[u] >= 1
    BY <2>1, <2>3, NumsAreNat
  <2>5. PICK y \in UpFrom(par, b) : par[y] = u
    BY <2>1, <2>3, <2>4, ChildOnWay
  <2>6. y \in Blocks
    BY <2>1, UpStart
  <2>7. y # Entry
    <3>1. u # UNDEFINED_BBNUM
      BY UndefinedIsNone
    <3> QED
      BY <2>5, <3>1 DEF SearchTree, TreeEdges
  <2>8. num[u] < num[y] /\ num[y] \in Nat
    BY <2>5, <2>6, <2>7, ParentInTree, NumsAreNat
  <2>9. num[y] <= 1
    BY <1>1, <2>5, <2>6 DEF NoneLate
  <2> QED
    BY <2>4, <2>8, <2>9
<1>3. ASSUME NEW u \in Blocks PROVE rest[u] = UNDEFINED_BBNUM
  <2>1. CASE rest[u] # UNDEFINED_BBNUM
    <3>1. rest[u] \in Blocks
      BY <1>1, <2>1 DEF Links
    <3>2. rest[u] \in Waiting(link, rest[u])
      BY <2>1, <3>1, UpStart DEF Waiting
    <3> QED
      BY <1>2, <3>2
  <2> QED
    BY <2>1
<1>4. ASSUME NEW b \in Blocks \ {Entry} PROVE IsSettled(c, num, idoms, b)
  <2>1. num[b] > 1
    <3>1. num[b] # num[Entry]
      BY EntryIsBlock DEF SearchTree
    <3> QED
      BY <3>1, EntryInTree, NumsAreNat
  <2>2. PICK u \in Blocks : num[u] = SemiOf(c, num, b)
    <3>1. \E x \in Leads(c, num, b) : num[x] = SemiOf(c, num, b)
      BY SemiIsLowest
    <3> QED
      BY <3>1, LeadsStart
  <2> QED
    BY <1>1, <1>2, <2>1, <2>2 DEF NoneForgotten
<1> QED
  BY <1>3, <1>4

(* What is done to a block h of the bucket of p, the parent of the block w   *)
(* just linked, settles it: the blocks linked above h are all those between  *)
(* p and h.                                                                  *)
LEMMA LookedAtIsSettled ==
    ASSUME NEW c, NEW num, NEW par, SearchTree(c, num, par),
           NEW w \in Blocks, w # Entry, NEW k \in Nat, k >= 1, num[w] <= k + 1, k + 1 <= num[w],
           NEW anc, NEW sm, Forest(c, num, par, anc, sm, k),
           NEW link, NEW rest, NEW idoms, Buckets(c, num, par, link, rest, idoms, k, k + 1),
           NEW h \in Blocks, h \in Waiting(link, rest[par[w]]),
           NEW i, sm[LowestIn(sm, anc, h)] < sm[h] => i[h] = LowestIn(sm, anc, h),
           ~(sm[LowestIn(sm, anc, h)] < sm[h]) => i[h] = par[w]
    PROVE  IsSettled(c, num, i, h)
<1> DEFINE p == par[w]
           u == LowestIn(sm, anc, h)
<1>1. /\ p \in Blocks /\ num[p] < num[w]
      /\ UpFrom(par, w) = {w} \union UpFrom(par, p)
  BY ParentInTree
<1>2. /\ \A x \in Blocks : num[x] \in Nat /\ num[x] >= 1
      /\ num[w] = k + 1
  BY NumsAreNat
<1>3. h \in Waiting(link, rest[p])
  OBVIOUS
<1>15. sm[u] < sm[h] => i[h] = u
  OBVIOUS
<1>16. ~(sm[u] < sm[h]) => i[h] = p
  OBVIOUS
<1>4. num[h] > k /\ SemiOf(c, num, h) = num[p]
  <2>1. link \in Links /\ rest \in Links /\ InBuckets(c, num, link, rest, k)
    BY DEF Buckets
  <2>2. \A x \in Blocks : \A b \in Waiting(link, rest[x]) :
            num[b] > k /\ SemiOf(c, num, b) = num[x]
    BY <2>1, WaitingBelong
  <2> QED
    BY <1>1, <1>3, <2>2
<1>5. h # Entry
  BY <1>4, EntryInTree
<1>6. p \in UpFrom(par, h) /\ num[p] < num[h]
  BY <1>1, <1>4, <1>5, SemiIsAbove
<1>7. ASSUME NEW x \in UpFrom(par, h), num[x] > num[p] PROVE num[x] > k
  <2>1. x \in Blocks
    BY UpStart
  <2>2. p \in UpFrom(par, x)
    BY <1>1, <1>2, <1>6, <1>7, <2>1, AncestorsChain
  <2>3. p # x
    BY <1>1, <1>2, <1>7
  <2>4. PICK y \in UpFrom(par, x) : par[y] = p
    BY <2>1, <2>2, <2>3, ChildOnWay
  <2>5. y \in Blocks /\ num[y] <= num[x]
    BY <2>1, AncestorsLower
  <2>6. y \in UpFrom(par, h)
    BY UpTransitive DEF SearchTree, TreeEdges
  <2>7. num[y] <= k + 1
    BY <1>1, <1>3, <2>4, <2>5, <2>6 DEF Buckets, NoneLate
  <2>8. y # Entry
    <3>1. p # UNDEFINED_BBNUM
      BY <1>1, UndefinedIsNone
    <3> QED
      BY <2>4, <3>1 DEF SearchTree, TreeEdges
  <2>9. num[p] < num[y]
    BY <2>4, <2>5, <2>8, ParentInTree
  <2>10. num[y] <= num[w] /\ num[w] <= num[h]
    BY <1>2, <1>4, <2>7
  <2>11. y \in UpFrom(par, w)
    BY <1>2, <2>5, <2>6, <2>10 DEF SearchTree, Intervals
  <2>12. y \notin UpFrom(par, p)
    <3>1. ASSUME y \in UpFrom(par, p) PROVE FALSE
      <4>1. num[y] <= num[p]
        BY <1>1, <3>1, AncestorsLower
      <4> QED
        BY <1>1, <1>2, <2>5, <2>9, <4>1
    <3> QED
      BY <3>1
  <2>13. y = w
    BY <1>1, <2>11, <2>12
  <2> QED
    BY <1>2, <2>1, <2>5, <2>13
<1>8. /\ u \in UpFrom(par, h)
      /\ num[u] > k
      /\ \A x \in UpFrom(par, h) : num[x] > k => SemiOf(c, num, u) <= SemiOf(c, num, x)
  BY <1>4, LowestOnWay
<1> HIDE DEF u
<1>9. \A x \in UpFrom(par, h) : num[x] > num[p] => SemiOf(c, num, u) <= SemiOf(c, num, x)
  BY <1>7, <1>8
<1>10. u \in Blocks
  BY <1>8, UpStart
<1>11. sm[u] = SemiOf(c, num, u) /\ sm[h] = num[p]
  BY <1>4, <1>8, <1>10 DEF Forest
<1>12. num[u] > num[p]
  BY <1>1, <1>2, <1>8, <1>10
<1>13. CASE sm[u] < sm[h]
  <2>1. /\ num[u] < num[h]
        /\ DominatorSets(c)[u] \ {u} = DominatorSets(c)[h] \ {h}
    BY <1>1, <1>4, <1>5, <1>8, <1>9, <1>11, <1>12, <1>13, RelativeDominators
  <2> QED
    BY <1>4, <1>10, <1>12, <1>13, <1>15, <2>1 DEF IsSettled
<1>14. CASE ~(sm[u] < sm[h])
  <2>1. \A q \in UpFrom(par, h) : num[q] > num[p] => num[p] <= SemiOf(c, num, q)
    <3>1. \A q \in Blocks : SemiOf(c, num, q) \in Nat
      BY SemiIsLowest DEF Numbers
    <3>2. num[p] <= SemiOf(c, num, u)
      BY <1>1, <1>2, <1>10, <1>11, <1>14, <3>1
    <3>3. UpFrom(par, h) \subseteq Blocks
      BY UpStart
    <3> QED
      BY <1>1, <1>2, <1>9, <1>10, <3>1, <3>2, <3>3
  <2>2. IsImmediateDominator(DominatorSets(c), p, h)
    BY <1>1, <1>4, <1>5, <2>1, SemiIsImmediate
  <2> QED
    BY <1>1, <1>4, <1>14, <1>16, <2>2 DEF IsSettled
<1> QED
  BY <1>13, <1>14

(* The semidominator of w is computed right from the forest of the blocks *)
(* higher than w.                                                         *)
LEMMA SemiFromForest ==
    ASSUME NEW c, NEW num, NEW par, SearchTree(c, num, par),
           NEW w \in Blocks, NEW k \in Nat, k >= 1, k <= num[w], num[w] <= k,
           NEW anc, NEW sm, Forest(c, num, par, anc, sm, k)
    PROVE  BestIn(c, sm, anc, w) = SemiOf(c, num, w)
<1> DEFINE cand == CandidatesIn(c, sm, anc, w)
           best == BestIn(c, sm, anc, w)
<1>0. /\ num[w] = k
      /\ cand = {sm[w]} \union {sm[LowestIn(sm, anc, v)] : v \in Preds(c, w)}
      /\ best = CHOOSE s \in cand : \A t \in cand : s <= t
  BY NumsAreNat DEF CandidatesIn, BestIn
<1> HIDE DEF cand, best
<1>1. \A x \in Blocks : num[x] \in Nat /\ SemiOf(c, num, x) \in Nat
  BY NumsAreNat, SemiIsLowest DEF Numbers
<1>2. Preds(c, w) \subseteq Blocks
  BY NeighboursAreBlocks DEF SearchTree, WellFormed
<1>3. sm[w] = num[w]
  BY <1>0, <1>1 DEF Forest
<1>4. ASSUME NEW v \in Preds(c, w), num[v] <= num[w]
      PROVE  sm[LowestIn(sm, anc, v)] = num[v]
  <2>1. ~(num[v] > k)
    BY <1>0, <1>1, <1>2, <1>4
  <2> QED
    BY <1>2, <2>1, LowestOnWay DEF Forest
<1>5. ASSUME NEW v \in Preds(c, w), num[v] > num[w]
      PROVE  \E u \in UpFrom(par, v) :
                /\ num[u] > num[w]
                /\ sm[LowestIn(sm, anc, v)] = SemiOf(c, num, u)
                /\ \A x \in UpFrom(par, v) : num[x] > num[w] => SemiOf(c, num, u) <= SemiOf(c, num, x)
  <2> DEFINE u == LowestIn(sm, anc, v)
  <2>1. v \in Blocks
    BY <1>2
  <2>2. /\ u \in UpFrom(par, v) /\ num[u] > k
        /\ \A x \in UpFrom(par, v) : num[x] > k => SemiOf(c, num, u) <= SemiOf(c, num, x)
    <3>1. num[v] > k
      BY <1>0, <1>5
    <3> QED
      BY <2>1, <3>1, LowestOnWay
  <2>3. u \in Blocks
    BY <2>1, <2>2, UpStart
  <2> HIDE DEF u
  <2>4. sm[u] = SemiOf(c, num, u)
    BY <2>2, <2>3 DEF Forest
  <2>5. sm[LowestIn(sm, anc, v)] = SemiOf(c, num, u)
    BY <2>4 DEF u
  <2> QED
    BY <1>0, <2>2, <2>5
<1>6. ASSUME NEW v \in Preds(c, w) PROVE sm[LowestIn(sm, anc, v)] \in Nat
  <2>1. CASE num[v] <= num[w]
    BY <1>1, <1>2, <1>4, <2>1
  <2>2. CASE ~(num[v] <= num[w])
    <3>1. num[v] > num[w] /\ v \in Blocks
      BY <1>1, <1>2, <2>2
    <3>2. UpFrom(par, v) \subseteq Blocks
      BY <3>1, UpStart
    <3> QED
      BY <1>1, <1>5, <3>1, <3>2
  <2> QED
    BY <2>1, <2>2
<1>7. cand \in SUBSET Nat /\ cand # {}
  BY <1>0, <1>1, <1>3, <1>6
<1>8. \E s \in cand : \A t \in cand : s <= t
  BY <1>7, NatMin
<1>9. best \in cand /\ \A t \in cand : best <= t
  BY <1>0, <1>8
<1>10. best \in Nat
  BY <1>7, <1>9
<1>11. \/ best = num[w]
       \/ \E v \in Preds(c, w) : best = sm[LowestIn(sm, anc, v)]
  BY <1>0, <1>3, <1>9
<1>12. best <= num[w] /\ \A v \in Preds(c, w) : best <= sm[LowestIn(sm, anc, v)]
  BY <1>0, <1>3, <1>9
<1> HIDE <1>9
<1>13. \/ best = num[w]
       \/ \E v \in Preds(c, w) :
             \/ num[v] <= num[w] /\ best = num[v]
             \/ \E x \in UpFrom(par, v) : num[x] > num[w] /\ best = SemiOf(c, num, x)
  <2> SUFFICES ASSUME NEW v \in Preds(c, w), best = sm[LowestIn(sm, anc, v)]
               PROVE  \/ num[v] <= num[w] /\ best = num[v]
                      \/ \E x \in UpFrom(par, v) : num[x] > num[w] /\ best = SemiOf(c, num, x)
    BY <1>11
  <2>1. CASE num[v] <= num[w]
    BY <1>4, <2>1
  <2>2. CASE ~(num[v] <= num[w])
    <3>1. num[v] > num[w]
      BY <1>1, <1>2, <2>2
    <3> QED
      BY <1>5, <3>1
  <2> QED
    BY <2>1, <2>2
<1>14. \A v \in Preds(c, w) : num[v] <= num[w] => best <= num[v]
  BY <1>4, <1>12
<1>15. ASSUME NEW v \in Preds(c, w), NEW x \in UpFrom(par, v), num[x] > num[w]
       PROVE  best <= SemiOf(c, num, x)
  <2>1. v \in Blocks
    BY <1>2
  <2>2. x \in Blocks /\ num[x] <= num[v]
    BY <2>1, AncestorsLower
  <2>3. num[v] > num[w]
    BY <1>1, <1>15, <2>1, <2>2
  <2>4. PICK u \in UpFrom(par, v) :
                /\ sm[LowestIn(sm, anc, v)] = SemiOf(c, num, u)
                /\ \A y \in UpFrom(par, v) : num[y] > num[w] => SemiOf(c, num, u) <= SemiOf(c, num, y)
    BY <1>5, <2>3
  <2>5. u \in Blocks
    BY <2>1, UpStart
  <2>6. best <= SemiOf(c, num, u)
    BY <1>12, <2>4
  <2>7. SemiOf(c, num, u) <= SemiOf(c, num, x)
    BY <1>15, <2>4
  <2> QED
    BY <1>1, <1>10, <2>2, <2>5, <2>6, <2>7
<1>16. \A v \in Preds(c, w) : \A x \in UpFrom(par, v) :
          num[x] > num[w] => best <= SemiOf(c, num, x)
  BY <1>15
<1>17. best <= num[w]
  BY <1>12
<1> DEFINE IsBest(l) ==
        /\ \/ l = num[w]
           \/ \E v \in Preds(c, w) :
                 \/ num[v] <= num[w] /\ l = num[v]
                 \/ \E x \in UpFrom(par, v) : num[x] > num[w] /\ l = SemiOf(c, num, x)
        /\ l <= num[w]
        /\ \A v \in Preds(c, w) : num[v] <= num[w] => l <= num[v]
        /\ \A v \in Preds(c, w) : \A x \in UpFrom(par, v) :
               num[x] > num[w] => l <= SemiOf(c, num, x)
<1>18. \A l \in Nat : IsBest(l) => l = SemiOf(c, num, w)
  BY SemiRecursion
<1>19. IsBest(best)
  BY <1>13, <1>14, <1>16, <1>17
<1> HIDE DEF IsBest
<1> QED
  BY <1>10, <1>18, <1>19 DEF best

(* Linking w to its parent and giving it its semidominator lets the forest *)
(* grow by w.                                                              *)
LEMMA LinkInForest ==
    ASSUME NEW c, NEW num, NEW par, SearchTree(c, num, par),
           NEW w \in Blocks, NEW k \in Nat, num[w] = k,
           NEW anc, NEW sm, Forest(c, num, par, anc, sm, k), sm \in [Blocks -> 0 .. NBlocks]
    PROVE  Forest(c, num, par, [anc EXCEPT ![w] = par[w]],
                  [sm EXCEPT ![w] = SemiOf(c, num, w)], k - 1)
<1> DEFINE a == [anc EXCEPT ![w] = par[w]]
           s == [sm EXCEPT ![w] = SemiOf(c, num, w)]
<1>1. anc \in Links /\ par \in Links
  BY DEF Forest, SearchTree, TreeEdges
<1>2. a \in Links
  <2>1. par[w] \in Blocks \union {UNDEFINED_BBNUM}
    BY <1>1 DEF Links
  <2> QED
    BY <1>1, <2>1 DEF Links
<1>3. a[w] = par[w] /\ \A b \in Blocks : b # w => a[b] = anc[b]
  BY <1>1 DEF Links
<1>4. s[w] = SemiOf(c, num, w) /\ \A b \in Blocks : b # w => s[b] = sm[b]
  OBVIOUS
<1> HIDE DEF a, s
<1>5. \A b \in Blocks : num[b] > k - 1 <=> num[b] > k \/ b = w
  <2>1. \A b \in Blocks : num[b] \in Nat /\ (num[b] = k => b = w)
    BY NumsAreNat DEF SearchTree
  <2> QED
    BY <2>1
<1>6. num[w] = k /\ ~(num[w] > k)
  OBVIOUS
<1>7. Forest(c, num, par, a, s, k - 1)
  BY <1>2, <1>3, <1>4, <1>5 DEF Forest
<1> QED
  BY <1>7 DEF a, s

-----------------------------------------------------------------------------
(* The invariant. *)

(* The numbers the search has given. *)
Num == [b \in Blocks |-> Number(b)]

(* While custom_dfs runs: the tree of the blocks numbered so far, the entries *)
(* of the stack, and the edges of the visited block not looked at yet.        *)
SearchInv ==
    /\ IsNumbering(semi, vertex, count)
    /\ ancestor = Undefined
    /\ bucket_head = Undefined
    /\ count = 0 => stack = <<Entry>> /\ succ_idx = 0 /\ parent = Undefined
    /\ count # 0 =>
          /\ semi[curr] = count
          /\ TreeEdges(cfg, semi, parent)
          /\ EdgesUp(cfg, semi, parent)
          /\ Intervals(semi, parent)
          /\ StackInv(semi, parent, stack, curr)
          /\ EdgesLeft(cfg, semi, parent, curr, succ_idx)

(* What the search leaves behind, for good. *)
TreeInv ==
    /\ count = NBlocks <=> AllReachable
    /\ \A k \in Numbers : k > count => ~Numbered(k)
    /\ count # NBlocks => dfnum = NBlocks /\ pc \in {"semi", "aborted"}
    /\ count = NBlocks =>
          /\ SearchTree(cfg, Num, parent)
          /\ \A k \in Numbers : vertex[k] \in Blocks /\ Num[vertex[k]] = k

(* The first loop: the blocks above this number are linked, ... *)
Linked == IF pc = "semi" THEN dfnum ELSE dfnum - 1

(* ... and this is where what is left of the buckets starts. *)
Rest == IF pc = "bucket" THEN [bucket_head EXCEPT ![Parent] = bbnum] ELSE bucket_head

(* Between two steps of the first loop. *)
FirstLoopInv ==
    /\ dfnum >= 1
    /\ pc = "bucket" => dfnum >= 2
    /\ Forest(cfg, Num, parent, ancestor, semi, Linked)
    /\ Buckets(cfg, Num, parent, bucket_link, Rest, idom, Linked, dfnum)

(* Between two steps of the last loop the blocks below dfnum have their    *)
(* immediate dominators and the others are settled.                        *)
LastLoopInv ==
    /\ dfnum >= 2
    /\ pc = "done" => dfnum = NBlocks
    /\ Forest(cfg, Num, parent, ancestor, semi, 1)
    /\ \A b \in Blocks : bucket_head[b] = UNDEFINED_BBNUM
    /\ \A b \in Blocks \ {Entry} :
          Num[b] < dfnum => IsImmediateDominator(DominatorSets(cfg), idom[b], b)
    /\ \A b \in Blocks \ {Entry} : ~(Num[b] < dfnum) => IsSettled(cfg, Num, idom, b)
    /\ pc = "aborted" => \E b \in Blocks : Num[b] # b + 1

(* On a graph with a block that cannot be reached, count stays below       *)
(* NBlocks and the first loop does not start.                              *)
Inv ==
    /\ TypeOK
    /\ pc \in {"search", "semi", "bucket", "final", "done", "aborted"}
    /\ pc = "search" => SearchInv
    /\ pc # "search" => TreeInv
    /\ pc \in {"semi", "bucket"} /\ count = NBlocks => FirstLoopInv
    /\ pc \in {"final", "done", "aborted"} /\ count = NBlocks => LastLoopInv

(* TypeOK with Links. *)
LEMMA TypeFacts ==
    ASSUME TypeOK
    PROVE  /\ WellFormed(cfg)
           /\ stack \in Seq(Blocks)
           /\ curr \in Blocks
           /\ succ_idx \in 0 .. Len(cfg.succs[curr])
           /\ count \in 0 .. NBlocks
           /\ semi \in [Blocks -> 0 .. NBlocks]
           /\ vertex \in [Numbers -> Blocks \union {UNDEFINED_BBNUM}]
           /\ parent \in Links
           /\ ancestor \in Links
           /\ bucket_head \in Links
           /\ bucket_link \in Links
           /\ idom \in Links
           /\ dfnum \in 0 .. NBlocks
           /\ bbnum \in Blocks \union {UNDEFINED_BBNUM}
BY DEF TypeOK, Links

(* The invariant holds when custom_dfs is entered, ... *)
LEMMA InitInv == Init => Inv
<1> SUFFICES ASSUME Init PROVE Inv
  OBVIOUS
<1>1. cfg \in Cfgs /\ WellFormed(cfg)
  BY CfgsAssumption DEF Init
<1>2. Undefined \in Links
  BY DEF Undefined, Links
<1>3. NBlocks \in Nat /\ NBlocks >= 2 /\ Entry \in Blocks
  BY NBlocksAssumption, EntryIsBlock
<1>4. TypeOK
  <2>1. stack \in Seq(Blocks) /\ curr \in Blocks
    BY <1>3 DEF Init
  <2>2. Len(cfg.succs[curr]) \in Nat
    BY <1>1, <2>1 DEF WellFormed, Cfg
  <2>3. succ_idx \in 0 .. Len(cfg.succs[curr])
    BY <2>2 DEF Init
  <2>4. semi \in [Blocks -> 0 .. NBlocks] /\ count \in 0 .. NBlocks /\ dfnum \in 0 .. NBlocks
    BY <1>3 DEF Init
  <2>5. vertex \in [Numbers -> Blocks \union {UNDEFINED_BBNUM}]
    BY DEF Init
  <2> QED
    BY <1>1, <1>2, <2>1, <2>3, <2>4, <2>5 DEF Init, TypeOK, Links
<1>5. IsNumbering(semi, vertex, count)
  BY <1>3 DEF Init, IsNumbering, Numbers
<1>6. SearchInv
  BY <1>5 DEF Init, SearchInv
<1> QED
  BY <1>4, <1>6 DEF Init, Inv

-----------------------------------------------------------------------------
(* The steps of the search. *)

(* ... and is kept by a duplicate on the stack, *)
LEMMA PopVisitedStep ==
    ASSUME Inv, PopVisited
    PROVE  Inv'
<1>1. pc = "search" /\ succ_idx = 0 /\ stack # <<>> /\ semi[Top] # 0
  BY DEF PopVisited, Popping
<1>2. TypeOK /\ SearchInv /\ stack \in Seq(Blocks)
  BY <1>1, TypeFacts DEF Inv
<1>3. Top \in Blocks /\ Popped \in Seq(Blocks)
  BY <1>1, <1>2 DEF Top, Popped
<1>4. count # 0
  BY <1>1, <1>2, <1>3 DEF SearchInv, IsNumbering
<1>5. StackInv(semi, parent, Popped, curr)
  BY <1>1, <1>2, <1>4, PopKeepsStack DEF SearchInv, Top, Popped
<1>6. TypeOK'
  BY <1>2, <1>3 DEF TypeOK, PopVisited
<1>7. SearchInv'
  BY <1>2, <1>4, <1>5 DEF SearchInv, PopVisited
<1>8. pc' = "search"
  BY <1>1 DEF PopVisited
<1> QED
  BY <1>6, <1>7, <1>8 DEF Inv

(* by the visit of a block, *)
LEMMA VisitStep ==
    ASSUME Inv, Visit
    PROVE  Inv'
<1>1. pc = "search" /\ succ_idx = 0 /\ stack # <<>> /\ semi[Top] = 0
  BY DEF Visit, Popping
<1>2. TypeOK /\ SearchInv
  BY <1>1 DEF Inv
<1>3. /\ WellFormed(cfg) /\ stack \in Seq(Blocks) /\ curr \in Blocks
      /\ parent \in Links /\ bucket_link \in Links
      /\ IsNumbering(semi, vertex, count)
  BY <1>2, TypeFacts DEF SearchInv
<1>4. Top \in Blocks /\ Popped \in Seq(Blocks)
  BY <1>1, <1>3 DEF Top, Popped
<1>5. /\ count' = count + 1
      /\ semi' = [semi EXCEPT ![Top] = count + 1]
      /\ vertex' = [vertex EXCEPT ![count + 1] = Top]
      /\ ancestor' = [ancestor EXCEPT ![Top] = UNDEFINED_BBNUM]
      /\ bucket_head' = [bucket_head EXCEPT ![Top] = UNDEFINED_BBNUM]
      /\ bucket_link' = [bucket_link EXCEPT ![Top] = UNDEFINED_BBNUM]
      /\ stack' = Popped
      /\ curr' = Top
      /\ succ_idx' = Len(cfg.succs[Top])
      /\ UNCHANGED <<cfg, pc, parent, dfnum, bbnum, idom>>
  BY DEF Visit
<1>6. IsNumbering(semi', vertex', count')
  BY <1>1, <1>3, <1>4, <1>5, NumberNext
<1>7. count \in Nat /\ count + 1 <= NBlocks /\ NBlocks \in Nat
  BY <1>3, <1>5, <1>6, NBlocksAssumption DEF IsNumbering
<1>8. ancestor' = Undefined /\ bucket_head' = Undefined
  <2>1. ancestor = Undefined /\ bucket_head = Undefined
    BY <1>2 DEF SearchInv
  <2>2. [Undefined EXCEPT ![Top] = UNDEFINED_BBNUM] = Undefined
    BY DEF Undefined
  <2> QED
    BY <1>5, <2>1, <2>2
<1>9. semi \in [Blocks -> 0 .. count]
  BY <1>3 DEF IsNumbering
<1>10. /\ semi' \in [Blocks -> 0 .. count + 1]
       /\ semi'[Top] = count + 1
       /\ \A b \in Blocks : b # Top => semi'[b] = semi[b]
  BY <1>4, <1>5, <1>6, <1>9 DEF IsNumbering
<1>11. /\ semi'[curr'] = count'
       /\ TreeEdges(cfg, semi', parent)
       /\ EdgesUp(cfg, semi', parent)
       /\ Intervals(semi', parent)
       /\ StackInv(semi', parent, stack', curr')
       /\ EdgesLeft(cfg, semi', parent, curr', succ_idx')
  <2>1. CASE count = 0
    <3>1. stack = <<Entry>> /\ parent = Undefined
      BY <1>2, <2>1 DEF SearchInv
    <3>2. Top = Entry /\ Popped = <<>>
      BY <3>1 DEF Top, Popped
    <3>3. \A b \in Blocks : semi[b] = 0
      BY <1>9, <2>1
    <3>4. semi' \in [Blocks -> 0 .. 1] /\ semi'[Entry] = 1
          /\ \A b \in Blocks : b # Entry => semi'[b] = 0
      BY <1>10, <2>1, <3>2, <3>3
    <3>5. /\ TreeEdges(cfg, semi', Undefined) /\ EdgesUp(cfg, semi', Undefined)
          /\ Intervals(semi', Undefined)
          /\ StackInv(semi', Undefined, <<>>, Entry)
          /\ EdgesLeft(cfg, semi', Undefined, Entry, Len(cfg.succs[Entry]))
      BY <1>3, <3>4, VisitEntry
    <3> QED
      BY <1>5, <1>10, <3>1, <3>2, <3>5
  <2>2. CASE count # 0
    <3>1. /\ semi[curr] = count
          /\ TreeEdges(cfg, semi, parent)
          /\ EdgesUp(cfg, semi, parent)
          /\ Intervals(semi, parent)
          /\ StackInv(semi, parent, stack, curr)
          /\ EdgesLeft(cfg, semi, parent, curr, 0)
      BY <1>1, <1>2, <2>2 DEF SearchInv
    <3>2. Top = stack[Len(stack)] /\ OnStack(stack, Top)
      <4>1. Len(stack) \in 1 .. Len(stack)
        BY <1>1, <1>3
      <4> QED
        BY <4>1 DEF Top, OnStack
    <3>3. parent[Top] # UNDEFINED_BBNUM /\ parent[Top] \in UpFrom(parent, curr)
      BY <1>1, <1>4, <3>1, <3>2 DEF StackInv
    <3>4. count >= 1
      BY <1>7, <2>2
    <3>5. TreeEdges(cfg, semi', parent) /\ EdgesUp(cfg, semi', parent) /\ Intervals(semi', parent)
      <4>1. count <= semi[curr]
        BY <1>7, <3>1
      <4>2. /\ TreeEdges(cfg, semi, parent) /\ EdgesUp(cfg, semi, parent)
            /\ Intervals(semi, parent) /\ EdgesLeft(cfg, semi, parent, curr, 0)
        BY <3>1
      <4>3. count \in Nat /\ curr \in Blocks /\ WellFormed(cfg)
        BY <1>3, <1>7
      <4>4. ASSUME NEW top \in Blocks, semi[top] = 0, parent[top] # UNDEFINED_BBNUM,
                   parent[top] \in UpFrom(parent, curr),
                   NEW m \in [Blocks -> 0 .. count + 1], m[top] = count + 1,
                   \A b \in Blocks : b # top => m[b] = semi[b]
            PROVE  TreeEdges(cfg, m, parent) /\ EdgesUp(cfg, m, parent) /\ Intervals(m, parent)
        BY <1>9, <3>4, <4>1, <4>2, <4>3, <4>4, VisitKeepsTree
      <4> QED
        BY <1>1, <1>4, <1>10, <3>3, <4>4
    <3>6. semi'[Top] # 0
      BY <1>7, <1>10
    <3>7. StackInv(semi', parent, Popped, Top)
      BY <1>1, <1>3, <1>10, <3>1, <3>2, <3>3, <3>6, VisitKeepsStack DEF Popped
    <3>8. EdgesLeft(cfg, semi', parent, Top, Len(cfg.succs[Top]))
      BY <1>1, <1>3, <1>4, <1>10, <3>1, <3>6, VisitKeepsEdges
    <3> QED
      BY <1>5, <1>10, <3>5, <3>7, <3>8
  <2> QED
    BY <2>1, <2>2
<1>12. SearchInv'
  <2>1. count' # 0
    BY <1>5, <1>7
  <2>2. cfg' = cfg /\ parent' = parent
    BY <1>5
  <2> QED
    BY <1>6, <1>8, <1>11, <2>1, <2>2 DEF SearchInv
<1>13. TypeOK'
  <2>1. Len(cfg.succs[Top]) \in Nat
    BY <1>3, <1>4 DEF WellFormed, Cfg
  <2>2. succ_idx' \in 0 .. Len(cfg'.succs[curr'])
    BY <1>5, <2>1
  <2>3. semi' \in [Blocks -> 0 .. NBlocks]
    BY <1>7, <1>10
  <2>4. vertex' \in [Numbers -> Blocks \union {UNDEFINED_BBNUM}]
    BY <1>6 DEF IsNumbering
  <2>5. count' \in 0 .. NBlocks
    BY <1>5, <1>7
  <2>6. Undefined \in Links
    BY DEF Undefined, Links
  <2>7. bucket_link' \in Links
    BY <1>3, <1>5 DEF Links
  <2>8. stack' \in Seq(Blocks) /\ curr' \in Blocks
    BY <1>4, <1>5
  <2>9. /\ WellFormed(cfg') /\ parent' \in Links /\ idom' \in Links
        /\ dfnum' \in 0 .. NBlocks /\ bbnum' \in Blocks \union {UNDEFINED_BBNUM}
    BY <1>2, <1>5, TypeFacts
  <2>10. ancestor' \in Links /\ bucket_head' \in Links
    BY <1>8, <2>6
  <2> QED
    BY <2>2, <2>3, <2>4, <2>5, <2>7, <2>8, <2>9, <2>10 DEF TypeOK, Links
<1>14. pc' = "search"
  BY <1>1, <1>5
<1> QED
  BY <1>12, <1>13, <1>14 DEF Inv

(* A successor to look at is there, and the search has begun. *)
LEMMA AtSuccessor ==
    ASSUME Inv, pc = "search", succ_idx >= 1
    PROVE  /\ TypeOK /\ SearchInv /\ count # 0
           /\ WellFormed(cfg) /\ curr \in Blocks /\ stack \in Seq(Blocks)
           /\ succ_idx \in 1 .. Len(cfg.succs[curr])
           /\ Succ \in Succs(cfg, curr) /\ Succ \in Blocks
           /\ count \in Nat /\ semi \in [Blocks -> 0 .. count] /\ semi[curr] >= 1
<1>1. TypeOK /\ SearchInv
  BY DEF Inv
<1>2. /\ WellFormed(cfg) /\ curr \in Blocks /\ stack \in Seq(Blocks) /\ count \in Nat
      /\ succ_idx \in 0 .. Len(cfg.succs[curr])
  BY <1>1, TypeFacts
<1>3. count # 0
  BY <1>1 DEF SearchInv
<1>4. succ_idx \in 1 .. Len(cfg.succs[curr])
  BY <1>2
<1>5. Succ \in Succs(cfg, curr)
  BY <1>4 DEF Succ, Succs
<1>6. Succ \in Blocks
  BY <1>2, <1>5, NeighboursAreBlocks DEF WellFormed
<1>7. semi \in [Blocks -> 0 .. count] /\ semi[curr] = count
  BY <1>1, <1>3 DEF SearchInv, IsNumbering
<1> QED
  BY <1>1, <1>2, <1>3, <1>4, <1>5, <1>6, <1>7

(* by a successor pushed, *)
LEMMA PushSuccStep ==
    ASSUME Inv, PushSucc
    PROVE  Inv'
<1>1. pc = "search" /\ succ_idx >= 1 /\ semi[Succ] = 0
  BY DEF PushSucc
<1>2. /\ TypeOK /\ SearchInv /\ count # 0
      /\ WellFormed(cfg) /\ curr \in Blocks /\ stack \in Seq(Blocks)
      /\ succ_idx \in 1 .. Len(cfg.succs[curr])
      /\ Succ \in Succs(cfg, curr) /\ Succ \in Blocks
      /\ count \in Nat /\ semi \in [Blocks -> 0 .. count] /\ semi[curr] >= 1
  BY <1>1, AtSuccessor
<1>3. /\ TreeEdges(cfg, semi, parent)
      /\ EdgesUp(cfg, semi, parent)
      /\ Intervals(semi, parent)
      /\ StackInv(semi, parent, stack, curr)
      /\ EdgesLeft(cfg, semi, parent, curr, succ_idx)
  BY <1>2 DEF SearchInv
<1>4. /\ parent' = [parent EXCEPT ![Succ] = curr]
      /\ stack' = Append(stack, Succ)
      /\ succ_idx' = succ_idx - 1
      /\ UNCHANGED <<cfg, pc, curr, count, semi, vertex, ancestor,
                     bucket_head, bucket_link, dfnum, bbnum, idom>>
  BY DEF PushSucc, Adopted
<1>5. TreeEdges(cfg, semi, parent') /\ EdgesUp(cfg, semi, parent') /\ Intervals(semi, parent')
  BY <1>1, <1>2, <1>3, <1>4, PushKeepsTree
<1>6. StackInv(semi, parent', stack', curr)
  BY <1>1, <1>2, <1>3, <1>4, PushKeepsStack
<1>7. EdgesLeft(cfg, semi, parent', curr, succ_idx')
  BY <1>1, <1>2, <1>3, <1>4, PushKeepsEdges DEF Succ
<1>8. SearchInv'
  <2>1. semi[curr] = count /\ IsNumbering(semi, vertex, count)
        /\ ancestor = Undefined /\ bucket_head = Undefined
    BY <1>2 DEF SearchInv
  <2> QED
    BY <1>2, <1>4, <1>5, <1>6, <1>7, <2>1 DEF SearchInv
<1>9. TypeOK'
  <2>1. Append(stack, Succ) \in Seq(Blocks)
    BY <1>2
  <2>2. parent' \in Links
    BY <1>5 DEF TreeEdges
  <2>3. succ_idx - 1 \in 0 .. Len(cfg.succs[curr])
    BY <1>2
  <2> QED
    BY <1>2, <1>4, <2>1, <2>2, <2>3 DEF TypeOK, Links
<1> QED
  BY <1>1, <1>4, <1>8, <1>9 DEF Inv

(* by one already visited, *)
LEMMA SkipSuccStep ==
    ASSUME Inv, SkipSucc
    PROVE  Inv'
<1>1. pc = "search" /\ succ_idx >= 1 /\ semi[Succ] # 0
  BY DEF SkipSucc
<1>2. /\ TypeOK /\ SearchInv /\ count # 0
      /\ WellFormed(cfg) /\ curr \in Blocks
      /\ succ_idx \in 1 .. Len(cfg.succs[curr])
  BY <1>1, AtSuccessor
<1>3. EdgesLeft(cfg, semi, parent, curr, succ_idx)
  BY <1>2 DEF SearchInv
<1>4. EdgesLeft(cfg, semi, parent, curr, succ_idx - 1)
  BY <1>1, <1>2, <1>3, SkipKeepsEdges DEF Succ
<1>5. SearchInv'
  BY <1>2, <1>4 DEF SearchInv, SkipSucc
<1>6. TypeOK'
  <2>1. succ_idx - 1 \in 0 .. Len(cfg.succs[curr])
    BY <1>2
  <2> QED
    BY <1>2, <2>1 DEF TypeOK, SkipSucc
<1>7. pc' = "search"
  BY <1>1 DEF SkipSucc
<1> QED
  BY <1>5, <1>6, <1>7 DEF Inv

(* With all blocks numbered Number gives back the numbers of the search. *)
LEMMA NumIsSemi ==
    ASSUME IsNumbering(semi, vertex, count), count = NBlocks
    PROVE  /\ Num = semi
           /\ \A b \in Blocks : semi[b] # 0
           /\ \A k \in Numbers : vertex[k] \in Blocks /\ semi[vertex[k]] = k
<1>1. NBlocks \in Nat
  BY NBlocksAssumption
<1>2. ASSUME NEW b \in Blocks, semi[b] = 0 PROVE FALSE
  <2>1. count < NBlocks
    BY <1>2, RoomForMore
  <2> QED
    BY <1>1, <2>1
<1>3. semi \in [Blocks -> 0 .. NBlocks]
  BY DEF IsNumbering
<1>4. \A k \in Numbers : vertex[k] \in Blocks /\ semi[vertex[k]] = k
  <2>1. \A k \in Numbers : k <= count
    BY <1>1 DEF Numbers
  <2> QED
    BY <2>1 DEF IsNumbering
<1>5. ASSUME NEW b \in Blocks PROVE Number(b) = semi[b]
  <2>1. semi[b] \in Numbers /\ semi[b] >= 1
    BY <1>1, <1>2, <1>3 DEF Numbers
  <2>2. vertex[semi[b]] = b
    BY <2>1 DEF IsNumbering
  <2>3. Number(b) \in Numbers /\ vertex[Number(b)] = b
    BY <2>1, <2>2 DEF Number
  <2> QED
    BY <1>4, <2>3
<1>6. Num = semi
  BY <1>3, <1>5 DEF Num
<1> QED
  BY <1>2, <1>4, <1>6

(* and by the end of the search: the tree is complete. *)
LEMMA EndSearchStep ==
    ASSUME Inv, EndSearch
    PROVE  Inv'
<1>1. pc = "search" /\ succ_idx = 0 /\ stack = <<>>
  BY DEF EndSearch
<1>2. TypeOK /\ SearchInv
  BY <1>1 DEF Inv
<1>3. /\ pc' = "semi" /\ dfnum' = NBlocks
      /\ UNCHANGED <<cfg, stack, curr, succ_idx, count, vertex, parent, semi,
                     ancestor, bucket_head, bucket_link, bbnum, idom>>
  BY DEF EndSearch, searchVars, LastNumber
<1>4. NBlocks \in Nat /\ NBlocks >= 2
  BY NBlocksAssumption
<1>5. TypeOK'
  <2>1. NBlocks \in 0 .. NBlocks
    BY <1>4
  <2> QED
    BY <1>2, <1>3, <2>1 DEF TypeOK
<1>6. count # 0
  BY <1>1, <1>2 DEF SearchInv
<1>7. /\ WellFormed(cfg) /\ bucket_link \in Links /\ idom \in Links /\ count \in Nat
      /\ IsNumbering(semi, vertex, count)
      /\ ancestor = Undefined /\ bucket_head = Undefined
  BY <1>2, TypeFacts DEF SearchInv
<1>8. /\ TreeEdges(cfg, semi, parent) /\ EdgesUp(cfg, semi, parent) /\ Intervals(semi, parent)
      /\ StackInv(semi, parent, <<>>, curr) /\ EdgesLeft(cfg, semi, parent, curr, 0)
  BY <1>1, <1>2, <1>6 DEF SearchInv
<1>9. semi \in [Blocks -> 0 .. count]
  BY <1>7 DEF IsNumbering
<1>10. Reachable(cfg) = {b \in Blocks : semi[b] >= 1}
  BY <1>7, <1>8, <1>9, SearchReaches
<1>11. count = NBlocks <=> AllReachable
  <2>1. ASSUME count = NBlocks PROVE Reachable(cfg) = Blocks
    <3>1. \A b \in Blocks : semi[b] # 0
      BY <1>7, <2>1, NumIsSemi
    <3> QED
      BY <1>9, <1>10, <3>1
  <2>2. ASSUME Reachable(cfg) = Blocks PROVE count = NBlocks
    <3>1. \A b \in Blocks : semi[b] >= 1
      BY <1>10, <2>2
    <3>2. \A b \in Blocks : semi[b] # 0
      BY <3>1
    <3> QED
      BY <1>7, <3>2, NoNumberLeft
  <2> QED
    BY <2>1, <2>2 DEF AllReachable
<1>12. \A k \in Numbers : k > count => ~Numbered(k)
  BY <1>7 DEF IsNumbering, Numbered
<1>13. ASSUME count = NBlocks
       PROVE  /\ Num = semi
              /\ SearchTree(cfg, Num, parent)
              /\ \A k \in Numbers : vertex[k] \in Blocks /\ Num[vertex[k]] = k
  <2>1. /\ Num = semi /\ \A b \in Blocks : semi[b] # 0
        /\ \A k \in Numbers : vertex[k] \in Blocks /\ semi[vertex[k]] = k
    BY <1>7, <1>13, NumIsSemi
  <2>2. semi \in [Blocks -> Numbers]
    BY <1>4, <1>9, <1>13, <2>1 DEF Numbers
  <2>3. \A a, b \in Blocks : semi[a] = semi[b] => a = b
    <3>1. \A b \in Blocks : vertex[semi[b]] = b
      BY <1>7, <2>2 DEF IsNumbering, Numbers
    <3> QED
      BY <3>1
  <2>4. SearchTree(cfg, semi, parent)
    BY <1>7, <1>8, <2>2, <2>3 DEF SearchTree
  <2> QED
    BY <2>1, <2>4
<1>14. TreeInv'
  <2>1. Num' = Num
    BY <1>3 DEF Num, Number, Numbers
  <2>2. AllReachable' <=> AllReachable
    BY <1>3 DEF AllReachable
  <2>3. \A k \in Numbers : Numbered(k)' <=> Numbered(k)
    BY <1>3 DEF Numbered
  <2> QED
    BY <1>3, <1>11, <1>12, <1>13, <2>1, <2>2, <2>3 DEF TreeInv
<1>15. ASSUME count = NBlocks PROVE FirstLoopInv'
  <2> DEFINE n == Num
  <2>1. SearchTree(cfg, n, parent) /\ n = semi
    BY <1>13, <1>15
  <2>2. n' = n
    BY <1>3 DEF Num, Number, Numbers
  <2>3. \A b \in Blocks : ~(n[b] > NBlocks)
    BY <1>4, <2>1, NumsAreNat
  <2>4. \A b \in Blocks : Undefined[b] = UNDEFINED_BBNUM
    BY DEF Undefined
  <2>5. Undefined \in Links
    BY DEF Undefined, Links
  <2> HIDE DEF n
  <2>6. Forest(cfg, n, parent, Undefined, semi, NBlocks)
    BY <2>1, <2>3, <2>4, <2>5 DEF Forest
  <2>7. Buckets(cfg, n, parent, bucket_link, Undefined, idom, NBlocks, NBlocks)
    BY <1>7, <2>3, <2>4, <2>5 DEF Buckets, InBuckets, NoneForgotten, NoneLate, Waiting
  <2>8. Linked' = NBlocks /\ Rest' = Undefined
    BY <1>3, <1>7 DEF Linked, Rest
  <2>9. n' = Num'
    BY DEF n
  <2> QED
    BY <1>3, <1>4, <1>7, <2>2, <2>6, <2>7, <2>8, <2>9 DEF FirstLoopInv
<1> QED
  BY <1>3, <1>5, <1>14, <1>15 DEF Inv

-----------------------------------------------------------------------------
(* The steps of lt_slow. *)

(* The tree stays. *)
LEMMA TreeKept ==
    ASSUME TreeInv, count = NBlocks, UNCHANGED <<cfg, vertex, parent, count>>
    PROVE  TreeInv' /\ Num' = Num
<1>1. Num' = Num
  BY DEF Num, Number, Numbers
<1>2. AllReachable' <=> AllReachable
  BY DEF AllReachable
<1>3. \A k \in Numbers : Numbered(k)' <=> Numbered(k)
  BY DEF Numbered
<1> QED
  BY <1>1, <1>2, <1>3 DEF TreeInv

(* A block that has a number, and is not the entry. *)
LEMMA AtBlock ==
    ASSUME TreeInv, count = NBlocks, NEW k \in 2 .. NBlocks, NEW w, w = vertex[k]
    PROVE  w \in Blocks /\ w # Entry /\ Num[w] = k
<1>1. k \in Numbers
  BY DEF Numbers
<1>2. w \in Blocks /\ Num[w] = k /\ SearchTree(cfg, Num, parent)
  BY <1>1 DEF TreeInv
<1>3. Num[Entry] = 1
  BY <1>2, EntryInTree
<1> QED
  BY <1>2, <1>3

(* A block is found under its number. *)
LEMMA FoundByNumber ==
    ASSUME TreeInv, count = NBlocks, NEW b \in Blocks
    PROVE  vertex[Num[b]] = b
<1>1. /\ SearchTree(cfg, Num, parent)
      /\ \A k \in Numbers : vertex[k] \in Blocks /\ Num[vertex[k]] = k
  BY DEF TreeInv
<1>2. Num[b] \in Numbers
  BY <1>1 DEF SearchTree
<1> QED
  BY <1>1, <1>2 DEF SearchTree

(* The first assertion stops at a number without a block. *)
LEMMA AssertFailsStep ==
    ASSUME Inv, AssertFails
    PROVE  Inv'
<1>1. pc = "semi" /\ dfnum >= 2 /\ ~Numbered(dfnum)
  BY DEF AssertFails
<1>2. TypeOK /\ TreeInv
  BY <1>1 DEF Inv
<1>3. dfnum \in Numbers
  BY <1>1, <1>2, TypeFacts, NBlocksAssumption DEF Numbers
<1>4. count # NBlocks
  <2>1. ASSUME count = NBlocks PROVE FALSE
    <3>1. vertex[dfnum] \in Blocks
      BY <1>2, <1>3, <2>1 DEF TreeInv
    <3> QED
      BY <1>1, <3>1, UndefinedIsNone DEF Numbered
  <2> QED
    BY <2>1
<1>5. /\ pc' = "aborted"
      /\ UNCHANGED <<cfg, stack, curr, succ_idx, count, vertex, parent, semi, ancestor,
                     bucket_head, bucket_link, dfnum, bbnum, idom>>
  BY DEF AssertFails, searchVars
<1>6. TypeOK'
  BY <1>2, <1>5 DEF TypeOK
<1>7. TreeInv'
  <2>1. AllReachable' <=> AllReachable
    BY <1>5 DEF AllReachable
  <2>2. \A k \in Numbers : Numbered(k)' <=> Numbered(k)
    BY <1>5 DEF Numbered
  <2> QED
    BY <1>2, <1>4, <1>5, <2>1, <2>2 DEF TreeInv
<1> QED
  BY <1>4, <1>5, <1>6, <1>7 DEF Inv

(* A block gets its semidominator and goes into its bucket. *)
LEMMA SemidominatorStep ==
    ASSUME Inv, Semidominator
    PROVE  Inv'
<1> DEFINE w == vertex[dfnum]
           s == vertex[BestSemi(w)]
<1>1. pc = "semi" /\ dfnum >= 2 /\ Numbered(dfnum)
  BY DEF Semidominator
<1>2. TypeOK /\ TreeInv
  BY <1>1 DEF Inv
<1>3. dfnum \in 2 .. NBlocks /\ dfnum \in Numbers /\ dfnum \in Nat /\ count \in Nat
      /\ count <= NBlocks /\ NBlocks \in Nat
  BY <1>1, <1>2, TypeFacts, NBlocksAssumption DEF Numbers
<1>4. count = NBlocks
  <2>1. ASSUME count # NBlocks PROVE FALSE
    <3>1. dfnum = NBlocks /\ (dfnum > count => ~Numbered(dfnum))
      BY <1>2, <1>3, <2>1 DEF TreeInv
    <3>2. dfnum > count
      BY <1>3, <2>1, <3>1
    <3> QED
      BY <1>1, <3>1, <3>2
  <2> QED
    BY <2>1
<1>5. FirstLoopInv
  BY <1>1, <1>4 DEF Inv
<1>6. SearchTree(cfg, Num, parent)
      /\ \A k \in Numbers : vertex[k] \in Blocks /\ Num[vertex[k]] = k
  BY <1>2, <1>4 DEF TreeInv
<1>7. w \in Blocks /\ w # Entry /\ Num[w] = dfnum
  BY <1>2, <1>3, <1>4, AtBlock
<1>8. /\ Forest(cfg, Num, parent, ancestor, semi, dfnum)
      /\ Buckets(cfg, Num, parent, bucket_link, bucket_head, idom, dfnum, dfnum)
  BY <1>1, <1>5 DEF FirstLoopInv, Linked, Rest
<1>9. /\ semi' = [semi EXCEPT ![w] = BestSemi(w)]
      /\ ancestor' = [ancestor EXCEPT ![w] = parent[w]]
      /\ bucket_link' = [bucket_link EXCEPT ![w] = bucket_head[s]]
      /\ bucket_head' = [bucket_head EXCEPT ![s] = w]
      /\ bbnum' = bucket_head'[parent[w]]
      /\ pc' = "bucket"
      /\ UNCHANGED <<cfg, stack, curr, succ_idx, count, vertex, parent, dfnum, idom>>
  BY DEF Semidominator, searchVars
<1>10. BestSemi(w) = SemiOf(cfg, Num, w)
  <2>1. \A v : Lowest(v) = LowestIn(semi, ancestor, v)
    BY DEF Lowest, LowestIn
  <2>2. BestSemi(w) = BestIn(cfg, semi, ancestor, w)
    BY <2>1 DEF BestSemi, Candidates, BestIn, CandidatesIn
  <2>3. dfnum >= 1 /\ dfnum <= Num[w] /\ Num[w] <= dfnum
    BY <1>3, <1>7
  <2> HIDE DEF w
  <2> QED
    BY <1>3, <1>6, <1>7, <1>8, <2>2, <2>3, SemiFromForest
<1>11. SemiOf(cfg, Num, w) \in Numbers
  BY <1>6, <1>7, SemiIsLowest
<1>12. s \in Blocks /\ Num[s] = SemiOf(cfg, Num, w)
  BY <1>6, <1>10, <1>11
<1>13. semi \in [Blocks -> 0 .. NBlocks] /\ parent \in Links
  BY <1>2, TypeFacts
<1> HIDE DEF w, s
<1>14. Forest(cfg, Num, parent, ancestor', semi', dfnum - 1)
  BY <1>3, <1>6, <1>7, <1>8, <1>9, <1>10, <1>13, LinkInForest
<1>15. Buckets(cfg, Num, parent, bucket_link', bucket_head', idom, dfnum - 1, dfnum)
  BY <1>3, <1>6, <1>7, <1>8, <1>9, <1>12, PutInBucket
<1>16. parent[w] \in Blocks
  BY <1>6, <1>7, ParentInTree
<1>17. bucket_link' \in Links /\ bucket_head' \in Links /\ ancestor' \in Links
  BY <1>14, <1>15 DEF Buckets, Forest
<1>18. bbnum' \in Blocks \union {UNDEFINED_BBNUM}
  BY <1>9, <1>16, <1>17 DEF Links
<1>19. semi' \in [Blocks -> 0 .. NBlocks]
  <2>1. BestSemi(w) \in 0 .. NBlocks
    BY <1>3, <1>10, <1>11 DEF Numbers
  <2> QED
    BY <1>9, <1>13, <2>1
<1>20. TypeOK'
  <2>1. {parent, ancestor', bucket_head', bucket_link', idom}
            \subseteq [Blocks -> Blocks \union {UNDEFINED_BBNUM}]
    BY <1>2, <1>17 DEF TypeOK, Links
  <2> QED
    BY <1>2, <1>9, <1>18, <1>19, <2>1 DEF TypeOK
<1>21. TreeInv' /\ Num' = Num
  BY <1>2, <1>4, <1>9, TreeKept
<1>22. Rest' = bucket_head'
  <2>1. Parent' = parent[w]
    BY <1>9 DEF Parent, w
  <2>2. Rest' = [bucket_head' EXCEPT ![parent[w]] = bucket_head'[parent[w]]]
    BY <1>9, <2>1 DEF Rest
  <2> QED
    BY <1>16, <1>17, <2>2 DEF Links
<1>23. FirstLoopInv'
  BY <1>1, <1>3, <1>9, <1>14, <1>15, <1>21, <1>22 DEF FirstLoopInv, Linked
<1> QED
  BY <1>9, <1>20, <1>21, <1>23 DEF Inv

(* What holds while a bucket is looked through. *)
LEMMA AtBucket ==
    ASSUME Inv, pc = "bucket"
    PROVE  /\ TypeOK /\ TreeInv /\ count = NBlocks /\ SearchTree(cfg, Num, parent)
           /\ dfnum \in 2 .. NBlocks /\ dfnum - 1 \in Nat /\ dfnum - 1 >= 1
           /\ vertex[dfnum] \in Blocks /\ vertex[dfnum] # Entry /\ Num[vertex[dfnum]] = dfnum
           /\ Parent \in Blocks
           /\ Forest(cfg, Num, parent, ancestor, semi, dfnum - 1)
           /\ Buckets(cfg, Num, parent, bucket_link, Rest, idom, dfnum - 1, dfnum)
           /\ Rest = [bucket_head EXCEPT ![Parent] = bbnum]
           /\ Rest[Parent] = bbnum
<1>1. TypeOK /\ TreeInv
  BY DEF Inv
<1>2. count = NBlocks
  BY <1>1 DEF TreeInv
<1>3. FirstLoopInv
  BY <1>2 DEF Inv
<1>4. dfnum \in 2 .. NBlocks /\ dfnum - 1 \in Nat /\ dfnum - 1 >= 1
  <2>1. dfnum \in 0 .. NBlocks /\ dfnum >= 2
    BY <1>1, <1>3, TypeFacts DEF FirstLoopInv
  <2> QED
    BY <2>1, NBlocksAssumption
<1>5. SearchTree(cfg, Num, parent)
  BY <1>1, <1>2 DEF TreeInv
<1>6. vertex[dfnum] \in Blocks /\ vertex[dfnum] # Entry /\ Num[vertex[dfnum]] = dfnum
  BY <1>1, <1>2, <1>4, AtBlock
<1>7. Parent \in Blocks
  BY <1>5, <1>6, ParentInTree DEF Parent
<1>8. Forest(cfg, Num, parent, ancestor, semi, dfnum - 1)
      /\ Buckets(cfg, Num, parent, bucket_link, Rest, idom, dfnum - 1, dfnum)
  BY <1>3 DEF FirstLoopInv, Linked
<1>9. Rest = [bucket_head EXCEPT ![Parent] = bbnum]
  BY DEF Rest
<1>10. bucket_head \in Links
  BY <1>1, TypeFacts
<1>11. Rest[Parent] = bbnum
  BY <1>7, <1>9, <1>10 DEF Links
<1> QED
  BY <1>1, <1>2, <1>4, <1>5, <1>6, <1>7, <1>8, <1>9, <1>11

(* The element of the bucket gets its immediate dominator, or a relative. *)
LEMMA BucketElementStep ==
    ASSUME Inv, BucketElement
    PROVE  Inv'
<1> DEFINE w == vertex[dfnum]
           u == LowestIn(semi, ancestor, bbnum)
           v == IF semi[u] < semi[bbnum] THEN u ELSE parent[w]
<1>1. pc = "bucket" /\ bbnum # UNDEFINED_BBNUM
  BY DEF BucketElement
<1>2. /\ TypeOK /\ TreeInv /\ count = NBlocks /\ SearchTree(cfg, Num, parent)
      /\ dfnum \in 2 .. NBlocks /\ dfnum - 1 \in Nat /\ dfnum - 1 >= 1
      /\ w \in Blocks /\ w # Entry /\ Num[w] = dfnum
      /\ Parent \in Blocks
      /\ Forest(cfg, Num, parent, ancestor, semi, dfnum - 1)
      /\ Buckets(cfg, Num, parent, bucket_link, Rest, idom, dfnum - 1, dfnum)
      /\ Rest = [bucket_head EXCEPT ![Parent] = bbnum]
      /\ Rest[Parent] = bbnum
  BY <1>1, AtBucket
<1>3. /\ bbnum \in Blocks /\ idom \in Links /\ bucket_link \in Links /\ bucket_head \in Links
      /\ dfnum \in Nat
  BY <1>1, <1>2, TypeFacts
<1>4. Parent = parent[w]
  BY DEF Parent
<1>5. /\ idom' = [idom EXCEPT ![bbnum] = v]
      /\ bbnum' = bucket_link[bbnum]
      /\ UNCHANGED <<cfg, pc, stack, curr, succ_idx, count, vertex, parent, semi, ancestor,
                     bucket_head, bucket_link, dfnum>>
  <2>1. Lowest(bbnum) = u
    BY DEF Lowest, LowestIn
  <2>2. IdomOrRelative(bbnum, u) = v
    BY <1>4 DEF IdomOrRelative
  <2> HIDE DEF u, v
  <2> QED
    BY <2>1, <2>2 DEF BucketElement, searchVars, NextInBucket
<1>6. bbnum \in Waiting(bucket_link, Rest[parent[w]])
  <2>1. bbnum \in UpFrom(bucket_link, bbnum)
    BY <1>3, UpStart
  <2> QED
    BY <1>1, <1>2, <1>4, <2>1 DEF Waiting
<1>7. /\ semi[LowestIn(semi, ancestor, bbnum)] < semi[bbnum] =>
            idom'[bbnum] = LowestIn(semi, ancestor, bbnum)
      /\ ~(semi[LowestIn(semi, ancestor, bbnum)] < semi[bbnum]) => idom'[bbnum] = parent[w]
  <2>1. idom'[bbnum] = v
    BY <1>3, <1>5 DEF Links
  <2> HIDE DEF w
  <2> QED
    BY <2>1
<1> HIDE DEF w, u, v
<1>8. IsSettled(cfg, Num, idom', bbnum)
  <2> DEFINE k == dfnum - 1
             i == idom'
             r == Rest
  <2>1. k \in Nat /\ k >= 1 /\ Num[w] <= k + 1 /\ k + 1 <= Num[w] /\ k + 1 = dfnum
    BY <1>2, <1>3
  <2>2. Forest(cfg, Num, parent, ancestor, semi, k)
        /\ Buckets(cfg, Num, parent, bucket_link, r, idom, k, k + 1)
        /\ bbnum \in Waiting(bucket_link, r[parent[w]])
    BY <1>2, <1>6, <2>1
  <2>3. /\ semi[LowestIn(semi, ancestor, bbnum)] < semi[bbnum] =>
            i[bbnum] = LowestIn(semi, ancestor, bbnum)
        /\ ~(semi[LowestIn(semi, ancestor, bbnum)] < semi[bbnum]) => i[bbnum] = parent[w]
    BY <1>7
  <2> HIDE DEF k, i, r
  <2>4. IsSettled(cfg, Num, i, bbnum)
    BY <1>2, <1>3, <2>1, <2>2, <2>3, LookedAtIsSettled
  <2> QED
    BY <2>4 DEF i
<1>9. idom' \in Links
  <2>1. idom'[bbnum] \in Blocks
    BY <1>8 DEF IsSettled
  <2>2. v \in Blocks
    <3>1. idom'[bbnum] = v
      BY <1>3, <1>5 DEF Links
    <3> QED
      BY <2>1, <3>1
  <2> QED
    BY <1>3, <1>5, <2>2 DEF Links
<1>10. bbnum' \in Blocks \union {UNDEFINED_BBNUM}
  BY <1>3, <1>5 DEF Links
<1>11. TypeOK'
  <2>1. {parent, ancestor, bucket_head, bucket_link, idom'}
            \subseteq [Blocks -> Blocks \union {UNDEFINED_BBNUM}]
    BY <1>2, <1>9 DEF TypeOK, Links
  <2> QED
    BY <1>2, <1>5, <1>10, <2>1 DEF TypeOK
<1>12. TreeInv' /\ Num' = Num
  BY <1>2, <1>5, TreeKept
<1>13. Rest' = [Rest EXCEPT ![Parent] = bucket_link[bbnum]]
  <2>1. Parent' = Parent
    BY <1>5 DEF Parent
  <2>2. Rest' = [bucket_head EXCEPT ![Parent] = bucket_link[bbnum]]
    BY <1>1, <1>5, <2>1 DEF Rest
  <2> QED
    BY <1>2, <1>3, <2>2 DEF Links
<1>14. Buckets(cfg, Num, parent, bucket_link, Rest', idom', dfnum - 1, dfnum)
  <2> DEFINE r == Rest
  <2>1. /\ SearchTree(cfg, Num, parent) /\ Buckets(cfg, Num, parent, bucket_link, r, idom, dfnum - 1, dfnum)
        /\ dfnum - 1 \in Nat
    BY <1>2
  <2>2. r[Parent] = bbnum
    BY <1>2
  <2>3. IsSettled(cfg, Num, [idom EXCEPT ![bbnum] = v], bbnum)
    BY <1>5, <1>8
  <2> HIDE DEF r
  <2>4. Buckets(cfg, Num, parent, bucket_link, [r EXCEPT ![Parent] = bucket_link[bbnum]],
                [idom EXCEPT ![bbnum] = v], dfnum - 1, dfnum)
    BY <1>2, <1>3, <2>1, <2>2, <2>3, TakeFromBucket
  <2> QED
    BY <1>5, <1>13, <2>4 DEF r
<1>15. FirstLoopInv'
  <2>1. FirstLoopInv
    BY <1>1, <1>2 DEF Inv
  <2> QED
    BY <1>1, <1>2, <1>5, <1>12, <1>14, <2>1 DEF FirstLoopInv, Linked
<1> QED
  BY <1>1, <1>5, <1>11, <1>12, <1>15 DEF Inv

(* The bucket of the parent is empty: down to the next block. *)
LEMMA EmptyBucketStep ==
    ASSUME Inv, EmptyBucket
    PROVE  Inv'
<1> DEFINE w == vertex[dfnum]
<1>1. pc = "bucket" /\ bbnum = UNDEFINED_BBNUM
  BY DEF EmptyBucket
<1>2. /\ TypeOK /\ TreeInv /\ count = NBlocks /\ SearchTree(cfg, Num, parent)
      /\ dfnum \in 2 .. NBlocks /\ dfnum - 1 \in Nat /\ dfnum - 1 >= 1
      /\ w \in Blocks /\ w # Entry /\ Num[w] = dfnum
      /\ Parent \in Blocks
      /\ Forest(cfg, Num, parent, ancestor, semi, dfnum - 1)
      /\ Buckets(cfg, Num, parent, bucket_link, Rest, idom, dfnum - 1, dfnum)
      /\ Rest = [bucket_head EXCEPT ![Parent] = bbnum]
      /\ Rest[Parent] = bbnum
  BY <1>1, AtBucket
<1>3. bucket_head \in Links /\ dfnum \in Nat
  BY <1>2, TypeFacts
<1>4. Parent = parent[w]
  BY DEF Parent
<1>5. /\ bucket_head' = [bucket_head EXCEPT ![Parent] = UNDEFINED_BBNUM]
      /\ dfnum' = dfnum - 1
      /\ pc' = "semi"
      /\ UNCHANGED <<cfg, stack, curr, succ_idx, count, vertex, parent, semi, ancestor,
                     bucket_link, bbnum, idom>>
  BY DEF EmptyBucket, searchVars
<1>6. bucket_head' = Rest /\ Rest[parent[w]] = UNDEFINED_BBNUM
  BY <1>1, <1>2, <1>4, <1>5
<1>7. bucket_head' \in Links
  BY <1>3, <1>5 DEF Links
<1>8. dfnum' \in 0 .. NBlocks
  BY <1>2, <1>5, NBlocksAssumption
<1>9. TypeOK'
  BY <1>2, <1>5, <1>7, <1>8 DEF TypeOK, Links
<1>10. TreeInv' /\ Num' = Num
  BY <1>2, <1>5, TreeKept
<1> HIDE DEF w
<1>11. Buckets(cfg, Num, parent, bucket_link, bucket_head', idom, dfnum - 1, dfnum - 1)
  <2> DEFINE r == Rest
             k == dfnum - 1
  <2>1. Buckets(cfg, Num, parent, bucket_link, r, idom, k, dfnum) /\ r[parent[w]] = UNDEFINED_BBNUM
    BY <1>2, <1>6
  <2> HIDE DEF r, k
  <2>2. Buckets(cfg, Num, parent, bucket_link, r, idom, k, dfnum - 1)
    BY <1>2, <1>3, <2>1, LeaveBucket
  <2> QED
    BY <1>6, <2>2 DEF r, k
<1>12. FirstLoopInv'
  BY <1>2, <1>5, <1>10, <1>11 DEF FirstLoopInv, Linked, Rest
<1> QED
  BY <1>5, <1>9, <1>10, <1>12 DEF Inv

(* The first loop is over: every block is settled. *)
LEMMA StartFinalStep ==
    ASSUME Inv, StartFinal
    PROVE  Inv'
<1>1. pc = "semi" /\ dfnum = 1
  BY DEF StartFinal
<1>2. TypeOK /\ TreeInv
  BY <1>1 DEF Inv
<1>3. NBlocks \in Nat /\ NBlocks >= 2
  BY NBlocksAssumption
<1>4. count = NBlocks
  BY <1>1, <1>2, <1>3 DEF TreeInv
<1>5. /\ SearchTree(cfg, Num, parent)
      /\ Forest(cfg, Num, parent, ancestor, semi, 1)
      /\ Buckets(cfg, Num, parent, bucket_link, bucket_head, idom, 1, 1)
  BY <1>1, <1>2, <1>4 DEF Inv, TreeInv, FirstLoopInv, Linked, Rest
<1>6. /\ dfnum' = 2 /\ pc' = "final"
      /\ UNCHANGED <<cfg, stack, curr, succ_idx, count, vertex, parent, semi, ancestor,
                     bucket_head, bucket_link, bbnum, idom>>
  BY DEF StartFinal, searchVars
<1>7. TypeOK'
  <2>1. 2 \in 0 .. NBlocks
    BY <1>3
  <2> QED
    BY <1>2, <1>6, <2>1 DEF TypeOK
<1>8. TreeInv' /\ Num' = Num
  BY <1>2, <1>4, <1>6, TreeKept
<1>9. /\ \A u \in Blocks : bucket_head[u] = UNDEFINED_BBNUM
      /\ \A b \in Blocks \ {Entry} : IsSettled(cfg, Num, idom, b)
  BY <1>5, BucketsEmpty
<1>10. \A b \in Blocks \ {Entry} : ~(Num[b] < 2)
  <2>1. \A b \in Blocks \ {Entry} : Num[b] \in Nat /\ Num[b] >= 1 /\ Num[b] # Num[Entry]
    BY <1>5, NumsAreNat, EntryIsBlock DEF SearchTree
  <2> QED
    BY <1>5, <2>1, EntryInTree
<1>11. LastLoopInv'
  BY <1>5, <1>6, <1>8, <1>9, <1>10 DEF LastLoopInv
<1> QED
  BY <1>4, <1>6, <1>7, <1>8, <1>11 DEF Inv

(* A block that is settled without its immediate dominator has a relative  *)
(* below it, and the immediate dominator of that one is its own.           *)
LEMMA RelativeIdom ==
    ASSUME NEW c, NEW num, NEW par, SearchTree(c, num, par),
           NEW b \in Blocks, NEW idoms, IsSettled(c, num, idoms, b),
           num[idoms[b]] # SemiOf(c, num, b),
           \A x \in Blocks \ {Entry} :
               num[x] < num[b] => IsImmediateDominator(DominatorSets(c), idoms[x], x)
    PROVE  /\ idoms[b] \in Blocks \ {Entry}
           /\ num[idoms[b]] < num[b]
           /\ IsImmediateDominator(DominatorSets(c), idoms[idoms[b]], b)
<1> DEFINE u == idoms[b]
           dom == DominatorSets(c)
<1>1. /\ u \in Blocks /\ num[u] > SemiOf(c, num, b) /\ num[u] < num[b]
      /\ dom[u] \ {u} = dom[b] \ {b}
  BY DEF IsSettled
<1>2. u # Entry
  <2>1. SemiOf(c, num, b) \in Nat /\ SemiOf(c, num, b) >= 1
    BY SemiIsLowest, NBlocksAssumption DEF Numbers
  <2>2. num[Entry] = 1
    BY EntryInTree
  <2>3. ASSUME u = Entry PROVE FALSE
    <3>1. 1 > SemiOf(c, num, b)
      BY <1>1, <2>2, <2>3
    <3> QED
      BY <2>1, <3>1
  <2> QED
    BY <2>3
<1>3. IsImmediateDominator(dom, idoms[u], u)
  BY <1>1, <1>2
<1>5. IsImmediateDominator(dom, idoms[u], b)
  <2>1. idoms[u] \in dom[b] \ {b} /\ dom[u] \ {u} \subseteq dom[idoms[u]]
    BY <1>1, <1>3 DEF IsImmediateDominator
  <2> QED
    BY <1>1, <2>1 DEF IsImmediateDominator
<1> QED
  BY <1>1, <1>2, <1>5

(* What holds in the last loop, at the block numbered dfnum. *)
LEMMA AtFinal ==
    ASSUME Inv, pc = "final"
    PROVE  /\ TypeOK /\ TreeInv /\ count = NBlocks /\ SearchTree(cfg, Num, parent)
           /\ LastLoopInv
           /\ dfnum \in 2 .. NBlocks /\ dfnum \in Nat
           /\ LET w == vertex[dfnum]
              IN  /\ w \in Blocks /\ w # Entry /\ Num[w] = dfnum
                  /\ IsSettled(cfg, Num, idom, w)
                  /\ IsRelative(w) <=> Num[idom[w]] # SemiOf(cfg, Num, w)
<1> DEFINE w == vertex[dfnum]
<1>1. TypeOK /\ TreeInv
  BY DEF Inv
<1>2. count = NBlocks
  BY <1>1 DEF TreeInv
<1>3. LastLoopInv
  BY <1>2 DEF Inv
<1>4. dfnum \in 2 .. NBlocks /\ dfnum \in Nat
  <2>1. dfnum \in 0 .. NBlocks /\ dfnum >= 2
    BY <1>1, <1>3, TypeFacts DEF LastLoopInv
  <2> QED
    BY <2>1, NBlocksAssumption
<1>5. /\ SearchTree(cfg, Num, parent)
      /\ \A k \in Numbers : vertex[k] \in Blocks /\ Num[vertex[k]] = k
  BY <1>1, <1>2 DEF TreeInv
<1>6. w \in Blocks /\ w # Entry /\ Num[w] = dfnum
  BY <1>1, <1>2, <1>4, AtBlock
<1>7. IsSettled(cfg, Num, idom, w)
  <2>1. ~(Num[w] < dfnum)
    BY <1>4, <1>6
  <2> QED
    BY <1>3, <1>6, <2>1 DEF LastLoopInv
<1>8. semi[w] = SemiOf(cfg, Num, w) /\ semi[w] \in Numbers
  <2>1. Num[w] > 1
    BY <1>4, <1>6
  <2>2. semi[w] = SemiOf(cfg, Num, w)
    BY <1>3, <1>6, <2>1 DEF LastLoopInv, Forest
  <2> QED
    BY <1>5, <1>6, <2>2, SemiIsLowest
<1>9. idom[w] \in Blocks
  BY <1>7 DEF IsSettled
<1>10. idom[w] = vertex[semi[w]] <=> Num[idom[w]] = semi[w]
  <2>1. vertex[Num[idom[w]]] = idom[w]
    BY <1>1, <1>2, <1>9, FoundByNumber
  <2>2. Num[vertex[semi[w]]] = semi[w]
    BY <1>5, <1>8
  <2> QED
    BY <2>1, <2>2
<1>11. IsRelative(w) <=> Num[idom[w]] # SemiOf(cfg, Num, w)
  BY <1>8, <1>10 DEF IsRelative
<1> HIDE DEF w
<1>12. /\ w \in Blocks /\ w # Entry /\ Num[w] = dfnum
       /\ IsSettled(cfg, Num, idom, w)
       /\ IsRelative(w) <=> Num[idom[w]] # SemiOf(cfg, Num, w)
  BY <1>6, <1>7, <1>11
<1> QED
  BY <1>1, <1>2, <1>3, <1>4, <1>5, <1>12 DEF w

(* One more block has its immediate dominator. *)
LEMMA OneMoreIdom ==
    ASSUME LastLoopInv, TypeOK, SearchTree(cfg, Num, parent), dfnum < NBlocks,
           NEW w \in Blocks, w # Entry, Num[w] = dfnum,
           UNCHANGED <<cfg, pc, semi, ancestor, parent, bucket_head, Num>>,
           pc = "final", dfnum' = dfnum + 1,
           \A b \in Blocks : b # w => idom'[b] = idom[b],
           IsImmediateDominator(DominatorSets(cfg), idom'[w], w)
    PROVE  LastLoopInv'
<1>1. dfnum \in Nat /\ \A b \in Blocks : Num[b] \in Nat
  BY TypeFacts, NBlocksAssumption, NumsAreNat
<1>2. \A b \in Blocks : Num[b] = dfnum => b = w
  BY DEF SearchTree
<1>3. ASSUME NEW b \in Blocks \ {Entry}, Num[b] < dfnum + 1
      PROVE  IsImmediateDominator(DominatorSets(cfg), idom'[b], b)
  <2>1. CASE b = w
    BY <2>1
  <2>2. CASE b # w
    <3>1. Num[b] < dfnum
      BY <1>1, <1>2, <1>3, <2>2
    <3>2. idom'[b] = idom[b]
      BY <2>2
    <3> QED
      BY <3>1, <3>2 DEF LastLoopInv
  <2> QED
    BY <2>1, <2>2
<1>4. ASSUME NEW b \in Blocks \ {Entry}, ~(Num[b] < dfnum + 1)
      PROVE  IsSettled(cfg, Num, idom', b)
  <2>1. b # w /\ ~(Num[b] < dfnum)
    BY <1>1, <1>4
  <2>2. IsSettled(cfg, Num, idom, b)
    BY <2>1 DEF LastLoopInv
  <2> QED
    BY <2>1, <2>2 DEF IsSettled
<1>5. dfnum + 1 >= 2
  BY <1>1 DEF LastLoopInv
<1>6. /\ Forest(cfg, Num, parent, ancestor, semi, 1)
      /\ \A b \in Blocks : bucket_head[b] = UNDEFINED_BBNUM
  BY DEF LastLoopInv
<1> QED
  BY <1>3, <1>4, <1>5, <1>6 DEF LastLoopInv

(* The block already has its immediate dominator, ... *)
LEMMA KeepIdomStep ==
    ASSUME Inv, KeepIdom
    PROVE  Inv'
<1> DEFINE w == vertex[dfnum]
<1>1. pc = "final" /\ dfnum < NBlocks /\ ~IsRelative(w)
  BY DEF KeepIdom, MoreFinal
<1>2. /\ TypeOK /\ TreeInv /\ count = NBlocks /\ SearchTree(cfg, Num, parent)
      /\ LastLoopInv
      /\ dfnum \in 2 .. NBlocks /\ dfnum \in Nat
      /\ w \in Blocks /\ w # Entry /\ Num[w] = dfnum
      /\ IsSettled(cfg, Num, idom, w)
      /\ IsRelative(w) <=> Num[idom[w]] # SemiOf(cfg, Num, w)
  BY <1>1, AtFinal
<1>3. /\ dfnum' = dfnum + 1
      /\ UNCHANGED <<cfg, pc, stack, curr, succ_idx, count, vertex, parent, semi, ancestor,
                     bucket_head, bucket_link, bbnum, idom>>
  BY DEF KeepIdom, searchVars
<1> HIDE DEF w
<1>4. TypeOK'
  <2>1. dfnum + 1 \in 0 .. NBlocks
    BY <1>1, <1>2, NBlocksAssumption
  <2> QED
    BY <1>2, <1>3, <2>1 DEF TypeOK
<1>5. TreeInv' /\ Num' = Num
  BY <1>2, <1>3, TreeKept
<1>6. IsImmediateDominator(DominatorSets(cfg), idom[w], w)
  <2>1. Num[idom[w]] = SemiOf(cfg, Num, w) /\ SemiOf(cfg, Num, w) \in Nat
    BY <1>1, <1>2, SemiIsLowest, NBlocksAssumption DEF Numbers
  <2>2. ~(Num[idom[w]] > SemiOf(cfg, Num, w))
    BY <2>1
  <2> QED
    BY <1>2, <2>2 DEF IsSettled
<1>7. LastLoopInv'
  BY <1>1, <1>2, <1>3, <1>5, <1>6, OneMoreIdom
<1> QED
  BY <1>1, <1>2, <1>3, <1>4, <1>5, <1>7 DEF Inv

(* ... or takes that of its relative. *)
LEMMA CopyIdomStep ==
    ASSUME Inv, CopyIdom
    PROVE  Inv'
<1> DEFINE w == vertex[dfnum]
<1>1. pc = "final" /\ dfnum < NBlocks /\ IsRelative(w)
  BY DEF CopyIdom, MoreFinal
<1>2. /\ TypeOK /\ TreeInv /\ count = NBlocks /\ SearchTree(cfg, Num, parent)
      /\ LastLoopInv
      /\ dfnum \in 2 .. NBlocks /\ dfnum \in Nat
      /\ w \in Blocks /\ w # Entry /\ Num[w] = dfnum
      /\ IsSettled(cfg, Num, idom, w)
      /\ IsRelative(w) <=> Num[idom[w]] # SemiOf(cfg, Num, w)
  BY <1>1, AtFinal
<1>3. /\ dfnum' = dfnum + 1
      /\ idom' = [idom EXCEPT ![w] = idom[idom[w]]]
      /\ UNCHANGED <<cfg, pc, stack, curr, succ_idx, count, vertex, parent, semi, ancestor,
                     bucket_head, bucket_link, bbnum>>
  BY DEF CopyIdom, searchVars
<1> HIDE DEF w
<1>4. idom \in Links
  BY <1>2, TypeFacts
<1>5. /\ idom[w] \in Blocks
      /\ IsImmediateDominator(DominatorSets(cfg), idom[idom[w]], w)
  <2>1. \A x \in Blocks \ {Entry} :
            Num[x] < Num[w] => IsImmediateDominator(DominatorSets(cfg), idom[x], x)
    BY <1>2 DEF LastLoopInv
  <2> QED
    BY <1>1, <1>2, <2>1, RelativeIdom
<1>6. idom' \in Links
  <2>1. idom[idom[w]] \in Blocks \union {UNDEFINED_BBNUM}
    BY <1>4, <1>5 DEF Links
  <2> QED
    BY <1>3, <1>4, <2>1 DEF Links
<1>7. idom'[w] = idom[idom[w]] /\ \A b \in Blocks : b # w => idom'[b] = idom[b]
  BY <1>2, <1>3, <1>4 DEF Links
<1>8. TypeOK'
  <2>1. dfnum + 1 \in 0 .. NBlocks
    BY <1>1, <1>2, NBlocksAssumption
  <2> QED
    BY <1>2, <1>3, <1>6, <2>1 DEF TypeOK, Links
<1>9. TreeInv' /\ Num' = Num
  BY <1>2, <1>3, TreeKept
<1>10. IsImmediateDominator(DominatorSets(cfg), idom'[w], w)
  BY <1>5, <1>7
<1>11. LastLoopInv'
  BY <1>1, <1>2, <1>3, <1>7, <1>9, <1>10, OneMoreIdom
<1> QED
  BY <1>1, <1>2, <1>3, <1>8, <1>9, <1>11 DEF Inv

(* The relative is numbered below w; if it is not below w as a block the   *)
(* numbers are not in the order of the blocks.                             *)
LEMMA OrderAssertFailsStep ==
    ASSUME Inv, OrderAssertFails
    PROVE  Inv'
<1> DEFINE w == vertex[dfnum]
<1>1. pc = "final" /\ dfnum < NBlocks /\ IsRelative(w) /\ ~(idom[w] < w)
  BY DEF OrderAssertFails, MoreFinal, InOrder
<1>2. /\ TypeOK /\ TreeInv /\ count = NBlocks /\ SearchTree(cfg, Num, parent)
      /\ LastLoopInv
      /\ dfnum \in 2 .. NBlocks /\ dfnum \in Nat
      /\ w \in Blocks /\ w # Entry /\ Num[w] = dfnum
      /\ IsSettled(cfg, Num, idom, w)
      /\ IsRelative(w) <=> Num[idom[w]] # SemiOf(cfg, Num, w)
  BY <1>1, AtFinal
<1>3. /\ pc' = "aborted"
      /\ UNCHANGED <<cfg, stack, curr, succ_idx, count, vertex, parent, semi, ancestor,
                     bucket_head, bucket_link, dfnum, bbnum, idom>>
  BY DEF OrderAssertFails, searchVars
<1> HIDE DEF w
<1>4. TypeOK'
  BY <1>2, <1>3 DEF TypeOK
<1>5. TreeInv' /\ Num' = Num
  BY <1>2, <1>3, TreeKept
<1>6. idom[w] \in Blocks /\ Num[idom[w]] < Num[w]
  <2>1. \A x \in Blocks \ {Entry} :
            Num[x] < Num[w] => IsImmediateDominator(DominatorSets(cfg), idom[x], x)
    BY <1>2 DEF LastLoopInv
  <2> QED
    BY <1>1, <1>2, <2>1, RelativeIdom
<1>7. \E b \in Blocks : Num[b] # b + 1
  <2> SUFFICES ASSUME \A b \in Blocks : Num[b] = b + 1 PROVE FALSE
    OBVIOUS
  <2>1. Blocks \subseteq Nat
    BY NBlocksAssumption DEF Blocks
  <2>2. Num[idom[w]] = idom[w] + 1 /\ Num[w] = w + 1
    BY <1>2, <1>6
  <2>3. w \in Nat /\ idom[w] \in Nat
    BY <1>2, <1>6, <2>1
  <2>4. idom[w] + 1 < w + 1
    BY <1>6, <2>2
  <2> QED
    BY <1>1, <2>3, <2>4
<1>8. LastLoopInv'
  BY <1>2, <1>3, <1>5, <1>7 DEF LastLoopInv
<1> QED
  BY <1>2, <1>3, <1>4, <1>5, <1>8 DEF Inv

(* The last loop ends before the block numbered last. *)
LEMMA EndFinalStep ==
    ASSUME Inv, EndFinal
    PROVE  Inv'
<1>1. pc = "final" /\ ~(dfnum < NBlocks)
  BY DEF EndFinal, MoreFinal
<1>2. /\ TypeOK /\ TreeInv /\ count = NBlocks /\ LastLoopInv
      /\ dfnum \in 2 .. NBlocks
  BY <1>1, AtFinal
<1>3. /\ pc' = "done"
      /\ UNCHANGED <<cfg, stack, curr, succ_idx, count, vertex, parent, semi, ancestor,
                     bucket_head, bucket_link, dfnum, bbnum, idom>>
  BY DEF EndFinal, searchVars
<1>4. dfnum = NBlocks
  BY <1>1, <1>2, NBlocksAssumption
<1>5. TypeOK'
  BY <1>2, <1>3 DEF TypeOK
<1>6. TreeInv' /\ Num' = Num
  BY <1>2, <1>3, TreeKept
<1>7. LastLoopInv'
  BY <1>2, <1>3, <1>4, <1>6 DEF LastLoopInv
<1> QED
  BY <1>2, <1>3, <1>5, <1>6, <1>7 DEF Inv

-----------------------------------------------------------------------------
(* The theorems. *)

(* Where nothing changes the invariant stays. *)
LEMMA StutterStep ==
    ASSUME Inv, UNCHANGED vars
    PROVE  Inv'
<1>1. UNCHANGED <<cfg, pc, stack, curr, succ_idx, count, vertex, parent, semi, ancestor,
                  bucket_head, bucket_link, dfnum, bbnum, idom>>
  BY DEF vars, searchVars
<1>2. Num' = Num /\ Linked' = Linked /\ Rest' = Rest
  BY <1>1 DEF Num, Number, Numbers, Linked, Rest, Parent
<1>3. TypeOK' <=> TypeOK
  BY <1>1 DEF TypeOK
<1>4. SearchInv' <=> SearchInv
  BY <1>1 DEF SearchInv
<1>5. TreeInv' <=> TreeInv
  <2>1. AllReachable' <=> AllReachable
    BY <1>1 DEF AllReachable
  <2>2. \A k \in Numbers : Numbered(k)' <=> Numbered(k)
    BY <1>1 DEF Numbered
  <2> QED
    BY <1>1, <1>2, <2>1, <2>2 DEF TreeInv
<1>6. FirstLoopInv' <=> FirstLoopInv
  BY <1>1, <1>2 DEF FirstLoopInv
<1>7. LastLoopInv' <=> LastLoopInv
  BY <1>1, <1>2 DEF LastLoopInv
<1> QED
  BY <1>1, <1>3, <1>4, <1>5, <1>6, <1>7 DEF Inv

(* Every step of custom_dfs and of lt_slow keeps Inv. *)
LEMMA InvNext == Inv /\ [Next]_vars => Inv'
<1> SUFFICES ASSUME Inv, [Next]_vars PROVE Inv'
  OBVIOUS
<1>1. CASE PopVisited
  BY <1>1, PopVisitedStep
<1>2. CASE Visit
  BY <1>2, VisitStep
<1>3. CASE PushSucc
  BY <1>3, PushSuccStep
<1>4. CASE SkipSucc
  BY <1>4, SkipSuccStep
<1>5. CASE EndSearch
  BY <1>5, EndSearchStep
<1>6. CASE AssertFails
  BY <1>6, AssertFailsStep
<1>7. CASE Semidominator
  BY <1>7, SemidominatorStep
<1>8. CASE BucketElement
  BY <1>8, BucketElementStep
<1>9. CASE EmptyBucket
  BY <1>9, EmptyBucketStep
<1>10. CASE StartFinal
  BY <1>10, StartFinalStep
<1>11. CASE KeepIdom
  BY <1>11, KeepIdomStep
<1>12. CASE CopyIdom
  BY <1>12, CopyIdomStep
<1>13. CASE OrderAssertFails
  BY <1>13, OrderAssertFailsStep
<1>14. CASE EndFinal
  BY <1>14, EndFinalStep
<1>15. CASE UNCHANGED vars
  BY <1>15, StutterStep
<1> QED
  BY <1>1, <1>2, <1>3, <1>4, <1>5, <1>6, <1>7, <1>8, <1>9, <1>10, <1>11, <1>12,
     <1>13, <1>14, <1>15 DEF Next

(* Inv holds in every state of custom_dfs and lt_slow. *)
THEOREM Invariant == Spec => []Inv
BY InitInv, InvNext, PTL DEF Spec

(* The variables keep their types. *)
THEOREM TypeCorrect == Spec => []TypeOK
<1>1. Inv => TypeOK
  BY DEF Inv
<1> QED
  BY <1>1, Invariant, PTL

(* The stack of custom_dfs, its duplicates and the parents it overwrites     *)
(* leave a depth-first spanning tree of every graph whose blocks can all be  *)
(* reached.                                                                  *)
THEOREM SearchIsDepthFirst == Spec => []SearchTreeIsDepthFirst
<1>1. ASSUME Inv PROVE SearchTreeIsDepthFirst
  <2> SUFFICES ASSUME pc = "semi", dfnum = NBlocks, AllReachable
               PROVE  /\ \A b \in Blocks \ {Entry} : parent[b] \in Preds(cfg, b)
                      /\ \A v \in Blocks : \A w \in Succs(cfg, v) :
                            Number(v) < Number(w) => v \in TreePath(w)
    BY DEF SearchTreeIsDepthFirst
  <2>1. SearchTree(cfg, Num, parent)
    BY <1>1 DEF Inv, TreeInv
  <2>2. ASSUME NEW b \in Blocks \ {Entry} PROVE parent[b] \in Preds(cfg, b)
    <3>1. parent[b] # UNDEFINED_BBNUM
      BY <2>1, ParentInTree, UndefinedIsNone
    <3> QED
      BY <2>1, <3>1 DEF SearchTree, TreeEdges
  <2>3. ASSUME NEW v \in Blocks, NEW w \in Succs(cfg, v), Number(v) < Number(w)
        PROVE  v \in TreePath(w)
    <3>1. w \in Blocks
      BY <2>1, NeighboursAreBlocks DEF SearchTree, WellFormed
    <3>2. Num[v] >= 1 /\ Num[v] < Num[w]
      BY <2>1, <2>3, <3>1, NumsAreNat DEF Num
    <3> QED
      BY <2>1, <3>2 DEF SearchTree, EdgesUp, TreePath
  <2> QED
    BY <2>2, <2>3
<1> QED
  BY <1>1, Invariant, PTL

(* SemiDefinition is SemiOf. *)
LEMMA SemiIsDefinition ==
    ASSUME NEW w \in Blocks
    PROVE  SemiDefinition(w) = SemiOf(cfg, Num, w)
<1>1. \A x \in Blocks : Num[x] = Number(x)
  BY DEF Num
<1>2. {S \in SUBSET Blocks : \A x \in S : Number(x) >= Number(w) => Preds(cfg, x) \subseteq S}
       = {S \in SUBSET Blocks : \A x \in S : Num[x] >= Num[w] => Preds(cfg, x) \subseteq S}
  BY <1>1
<1>3. LeadsTo(w) = Leads(cfg, Num, w) /\ LeadsTo(w) \subseteq Blocks
  BY <1>2 DEF LeadsTo, Leads
<1>4. {Number(x) : x \in LeadsTo(w)} = {Num[x] : x \in LeadsTo(w)}
  BY <1>1, <1>3
<1>5. \A s : (\A x \in LeadsTo(w) : s <= Number(x)) <=> (\A x \in LeadsTo(w) : s <= Num[x])
  BY <1>1, <1>3
<1> QED
  BY <1>3, <1>4, <1>5 DEF SemiDefinition, SemiOf

(* The first loop leaves every block but the entry the semidominator of the *)
(* definition, though each was computed from the forest linked by then.     *)
THEOREM SemidominatorsCorrect == Spec => []SemisCorrect
<1>1. ASSUME Inv PROVE SemisCorrect
  <2> SUFFICES ASSUME pc = "semi", dfnum = 1, NEW w \in Blocks \ {Entry}
               PROVE  semi[w] = SemiDefinition(w)
    BY DEF SemisCorrect
  <2>1. TreeInv /\ count = NBlocks
    BY <1>1, NBlocksAssumption DEF Inv, TreeInv
  <2>2. SearchTree(cfg, Num, parent) /\ Forest(cfg, Num, parent, ancestor, semi, 1)
    BY <1>1, <2>1 DEF Inv, TreeInv, FirstLoopInv, Linked
  <2>3. Num[w] > 1
    <3>1. Num[w] # Num[Entry]
      BY <2>2, EntryIsBlock DEF SearchTree
    <3> QED
      BY <2>2, <3>1, EntryInTree, NumsAreNat
  <2> QED
    BY <2>2, <2>3, SemiIsDefinition DEF Forest
<1> QED
  BY <1>1, Invariant, PTL

(* Through the buckets every block but the entry gets its immediate          *)
(* dominator, or a block numbered below it with the same one; and no block   *)
(* is left in a bucket.                                                      *)
THEOREM BucketsCorrect == Spec => []BucketsSettleIdoms
<1>1. ASSUME Inv PROVE BucketsSettleIdoms
  <2> SUFFICES ASSUME pc = "final", dfnum = 2
               PROVE  /\ \A b \in Blocks : bucket_head[b] = UNDEFINED_BBNUM
                      /\ \A b \in Blocks \ {Entry} :
                            \/ IsImmediateDominator(DominatorSets(cfg), idom[b], b)
                            \/ /\ Number(idom[b]) < Number(b)
                               /\ DominatorSets(cfg)[idom[b]] \ {idom[b]}
                                      = DominatorSets(cfg)[b] \ {b}
    BY DEF BucketsSettleIdoms
  <2>1. LastLoopInv /\ SearchTree(cfg, Num, parent)
    BY <1>1, AtFinal
  <2>2. ASSUME NEW b \in Blocks \ {Entry} PROVE IsSettled(cfg, Num, idom, b)
    <3>1. Num[b] \in Nat /\ Num[b] >= 1 /\ Num[b] # Num[Entry]
      BY <2>1, NumsAreNat, EntryIsBlock DEF SearchTree
    <3>2. ~(Num[b] < dfnum)
      BY <2>1, <3>1, EntryInTree
    <3> QED
      BY <2>1, <3>2 DEF LastLoopInv
  <2>3. ASSUME NEW b \in Blocks \ {Entry},
               ~IsImmediateDominator(DominatorSets(cfg), idom[b], b)
        PROVE  /\ Number(idom[b]) < Number(b)
               /\ DominatorSets(cfg)[idom[b]] \ {idom[b]} = DominatorSets(cfg)[b] \ {b}
    <3>1. /\ idom[b] \in Blocks
          /\ Num[idom[b]] < Num[b]
          /\ DominatorSets(cfg)[idom[b]] \ {idom[b]} = DominatorSets(cfg)[b] \ {b}
      BY <2>2, <2>3 DEF IsSettled
    <3> QED
      BY <3>1 DEF Num
  <2> QED
    BY <2>1, <2>3 DEF LastLoopInv
<1> QED
  BY <1>1, Invariant, PTL

(* When lt_slow ends, every block but the one numbered last has its          *)
(* immediate dominator, and that one has it or a block whose it is as well.  *)
THEOREM ImmediateDominatorsButLast == Spec => []IdomsCorrectButLast
<1>1. ASSUME Inv PROVE IdomsCorrectButLast
  <2> DEFINE last == vertex[NBlocks]
             dom == DominatorSets(cfg)
  <2> SUFFICES ASSUME pc = "done"
               PROVE  /\ \A b \in Blocks \ {Entry, last} : IsImmediateDominator(dom, idom[b], b)
                      /\ \/ IsImmediateDominator(dom, idom[last], last)
                         \/ IsImmediateDominator(dom, idom[idom[last]], last)
    BY DEF IdomsCorrectButLast
  <2>1. NBlocks \in Nat /\ NBlocks >= 2 /\ NBlocks \in 2 .. NBlocks
    BY NBlocksAssumption
  <2>2. TreeInv /\ count = NBlocks
    BY <1>1 DEF Inv, TreeInv
  <2>3. LastLoopInv /\ dfnum = NBlocks /\ SearchTree(cfg, Num, parent)
    BY <1>1, <2>2 DEF Inv, TreeInv, LastLoopInv
  <2>4. last \in Blocks /\ last # Entry /\ Num[last] = NBlocks
    BY <2>1, <2>2, AtBlock
  <2> HIDE DEF last
  <2>5. \A x \in Blocks \ {Entry} : Num[x] < Num[last] => IsImmediateDominator(dom, idom[x], x)
    BY <2>3, <2>4 DEF LastLoopInv
  <2>6. \A x \in Blocks \ {last} : Num[x] < Num[last]
    <3>1. \A x \in Blocks : Num[x] \in Nat /\ Num[x] <= NBlocks
      BY <2>3, NumsAreNat
    <3>2. \A x \in Blocks \ {last} : Num[x] # Num[last]
      BY <2>3, <2>4 DEF SearchTree
    <3> QED
      BY <2>1, <2>4, <3>1, <3>2
  <2>7. IsSettled(cfg, Num, idom, last)
    <3>1. ~(Num[last] < dfnum)
      BY <2>1, <2>3, <2>4
    <3> QED
      BY <2>3, <2>4, <3>1 DEF LastLoopInv
  <2>8. CASE Num[idom[last]] = SemiOf(cfg, Num, last)
    <3>1. SemiOf(cfg, Num, last) \in Nat
      BY <2>1, <2>3, <2>4, SemiIsLowest DEF Numbers
    <3>2. IsImmediateDominator(dom, idom[last], last)
      BY <2>7, <2>8, <3>1 DEF IsSettled
    <3> QED
      BY <2>5, <2>6, <3>2
  <2>9. CASE Num[idom[last]] # SemiOf(cfg, Num, last)
    <3>1. IsImmediateDominator(dom, idom[idom[last]], last)
      BY <2>3, <2>4, <2>5, <2>7, <2>9, RelativeIdom
    <3> QED
      BY <2>5, <2>6, <3>1
  <2> QED
    BY <2>8, <2>9
<1> QED
  BY <1>1, Invariant, PTL

(* An assertion stops lt_slow only at a graph with a block that cannot be    *)
(* reached, at its first turn, or at one whose blocks are not numbered in    *)
(* the order of the search.                                                  *)
THEOREM AbortsAreExplained == Spec => []AbortsExplained
<1>1. ASSUME Inv PROVE AbortsExplained
  <2> SUFFICES ASSUME pc = "aborted"
               PROVE  IF AllReachable THEN \E b \in Blocks : Number(b) # b + 1
                                      ELSE dfnum = NBlocks
    BY DEF AbortsExplained
  <2>1. TreeInv
    BY <1>1 DEF Inv
  <2>2. ASSUME AllReachable PROVE \E b \in Blocks : Number(b) # b + 1
    <3>1. \E b \in Blocks : Num[b] # b + 1
      BY <1>1, <2>1, <2>2 DEF Inv, TreeInv, LastLoopInv
    <3> QED
      BY <3>1 DEF Num
  <2>3. ASSUME ~AllReachable PROVE dfnum = NBlocks
    BY <2>1, <2>3 DEF TreeInv
  <2> QED
    BY <2>2, <2>3
<1> QED
  BY <1>1, Invariant, PTL

-----------------------------------------------------------------------------
(* Termination: custom_dfs and lt_slow have less left after each step.     *)

(* A block put in a bucket is numbered lower than those already there, so  *)
(* the links of a bucket go up in number.                                  *)
BucketsAscend ==
    pc \in {"semi", "bucket"} /\ count = NBlocks =>
        \A b \in Blocks : Num[b] > Linked /\ bucket_link[b] # UNDEFINED_BBNUM =>
            Num[bucket_link[b]] > Num[b]

DescentInv == Inv /\ BucketsAscend

LEMMA EndSearch_Ascend == Inv' /\ EndSearch => BucketsAscend'
<1> SUFFICES ASSUME Inv', EndSearch, count' = NBlocks, NEW b \in Blocks, Num'[b] > Linked'
             PROVE  FALSE
  BY DEF BucketsAscend
<1>1. pc' = "semi" /\ dfnum' = NBlocks
  BY DEF EndSearch, LastNumber
<1>2. SearchTree(cfg', Num', parent')
  BY <1>1 DEF Inv, TreeInv
<1>3. Num'[b] \in Nat /\ Num'[b] <= NBlocks
  BY <1>2, NumsAreNat
<1>4. Linked' = NBlocks
  BY <1>1 DEF Linked
<1> QED
  BY <1>3, <1>4, NBlocksAssumption

(* There are buckets to look through only if all blocks have numbers. *)
AllNumbered == pc = "bucket" => count = NBlocks /\ dfnum \in 2 .. NBlocks

LEMMA BucketsOnlyIfAll == Inv => AllNumbered
BY AtBucket DEF AllNumbered

LEMMA Semidominator_Ascend == DescentInv /\ Inv' /\ Semidominator => BucketsAscend'
<1> SUFFICES ASSUME DescentInv, Inv', Semidominator PROVE BucketsAscend'
  OBVIOUS
<1> DEFINE w == vertex[dfnum]
           s == vertex[BestSemi(w)]
<1>1. pc = "semi" /\ dfnum >= 2
  BY DEF Semidominator
<1>2. /\ bucket_link' = [bucket_link EXCEPT ![w] = bucket_head[s]]
      /\ bucket_head' = [bucket_head EXCEPT ![s] = w]
      /\ pc' = "bucket"
      /\ UNCHANGED <<cfg, count, vertex, parent, dfnum>>
  BY DEF Semidominator, searchVars
<1>3. Inv /\ TypeOK /\ TreeInv /\ BucketsAscend
  BY <1>1 DEF DescentInv, Inv
<1>4. count' = NBlocks /\ dfnum' \in 2 .. NBlocks
  <2>1. Inv' => AllNumbered'
    BY BucketsOnlyIfAll, PTL
  <2> QED
    BY <1>2, <2>1 DEF AllNumbered
<1>5. count = NBlocks /\ dfnum \in 2 .. NBlocks
  BY <1>2, <1>4
<1>6. FirstLoopInv
  BY <1>1, <1>3, <1>5 DEF Inv
<1>7. w \in Blocks /\ w # Entry /\ Num[w] = dfnum
  BY <1>3, <1>5, AtBlock
<1>8. SearchTree(cfg, Num, parent) /\ \A k \in Numbers : vertex[k] \in Blocks
  BY <1>3, <1>5 DEF TreeInv
<1>9. Buckets(cfg, Num, parent, bucket_link, bucket_head, idom, dfnum, dfnum)
  BY <1>1, <1>6 DEF FirstLoopInv, Linked, Rest
<1>10. bucket_link \in Links /\ bucket_head \in Links /\ bucket_head' \in Links
  BY <1>3, TypeFacts DEF Buckets, Inv, TypeOK, Links
<1>11. s \in Blocks
  <2>1. BestSemi(w) \in Numbers
    <3>1. BestSemi(w) = SemiOf(cfg, Num, w)
      <4>1. \A v : Lowest(v) = LowestIn(semi, ancestor, v)
        BY DEF Lowest, LowestIn
      <4>2. BestSemi(w) = BestIn(cfg, semi, ancestor, w)
        BY <4>1 DEF BestSemi, Candidates, BestIn, CandidatesIn
      <4>3. dfnum >= 1 /\ dfnum <= Num[w] /\ Num[w] <= dfnum /\ dfnum \in Nat
        BY <1>5, <1>7
      <4>4. Forest(cfg, Num, parent, ancestor, semi, dfnum)
        BY <1>1, <1>6 DEF FirstLoopInv, Linked
      <4> HIDE DEF w
      <4> QED
        BY <1>7, <1>8, <4>2, <4>3, <4>4, SemiFromForest
    <3> QED
      BY <1>7, <1>8, <3>1, SemiIsLowest
  <2> QED
    BY <1>8, <2>1
<1> HIDE DEF w, s
<1>12. bucket_head[s] # UNDEFINED_BBNUM => Num[bucket_head[s]] > dfnum
  BY <1>9, <1>11 DEF Buckets, InBuckets
<1>13. /\ bucket_link'[w] = bucket_head[s]
       /\ \A b \in Blocks : b # w => bucket_link'[b] = bucket_link[b]
  BY <1>2, <1>7, <1>10 DEF Links
<1>14. Num' = Num
  BY <1>2 DEF Num, Number, Numbers
<1>15. Linked' = dfnum - 1 /\ Linked = dfnum
  BY <1>1, <1>2 DEF Linked
<1>16. \A b \in Blocks : Num[b] \in Nat /\ (Num[b] = dfnum => b = w)
  BY <1>7, <1>8, NumsAreNat DEF SearchTree
<1>17. ASSUME NEW b \in Blocks, Num[b] > Linked', bucket_link'[b] # UNDEFINED_BBNUM
       PROVE  Num[bucket_link'[b]] > Num[b]
  <2>1. CASE b = w
    BY <1>7, <1>12, <1>13, <1>17, <2>1
  <2>2. CASE b # w
    <3>1. Num[b] > dfnum
      BY <1>5, <1>15, <1>16, <1>17, <2>2
    <3> QED
      BY <1>1, <1>3, <1>5, <1>13, <1>15, <1>17, <2>2, <3>1 DEF BucketsAscend
  <2> QED
    BY <2>1, <2>2
<1> QED
  BY <1>14, <1>17 DEF BucketsAscend

LEMMA Descent_Next == DescentInv /\ [Next]_vars => DescentInv'
<1> SUFFICES ASSUME DescentInv, [Next]_vars PROVE DescentInv'
  OBVIOUS
<1>1. Inv /\ Inv' /\ BucketsAscend
  BY InvNext DEF DescentInv
<1>2. CASE EndSearch
  BY <1>1, <1>2, EndSearch_Ascend DEF DescentInv
<1>3. CASE Semidominator
  BY <1>1, <1>3, Semidominator_Ascend DEF DescentInv
<1>4. CASE BucketElement \/ EmptyBucket \/ UNCHANGED vars
  <2>1. /\ UNCHANGED <<bucket_link, vertex, count>>
        /\ pc' \in {"semi", "bucket"} => pc \in {"semi", "bucket"}
        /\ \/ pc' = pc /\ dfnum' = dfnum
           \/ pc = "bucket" /\ pc' = "semi" /\ dfnum' = dfnum - 1
    BY <1>4 DEF BucketElement, EmptyBucket, vars, searchVars
  <2>2. Num' = Num /\ Linked' = Linked
    BY <2>1 DEF Num, Number, Numbers, Linked
  <2>3. BucketsAscend'
    BY <1>1, <2>1, <2>2 DEF BucketsAscend
  <2> QED
    BY <1>1, <2>3 DEF DescentInv
<1>5. CASE \/ PopVisited \/ Visit \/ PushSucc \/ SkipSucc
           \/ AssertFails \/ StartFinal \/ KeepIdom \/ CopyIdom \/ OrderAssertFails \/ EndFinal
  <2>1. pc' \notin {"semi", "bucket"}
    BY <1>5 DEF PopVisited, Visit, PushSucc, SkipSucc, Popping, AssertFails, StartFinal, KeepIdom,
       CopyIdom, OrderAssertFails, EndFinal
  <2> QED
    BY <1>1, <2>1 DEF DescentInv, BucketsAscend
<1> QED
  BY <1>2, <1>3, <1>4, <1>5 DEF Next

LEMMA DescentInvariant == Spec => []DescentInv
<1>1. Init => DescentInv
  BY InitInv DEF DescentInv, BucketsAscend, Init
<1> QED
  BY <1>1, Descent_Next, PTL DEF Spec

(* What custom_dfs has left to do: the blocks without a number, then the      *)
(* successors of the present one, then the entries of the stack, ...          *)
SearchLeft ==
    <<IF pc = "search" THEN 1 ELSE 0, NBlocks - count, succ_idx, Len(stack)>>

(* ... and what lt_slow has: its loops, their turns, and of a bucket at most  *)
(* the blocks numbered from its element on.                                   *)
TurnsLeft == IF pc = "final" THEN NBlocks - dfnum ELSE dfnum

BucketLeft ==
    IF pc = "bucket" /\ bbnum # UNDEFINED_BBNUM THEN NBlocks + 1 - Num[bbnum] ELSE 0

SlowLeft ==
    <<IF pc \in {"done", "aborted"} THEN 0 ELSE IF pc = "final" THEN 1 ELSE 2,
      TurnsLeft, IF pc = "bucket" THEN 0 ELSE 1, BucketLeft>>

AllLeft == SearchLeft \o SlowLeft

LeftCounted ==
    /\ SearchLeft \in [1 .. 4 -> Nat] /\ SlowLeft \in [1 .. 4 -> Nat]
    /\ NBlocks - count \in Nat /\ succ_idx \in Nat /\ Len(stack) \in Nat
    /\ TurnsLeft \in Nat /\ BucketLeft \in Nat

LEMMA LeftIs == Inv => LeftCounted
<1> SUFFICES ASSUME Inv PROVE LeftCounted
  OBVIOUS
<1>1. TypeOK
  BY DEF Inv
<1>2. /\ NBlocks \in Nat /\ dfnum \in 0 .. NBlocks /\ count \in 0 .. NBlocks
      /\ stack \in Seq(Blocks) /\ curr \in Blocks /\ cfg \in Cfg
      /\ succ_idx \in 0 .. Len(cfg.succs[curr])
  BY <1>1, TypeFacts, NBlocksAssumption DEF WellFormed
<1>3. NBlocks - count \in Nat /\ TurnsLeft \in Nat
  BY <1>2 DEF TurnsLeft
<1>4. succ_idx \in Nat /\ Len(stack) \in Nat
  <2>1. cfg.succs[curr] \in Seq(Blocks)
    BY <1>2 DEF Cfg
  <2>2. Len(cfg.succs[curr]) \in Nat
    BY <2>1
  <2> QED
    BY <1>2, <2>2
<1>5. BucketLeft \in Nat
  <2>1. CASE pc = "bucket" /\ bbnum # UNDEFINED_BBNUM
    <3>1. bbnum \in Blocks /\ SearchTree(cfg, Num, parent)
      BY <1>1, <2>1, AtBucket, TypeFacts
    <3>2. Num[bbnum] \in Nat /\ Num[bbnum] <= NBlocks
      BY <3>1, NumsAreNat
    <3> QED
      BY <1>2, <2>1, <3>2 DEF BucketLeft
  <2>2. CASE ~(pc = "bucket" /\ bbnum # UNDEFINED_BBNUM)
    BY <2>2 DEF BucketLeft
  <2> QED
    BY <2>1, <2>2
<1>6. SearchLeft \in [1 .. 4 -> Nat]
  BY <1>3, <1>4 DEF SearchLeft
<1>7. SlowLeft \in [1 .. 4 -> Nat]
  BY <1>3, <1>5 DEF SlowLeft
<1> QED
  BY <1>3, <1>4, <1>5, <1>6, <1>7 DEF LeftCounted

LEMMA OneEntryLess ==
    ASSUME NEW S, NEW q \in Seq(S), q # <<>>
    PROVE  LET f == SubSeq(q, 1, Len(q) - 1)
           IN  /\ f \in Seq(S)
               /\ Len(f) = Len(q) - 1
OBVIOUS

LEMMA SearchLowers ==
    ASSUME Inv, LeftCounted, LeftCounted',
           PopVisited \/ Visit \/ PushSucc \/ SkipSucc \/ EndSearch
    PROVE  <<SearchLeft', SearchLeft>> \in Lexicographic(4)
<1> DEFINE c == NBlocks - count
           c1 == NBlocks - count'
           u == succ_idx
           u1 == succ_idx'
           k == Len(stack)
           k1 == Len(stack')
<1>1. c \in Nat /\ c1 \in Nat /\ u \in Nat /\ u1 \in Nat /\ k \in Nat /\ k1 \in Nat
  BY DEF LeftCounted
<1>2. 0 \in Nat /\ 1 \in Nat /\ 0 < 1
  OBVIOUS
<1>3. count \in Nat /\ NBlocks \in Nat /\ stack \in Seq(Blocks)
  BY TypeFacts, NBlocksAssumption DEF Inv
<1>4. SearchLeft = <<1, c, u, k>>
  BY DEF SearchLeft, PopVisited, Visit, PushSucc, SkipSucc, EndSearch, Popping
<1>5. CASE EndSearch
  <2>1. SearchLeft' = <<0, c1, u1, k1>>
    BY <1>5 DEF EndSearch, SearchLeft
  <2> HIDE DEF c, c1, u, u1, k, k1
  <2> QED
    BY <1>1, <1>2, <1>4, <2>1, LowerOfFour
<1>6. CASE Visit
  <2>1. SearchLeft' = <<1, c1, u1, k1>> /\ c1 < c
    BY <1>3, <1>6 DEF Visit, Popping, SearchLeft
  <2> HIDE DEF c, c1, u, u1, k, k1
  <2> QED
    BY <1>1, <1>2, <1>4, <2>1, LowerOfFour
<1>7. CASE PushSucc \/ SkipSucc
  <2>1. SearchLeft' = <<1, c, u1, k1>> /\ u1 < u
    BY <1>1, <1>7 DEF PushSucc, SkipSucc, SearchLeft
  <2> HIDE DEF c, c1, u, u1, k, k1
  <2> QED
    BY <1>1, <1>2, <1>4, <2>1, LowerOfFour
<1>8. CASE PopVisited
  <2>1. SearchLeft' = <<1, c, u, k1>>
    BY <1>8 DEF PopVisited, Popping, SearchLeft
  <2>2. k1 < k
    <3>1. stack' = SubSeq(stack, 1, Len(stack) - 1) /\ stack # <<>>
      BY <1>8 DEF PopVisited, Popping, Popped
    <3>2. Len(stack') = Len(stack) - 1
      BY <1>3, <3>1, OneEntryLess
    <3> QED
      BY <1>1, <3>2
  <2> HIDE DEF c, c1, u, u1, k, k1
  <2> QED
    BY <1>1, <1>2, <1>4, <2>1, <2>2, LowerOfFour
<1> QED
  BY <1>5, <1>6, <1>7, <1>8

(* The next element of a bucket is numbered higher. *)
LEMMA ElementLowers ==
    ASSUME DescentInv, BucketElement
    PROVE  BucketLeft' < BucketLeft
<1>1. /\ pc = "bucket" /\ pc' = "bucket" /\ bbnum # UNDEFINED_BBNUM
      /\ bbnum' = bucket_link[bbnum] /\ vertex' = vertex
  BY DEF BucketElement, NextInBucket, searchVars
<1>2. Inv /\ TypeOK /\ BucketsAscend
  BY DEF DescentInv, Inv
<1>3. /\ count = NBlocks /\ SearchTree(cfg, Num, parent) /\ Parent \in Blocks
      /\ Buckets(cfg, Num, parent, bucket_link, Rest, idom, dfnum - 1, dfnum)
      /\ Rest[Parent] = bbnum
  BY <1>1, <1>2, AtBucket
<1>4. bbnum \in Blocks /\ bucket_link \in Links
  BY <1>1, <1>2, TypeFacts
<1>5. Num[bbnum] > Linked
  BY <1>1, <1>3 DEF Buckets, InBuckets, Linked
<1>6. \A b \in Blocks : Num[b] \in Nat /\ Num[b] <= NBlocks
  BY <1>3, NumsAreNat
<1>7. NBlocks \in Nat
  BY NBlocksAssumption
<1>8. Num' = Num
  BY <1>1 DEF Num, Number, Numbers
<1>9. BucketLeft = NBlocks + 1 - Num[bbnum]
  BY <1>1 DEF BucketLeft
<1>10. CASE bucket_link[bbnum] = UNDEFINED_BBNUM
  <2>1. BucketLeft' = 0
    BY <1>1, <1>10 DEF BucketLeft
  <2> QED
    BY <1>4, <1>6, <1>7, <1>9, <2>1
<1>11. CASE bucket_link[bbnum] # UNDEFINED_BBNUM
  <2>1. bucket_link[bbnum] \in Blocks
    BY <1>4, <1>11 DEF Links
  <2>2. Num[bucket_link[bbnum]] > Num[bbnum]
    BY <1>1, <1>2, <1>3, <1>4, <1>5, <1>11 DEF BucketsAscend
  <2>3. BucketLeft' = NBlocks + 1 - Num[bucket_link[bbnum]]
    BY <1>1, <1>8, <1>11 DEF BucketLeft
  <2> QED
    BY <1>4, <1>6, <1>7, <1>9, <2>1, <2>2, <2>3
<1> QED
  BY <1>10, <1>11

LEMMA SlowLowers ==
    ASSUME DescentInv, LeftCounted, LeftCounted',
           \/ AssertFails \/ Semidominator \/ BucketElement \/ EmptyBucket \/ StartFinal
           \/ KeepIdom \/ CopyIdom \/ OrderAssertFails \/ EndFinal
    PROVE  SearchLeft' = SearchLeft /\ <<SlowLeft', SlowLeft>> \in Lexicographic(4)
<1> DEFINE d == TurnsLeft
           d1 == TurnsLeft'
           e == BucketLeft
           e1 == BucketLeft'
<1>1. d \in Nat /\ d1 \in Nat /\ e \in Nat /\ e1 \in Nat
  BY DEF LeftCounted
<1>2. 0 \in Nat /\ 1 \in Nat /\ 2 \in Nat /\ 0 < 1 /\ 0 < 2 /\ 1 < 2
  OBVIOUS
<1>3. SearchLeft' = SearchLeft
  <2>1. pc # "search" /\ pc' # "search" /\ UNCHANGED <<count, succ_idx, stack>>
    BY DEF AssertFails, Semidominator, BucketElement, EmptyBucket, StartFinal, KeepIdom, CopyIdom,
       OrderAssertFails, EndFinal, searchVars
  <2> QED
    BY <2>1 DEF SearchLeft
<1>4. dfnum \in Int /\ NBlocks \in Int
  BY TypeFacts, NBlocksAssumption DEF DescentInv, Inv
<1>5. CASE AssertFails
  <2>1. SlowLeft = <<2, d, 1, e>> /\ SlowLeft' = <<0, d1, 1, e1>>
    BY <1>5 DEF AssertFails, SlowLeft
  <2> HIDE DEF d, d1, e, e1
  <2> QED
    BY <1>1, <1>2, <1>3, <2>1, LowerOfFour
<1>6. CASE OrderAssertFails \/ EndFinal
  <2>1. SlowLeft = <<1, d, 1, e>> /\ SlowLeft' = <<0, d1, 1, e1>>
    BY <1>6 DEF OrderAssertFails, EndFinal, SlowLeft
  <2> HIDE DEF d, d1, e, e1
  <2> QED
    BY <1>1, <1>2, <1>3, <2>1, LowerOfFour
<1>7. CASE StartFinal
  <2>1. SlowLeft = <<2, d, 1, e>> /\ SlowLeft' = <<1, d1, 1, e1>>
    BY <1>7 DEF StartFinal, SlowLeft
  <2> HIDE DEF d, d1, e, e1
  <2> QED
    BY <1>1, <1>2, <1>3, <2>1, LowerOfFour
<1>8. CASE KeepIdom \/ CopyIdom
  <2>1. pc = "final" /\ pc' = "final" /\ dfnum' = dfnum + 1
    BY <1>8 DEF KeepIdom, CopyIdom
  <2>2. SlowLeft = <<1, d, 1, e>> /\ SlowLeft' = <<1, d1, 1, e1>>
    BY <2>1 DEF SlowLeft
  <2>3. d1 < d
    BY <1>4, <2>1 DEF TurnsLeft
  <2> HIDE DEF d, d1, e, e1
  <2> QED
    BY <1>1, <1>2, <1>3, <2>2, <2>3, LowerOfFour
<1>9. CASE Semidominator
  <2>1. pc = "semi" /\ pc' = "bucket" /\ dfnum' = dfnum
    BY <1>9 DEF Semidominator
  <2>2. SlowLeft = <<2, d, 1, e>> /\ SlowLeft' = <<2, d, 0, e1>>
    BY <2>1 DEF SlowLeft, TurnsLeft
  <2> HIDE DEF d, d1, e, e1
  <2> QED
    BY <1>1, <1>2, <1>3, <2>2, LowerOfFour
<1>10. CASE BucketElement
  <2>1. pc = "bucket" /\ pc' = "bucket" /\ dfnum' = dfnum
    BY <1>10 DEF BucketElement
  <2>2. SlowLeft = <<2, d, 0, e>> /\ SlowLeft' = <<2, d, 0, e1>>
    BY <2>1 DEF SlowLeft, TurnsLeft
  <2>3. e1 < e
    BY <1>10, ElementLowers
  <2> HIDE DEF d, d1, e, e1
  <2> QED
    BY <1>1, <1>2, <1>3, <2>2, <2>3, LowerOfFour
<1>11. CASE EmptyBucket
  <2>1. pc = "bucket" /\ pc' = "semi" /\ dfnum' = dfnum - 1
    BY <1>11 DEF EmptyBucket
  <2>2. SlowLeft = <<2, d, 0, e>> /\ SlowLeft' = <<2, d1, 1, e1>>
    BY <2>1 DEF SlowLeft
  <2>3. d1 < d
    BY <1>4, <2>1 DEF TurnsLeft
  <2> HIDE DEF d, d1, e, e1
  <2> QED
    BY <1>1, <1>2, <1>3, <2>2, <2>3, LowerOfFour
<1> QED
  BY <1>5, <1>6, <1>7, <1>8, <1>9, <1>10, <1>11

LEMMA RunsDown ==
    ASSUME DescentInv, DescentInv', Next
    PROVE  <<AllLeft', AllLeft>> \in Lexicographic(8)
<1>1. LeftCounted /\ LeftCounted'
  <2>1. Inv' => LeftCounted'
    BY LeftIs, PTL
  <2> QED
    BY <2>1, LeftIs DEF DescentInv
<1>2. 4 \in Nat /\ 4 + 4 = 8
  OBVIOUS
<1>3. CASE PopVisited \/ Visit \/ PushSucc \/ SkipSucc \/ EndSearch
  <2>1. <<SearchLeft', SearchLeft>> \in Lexicographic(4)
    BY <1>1, <1>3, SearchLowers DEF DescentInv
  <2>2. <<SearchLeft' \o SlowLeft', SearchLeft \o SlowLeft>> \in Lexicographic(4 + 4)
    BY <1>1, <1>2, <2>1, LowerBefore DEF LeftCounted
  <2> QED
    BY <1>2, <2>2 DEF AllLeft
<1>4. CASE \/ AssertFails \/ Semidominator \/ BucketElement \/ EmptyBucket \/ StartFinal
           \/ KeepIdom \/ CopyIdom \/ OrderAssertFails \/ EndFinal
  <2>1. SearchLeft' = SearchLeft /\ <<SlowLeft', SlowLeft>> \in Lexicographic(4)
    BY <1>1, <1>4, SlowLowers
  <2>2. <<SearchLeft \o SlowLeft', SearchLeft \o SlowLeft>> \in Lexicographic(4 + 4)
    BY <1>1, <1>2, <2>1, LowerBehind DEF LeftCounted
  <2> QED
    BY <1>2, <2>1, <2>2 DEF AllLeft
<1> QED
  BY <1>3, <1>4 DEF Next

(* custom_dfs and lt_slow cannot go on for ever on any graph.  A block is     *)
(* visited once, however often it was pushed, and no bucket leads back to a   *)
(* block already taken from it.                                               *)
Descends == [][(<<AllLeft', AllLeft>> \in Lexicographic(8))]_vars

THEOREM CannotGoOn == Spec => Descends
<1>1. DescentInv /\ [Next]_vars => [(<<AllLeft', AllLeft>> \in Lexicographic(8))]_vars
  BY Descent_Next, RunsDown
<1> QED
  BY <1>1, DescentInvariant, PTL DEF Spec, Descends

=============================================================================
