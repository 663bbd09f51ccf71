--------------------------- MODULE DomTreeProofs ---------------------------
(***************************************************************************)
(* DominatorTree::build on every graph: its indices stay in range on all   *)
(* of them, and on those whose first predecessors come later in the        *)
(* postorder the unfinished idoms is a tree at every step, no block ever   *)
(* loses a true dominator or moves down, and the finished tree is right.   *)
(*                                                                         *)
(* The invariant has two layers.  BuildInv holds on every graph.  TreeInv  *)
(* is about the graphs of FirstPredsLater and says what a sweep has        *)
(* settled behind it (SweptProcessed, SweptStable), what the fingers of    *)
(* intersect are between (Candidate, Second), and why a parent can only be *)
(* replaced by one of its ancestors (CommonKept, FirstPredAbove).          *)
(*                                                                         *)
(* Then the passes that run over the finished tree, leaves, dom_frontiers  *)
(* and LoopInfo: the invariant of each rests on the conjunction of the two *)
(* layers, FullInv, which its steps keep as it is.                         *)
(***************************************************************************)
EXTENDS DomFrontiers, LoopInfo, PostorderProofs, FiniteSetTheorems

Started == pc \notin {"dfs", "ordered"}
Sweeping == pc \in {"block", "preds", "intersect"}
AtBlock == pc \in {"preds", "intersect"}

(* There is a block the sweep is at, or comes to next. *)
Placed == AtBlock \/ (pc = "block" /\ i >= 1)

(* Nothing is in the tree before build starts. *)
NotStarted == ~Started => Processed = {}

MapFilled ==
    Started => \A k \in 1 .. Len(postorder) : postorder_map[postorder[k]] = k - 1

SweepRange ==
    /\ pc = "block" => i <= Len(postorder) - 1
    /\ AtBlock => i \in 1 .. Len(postorder) - 1 /\ j >= 2

BuildInv ==
    /\ PostorderInv
    /\ TreeTypeOK
    /\ NotStarted
    /\ MapFilled
    /\ SweepRange

-----------------------------------------------------------------------------

(* t maps the blocks that have an entry to their parents, and the parents *)
(* come later in the order pos: the root is the entry.                    *)
InTree(t) == {b \in Blocks : t[b] # UNDEFINED_IDOM}

IsTree(t, pos) ==
    /\ t \in [Slots -> Slots]
    /\ pos \in [Slots -> Int]
    /\ t[Entry] = Entry
    /\ \A b \in InTree(t) \ {Entry} : t[b] \in InTree(t) /\ pos[b] < pos[t[b]]

(* A strict dominator of b dominates d. *)
DominatorsPass(b, d) ==
    \A a \in Blocks \ {b} : Dominates(cfg, a, b) => Dominates(cfg, a, d)

DominatorsKept == \A b \in Processed : DominatorsPass(b, idoms[b])

(* A sweep has left every block behind it with a parent, and, as long as it *)
(* has changed nothing, with one that is above all its predecessors.  When  *)
(* the sweeps are over that goes for all blocks.                            *)
Behind(k) == Sweeping => i < k

SweptProcessed == \A k \in 1 .. Len(postorder) : Behind(k) => postorder[k] \in Processed

SweptStable ==
    (Sweeping => ~change) =>
        \A k \in 1 .. Len(postorder) - 1 : Behind(k) =>
            \A u \in Preds(cfg, postorder[k]) \cap Processed :
                idoms[postorder[k]] \in Ancestors(u)

(* x is above the processed ones of the first m predecessors of the block. *)
AboveFirst(m, x) ==
    \A k \in 1 .. Len(cfg.preds[Current]) :
        k <= m /\ cfg.preds[Current][k] \in Processed
            => x \in Ancestors(cfg.preds[Current][k])

(* The candidate is the lowest block above the predecessors looked at ... *)
Candidate ==
    AtBlock =>
        /\ new_idom \in Processed
        /\ postorder_map[Current] < postorder_map[new_idom]
        /\ DominatorsPass(Current, new_idom)
        /\ AboveFirst(j - 1, new_idom)
        /\ pc = "preds" =>
              \A x \in Blocks : AboveFirst(j - 1, x) => x \in Ancestors(new_idom)

(* ... and while intersect runs, the other finger climbs from the next one. *)
Second ==
    pc = "intersect" =>
        /\ j <= Len(cfg.preds[Current])
        /\ Pred \in Processed
        /\ b2 \in Ancestors(Pred)
        /\ DominatorsPass(Current, b2)
        /\ \A x \in Blocks : AboveFirst(j, x) => x \in Ancestors(new_idom) \cap Ancestors(b2)

(* What is above all processed predecessors of a block is above it. *)
CommonKept ==
    \A b \in Processed \ {Entry} : \A x \in Blocks :
        (\A u \in Preds(cfg, b) \cap Processed : x \in Ancestors(u))
            => x \in Ancestors(idoms[b])

(* A block's parent is above its first predecessor, unless this sweep is     *)
(* still to come to the block and has passed its parent.                     *)
FirstPredAbove ==
    \A b \in Processed \ {Entry} :
        \/ idoms[b] \in Ancestors(cfg.preds[b][1])
        \/ Sweeping /\ postorder_map[b] < i /\ i <= postorder_map[idoms[b]]

TreeSound ==
    /\ IsTree(idoms, postorder_map)
    /\ Processed \subseteq Reachable(cfg)
    /\ DominatorsKept
    /\ SweptProcessed
    /\ SweptStable
    /\ CommonKept
    /\ FirstPredAbove

TreeInv == TreeSound /\ Candidate /\ Second

FullInv == BuildInv /\ (Started /\ FirstPredsLater => TreeInv)

-----------------------------------------------------------------------------

(* The mark of a block without a parent is not a block. *)
LEMMA UndefinedIsNone == UNDEFINED_IDOM \notin Blocks
BY NBlocksAssumption DEF UNDEFINED_IDOM, Blocks

(* The ancestors of a block are closed under parents and the least such set. *)
LEMMA AncestorsClosed ==
    ASSUME NEW t \in [Slots -> Slots], NEW b \in Blocks
    PROVE  /\ b \in AncestorsIn(t, b)
           /\ AncestorsIn(t, b) \in ParentClosed(t)
<1> DEFINE A == AncestorsIn(t, b)
<1>1. Blocks \in ParentClosed(t)
  BY DEF ParentClosed, Slots
<1>2. b \in A
  BY DEF AncestorsIn
<1>3. ASSUME NEW y \in A, t[y] # UNDEFINED_IDOM
      PROVE  t[y] \in A
  <2>1. \A S \in ParentClosed(t) : b \in S => y \in S
    BY DEF AncestorsIn
  <2>2. \A S \in ParentClosed(t) : b \in S => t[y] \in S
    BY <1>3, <2>1 DEF ParentClosed
  <2>3. t[y] \in Blocks
    BY <1>1, <2>2
  <2> QED
    BY <2>2, <2>3 DEF AncestorsIn
<1>4. A \subseteq Blocks
  BY DEF AncestorsIn
<1>5. A \in ParentClosed(t)
  <2> HIDE DEF A
  <2> QED
    BY <1>3, <1>4 DEF ParentClosed
<1> QED
  BY <1>2, <1>5

LEMMA AncestorsLeast ==
    ASSUME NEW t, NEW b, NEW S \in ParentClosed(t), b \in S
    PROVE  AncestorsIn(t, b) \subseteq S
BY DEF AncestorsIn

LEMMA AncestorsTransitive ==
    ASSUME NEW t \in [Slots -> Slots], NEW b \in Blocks, NEW x \in AncestorsIn(t, b)
    PROVE  x \in Blocks /\ AncestorsIn(t, x) \subseteq AncestorsIn(t, b)
<1>1. x \in Blocks
  BY DEF AncestorsIn
<1> QED
  BY <1>1, AncestorsClosed, AncestorsLeast

(* The ancestors of a block of the tree are in the tree, and all but the *)
(* block itself come later in the order.                                 *)
LEMMA AncestorsLater ==
    ASSUME NEW t, NEW pos, IsTree(t, pos), NEW b \in InTree(t), NEW x \in AncestorsIn(t, b)
    PROVE  x \in InTree(t) /\ (x = b \/ pos[b] < pos[x])
<1> DEFINE S == {y \in InTree(t) : y = b \/ pos[b] < pos[y]}
<1>1. \A y \in S : t[y] \in S
  <2> SUFFICES ASSUME NEW y \in S PROVE t[y] \in S
    OBVIOUS
  <2>1. CASE y = Entry
    BY <2>1 DEF IsTree
  <2>2. CASE y # Entry
    <3>1. t[y] \in InTree(t) /\ pos[y] < pos[t[y]]
      BY <2>2 DEF IsTree
    <3>2. pos[b] \in Int /\ pos[y] \in Int /\ pos[t[y]] \in Int
      BY <3>1 DEF IsTree, InTree, Slots
    <3> QED
      BY <3>1, <3>2
  <2> QED
    BY <2>1, <2>2
<1>2. S \in ParentClosed(t)
  BY <1>1 DEF ParentClosed, InTree
<1>3. x \in S
  BY <1>2, AncestorsLeast
<1> QED
  BY <1>3

(* No block but the entry is its own ancestor at a distance: two blocks are *)
(* not above each other.                                                    *)
LEMMA AncestorsOrdered ==
    ASSUME NEW t, NEW pos, IsTree(t, pos), NEW b \in InTree(t),
           NEW x \in AncestorsIn(t, b), b \in AncestorsIn(t, x)
    PROVE  x = b
<1>1. x \in InTree(t) /\ (x = b \/ pos[b] < pos[x])
  BY AncestorsLater
<1>2. b = x \/ pos[x] < pos[b]
  BY <1>1, AncestorsLater
<1>3. pos[b] \in Int /\ pos[x] \in Int
  BY <1>1 DEF IsTree, InTree, Slots
<1> QED
  BY <1>1, <1>2, <1>3

(* They are the block and the ancestors of its parent. *)
LEMMA AncestorsOfParent ==
    ASSUME NEW t, NEW pos, IsTree(t, pos), NEW b \in InTree(t)
    PROVE  /\ t[b] \in InTree(t)
           /\ t[b] \in AncestorsIn(t, b)
           /\ AncestorsIn(t, b) = {b} \union AncestorsIn(t, t[b])
<1>1. t \in [Slots -> Slots] /\ t[b] # UNDEFINED_IDOM /\ b \in Blocks
  BY DEF IsTree, InTree
<1>2. t[b] \in InTree(t) /\ t[b] \in Blocks
  BY DEF IsTree, InTree
<1>3. b \in AncestorsIn(t, b) /\ AncestorsIn(t, b) \in ParentClosed(t)
  BY <1>1, AncestorsClosed
<1>4. t[b] \in AncestorsIn(t, b)
  BY <1>1, <1>3 DEF ParentClosed
<1>5. AncestorsIn(t, t[b]) \subseteq AncestorsIn(t, b)
  BY <1>1, <1>4, AncestorsTransitive
<1>6. t[b] \in AncestorsIn(t, t[b]) /\ AncestorsIn(t, t[b]) \in ParentClosed(t)
  BY <1>1, <1>2, AncestorsClosed
<1>7. {b} \union AncestorsIn(t, t[b]) \in ParentClosed(t)
  BY <1>1, <1>6 DEF ParentClosed
<1>8. AncestorsIn(t, b) \subseteq {b} \union AncestorsIn(t, t[b])
  BY <1>7, AncestorsLeast
<1> QED
  BY <1>2, <1>3, <1>4, <1>5, <1>8

LEMMA EntryIsRoot ==
    ASSUME NEW t, NEW pos, IsTree(t, pos)
    PROVE  Entry \in InTree(t) /\ AncestorsIn(t, Entry) = {Entry}
<1>1. Entry # UNDEFINED_IDOM
  BY DEF Entry, UNDEFINED_IDOM
<1>2. Entry \in InTree(t)
  BY <1>1, EntryIsBlock DEF IsTree, InTree
<1>3. {Entry} \in ParentClosed(t)
  BY EntryIsBlock DEF ParentClosed, IsTree
<1>4. AncestorsIn(t, Entry) \subseteq {Entry}
  BY <1>3, AncestorsLeast
<1> QED
  BY <1>2, <1>4, AncestorsClosed, EntryIsBlock DEF IsTree

(* A block that is not in the tree has no ancestor but itself. *)
LEMMA AncestorsOutside ==
    ASSUME NEW t \in [Slots -> Slots], NEW b \in Blocks \ InTree(t)
    PROVE  AncestorsIn(t, b) = {b}
<1>1. {b} \in ParentClosed(t)
  BY DEF ParentClosed, InTree
<1>2. AncestorsIn(t, b) \subseteq {b}
  BY <1>1, AncestorsLeast
<1> QED
  BY <1>2, AncestorsClosed

(* Of two ancestors of a block one is above the other: the last block of    *)
(* the order that is below both is one of them.                             *)
LEMMA AncestorsChain ==
    ASSUME NEW t, NEW pos, IsTree(t, pos), NEW b \in InTree(t),
           NEW x \in AncestorsIn(t, b), NEW y \in AncestorsIn(t, b)
    PROVE  x \in AncestorsIn(t, y) \/ y \in AncestorsIn(t, x)
<1> DEFINE Below == {z \in InTree(t) : {x, y} \subseteq AncestorsIn(t, z)}
           T == {pos[z] : z \in Below}
<1>1. x \in InTree(t) /\ y \in InTree(t)
  BY AncestorsLater
<1>2. \A z \in InTree(t) : pos[z] \in Int
  BY DEF IsTree, InTree, Slots
<1>3. b \in Below
  OBVIOUS
<1>4. \A z \in Below : pos[z] <= pos[x]
  BY <1>1, <1>2, AncestorsLater
<1>5. T \in SUBSET Int /\ T # {} /\ \A k \in T : k <= pos[x]
  BY <1>2, <1>3, <1>4
<1>6. PICK m \in T : \A k \in T : k <= m
  <2>1. pos[x] \in Int
    BY <1>1, <1>2
  <2> HIDE DEF T
  <2> QED
    BY <1>5, <2>1, IntMax
<1>7. PICK z \in Below : m = pos[z]
  BY <1>6
<1> SUFFICES ASSUME z # x, z # y PROVE FALSE
  BY <1>7
<1>8. z # Entry
  BY <1>7, EntryIsRoot
<1>9. t[z] \in InTree(t) /\ pos[z] < pos[t[z]]
  BY <1>7, <1>8 DEF IsTree
<1>10. t[z] \in Below
  BY <1>7, <1>9, AncestorsOfParent
<1>11. pos[t[z]] <= pos[z]
  BY <1>6, <1>7, <1>10
<1> QED
  BY <1>2, <1>7, <1>9, <1>11

-----------------------------------------------------------------------------

(* A block a that gets a parent z later in the order leaves a tree ... *)
LEMMA TreeWithParent ==
    ASSUME NEW t, NEW pos, IsTree(t, pos), NEW a \in Blocks \ {Entry},
           NEW z \in InTree(t), pos[a] < pos[z]
    PROVE  LET t2 == [t EXCEPT ![a] = z]
           IN  /\ IsTree(t2, pos)
               /\ InTree(t2) = InTree(t) \union {a}
<1> DEFINE t2 == [t EXCEPT ![a] = z]
<1>1. t \in [Slots -> Slots] /\ a \in Slots /\ z \in Slots /\ Entry \in Slots /\ z # UNDEFINED_IDOM
  BY EntryIsBlock, UndefinedIsNone DEF IsTree, InTree, Slots
<1>2. t2 \in [Slots -> Slots] /\ t2[a] = z /\ \A b \in Slots \ {a} : t2[b] = t[b]
  BY <1>1
<1> HIDE DEF t2
<1>3. \A b \in Blocks : b \in Slots
  BY DEF Slots
<1>4. InTree(t2) = InTree(t) \union {a}
  BY <1>1, <1>2, <1>3 DEF InTree
<1>5. \A b \in InTree(t2) \ {Entry} : t2[b] \in InTree(t2) /\ pos[b] < pos[t2[b]]
  <2> SUFFICES ASSUME NEW b \in InTree(t2) \ {Entry}
               PROVE  t2[b] \in InTree(t) /\ pos[b] < pos[t2[b]]
    BY <1>4
  <2>1. CASE b = a
    BY <1>2, <2>1
  <2>2. CASE b # a
    <3>1. b \in InTree(t) \ {Entry} /\ b \in Slots
      BY <1>3, <1>4, <2>2 DEF InTree
    <3> QED
      BY <1>2, <2>2, <3>1 DEF IsTree
  <2> QED
    BY <2>1, <2>2
<1>6. t2[Entry] = Entry
  BY <1>1, <1>2 DEF IsTree
<1>7. IsTree(t2, pos)
  BY <1>2, <1>5, <1>6 DEF IsTree
<1> QED
  BY <1>4, <1>7 DEF t2

(* ... in which a block that a was not above has its ancestors still, ... *)
LEMMA AncestorsUntouched ==
    ASSUME NEW t \in [Slots -> Slots], NEW a \in Blocks, NEW z \in Blocks,
           NEW b \in Blocks, a \notin AncestorsIn(t, b)
    PROVE  AncestorsIn([t EXCEPT ![a] = z], b) = AncestorsIn(t, b)
<1> DEFINE t2 == [t EXCEPT ![a] = z]
           A == AncestorsIn(t, b)
           A2 == AncestorsIn(t2, b)
<1>1. t2 \in [Slots -> Slots] /\ \A y \in Slots \ {a} : t2[y] = t[y]
  BY DEF Slots
<1> HIDE DEF t2
<1>2. b \in A /\ A \in ParentClosed(t) /\ b \in A2 /\ A2 \in ParentClosed(t2)
  BY <1>1, AncestorsClosed
<1> HIDE DEF A, A2
<1>3. a \notin A
  BY DEF A
<1>4. A \in ParentClosed(t2)
  BY <1>1, <1>2, <1>3 DEF ParentClosed, Slots
<1>5. A2 \subseteq A
  BY <1>2, <1>4, AncestorsLeast DEF A2
<1>6. A2 \in ParentClosed(t)
  BY <1>1, <1>2, <1>3, <1>5 DEF ParentClosed, Slots
<1>7. A \subseteq A2
  BY <1>2, <1>6, AncestorsLeast DEF A
<1> QED
  BY <1>5, <1>7 DEF A, A2, t2

(* ... a block that moves up gains no ancestor, and nor does any other, ... *)
LEMMA AncestorsShrink ==
    ASSUME NEW t \in [Slots -> Slots], NEW a \in Blocks, NEW z \in AncestorsIn(t, a),
           NEW b \in Blocks
    PROVE  AncestorsIn([t EXCEPT ![a] = z], b) \subseteq AncestorsIn(t, b)
<1> DEFINE t2 == [t EXCEPT ![a] = z]
           A == AncestorsIn(t, b)
<1>1. \A y \in Slots : t2[y] = IF y = a THEN z ELSE t[y]
  OBVIOUS
<1> HIDE DEF t2
<1>2. b \in A /\ A \in ParentClosed(t) /\ A \subseteq Slots
  BY AncestorsClosed DEF AncestorsIn, Slots
<1>3. a \in A => z \in A
  BY AncestorsTransitive
<1> HIDE DEF A
<1>4. A \in ParentClosed(t2)
  BY <1>1, <1>2, <1>3 DEF ParentClosed
<1> QED
  BY <1>2, <1>4, AncestorsLeast DEF A, t2

(* ... and those below a stay ancestors of the blocks they were above. *)
LEMMA AncestorsBelow ==
    ASSUME NEW t, NEW pos, IsTree(t, pos), NEW a \in Blocks, NEW z \in Blocks,
           NEW b \in InTree(t), NEW x \in AncestorsIn(t, b), a \in AncestorsIn(t, x)
    PROVE  x \in AncestorsIn([t EXCEPT ![a] = z], b)
<1> DEFINE t2 == [t EXCEPT ![a] = z]
           B == AncestorsIn(t, x)
<1>1. t \in [Slots -> Slots] /\ b \in Blocks
  BY DEF IsTree, InTree
<1>2. \A y \in Slots \ {a} : t2[y] = t[y]
  BY <1>1
<1> HIDE DEF t2
<1>3. x \in InTree(t) /\ x \in Blocks
  BY AncestorsLater DEF InTree
<1>4. a \in B /\ x \in B /\ B \in ParentClosed(t)
  BY <1>1, <1>3, AncestorsClosed
<1>5. \A y \in B : y \in InTree(t) /\ (y = x \/ pos[x] < pos[y])
  BY <1>3, AncestorsLater
<1>6. b \in B => b = x
  BY AncestorsOrdered
<1> HIDE DEF B
<1>7. ASSUME NEW y \in B \ {x} PROVE t[y] \in B \ {x}
  <2>1. y \in InTree(t) /\ pos[x] < pos[y]
    BY <1>5
  <2>2. t[y] \in B
    BY <1>4, <2>1 DEF ParentClosed, InTree
  <2>3. CASE y = Entry
    BY <2>3 DEF IsTree
  <2>4. CASE y # Entry
    <3>1. t[y] \in InTree(t) /\ pos[y] < pos[t[y]]
      BY <2>1, <2>4 DEF IsTree
    <3>2. pos[x] \in Int /\ pos[y] \in Int /\ pos[t[y]] \in Int
      BY <1>3, <2>1, <3>1 DEF IsTree, InTree, Slots
    <3> QED
      BY <2>1, <2>2, <3>1, <3>2
  <2> QED
    BY <2>3, <2>4
<1>8. ASSUME NEW S \in ParentClosed(t2), b \in S PROVE x \in S
  <2> SUFFICES ASSUME x \notin S PROVE FALSE
    OBVIOUS
  <2> DEFINE W == (S \ B) \union (B \ {x})
  <2>1. b \in W
    BY <1>6, <1>8
  <2>2. \A y \in S \ B : t[y] \in W \union {UNDEFINED_IDOM}
    <3> SUFFICES ASSUME NEW y \in S \ B PROVE t[y] \in W \union {UNDEFINED_IDOM}
      OBVIOUS
    <3>1. y \in Slots \ {a} /\ t2[y] \in S \union {UNDEFINED_IDOM}
      BY <1>4, <1>8 DEF ParentClosed, Slots
    <3> QED
      BY <1>2, <3>1
  <2>3. W \subseteq Blocks
    BY <1>4, <1>8 DEF ParentClosed
  <2>4. W \in ParentClosed(t)
    <3>1. \A y \in W : t[y] \in W \union {UNDEFINED_IDOM}
      BY <1>7, <2>2
    <3> HIDE DEF W
    <3> QED
      BY <2>3, <3>1 DEF ParentClosed
  <2>5. x \in W
    BY <2>1, <2>4, AncestorsLeast
  <2> QED
    BY <2>5
<1> QED
  BY <1>3, <1>8 DEF AncestorsIn, t2

-----------------------------------------------------------------------------

(* A traversal cannot list more blocks than there are. *)
LEMMA OrderLength ==
    ASSUME PostorderInv
    PROVE  Len(postorder) \in 0 .. NBlocks
<1> DEFINE len == Len(postorder)
           f == [k \in 1 .. len |-> postorder[k]]
<1>1. postorder \in Seq(Blocks) /\ len \in Nat /\ Injective(postorder)
  BY DEF PostorderInv, PostorderTypeOK, VisitedSplit
<1>2. f \in Injection(1 .. len, Blocks)
  <2>1. f \in [1 .. len -> Blocks]
    BY <1>1
  <2>2. \A m, k \in 1 .. len : f[m] = f[k] => m = k
    BY <1>1 DEF Injective
  <2> HIDE DEF f
  <2> QED
    BY <2>1, <2>2 DEF Injection, IsInjective
<1>3. IsFiniteSet(Blocks) /\ Cardinality(Blocks) = NBlocks /\ Cardinality(1 .. len) = len
  <2>1. NBlocks \in Int /\ NBlocks - 1 \in Int /\ NBlocks >= 2 /\ len \in Int
    BY <1>1, NBlocksAssumption
  <2>2. IsFiniteSet(0 .. NBlocks - 1) /\ Cardinality(0 .. NBlocks - 1) = NBlocks
    BY <2>1, FS_Interval
  <2>3. Cardinality(1 .. len) = len
    BY <1>1, <2>1, FS_Interval, SMTT(30)
  <2> QED
    BY <2>2, <2>3 DEF Blocks
<1> HIDE DEF f
<1>4. Cardinality(1 .. len) <= Cardinality(Blocks)
  BY <1>2, <1>3, FS_Injection
<1> QED
  BY <1>1, <1>3, <1>4, NBlocksAssumption

(* A block that can be reached and is not the entry has a predecessor. *)
LEMMA ReachedFromPred ==
    ASSUME NEW c, WellFormed(c), NEW b \in Reachable(c), b # Entry
    PROVE  /\ b \in Blocks
           /\ c.preds[b] \in Seq(Blocks)
           /\ Len(c.preds[b]) \in Nat \ {0}
<1>1. b \in Blocks
  BY DEF Reachable, ReachableFrom
<1>2. c \in Cfg /\ c.preds[b] \in Seq(Blocks)
  BY <1>1 DEF WellFormed, Cfg
<1> SUFFICES ASSUME Len(c.preds[b]) = 0 PROVE FALSE
  BY <1>1, <1>2
<1>3. \A u \in Blocks : b \notin Succs(c, u)
  BY <1>1 DEF WellFormed, Preds
<1>4. \A u \in Blocks \ {b} : Succs(c, u) \ {NoBlock} \subseteq Blocks \ {b}
  BY <1>2, <1>3, NeighboursAreBlocks
<1>5. Blocks \ {b} \in ClosedSets(c, Entry, NoBlock)
  BY <1>4, EntryIsBlock, NoBlockIsNone DEF ClosedSets
<1> QED
  BY <1>5, EntryIsBlock, NoBlockIsNone, ReachableLeast DEF Reachable

(* The blocks of a sweep: those of the order but the last. *)
LEMMA SweepBlocks ==
    ASSUME PostorderInv, pc # "dfs"
    PROVE  /\ WellFormed(cfg)
           /\ Len(postorder) \in 1 .. NBlocks
           /\ postorder[Len(postorder)] = Entry
           /\ Injective(postorder)
           /\ \A k \in 1 .. Len(postorder) : postorder[k] \in Reachable(cfg)
           /\ \A b \in Reachable(cfg) : \E k \in 1 .. Len(postorder) : postorder[k] = b
           /\ \A k \in 1 .. Len(postorder) - 1 :
                 /\ postorder[k] \in Blocks \ {Entry}
                 /\ cfg.preds[postorder[k]] \in Seq(Blocks)
                 /\ Len(cfg.preds[postorder[k]]) \in Nat \ {0}
<1>1. /\ WellFormed(cfg) /\ Injective(postorder)
      /\ Len(postorder) \in Nat \ {0} /\ postorder[Len(postorder)] = Entry
  BY DEF PostorderInv, PostorderTypeOK, VisitedSplit, Phase
<1>2. Len(postorder) \in 1 .. NBlocks
  BY <1>1, OrderLength, NBlocksAssumption
<1>3. Pushed = Reachable(cfg)
  BY PushedIsReachable
<1>4. \A k \in 1 .. Len(postorder) : postorder[k] \in Reachable(cfg)
  BY <1>3 DEF Pushed
<1>5. \A b \in Reachable(cfg) : \E k \in 1 .. Len(postorder) : postorder[k] = b
  BY <1>3 DEF Pushed
<1>6. \A k \in 1 .. Len(postorder) - 1 : postorder[k] # Entry /\ k \in 1 .. Len(postorder)
  BY <1>1 DEF Injective
<1> QED
  BY <1>1, <1>2, <1>4, <1>5, <1>6, ReachedFromPred

-----------------------------------------------------------------------------

(* The invariant of every graph holds at the start ... *)
LEMMA TreeInit_Build == TreeInit => BuildInv
<1> SUFFICES ASSUME TreeInit PROVE BuildInv
  OBVIOUS
<1> USE DEF TreeInit
<1>1. PostorderInv /\ pc = "dfs"
  BY PostorderInit_Inv DEF PostorderInit
<1>2. 0 \in Slots /\ UNDEFINED_IDOM \in Slots /\ WordBefore \in Slots /\ WordBefore \in Int
  BY EntryIsBlock DEF Entry, Slots, WordBefore
<1>3. idoms \in [Slots -> Slots] /\ postorder_map \in [Slots -> Int]
  BY <1>2
<1>4. i \in 0 .. NBlocks - 1 /\ j \in Nat
  BY NBlocksAssumption
<1>5. TreeTypeOK
  BY <1>1, <1>2, <1>3, <1>4 DEF TreeTypeOK, PostorderInv
<1>6. Processed = {}
  BY DEF Processed, Slots
<1> QED
  BY <1>1, <1>5, <1>6 DEF BuildInv, NotStarted, MapFilled, Started, SweepRange, AtBlock

(* ... and is kept by the traversal, ... *)
LEMMA Traverse_Build == BuildInv /\ Traverse => BuildInv'
<1> SUFFICES ASSUME BuildInv, Traverse PROVE BuildInv'
  OBVIOUS
<1>1. PostorderInv'
  BY PostorderNext_Inv DEF BuildInv, Traverse
<1>2. pc \in {"dfs", "ordered"} /\ pc' \in {"dfs", "ordered"}
  BY DEF Traverse, PostorderNext, Descend, SkipChild, Return, Finish, HasChild
<1>3. UNCHANGED <<idoms, postorder_map, change, i, j, new_idom, b2>>
  BY DEF Traverse, treeVars
<1>4. TreeTypeOK'
  BY <1>1, <1>3 DEF BuildInv, TreeTypeOK, PostorderInv
<1>5. NotStarted'
  BY <1>2, <1>3 DEF BuildInv, NotStarted, Started, Processed
<1> QED
  BY <1>1, <1>2, <1>4, <1>5 DEF BuildInv, MapFilled, Started, SweepRange, AtBlock

(* ... by the start of the sweeps, ... *)
LEMMA StartSweeps_Build == BuildInv /\ StartSweeps => BuildInv'
<1> SUFFICES ASSUME BuildInv, StartSweeps PROVE BuildInv'
  OBVIOUS
<1>1. /\ pc = "ordered" /\ pc' = "block" /\ i' = Len(postorder) - 1 /\ change' = FALSE
      /\ idoms' = [idoms EXCEPT ![Entry] = Entry]
      /\ UNCHANGED <<cfg, visited, postorder, path, cursor, j, new_idom, b2>>
  BY DEF StartSweeps, SweepStart
<1>2. PostorderInv /\ PostorderInv'
  BY <1>1, PostorderFrame_Inv DEF BuildInv
<1>3. PICK junk \in [Blocks -> Junk] : postorder_map' = MapOf(postorder, junk)
  BY DEF StartSweeps
<1>4. /\ Len(postorder) \in 1 .. NBlocks /\ Injective(postorder)
      /\ postorder \in Seq(Blocks)
  BY <1>1, <1>2, SweepBlocks DEF PostorderInv, PostorderTypeOK
<1>5. postorder_map' \in [Slots -> Int]
  <2> SUFFICES ASSUME NEW b \in Slots PROVE MapOf(postorder, junk)[b] \in Int
    BY <1>3 DEF MapOf
  <2>1. CASE b \in Blocks /\ \E k \in 1 .. Len(postorder) : postorder[k] = b
    <3>1. MapOf(postorder, junk)[b] = (CHOOSE k \in 1 .. Len(postorder) : postorder[k] = b) - 1
      BY <2>1 DEF MapOf
    <3>2. (CHOOSE k \in 1 .. Len(postorder) : postorder[k] = b) \in 1 .. Len(postorder)
      BY <2>1
    <3> QED
      BY <3>1, <3>2
  <2>2. CASE b \in Blocks /\ ~\E k \in 1 .. Len(postorder) : postorder[k] = b
    <3>1. MapOf(postorder, junk)[b] = junk[b]
      BY <2>2 DEF MapOf
    <3> QED
      BY <2>2, <3>1, JunkAssumption
  <2>3. CASE b \notin Blocks
    <3>1. MapOf(postorder, junk)[b] = WordBefore
      BY <2>3 DEF MapOf
    <3> QED
      BY <3>1 DEF WordBefore
  <2> QED
    BY <2>1, <2>2, <2>3
<1>6. \A k \in 1 .. Len(postorder) : postorder_map'[postorder[k]] = k - 1
  <2> SUFFICES ASSUME NEW k \in 1 .. Len(postorder)
               PROVE  MapOf(postorder, junk)[postorder[k]] = k - 1
    BY <1>3
  <2>1. postorder[k] \in Blocks /\ postorder[k] \in Slots
    BY <1>4 DEF Slots
  <2>2. (CHOOSE m \in 1 .. Len(postorder) : postorder[m] = postorder[k]) = k
    BY <1>4 DEF Injective
  <2> QED
    BY <2>1, <2>2 DEF MapOf
<1>7. TreeTypeOK'
  <2>1. i' \in 0 .. NBlocks - 1
    BY <1>1, <1>4, NBlocksAssumption
  <2>2. idoms' \in [Slots -> Slots]
    BY <1>1, EntryIsBlock DEF BuildInv, TreeTypeOK, Slots
  <2> QED
    BY <1>1, <1>2, <1>5, <2>1, <2>2 DEF BuildInv, TreeTypeOK, PostorderInv
<1> QED
  BY <1>1, <1>2, <1>6, <1>7 DEF BuildInv, NotStarted, MapFilled, Started, SweepRange, AtBlock

(* ... and by every step of the sweeps: what they leave alone first. *)
LEMMA Sweep_Build ==
    ASSUME BuildInv, Started, Started', pc' # "dfs",
           UNCHANGED <<cfg, visited, postorder, path, cursor, postorder_map>>,
           idoms' \in [Slots -> Slots], change' \in BOOLEAN, {new_idom', b2'} \subseteq Slots,
           j' \in Nat, i' \in 0 .. Len(postorder) - 1,
           pc' \in {"preds", "intersect"} => i' >= 1 /\ j' >= 2
    PROVE  BuildInv'
<1>1. PostorderInv /\ PostorderInv'
  BY PostorderFrame_Inv DEF BuildInv, Started
<1>2. Len(postorder) \in 1 .. NBlocks
  BY <1>1, SweepBlocks DEF Started
<1>3. i' \in 0 .. NBlocks - 1
  BY <1>2, NBlocksAssumption
<1>4. TreeTypeOK'
  BY <1>1, <1>3 DEF BuildInv, TreeTypeOK, PostorderInv
<1>5. MapFilled'
  BY DEF BuildInv, MapFilled
<1>6. SweepRange'
  BY <1>2 DEF SweepRange, AtBlock
<1> QED
  BY <1>1, <1>4, <1>5, <1>6 DEF BuildInv, NotStarted

(* Where a sweep is: the block and its first predecessor. *)
LEMMA SweepPlace ==
    ASSUME BuildInv, Started
    PROVE  /\ pc # "dfs" /\ PostorderInv
           /\ idoms \in [Slots -> Slots] /\ change \in BOOLEAN /\ {new_idom, b2} \subseteq Slots
           /\ j \in Nat
           /\ Len(postorder) \in Nat \ {0}
           /\ i \in Nat
           /\ pc = "block" => i \in 0 .. Len(postorder) - 1
           /\ AtBlock => i \in 0 .. Len(postorder) - 1
           /\ Placed =>
                 /\ i \in 1 .. Len(postorder) - 1
                 /\ Current \in Blocks \ {Entry}
                 /\ cfg.preds[Current] \in Seq(Blocks)
                 /\ Len(cfg.preds[Current]) \in Nat \ {0}
                 /\ cfg.preds[Current][1] \in Blocks
<1>1. pc # "dfs" /\ PostorderInv
  BY DEF Started, BuildInv
<1>2. /\ idoms \in [Slots -> Slots] /\ change \in BOOLEAN /\ {new_idom, b2} \subseteq Slots
      /\ i \in Nat /\ j \in Nat
  BY NBlocksAssumption DEF BuildInv, TreeTypeOK
<1>3. Len(postorder) \in Nat \ {0}
  BY <1>1, SweepBlocks
<1>4. /\ pc = "block" => i \in 0 .. Len(postorder) - 1
      /\ AtBlock => i \in 1 .. Len(postorder) - 1
  BY <1>2, <1>3 DEF BuildInv, SweepRange
<1>5. ASSUME Placed
      PROVE  /\ i \in 1 .. Len(postorder) - 1
             /\ Current \in Blocks \ {Entry}
             /\ cfg.preds[Current] \in Seq(Blocks)
             /\ Len(cfg.preds[Current]) \in Nat \ {0}
             /\ cfg.preds[Current][1] \in Blocks
  <2>1. i \in 1 .. Len(postorder) - 1
    BY <1>3, <1>4, <1>5 DEF Placed
  <2>2. /\ Current \in Blocks \ {Entry}
        /\ cfg.preds[Current] \in Seq(Blocks)
        /\ Len(cfg.preds[Current]) \in Nat \ {0}
    BY <1>1, <2>1, SweepBlocks DEF Current
  <2> QED
    BY <2>1, <2>2
<1> QED
  BY <1>1, <1>2, <1>3, <1>4, <1>5

(* Every step of build keeps it. *)
LEMMA BuildNext_Build == BuildInv /\ BuildNext => BuildInv'
<1> SUFFICES ASSUME BuildInv, BuildNext PROVE BuildInv'
  OBVIOUS
<1> USE DEF dfsVars, postorderVars, Started, AtBlock, Placed
<1>1. CASE Traverse
  BY <1>1, Traverse_Build
<1>2. CASE StartSweeps
  BY <1>2, StartSweeps_Build
<1>3. CASE BeginBlock
  BY <1>3, SweepPlace, Sweep_Build DEF BeginBlock, FirstCandidate, Slots
<1>4. CASE SkipPred
  BY <1>4, SweepPlace, Sweep_Build DEF SkipPred, MorePreds, BuildInv, SweepRange
<1>5. CASE CallIntersect
  <2>0. pc = "preds" /\ pc' = "intersect" /\ j <= Len(cfg.preds[Current]) /\ i' = i /\ j' = j
    BY <1>5 DEF CallIntersect, MorePreds
  <2>1. /\ j \in 1 .. Len(cfg.preds[Current]) /\ j >= 2
        /\ cfg.preds[Current] \in Seq(Blocks)
        /\ i \in 1 .. Len(postorder) - 1
    BY <2>0, SweepPlace DEF BuildInv, SweepRange
  <2>2. b2' \in Slots
    BY <1>5, <2>1 DEF CallIntersect, Pred, Slots
  <2>3. i' \in 0 .. Len(postorder) - 1 /\ i' >= 1
    BY <2>0, <2>1
  <2> QED
    BY <1>5, <2>0, <2>1, <2>2, <2>3, SweepPlace, Sweep_Build DEF CallIntersect
<1>6. CASE ClimbFirst
  BY <1>6, SweepPlace, Sweep_Build DEF ClimbFirst, BuildInv, SweepRange
<1>7. CASE ClimbSecond
  BY <1>7, SweepPlace, Sweep_Build DEF ClimbSecond, BuildInv, SweepRange
<1>8. CASE EndIntersect
  BY <1>8, SweepPlace, Sweep_Build DEF EndIntersect, BuildInv, SweepRange
<1>9. CASE EndBlock
  <2>1. pc = "preds" /\ pc' = "block" /\ i' = i - 1
    BY <1>9 DEF EndBlock, NextPosition
  <2>2. idoms' \in [Slots -> Slots]
    BY <1>9, <2>1, SweepPlace DEF EndBlock
  <2>3. change' \in BOOLEAN
    BY <1>9, <2>1, SweepPlace DEF EndBlock
  <2>4. i \in 1 .. Len(postorder) - 1
    BY <2>1 DEF BuildInv, SweepRange
  <2>5. i' \in 0 .. Len(postorder) - 1
    BY <2>1, <2>4, SweepPlace
  <2> QED
    BY <1>9, <2>1, <2>2, <2>3, <2>5, SweepPlace, Sweep_Build DEF EndBlock
<1>10. CASE SweepAgain
  <2>1. Len(postorder) \in Nat \ {0}
    BY <1>10, SweepPlace DEF SweepAgain
  <2>2. i' \in 0 .. Len(postorder) - 1
    BY <1>10, <2>1 DEF SweepAgain, SweepStart
  <2> QED
    BY <1>10, <2>2, SweepPlace, Sweep_Build DEF SweepAgain, FreshChange
<1>11. CASE EndBuild
  BY <1>11, SweepPlace, Sweep_Build DEF EndBuild, treeVars
<1> QED
  BY <1>1, <1>2, <1>3, <1>4, <1>5, <1>6, <1>7, <1>8, <1>9, <1>10, <1>11 DEF BuildNext

(* The passes that use the tree leave all of this alone. *)
LEMMA Frame_Build ==
    ASSUME BuildInv, UNCHANGED <<cfg, visited, postorder, path, cursor, treeVars>>,
           \/ UNCHANGED pc
           \/ Started /\ ~Sweeping /\ Started' /\ ~Sweeping'
    PROVE  BuildInv'
<1> USE DEF treeVars, Started, Sweeping
<1>1. PostorderInv'
  BY PostorderFrame_Inv DEF BuildInv
<1>2. TreeTypeOK'
  BY <1>1 DEF BuildInv, TreeTypeOK, PostorderInv
<1> QED
  BY <1>1, <1>2 DEF BuildInv, NotStarted, Processed, MapFilled, SweepRange, AtBlock

-----------------------------------------------------------------------------

(* The map gives every block that can be reached its place in the order. *)
LEMMA Positions ==
    ASSUME BuildInv, Started
    PROVE  /\ \A b \in Reachable(cfg) : /\ postorder_map[b] \in 0 .. Len(postorder) - 1
                                        /\ postorder[postorder_map[b] + 1] = b
           /\ Entry \in Reachable(cfg)
           /\ postorder_map[Entry] = Len(postorder) - 1
           /\ Placed =>
                 postorder_map[Current] = i - 1 /\ Current \in Reachable(cfg)
<1>1. pc # "dfs" /\ PostorderInv
  BY SweepPlace
<1>2. /\ Len(postorder) \in Nat \ {0}
      /\ postorder[Len(postorder)] = Entry
      /\ \A k \in 1 .. Len(postorder) : postorder[k] \in Reachable(cfg)
      /\ \A b \in Reachable(cfg) : \E k \in 1 .. Len(postorder) : postorder[k] = b
  BY <1>1, SweepBlocks
<1>3. \A k \in 1 .. Len(postorder) : postorder_map[postorder[k]] = k - 1
  BY DEF BuildInv, MapFilled
<1>4. ASSUME NEW b \in Reachable(cfg)
      PROVE  /\ postorder_map[b] \in 0 .. Len(postorder) - 1
             /\ postorder[postorder_map[b] + 1] = b
  <2>1. PICK k \in 1 .. Len(postorder) : postorder[k] = b
    BY <1>2
  <2>2. postorder_map[b] = k - 1 /\ (k - 1) + 1 = k
    BY <1>3, <2>1
  <2> QED
    BY <1>2, <2>1, <2>2
<1>5. Entry \in Reachable(cfg) /\ postorder_map[Entry] = Len(postorder) - 1
  BY <1>2, <1>3
<1>6. ASSUME Placed
      PROVE  postorder_map[Current] = i - 1 /\ Current \in Reachable(cfg)
  <2>1. i \in 1 .. Len(postorder)
    BY <1>2, <1>6, SweepPlace
  <2> QED
    BY <1>2, <1>3, <2>1 DEF Current
<1> QED
  BY <1>4, <1>5, <1>6

(* The dominators of a block of the tree are above it: the last block of   *)
(* the order that is above it and that the dominator dominates is the      *)
(* dominator.                                                              *)
LEMMA DominatorsAbove ==
    ASSUME BuildInv, Started, TreeSound, NEW b \in Processed, NEW d \in Blocks,
           Dominates(cfg, d, b)
    PROVE  d \in Ancestors(b)
<1> DEFINE Dominated == {y \in Ancestors(b) : Dominates(cfg, d, y)}
           T == {postorder_map[y] : y \in Dominated}
<1>1. IsTree(idoms, postorder_map) /\ InTree(idoms) = Processed /\ b \in Blocks
  BY DEF TreeSound, InTree, Processed
<1>2. idoms \in [Slots -> Slots]
  BY <1>1 DEF IsTree
<1>3. Ancestors(b) \subseteq Processed
  BY <1>1, AncestorsLater DEF Ancestors
<1>4. \A y \in Processed : postorder_map[y] \in 0 .. Len(postorder) - 1
  BY Positions DEF TreeSound
<1>5. b \in Dominated
  BY <1>1, <1>2, AncestorsClosed DEF Ancestors
<1>6. Len(postorder) - 1 \in Int
  BY SweepPlace
<1>7. T \in SUBSET Int /\ T # {} /\ \A k \in T : k <= Len(postorder) - 1
  BY <1>3, <1>4, <1>5, <1>6
<1>8. PICK m \in T : \A k \in T : k <= m
  <2> HIDE DEF T
  <2> QED
    BY <1>6, <1>7, IntMax
<1>9. PICK z \in Dominated : m = postorder_map[z]
  BY <1>8
<1>10. z \in Processed
  BY <1>3, <1>9
<1> SUFFICES ASSUME z # d PROVE FALSE
  BY <1>9
<1>11. z # Entry
  BY <1>9, EntryDominators
<1>12. idoms[z] \in Processed /\ postorder_map[z] < postorder_map[idoms[z]]
  BY <1>1, <1>10, <1>11 DEF IsTree
<1>13. Dominates(cfg, d, idoms[z])
  BY <1>9, <1>10 DEF TreeSound, DominatorsKept, DominatorsPass
<1>14. idoms[z] \in Ancestors(z)
  BY <1>1, <1>10, AncestorsOfParent DEF Ancestors
<1>15. idoms[z] \in Ancestors(b)
  BY <1>1, <1>2, <1>9, <1>14, AncestorsTransitive DEF Ancestors
<1>16. postorder_map[idoms[z]] <= postorder_map[z]
  BY <1>8, <1>9, <1>13, <1>15
<1> QED
  BY <1>4, <1>10, <1>12, <1>16

-----------------------------------------------------------------------------

(* The first step of build makes the entry the tree. *)
LEMMA StartSweeps_Tree == BuildInv /\ StartSweeps => TreeInv'
<1> SUFFICES ASSUME BuildInv, StartSweeps PROVE TreeInv'
  OBVIOUS
<1>1. BuildInv'
  BY StartSweeps_Build
<1>2. /\ pc = "ordered" /\ pc' = "block" /\ i' = Len(postorder) - 1
      /\ idoms' = [idoms EXCEPT ![Entry] = Entry]
      /\ cfg' = cfg /\ postorder' = postorder
  BY DEF StartSweeps, SweepStart
<1>3. idoms \in [Slots -> Slots] /\ \A b \in Blocks : idoms[b] = UNDEFINED_IDOM
  BY <1>2 DEF BuildInv, TreeTypeOK, NotStarted, Started, Processed
<1>4. Entry \in Slots /\ Entry # UNDEFINED_IDOM
  BY EntryIsBlock, UndefinedIsNone DEF Slots
<1>5. InTree(idoms') = {Entry} /\ Processed' = {Entry} /\ idoms'[Entry] = Entry
  BY <1>2, <1>3, <1>4, EntryIsBlock DEF InTree, Processed, Slots
<1>6. IsTree(idoms', postorder_map')
  BY <1>1, <1>5 DEF IsTree, BuildInv, TreeTypeOK
<1>7. /\ Len(postorder) \in Nat \ {0} /\ postorder[Len(postorder)] = Entry
      /\ Entry \in Reachable(cfg)
  BY <1>2, SweepBlocks, EntryIsBlock, NoBlockIsNone, ReachableStart DEF BuildInv, Reachable
<1>8. DominatorsKept'
  BY <1>2, <1>5, EntryDominators DEF DominatorsKept, DominatorsPass
<1>9. SweptProcessed' /\ SweptStable'
  BY <1>2, <1>5, <1>7 DEF SweptProcessed, SweptStable, Behind, Sweeping
<1> QED
  BY <1>2, <1>5, <1>6, <1>7, <1>8, <1>9
  DEF TreeInv, TreeSound, CommonKept, FirstPredAbove, Candidate, Second, AtBlock

(* While a block is looked at the tree stays as it is. *)
LEMMA WithinBlock_Tree ==
    ASSUME TreeSound, Sweeping, Sweeping',
           UNCHANGED <<cfg, postorder, idoms, postorder_map, i, change>>
    PROVE  TreeSound'
<1>1. Processed' = Processed /\ \A b : Ancestors(b)' = Ancestors(b)
  BY DEF Processed, Ancestors
<1>2. \A k : Behind(k)' <=> Behind(k)
  BY DEF Behind
<1>3. SweptProcessed' /\ SweptStable'
  BY <1>1, <1>2 DEF TreeSound, SweptProcessed, SweptStable
<1>4. CommonKept' /\ FirstPredAbove'
  BY <1>1 DEF TreeSound, CommonKept, FirstPredAbove
<1>5. DominatorsKept'
  BY <1>1 DEF TreeSound, DominatorsKept, DominatorsPass
<1> QED
  BY <1>1, <1>3, <1>4, <1>5 DEF TreeSound

(* The first predecessor of a block comes later in the order, so a sweep *)
(* that has come to the block has left it in the tree.                   *)
LEMMA FirstPredLater ==
    ASSUME BuildInv, Started, FirstPredsLater, NEW b \in Reachable(cfg), b # Entry
    PROVE  /\ cfg.preds[b][1] \in Preds(cfg, b) \cap Reachable(cfg)
           /\ postorder_map[b] < postorder_map[cfg.preds[b][1]]
<1>1. pc # "dfs" /\ PostorderInv /\ WellFormed(cfg)
  BY SweepPlace DEF PostorderInv, PostorderTypeOK
<1>2. /\ Len(postorder) \in Nat \ {0}
      /\ \A k \in 1 .. Len(postorder) : postorder[k] \in Reachable(cfg)
  BY <1>1, SweepBlocks
<1>3. /\ postorder_map[b] \in 0 .. Len(postorder) - 1
      /\ postorder[postorder_map[b] + 1] = b
      /\ postorder[Len(postorder)] = Entry
  BY <1>1, Positions, SweepBlocks
<1>4. postorder_map[b] + 1 \in 1 .. Len(postorder) - 1
  <2>1. postorder_map[b] + 1 # Len(postorder)
    BY <1>3
  <2> QED
    BY <1>2, <1>3, <2>1
<1>5. PICK m \in postorder_map[b] + 2 .. Len(postorder) : postorder[m] = cfg.preds[b][1]
  <2>1. (postorder_map[b] + 1) + 1 = postorder_map[b] + 2
    BY <1>3
  <2> QED
    BY <1>3, <1>4, <2>1 DEF FirstPredsLater
<1>6. m \in 1 .. Len(postorder) /\ m - 1 > postorder_map[b]
  BY <1>2, <1>3, <1>5
<1>7. postorder_map[postorder[m]] = m - 1
  BY <1>6 DEF BuildInv, MapFilled
<1>8. cfg.preds[b][1] \in Preds(cfg, b)
  BY <1>1, ReachedFromPred DEF Preds
<1> QED
  BY <1>2, <1>5, <1>6, <1>7, <1>8

LEMMA FirstPredSwept ==
    ASSUME BuildInv, TreeSound, FirstPredsLater, Sweeping, Placed
    PROVE  /\ cfg.preds[Current][1] \in Preds(cfg, Current) \cap Processed
           /\ postorder_map[Current] < postorder_map[cfg.preds[Current][1]]
<1> DEFINE f == cfg.preds[Current][1]
<1>1. Started
  BY DEF Started, Sweeping
<1>2. /\ Current \in Reachable(cfg) /\ Current # Entry /\ postorder_map[Current] = i - 1
      /\ i \in Nat /\ Len(postorder) \in Nat
  BY <1>1, Positions, SweepPlace
<1>3. f \in Preds(cfg, Current) \cap Reachable(cfg) /\ postorder_map[Current] < postorder_map[f]
  BY <1>1, <1>2, FirstPredLater
<1>4. postorder_map[f] \in 0 .. Len(postorder) - 1 /\ postorder[postorder_map[f] + 1] = f
  BY <1>1, <1>3, Positions
<1>5. postorder_map[f] + 1 \in 1 .. Len(postorder) /\ i < postorder_map[f] + 1
  BY <1>2, <1>3, <1>4
<1>6. f \in Processed
  BY <1>4, <1>5 DEF TreeSound, SweptProcessed, Behind
<1> QED
  BY <1>3, <1>6

(* The predecessors of the block of the sweep that are in the tree pass on *)
(* its dominators.                                                         *)
LEMMA PredsPass ==
    ASSUME BuildInv, Started, TreeSound, Placed,
           NEW u \in Preds(cfg, Current), u \in Processed
    PROVE  DominatorsPass(Current, u)
<1>1. WellFormed(cfg) /\ Current \in Blocks
  BY SweepPlace DEF BuildInv, PostorderInv, PostorderTypeOK
<1>2. u \in Reachable(cfg)
  BY DEF TreeSound
<1> QED
  BY <1>1, <1>2, DominatesPreds DEF DominatorsPass

LEMMA BeginBlock_Tree ==
    BuildInv /\ TreeInv /\ FirstPredsLater /\ BeginBlock => TreeInv'
<1> SUFFICES ASSUME BuildInv, TreeInv, FirstPredsLater, BeginBlock PROVE TreeInv'
  OBVIOUS
<1> DEFINE f == cfg.preds[Current][1]
<1>1. /\ pc = "block" /\ i >= 1 /\ pc' = "preds" /\ j' = 2 /\ new_idom' = f
      /\ UNCHANGED <<cfg, postorder, idoms, postorder_map, i, change>>
  BY DEF BeginBlock, FirstCandidate
<1>2. Started /\ Sweeping /\ Sweeping' /\ TreeSound /\ Placed
  BY <1>1 DEF Started, Sweeping, TreeInv, Placed
<1>3. TreeSound'
  BY <1>1, <1>2, WithinBlock_Tree
<1>5. f \in Preds(cfg, Current) /\ postorder_map[Current] < postorder_map[f]
  BY <1>1, <1>2, FirstPredSwept
<1>7. f \in Processed
  BY <1>1, <1>2, FirstPredSwept
<1>8. DominatorsPass(Current, f)
  BY <1>1, <1>2, <1>5, <1>7, PredsPass
<1>9. f \in Ancestors(f)
  BY <1>2, <1>7, AncestorsClosed DEF Ancestors, TreeSound, IsTree, Processed
<1>10. Processed' = Processed /\ Current' = Current
  BY <1>1 DEF Processed, Current
<1>11. \A x : Ancestors(x)' = Ancestors(x)
  BY <1>1 DEF Ancestors
<1>12. 1 \in 1 .. Len(cfg.preds[Current])
  BY <1>1, SweepPlace, <1>2
<1> HIDE DEF f
<1>13. (DominatorsPass(Current, new_idom))'
  BY <1>1, <1>8, <1>10 DEF DominatorsPass
<1>14. (AboveFirst(j - 1, new_idom))'
  BY <1>1, <1>9, <1>10, <1>11, <1>12 DEF AboveFirst, f
<1>15. ASSUME NEW x \in Blocks, (AboveFirst(j - 1, x))' PROVE x \in Ancestors(f)
  BY <1>1, <1>7, <1>10, <1>11, <1>12, <1>15 DEF AboveFirst, f
<1>16. Candidate'
  BY <1>1, <1>5, <1>7, <1>10, <1>11, <1>13, <1>14, <1>15 DEF Candidate
<1>17. Second'
  BY <1>1 DEF Second
<1> QED
  BY <1>3, <1>16, <1>17 DEF TreeInv

(* What a step that leaves the tree and the place of the sweep alone says *)
(* about the block means the same before and after it.                    *)
LEMMA SameBlock ==
    ASSUME UNCHANGED <<cfg, postorder, idoms, i>>
    PROVE  /\ Processed' = Processed /\ Current' = Current
           /\ \A x : Ancestors(x)' = Ancestors(x)
           /\ \A x, y : DominatorsPass(x, y)' <=> DominatorsPass(x, y)
           /\ \A m, x : AboveFirst(m, x)' <=> AboveFirst(m, x)
<1>1. Processed' = Processed /\ Current' = Current /\ \A x : Ancestors(x)' = Ancestors(x)
  BY DEF Processed, Current, Ancestors
<1>2. \A x, y : DominatorsPass(x, y)' <=> DominatorsPass(x, y)
  BY DEF DominatorsPass
<1>3. \A m, x : AboveFirst(m, x)' <=> AboveFirst(m, x)
  BY <1>1 DEF AboveFirst
<1> QED
  BY <1>1, <1>2, <1>3

LEMMA SkipPred_Tree == BuildInv /\ TreeInv /\ SkipPred => TreeInv'
<1> SUFFICES ASSUME BuildInv, TreeInv, SkipPred PROVE TreeInv'
  OBVIOUS
<1>1. /\ pc = "preds" /\ pc' = "preds" /\ idoms[Pred] = UNDEFINED_IDOM /\ j' = j + 1
      /\ j <= Len(cfg.preds[Current])
      /\ UNCHANGED <<cfg, postorder, idoms, postorder_map, i, change, new_idom>>
  BY DEF SkipPred, MorePreds, postorderVars
<1>2. Started /\ Sweeping /\ Sweeping' /\ TreeSound /\ j \in Nat
  BY <1>1, SweepPlace DEF Started, Sweeping, TreeInv
<1>3. TreeSound'
  BY <1>1, <1>2, WithinBlock_Tree
<1>4. Processed' = Processed /\ Current' = Current /\ \A x : Ancestors(x)' = Ancestors(x)
  BY <1>1, SameBlock
<1>5. Pred \notin Processed
  BY <1>1 DEF Processed
<1>6. \A x : (AboveFirst(j - 1, x))' <=> AboveFirst(j - 1, x)
  <2> SUFFICES ASSUME NEW x PROVE (AboveFirst(j - 1, x))' <=> AboveFirst(j - 1, x)
    OBVIOUS
  <2>1. \A k \in 1 .. Len(cfg.preds[Current]) : k <= j' - 1 <=> k <= j - 1 \/ k = j
    BY <1>1, <1>2
  <2> QED
    BY <1>1, <1>4, <1>5, <2>1 DEF AboveFirst, Pred
<1>7. (DominatorsPass(Current, new_idom))' <=> DominatorsPass(Current, new_idom)
  BY <1>1, SameBlock
<1>8. Candidate'
  BY <1>1, <1>4, <1>6, <1>7 DEF TreeInv, Candidate, AtBlock
<1>9. Second'
  BY <1>1 DEF Second
<1> QED
  BY <1>3, <1>8, <1>9 DEF TreeInv

LEMMA CallIntersect_Tree == BuildInv /\ TreeInv /\ CallIntersect => TreeInv'
<1> SUFFICES ASSUME BuildInv, TreeInv, CallIntersect PROVE TreeInv'
  OBVIOUS
<1>1. /\ pc = "preds" /\ pc' = "intersect" /\ idoms[Pred] # UNDEFINED_IDOM /\ b2' = Pred
      /\ j <= Len(cfg.preds[Current])
      /\ UNCHANGED <<cfg, postorder, idoms, postorder_map, i, change, j, new_idom>>
  BY DEF CallIntersect, MorePreds
<1>2. Started /\ Sweeping /\ Sweeping' /\ TreeSound /\ AtBlock /\ Placed
  BY <1>1 DEF Started, Sweeping, TreeInv, AtBlock, Placed
<1>3. TreeSound'
  BY <1>1, <1>2, WithinBlock_Tree
<1>4. j \in 1 .. Len(cfg.preds[Current]) /\ cfg.preds[Current] \in Seq(Blocks)
  BY <1>1, <1>2, SweepPlace DEF BuildInv, SweepRange
<1>5. Pred \in Processed /\ Pred \in Preds(cfg, Current)
  BY <1>1, <1>4 DEF Pred, Preds, Processed
<1>6. DominatorsPass(Current, Pred)
  BY <1>2, <1>5, PredsPass
<1>7. Pred \in Ancestors(Pred)
  BY <1>2, <1>5, AncestorsClosed DEF Ancestors, TreeSound, IsTree, Processed
<1>8. Candidate'
  BY <1>1, <1>2, SameBlock DEF TreeInv, Candidate, AtBlock
<1>9. ASSUME NEW x \in Blocks, AboveFirst(j, x)
      PROVE  x \in Ancestors(new_idom) \cap Ancestors(Pred)
  <2>1. \A k \in 1 .. Len(cfg.preds[Current]) : k <= j - 1 => k <= j
    BY <1>4
  <2>2. AboveFirst(j - 1, x)
    BY <1>9, <2>1 DEF AboveFirst
  <2>3. x \in Ancestors(Pred)
    BY <1>4, <1>5, <1>9 DEF AboveFirst, Pred
  <2> QED
    BY <1>1, <1>2, <2>2, <2>3 DEF TreeInv, Candidate
<1>10. Pred' = Pred
  BY <1>1 DEF Pred, Current
<1>11. Second'
  BY <1>1, <1>5, <1>6, <1>7, <1>9, <1>10, SameBlock DEF Second
<1> QED
  BY <1>3, <1>8, <1>11 DEF TreeInv

(* Where the fingers of intersect are: on two blocks of the tree, each above *)
(* one of the predecessors.  The one that is earlier in the order is no      *)
(* dominator of the block and no common ancestor of its predecessors, or it  *)
(* would be above the other one.                                             *)
LEMMA Fingers ==
    ASSUME BuildInv, TreeInv, pc = "intersect", new_idom # b2
    PROVE  /\ {new_idom, b2} \subseteq Processed
           /\ {new_idom, b2} \subseteq Blocks
           /\ FirstClimbs(new_idom, b2) =>
                 new_idom # Entry /\ new_idom \notin Ancestors(b2)
           /\ ~FirstClimbs(new_idom, b2) =>
                 b2 # Entry /\ b2 \notin Ancestors(new_idom)
<1>1. Started /\ AtBlock /\ TreeSound /\ Candidate /\ Second
  BY DEF Started, AtBlock, TreeInv
<1>2. IsTree(idoms, postorder_map) /\ InTree(idoms) = Processed
  BY <1>1 DEF TreeSound, InTree, Processed
<1>3. {new_idom, b2} \subseteq Processed
  BY <1>1, <1>2, AncestorsLater DEF Candidate, Second, Ancestors
<1>4. \A b \in Processed : /\ b \in Reachable(cfg)
                           /\ postorder_map[b] \in 0 .. Len(postorder) - 1
                           /\ postorder[postorder_map[b] + 1] = b
  BY <1>1, Positions DEF TreeSound
<1>5. postorder_map[new_idom] # postorder_map[b2]
  BY <1>3, <1>4
<1>6. postorder_map[Entry] = Len(postorder) - 1
  BY <1>1, Positions
<1>7. \A b, x \in Processed : x \in Ancestors(b) /\ x # b => postorder_map[b] < postorder_map[x]
  BY <1>2, AncestorsLater DEF Ancestors
<1>8. \A b \in Processed : postorder_map[b] <= postorder_map[Entry]
  BY <1>4, <1>6
<1>9. \A b \in Processed : postorder_map[b] \in Int
  BY <1>4
<1>10. ASSUME NEW x \in Processed, NEW y \in Processed, postorder_map[x] < postorder_map[y]
       PROVE  x # Entry /\ x \notin Ancestors(y)
  BY <1>7, <1>8, <1>9, <1>10
<1>11. ~FirstClimbs(new_idom, b2) => postorder_map[b2] < postorder_map[new_idom]
  BY <1>3, <1>5, <1>9 DEF FirstClimbs
<1>12. FirstClimbs(new_idom, b2) => postorder_map[new_idom] < postorder_map[b2]
  BY DEF FirstClimbs
<1>13. Processed \subseteq Blocks
  BY DEF Processed
<1> QED
  BY <1>3, <1>10, <1>11, <1>12, <1>13

(* A finger that climbs from such a block passes on the dominators and the *)
(* common ancestors.                                                       *)
LEMMA FingerClimbs ==
    ASSUME BuildInv, TreeInv, pc = "intersect", NEW x \in Processed, NEW y \in Processed,
           x # Entry, x \notin Ancestors(y),
           DominatorsPass(Current, x), DominatorsPass(Current, y)
    PROVE  /\ idoms[x] \in Processed
           /\ postorder_map[x] < postorder_map[idoms[x]]
           /\ DominatorsPass(Current, idoms[x])
           /\ \A b \in Blocks : x \in Ancestors(b) => idoms[x] \in Ancestors(b)
           /\ Ancestors(x) \cap Ancestors(y) \subseteq Ancestors(idoms[x])
<1>1. Started /\ TreeSound
  BY DEF Started, TreeInv
<1>2. IsTree(idoms, postorder_map) /\ InTree(idoms) = Processed /\ Processed \subseteq Blocks
  BY <1>1 DEF TreeSound, InTree, Processed
<1>3. idoms[x] \in Processed /\ postorder_map[x] < postorder_map[idoms[x]]
  BY <1>2 DEF IsTree
<1>4. idoms[x] \in Ancestors(x) /\ Ancestors(x) = {x} \union Ancestors(idoms[x])
  BY <1>2, AncestorsOfParent DEF Ancestors
<1>5. \A b \in Blocks : x \in Ancestors(b) => idoms[x] \in Ancestors(b)
  BY <1>2, <1>4, AncestorsTransitive DEF Ancestors, IsTree
<1>6. Ancestors(x) \cap Ancestors(y) \subseteq Ancestors(idoms[x])
  BY <1>4
<1>7. ASSUME NEW a \in Blocks \ {Current}, Dominates(cfg, a, Current)
      PROVE  Dominates(cfg, a, idoms[x])
  <2>1. Dominates(cfg, a, x) /\ Dominates(cfg, a, y)
    BY <1>7 DEF DominatorsPass
  <2>2. a \in Ancestors(y)
    BY <1>1, <2>1, DominatorsAbove
  <2>3. a # x
    BY <2>2
  <2> QED
    BY <1>1, <2>1, <2>3 DEF TreeSound, DominatorsKept, DominatorsPass
<1> QED
  BY <1>3, <1>5, <1>6, <1>7 DEF DominatorsPass

LEMMA ClimbFirst_Tree == BuildInv /\ TreeInv /\ ClimbFirst => TreeInv'
<1> SUFFICES ASSUME BuildInv, TreeInv, ClimbFirst PROVE TreeInv'
  OBVIOUS
<1>1. /\ pc = "intersect" /\ pc' = pc /\ new_idom # b2 /\ FirstClimbs(new_idom, b2)
      /\ new_idom' = idoms[new_idom]
      /\ UNCHANGED <<cfg, postorder, idoms, postorder_map, i, change, j, b2>>
  BY DEF ClimbFirst, postorderVars
<1>2. /\ Started /\ Sweeping /\ Sweeping' /\ TreeSound /\ AtBlock /\ AtBlock' /\ Placed
      /\ Candidate /\ Second
  BY <1>1 DEF Started, Sweeping, TreeInv, AtBlock, Placed
<1>3. TreeSound'
  BY <1>1, <1>2, WithinBlock_Tree
<1>4. /\ {new_idom, b2} \subseteq Processed /\ new_idom # Entry /\ new_idom \notin Ancestors(b2)
      /\ DominatorsPass(Current, new_idom) /\ DominatorsPass(Current, b2)
  BY <1>1, <1>2, Fingers DEF Candidate, Second
<1>5. /\ new_idom' \in Processed /\ postorder_map[new_idom] < postorder_map[new_idom']
      /\ DominatorsPass(Current, new_idom')
      /\ \A b \in Blocks : new_idom \in Ancestors(b) => new_idom' \in Ancestors(b)
      /\ Ancestors(new_idom) \cap Ancestors(b2) \subseteq Ancestors(new_idom')
  BY <1>1, <1>4, FingerClimbs
<1>6. postorder_map[Current] < postorder_map[new_idom']
  <2>1. /\ postorder_map[Current] \in Int /\ postorder_map[new_idom] \in Int
        /\ postorder_map[new_idom'] \in Int
    BY <1>2, <1>4, <1>5, Positions DEF TreeSound
  <2> QED
    BY <1>2, <1>5, <2>1 DEF Candidate
<1>7. AboveFirst(j - 1, new_idom')
  BY <1>2, <1>5 DEF Candidate, AboveFirst, Processed
<1>8. Candidate'
  BY <1>1, <1>5, <1>6, <1>7, SameBlock DEF Candidate
<1>9. Pred' = Pred
  BY <1>1 DEF Pred, Current
<1>10. Second'
  BY <1>1, <1>2, <1>5, <1>9, SameBlock DEF Second
<1> QED
  BY <1>3, <1>8, <1>10 DEF TreeInv

LEMMA ClimbSecond_Tree == BuildInv /\ TreeInv /\ ClimbSecond => TreeInv'
<1> SUFFICES ASSUME BuildInv, TreeInv, ClimbSecond PROVE TreeInv'
  OBVIOUS
<1>1. /\ pc = "intersect" /\ pc' = pc /\ new_idom # b2 /\ ~FirstClimbs(new_idom, b2)
      /\ b2' = idoms[b2]
      /\ UNCHANGED <<cfg, postorder, idoms, postorder_map, i, change, j, new_idom>>
  BY DEF ClimbSecond, postorderVars
<1>2. /\ Started /\ Sweeping /\ Sweeping' /\ TreeSound /\ AtBlock /\ AtBlock' /\ Placed
      /\ Candidate /\ Second
  BY <1>1 DEF Started, Sweeping, TreeInv, AtBlock, Placed
<1>3. TreeSound'
  BY <1>1, <1>2, WithinBlock_Tree
<1>4. /\ {new_idom, b2} \subseteq Processed /\ b2 # Entry /\ b2 \notin Ancestors(new_idom)
      /\ DominatorsPass(Current, new_idom) /\ DominatorsPass(Current, b2)
  BY <1>1, <1>2, Fingers DEF Candidate, Second
<1>5. /\ DominatorsPass(Current, b2')
      /\ \A b \in Blocks : b2 \in Ancestors(b) => b2' \in Ancestors(b)
      /\ Ancestors(b2) \cap Ancestors(new_idom) \subseteq Ancestors(b2')
  BY <1>1, <1>4, FingerClimbs
<1>6. Candidate'
  BY <1>1, <1>2, SameBlock DEF Candidate
<1>7. Pred' = Pred
  BY <1>1 DEF Pred, Current
<1>8. b2' \in Ancestors(Pred)
  BY <1>1, <1>2, <1>5 DEF Second, Processed
<1>9. Second'
  BY <1>1, <1>2, <1>5, <1>7, <1>8, SameBlock DEF Second
<1> QED
  BY <1>3, <1>6, <1>9 DEF TreeInv

LEMMA EndIntersect_Tree == BuildInv /\ TreeInv /\ EndIntersect => TreeInv'
<1> SUFFICES ASSUME BuildInv, TreeInv, EndIntersect PROVE TreeInv'
  OBVIOUS
<1>1. /\ pc = "intersect" /\ pc' = "preds" /\ new_idom = b2 /\ j' = j + 1
      /\ UNCHANGED <<cfg, postorder, idoms, postorder_map, i, change, new_idom>>
  BY DEF EndIntersect
<1>2. /\ Started /\ Sweeping /\ Sweeping' /\ TreeSound /\ AtBlock /\ AtBlock' /\ Placed
      /\ Candidate /\ Second /\ j \in Nat
  BY <1>1, SweepPlace DEF Started, Sweeping, TreeInv, AtBlock, Placed
<1>3. TreeSound'
  BY <1>1, <1>2, WithinBlock_Tree
<1>4. j' - 1 = j
  BY <1>1, <1>2
<1>5. AboveFirst(j, new_idom)
  <2>1. \A k \in 1 .. Len(cfg.preds[Current]) : k <= j => k <= j - 1 \/ k = j
    BY <1>2
  <2>2. new_idom \in Ancestors(Pred)
    BY <1>1, <1>2 DEF Second
  <2> QED
    BY <1>2, <2>1, <2>2 DEF Candidate, AboveFirst, Pred
<1>6. \A x \in Blocks : AboveFirst(j, x) => x \in Ancestors(new_idom)
  BY <1>1, <1>2 DEF Second
<1>7. Candidate'
  BY <1>1, <1>2, <1>4, <1>5, <1>6, SameBlock DEF Candidate
<1>8. Second'
  BY <1>1 DEF Second
<1> QED
  BY <1>3, <1>7, <1>8 DEF TreeInv

(* The candidate a block gets is above all its predecessors in the tree and  *)
(* the lowest such block; for a block that is in the tree already it is      *)
(* above the old parent.                                                     *)
LEMMA NewParent ==
    ASSUME BuildInv, TreeInv, FirstPredsLater, EndBlock
    PROVE  /\ new_idom \in Processed /\ Current \in Blocks \ {Entry}
           /\ postorder_map[Current] < postorder_map[new_idom]
           /\ DominatorsPass(Current, new_idom)
           /\ \A u \in Preds(cfg, Current) \cap Processed : new_idom \in Ancestors(u)
           /\ \A x \in Blocks : (\A u \in Preds(cfg, Current) \cap Processed : x \in Ancestors(u))
                                    => x \in Ancestors(new_idom)
           /\ Current \in Processed => /\ new_idom \in Ancestors(idoms[Current])
                                       /\ new_idom \in Ancestors(Current)
<1>1. pc = "preds" /\ j > Len(cfg.preds[Current])
  BY DEF EndBlock
<1>2. Started /\ AtBlock /\ Placed /\ Candidate /\ TreeSound
  BY <1>1 DEF Started, AtBlock, Placed, TreeInv
<1>3. /\ Current \in Blocks \ {Entry} /\ j \in Nat
      /\ Len(cfg.preds[Current]) \in Nat \ {0}
  BY <1>2, SweepPlace
<1>4. \A k \in 1 .. Len(cfg.preds[Current]) : k <= j - 1
  BY <1>1, <1>3
<1>5. \A x : AboveFirst(j - 1, x)
                <=> \A u \in Preds(cfg, Current) \cap Processed : x \in Ancestors(u)
  BY <1>4 DEF AboveFirst, Preds
<1>6. /\ new_idom \in Processed
      /\ postorder_map[Current] < postorder_map[new_idom]
      /\ DominatorsPass(Current, new_idom)
      /\ AboveFirst(j - 1, new_idom)
      /\ \A x \in Blocks : AboveFirst(j - 1, x) => x \in Ancestors(new_idom)
  BY <1>1, <1>2 DEF Candidate
<1>7. ASSUME Current \in Processed
      PROVE  new_idom \in Ancestors(idoms[Current]) /\ new_idom \in Ancestors(Current)
  <2>1. new_idom \in Blocks
    BY <1>6 DEF Processed
  <2>2. new_idom \in Ancestors(idoms[Current])
    BY <1>2, <1>3, <1>5, <1>6, <1>7, <2>1 DEF TreeSound, CommonKept
  <2>3. Ancestors(Current) = {Current} \union Ancestors(idoms[Current])
    BY <1>2, <1>7, AncestorsOfParent DEF TreeSound, Ancestors, InTree, Processed
  <2> QED
    BY <2>2, <2>3
<1> QED
  BY <1>3, <1>5, <1>6, <1>7

(* The tree that it leaves, and what becomes of the ancestors: those of a    *)
(* block the changed one is not above stay, none is gained, and a block      *)
(* stays above another if the changed one is above it.                       *)
LEMMA TreeChanges ==
    ASSUME BuildInv, TreeInv, FirstPredsLater, EndBlock
    PROVE  /\ idoms' = [idoms EXCEPT ![Current] = new_idom]
           /\ idoms'[Current] = new_idom
           /\ \A b \in Blocks \ {Current} : idoms'[b] = idoms[b]
           /\ Processed' = Processed \union {Current}
           /\ IsTree(idoms, postorder_map) /\ IsTree(idoms', postorder_map)
           /\ \A b \in Blocks : Current \notin Ancestors(b) => AncestorsIn(idoms', b) = Ancestors(b)
           /\ \A b \in Processed : AncestorsIn(idoms', b) \subseteq Ancestors(b)
           /\ \A b \in Processed : \A x \in Ancestors(b) :
                 Current \in Ancestors(x) => x \in AncestorsIn(idoms', b)
           /\ \A b \in Processed : Current \in Ancestors(b) => Current \in Processed
<1>1. idoms' = [idoms EXCEPT ![Current] = new_idom]
  BY DEF EndBlock
<1>2. /\ new_idom \in Processed /\ new_idom \in Blocks /\ Current \in Blocks \ {Entry}
      /\ postorder_map[Current] < postorder_map[new_idom]
      /\ Current \in Processed => new_idom \in Ancestors(Current)
  BY NewParent DEF Processed
<1>3. IsTree(idoms, postorder_map) /\ InTree(idoms) = Processed /\ InTree(idoms') = Processed'
  BY DEF TreeInv, TreeSound, InTree, Processed
<1>4. IsTree(idoms', postorder_map) /\ Processed' = Processed \union {Current}
  BY <1>1, <1>2, <1>3, TreeWithParent
<1>5. idoms \in [Slots -> Slots]
  BY <1>3 DEF IsTree
<1>6. idoms'[Current] = new_idom /\ \A b \in Blocks \ {Current} : idoms'[b] = idoms[b]
  BY <1>1, <1>2, <1>5 DEF Slots
<1>7. \A b \in Blocks : Current \notin Ancestors(b) => AncestorsIn(idoms', b) = Ancestors(b)
  BY <1>1, <1>2, <1>5, AncestorsUntouched, ZenonT(40) DEF Ancestors
<1>8. \A b \in Processed : Current \in Ancestors(b) => Current \in Processed
  BY <1>3, AncestorsLater DEF Ancestors
<1>9. \A b \in Processed : AncestorsIn(idoms', b) \subseteq Ancestors(b)
  <2> SUFFICES ASSUME NEW b \in Processed PROVE AncestorsIn(idoms', b) \subseteq Ancestors(b)
    OBVIOUS
  <2>1. b \in Blocks
    BY DEF Processed
  <2>2. CASE Current \in Processed
    BY <1>1, <1>2, <1>5, <2>1, <2>2, AncestorsShrink DEF Ancestors
  <2>3. CASE Current \notin Processed
    BY <1>7, <1>8, <2>1, <2>3
  <2> QED
    BY <2>2, <2>3
<1>10. \A b \in Processed : \A x \in Ancestors(b) :
           Current \in Ancestors(x) => x \in AncestorsIn(idoms', b)
  BY <1>1, <1>2, <1>3, AncestorsBelow DEF Ancestors
<1> QED
  BY <1>1, <1>3, <1>4, <1>6, <1>7, <1>8, <1>9, <1>10

(* The first predecessor of a block is in the tree if the block's parent is *)
(* above it.                                                                *)
LEMMA FirstPredInTree ==
    ASSUME BuildInv, Started, FirstPredsLater, TreeSound, NEW b \in Processed \ {Entry},
           idoms[b] \in Ancestors(cfg.preds[b][1])
    PROVE  /\ cfg.preds[b][1] \in Preds(cfg, b) \cap Processed
           /\ postorder_map[b] < postorder_map[cfg.preds[b][1]]
<1> DEFINE f == cfg.preds[b][1]
<1>1. IsTree(idoms, postorder_map) /\ InTree(idoms) = Processed
  BY DEF TreeSound, InTree, Processed
<1>2. b \in Reachable(cfg) /\ b \in Blocks
  BY DEF TreeSound, Processed
<1>3. f \in Preds(cfg, b) /\ f \in Reachable(cfg) /\ postorder_map[b] < postorder_map[f]
  BY <1>2, FirstPredLater
<1>4. f \in Blocks
  BY <1>3 DEF Reachable, ReachableFrom
<1>5. idoms[b] \in Processed
  BY <1>1 DEF IsTree
<1>6. f \in Processed
  <2> SUFFICES ASSUME f \notin Processed PROVE FALSE
    OBVIOUS
  <2>1. Ancestors(f) = {f}
    BY <1>1, <1>4, AncestorsOutside DEF Ancestors, IsTree
  <2> QED
    BY <1>5, <2>1
<1> QED
  BY <1>3, <1>6

(* Where the parent's new place leaves the others: a parent that is no     *)
(* longer above its block's first predecessor has been passed in this      *)
(* sweep, which is still to come to the block.                             *)
LEMMA EndBlock_FirstPred ==
    BuildInv /\ TreeInv /\ FirstPredsLater /\ EndBlock => FirstPredAbove'
<1> SUFFICES ASSUME BuildInv, TreeInv, FirstPredsLater, EndBlock,
                    NEW b \in Processed' \ {Entry}
             PROVE  \/ idoms'[b] \in AncestorsIn(idoms', cfg.preds[b][1])
                    \/ Sweeping' /\ postorder_map[b] < i' /\ i' <= postorder_map[idoms'[b]]
  BY DEF FirstPredAbove, Ancestors, EndBlock
<1>1. /\ pc = "preds" /\ pc' = "block" /\ i' = i - 1
      /\ cfg' = cfg /\ postorder_map' = postorder_map
  BY DEF EndBlock, NextPosition
<1>2. /\ Started /\ Sweeping /\ Sweeping' /\ Placed /\ TreeSound
  BY <1>1 DEF Started, Sweeping, AtBlock, Placed, TreeInv
<1>3. /\ Current \in Blocks \ {Entry} /\ postorder_map[Current] = i - 1
      /\ Current \in Reachable(cfg) /\ i \in Nat
  BY <1>2, SweepPlace, Positions
<1>4. IsTree(idoms, postorder_map) /\ InTree(idoms) = Processed /\ Processed \subseteq Blocks
  BY <1>2 DEF TreeSound, InTree, Processed
<1>5. /\ \A x \in Reachable(cfg) : postorder_map[x] \in Int
      /\ \A x, y \in Reachable(cfg) : postorder_map[x] = postorder_map[y] => x = y
  BY <1>2, Positions
<1>6. Processed \subseteq Reachable(cfg)
  BY <1>2 DEF TreeSound
<1>7. CASE b = Current
  <2> DEFINE f == cfg.preds[Current][1]
  <2>1. f \in Preds(cfg, Current) \cap Processed /\ postorder_map[Current] < postorder_map[f]
    BY <1>2, FirstPredSwept
  <2>2. Current \notin Ancestors(f)
    BY <1>3, <1>4, <1>5, <1>6, <2>1, AncestorsLater DEF Ancestors
  <2>3. new_idom \in Ancestors(f)
    BY <2>1, NewParent
  <2> HIDE DEF f
  <2>4. f \in Blocks /\ AncestorsIn(idoms', f) = Ancestors(f)
    BY <1>4, <2>1, <2>2, TreeChanges
  <2> QED
    BY <1>1, <1>7, <2>3, <2>4, TreeChanges DEF f
<1>8. CASE b # Current
  <2> DEFINE w == idoms[b]
             f == cfg.preds[b][1]
  <2>1. b \in Processed \ {Entry} /\ idoms'[b] = w
    BY <1>4, <1>8, TreeChanges DEF Processed
  <2>2. w \in Processed
    BY <1>4, <2>1 DEF IsTree
  <2>3. CASE postorder_map[b] < i /\ i <= postorder_map[w]
    <3>1. postorder_map[b] # i - 1
      BY <1>3, <1>5, <1>6, <1>8, <2>1
    <3>2. postorder_map[b] \in Int /\ postorder_map[w] \in Int
      BY <1>5, <1>6, <2>1, <2>2
    <3>3. postorder_map[b] < i - 1 /\ i - 1 <= postorder_map[w]
      BY <1>3, <2>3, <3>1, <3>2
    <3> QED
      BY <1>1, <1>2, <2>1, <3>3
  <2>4. CASE w \in Ancestors(f)
    <3>1. f \in Preds(cfg, b) \cap Processed /\ postorder_map[b] < postorder_map[f] /\ f \in Blocks
      BY <1>2, <1>4, <2>1, <2>4, FirstPredInTree
    <3> HIDE DEF f, w
    <3>2. CASE Current \notin Ancestors(f)
      <4>1. AncestorsIn(idoms', f) = Ancestors(f)
        BY <3>1, <3>2, TreeChanges
      <4> QED
        BY <1>1, <2>1, <2>4, <4>1 DEF f
    <3>3. CASE Current \in Ancestors(w)
      <4>1. w \in AncestorsIn(idoms', f)
        BY <2>4, <3>1, <3>3, TreeChanges
      <4> QED
        BY <1>1, <2>1, <4>1 DEF f
    <3>4. CASE Current \in Ancestors(f) /\ Current \notin Ancestors(w)
      <4>1. w \in Ancestors(Current)
        BY <1>4, <2>4, <3>1, <3>4, AncestorsChain DEF Ancestors
      <4>2. Current \in Processed
        BY <3>1, <3>4, TreeChanges
      <4>3. w # Current
        BY <1>4, <3>4, <4>2, AncestorsClosed DEF Ancestors, IsTree
      <4>4. postorder_map[Current] < postorder_map[w]
        BY <1>4, <4>1, <4>2, <4>3, AncestorsLater DEF Ancestors
      <4>5. Current = f \/ postorder_map[f] < postorder_map[Current]
        BY <1>4, <3>1, <3>4, AncestorsLater DEF Ancestors
      <4>6. /\ postorder_map[b] \in Int /\ postorder_map[w] \in Int /\ postorder_map[f] \in Int
        BY <1>5, <1>6, <2>1, <2>2, <3>1
      <4>7. postorder_map[b] < i - 1 /\ i - 1 <= postorder_map[w]
        BY <1>3, <3>1, <4>4, <4>5, <4>6
      <4> QED
        BY <1>1, <1>2, <2>1, <4>7
    <3> QED
      BY <3>2, <3>3, <3>4
  <2>5. w \in Ancestors(f) \/ (postorder_map[b] < i /\ i <= postorder_map[w])
    BY <1>2, <2>1 DEF TreeSound, FirstPredAbove
  <2> QED
    BY <2>3, <2>4, <2>5
<1> QED
  BY <1>7, <1>8

(* A block that moves up takes ancestors from those below it.  None of them *)
(* is still above all predecessors of a block whose parent is below it: by  *)
(* FirstPredAbove the first predecessor is below it too.                    *)
LEMMA EndBlock_Common ==
    BuildInv /\ TreeInv /\ FirstPredsLater /\ EndBlock => CommonKept'
<1> SUFFICES ASSUME BuildInv, TreeInv, FirstPredsLater, EndBlock,
                    NEW b \in Processed' \ {Entry}, NEW x \in Blocks,
                    \A u \in Preds(cfg, b) \cap Processed' : x \in AncestorsIn(idoms', u)
             PROVE  x \in AncestorsIn(idoms', idoms'[b])
  BY DEF CommonKept, Ancestors, EndBlock
<1>1. Started /\ Sweeping /\ Placed /\ TreeSound
  BY DEF EndBlock, Started, Sweeping, AtBlock, Placed, TreeInv
<1>2. /\ Current \in Blocks \ {Entry} /\ postorder_map[Current] = i - 1
      /\ Current \in Reachable(cfg) /\ i \in Nat
  BY <1>1, SweepPlace, Positions
<1>3. IsTree(idoms, postorder_map) /\ InTree(idoms) = Processed /\ Processed \subseteq Blocks
  BY <1>1 DEF TreeSound, InTree, Processed
<1>4. /\ \A y \in Processed : postorder_map[y] \in Int
      /\ \A y, z \in Processed : z \in Ancestors(y) => z = y \/ postorder_map[y] < postorder_map[z]
  BY <1>1, <1>3, Positions, AncestorsLater DEF TreeSound, Ancestors
<1>5. IsTree(idoms', postorder_map) /\ idoms' \in [Slots -> Slots] /\ idoms \in [Slots -> Slots]
  BY <1>3, TreeChanges DEF IsTree
<1>6. \A u \in Preds(cfg, b) \cap Processed : x \in Ancestors(u)
  BY TreeChanges
<1>7. CASE b = Current
  <2>1. x \in Ancestors(new_idom)
    BY <1>6, <1>7, NewParent
  <2>2. new_idom \in Processed /\ postorder_map[Current] < postorder_map[new_idom]
    BY NewParent
  <2>3. Current \notin Ancestors(new_idom)
    <3> SUFFICES ASSUME Current \in Ancestors(new_idom) PROVE FALSE
      OBVIOUS
    <3>1. Current \in Processed
      BY <2>2, TreeChanges
    <3> QED
      BY <1>4, <2>2, <3>1
  <2> QED
    BY <1>3, <1>7, <2>1, <2>2, <2>3, TreeChanges
<1>8. CASE b # Current
  <2>1. b \in Processed \ {Entry} /\ b \in Blocks /\ idoms'[b] = idoms[b]
    BY <1>3, <1>8, TreeChanges
  <2>2. PICK w \in Processed : w = idoms[b]
    BY <1>3, <2>1 DEF IsTree
  <2>3. x \in Ancestors(w)
    BY <1>1, <1>6, <2>1, <2>2 DEF TreeSound, CommonKept
  <2>4. CASE Current \notin Ancestors(w)
    BY <1>3, <2>1, <2>2, <2>3, <2>4, TreeChanges
  <2>5. CASE Current \in Ancestors(x)
    BY <2>1, <2>2, <2>3, <2>5, TreeChanges
  <2>6. CASE Current \in Ancestors(w) /\ Current \notin Ancestors(x)
    <3>1. Current \in Processed
      BY <2>6, TreeChanges
    <3>2. ~(i <= postorder_map[w])
      BY <1>2, <1>4, <2>6, <3>1
    <3>3. w \in Ancestors(cfg.preds[b][1])
      BY <1>1, <2>1, <2>2, <3>2 DEF TreeSound, FirstPredAbove
    <3>4. PICK f \in Preds(cfg, b) \cap Processed : f = cfg.preds[b][1]
      BY <1>1, <2>1, <2>2, <3>3, FirstPredInTree
    <3>5. Current \in Ancestors(f)
      BY <1>3, <1>5, <2>6, <3>3, <3>4, AncestorsTransitive DEF Ancestors
    <3>6. Current \in Ancestors(Current)
      BY <1>2, <1>5, AncestorsClosed DEF Ancestors
    <3>7. Current \in AncestorsIn(idoms', f) /\ Current \in AncestorsIn(idoms', w)
      BY <2>6, <3>4, <3>5, <3>6, TreeChanges
    <3>8. f \in InTree(idoms') /\ x \in AncestorsIn(idoms', f)
      <4>1. f \in Processed'
        BY <3>4, TreeChanges
      <4> QED
        BY <3>4, <4>1 DEF InTree, Processed
    <3>9. x \in AncestorsIn(idoms', Current) \/ Current \in AncestorsIn(idoms', x)
      BY <1>5, <3>7, <3>8, AncestorsChain
    <3>10. x \in Processed
      BY <1>3, <2>3, AncestorsLater DEF Ancestors
    <3>11. Current \notin AncestorsIn(idoms', x)
      BY <2>6, <3>10, TreeChanges
    <3>12. AncestorsIn(idoms', Current) \subseteq AncestorsIn(idoms', w)
      BY <1>3, <1>5, <3>7, AncestorsTransitive
    <3> QED
      BY <2>1, <2>2, <3>9, <3>11, <3>12
  <2> QED
    BY <2>4, <2>5, <2>6
<1> QED
  BY <1>7, <1>8

LEMMA EndBlock_Tree == BuildInv /\ TreeInv /\ FirstPredsLater /\ EndBlock => TreeInv'
<1> SUFFICES ASSUME BuildInv, TreeInv, FirstPredsLater, EndBlock PROVE TreeInv'
  OBVIOUS
<1>1. /\ pc = "preds" /\ pc' = "block" /\ i' = i - 1
      /\ change' = (change \/ idoms[Current] # new_idom)
      /\ cfg' = cfg /\ postorder' = postorder /\ postorder_map' = postorder_map
  BY DEF EndBlock, NextPosition
<1>2. /\ Started /\ Sweeping /\ Sweeping' /\ Placed /\ TreeSound
  BY <1>1 DEF Started, Sweeping, AtBlock, Placed, TreeInv
<1>3. /\ Current \in Blocks \ {Entry} /\ Current \in Reachable(cfg)
      /\ i \in 1 .. Len(postorder) - 1 /\ Current = postorder[i] /\ change \in BOOLEAN
  BY <1>2, SweepPlace, Positions DEF Current
<1>4. /\ Processed' = Processed \union {Current} /\ Processed \subseteq Blocks
      /\ IsTree(idoms', postorder_map) /\ IsTree(idoms, postorder_map)
      /\ idoms'[Current] = new_idom
      /\ \A b \in Processed \ {Current} : idoms'[b] = idoms[b]
  BY TreeChanges DEF Processed
<1>5. IsTree(idoms, postorder_map)' /\ (Processed \subseteq Reachable(cfg))'
  BY <1>1, <1>2, <1>3, <1>4 DEF TreeSound
<1>6. DominatorsKept'
  <2> SUFFICES ASSUME NEW b \in Processed \union {Current}
               PROVE  DominatorsPass(b, idoms'[b])
    BY <1>1, <1>4 DEF DominatorsKept, DominatorsPass
  <2>1. CASE b = Current
    BY <1>4, <2>1, NewParent
  <2>2. CASE b # Current
    BY <1>2, <1>4, <2>2 DEF TreeSound, DominatorsKept
  <2> QED
    BY <2>1, <2>2
<1>7. \A k \in 1 .. Len(postorder) : i - 1 < k <=> i < k \/ k = i
  BY <1>3
<1>8. SweptProcessed'
  <2> SUFFICES ASSUME NEW k \in 1 .. Len(postorder), i - 1 < k
               PROVE  postorder[k] \in Processed \union {Current}
    BY <1>1, <1>2, <1>4 DEF SweptProcessed, Behind
  <2>1. CASE k = i
    BY <1>3, <2>1
  <2>2. CASE i < k
    BY <1>2, <2>2 DEF TreeSound, SweptProcessed, Behind
  <2> QED
    BY <1>7, <2>1, <2>2
<1>9. SweptStable'
  <2> SUFFICES ASSUME ~change', NEW k \in 1 .. Len(postorder) - 1, i - 1 < k,
                      NEW u \in Preds(cfg, postorder[k]) \cap Processed'
               PROVE  idoms'[postorder[k]] \in AncestorsIn(idoms', u)
    BY <1>1, <1>2 DEF SweptStable, Behind, Ancestors
  <2>1. ~change /\ idoms[Current] = new_idom
    BY <1>1, <1>3
  <2>2. new_idom \in Processed
    BY NewParent
  <2>3. new_idom # UNDEFINED_IDOM
    BY <2>2, UndefinedIsNone DEF Processed
  <2>4. Current \in Processed
    BY <1>3, <2>1, <2>3 DEF Processed
  <2>5. idoms' = idoms
    <3>1. idoms' = [idoms EXCEPT ![Current] = idoms[Current]] /\ idoms \in [Slots -> Slots]
      BY <1>4, <2>1, TreeChanges DEF IsTree
    <3> QED
      BY <3>1
  <2>6. u \in Processed
    BY <1>4, <2>4
  <2>7. CASE k = i
    <3>1. new_idom \in Ancestors(u)
      BY <1>3, <2>6, <2>7, NewParent
    <3> QED
      BY <1>3, <2>1, <2>5, <2>7, <3>1 DEF Ancestors
  <2>8. CASE i < k
    BY <1>2, <2>1, <2>5, <2>6, <2>8 DEF TreeSound, SweptStable, Behind, Ancestors
  <2> QED
    BY <1>7, <2>7, <2>8, <1>3
<1>10. CommonKept' /\ FirstPredAbove'
  BY EndBlock_Common, EndBlock_FirstPred
<1>11. Candidate' /\ Second'
  BY <1>1 DEF Candidate, Second, AtBlock
<1> QED
  BY <1>5, <1>6, <1>8, <1>9, <1>10, <1>11 DEF TreeInv, TreeSound

(* A new sweep starts with nothing behind it, ... *)
LEMMA SweepAgain_Tree == BuildInv /\ TreeInv /\ SweepAgain => TreeInv'
<1> SUFFICES ASSUME BuildInv, TreeInv, SweepAgain PROVE TreeInv'
  OBVIOUS
<1>1. /\ pc = "block" /\ pc' = "block" /\ i = 0 /\ i' = Len(postorder) - 1
      /\ UNCHANGED <<cfg, postorder, idoms, postorder_map>>
  BY DEF SweepAgain, SweepStart, postorderVars
<1>2. Started /\ TreeSound /\ Processed' = Processed /\ \A x : Ancestors(x)' = Ancestors(x)
  BY <1>1 DEF Started, TreeInv, Processed, Ancestors
<1>3. Len(postorder) \in Nat \ {0}
  BY <1>2, SweepPlace
<1>4. \A k \in 1 .. Len(postorder) : postorder[k] \in Processed
  BY <1>1, <1>2 DEF TreeSound, SweptProcessed, Behind
<1>5. SweptProcessed' /\ SweptStable'
  BY <1>1, <1>2, <1>3, <1>4 DEF SweptProcessed, SweptStable, Behind, Sweeping
<1>6. \A b \in Processed \ {Entry} : idoms[b] \in Ancestors(cfg.preds[b][1])
  <2> SUFFICES ASSUME NEW b \in Processed \ {Entry}, postorder_map[b] < 0 PROVE FALSE
    BY <1>1, <1>2 DEF TreeSound, FirstPredAbove
  <2>1. postorder_map[b] \in 0 .. Len(postorder) - 1
    BY <1>2, Positions DEF TreeSound
  <2> QED
    BY <1>3, <2>1
<1>7. CommonKept' /\ FirstPredAbove' /\ DominatorsKept'
  BY <1>1, <1>2, <1>6 DEF TreeSound, CommonKept, FirstPredAbove, DominatorsKept, DominatorsPass
<1> QED
  BY <1>1, <1>2, <1>5, <1>7 DEF TreeInv, TreeSound, Candidate, Second, AtBlock

(* ... and the last one leaves nothing before it. *)
LEMMA EndBuild_Tree == BuildInv /\ TreeInv /\ EndBuild => TreeInv'
<1> SUFFICES ASSUME BuildInv, TreeInv, EndBuild PROVE TreeInv'
  OBVIOUS
<1>1. /\ pc = "block" /\ pc' = "built" /\ i = 0 /\ ~change
      /\ UNCHANGED <<cfg, postorder, idoms, postorder_map>>
  BY DEF EndBuild, Settled, treeVars
<1>2. /\ Started /\ TreeSound /\ Processed' = Processed
      /\ \A x : Ancestors(x)' = Ancestors(x)
      /\ Sweeping /\ ~Sweeping'
  BY <1>1 DEF Started, Sweeping, TreeInv, Processed, Ancestors
<1>3. Len(postorder) \in Nat \ {0}
  BY <1>2, SweepPlace
<1>4. SweptProcessed' /\ SweptStable'
  BY <1>1, <1>2 DEF TreeSound, SweptProcessed, SweptStable, Behind
<1>5. \A b \in Processed \ {Entry} : idoms[b] \in Ancestors(cfg.preds[b][1])
  <2> SUFFICES ASSUME NEW b \in Processed \ {Entry}, postorder_map[b] < 0 PROVE FALSE
    BY <1>1, <1>2 DEF TreeSound, FirstPredAbove
  <2>1. postorder_map[b] \in 0 .. Len(postorder) - 1
    BY <1>2, Positions DEF TreeSound
  <2> QED
    BY <1>3, <2>1
<1>6. CommonKept' /\ FirstPredAbove' /\ DominatorsKept'
  BY <1>1, <1>2, <1>5 DEF TreeSound, CommonKept, FirstPredAbove, DominatorsKept, DominatorsPass
<1> QED
  BY <1>1, <1>2, <1>4, <1>6 DEF TreeInv, TreeSound, Candidate, Second, AtBlock

(* The passes that use the tree leave it as it is. *)
LEMMA Frame_Tree ==
    ASSUME TreeInv, UNCHANGED <<cfg, postorder, treeVars>>,
           \/ UNCHANGED pc
           \/ Started /\ ~Sweeping /\ Started' /\ ~Sweeping'
    PROVE  TreeInv'
<1>1. UNCHANGED <<idoms, postorder_map, change, i, j, new_idom, b2>>
  BY DEF treeVars
<1>2. Sweeping' <=> Sweeping
  BY DEF Sweeping
<1>3. Processed' = Processed /\ Current' = Current /\ Pred' = Pred
  BY <1>1 DEF Processed, Current, Pred
<1>4. /\ \A x : Ancestors(x)' = Ancestors(x)
      /\ \A x, y : DominatorsPass(x, y)' <=> DominatorsPass(x, y)
      /\ \A m, x : AboveFirst(m, x)' <=> AboveFirst(m, x)
      /\ \A k : Behind(k)' <=> Behind(k)
  BY <1>1, <1>2, SameBlock DEF Behind
<1>5. TreeSound'
  BY <1>1, <1>2, <1>3, <1>4
  DEF TreeInv, TreeSound, DominatorsKept, SweptProcessed, SweptStable, CommonKept, FirstPredAbove
<1>6. Candidate'
  BY <1>1, <1>3, <1>4 DEF TreeInv, Candidate, AtBlock, Sweeping
<1>7. Second'
  BY <1>1, <1>3, <1>4 DEF TreeInv, Second, Sweeping
<1> QED
  BY <1>5, <1>6, <1>7 DEF TreeInv

LEMMA TreeInit_Full == TreeInit => FullInv
BY TreeInit_Build DEF FullInv, Started, TreeInit, PostorderInit

LEMMA BuildNext_Full == FullInv /\ BuildNext => FullInv'
<1> SUFFICES ASSUME FullInv, BuildNext PROVE FullInv'
  OBVIOUS
<1>1. BuildInv /\ BuildInv'
  BY BuildNext_Build DEF FullInv
<1> SUFFICES ASSUME Started', FirstPredsLater' PROVE TreeInv'
  BY <1>1 DEF FullInv
<1>2. ~Traverse
  BY DEF Traverse, PostorderNext, Descend, SkipChild, Return, Finish, HasChild, Started
<1>3. CASE StartSweeps
  BY <1>1, <1>3, StartSweeps_Tree
<1>4. CASE ~StartSweeps
  <2>1. Started /\ cfg' = cfg /\ postorder' = postorder
    BY <1>2, <1>4 DEF BuildNext, BeginBlock, SkipPred, MorePreds, CallIntersect, ClimbFirst,
       ClimbSecond, EndIntersect, EndBlock, SweepAgain, EndBuild, Started, postorderVars
  <2>2. FirstPredsLater
    BY <2>1 DEF FirstPredsLater
  <2>3. TreeInv
    BY <2>1, <2>2 DEF FullInv
  <2> QED
    BY <1>1, <1>2, <1>4, <2>2, <2>3, BeginBlock_Tree, SkipPred_Tree, CallIntersect_Tree,
       ClimbFirst_Tree, ClimbSecond_Tree, EndIntersect_Tree, EndBlock_Tree, SweepAgain_Tree,
       EndBuild_Tree DEF BuildNext
<1> QED
  BY <1>3, <1>4

LEMMA Frame_Full ==
    ASSUME FullInv, UNCHANGED <<cfg, visited, postorder, path, cursor, treeVars>>,
           \/ UNCHANGED pc
           \/ Started /\ ~Sweeping /\ Started' /\ ~Sweeping'
    PROVE  FullInv'
<1>1. BuildInv'
  BY Frame_Build DEF FullInv
<1>2. (Started' <=> Started) /\ (FirstPredsLater' <=> FirstPredsLater)
  BY DEF Started, FirstPredsLater
<1>3. Started /\ FirstPredsLater => TreeInv'
  BY Frame_Tree DEF FullInv
<1> QED
  BY <1>1, <1>2, <1>3 DEF FullInv

LEMMA BuildInvariant == BuildSpec => []FullInv
<1>1. FullInv /\ UNCHANGED buildVars => FullInv'
  BY Frame_Full DEF buildVars, postorderVars
<1>2. FullInv /\ [BuildNext]_buildVars => FullInv'
  BY <1>1, BuildNext_Full
<1> QED
  BY <1>2, TreeInit_Full, PTL DEF BuildSpec

-----------------------------------------------------------------------------

(* When the sweeps are over, what is above a block dominates it: without a   *)
(* block x that is not the entry only blocks x is not above can be reached,  *)
(* as every parent is above all predecessors.                                *)
LEMMA AncestorsDominate ==
    ASSUME BuildInv, Started, TreeSound, ~Sweeping, NEW b \in Processed, NEW x \in Ancestors(b)
    PROVE  Dominates(cfg, x, b)
<1>1. /\ pc # "dfs" /\ PostorderInv /\ WellFormed(cfg) /\ cfg \in Cfg
      /\ Len(postorder) \in Nat \ {0}
  BY SweepPlace DEF PostorderInv, PostorderTypeOK, WellFormed
<1>2. IsTree(idoms, postorder_map) /\ InTree(idoms) = Processed /\ b \in Reachable(cfg)
  BY DEF TreeSound, InTree, Processed
<1>3. CASE x = Entry
  BY <1>2, <1>3 DEF Dominates, ReachableFrom
<1>4. CASE x # Entry
  <2> DEFINE S == {v \in Reachable(cfg) \ {x} : x \notin Ancestors(v)}
  <2>1. Entry \in S
    BY <1>2, <1>4, EntryIsRoot, Positions DEF Ancestors
  <2>2. ASSUME NEW u \in S, NEW d \in Succs(cfg, u), d # x PROVE d \in S
    <3>1. u \in Blocks /\ u \in Reachable(cfg)
      BY DEF Reachable, ReachableFrom
    <3>2. d \in Blocks /\ u \in Preds(cfg, d)
      BY <1>1, <2>2, <3>1, NeighboursAreBlocks DEF WellFormed
    <3>3. d \in Reachable(cfg)
      BY <1>1, <2>2, <3>1, <3>2, EntryIsBlock, NoBlockIsNone, ReachableClosed DEF Reachable
    <3>4. CASE d = Entry
      BY <2>1, <3>4
    <3>5. CASE d # Entry
      <4>1. PICK k \in 1 .. Len(postorder) - 1 : postorder[k] = d
        <5>1. PICK k \in 1 .. Len(postorder) : postorder[k] = d
          BY <1>1, <3>3, SweepBlocks
        <5>2. k # Len(postorder)
          BY <1>1, <3>5, <5>1, SweepBlocks
        <5> QED
          BY <1>1, <5>1, <5>2
      <4>2. PICK m \in 1 .. Len(postorder) : postorder[m] = u
        BY <1>1, <3>1, SweepBlocks
      <4>3. d \in Processed /\ u \in Processed
        BY <1>1, <4>1, <4>2 DEF TreeSound, SweptProcessed, Behind
      <4>4. idoms[d] \in Ancestors(u)
        <5>1. ~Sweeping
          OBVIOUS
        <5> QED
          BY <3>2, <4>1, <4>3, <5>1 DEF TreeSound, SweptStable, Behind
      <4>5. Ancestors(d) = {d} \union Ancestors(idoms[d])
        BY <1>2, <4>3, AncestorsOfParent DEF Ancestors
      <4>6. Ancestors(idoms[d]) \subseteq Ancestors(u)
        BY <1>2, <3>1, <4>4, AncestorsTransitive DEF Ancestors, IsTree
      <4> QED
        BY <2>2, <3>3, <4>5, <4>6
    <3> QED
      BY <3>4, <3>5
  <2>3. S \subseteq Blocks \ {x}
    BY DEF Reachable, ReachableFrom
  <2>4. b \notin S
    OBVIOUS
  <2>5. S \in ClosedSets(cfg, Entry, x)
    <3> HIDE DEF S
    <3> QED
      BY <2>1, <2>2, <2>3 DEF ClosedSets
  <2>6. b \notin ReachableFrom(cfg, Entry, x)
    <3> HIDE DEF S
    <3> QED
      BY <1>4, <2>4, <2>5, ReachableLeast
  <2> QED
    BY <1>2, <2>6 DEF Dominates
<1> QED
  BY <1>3, <1>4

(* So the tree is then the dominator tree. *)
LEMMA TreeIsTrue ==
    ASSUME BuildInv, Started, TreeSound, ~Sweeping
    PROVE  IdomsTrue /\ Processed = Reachable(cfg)
<1> DEFINE dom == DominatorSets(cfg)
<1>1. pc # "dfs" /\ PostorderInv
  BY SweepPlace
<1>2. IsTree(idoms, postorder_map) /\ InTree(idoms) = Processed
  BY DEF TreeSound, InTree, Processed
<1>3. Processed = Reachable(cfg)
  <2>1. \A b \in Reachable(cfg) : \E k \in 1 .. Len(postorder) : postorder[k] = b
    BY <1>1, SweepBlocks
  <2>2. \A k \in 1 .. Len(postorder) : postorder[k] \in Processed
    BY DEF TreeSound, SweptProcessed, Behind
  <2> QED
    BY <2>1, <2>2 DEF TreeSound
<1>4. ASSUME NEW b \in Processed \ {Entry} PROVE IsImmediateDominator(dom, idoms[b], b)
  <2>1. idoms[b] \in Processed /\ postorder_map[b] < postorder_map[idoms[b]]
    BY <1>2 DEF IsTree
  <2>2. b \in Blocks /\ idoms[b] \in Blocks /\ postorder_map[b] \in Int
    BY <1>2, <2>1 DEF Processed, IsTree, Slots
  <2>3. idoms[b] # b
    BY <2>1, <2>2
  <2>4. idoms[b] \in Ancestors(b)
    BY <1>2, AncestorsOfParent DEF Ancestors
  <2>5. Dominates(cfg, idoms[b], b)
    BY <2>4, AncestorsDominate
  <2>6. \A a \in Blocks \ {b} : Dominates(cfg, a, b) => Dominates(cfg, a, idoms[b])
    BY DEF TreeSound, DominatorsKept, DominatorsPass
  <2>7. /\ dom[b] = {a \in Blocks : Dominates(cfg, a, b)}
        /\ dom[idoms[b]] = {a \in Blocks : Dominates(cfg, a, idoms[b])}
    BY <2>2, DominatorTable
  <2> HIDE DEF dom
  <2> QED
    BY <2>2, <2>3, <2>5, <2>6, <2>7 DEF IsImmediateDominator
<1>5. \A b \in Blocks \ Reachable(cfg) : idoms[b] = UNDEFINED_IDOM
  BY <1>3 DEF Processed
<1>6. \A b \in Processed : idoms[b] # UNDEFINED_IDOM
  BY DEF Processed
<1>7. idoms[Entry] = Entry
  BY <1>2 DEF IsTree
<1> HIDE DEF dom
<1> QED
  BY <1>3, <1>4, <1>5, <1>6, <1>7 DEF IdomsTrue, dom

(* The blocks above a block of the finished tree are its dominators. *)
LEMMA FinishedTree ==
    ASSUME FullInv, Started, ~Sweeping, FirstPredsLater
    PROVE  /\ BuildInv /\ TreeSound /\ pc # "dfs" /\ PostorderInv /\ WellFormed(cfg)
           /\ IsTree(idoms, postorder_map)
           /\ InTree(idoms) = Reachable(cfg) /\ Processed = Reachable(cfg)
           /\ \A b \in Reachable(cfg) :
                 /\ b \in Blocks
                 /\ idoms[b] \in Reachable(cfg)
                 /\ Ancestors(b) = DominatorSets(cfg)[b]
                 /\ Ancestors(b) = {a \in Blocks : Dominates(cfg, a, b)}
                 /\ b \in Ancestors(b) /\ Ancestors(b) \subseteq Reachable(cfg)
<1>1. BuildInv /\ TreeSound /\ pc # "dfs" /\ PostorderInv /\ WellFormed(cfg)
  BY SweepPlace DEF FullInv, TreeInv, PostorderInv, PostorderTypeOK
<1>2. Processed = Reachable(cfg)
  BY <1>1, TreeIsTrue
<1>3. IsTree(idoms, postorder_map) /\ InTree(idoms) = Reachable(cfg)
  BY <1>1, <1>2 DEF TreeSound, InTree, Processed
<1>4. ASSUME NEW b \in Reachable(cfg)
      PROVE  /\ b \in Blocks
             /\ idoms[b] \in Reachable(cfg)
             /\ Ancestors(b) = DominatorSets(cfg)[b]
             /\ Ancestors(b) = {a \in Blocks : Dominates(cfg, a, b)}
             /\ b \in Ancestors(b) /\ Ancestors(b) \subseteq Reachable(cfg)
  <2>1. b \in Blocks
    BY DEF Reachable, ReachableFrom
  <2>2. idoms[b] \in Reachable(cfg)
    BY <1>3, Positions, <1>1 DEF IsTree
  <2>3. b \in Ancestors(b)
    BY <1>3, <2>1, AncestorsClosed DEF IsTree, Ancestors
  <2>4. Ancestors(b) \subseteq Reachable(cfg)
    BY <1>3, AncestorsLater DEF Ancestors
  <2>5. \A d \in Ancestors(b) : d \in Blocks /\ Dominates(cfg, d, b)
    BY <1>1, <1>2, AncestorsDominate DEF Ancestors, AncestorsIn
  <2>6. \A d \in Blocks : Dominates(cfg, d, b) => d \in Ancestors(b)
    BY <1>1, <1>2, DominatorsAbove
  <2> QED
    BY <2>1, <2>2, <2>3, <2>4, <2>5, <2>6, DominatorTable
<1> QED
  BY <1>1, <1>2, <1>3, <1>4

(* The properties the runs check follow from the invariant. *)
LEMMA FullInvGives ==
    ASSUME FullInv
    PROVE  TreeTypeOK /\ IdomsCorrect /\ TreeKeepsDominators /\ FingersInTree /\ ParentsLater
<1>1. BuildInv
  BY DEF FullInv
<1>2. TreeTypeOK
  BY <1>1 DEF BuildInv
<1>3. IdomsCorrect
  BY <1>1, TreeIsTrue DEF IdomsCorrect, FullInv, TreeInv, Started, Sweeping
<1>4. TreeKeepsDominators
  <2> SUFFICES ASSUME pc = "block", FirstPredsLater, NEW b \in Processed
               PROVE  DominatorSets(cfg)[b] \subseteq Ancestors(b)
    BY DEF TreeKeepsDominators
  <2>1. Started /\ TreeSound /\ b \in Blocks
    BY DEF FullInv, TreeInv, Started, Processed
  <2> QED
    BY <1>1, <2>1, DominatorsAbove, DominatorTable
<1>5. FingersInTree
  <2> SUFFICES ASSUME pc = "intersect", FirstPredsLater PROVE {new_idom, b2} \subseteq Processed
    BY DEF FingersInTree
  <2>1. TreeSound /\ Candidate /\ Second
    BY DEF FullInv, TreeInv, Started
  <2>2. new_idom \in Processed /\ Pred \in Processed /\ b2 \in Ancestors(Pred)
    BY <2>1 DEF Candidate, Second, AtBlock
  <2> QED
    BY <2>1, <2>2, AncestorsLater DEF TreeSound, Ancestors, InTree, Processed
<1>6. ParentsLater
  BY DEF ParentsLater, FullInv, TreeInv, TreeSound, IsTree, InTree, Processed, Started
<1> QED
  BY <1>2, <1>3, <1>4, <1>5, <1>6

(* The parent of a block is another of its ancestors. *)
LEMMA ParentIsAbove ==
    ASSUME FullInv, FirstPredsLater, NEW b \in Processed \ {Entry}
    PROVE  /\ Started /\ BuildInv /\ TreeInv /\ b \in Blocks
           /\ \A z \in Blocks : postorder_map[z] \in Int
           /\ idoms[b] \in Ancestors(b) \ {b}
<1>1. Started /\ BuildInv /\ TreeInv /\ b \in Blocks
  BY DEF FullInv, BuildInv, NotStarted, Processed
<1>2. IsTree(idoms, postorder_map) /\ InTree(idoms) = Processed
  BY <1>1 DEF TreeInv, TreeSound, InTree, Processed
<1>3. \A z \in Blocks : postorder_map[z] \in Int
  BY <1>2 DEF IsTree, Slots
<1>4. idoms[b] \in Ancestors(b) /\ postorder_map[b] < postorder_map[idoms[b]]
  BY <1>2, AncestorsOfParent DEF Ancestors, IsTree
<1> QED
  BY <1>1, <1>3, <1>4

(* A step either leaves the parents of the processed blocks alone or moves *)
(* the block of the sweep to one of its ancestors.                         *)
LEMMA StepsMoveUp ==
    ASSUME FullInv, BuildNext, FirstPredsLater, NEW b \in Processed \ {Entry}
    PROVE  idoms'[b] \in Ancestors(b) \ {b}
<1>1. Started /\ BuildInv /\ TreeInv /\ b \in Blocks
  BY ParentIsAbove
<1>3. \A z \in Blocks : postorder_map[z] \in Int
  BY ParentIsAbove
<1>4. idoms[b] \in Ancestors(b) \ {b}
  BY ParentIsAbove
<1>5. CASE EndBlock
  <2>1. CASE b = Current
    <3>1. idoms'[b] = new_idom /\ new_idom \in Ancestors(b)
      BY <1>1, <1>5, <2>1, NewParent, TreeChanges
    <3>2. postorder_map[b] < postorder_map[new_idom]
      BY <1>1, <1>5, <2>1, NewParent
    <3> QED
      BY <1>1, <1>3, <3>1, <3>2
  <2>2. CASE b # Current
    BY <1>1, <1>4, <1>5, <2>2, TreeChanges
  <2> QED
    BY <2>1, <2>2
<1>6. CASE ~EndBlock
  <2>1. ~Traverse /\ ~StartSweeps
    BY <1>1 DEF Traverse, PostorderNext, Descend, SkipChild, Return, Finish, HasChild,
       StartSweeps, Started
  <2>2. idoms' = idoms
    BY <1>6, <2>1 DEF BuildNext, BeginBlock, SkipPred, CallIntersect, ClimbFirst, ClimbSecond,
       EndIntersect, SweepAgain, EndBuild, treeVars
  <2> QED
    BY <1>4, <2>2
<1> QED
  BY <1>5, <1>6

-----------------------------------------------------------------------------

(* On every graph the arrays of build are read and written at blocks or at   *)
(* the word before, and the positions of the sweep stay in range.            *)
THEOREM BuildTypeCorrect == BuildSpec => []TreeTypeOK
BY BuildInvariant, FullInvGives, PTL

(* The fixed point of build is the dominator tree: if every first            *)
(* predecessor comes later in the postorder, each block that can be reached  *)
(* ends with its immediate dominator and the others with none.               *)
THEOREM BuildIdomsCorrect == BuildSpec => []IdomsCorrect
BY BuildInvariant, FullInvGives, PTL

(* Between two blocks of a sweep the ancestors of a block in the unfinished  *)
(* tree have all its dominators among them.                                  *)
THEOREM BuildKeepsDominators == BuildSpec => []TreeKeepsDominators
BY BuildInvariant, FullInvGives, PTL

(* intersect never follows an entry of idoms that is not a block: neither    *)
(* finger is ever UNDEFINED_IDOM.                                            *)
THEOREM BuildFingersInTree == BuildSpec => []FingersInTree
BY BuildInvariant, FullInvGives, PTL

(* The unfinished idoms never has a cycle.                                   *)
THEOREM BuildParentsLater == BuildSpec => []ParentsLater
BY BuildInvariant, FullInvGives, PTL

(* The sweeps move blocks up only, so they cannot oscillate.                 *)
THEOREM BuildBlocksMoveUp == BuildSpec => BlocksMoveUp
<1>1. FullInv /\ BuildNext =>
          (FirstPredsLater => \A b \in Processed \ {Entry} : idoms'[b] \in Ancestors(b) \ {b})
  BY StepsMoveUp
<1> QED
  BY <1>1, BuildInvariant, PTL DEF BuildSpec, BlocksMoveUp

-----------------------------------------------------------------------------
(* What build has left to do after the traversal: the places above the        *)
(* parents of the blocks, whether another sweep is due, and the blocks this   *)
(* one has to process; and of a block the predecessors it has to look at, and *)
(* the places above the two fingers of intersect.                             *)
RoomAbove ==
    {e \in Blocks \X (0 .. NBlocks) :
        e[1] \in Processed => postorder_map[idoms[e[1]]] < e[2]}

TreeSweepsLeft ==
    <<IF Started THEN IF Sweeping THEN 1 ELSE 0 ELSE 2,
      Cardinality(RoomAbove), IF change THEN 1 ELSE 0, i>>

PredsLeft ==
    IF AtBlock /\ j <= Len(cfg.preds[Current]) THEN Len(cfg.preds[Current]) + 1 - j ELSE 0

FingersLeft ==
    IF pc = "intersect"
    THEN (Len(postorder) - postorder_map[new_idom]) + (Len(postorder) - postorder_map[b2])
    ELSE 0

BlockLeft ==
    <<IF AtBlock THEN 0 ELSE 1, PredsLeft, IF pc = "intersect" THEN 0 ELSE 1, FingersLeft>>

BuildLeft == (TraversalLeft \o TreeSweepsLeft) \o BlockLeft

(* These are numbers on every graph, ... *)
SweepsCounted ==
    /\ TraversalLeft \in [1 .. 3 -> Nat]
    /\ TreeSweepsLeft \in [1 .. 4 -> Nat]
    /\ TraversalLeft \o TreeSweepsLeft \in [1 .. 7 -> Nat]
    /\ IsFiniteSet(RoomAbove) /\ Cardinality(RoomAbove) \in Nat
    /\ i \in Nat /\ change \in BOOLEAN
    /\ PredsLeft \in Nat
    /\ pc # "intersect" => BlockLeft \in [1 .. 4 -> Nat]

LEMMA SweepsLeftIs == BuildInv => SweepsCounted
<1> SUFFICES ASSUME BuildInv PROVE SweepsCounted
  OBVIOUS
<1>1. TraversalLeft \in [1 .. 3 -> Nat]
  BY TraversalLeftIs DEF TraversalCounted, BuildInv, PostorderInv
<1>2. i \in Nat /\ change \in BOOLEAN /\ j \in Nat
  BY NBlocksAssumption DEF BuildInv, TreeTypeOK
<1>3. IsFiniteSet(RoomAbove) /\ Cardinality(RoomAbove) \in Nat
  <2>1. 0 \in Int /\ NBlocks \in Int
    BY NBlocksAssumption
  <2>2. IsFiniteSet(Blocks \X (0 .. NBlocks))
    BY <2>1, BlocksFinite, FS_Interval, FS_Product
  <2>3. RoomAbove \in SUBSET (Blocks \X (0 .. NBlocks))
    BY DEF RoomAbove
  <2> QED
    BY <2>2, <2>3, FS_Subset, FS_CardinalityType
<1>4. TreeSweepsLeft \in [1 .. 4 -> Nat]
  BY <1>2, <1>3 DEF TreeSweepsLeft
<1>5. TraversalLeft \o TreeSweepsLeft \in [1 .. 7 -> Nat]
  <2>1. 3 \in Nat /\ 4 \in Nat /\ 3 + 4 = 7
    OBVIOUS
  <2>2. TraversalLeft \o TreeSweepsLeft \in [1 .. 3 + 4 -> Nat]
    BY <1>1, <1>4, <2>1, Together
  <2> QED
    BY <2>1, <2>2
<1>6. PredsLeft \in Nat
  <2>1. AtBlock => Started /\ Placed
    BY DEF AtBlock, Started, Placed
  <2>2. AtBlock => Len(cfg.preds[Current]) \in Nat
    BY <2>1, SweepPlace
  <2> QED
    BY <1>2, <2>2 DEF PredsLeft
<1>7. pc # "intersect" => BlockLeft \in [1 .. 4 -> Nat]
  BY <1>6 DEF BlockLeft, FingersLeft
<1> QED
  BY <1>1, <1>2, <1>3, <1>4, <1>5, <1>6, <1>7 DEF SweepsCounted

(* ... those of intersect on the graphs of FirstPredsLater. *)
FingersCounted ==
    /\ FingersLeft \in Nat
    /\ BlockLeft \in [1 .. 4 -> Nat]
    /\ \A b \in Processed : postorder_map[b] \in 0 .. Len(postorder) - 1
    /\ Len(postorder) \in 0 .. NBlocks

LEMMA FingersLeftIs == BuildInv /\ TreeInv /\ Started => FingersCounted
<1> SUFFICES ASSUME BuildInv, TreeInv, Started PROVE FingersCounted
  OBVIOUS
<1>1. \A b \in Processed : postorder_map[b] \in 0 .. Len(postorder) - 1
  BY Positions DEF TreeInv, TreeSound
<1>2. PredsLeft \in Nat
  BY SweepsLeftIs DEF SweepsCounted
<1>3. Len(postorder) \in 0 .. NBlocks
  BY OrderLength DEF BuildInv
<1>4. FingersLeft \in Nat
  <2>1. CASE pc = "intersect"
    <3>1. new_idom \in Processed /\ b2 \in Ancestors(Pred) /\ Pred \in Processed
      BY <2>1 DEF TreeInv, Candidate, Second, AtBlock
    <3>2. b2 \in Processed
      BY <3>1, AncestorsLater DEF TreeInv, TreeSound, Ancestors, InTree, Processed
    <3>3. postorder_map[new_idom] \in 0 .. Len(postorder) - 1
      BY <1>1, <3>1
    <3>4. postorder_map[b2] \in 0 .. Len(postorder) - 1
      BY <1>1, <3>2
    <3> QED
      BY <1>3, <2>1, <3>3, <3>4 DEF FingersLeft
  <2>2. CASE pc # "intersect"
    BY <2>2 DEF FingersLeft
  <2> QED
    BY <2>1, <2>2
<1> QED
  BY <1>1, <1>2, <1>3, <1>4 DEF FingersCounted, BlockLeft

(* Moving a block up leaves less room above the parents. *)
LEMMA RoomLost ==
    ASSUME BuildInv, TreeInv, FirstPredsLater, EndBlock, idoms[Current] # new_idom
    PROVE  Cardinality(RoomAbove') < Cardinality(RoomAbove)
<1>1. /\ Started /\ TreeSound /\ Placed
      /\ UNCHANGED <<postorder, postorder_map>>
  BY DEF EndBlock, Started, TreeInv, Placed, AtBlock
<1>2. IsTree(idoms, postorder_map) /\ InTree(idoms) = Processed
  BY <1>1 DEF TreeSound, InTree, Processed
<1>3. /\ new_idom \in Processed /\ Current \in Blocks \ {Entry}
      /\ Current \in Processed => new_idom \in Ancestors(idoms[Current])
  BY NewParent
<1>4. /\ idoms'[Current] = new_idom
      /\ \A b \in Blocks \ {Current} : idoms'[b] = idoms[b]
  BY TreeChanges
<1> DEFINE at == postorder_map[new_idom]
           c == Current
<1>5. at \in 0 .. NBlocks
  <2>1. FingersCounted
    BY <1>1, FingersLeftIs
  <2>2. at \in 0 .. Len(postorder) - 1 /\ Len(postorder) \in 0 .. NBlocks
    BY <1>3, <2>1 DEF FingersCounted
  <2> HIDE DEF at
  <2> QED
    BY <2>2, NBlocksAssumption
<1>6. c \in Processed => postorder_map[idoms[c]] \in Int /\ postorder_map[idoms[c]] < at
  <2> SUFFICES ASSUME c \in Processed
               PROVE  postorder_map[idoms[c]] \in Int /\ postorder_map[idoms[c]] < at
    OBVIOUS
  <2>1. idoms[c] \in Processed
    BY <1>2, <1>3 DEF IsTree
  <2>2. postorder_map[idoms[c]] < at
    BY <1>2, <1>3, <2>1, AncestorsLater DEF Ancestors
  <2>3. postorder_map[idoms[c]] \in Int
    <3>1. FingersCounted
      BY <1>1, FingersLeftIs
    <3> QED
      BY <2>1, <3>1 DEF FingersCounted
  <2> QED
    BY <2>2, <2>3
<1>7. new_idom # UNDEFINED_IDOM
  BY <1>3, UndefinedIsNone DEF Processed
<1>8. c \in Processed'
  BY <1>3, <1>4, <1>7 DEF Processed
<1>9. c \in Blocks /\ idoms'[c] = new_idom
  BY <1>3, <1>4
<1>10. \A b \in Blocks \ {c} : idoms'[b] = idoms[b] /\ (b \in Processed' <=> b \in Processed)
  BY <1>4 DEF Processed
<1>11. postorder_map' = postorder_map
  BY <1>1
<1>12. IsFiniteSet(RoomAbove)
  BY SweepsLeftIs DEF SweepsCounted
<1> DEFINE e == <<c, at>>
<1> HIDE DEF c
<1>13. e \in RoomAbove
  BY <1>5, <1>6, <1>9 DEF RoomAbove
<1>14. e \notin RoomAbove'
  BY <1>5, <1>8, <1>9, <1>11 DEF RoomAbove
<1>15. RoomAbove' \subseteq RoomAbove
  <2> SUFFICES ASSUME NEW x \in RoomAbove' PROVE x \in RoomAbove
    OBVIOUS
  <2>1. /\ x \in Blocks \X (0 .. NBlocks)
        /\ x[1] \in Processed' => postorder_map[idoms'[x[1]]] < x[2]
    BY <1>11 DEF RoomAbove
  <2>2. CASE x[1] = c
    <3>1. at < x[2] /\ x[2] \in Int
      BY <1>8, <1>9, <2>1, <2>2
    <3>2. c \in Processed => postorder_map[idoms[c]] < x[2]
      BY <1>5, <1>6, <3>1
    <3> QED
      BY <2>1, <2>2, <3>2 DEF RoomAbove
  <2>3. CASE x[1] # c
    <3>1. x[1] \in Processed => postorder_map[idoms[x[1]]] < x[2]
      BY <1>10, <2>1, <2>3
    <3> QED
      BY <2>1, <3>1 DEF RoomAbove
  <2> QED
    BY <2>2, <2>3
<1> HIDE DEF e
<1> QED
  BY <1>12, <1>13, <1>14, <1>15, FewerLeft

(* The part of the tuple that changes: a step lowers either what is left of *)
(* the sweeps, or keeps that and lowers what is left of the block.          *)
LEMMA SweepsLower ==
    ASSUME SweepsCounted, SweepsCounted', pc # "intersect", pc' # "intersect",
           TraversalLeft' = TraversalLeft,
           <<TreeSweepsLeft', TreeSweepsLeft>> \in Lexicographic(4)
    PROVE  <<BuildLeft', BuildLeft>> \in Lexicographic(11)
<1>1. 3 \in Nat /\ 4 \in Nat /\ 7 \in Nat /\ 3 + 4 = 7 /\ 7 + 4 = 11
  OBVIOUS
<1>2. TraversalLeft \in [1 .. 3 -> Nat]
  BY DEF SweepsCounted
<1>3. <<TraversalLeft \o TreeSweepsLeft', TraversalLeft \o TreeSweepsLeft>> \in Lexicographic(3 + 4)
  BY <1>1, <1>2, LowerBehind
<1>4. <<TraversalLeft' \o TreeSweepsLeft', TraversalLeft \o TreeSweepsLeft>> \in Lexicographic(7)
  BY <1>1, <1>3
<1>5. BlockLeft \in [1 .. 4 -> Nat] /\ BlockLeft' \in [1 .. 4 -> Nat]
  BY DEF SweepsCounted
<1>6. <<(TraversalLeft' \o TreeSweepsLeft') \o BlockLeft', (TraversalLeft \o TreeSweepsLeft) \o BlockLeft>>
        \in Lexicographic(7 + 4)
  BY <1>1, <1>4, <1>5, LowerBefore
<1> QED
  BY <1>1, <1>6 DEF BuildLeft

LEMMA BlockLowers ==
    ASSUME SweepsCounted, TraversalLeft' = TraversalLeft, TreeSweepsLeft' = TreeSweepsLeft,
           <<BlockLeft', BlockLeft>> \in Lexicographic(4)
    PROVE  <<BuildLeft', BuildLeft>> \in Lexicographic(11)
<1>1. 4 \in Nat /\ 7 \in Nat /\ 7 + 4 = 11
  OBVIOUS
<1>2. TraversalLeft \o TreeSweepsLeft \in [1 .. 7 -> Nat]
  BY DEF SweepsCounted
<1>3. <<(TraversalLeft \o TreeSweepsLeft) \o BlockLeft', (TraversalLeft \o TreeSweepsLeft) \o BlockLeft>>
        \in Lexicographic(7 + 4)
  BY <1>1, <1>2, LowerBehind
<1> QED
  BY <1>1, <1>3 DEF BuildLeft

(* The steps from block to block ... *)
LEMMA StartSweepsLowers ==
    ASSUME BuildInv, BuildInv', StartSweeps
    PROVE  <<BuildLeft', BuildLeft>> \in Lexicographic(11)
<1>1. SweepsCounted /\ (BuildInv' => SweepsCounted')
  <2>1. BuildInv' => SweepsCounted'
    BY SweepsLeftIs, PTL
  <2> QED
    BY <2>1, SweepsLeftIs
<1>2. /\ pc = "ordered" /\ pc' = "block"
      /\ TraversalLeft' = TraversalLeft
  BY DEF StartSweeps, TraversalLeft, Unlooked
<1>3. ~Started /\ Started' /\ Sweeping'
  BY <1>2 DEF Started, Sweeping
<1>4. /\ TreeSweepsLeft = <<2, Cardinality(RoomAbove), IF change THEN 1 ELSE 0, i>>
      /\ TreeSweepsLeft' = <<1, Cardinality(RoomAbove'), IF change' THEN 1 ELSE 0, i'>>
  BY <1>3 DEF TreeSweepsLeft
<1>5. /\ Cardinality(RoomAbove) \in Nat /\ i \in Nat
      /\ Cardinality(RoomAbove') \in Nat /\ i' \in Nat
      /\ (IF change THEN 1 ELSE 0) \in Nat /\ (IF change' THEN 1 ELSE 0) \in Nat
  BY <1>1 DEF SweepsCounted
<1>6. 1 \in Nat /\ 2 \in Nat /\ 1 < 2
  OBVIOUS
<1>7. <<TreeSweepsLeft', TreeSweepsLeft>> \in Lexicographic(4)
  BY <1>4, <1>5, <1>6, LowerOfFour
<1> QED
  BY <1>1, <1>2, <1>7, SweepsLower

LEMMA BetweenBlocksLowers ==
    ASSUME BuildInv, BuildInv', Started => TreeInv, FirstPredsLater,
           EndBlock \/ SweepAgain \/ EndBuild
    PROVE  <<BuildLeft', BuildLeft>> \in Lexicographic(11)
<1>1. SweepsCounted /\ SweepsCounted'
  <2>1. BuildInv' => SweepsCounted'
    BY SweepsLeftIs, PTL
  <2> QED
    BY <2>1, SweepsLeftIs
<1>2. /\ pc \in {"block", "preds"} /\ pc' \in {"block", "built"}
      /\ TraversalLeft' = TraversalLeft
  BY DEF EndBlock, SweepAgain, EndBuild, dfsVars, postorderVars, TraversalLeft, Unlooked
<1>3. Started /\ Sweeping /\ Started' /\ (Sweeping' <=> pc' = "block") /\ TreeInv
  BY <1>2 DEF Started, Sweeping
<1> DEFINE c1 == IF change THEN 1 ELSE 0
           room == Cardinality(RoomAbove)
<1>4. /\ TreeSweepsLeft = <<1, room, c1, i>>
      /\ TreeSweepsLeft' = <<IF pc' = "block" THEN 1 ELSE 0, room', c1', i'>>
  BY <1>3 DEF TreeSweepsLeft
<1>5. room \in Nat /\ i \in Nat /\ room' \in Nat /\ i' \in Nat
  BY <1>1 DEF SweepsCounted
<1>6. c1 \in Nat /\ c1' \in Nat
  OBVIOUS
<1>7. 0 \in Nat /\ 1 \in Nat /\ 0 < 1
  OBVIOUS
<1>8. <<TreeSweepsLeft', TreeSweepsLeft>> \in Lexicographic(4)
  <2>1. CASE EndBlock /\ idoms[Current] # new_idom
    <3>1. room' < room
      BY <1>3, <2>1, RoomLost
    <3>2. TreeSweepsLeft' = <<1, room', c1', i'>>
      BY <1>4, <2>1 DEF EndBlock
    <3> HIDE DEF c1, room
    <3> QED
      BY <1>4, <1>5, <1>6, <1>7, <3>1, <3>2, LowerOfFour
  <2>2. CASE EndBlock /\ idoms[Current] = new_idom
    <3>1. i' = i - 1 /\ change' = change /\ pc' = "block"
      BY <1>1, <2>2 DEF EndBlock, NextPosition, SweepsCounted
    <3>2. Placed /\ AtBlock
      BY <2>2 DEF EndBlock, Placed, AtBlock
    <3>3. i' < i /\ i >= 1
      BY <1>3, <1>5, <3>1
    <3>4. Current \in Blocks
      BY <1>3, <3>2, SweepPlace
    <3>5. idoms' = idoms
      <4>1. idoms \in [Slots -> Slots]
        BY <1>3, SweepPlace
      <4> QED
        BY <2>2, <4>1 DEF EndBlock
    <3>6. room' = room
      <4>1. postorder_map' = postorder_map
        BY <2>2 DEF EndBlock
      <4> QED
        BY <3>5, <4>1 DEF RoomAbove, Processed
    <3>7. TreeSweepsLeft' = <<1, room, c1, i'>>
      BY <1>4, <3>1, <3>6
    <3> HIDE DEF c1, room
    <3> QED
      BY <1>4, <1>5, <1>6, <1>7, <3>3, <3>7, LowerOfFour
  <2>3. CASE SweepAgain
    <3>1. pc' = "block" /\ change /\ ~change'
      BY <1>1, <1>2, <2>3 DEF SweepAgain, Settled, FreshChange, postorderVars, SweepsCounted
    <3>2. room' = room
      BY <2>3 DEF SweepAgain, RoomAbove, Processed
    <3>3. c1' < c1 /\ TreeSweepsLeft' = <<1, room, c1', i'>>
      BY <1>4, <3>1, <3>2
    <3> HIDE DEF c1, room
    <3> QED
      BY <1>4, <1>5, <1>6, <1>7, <3>3, LowerOfFour
  <2>4. CASE EndBuild
    <3>1. TreeSweepsLeft' = <<0, room', c1', i'>>
      BY <1>4, <2>4 DEF EndBuild
    <3> HIDE DEF c1, room
    <3> QED
      BY <1>4, <1>5, <1>6, <1>7, <3>1, LowerOfFour
  <2> QED
    BY <2>1, <2>2, <2>3, <2>4
<1> QED
  BY <1>1, <1>2, <1>8, SweepsLower

(* ... and those within a block. *)
LEMMA WithinBlockLowers ==
    ASSUME BuildInv, BuildInv', Started => TreeInv, Started' => TreeInv',
           \/ BeginBlock \/ SkipPred \/ CallIntersect
           \/ ClimbFirst \/ ClimbSecond \/ EndIntersect
    PROVE  <<BuildLeft', BuildLeft>> \in Lexicographic(11)
<1>1. SweepsCounted /\ SweepsCounted'
  <2>1. BuildInv' => SweepsCounted'
    BY SweepsLeftIs, PTL
  <2> QED
    BY <2>1, SweepsLeftIs
<1>2. /\ Sweeping /\ Sweeping' /\ Started /\ Started'
      /\ UNCHANGED <<cfg, visited, postorder, path, cursor, idoms, postorder_map, change, i>>
  BY DEF BeginBlock, SkipPred, MorePreds, CallIntersect, ClimbFirst, ClimbSecond, EndIntersect,
     Started, Sweeping, dfsVars, postorderVars
<1>3. TreeInv /\ TreeInv'
  BY <1>2
<1>4. FingersCounted /\ FingersCounted'
  <2>1. BuildInv' /\ TreeInv' /\ Started' => FingersCounted'
    BY FingersLeftIs, PTL
  <2> QED
    BY <1>2, <1>3, <2>1, FingersLeftIs
<1>5. TraversalLeft' = TraversalLeft /\ TreeSweepsLeft' = TreeSweepsLeft
  <2>1. (pc = "dfs" <=> pc' = "dfs") /\ Unlooked' = Unlooked
    BY <1>2 DEF Unlooked, Sweeping
  <2>2. RoomAbove' = RoomAbove
    BY <1>2 DEF RoomAbove, Processed
  <2> QED
    BY <1>2, <2>1, <2>2 DEF TraversalLeft, TreeSweepsLeft
<1>6. Current' = Current /\ cfg' = cfg
  BY <1>2 DEF Current
<1>7. PredsLeft \in Nat /\ PredsLeft' \in Nat /\ FingersLeft \in Nat /\ FingersLeft' \in Nat
  BY <1>1, <1>4 DEF SweepsCounted, FingersCounted
<1>8. 0 \in Nat /\ 1 \in Nat /\ 0 < 1
  OBVIOUS
<1>9. AtBlock => j \in Nat /\ Len(cfg.preds[Current]) \in Nat
  BY <1>2, SweepPlace DEF AtBlock, Placed
<1>10. <<BlockLeft', BlockLeft>> \in Lexicographic(4)
  <2>1. CASE BeginBlock
    <3>1. /\ BlockLeft = <<1, PredsLeft, 1, FingersLeft>>
          /\ BlockLeft' = <<0, PredsLeft', 1, FingersLeft'>>
      BY <2>1 DEF BeginBlock, BlockLeft, AtBlock
    <3> QED
      BY <1>7, <1>8, <3>1, LowerOfFour
  <2>2. CASE SkipPred
    <3>1. pc = "preds" /\ pc' = "preds" /\ j <= Len(cfg.preds[Current]) /\ j' = j + 1
      BY <2>2 DEF SkipPred, MorePreds, postorderVars
    <3>2. /\ BlockLeft = <<0, PredsLeft, 1, FingersLeft>>
          /\ BlockLeft' = <<0, PredsLeft', 1, FingersLeft'>>
      BY <3>1 DEF BlockLeft, AtBlock
    <3>3. PredsLeft' < PredsLeft
      BY <1>6, <1>9, <3>1 DEF PredsLeft, AtBlock
    <3> QED
      BY <1>7, <1>8, <3>2, <3>3, LowerOfFour
  <2>3. CASE CallIntersect
    <3>1. pc = "preds" /\ pc' = "intersect" /\ j' = j
      BY <2>3 DEF CallIntersect, MorePreds
    <3>2. /\ BlockLeft = <<0, PredsLeft, 1, FingersLeft>>
          /\ BlockLeft' = <<0, PredsLeft', 0, FingersLeft'>>
      BY <3>1 DEF BlockLeft, AtBlock
    <3>3. PredsLeft' = PredsLeft
      BY <1>6, <3>1 DEF PredsLeft, AtBlock
    <3> QED
      BY <1>7, <1>8, <3>2, <3>3, LowerOfFour
  <2>4. CASE ClimbFirst \/ ClimbSecond
    <3>1. /\ pc = "intersect" /\ pc' = "intersect" /\ j' = j /\ new_idom # b2
          /\ \/ FirstClimbs(new_idom, b2) /\ new_idom' = idoms[new_idom] /\ b2' = b2
             \/ ~FirstClimbs(new_idom, b2) /\ b2' = idoms[b2] /\ new_idom' = new_idom
      BY <2>4 DEF ClimbFirst, ClimbSecond, postorderVars
    <3>2. /\ BlockLeft = <<0, PredsLeft, 0, FingersLeft>>
          /\ BlockLeft' = <<0, PredsLeft', 0, FingersLeft'>>
      BY <3>1 DEF BlockLeft, AtBlock
    <3>3. PredsLeft' = PredsLeft
      BY <1>6, <3>1 DEF PredsLeft, AtBlock
    <3>4. /\ {new_idom, b2} \subseteq Processed
          /\ FirstClimbs(new_idom, b2) => new_idom # Entry /\ new_idom \notin Ancestors(b2)
          /\ ~FirstClimbs(new_idom, b2) => b2 # Entry /\ b2 \notin Ancestors(new_idom)
      BY <1>3, <3>1, Fingers
    <3>5. DominatorsPass(Current, new_idom) /\ DominatorsPass(Current, b2)
      BY <1>3, <3>1 DEF TreeInv, Candidate, Second, AtBlock
    <3>6. /\ FirstClimbs(new_idom, b2) =>
                idoms[new_idom] \in Processed /\ postorder_map[new_idom] < postorder_map[idoms[new_idom]]
          /\ ~FirstClimbs(new_idom, b2) =>
                idoms[b2] \in Processed /\ postorder_map[b2] < postorder_map[idoms[b2]]
      BY <1>3, <3>1, <3>4, <3>5, FingerClimbs
    <3>7. \A b \in Processed : postorder_map[b] \in Int
      BY <1>4 DEF FingersCounted
    <3>8. Len(postorder) \in Int
      BY <1>4, NBlocksAssumption DEF FingersCounted
    <3> DEFINE x == postorder_map[new_idom]
               y == postorder_map[b2]
               u == postorder_map[new_idom']
               v == postorder_map[b2']
    <3>9. x \in Int /\ y \in Int /\ u \in Int /\ v \in Int /\ ((x < u /\ v = y) \/ (y < v /\ u = x))
      BY <3>1, <3>4, <3>6, <3>7
    <3>10. /\ FingersLeft = (Len(postorder) - x) + (Len(postorder) - y)
           /\ FingersLeft' = (Len(postorder) - u) + (Len(postorder) - v)
      BY <1>2, <3>1 DEF FingersLeft
    <3> HIDE DEF x, y, u, v
    <3>11. FingersLeft' < FingersLeft
      BY <3>8, <3>9, <3>10
    <3> QED
      BY <1>7, <1>8, <3>2, <3>3, <3>11, LowerOfFour
  <2>5. CASE EndIntersect
    <3>1. pc = "intersect" /\ pc' = "preds" /\ j' = j + 1
      BY <2>5 DEF EndIntersect
    <3>2. j <= Len(cfg.preds[Current])
      BY <1>3, <3>1 DEF TreeInv, Second
    <3>3. /\ BlockLeft = <<0, PredsLeft, 0, FingersLeft>>
          /\ BlockLeft' = <<0, PredsLeft', 1, FingersLeft'>>
      BY <3>1 DEF BlockLeft, AtBlock
    <3>4. PredsLeft' < PredsLeft
      BY <1>6, <1>9, <3>1, <3>2 DEF PredsLeft, AtBlock
    <3> QED
      BY <1>7, <1>8, <3>3, <3>4, LowerOfFour
  <2> QED
    BY <2>1, <2>2, <2>3, <2>4, <2>5
<1> QED
  BY <1>1, <1>5, <1>10, BlockLowers

LEMMA TraverseLowers ==
    ASSUME BuildInv, BuildInv', Traverse
    PROVE  <<BuildLeft', BuildLeft>> \in Lexicographic(11)
<1>1. SweepsCounted /\ SweepsCounted'
  <2>1. BuildInv' => SweepsCounted'
    BY SweepsLeftIs, PTL
  <2> QED
    BY <2>1, SweepsLeftIs
<1>2. /\ pc = "dfs" /\ pc' \in {"dfs", "ordered"} /\ UNCHANGED treeVars
  BY DEF Traverse, PostorderNext, Descend, SkipChild, Return, Finish, HasChild
<1>3. <<TraversalLeft', TraversalLeft>> \in Lexicographic(3)
  BY TraversalRunsDown DEF BuildInv, Traverse
<1>4. 3 \in Nat /\ 4 \in Nat /\ 7 \in Nat /\ 3 + 4 = 7 /\ 7 + 4 = 11
  OBVIOUS
<1>5. /\ TreeSweepsLeft \in [1 .. 4 -> Nat] /\ TreeSweepsLeft' \in [1 .. 4 -> Nat]
      /\ BlockLeft \in [1 .. 4 -> Nat] /\ BlockLeft' \in [1 .. 4 -> Nat]
  BY <1>1, <1>2 DEF SweepsCounted
<1>6. <<TraversalLeft' \o TreeSweepsLeft', TraversalLeft \o TreeSweepsLeft>> \in Lexicographic(7)
  <2>1. <<TraversalLeft' \o TreeSweepsLeft', TraversalLeft \o TreeSweepsLeft>> \in Lexicographic(3 + 4)
    BY <1>3, <1>4, <1>5, LowerBefore
  <2> QED
    BY <1>4, <2>1
<1>7. <<(TraversalLeft' \o TreeSweepsLeft') \o BlockLeft', (TraversalLeft \o TreeSweepsLeft) \o BlockLeft>>
        \in Lexicographic(7 + 4)
  BY <1>4, <1>5, <1>6, LowerBefore
<1> QED
  BY <1>4, <1>7 DEF BuildLeft

LEMMA BuildRunsDown ==
    ASSUME FullInv, BuildNext, Started => FirstPredsLater
    PROVE  <<BuildLeft', BuildLeft>> \in Lexicographic(11)
<1>1. BuildInv /\ BuildInv' /\ FullInv' /\ (Started => TreeInv)
  BY BuildNext_Full DEF FullInv
<1>2. CASE Traverse
  BY <1>1, <1>2, TraverseLowers
<1>3. CASE StartSweeps
  BY <1>1, <1>3, StartSweepsLowers
<1>4. CASE BuildNext /\ ~Traverse /\ ~StartSweeps
  <2>1. Started /\ cfg' = cfg /\ postorder' = postorder
    BY <1>4 DEF BuildNext, BeginBlock, SkipPred, MorePreds, CallIntersect, ClimbFirst,
       ClimbSecond, EndIntersect, EndBlock, SweepAgain, EndBuild, Started, postorderVars
  <2>2. FirstPredsLater /\ FirstPredsLater'
    BY <2>1 DEF FirstPredsLater
  <2>3. Started' => TreeInv'
    BY <1>1, <2>2 DEF FullInv
  <2> QED
    BY <1>1, <1>4, <2>2, <2>3, WithinBlockLowers, BetweenBlocksLowers DEF BuildNext
<1> QED
  BY <1>2, <1>3, <1>4

(* build cannot go on for ever on the graphs that FirstPredsLater describes: *)
(* every step of the traversal, of a sweep, of a block and of intersect      *)
(* lowers what is left.  The sweeps end because a sweep that is repeated has *)
(* moved a block up, and there is only so much room above the blocks.        *)
BuildDescends ==
    [][(Started => FirstPredsLater) =>
            <<BuildLeft', BuildLeft>> \in Lexicographic(11)]_buildVars

THEOREM BuildCannotGoOn == BuildSpec => BuildDescends
<1>1. FullInv /\ [BuildNext]_buildVars
        => [(Started => FirstPredsLater) =>
                <<BuildLeft', BuildLeft>> \in Lexicographic(11)]_buildVars
  BY BuildRunsDown
<1> QED
  BY <1>1, BuildInvariant, PTL DEF BuildSpec, BuildDescends

-----------------------------------------------------------------------------
(* dom_frontiers: its arrays are read and written in range, and on the     *)
(* graphs it is meant for the runners never leave the tree and the         *)
(* finished sets are the dominance frontiers.  The invariant says which    *)
(* runners have passed which blocks.                                       *)

Walking == pc \in {"join", "run", "fronts", "crashed"}

(* The blocks between a predecessor u of m and the parent of m. *)
Between(u, m) == Ancestors(u) \ Ancestors(idoms[m])

(* The walks for m from its first k predecessors have passed b. *)
Passed(b, m, k) ==
    \E q \in 1 .. Len(cfg.preds[m]) : q <= k /\ b \in Between(cfg.preds[m][q], m)

(* A block is in the frontiers of the blocks the walks for it have passed. *)
FrontierSoFar(b, m) ==
    /\ IsJoinPoint(m)
    /\ \/ m < n /\ Passed(b, m, Len(cfg.preds[m]))
       \/ /\ m = n /\ pc = "run"
          /\ \/ Passed(b, m, p - 1)
             \/ b \in Between(cfg.preds[m][p], m) \ Ancestors(runner)

RunnerAbove ==
    pc = "run" =>
        /\ IsJoinPoint(n)
        /\ runner \in Ancestors(cfg.preds[n][p])
        /\ idoms[n] \in Ancestors(runner)

WalkInv ==
    /\ \A b, m \in Blocks : m \in DF[b] <=> FrontierSoFar(b, m)
    /\ RunnerAbove
    /\ pc # "crashed"
    /\ pc = "fronts" => n = NBlocks

WalkRange ==
    pc = "run" => n < NBlocks /\ p \in 1 .. Len(cfg.preds[n])

FrontInv ==
    /\ FullInv
    /\ FrontiersTypeOK
    /\ WalkRange
    /\ ~Walking => \A b \in Blocks : DF[b] = {}
    /\ Walking /\ Regular => WalkInv

-----------------------------------------------------------------------------

(* Over a finished tree of all blocks the ancestors of a block are its *)
(* dominators.                                                         *)
LEMMA RegularTree ==
    ASSUME FullInv, Started, ~Sweeping, Regular
    PROVE  /\ BuildInv /\ TreeSound /\ pc # "dfs" /\ PostorderInv /\ WellFormed(cfg)
           /\ IsTree(idoms, postorder_map) /\ InTree(idoms) = Blocks /\ Processed = Blocks
           /\ Reachable(cfg) = Blocks
           /\ \A b \in Blocks : idoms[b] \in Blocks
           /\ \A b \in Blocks : Ancestors(b) = DominatorSets(cfg)[b]
           /\ \A b \in Blocks : b \in Ancestors(b) /\ Ancestors(b) \subseteq Blocks
BY FinishedTree DEF Regular, AllReachable

(* The parent of a block is above all its predecessors, and above the one *)
(* predecessor of a block that has no other there is nothing else.        *)
LEMMA ParentAbovePreds ==
    ASSUME FullInv, Started, ~Sweeping, Regular, NEW m \in Blocks, NEW u \in Preds(cfg, m)
    PROVE  u \in Blocks /\ idoms[m] \in Ancestors(u)
<1>1. /\ BuildInv /\ TreeSound /\ pc # "dfs" /\ PostorderInv /\ WellFormed(cfg)
      /\ Processed = Blocks /\ Reachable(cfg) = Blocks /\ IsTree(idoms, postorder_map)
  BY RegularTree
<1>2. u \in Blocks /\ m \in Succs(cfg, u)
  BY <1>1, NeighboursAreBlocks DEF WellFormed
<1>3. CASE m = Entry
  <2>1. Dominates(cfg, Entry, u)
    BY <1>1, <1>2 DEF Dominates, ReachableFrom
  <2>2. Entry \in Ancestors(u)
    BY <1>1, <1>2, <2>1, EntryIsBlock, DominatorsAbove
  <2> QED
    BY <1>1, <1>2, <1>3, <2>2 DEF IsTree
<1>4. CASE m # Entry
  <2>1. PICK k \in 1 .. Len(postorder) : postorder[k] = m
    BY <1>1, SweepBlocks
  <2>2. k # Len(postorder)
    BY <1>1, <1>4, <2>1, SweepBlocks
  <2>3. Len(postorder) \in Nat \ {0}
    BY <1>1, SweepPlace
  <2>4. k \in 1 .. Len(postorder) - 1
    BY <2>1, <2>2, <2>3
  <2>5. ~Sweeping
    OBVIOUS
  <2> QED
    BY <1>1, <1>2, <2>1, <2>4, <2>5 DEF TreeSound, SweptStable, Behind
<1> QED
  BY <1>3, <1>4

LEMMA NoJoin ==
    ASSUME FullInv, Started, ~Sweeping, Regular, NEW m \in Blocks \ {Entry}, ~IsJoinPoint(m),
           NEW u \in Preds(cfg, m)
    PROVE  Between(u, m) = {}
<1>1. /\ TreeSound /\ WellFormed(cfg) /\ IsTree(idoms, postorder_map)
      /\ Processed = Blocks /\ Reachable(cfg) = Blocks
      /\ \A b \in Blocks : b \in Ancestors(b) /\ idoms[b] \in Blocks
  BY RegularTree
<1>2. u \in Blocks
  BY ParentAbovePreds
<1>3. cfg.preds[m] \in Seq(Blocks) /\ Len(cfg.preds[m]) \in Nat \ {0}
  BY <1>1, ReachedFromPred
<1>4. Len(cfg.preds[m]) = 1
  <2> DEFINE len == Len(cfg.preds[m])
  <2>1. len \in Nat /\ len # 0 /\ ~(len > 1)
    BY <1>3 DEF IsJoinPoint
  <2> HIDE DEF len
  <2>2. len = 1
    BY <2>1
  <2> QED
    BY <2>2 DEF len
<1>5. \A v \in Preds(cfg, m) : v = u
  BY <1>4 DEF Preds
<1>6. \A v \in Preds(cfg, m) \cap Processed : u \in Ancestors(v)
  BY <1>1, <1>2, <1>5
<1>7. u \in Ancestors(idoms[m])
  BY <1>1, <1>2, <1>6 DEF TreeSound, CommonKept
<1>8. Ancestors(u) \subseteq Ancestors(idoms[m])
  BY <1>1, <1>7, AncestorsTransitive DEF Ancestors, IsTree
<1> QED
  BY <1>8 DEF Between

-----------------------------------------------------------------------------

(* The walks leave the graph and the tree alone. *)
LEMMA WalkFrame ==
    ASSUME FrontInv, UNCHANGED <<cfg, dfsVars, postorder, treeVars>>,
           Walking \/ pc = "built", Walking'
    PROVE  /\ FullInv' /\ TreeTypeOK'
           /\ Started /\ ~Sweeping
           /\ Regular' <=> Regular
           /\ \A b : Ancestors(b)' = Ancestors(b)
           /\ \A u, m : Between(u, m)' = Between(u, m)
           /\ \A m : IsJoinPoint(m)' <=> IsJoinPoint(m)
           /\ \A b, m, k : Passed(b, m, k)' <=> Passed(b, m, k)
<1>1. Started /\ ~Sweeping /\ Started' /\ ~Sweeping'
  BY DEF Walking, Started, Sweeping
<1>2. FullInv'
  BY <1>1, Frame_Full DEF FrontInv, dfsVars
<1>3. TreeTypeOK'
  BY <1>2 DEF FullInv, BuildInv
<1>4. idoms' = idoms
  BY DEF treeVars
<1>5. /\ Regular' <=> Regular
      /\ \A b : Ancestors(b)' = Ancestors(b)
      /\ \A m : IsJoinPoint(m)' <=> IsJoinPoint(m)
  BY <1>4 DEF Regular, AllReachable, FirstPredsLater, Ancestors, IsJoinPoint
<1>6. \A u, m : Between(u, m)' = Between(u, m)
  BY <1>4, <1>5 DEF Between
<1>7. \A b, m, k : Passed(b, m, k)' <=> Passed(b, m, k)
  BY <1>6 DEF Passed
<1> QED
  BY <1>1, <1>2, <1>3, <1>5, <1>6, <1>7

(* The types of the walk, and the lists of predecessors it reads. *)
LEMMA WalkTypes ==
    ASSUME FrontInv
    PROVE  /\ DF \in [Blocks -> SUBSET Blocks]
           /\ n \in 0 .. NBlocks /\ NBlocks \in Nat /\ p \in Nat /\ runner \in Slots
           /\ idoms \in [Slots -> Slots]
           /\ \A m \in Blocks : cfg.preds[m] \in Seq(Blocks) /\ Len(cfg.preds[m]) \in Nat
           /\ \A m \in 0 .. NBlocks : m < NBlocks <=> m \in Blocks
<1>1. cfg \in Cfg
  BY DEF FrontInv, FullInv, BuildInv, PostorderInv, PostorderTypeOK, WellFormed
<1>2. \A m \in Blocks : cfg.preds[m] \in Seq(Blocks)
  BY <1>1 DEF Cfg
<1>3. \A m \in 0 .. NBlocks : m < NBlocks <=> m \in Blocks
  BY NBlocksAssumption DEF Blocks
<1> QED
  BY <1>2, <1>3, NBlocksAssumption DEF FrontInv, FrontiersTypeOK, TreeTypeOK

LEMMA Init_Front == FrontiersInit => FrontInv
<1> SUFFICES ASSUME FrontiersInit PROVE FrontInv
  OBVIOUS
<1>1. FullInv
  BY TreeInit_Full DEF FrontiersInit
<1>2. pc = "dfs"
  BY DEF FrontiersInit, TreeInit, PostorderInit
<1>3. TreeTypeOK
  BY <1>1 DEF FullInv, BuildInv
<1>4. 0 \in Blocks /\ 0 \in 0 .. NBlocks
  BY NBlocksAssumption DEF Blocks
<1>5. FrontiersTypeOK
  BY <1>3, <1>4 DEF FrontiersInit, FrontiersTypeOK, Slots
<1> QED
  BY <1>1, <1>2, <1>5 DEF FrontiersInit, FrontInv, WalkRange, Walking

LEMMA Build_Front == FrontInv /\ FrontiersBuild => FrontInv'
<1> SUFFICES ASSUME FrontInv, FrontiersBuild PROVE FrontInv'
  OBVIOUS
<1>1. BuildNext /\ UNCHANGED <<DF, n, p, runner>>
  BY DEF FrontiersBuild, frontierVars
<1>2. FullInv'
  BY <1>1, BuildNext_Full DEF FrontInv
<1>3. ~Walking /\ ~Walking'
  BY <1>1 DEF Walking, BuildNext, Traverse, PostorderNext, Descend, SkipChild, Return, Finish,
     HasChild, StartSweeps, BeginBlock, SkipPred, CallIntersect, MorePreds, ClimbFirst,
     ClimbSecond, EndIntersect, EndBlock, SweepAgain, EndBuild, postorderVars
<1>4. FrontiersTypeOK'
  BY <1>1, <1>2 DEF FrontInv, FrontiersTypeOK, FullInv, BuildInv
<1> QED
  BY <1>1, <1>2, <1>3, <1>4 DEF FrontInv, WalkRange, Walking

(* Nothing is in a frontier when the walks start. *)
LEMMA StartFrontiers_Front == FrontInv /\ StartFrontiers => FrontInv'
<1> SUFFICES ASSUME FrontInv, StartFrontiers PROVE FrontInv'
  OBVIOUS
<1>1. /\ pc = "built" /\ pc' = "join" /\ n' = 0
      /\ UNCHANGED <<cfg, dfsVars, postorder, treeVars, DF, p, runner>>
  BY DEF StartFrontiers
<1>2. Walking' /\ ~Walking
  BY <1>1 DEF Walking
<1>3. FullInv' /\ TreeTypeOK'
  BY <1>1, <1>2, WalkFrame
<1>4. FrontiersTypeOK'
  BY <1>1, <1>3, NBlocksAssumption DEF FrontInv, FrontiersTypeOK
<1>5. \A b \in Blocks : DF'[b] = {}
  BY <1>1, <1>2 DEF FrontInv
<1>6. \A m \in Blocks : ~(m < 0)
  BY NBlocksAssumption DEF Blocks
<1>7. WalkInv'
  BY <1>1, <1>5, <1>6 DEF WalkInv, FrontierSoFar, RunnerAbove
<1> QED
  BY <1>1, <1>2, <1>3, <1>4, <1>7 DEF FrontInv, WalkRange

(* A block that is no join point is in no frontier. *)
LEMMA SkipBlock_Front == FrontInv /\ SkipBlock => FrontInv'
<1> SUFFICES ASSUME FrontInv, SkipBlock PROVE FrontInv'
  OBVIOUS
<1>1. /\ pc = "join" /\ pc' = "join" /\ n' = n + 1 /\ n < NBlocks /\ ~IsJoinPoint(n)
      /\ UNCHANGED <<cfg, dfsVars, postorder, treeVars, DF, p, runner>>
  BY DEF SkipBlock, buildVars, postorderVars, dfsVars
<1>2. Walking' /\ Walking
  BY <1>1 DEF Walking
<1>3. /\ FullInv' /\ TreeTypeOK' /\ (Regular' <=> Regular)
      /\ \A m : IsJoinPoint(m)' <=> IsJoinPoint(m)
      /\ \A b, m, k : Passed(b, m, k)' <=> Passed(b, m, k)
  BY <1>1, <1>2, WalkFrame
<1>4. n \in 0 .. NBlocks /\ NBlocks \in Nat
  BY WalkTypes
<1>5. FrontiersTypeOK'
  BY <1>1, <1>3, <1>4 DEF FrontInv, FrontiersTypeOK
<1>6. ASSUME Regular PROVE WalkInv'
  <2>1. WalkInv
    BY <1>2, <1>6 DEF FrontInv
  <2>2. ASSUME NEW b \in Blocks, NEW m \in Blocks
        PROVE  FrontierSoFar(b, m)' <=> FrontierSoFar(b, m)
    <3>1. m \in Int /\ (m < n + 1 <=> m < n \/ m = n)
      BY <1>4 DEF Blocks
    <3>2. FrontierSoFar(b, m) <=>
              IsJoinPoint(m) /\ m < n /\ Passed(b, m, Len(cfg.preds[m]))
      BY <1>1 DEF FrontierSoFar
    <3>3. FrontierSoFar(b, m)' <=>
              IsJoinPoint(m) /\ m < n + 1 /\ Passed(b, m, Len(cfg.preds[m]))
      BY <1>1, <1>3 DEF FrontierSoFar
    <3> QED
      BY <1>1, <3>1, <3>2, <3>3
  <2> QED
    BY <1>1, <2>1, <2>2 DEF WalkInv, RunnerAbove
<1> QED
  BY <1>1, <1>2, <1>3, <1>5, <1>6 DEF FrontInv, WalkRange

(* The runner starts at the first predecessor, with nothing passed. *)
LEMMA EnterJoin_Front == FrontInv /\ EnterJoin => FrontInv'
<1> SUFFICES ASSUME FrontInv, EnterJoin PROVE FrontInv'
  OBVIOUS
<1>1. /\ pc = "join" /\ pc' = "run" /\ n' = n /\ n < NBlocks /\ IsJoinPoint(n)
      /\ p' = 1 /\ runner' = cfg.preds[n][1]
      /\ UNCHANGED <<cfg, dfsVars, postorder, treeVars, DF>>
  BY DEF EnterJoin
<1>2. Walking' /\ Walking
  BY <1>1 DEF Walking
<1>3. /\ FullInv' /\ TreeTypeOK' /\ (Regular' <=> Regular) /\ Started /\ ~Sweeping
      /\ \A b : Ancestors(b)' = Ancestors(b)
      /\ \A u, m : Between(u, m)' = Between(u, m)
      /\ \A m : IsJoinPoint(m)' <=> IsJoinPoint(m)
      /\ \A b, m, k : Passed(b, m, k)' <=> Passed(b, m, k)
  BY <1>1, <1>2, WalkFrame
<1>4. n \in Blocks /\ cfg.preds[n] \in Seq(Blocks) /\ Len(cfg.preds[n]) \in Nat
  BY <1>1, WalkTypes
<1>5. Len(cfg.preds[n]) > 1
  BY <1>1 DEF IsJoinPoint
<1>6. 1 \in 1 .. Len(cfg.preds[n]) /\ runner' \in Blocks /\ runner' \in Preds(cfg, n)
  BY <1>1, <1>4, <1>5 DEF Preds
<1>7. FrontiersTypeOK'
  BY <1>1, <1>3, <1>6 DEF FrontInv, FrontiersTypeOK, Slots
<1>8. WalkRange'
  BY <1>1, <1>6 DEF WalkRange
<1>9. ASSUME Regular PROVE WalkInv'
  <2>1. WalkInv
    BY <1>2, <1>9 DEF FrontInv
  <2>2. runner' \in Ancestors(runner') /\ idoms[n] \in Ancestors(runner')
    BY <1>3, <1>4, <1>6, <1>9, RegularTree, ParentAbovePreds DEF FrontInv
  <2>3. \A b : ~Passed(b, n, 0)
    BY <1>4 DEF Passed
  <2>4. \A b : b \notin Between(cfg.preds[n][1], n) \ Ancestors(runner')
    BY <1>1 DEF Between
  <2>5. ASSUME NEW b \in Blocks, NEW m \in Blocks
        PROVE  FrontierSoFar(b, m)' <=> FrontierSoFar(b, m)
    <3>1. FrontierSoFar(b, m) <=>
              IsJoinPoint(m) /\ m < n /\ Passed(b, m, Len(cfg.preds[m]))
      BY <1>1 DEF FrontierSoFar
    <3>2. Ancestors(runner)' = Ancestors(runner')
      BY <1>1 DEF Ancestors, treeVars
    <3>3. FrontierSoFar(b, m)' <=>
              /\ IsJoinPoint(m)
              /\ \/ m < n /\ Passed(b, m, Len(cfg.preds[m]))
                 \/ /\ m = n
                    /\ \/ Passed(b, m, 0)
                       \/ b \in Between(cfg.preds[m][1], m) \ Ancestors(runner')
      BY <1>1, <1>3, <3>2 DEF FrontierSoFar
    <3> QED
      BY <2>3, <2>4, <3>1, <3>3
  <2>6. RunnerAbove'
    BY <1>1, <1>3, <2>2 DEF RunnerAbove, treeVars, Ancestors
  <2> QED
    BY <1>1, <2>1, <2>5, <2>6 DEF WalkInv
<1> QED
  BY <1>2, <1>3, <1>7, <1>8, <1>9 DEF FrontInv

(* What a climb from a runner that is not at the parent yet passes: the     *)
(* block it leaves and no other.                                            *)
LEMMA ClimbPasses ==
    ASSUME FrontInv, Walking, Regular, pc = "run", runner # Ceiling(n)
    PROVE  /\ runner \in Between(cfg.preds[n][p], n) /\ runner \in Blocks
           /\ idoms[runner] \in Ancestors(cfg.preds[n][p])
           /\ idoms[n] \in Ancestors(idoms[runner])
           /\ \A b : b \in Between(cfg.preds[n][p], n) \ Ancestors(idoms[runner])
                        <=> \/ b \in Between(cfg.preds[n][p], n) \ Ancestors(runner)
                            \/ b = runner
<1> DEFINE u == cfg.preds[n][p]
<1>1. Started /\ ~Sweeping /\ FullInv
  BY DEF Walking, Started, Sweeping, FrontInv
<1>2. /\ IsTree(idoms, postorder_map) /\ InTree(idoms) = Blocks /\ idoms \in [Slots -> Slots]
      /\ \A b \in Blocks : Ancestors(b) \subseteq Blocks /\ idoms[b] \in Blocks
  BY <1>1, RegularTree DEF IsTree
<1>3. n \in Blocks /\ p \in 1 .. Len(cfg.preds[n]) /\ u \in Blocks
  BY WalkTypes DEF FrontInv, WalkRange
<1>4. runner \in Ancestors(u) /\ idoms[n] \in Ancestors(runner)
  BY DEF FrontInv, WalkInv, RunnerAbove
<1>5. runner \in Blocks /\ runner # idoms[n] /\ idoms[n] \in Blocks
  BY <1>2, <1>3, <1>4 DEF Ceiling
<1>6. runner \notin Ancestors(idoms[n])
  BY <1>2, <1>4, <1>5, AncestorsOrdered DEF Ancestors
<1>7. /\ idoms[runner] \in Ancestors(runner)
      /\ Ancestors(runner) = {runner} \union Ancestors(idoms[runner])
  BY <1>2, <1>5, AncestorsOfParent DEF Ancestors
<1>8. idoms[runner] \in Ancestors(u)
  BY <1>2, <1>3, <1>4, <1>7, AncestorsTransitive DEF Ancestors
<1>9. idoms[n] \in Ancestors(idoms[runner])
  BY <1>4, <1>5, <1>7
<1>10. runner \notin Ancestors(idoms[runner])
  <2>1. idoms[runner] \in Blocks
    BY <1>2, <1>5
  <2>2. runner \in Ancestors(idoms[runner]) => idoms[runner] = runner
    BY <1>2, <1>5, <1>7, AncestorsOrdered DEF Ancestors
  <2>3. runner # Entry
    BY <1>2, <1>4, <1>5, EntryIsRoot DEF Ancestors
  <2>4. postorder_map[runner] < postorder_map[idoms[runner]]
    BY <1>2, <1>5, <2>3 DEF IsTree
  <2>5. postorder_map[runner] \in Int
    BY <1>2, <1>5 DEF IsTree, Slots
  <2> QED
    BY <2>2, <2>4, <2>5
<1>11. runner \in Between(u, n)
  BY <1>4, <1>6 DEF Between
<1> HIDE DEF u
<1>12. \A b : b \in Between(u, n) \ Ancestors(idoms[runner])
                 <=> b \in Between(u, n) \ Ancestors(runner) \/ b = runner
  BY <1>7, <1>10, <1>11
<1> QED
  BY <1>5, <1>8, <1>9, <1>11, <1>12 DEF u

(* The climb records the block of the walk where it passes. *)
LEMMA Climb_Front == FrontInv /\ Climb => FrontInv'
<1> SUFFICES ASSUME FrontInv, Climb PROVE FrontInv'
  OBVIOUS
<1>1. /\ pc = "run" /\ pc' = "run" /\ n' = n /\ p' = p
      /\ runner # Ceiling(n) /\ runner # UNDEFINED_IDOM
      /\ DF' = [DF EXCEPT ![runner] = @ \union {n}]
      /\ runner' = idoms[runner]
      /\ UNCHANGED <<cfg, dfsVars, postorder, treeVars>>
  BY DEF Climb, buildVars, postorderVars, dfsVars
<1>2. Walking' /\ Walking
  BY <1>1 DEF Walking
<1>3. /\ FullInv' /\ TreeTypeOK' /\ (Regular' <=> Regular) /\ Started /\ ~Sweeping
      /\ \A b : Ancestors(b)' = Ancestors(b)
      /\ \A u, m : Between(u, m)' = Between(u, m)
      /\ \A m : IsJoinPoint(m)' <=> IsJoinPoint(m)
      /\ \A b, m, k : Passed(b, m, k)' <=> Passed(b, m, k)
  BY <1>1, <1>2, WalkFrame
<1>4. n \in Blocks /\ p \in 1 .. Len(cfg.preds[n]) /\ DF \in [Blocks -> SUBSET Blocks]
  BY <1>1, WalkTypes DEF FrontInv, WalkRange
<1>5. runner \in Blocks /\ runner' \in Slots
  BY <1>1, WalkTypes DEF Slots
<1>6. DF' \in [Blocks -> SUBSET Blocks]
  BY <1>1, <1>4
<1>7. FrontiersTypeOK'
  BY <1>1, <1>3, <1>5, <1>6 DEF FrontInv, FrontiersTypeOK
<1>8. WalkRange'
  BY <1>1, <1>4 DEF FrontInv, WalkRange
<1>9. ASSUME Regular PROVE WalkInv'
  <2>1. WalkInv /\ RunnerAbove
    BY <1>2, <1>9 DEF FrontInv, WalkInv
  <2>2. /\ idoms[runner] \in Ancestors(cfg.preds[n][p])
        /\ idoms[n] \in Ancestors(idoms[runner])
        /\ \A b : b \in Between(cfg.preds[n][p], n) \ Ancestors(idoms[runner])
                     <=> \/ b \in Between(cfg.preds[n][p], n) \ Ancestors(runner)
                         \/ b = runner
    BY <1>1, <1>2, <1>9, ClimbPasses
  <2>3. ASSUME NEW b \in Blocks, NEW m \in Blocks
        PROVE  m \in DF'[b] <=> FrontierSoFar(b, m)'
    <3>1. m \in DF'[b] <=> m \in DF[b] \/ (b = runner /\ m = n)
      BY <1>1, <1>4, <1>5
    <3>2. m \in DF[b] <=> FrontierSoFar(b, m)
      BY <2>1 DEF WalkInv
    <3>3. Ancestors(runner)' = Ancestors(idoms[runner]) /\ IsJoinPoint(n)
      BY <1>1, <2>1 DEF Ancestors, treeVars, RunnerAbove
    <3>4. FrontierSoFar(b, m)' <=>
              /\ IsJoinPoint(m)
              /\ \/ m < n /\ Passed(b, m, Len(cfg.preds[m]))
                 \/ /\ m = n
                    /\ \/ Passed(b, m, p - 1)
                       \/ b \in Between(cfg.preds[m][p], m) \ Ancestors(idoms[runner])
      BY <1>1, <1>3, <3>3 DEF FrontierSoFar
    <3>5. FrontierSoFar(b, m) <=>
              /\ IsJoinPoint(m)
              /\ \/ m < n /\ Passed(b, m, Len(cfg.preds[m]))
                 \/ /\ m = n
                    /\ \/ Passed(b, m, p - 1)
                       \/ b \in Between(cfg.preds[m][p], m) \ Ancestors(runner)
      BY <1>1 DEF FrontierSoFar
    <3> QED
      BY <2>2, <3>1, <3>2, <3>3, <3>4, <3>5
  <2>4. RunnerAbove'
    BY <1>1, <1>3, <2>1, <2>2 DEF RunnerAbove, Ancestors, treeVars
  <2> QED
    BY <1>1, <2>3, <2>4 DEF WalkInv
<1> QED
  BY <1>2, <1>3, <1>7, <1>8, <1>9 DEF FrontInv

(* At the parent the walk is over: all that it had to pass is passed. *)
LEMMA WalkOver ==
    ASSUME FrontInv, pc = "run", runner = Ceiling(n), NEW b
    PROVE  Passed(b, n, p) <=> \/ Passed(b, n, p - 1)
                               \/ b \in Between(cfg.preds[n][p], n) \ Ancestors(runner)
<1>1. p \in 1 .. Len(cfg.preds[n]) /\ Len(cfg.preds[n]) \in Nat
  BY WalkTypes DEF FrontInv, WalkRange
<1>2. Between(cfg.preds[n][p], n) \ Ancestors(runner) = Between(cfg.preds[n][p], n)
  BY DEF Between, Ceiling
<1>3. \A q \in 1 .. Len(cfg.preds[n]) : q <= p <=> q <= p - 1 \/ q = p
  BY <1>1
<1> QED
  BY <1>1, <1>2, <1>3 DEF Passed

LEMMA NextRunner_Front == FrontInv /\ NextRunner => FrontInv'
<1> SUFFICES ASSUME FrontInv, NextRunner PROVE FrontInv'
  OBVIOUS
<1>1. /\ pc = "run" /\ pc' = "run" /\ n' = n /\ p' = p + 1 /\ p < Len(cfg.preds[n])
      /\ runner = Ceiling(n) /\ runner' = cfg.preds[n][p + 1] /\ DF' = DF
      /\ UNCHANGED <<cfg, dfsVars, postorder, treeVars>>
  BY DEF NextRunner, buildVars, postorderVars, dfsVars
<1>2. Walking' /\ Walking
  BY <1>1 DEF Walking
<1>3. /\ FullInv' /\ TreeTypeOK' /\ (Regular' <=> Regular) /\ Started /\ ~Sweeping
      /\ \A b : Ancestors(b)' = Ancestors(b)
      /\ \A u, m : Between(u, m)' = Between(u, m)
      /\ \A m : IsJoinPoint(m)' <=> IsJoinPoint(m)
      /\ \A b, m, k : Passed(b, m, k)' <=> Passed(b, m, k)
  BY <1>1, <1>2, WalkFrame
<1>4. /\ n \in Blocks /\ p \in 1 .. Len(cfg.preds[n]) /\ Len(cfg.preds[n]) \in Nat
      /\ cfg.preds[n] \in Seq(Blocks)
  BY <1>1, WalkTypes DEF FrontInv, WalkRange
<1>5. p + 1 \in 1 .. Len(cfg.preds[n]) /\ p + 1 - 1 = p
  BY <1>1, <1>4
<1>6. runner' \in Blocks /\ runner' \in Preds(cfg, n)
  BY <1>1, <1>4, <1>5 DEF Preds
<1>7. FrontiersTypeOK'
  BY <1>1, <1>3, <1>5, <1>6 DEF FrontInv, FrontiersTypeOK, Slots
<1>8. WalkRange'
  BY <1>1, <1>5 DEF FrontInv, WalkRange
<1>9. ASSUME Regular PROVE WalkInv'
  <2>1. WalkInv /\ RunnerAbove
    BY <1>2, <1>9 DEF FrontInv, WalkInv
  <2>2. runner' \in Ancestors(runner') /\ idoms[n] \in Ancestors(runner')
    BY <1>3, <1>4, <1>6, <1>9, RegularTree, ParentAbovePreds DEF FrontInv
  <2>3. \A b : b \notin Between(cfg.preds[n][p + 1], n) \ Ancestors(runner')
    BY <1>1 DEF Between
  <2>4. ASSUME NEW b \in Blocks, NEW m \in Blocks
        PROVE  FrontierSoFar(b, m)' <=> FrontierSoFar(b, m)
    <3>1. FrontierSoFar(b, m) <=>
              /\ IsJoinPoint(m)
              /\ \/ m < n /\ Passed(b, m, Len(cfg.preds[m]))
                 \/ /\ m = n
                    /\ \/ Passed(b, m, p - 1)
                       \/ b \in Between(cfg.preds[m][p], m) \ Ancestors(runner)
      BY <1>1 DEF FrontierSoFar
    <3>2. Ancestors(runner)' = Ancestors(runner')
      BY <1>1 DEF Ancestors, treeVars
    <3>3. FrontierSoFar(b, m)' <=>
              /\ IsJoinPoint(m)
              /\ \/ m < n /\ Passed(b, m, Len(cfg.preds[m]))
                 \/ /\ m = n
                    /\ \/ Passed(b, m, p)
                       \/ b \in Between(cfg.preds[m][p + 1], m) \ Ancestors(runner')
      <4>1. p' - 1 = p
        BY <1>1, <1>4
      <4>2. Passed(b, m, p - 1)' <=> Passed(b, m, p)
        BY <1>3, <4>1
      <4>3. /\ Between(cfg.preds[m][p], m)' = Between(cfg.preds[m][p + 1], m)
            /\ Passed(b, m, Len(cfg.preds[m]))' <=> Passed(b, m, Len(cfg.preds[m]))
        BY <1>1, <1>3
      <4> QED
        BY <1>1, <1>3, <3>2, <4>2, <4>3 DEF FrontierSoFar
    <3>4. Passed(b, n, p) <=> \/ Passed(b, n, p - 1)
                              \/ b \in Between(cfg.preds[n][p], n) \ Ancestors(runner)
      BY <1>1, WalkOver
    <3> QED
      BY <2>3, <3>1, <3>3, <3>4
  <2>5. RunnerAbove'
    BY <1>1, <1>3, <2>1, <2>2 DEF RunnerAbove, treeVars, Ancestors
  <2> QED
    BY <1>1, <2>1, <2>4, <2>5 DEF WalkInv
<1> QED
  BY <1>2, <1>3, <1>7, <1>8, <1>9 DEF FrontInv

LEMMA LeaveJoin_Front == FrontInv /\ LeaveJoin => FrontInv'
<1> SUFFICES ASSUME FrontInv, LeaveJoin PROVE FrontInv'
  OBVIOUS
<1>1. /\ pc = "run" /\ pc' = "join" /\ n' = n + 1 /\ p = Len(cfg.preds[n])
      /\ runner = Ceiling(n)
      /\ UNCHANGED <<cfg, dfsVars, postorder, treeVars, DF, p, runner>>
  BY DEF LeaveJoin
<1>2. Walking' /\ Walking
  BY <1>1 DEF Walking
<1>3. /\ FullInv' /\ TreeTypeOK' /\ (Regular' <=> Regular)
      /\ \A m : IsJoinPoint(m)' <=> IsJoinPoint(m)
      /\ \A b, m, k : Passed(b, m, k)' <=> Passed(b, m, k)
  BY <1>1, <1>2, WalkFrame
<1>4. n \in 0 .. NBlocks /\ NBlocks \in Nat /\ n < NBlocks
  BY <1>1, WalkTypes DEF FrontInv, WalkRange
<1>5. FrontiersTypeOK'
  BY <1>1, <1>3, <1>4 DEF FrontInv, FrontiersTypeOK
<1>6. ASSUME Regular PROVE WalkInv'
  <2>1. WalkInv /\ RunnerAbove
    BY <1>2, <1>6 DEF FrontInv, WalkInv
  <2>2. ASSUME NEW b \in Blocks, NEW m \in Blocks
        PROVE  FrontierSoFar(b, m)' <=> FrontierSoFar(b, m)
    <3>1. m \in Int /\ (m < n + 1 <=> m < n \/ m = n)
      BY <1>4 DEF Blocks
    <3>2. FrontierSoFar(b, m) <=>
              /\ IsJoinPoint(m)
              /\ \/ m < n /\ Passed(b, m, Len(cfg.preds[m]))
                 \/ /\ m = n
                    /\ \/ Passed(b, m, p - 1)
                       \/ b \in Between(cfg.preds[m][p], m) \ Ancestors(runner)
      BY <1>1 DEF FrontierSoFar
    <3>3. FrontierSoFar(b, m)' <=>
              IsJoinPoint(m) /\ m < n + 1 /\ Passed(b, m, Len(cfg.preds[m]))
      BY <1>1, <1>3 DEF FrontierSoFar
    <3>4. Passed(b, n, p) <=> \/ Passed(b, n, p - 1)
                              \/ b \in Between(cfg.preds[n][p], n) \ Ancestors(runner)
      BY <1>1, WalkOver
    <3> QED
      BY <1>1, <3>1, <3>2, <3>3, <3>4
  <2> QED
    BY <1>1, <2>1, <2>2 DEF WalkInv, RunnerAbove
<1> QED
  BY <1>1, <1>2, <1>3, <1>5, <1>6 DEF FrontInv, WalkRange

(* On a regular graph the runner is always a block. *)
LEMMA Crash_Front == FrontInv /\ Crash => FrontInv'
<1> SUFFICES ASSUME FrontInv, Crash PROVE FrontInv'
  OBVIOUS
<1>1. /\ pc = "run" /\ pc' = "crashed" /\ runner # Ceiling(n) /\ runner = UNDEFINED_IDOM
      /\ UNCHANGED <<cfg, dfsVars, postorder, treeVars, DF, n, p, runner>>
  BY DEF Crash, frontierVars
<1>2. Walking' /\ Walking
  BY <1>1 DEF Walking
<1>3. FullInv' /\ TreeTypeOK' /\ (Regular' <=> Regular)
  BY <1>1, <1>2, WalkFrame
<1>4. FrontiersTypeOK'
  BY <1>1, <1>3 DEF FrontInv, FrontiersTypeOK
<1>5. ~Regular
  BY <1>1, <1>2, ClimbPasses, UndefinedIsNone
<1> QED
  BY <1>1, <1>2, <1>3, <1>4, <1>5 DEF FrontInv, WalkRange

LEMMA EndFrontiers_Front == FrontInv /\ EndFrontiers => FrontInv'
<1> SUFFICES ASSUME FrontInv, EndFrontiers PROVE FrontInv'
  OBVIOUS
<1>1. /\ pc = "join" /\ pc' = "fronts" /\ n = NBlocks
      /\ UNCHANGED <<cfg, dfsVars, postorder, treeVars, DF, n, p, runner>>
  BY DEF EndFrontiers, frontierVars
<1>2. Walking' /\ Walking
  BY <1>1 DEF Walking
<1>3. /\ FullInv' /\ TreeTypeOK' /\ (Regular' <=> Regular)
      /\ \A m : IsJoinPoint(m)' <=> IsJoinPoint(m)
      /\ \A b, m, k : Passed(b, m, k)' <=> Passed(b, m, k)
  BY <1>1, <1>2, WalkFrame
<1>4. FrontiersTypeOK'
  BY <1>1, <1>3 DEF FrontInv, FrontiersTypeOK
<1>5. \A b, m \in Blocks : FrontierSoFar(b, m)' <=> FrontierSoFar(b, m)
  BY <1>1, <1>3 DEF FrontierSoFar
<1>6. Regular => WalkInv'
  BY <1>1, <1>2, <1>5 DEF FrontInv, WalkInv, RunnerAbove
<1> QED
  BY <1>1, <1>2, <1>3, <1>4, <1>6 DEF FrontInv, WalkRange

LEMMA Frame_Front == FrontInv /\ UNCHANGED allFrontierVars => FrontInv'
<1> SUFFICES ASSUME FrontInv, UNCHANGED allFrontierVars PROVE FrontInv'
  OBVIOUS
<1>1. UNCHANGED <<cfg, pc, visited, postorder, path, cursor, treeVars, DF, n, p, runner>>
  BY DEF allFrontierVars, buildVars, postorderVars, frontierVars
<1>2. FullInv'
  BY <1>1, Frame_Full DEF FrontInv
<1>3. FrontiersTypeOK'
  BY <1>1, <1>2 DEF FrontInv, FrontiersTypeOK, FullInv, BuildInv
<1>4. idoms' = idoms /\ (Walking' <=> Walking) /\ (Regular' <=> Regular)
  BY <1>1 DEF treeVars, Walking, Regular, AllReachable, FirstPredsLater
<1>5. WalkInv' <=> WalkInv
  BY <1>1, <1>4 DEF WalkInv, FrontierSoFar, RunnerAbove, Passed, Between, Ancestors, IsJoinPoint
<1> QED
  BY <1>1, <1>2, <1>3, <1>4, <1>5 DEF FrontInv, WalkRange

LEMMA FrontiersInvariant == FrontiersSpec => []FrontInv
<1>1. FrontInv /\ [FrontiersNext]_allFrontierVars => FrontInv'
  BY Frame_Front, Build_Front, StartFrontiers_Front, SkipBlock_Front, EnterJoin_Front,
     Climb_Front, NextRunner_Front, LeaveJoin_Front, Crash_Front, EndFrontiers_Front
     DEF FrontiersNext
<1> QED
  BY <1>1, Init_Front, PTL DEF FrontiersSpec

-----------------------------------------------------------------------------

(* When the walks are over the sets are the frontiers of the definition. *)
LEMMA FrontInvGives == FrontInv => FrontiersCorrect
<1> SUFFICES ASSUME FrontInv, pc = "fronts", Regular, NEW b \in Blocks
             PROVE  /\ DF[b] \ {Entry} = Frontier(cfg, DominatorSets(cfg), b) \ {Entry}
                    /\ Entry \in DF[b] <=>
                          /\ Entry \in Frontier(cfg, DominatorSets(cfg), b)
                          /\ IsJoinPoint(Entry) /\ b # Entry
  BY DEF FrontiersCorrect
<1> DEFINE dom == DominatorSets(cfg)
<1>1. Walking /\ Started /\ ~Sweeping /\ FullInv /\ WalkInv
  BY DEF Walking, Started, Sweeping, FrontInv
<1>2. /\ IsTree(idoms, postorder_map) /\ InTree(idoms) = Blocks
      /\ \A x \in Blocks : Ancestors(x) = dom[x]
      /\ \A x \in Blocks : idoms[x] \in Blocks
  BY <1>1, RegularTree
<1> HIDE DEF dom
<1>3. \A m \in Blocks : m \in DF[b] <=>
          IsJoinPoint(m) /\ \E u \in Preds(cfg, m) : b \in Between(u, m)
  <2> SUFFICES ASSUME NEW m \in Blocks
               PROVE  m \in DF[b] <=>
                         IsJoinPoint(m) /\ \E u \in Preds(cfg, m) : b \in Between(u, m)
    OBVIOUS
  <2>1. n = NBlocks /\ m < n
    BY <1>1, NBlocksAssumption DEF WalkInv, Blocks
  <2>2. m \in DF[b] <=> IsJoinPoint(m) /\ Passed(b, m, Len(cfg.preds[m]))
    BY <1>1, <2>1 DEF WalkInv, FrontierSoFar
  <2>3. Passed(b, m, Len(cfg.preds[m])) <=> \E u \in Preds(cfg, m) : b \in Between(u, m)
    <3>1. Len(cfg.preds[m]) \in Nat
      BY WalkTypes
    <3>2. \A q \in 1 .. Len(cfg.preds[m]) : q <= Len(cfg.preds[m])
      BY <3>1
    <3> QED
      BY <3>2 DEF Passed, Preds
  <2> QED
    BY <2>2, <2>3
<1>4. \A m \in Blocks : \A u \in Preds(cfg, m) : u \in Blocks
  BY <1>1, ParentAbovePreds
<1>5. DF[b] \subseteq Blocks
  BY WalkTypes
<1>6. ASSUME NEW m \in Blocks \ {Entry}
      PROVE  m \in DF[b] <=> m \in Frontier(cfg, dom, b)
  <2>1. Ancestors(m) = {m} \union Ancestors(idoms[m])
    BY <1>2, AncestorsOfParent DEF Ancestors
  <2>2. m \notin Ancestors(idoms[m])
    <3>1. idoms[m] \in Blocks /\ postorder_map[m] < postorder_map[idoms[m]]
      BY <1>2 DEF IsTree
    <3>2. m \in Ancestors(idoms[m]) => m = idoms[m] \/ postorder_map[idoms[m]] < postorder_map[m]
      BY <1>2, <3>1, AncestorsLater DEF Ancestors
    <3>3. postorder_map[m] \in Int /\ postorder_map[idoms[m]] \in Int
      BY <1>2, <3>1 DEF IsTree, Slots
    <3> QED
      BY <3>1, <3>2, <3>3
  <2>3. dom[m] \ {m} = Ancestors(idoms[m])
    BY <1>2, <2>1, <2>2
  <2>4. m \in Frontier(cfg, dom, b) <=> \E u \in Preds(cfg, m) : b \in Between(u, m)
    BY <1>2, <1>4, <2>3 DEF Frontier, Between
  <2>5. ~IsJoinPoint(m) => \A u \in Preds(cfg, m) : b \notin Between(u, m)
    BY <1>1, NoJoin
  <2> QED
    BY <1>3, <2>4, <2>5
<1>7. Entry \in DF[b] <=>
          Entry \in Frontier(cfg, dom, b) /\ IsJoinPoint(Entry) /\ b # Entry
  <2>1. Ancestors(Entry) = {Entry} /\ idoms[Entry] = Entry /\ dom[Entry] = {Entry}
    BY <1>2, EntryIsBlock, EntryIsRoot DEF Ancestors, IsTree
  <2>2. Entry \in Frontier(cfg, dom, b) <=> \E u \in Preds(cfg, Entry) : b \in dom[u]
    BY <2>1, EntryIsBlock DEF Frontier
  <2>3. \A u \in Preds(cfg, Entry) : b \in Between(u, Entry) <=> b \in dom[u] /\ b # Entry
    BY <1>2, <1>4, <2>1, EntryIsBlock DEF Between
  <2> QED
    BY <1>3, <2>2, <2>3, EntryIsBlock
<1>8. Frontier(cfg, dom, b) \subseteq Blocks
  BY DEF Frontier
<1> QED
  BY <1>5, <1>6, <1>7, <1>8 DEF dom

(* On every graph, also those a runner leaves the tree on, the sets hold     *)
(* blocks and every array is read and written in range until the program     *)
(* stops.                                                                    *)
THEOREM FrontiersTypeCorrect == FrontiersSpec => []FrontiersTypeOK
<1>1. FrontInv => FrontiersTypeOK
  BY DEF FrontInv
<1> QED
  BY <1>1, FrontiersInvariant, PTL

(* On the graphs dom_frontiers is meant for, of every size, the finished     *)
(* sets are the dominance frontiers, but for the loops back to the entry.    *)
THEOREM FrontiersAreExact == FrontiersSpec => []FrontiersCorrect
BY FrontInvGives, FrontiersInvariant, PTL

(* The tree has the same properties in a program that goes on to the         *)
(* frontiers.                                                                *)
THEOREM FrontiersKeepTree ==
    FrontiersSpec =>
        [](IdomsCorrect /\ TreeKeepsDominators /\ FingersInTree /\ ParentsLater)
<1>1. FrontInv => IdomsCorrect /\ TreeKeepsDominators /\ FingersInTree /\ ParentsLater
  BY FullInvGives DEF FrontInv
<1> QED
  BY <1>1, FrontiersInvariant, PTL

(* Nor does going on move a block of the tree other than up.                 *)
THEOREM FrontiersMoveUp == FrontiersSpec => BlocksMoveUp
<1>1. ASSUME FrontInv, [FrontiersNext]_allFrontierVars
      PROVE  [FirstPredsLater => \A b \in Processed \ {Entry} :
                  idoms'[b] \in Ancestors(b) \ {b}]_buildVars
  <2> SUFFICES ASSUME FirstPredsLater, ~UNCHANGED buildVars, NEW b \in Processed \ {Entry}
               PROVE  idoms'[b] \in Ancestors(b) \ {b}
    OBVIOUS
  <2>1. CASE FrontiersBuild
    BY <1>1, <2>1, StepsMoveUp DEF FrontiersBuild, FrontInv
  <2>2. CASE ~FrontiersBuild
    <3>1. idoms' = idoms
      BY <1>1, <2>2 DEF allFrontierVars, FrontiersNext, StartFrontiers, SkipBlock, EnterJoin, Climb,
         NextRunner, LeaveJoin, Crash, EndFrontiers, treeVars
    <3> QED
      BY <1>1, <3>1, ParentIsAbove DEF FrontInv
  <2> QED
    BY <2>1, <2>2
<1> QED
  BY <1>1, FrontiersInvariant, PTL DEF FrontiersSpec, BlocksMoveUp

(* No runner ever leaves the tree of a graph dom_frontiers is meant for.     *)
THEOREM FrontiersNeverCrash == FrontiersSpec => [](Regular => pc # "crashed")
<1>1. FrontInv => (Regular => pc # "crashed")
  BY DEF FrontInv, WalkInv, Walking
<1> QED
  BY <1>1, FrontiersInvariant, PTL

-----------------------------------------------------------------------------
(* What dom_frontiers has left to do after build: the blocks, of one the      *)
(* predecessors, and of a walk the blocks numbered above the runner.          *)
WalksLeft ==
    IF pc = "run" THEN Len(cfg.preds[n]) - p
    ELSE IF n < NBlocks THEN Len(cfg.preds[n]) ELSE 0

HigherBlocks == {b \in Blocks : postorder_map[runner] < postorder_map[b]}

WalkLeft ==
    <<IF pc \in {"fronts", "crashed"} THEN 0 ELSE IF Walking THEN 1 ELSE 2,
      NBlocks - n, WalksLeft, Cardinality(HigherBlocks)>>

FrontiersLeft == BuildLeft \o WalkLeft

WalkCounted ==
    /\ WalkLeft \in [1 .. 4 -> Nat]
    /\ NBlocks - n \in Nat /\ WalksLeft \in Nat /\ Cardinality(HigherBlocks) \in Nat

LEMMA WalkLeftIs == FrontInv => WalkCounted
<1> SUFFICES ASSUME FrontInv PROVE WalkCounted
  OBVIOUS
<1>1. NBlocks - n \in Nat
  BY WalkTypes
<1>2. WalksLeft \in Nat
  <2>1. pc = "run" => n < NBlocks /\ p \in 1 .. Len(cfg.preds[n])
    BY DEF FrontInv, WalkRange
  <2>2. n < NBlocks => Len(cfg.preds[n]) \in Nat
    BY WalkTypes
  <2> QED
    BY <2>1, <2>2 DEF WalksLeft
<1>3. Cardinality(HigherBlocks) \in Nat
  BY BlocksFinite, FS_Subset, FS_CardinalityType DEF HigherBlocks
<1> QED
  BY <1>1, <1>2, <1>3 DEF WalkCounted, WalkLeft

(* The step looks at what comes after build. *)
LEMMA WalkKeepsBuild ==
    ASSUME UNCHANGED <<cfg, dfsVars, postorder, treeVars>>,
           Walking \/ pc = "built", Walking'
    PROVE  BuildLeft' = BuildLeft
<1>1. TraversalLeft' = TraversalLeft
  BY DEF TraversalLeft, Unlooked, Walking, dfsVars
<1>2. TreeSweepsLeft' = TreeSweepsLeft
  <2>1. Started /\ Started' /\ ~Sweeping /\ ~Sweeping'
    BY DEF Walking, Started, Sweeping
  <2>2. RoomAbove' = RoomAbove
    BY DEF RoomAbove, Processed, treeVars
  <2> QED
    BY <2>1, <2>2 DEF TreeSweepsLeft, treeVars
<1>3. BlockLeft = <<1, 0, 1, 0>> /\ BlockLeft' = <<1, 0, 1, 0>>
  BY DEF BlockLeft, AtBlock, PredsLeft, FingersLeft, Walking
<1> QED
  BY <1>1, <1>2, <1>3 DEF BuildLeft

(* A runner that climbs has fewer blocks above it. *)
LEMMA RunnerRises ==
    ASSUME FrontInv, Climb, Regular
    PROVE  Cardinality(HigherBlocks') < Cardinality(HigherBlocks)
<1>1. /\ pc = "run" /\ runner # Ceiling(n) /\ runner' = idoms[runner]
      /\ postorder_map' = postorder_map
  BY DEF Climb, buildVars, treeVars
<1>2. Walking /\ Started /\ ~Sweeping /\ FullInv
  BY <1>1 DEF Walking, Started, Sweeping, FrontInv
<1>3. IsTree(idoms, postorder_map) /\ InTree(idoms) = Blocks
  BY <1>2, RegularTree
<1>4. /\ runner \in Blocks /\ n \in Blocks
      /\ idoms[n] \in Ancestors(runner)
  BY <1>1, <1>2, ClimbPasses, WalkTypes DEF FrontInv, WalkRange, WalkInv, RunnerAbove
<1>5. runner # Entry
  BY <1>1, <1>3, <1>4, EntryIsRoot DEF Ancestors, Ceiling
<1>6. idoms[runner] \in Blocks /\ postorder_map[runner] < postorder_map[idoms[runner]]
  BY <1>3, <1>4, <1>5 DEF IsTree
<1>7. \A b \in Blocks : postorder_map[b] \in Int
  BY <1>3 DEF IsTree, Slots
<1> DEFINE x == idoms[runner]
           S == HigherBlocks
           T == HigherBlocks'
<1>8. S = {b \in Blocks : postorder_map[runner] < postorder_map[b]}
  BY DEF HigherBlocks
<1>9. T = {b \in Blocks : postorder_map[x] < postorder_map[b]}
  BY <1>1 DEF HigherBlocks
<1>10. x \in S /\ x \notin T /\ T \subseteq S
  BY <1>4, <1>6, <1>7, <1>8, <1>9
<1>11. IsFiniteSet(S)
  BY <1>8, BlocksFinite, FS_Subset
<1> HIDE DEF x, S, T
<1>12. Cardinality(T) < Cardinality(S)
  BY <1>10, <1>11, FewerLeft
<1> QED
  BY <1>12 DEF S, T

LEMMA WalkLowers ==
    ASSUME FrontInv, WalkCounted, WalkCounted', pc = "run" => Regular,
           FrontiersNext, ~FrontiersBuild
    PROVE  <<WalkLeft', WalkLeft>> \in Lexicographic(4)
<1> DEFINE m == NBlocks - n
           m1 == NBlocks - n'
           w == WalksLeft
           w1 == WalksLeft'
           h == Cardinality(HigherBlocks)
           h1 == Cardinality(HigherBlocks')
<1>1. /\ m \in Nat /\ m1 \in Nat /\ w \in Nat /\ w1 \in Nat /\ h \in Nat /\ h1 \in Nat
  BY DEF WalkCounted
<1>2. 0 \in Nat /\ 1 \in Nat /\ 2 \in Nat /\ 0 < 1 /\ 1 < 2
  OBVIOUS
<1>3. CASE StartFrontiers
  <2>1. WalkLeft = <<2, m, w, h>> /\ WalkLeft' = <<1, m1, w1, h1>>
    BY <1>3 DEF StartFrontiers, WalkLeft, Walking
  <2> HIDE DEF m, m1, w, w1, h, h1
  <2> QED
    BY <1>1, <1>2, <2>1, LowerOfFour
<1>4. CASE Crash \/ EndFrontiers
  <2>1. WalkLeft = <<1, m, w, h>> /\ WalkLeft' = <<0, m1, w1, h1>>
    BY <1>4 DEF Crash, EndFrontiers, WalkLeft, Walking
  <2> HIDE DEF m, m1, w, w1, h, h1
  <2> QED
    BY <1>1, <1>2, <2>1, LowerOfFour
<1>5. CASE SkipBlock \/ LeaveJoin
  <2>1. pc \in {"join", "run"} /\ pc' = "join" /\ n' = n + 1
    BY <1>5 DEF SkipBlock, LeaveJoin, buildVars, postorderVars
  <2>2. WalkLeft = <<1, m, w, h>> /\ WalkLeft' = <<1, m1, w1, h1>>
    BY <2>1 DEF WalkLeft, Walking
  <2>3. m1 < m
    BY <2>1, WalkTypes
  <2> HIDE DEF m, m1, w, w1, h, h1
  <2> QED
    BY <1>1, <1>2, <2>2, <2>3, LowerOfFour
<1>6. CASE EnterJoin \/ NextRunner
  <2>1. /\ pc \in {"join", "run"} /\ pc' = "run" /\ n' = n /\ n < NBlocks /\ cfg' = cfg
        /\ \/ pc = "join" /\ p' = 1
           \/ pc = "run" /\ p' = p + 1
    BY <1>6 DEF EnterJoin, NextRunner, buildVars, postorderVars, FrontInv, WalkRange
  <2>2. WalkLeft = <<1, m, w, h>> /\ WalkLeft' = <<1, m, w1, h1>>
    BY <2>1 DEF WalkLeft, Walking
  <2>3. Len(cfg.preds[n]) \in Nat /\ p \in Nat
    BY <2>1, WalkTypes
  <2>4. /\ w1 = Len(cfg.preds[n]) - p'
        /\ w = IF pc = "run" THEN Len(cfg.preds[n]) - p ELSE Len(cfg.preds[n])
    BY <2>1 DEF WalksLeft
  <2> DEFINE len == Len(cfg.preds[n])
  <2> HIDE DEF len
  <2>5. w1 < w
    <3>1. \A a, k \in Nat : a - 1 < a /\ a - (k + 1) < a - k
      OBVIOUS
    <3> QED
      BY <2>1, <2>3, <2>4, <3>1
  <2> HIDE DEF m, m1, w, w1, h, h1
  <2> QED
    BY <1>1, <1>2, <2>2, <2>5, LowerOfFour
<1>7. CASE Climb
  <2>1. pc = "run" /\ pc' = "run" /\ n' = n /\ p' = p /\ cfg' = cfg
    BY <1>7 DEF Climb, buildVars, postorderVars
  <2>2. WalkLeft = <<1, m, w, h>> /\ WalkLeft' = <<1, m, w, h1>>
    BY <2>1 DEF WalkLeft, WalksLeft, Walking
  <2>3. h1 < h
    BY <1>7, <2>1, RunnerRises
  <2> HIDE DEF m, m1, w, w1, h, h1
  <2> QED
    BY <1>1, <1>2, <2>2, <2>3, LowerOfFour
<1> QED
  BY <1>3, <1>4, <1>5, <1>6, <1>7 DEF FrontiersNext

LEMMA FrontiersRunDown ==
    ASSUME FrontInv, FrontInv', FrontiersNext, Sweeping => FirstPredsLater,
           pc = "run" => Regular
    PROVE  <<FrontiersLeft', FrontiersLeft>> \in Lexicographic(15)
<1>1. WalkCounted /\ WalkCounted'
  <2>1. FrontInv' => WalkCounted'
    BY WalkLeftIs, PTL
  <2> QED
    BY <2>1, WalkLeftIs
<1>2. 4 \in Nat /\ 7 \in Nat /\ 11 \in Nat /\ 7 + 4 = 11 /\ 11 + 4 = 15
  OBVIOUS
<1>3. CASE FrontiersBuild
  <2>1. Started => Sweeping
    BY <1>3 DEF FrontiersBuild, BuildNext, Traverse, PostorderNext, Descend, SkipChild, Return,
       Finish, HasChild, StartSweeps, BeginBlock, SkipPred, CallIntersect, MorePreds, ClimbFirst,
       ClimbSecond, EndIntersect, EndBlock, SweepAgain, EndBuild, Started, Sweeping
  <2>2. <<BuildLeft', BuildLeft>> \in Lexicographic(11)
    BY <1>3, <2>1, BuildRunsDown DEF FrontiersBuild, FrontInv
  <2>3. <<BuildLeft' \o WalkLeft', BuildLeft \o WalkLeft>> \in Lexicographic(11 + 4)
    BY <1>1, <1>2, <2>2, LowerBefore DEF WalkCounted
  <2> QED
    BY <1>2, <2>3 DEF FrontiersLeft
<1>4. CASE ~FrontiersBuild
  <2>1. /\ UNCHANGED <<cfg, dfsVars, postorder, treeVars>>
        /\ Walking \/ pc = "built"
        /\ Walking' /\ pc # "intersect"
    BY <1>4 DEF FrontiersNext, StartFrontiers, SkipBlock, EnterJoin, Climb, NextRunner,
       LeaveJoin, Crash, EndFrontiers, Walking, buildVars, postorderVars, dfsVars
  <2>2. BuildLeft' = BuildLeft
    BY <2>1, WalkKeepsBuild
  <2>3. <<WalkLeft', WalkLeft>> \in Lexicographic(4)
    BY <1>1, <1>4, WalkLowers
  <2>4. BuildLeft \in [1 .. 11 -> Nat]
    <3>1. /\ TraversalLeft \o TreeSweepsLeft \in [1 .. 7 -> Nat]
          /\ BlockLeft \in [1 .. 4 -> Nat]
      BY <2>1, SweepsLeftIs DEF SweepsCounted, FrontInv, FullInv
    <3>2. (TraversalLeft \o TreeSweepsLeft) \o BlockLeft \in [1 .. 7 + 4 -> Nat]
      BY <1>2, <3>1, Together
    <3> QED
      BY <1>2, <3>2 DEF BuildLeft
  <2>5. <<BuildLeft \o WalkLeft', BuildLeft \o WalkLeft>> \in Lexicographic(11 + 4)
    BY <1>2, <2>3, <2>4, LowerBehind
  <2> QED
    BY <1>2, <2>2, <2>5 DEF FrontiersLeft
<1> QED
  BY <1>3, <1>4

(* dom_frontiers cannot go on for ever on the graphs it is meant for: a      *)
(* runner that climbs has fewer blocks above it, and a block has only so     *)
(* many predecessors to start from.                                          *)
FrontiersDescend ==
    [][(Sweeping => FirstPredsLater) /\ (pc = "run" => Regular) =>
            <<FrontiersLeft', FrontiersLeft>> \in Lexicographic(15)]_allFrontierVars

THEOREM FrontiersCannotGoOn == FrontiersSpec => FrontiersDescend
<1>1. FrontInv /\ [FrontiersNext]_allFrontierVars => FrontInv'
  BY Frame_Front, Build_Front, StartFrontiers_Front, SkipBlock_Front, EnterJoin_Front,
     Climb_Front, NextRunner_Front, LeaveJoin_Front, Crash_Front, EndFrontiers_Front
     DEF FrontiersNext
<1>2. FrontInv /\ [FrontiersNext]_allFrontierVars
        => [(Sweeping => FirstPredsLater) /\ (pc = "run" => Regular) =>
                <<FrontiersLeft', FrontiersLeft>> \in Lexicographic(15)]_allFrontierVars
  BY <1>1, FrontiersRunDown
<1> QED
  BY <1>2, FrontiersInvariant, PTL DEF FrontiersSpec, FrontiersDescend

-----------------------------------------------------------------------------
(* LoopInfo: each body it collects is the natural loop of its edge.  With  *)
(* a right tree under it, the edges are the back edges, and loops with     *)
(* different headers are disjoint or nested.                               *)

Searching == pc \in {"header", "body", "loops"}

(* The word before idoms is never written. *)
WordKept == idoms[UNDEFINED_IDOM] = WordBefore

SearchRange ==
    /\ l >= 1
    /\ pc = "body" => header_num < NBlocks /\ l <= Len(cfg.preds[header_num])
    /\ pc = "loops" => header_num = NBlocks

(* The loops of an edge that have been found, and the places it has among    *)
(* the predecessors looked at: there are as many of the one as of the other. *)
LoopsOf(h, x) == {k \in 1 .. Len(loops) : loops[k].header = h /\ loops[k].latch = x}

SeenAt(h, x) ==
    {m \in 1 .. Len(cfg.preds[h]) :
        cfg.preds[h][m] = x /\ (h < header_num \/ (h = header_num /\ m < l))}

EachEdgeOnce ==
    \A h, x \in Blocks :
        Cardinality(LoopsOf(h, x))
            = IF TreeDominates(h, x) THEN Cardinality(SeenAt(h, x)) ELSE 0

(* Of the loop being collected the blocks found and those on the stack can *)
(* all reach the latch; only from them can another block be found.         *)
Stacked == {s[k] : k \in 1 .. Len(s)}
Found == Contained \union Stacked

Collecting ==
    pc = "body" =>
        /\ TreeDominates(header_num, Latch)
        /\ header_num \in Contained
        /\ Latch \in Found
        /\ Found \subseteq NaturalLoop(Latch, header_num)
        /\ \A b \in Contained \ {header_num} : Preds(cfg, b) \subseteq Found

BodiesNatural ==
    \A k \in 1 .. Len(loops) : BodyOf(k) = NaturalLoop(loops[k].latch, loops[k].header)

SearchInv ==
    /\ SearchRange
    /\ EachEdgeOnce
    /\ Collecting
    /\ BodiesNatural

LoopInv ==
    /\ FullInv
    /\ LoopsTypeOK
    /\ WordKept
    /\ ~Searching => loops = <<>>
    /\ Searching => SearchInv

-----------------------------------------------------------------------------

(* The runner of dominates: from a block of the tree it meets the block's *)
(* strict ancestors, and from another one, through the word before idoms, *)
(* no block but the entry.                                                *)
LEMMA MetIsAbove ==
    ASSUME WordKept, IsTree(idoms, postorder_map), NEW b \in Blocks, NEW a \in Blocks \ {Entry}
    PROVE  a \in Met(b) <=> b \in InTree(idoms) /\ a \in Ancestors(idoms[b])
<1> DEFINE closed == {S \in SUBSET Slots : \A y \in S : idoms[y] \in S}
<1>1. /\ idoms \in [Slots -> Slots] /\ Blocks \subseteq Slots /\ a \in Slots
      /\ idoms[Entry] = Entry
  BY DEF IsTree, Slots
<1>2. a \in Met(b) <=> \A S \in closed : idoms[b] \in S => a \in S
  BY <1>1 DEF Met, RunnerStart
<1>3. CASE b \notin InTree(idoms)
  <2> DEFINE S == {UNDEFINED_IDOM, Entry}
  <2>1. idoms[b] = UNDEFINED_IDOM /\ idoms[UNDEFINED_IDOM] = Entry
    BY <1>3 DEF InTree, WordKept, WordBefore, Entry
  <2>2. S \in closed
    BY <1>1, <2>1, EntryIsBlock DEF Slots
  <2>3. a \notin S
    BY UndefinedIsNone
  <2> HIDE DEF S, closed
  <2>4. idoms[b] \in S
    BY <2>1 DEF S
  <2> QED
    BY <1>2, <1>3, <2>2, <2>3, <2>4
<1>4. CASE b \in InTree(idoms)
  <2>1. idoms[b] \in InTree(idoms) /\ idoms[b] \in Blocks
    BY <1>4, AncestorsOfParent DEF InTree
  <2>2. Ancestors(idoms[b]) \in closed
    <3>1. Ancestors(idoms[b]) \subseteq InTree(idoms)
      BY <2>1, AncestorsLater DEF Ancestors
    <3>2. Ancestors(idoms[b]) \in ParentClosed(idoms)
      BY <1>1, <2>1, AncestorsClosed DEF Ancestors
    <3>3. \A y \in Ancestors(idoms[b]) : idoms[y] \in Ancestors(idoms[b])
      BY <3>1, <3>2 DEF ParentClosed, InTree
    <3>4. Ancestors(idoms[b]) \subseteq Slots
      BY <1>1, <3>1 DEF InTree
    <3> QED
      BY <3>3, <3>4
  <2>3. idoms[b] \in Ancestors(idoms[b])
    BY <1>1, <2>1, AncestorsClosed DEF Ancestors
  <2>4. ASSUME NEW S \in closed, idoms[b] \in S PROVE Ancestors(idoms[b]) \subseteq S
    <3>1. S \cap Blocks \in ParentClosed(idoms)
      BY <1>1 DEF ParentClosed, Slots
    <3>2. Ancestors(idoms[b]) \subseteq S \cap Blocks
      BY <2>1, <2>4, <3>1, AncestorsLeast DEF Ancestors
    <3> QED
      BY <3>2
  <2> HIDE DEF closed
  <2> QED
    BY <1>2, <1>4, <2>2, <2>3, <2>4
<1> QED
  BY <1>3, <1>4

(* Over a finished tree, an edge from a reachable block is taken for a back *)
(* edge only if its target dominates its source, and whenever it does       *)
(* unless the edge leads from a block other than the entry to itself.       *)
LEMMA TreeTellsBackEdges ==
    ASSUME FullInv, Started, ~Sweeping, FirstPredsLater, WordKept,
           NEW h \in Blocks, NEW x \in Reachable(cfg)
    PROVE  /\ TreeDominates(h, x) => IsBackEdge(DominatorSets(cfg), x, h)
           /\ x # h \/ h = Entry =>
                 (IsBackEdge(DominatorSets(cfg), x, h) => TreeDominates(h, x))
<1>1. /\ IsTree(idoms, postorder_map) /\ InTree(idoms) = Reachable(cfg)
      /\ \A b \in Reachable(cfg) : Ancestors(b) = DominatorSets(cfg)[b]
      /\ x \in Blocks
  BY FinishedTree DEF InTree
<1>2. CASE h = Entry
  <2>1. Entry \in DominatorSets(cfg)[x]
    BY <1>1, DominatorTable, EntryIsBlock DEF Dominates, ReachableFrom
  <2> QED
    BY <1>2, <2>1 DEF TreeDominates, IsBackEdge
<1>3. CASE h # Entry /\ x = Entry
  <2>1. idoms[Entry] = Entry /\ Ancestors(Entry) = {Entry}
    BY <1>1, EntryIsRoot DEF IsTree, Ancestors
  <2>2. h \notin DominatorSets(cfg)[x]
    BY <1>3, DominatorTable, EntryDominators, EntryIsBlock
  <2> QED
    BY <1>1, <1>3, <2>1, <2>2, MetIsAbove DEF TreeDominates, IsBackEdge
<1>4. CASE h # Entry /\ x # Entry
  <2>1. Ancestors(x) = {x} \union Ancestors(idoms[x])
    BY <1>1, <1>4, AncestorsOfParent DEF Ancestors
  <2> QED
    BY <1>1, <1>4, <2>1, MetIsAbove DEF TreeDominates, IsBackEdge
<1> QED
  BY <1>2, <1>3, <1>4

-----------------------------------------------------------------------------

(* Every block in the natural loop of an edge but its header has its        *)
(* predecessors in the loop, ...                                            *)
LEMMA LoopHasPreds ==
    ASSUME WellFormed(cfg), NEW h \in Blocks, NEW x \in Blocks,
           NEW b \in NaturalLoop(x, h) \ {h}, NEW u \in Preds(cfg, b)
    PROVE  u \in NaturalLoop(x, h)
<1>1. cfg \in Cfg /\ b \in Blocks /\ x \in ReachableFrom(cfg, b, h)
  BY DEF WellFormed, NaturalLoop
<1>2. u \in Blocks /\ b \in Succs(cfg, u)
  BY <1>1, NeighboursAreBlocks DEF WellFormed
<1>3. u # h => x \in ReachableFrom(cfg, u, h)
  BY <1>1, <1>2, ReachablePrepend
<1> QED
  BY <1>2, <1>3 DEF NaturalLoop

(* ... the latch is in it, ... *)
LEMMA LoopHasLatch ==
    ASSUME NEW h \in Blocks, NEW x \in Blocks
    PROVE  x \in NaturalLoop(x, h)
BY ReachableStart DEF NaturalLoop

(* ... and a set with the header, the latch and the predecessors of all its *)
(* blocks but the header has the whole loop.                                *)
LEMMA LoopIsLeast ==
    ASSUME WellFormed(cfg), NEW h \in Blocks, NEW x \in Blocks,
           NEW S, h \in S, x \in S, \A b \in (S \cap Blocks) \ {h} : Preds(cfg, b) \subseteq S
    PROVE  NaturalLoop(x, h) \subseteq S
<1> SUFFICES ASSUME NEW b \in Blocks, x \in ReachableFrom(cfg, b, h), b \notin S
             PROVE  FALSE
  BY DEF NaturalLoop
<1> DEFINE R == Blocks \ S
<1>1. cfg \in Cfg
  BY DEF WellFormed
<1>2. ASSUME NEW u \in R, NEW v \in Succs(cfg, u), v # h PROVE v \in R
  BY <1>1, <1>2, NeighboursAreBlocks DEF WellFormed
<1>3. R \in ClosedSets(cfg, b, h)
  BY <1>2 DEF ClosedSets
<1>4. b # h
  OBVIOUS
<1>5. x \in R
  <2> HIDE DEF R
  <2> QED
    BY <1>3, <1>4, ReachableLeast
<1> QED
  BY <1>5

-----------------------------------------------------------------------------

(* The search leaves the graph and the tree alone. *)
LEMMA SearchFrame ==
    ASSUME LoopInv, UNCHANGED <<cfg, dfsVars, postorder, treeVars>>,
           Searching \/ pc = "built", Searching'
    PROVE  /\ FullInv' /\ TreeTypeOK' /\ WordKept'
           /\ \A h, x : TreeDominates(h, x)' <=> TreeDominates(h, x)
           /\ \A h, x : NaturalLoop(x, h)' = NaturalLoop(x, h)
<1>1. Started /\ ~Sweeping /\ Started' /\ ~Sweeping'
  BY DEF Searching, Started, Sweeping
<1>2. FullInv'
  BY <1>1, Frame_Full DEF LoopInv, dfsVars
<1>3. TreeTypeOK'
  BY <1>2 DEF FullInv, BuildInv
<1>4. idoms' = idoms
  BY DEF treeVars
<1>5. WordKept'
  BY <1>4 DEF LoopInv, WordKept
<1>6. \A h, x : TreeDominates(h, x)' <=> TreeDominates(h, x)
  BY <1>4 DEF TreeDominates, Met, RunnerStart
<1>7. \A h, x : NaturalLoop(x, h)' = NaturalLoop(x, h)
  BY DEF NaturalLoop
<1> QED
  BY <1>2, <1>3, <1>5, <1>6, <1>7

(* The types of the search, and the lists of predecessors it reads. *)
LEMMA SearchTypes ==
    ASSUME LoopInv
    PROVE  /\ header_num \in 0 .. NBlocks /\ NBlocks \in Nat /\ l \in Nat
           /\ bbs \in Seq(Blocks) /\ s \in Seq(Blocks)
           /\ loops \in Seq([header : Blocks, latch : Blocks, bbs : Seq(Blocks)])
           /\ Len(loops) \in Nat
           /\ WellFormed(cfg)
           /\ \A m \in Blocks : cfg.preds[m] \in Seq(Blocks) /\ Len(cfg.preds[m]) \in Nat
           /\ \A m \in 0 .. NBlocks : m < NBlocks <=> m \in Blocks
<1>1. WellFormed(cfg) /\ cfg \in Cfg
  BY DEF LoopInv, FullInv, BuildInv, PostorderInv, PostorderTypeOK, WellFormed
<1>2. \A m \in Blocks : cfg.preds[m] \in Seq(Blocks)
  BY <1>1 DEF Cfg
<1>3. \A m \in 0 .. NBlocks : m < NBlocks <=> m \in Blocks
  BY NBlocksAssumption DEF Blocks
<1> QED
  BY <1>1, <1>2, <1>3, NBlocksAssumption DEF LoopInv, LoopsTypeOK

(* The edge looked at is one of the graph. *)
LEMMA LatchIsPred ==
    ASSUME LoopInv, Searching, header_num < NBlocks, l <= Len(cfg.preds[header_num])
    PROVE  /\ header_num \in Blocks /\ l \in 1 .. Len(cfg.preds[header_num])
           /\ Latch \in Blocks /\ Latch \in Preds(cfg, header_num)
<1>1. header_num \in Blocks
  BY SearchTypes
<1>2. l \in 1 .. Len(cfg.preds[header_num])
  BY <1>1, SearchTypes DEF LoopInv, SearchInv, SearchRange
<1> QED
  BY <1>1, <1>2, SearchTypes DEF Latch, Preds

LEMMA Init_Loops == LoopsInit => LoopInv
<1> SUFFICES ASSUME LoopsInit PROVE LoopInv
  OBVIOUS
<1>1. FullInv /\ pc = "dfs"
  BY TreeInit_Full DEF LoopsInit, TreeInit, PostorderInit
<1>2. TreeTypeOK
  BY <1>1 DEF FullInv, BuildInv
<1>3. LoopsTypeOK
  BY <1>1, <1>2, NBlocksAssumption DEF LoopsInit, NoLoops, LoopsTypeOK
<1>4. WordKept
  BY UndefinedIsNone DEF LoopsInit, TreeInit, WordKept, Slots
<1> QED
  BY <1>1, <1>3, <1>4 DEF LoopsInit, NoLoops, LoopInv, Searching

LEMMA Build_Loops == LoopInv /\ LoopsBuild => LoopInv'
<1> SUFFICES ASSUME LoopInv, LoopsBuild PROVE LoopInv'
  OBVIOUS
<1>1. BuildNext /\ UNCHANGED <<header_num, l, bbs, s, loops>>
  BY DEF LoopsBuild, loopVars
<1>2. FullInv' /\ BuildInv
  BY <1>1, BuildNext_Full DEF LoopInv, FullInv
<1>3. ~Searching /\ ~Searching'
  BY <1>1 DEF Searching, BuildNext, Traverse, PostorderNext, Descend, SkipChild, Return, Finish,
     HasChild, StartSweeps, BeginBlock, SkipPred, CallIntersect, MorePreds, ClimbFirst,
     ClimbSecond, EndIntersect, EndBlock, SweepAgain, EndBuild, postorderVars
<1>4. LoopsTypeOK'
  BY <1>1, <1>2, <1>3 DEF LoopInv, LoopsTypeOK, FullInv, BuildInv, Searching
<1>5. WordKept'
  <2>0. idoms \in [Slots -> Slots] /\ UNDEFINED_IDOM \in Slots
    BY <1>2 DEF BuildInv, TreeTypeOK, Slots
  <2>1. CASE StartSweeps
    BY <2>0, <2>1, EntryIsBlock, UndefinedIsNone DEF StartSweeps, LoopInv, WordKept
  <2>2. CASE EndBlock
    <3>1. Started /\ Placed
      BY <2>2 DEF EndBlock, Started, Placed, AtBlock
    <3>2. Current # UNDEFINED_IDOM
      BY <1>2, <3>1, SweepPlace, UndefinedIsNone
    <3> QED
      BY <2>0, <2>2, <3>2 DEF EndBlock, LoopInv, WordKept
  <2>3. CASE ~StartSweeps /\ ~EndBlock
    <3>1. idoms' = idoms
      BY <1>1, <2>3 DEF BuildNext, Traverse, BeginBlock, SkipPred, CallIntersect, ClimbFirst,
         ClimbSecond, EndIntersect, SweepAgain, EndBuild, treeVars
    <3> QED
      BY <3>1 DEF LoopInv, WordKept
  <2> QED
    BY <2>1, <2>2, <2>3
<1> QED
  BY <1>1, <1>2, <1>3, <1>4, <1>5 DEF LoopInv

(* Nothing has been found when the search starts. *)
LEMMA StartLoops_Loops == LoopInv /\ StartLoops => LoopInv'
<1> SUFFICES ASSUME LoopInv, StartLoops PROVE LoopInv'
  OBVIOUS
<1>1. /\ pc = "built" /\ pc' = "header" /\ header_num' = 0 /\ l' = 1
      /\ UNCHANGED <<cfg, dfsVars, postorder, treeVars, bbs, s, loops>>
  BY DEF StartLoops
<1>2. Searching' /\ ~Searching /\ loops = <<>>
  BY <1>1 DEF Searching, LoopInv
<1>3. FullInv' /\ TreeTypeOK' /\ WordKept'
  BY <1>1, <1>2, SearchFrame
<1>4. LoopsTypeOK'
  BY <1>1, <1>3, NBlocksAssumption DEF LoopInv, LoopsTypeOK
<1>5. \A h, x \in Blocks : LoopsOf(h, x)' = {} /\ SeenAt(h, x)' = {}
  <2> SUFFICES ASSUME NEW h \in Blocks, NEW x \in Blocks
               PROVE  LoopsOf(h, x)' = {} /\ SeenAt(h, x)' = {}
    OBVIOUS
  <2>1. LoopsOf(h, x)' = {}
    BY <1>1, <1>2 DEF LoopsOf
  <2>2. ~(h < 0) /\ Len(cfg.preds[h]) \in Nat
    BY SearchTypes, NBlocksAssumption DEF Blocks
  <2>3. \A m \in 1 .. Len(cfg.preds[h]) : ~(m < 1)
    BY <2>2
  <2>4. SeenAt(h, x)' = {}
    BY <1>1, <2>2, <2>3 DEF SeenAt
  <2> QED
    BY <2>1, <2>4
<1>6. Cardinality({}) = 0
  BY FS_EmptySet
<1>7. EachEdgeOnce'
  BY <1>5, <1>6 DEF EachEdgeOnce
<1>8. SearchInv'
  BY <1>1, <1>2, <1>7 DEF SearchInv, SearchRange, Collecting, BodiesNatural
<1> QED
  BY <1>2, <1>3, <1>4, <1>8 DEF LoopInv

(* What has been found and seen means the same before and after a step that *)
(* leaves it alone.                                                         *)
LEMMA SameEdges ==
    ASSUME UNCHANGED <<cfg, header_num, l, loops>>,
           \A h, x : TreeDominates(h, x)' <=> TreeDominates(h, x)
    PROVE  EachEdgeOnce' <=> EachEdgeOnce
<1>1. \A h, x : LoopsOf(h, x)' = LoopsOf(h, x)
  BY DEF LoopsOf
<1>2. \A h, x : SeenAt(h, x)' = SeenAt(h, x)
  BY DEF SeenAt
<1> QED
  BY <1>1, <1>2 DEF EachEdgeOnce

LEMMA SameBodies ==
    ASSUME loops' = loops, \A h, x : NaturalLoop(x, h)' = NaturalLoop(x, h)
    PROVE  BodiesNatural' <=> BodiesNatural
<1>1. \A k : BodyOf(k)' = BodyOf(k)
  BY DEF BodyOf
<1> QED
  BY <1>1 DEF BodiesNatural

(* When a header has no more predecessors all its edges have been seen, and *)
(* none of the next header's.                                               *)
LEMMA NextHeader_Loops == LoopInv /\ NextHeader => LoopInv'
<1> SUFFICES ASSUME LoopInv, NextHeader PROVE LoopInv'
  OBVIOUS
<1>1. /\ pc = "header" /\ pc' = "header" /\ header_num < NBlocks
      /\ ~(l <= Len(cfg.preds[header_num]))
      /\ header_num' = header_num + 1 /\ l' = 1
      /\ UNCHANGED <<cfg, dfsVars, postorder, treeVars, bbs, s, loops>>
  BY DEF NextHeader, FirstLatch, HasLatch, buildVars, postorderVars, dfsVars
<1>2. Searching' /\ Searching /\ SearchInv
  BY <1>1 DEF Searching, LoopInv
<1>3. /\ FullInv' /\ TreeTypeOK' /\ WordKept'
      /\ \A h, x : TreeDominates(h, x)' <=> TreeDominates(h, x)
      /\ \A h, x : NaturalLoop(x, h)' = NaturalLoop(x, h)
  BY <1>1, <1>2, SearchFrame
<1>4. header_num \in Blocks /\ header_num' \in 0 .. NBlocks /\ l \in Nat
  BY <1>1, SearchTypes
<1>5. LoopsTypeOK'
  BY <1>1, <1>3, <1>4 DEF LoopInv, LoopsTypeOK
<1>6. ASSUME NEW h \in Blocks, NEW x \in Blocks
      PROVE  SeenAt(h, x)' = SeenAt(h, x) /\ LoopsOf(h, x)' = LoopsOf(h, x)
  <2>1. h \in Int /\ header_num \in Int /\ Len(cfg.preds[h]) \in Nat
    BY <1>4, SearchTypes DEF Blocks
  <2>2. ASSUME NEW m \in 1 .. Len(cfg.preds[h])
        PROVE  (h < header_num + 1 \/ (h = header_num + 1 /\ m < 1))
                  <=> (h < header_num \/ (h = header_num /\ m < l))
    <3>1. m >= 1 /\ (h = header_num => m < l)
      BY <1>1, <1>4, <2>1
    <3> QED
      BY <2>1, <3>1
  <2> QED
    BY <1>1, <2>2 DEF SeenAt, LoopsOf
<1>7. EachEdgeOnce'
  BY <1>2, <1>3, <1>6 DEF SearchInv, EachEdgeOnce
<1>8. SearchInv'
  BY <1>1, <1>2, <1>3, <1>7, SameBodies DEF SearchInv, SearchRange, Collecting
<1> QED
  BY <1>2, <1>3, <1>5, <1>8 DEF LoopInv

(* The edge that is passed is one more occurrence of it, and of no other. *)
LEMMA OneMoreSeen ==
    ASSUME LoopInv, Searching, header_num < NBlocks, l <= Len(cfg.preds[header_num]),
           header_num' = header_num, l' = l + 1, cfg' = cfg,
           NEW h \in Blocks, NEW x \in Blocks
    PROVE  /\ SeenAt(h, x)' = SeenAt(h, x)
                                \union (IF h = header_num /\ x = Latch THEN {l} ELSE {})
           /\ l \notin SeenAt(header_num, x)
           /\ IsFiniteSet(SeenAt(h, x))
<1>1. /\ h \in Int /\ header_num \in Int /\ header_num \in Blocks /\ Len(cfg.preds[h]) \in Nat
      /\ l \in 1 .. Len(cfg.preds[header_num]) /\ l \in Nat /\ Latch = cfg.preds[header_num][l]
  <2>1. header_num \in Blocks /\ l \in 1 .. Len(cfg.preds[header_num])
    BY LatchIsPred
  <2>2. Len(cfg.preds[h]) \in Nat /\ l \in Nat
    BY SearchTypes
  <2>3. \A m \in Blocks : m \in Int
    BY DEF Blocks
  <2> QED
    BY <2>1, <2>2, <2>3 DEF Latch
<1>2. \A m \in 1 .. Len(cfg.preds[h]) : m < l + 1 <=> m < l \/ m = l
  BY <1>1
<1>3. SeenAt(h, x)' = {m \in 1 .. Len(cfg.preds[h]) :
          cfg.preds[h][m] = x /\ (h < header_num \/ (h = header_num /\ m < l + 1))}
  BY DEF SeenAt
<1>4. SeenAt(h, x)' = SeenAt(h, x)
                         \union (IF h = header_num /\ x = Latch THEN {l} ELSE {})
  <2>1. CASE h # header_num
    BY <1>1, <1>3, <2>1 DEF SeenAt
  <2>2. CASE h = header_num
    <3>1. ~(h < header_num)
      BY <1>1, <2>2
    <3> QED
      BY <1>1, <1>2, <1>3, <2>2, <3>1 DEF SeenAt
  <2> QED
    BY <2>1, <2>2
<1>5. l \notin SeenAt(header_num, x)
  BY <1>1 DEF SeenAt
<1>6. IsFiniteSet(SeenAt(h, x))
  <2>0. 1 \in Int /\ Len(cfg.preds[h]) \in Int
    BY <1>1
  <2>1. IsFiniteSet(1 .. Len(cfg.preds[h]))
    BY <2>0, FS_Interval
  <2>2. SeenAt(h, x) \subseteq 1 .. Len(cfg.preds[h])
    BY DEF SeenAt
  <2> QED
    BY <2>1, <2>2, FS_Subset
<1> QED
  BY <1>4, <1>5, <1>6

LEMMA SkipLatch_Loops == LoopInv /\ SkipLatch => LoopInv'
<1> SUFFICES ASSUME LoopInv, SkipLatch PROVE LoopInv'
  OBVIOUS
<1>1. /\ pc = "header" /\ pc' = "header" /\ header_num < NBlocks
      /\ l <= Len(cfg.preds[header_num]) /\ ~TreeDominates(header_num, Latch)
      /\ header_num' = header_num /\ l' = l + 1
      /\ UNCHANGED <<cfg, dfsVars, postorder, treeVars, bbs, s, loops>>
  BY DEF SkipLatch, HasLatch, IsLoop, ReachableFromEntry, TreeDominates, buildVars,
     postorderVars, dfsVars
<1>2. Searching' /\ Searching /\ SearchInv
  BY <1>1 DEF Searching, LoopInv
<1>3. /\ FullInv' /\ TreeTypeOK' /\ WordKept'
      /\ \A h, x : TreeDominates(h, x)' <=> TreeDominates(h, x)
      /\ \A h, x : NaturalLoop(x, h)' = NaturalLoop(x, h)
  BY <1>1, <1>2, SearchFrame
<1>4. l \in Nat /\ l + 1 >= 1 /\ l + 1 \in Nat
  BY SearchTypes
<1>5. LoopsTypeOK'
  BY <1>1, <1>3, <1>4 DEF LoopInv, LoopsTypeOK
<1>6. ASSUME NEW h \in Blocks, NEW x \in Blocks, TreeDominates(h, x)
      PROVE  SeenAt(h, x)' = SeenAt(h, x)
  <2>1. ~(h = header_num /\ x = Latch)
    BY <1>1, <1>6
  <2>2. SeenAt(h, x)' = SeenAt(h, x) \union (IF h = header_num /\ x = Latch THEN {l} ELSE {})
    BY <1>1, <1>2, OneMoreSeen
  <2> QED
    BY <2>1, <2>2
<1>7. \A h, x : LoopsOf(h, x)' = LoopsOf(h, x)
  BY <1>1 DEF LoopsOf
<1>8. EachEdgeOnce'
  <2> SUFFICES ASSUME NEW h \in Blocks, NEW x \in Blocks
               PROVE  Cardinality(LoopsOf(h, x))
                        = IF TreeDominates(h, x) THEN Cardinality(SeenAt(h, x)') ELSE 0
    BY <1>3, <1>7 DEF EachEdgeOnce
  <2>1. Cardinality(LoopsOf(h, x))
                        = IF TreeDominates(h, x) THEN Cardinality(SeenAt(h, x)) ELSE 0
    BY <1>2 DEF SearchInv, EachEdgeOnce
  <2> QED
    BY <1>6, <2>1
<1>9. SearchInv'
  BY <1>1, <1>2, <1>3, <1>4, <1>8, SameBodies DEF SearchInv, SearchRange, Collecting
<1> QED
  BY <1>2, <1>3, <1>5, <1>9 DEF LoopInv

(* A loop starts with its header found and its latch to be looked at. *)
LEMMA BeginLoop_Loops == LoopInv /\ BeginLoop => LoopInv'
<1> SUFFICES ASSUME LoopInv, BeginLoop PROVE LoopInv'
  OBVIOUS
<1>1. /\ pc = "header" /\ pc' = "body" /\ header_num < NBlocks
      /\ l <= Len(cfg.preds[header_num]) /\ TreeDominates(header_num, Latch)
      /\ bbs' = <<header_num>> /\ s' = <<Latch>>
      /\ UNCHANGED <<cfg, dfsVars, postorder, treeVars, header_num, l, loops>>
  BY DEF BeginLoop, HasLatch, IsLoop, FirstBody
<1>2. Searching' /\ Searching /\ SearchInv
  BY <1>1 DEF Searching, LoopInv
<1>3. /\ FullInv' /\ TreeTypeOK' /\ WordKept'
      /\ \A h, x : TreeDominates(h, x)' <=> TreeDominates(h, x)
      /\ \A h, x : NaturalLoop(x, h)' = NaturalLoop(x, h)
  BY <1>1, <1>2, SearchFrame
<1>4. header_num \in Blocks /\ Latch \in Blocks
  BY <1>1, <1>2, LatchIsPred
<1>5. bbs' \in Seq(Blocks) /\ s' \in Seq(Blocks)
  BY <1>1, <1>4
<1>6. LoopsTypeOK'
  BY <1>1, <1>3, <1>5 DEF LoopInv, LoopsTypeOK
<1>7. Contained' = {header_num} /\ Stacked' = {Latch} /\ Latch' = Latch
  BY <1>1 DEF Contained, Stacked, Latch
<1>8. {header_num, Latch} \subseteq NaturalLoop(Latch, header_num)
  BY <1>4, LoopHasLatch DEF NaturalLoop
<1>9. Collecting'
  BY <1>1, <1>3, <1>7, <1>8 DEF Collecting, Found
<1>10. EachEdgeOnce'
  BY <1>1, <1>2, <1>3, SameEdges DEF SearchInv
<1>11. SearchInv'
  BY <1>1, <1>2, <1>3, <1>9, <1>10, SameBodies DEF SearchInv, SearchRange
<1> QED
  BY <1>2, <1>3, <1>6, <1>11 DEF LoopInv

-----------------------------------------------------------------------------

(* The elements of two sequences put together. *)
Elements(q) == {q[k] : k \in 1 .. Len(q)}

LEMMA ConcatRange ==
    ASSUME NEW S, NEW q \in Seq(S), NEW r \in Seq(S)
    PROVE  q \o r \in Seq(S) /\ Elements(q \o r) = Elements(q) \union Elements(r)
<1> DEFINE a == q \o r
<1>1. /\ a \in Seq(S) /\ Len(q) \in Nat /\ Len(r) \in Nat /\ Len(a) = Len(q) + Len(r)
      /\ \A k \in 1 .. Len(q) : a[k] = q[k]
      /\ \A k \in 1 .. Len(r) : a[Len(q) + k] = r[k]
  OBVIOUS
<1> HIDE DEF a
<1>2. \A k \in 1 .. Len(a) : k \in 1 .. Len(q) \/ (k - Len(q)) \in 1 .. Len(r)
  BY <1>1
<1>3. \A k \in 1 .. Len(a) : k = Len(q) + (k - Len(q))
  BY <1>1
<1>4. \A k \in 1 .. Len(q) : k \in 1 .. Len(a)
  BY <1>1
<1>5. \A k \in 1 .. Len(r) : Len(q) + k \in 1 .. Len(a)
  BY <1>1
<1>6. {a[k] : k \in 1 .. Len(a)}
          \subseteq {q[k] : k \in 1 .. Len(q)} \union {r[k] : k \in 1 .. Len(r)}
  <2> SUFFICES ASSUME NEW k \in 1 .. Len(a)
               PROVE  \/ \E m \in 1 .. Len(q) : a[k] = q[m]
                      \/ \E m \in 1 .. Len(r) : a[k] = r[m]
    OBVIOUS
  <2>1. CASE k \in 1 .. Len(q)
    BY <1>1, <2>1
  <2>2. CASE (k - Len(q)) \in 1 .. Len(r)
    <3>1. a[Len(q) + (k - Len(q))] = r[k - Len(q)]
      BY <1>1, <2>2
    <3> QED
      BY <1>3, <2>2, <3>1
  <2> QED
    BY <1>2, <2>1, <2>2
<1>7. {q[k] : k \in 1 .. Len(q)} \union {r[k] : k \in 1 .. Len(r)}
          \subseteq {a[k] : k \in 1 .. Len(a)}
  BY <1>1, <1>4, <1>5
<1>8. {a[k] : k \in 1 .. Len(a)}
          = {q[k] : k \in 1 .. Len(q)} \union {r[k] : k \in 1 .. Len(r)}
  BY <1>6, <1>7
<1> QED
  BY <1>1, <1>8 DEF a, Elements

(* What is left of the stack below its top. *)
LEMMA PoppedRange ==
    ASSUME s \in Seq(Blocks), s # <<>>
    PROVE  /\ Popped \in Seq(Blocks) /\ TopBlock \in Blocks
           /\ Stacked = {Popped[k] : k \in 1 .. Len(Popped)} \union {TopBlock}
<1>1. /\ Popped \in Seq(Blocks) /\ Len(Popped) = Len(s) - 1
      /\ \A k \in 1 .. Len(s) - 1 : Popped[k] = s[k]
  BY FrontElements DEF Popped
<1>2. Len(s) \in Nat \ {0}
  OBVIOUS
<1>3. 1 .. Len(s) = 1 .. Len(s) - 1 \union {Len(s)}
  BY <1>2
<1>4. TopBlock \in Blocks
  BY <1>2 DEF TopBlock
<1> QED
  BY <1>1, <1>3, <1>4 DEF Stacked, TopBlock

(* A block from which the latch can be reached is found, and its         *)
(* predecessors, from which it can be reached as well, are still to be.   *)
LEMMA AddBlock_Loops == LoopInv /\ AddBlock => LoopInv'
<1> SUFFICES ASSUME LoopInv, AddBlock PROVE LoopInv'
  OBVIOUS
<1>1. /\ pc = "body" /\ pc' = "body" /\ s # <<>> /\ TopBlock \notin Contained
      /\ bbs' = Append(bbs, TopBlock) /\ s' = Popped \o cfg.preds[TopBlock]
      /\ UNCHANGED <<cfg, dfsVars, postorder, treeVars, header_num, l, loops>>
  BY DEF AddBlock, Sources, buildVars, postorderVars, dfsVars
<1>2. Searching' /\ Searching /\ SearchInv /\ Collecting
  BY <1>1 DEF Searching, LoopInv, SearchInv
<1>3. /\ FullInv' /\ TreeTypeOK' /\ WordKept'
      /\ \A h, x : TreeDominates(h, x)' <=> TreeDominates(h, x)
      /\ \A h, x : NaturalLoop(x, h)' = NaturalLoop(x, h)
  BY <1>1, <1>2, SearchFrame
<1>4. header_num \in Blocks /\ Latch \in Blocks
  BY <1>1, <1>2, LatchIsPred DEF SearchInv, SearchRange
<1>5. /\ Popped \in Seq(Blocks) /\ TopBlock \in Blocks /\ cfg.preds[TopBlock] \in Seq(Blocks)
      /\ Stacked = {Popped[k] : k \in 1 .. Len(Popped)} \union {TopBlock}
      /\ bbs \in Seq(Blocks)
  BY <1>1, PoppedRange, SearchTypes
<1>6. /\ bbs' \in Seq(Blocks) /\ s' \in Seq(Blocks)
      /\ Contained' = Contained \union {TopBlock}
      /\ Stacked' = {Popped[k] : k \in 1 .. Len(Popped)} \union Preds(cfg, TopBlock)
  <2> DEFINE a == Append(bbs, TopBlock)
             q == Popped
             r == cfg.preds[TopBlock]
             c == q \o r
  <2>1. a \in Seq(Blocks) /\ {a[k] : k \in 1 .. Len(a)} = Contained \union {TopBlock}
    BY <1>5, AppendElements, AppendRange DEF Contained
  <2>2. c \in Seq(Blocks) /\ Elements(c) = Elements(q) \union Elements(r)
    <3>1. q \in Seq(Blocks) /\ r \in Seq(Blocks)
      BY <1>5
    <3> HIDE DEF q, r
    <3> QED
      BY <3>1, ConcatRange
  <2>3. Elements(r) = Preds(cfg, TopBlock) /\ Elements(q) = {q[k] : k \in 1 .. Len(q)}
    BY DEF Preds, Elements
  <2>4. bbs' = a /\ s' = c
    BY <1>1
  <2>5. Stacked' = {q[k] : k \in 1 .. Len(q)} \union Preds(cfg, TopBlock)
    <3> HIDE DEF q, r, c
    <3>1. Stacked' = Elements(c)
      BY <2>4 DEF Stacked, Elements
    <3> QED
      BY <2>2, <2>3, <3>1
  <2> HIDE DEF a, c
  <2> QED
    BY <2>1, <2>2, <2>4, <2>5 DEF Contained
<1>7. LoopsTypeOK'
  BY <1>1, <1>3, <1>6 DEF LoopInv, LoopsTypeOK
<1>8. Found' = Found \union Preds(cfg, TopBlock) /\ Latch' = Latch
  BY <1>1, <1>5, <1>6 DEF Found, Latch
<1>9. TopBlock \in NaturalLoop(Latch, header_num) \ {header_num}
  BY <1>1, <1>2, <1>5 DEF Collecting, Found
<1>10. Preds(cfg, TopBlock) \subseteq NaturalLoop(Latch, header_num)
  BY <1>4, <1>9, SearchTypes, LoopHasPreds
<1>11. Collecting'
  BY <1>1, <1>2, <1>3, <1>6, <1>8, <1>10 DEF Collecting
<1>12. EachEdgeOnce'
  BY <1>1, <1>2, <1>3, SameEdges DEF SearchInv
<1>13. SearchInv'
  BY <1>1, <1>2, <1>3, <1>11, <1>12, SameBodies DEF SearchInv, SearchRange
<1> QED
  BY <1>2, <1>3, <1>7, <1>13 DEF LoopInv

LEMMA DropBlock_Loops == LoopInv /\ DropBlock => LoopInv'
<1> SUFFICES ASSUME LoopInv, DropBlock PROVE LoopInv'
  OBVIOUS
<1>1. /\ pc = "body" /\ pc' = "body" /\ s # <<>> /\ TopBlock \in Contained /\ s' = Popped
      /\ UNCHANGED <<cfg, dfsVars, postorder, treeVars, header_num, l, loops, bbs>>
  BY DEF DropBlock, buildVars, postorderVars, dfsVars
<1>2. Searching' /\ Searching /\ SearchInv /\ Collecting
  BY <1>1 DEF Searching, LoopInv, SearchInv
<1>3. /\ FullInv' /\ TreeTypeOK' /\ WordKept'
      /\ \A h, x : TreeDominates(h, x)' <=> TreeDominates(h, x)
      /\ \A h, x : NaturalLoop(x, h)' = NaturalLoop(x, h)
  BY <1>1, <1>2, SearchFrame
<1>4. /\ Popped \in Seq(Blocks)
      /\ Stacked = {Popped[k] : k \in 1 .. Len(Popped)} \union {TopBlock}
  BY <1>1, PoppedRange, SearchTypes
<1>5. LoopsTypeOK'
  BY <1>1, <1>3, <1>4 DEF LoopInv, LoopsTypeOK
<1>6. Contained' = Contained /\ Stacked' = {Popped[k] : k \in 1 .. Len(Popped)} /\ Latch' = Latch
  BY <1>1 DEF Contained, Stacked, Latch
<1>7. Found' = Found
  BY <1>1, <1>4, <1>6 DEF Found
<1>8. Collecting'
  BY <1>1, <1>2, <1>3, <1>6, <1>7 DEF Collecting
<1>9. EachEdgeOnce'
  BY <1>1, <1>2, <1>3, SameEdges DEF SearchInv
<1>10. SearchInv'
  BY <1>1, <1>2, <1>3, <1>8, <1>9, SameBodies DEF SearchInv, SearchRange
<1> QED
  BY <1>2, <1>3, <1>5, <1>10 DEF LoopInv

(* With nothing left on the stack the whole loop has been found. *)
LEMMA EndLoop_Loops == LoopInv /\ EndLoop => LoopInv'
<1> SUFFICES ASSUME LoopInv, EndLoop PROVE LoopInv'
  OBVIOUS
<1> DEFINE new == [header |-> header_num, latch |-> Latch, bbs |-> bbs]
<1>1. /\ pc = "body" /\ pc' = "header" /\ s = <<>> /\ loops' = Append(loops, new)
      /\ header_num' = header_num /\ l' = l + 1
      /\ UNCHANGED <<cfg, dfsVars, postorder, treeVars, bbs, s>>
  BY DEF EndLoop
<1>2. /\ Searching' /\ Searching /\ SearchInv /\ Collecting
      /\ header_num < NBlocks /\ l <= Len(cfg.preds[header_num])
  BY <1>1 DEF Searching, LoopInv, SearchInv, SearchRange
<1>3. /\ FullInv' /\ TreeTypeOK' /\ WordKept'
      /\ \A h, x : TreeDominates(h, x)' <=> TreeDominates(h, x)
      /\ \A h, x : NaturalLoop(x, h)' = NaturalLoop(x, h)
  BY <1>1, <1>2, SearchFrame
<1>4. /\ header_num \in Blocks /\ Latch \in Blocks /\ l \in Nat
      /\ l + 1 \in 1 .. Len(cfg.preds[header_num]) + 1
  BY <1>2, LatchIsPred, SearchTypes
<1>5. /\ loops \in Seq([header : Blocks, latch : Blocks, bbs : Seq(Blocks)])
      /\ new \in [header : Blocks, latch : Blocks, bbs : Seq(Blocks)]
      /\ Len(loops) \in Nat
  BY <1>4, SearchTypes
<1>6. /\ loops' \in Seq([header : Blocks, latch : Blocks, bbs : Seq(Blocks)])
      /\ Len(loops') = Len(loops) + 1
      /\ \A k \in 1 .. Len(loops) : loops'[k] = loops[k]
      /\ loops'[Len(loops) + 1] = new
  <2> HIDE DEF new
  <2> QED
    BY <1>1, <1>5, AppendElements
<1>7. LoopsTypeOK'
  <2> HIDE DEF new
  <2> QED
    BY <1>1, <1>3, <1>4, <1>6 DEF LoopInv, LoopsTypeOK
<1>8. Found = Contained
  BY <1>1 DEF Found, Stacked
<1>9. Contained = NaturalLoop(Latch, header_num)
  <2>1. NaturalLoop(Latch, header_num) \subseteq Contained
    BY <1>1, <1>2, <1>4, <1>8, SearchTypes, LoopIsLeast DEF Collecting
  <2> QED
    BY <1>1, <1>2, <1>8, <2>1 DEF Collecting
<1>10. \A k \in 1 .. Len(loops') : k \in 1 .. Len(loops) \/ k = Len(loops) + 1
  BY <1>5, <1>6
<1>11. BodiesNatural'
  <2> SUFFICES ASSUME NEW k \in 1 .. Len(loops')
               PROVE  BodyOf(k)' = NaturalLoop(loops'[k].latch, loops'[k].header)
    BY <1>3 DEF BodiesNatural
  <2>1. CASE k \in 1 .. Len(loops)
    <3>1. BodyOf(k) = NaturalLoop(loops[k].latch, loops[k].header)
      BY <1>2, <2>1 DEF SearchInv, BodiesNatural
    <3> QED
      BY <1>6, <2>1, <3>1 DEF BodyOf
  <2>2. CASE k = Len(loops) + 1
    <3>1. loops'[k] = new
      BY <1>6, <2>2
    <3>2. BodyOf(k)' = Contained
      BY <3>1 DEF BodyOf, Contained
    <3> QED
      BY <1>9, <3>1, <3>2
  <2> QED
    BY <1>10, <2>1, <2>2
<1>12. EachEdgeOnce'
  <2> SUFFICES ASSUME NEW h \in Blocks, NEW x \in Blocks
               PROVE  Cardinality(LoopsOf(h, x)')
                        = IF TreeDominates(h, x) THEN Cardinality(SeenAt(h, x)') ELSE 0
    BY <1>3 DEF EachEdgeOnce
  <2>1. Cardinality(LoopsOf(h, x))
            = IF TreeDominates(h, x) THEN Cardinality(SeenAt(h, x)) ELSE 0
    BY <1>2 DEF SearchInv, EachEdgeOnce
  <2>2. LoopsOf(h, x)' = LoopsOf(h, x) \union
                           (IF h = header_num /\ x = Latch THEN {Len(loops) + 1} ELSE {})
    <3>1. new.header = header_num /\ new.latch = Latch
      OBVIOUS
    <3>2. \A k \in 1 .. Len(loops) : k \in 1 .. Len(loops')
      BY <1>5, <1>6
    <3>3. Len(loops) + 1 \in 1 .. Len(loops')
      BY <1>5, <1>6
    <3> HIDE DEF new
    <3> QED
      BY <1>6, <1>10, <3>1, <3>2, <3>3 DEF LoopsOf
  <2>3. /\ SeenAt(h, x)' = SeenAt(h, x)
                             \union (IF h = header_num /\ x = Latch THEN {l} ELSE {})
        /\ l \notin SeenAt(header_num, x)
        /\ IsFiniteSet(SeenAt(h, x))
    BY <1>1, <1>2, OneMoreSeen
  <2>4. IsFiniteSet(LoopsOf(h, x)) /\ Len(loops) + 1 \notin LoopsOf(h, x)
    <3>1. IsFiniteSet(1 .. Len(loops)) /\ Len(loops) + 1 \notin 1 .. Len(loops)
      BY <1>5, FS_Interval
    <3>2. LoopsOf(h, x) \subseteq 1 .. Len(loops)
      BY DEF LoopsOf
    <3> QED
      BY <3>1, <3>2, FS_Subset
  <2>5. CASE h = header_num /\ x = Latch
    <3>1. TreeDominates(h, x)
      BY <1>1, <1>2, <2>5 DEF Collecting
    <3>2. Cardinality(LoopsOf(h, x)') = Cardinality(LoopsOf(h, x)) + 1
      BY <2>2, <2>4, <2>5, FS_AddElement
    <3>3. Cardinality(SeenAt(h, x)') = Cardinality(SeenAt(h, x)) + 1
      BY <2>3, <2>5, FS_AddElement
    <3> QED
      BY <2>1, <3>1, <3>2, <3>3
  <2>6. CASE ~(h = header_num /\ x = Latch)
    BY <2>1, <2>2, <2>3, <2>6
  <2> QED
    BY <2>5, <2>6
<1>13. l' >= 1
  BY <1>1, <1>4
<1>14. SearchInv'
  BY <1>1, <1>11, <1>12, <1>13 DEF SearchInv, SearchRange, Collecting
<1> QED
  BY <1>2, <1>3, <1>7, <1>14 DEF LoopInv

LEMMA EndLoops_Loops == LoopInv /\ EndLoops => LoopInv'
<1> SUFFICES ASSUME LoopInv, EndLoops PROVE LoopInv'
  OBVIOUS
<1>1. /\ pc = "header" /\ pc' = "loops" /\ header_num = NBlocks
      /\ UNCHANGED <<cfg, dfsVars, postorder, treeVars, header_num, l, bbs, s, loops>>
  BY DEF EndLoops, loopVars
<1>2. Searching' /\ Searching /\ SearchInv
  BY <1>1 DEF Searching, LoopInv
<1>3. /\ FullInv' /\ TreeTypeOK' /\ WordKept'
      /\ \A h, x : TreeDominates(h, x)' <=> TreeDominates(h, x)
      /\ \A h, x : NaturalLoop(x, h)' = NaturalLoop(x, h)
  BY <1>1, <1>2, SearchFrame
<1>4. LoopsTypeOK'
  BY <1>1, <1>3 DEF LoopInv, LoopsTypeOK
<1>5. EachEdgeOnce'
  BY <1>1, <1>2, <1>3, SameEdges DEF SearchInv
<1>6. SearchInv'
  BY <1>1, <1>2, <1>3, <1>5, SameBodies DEF SearchInv, SearchRange, Collecting
<1> QED
  BY <1>2, <1>3, <1>4, <1>6 DEF LoopInv

LEMMA Frame_Loops == LoopInv /\ UNCHANGED allLoopVars => LoopInv'
<1> SUFFICES ASSUME LoopInv, UNCHANGED allLoopVars PROVE LoopInv'
  OBVIOUS
<1>1. /\ UNCHANGED <<cfg, pc, visited, postorder, path, cursor, treeVars, header_num, l, bbs, s,
                     loops>>
      /\ idoms' = idoms
  BY DEF allLoopVars, buildVars, postorderVars, loopVars, treeVars
<1>2. FullInv'
  BY <1>1, Frame_Full DEF LoopInv
<1>3. LoopsTypeOK' /\ WordKept' /\ (Searching' <=> Searching)
  BY <1>1, <1>2 DEF LoopInv, LoopsTypeOK, FullInv, BuildInv, WordKept, Searching
<1>4. /\ \A h, x : TreeDominates(h, x)' <=> TreeDominates(h, x)
      /\ \A h, x : NaturalLoop(x, h)' = NaturalLoop(x, h)
      /\ Found' = Found /\ Contained' = Contained /\ Latch' = Latch
  BY <1>1 DEF TreeDominates, Met, RunnerStart, NaturalLoop, Found, Contained, Stacked, Latch
<1>5. Collecting' <=> Collecting
  BY <1>1, <1>4 DEF Collecting
<1>6. EachEdgeOnce' <=> EachEdgeOnce
  BY <1>1, <1>4, SameEdges
<1>7. BodiesNatural' <=> BodiesNatural
  BY <1>1, <1>4, SameBodies
<1>8. SearchInv' <=> SearchInv
  BY <1>1, <1>5, <1>6, <1>7 DEF SearchInv, SearchRange
<1> QED
  BY <1>1, <1>2, <1>3, <1>8 DEF LoopInv

LEMMA LoopsInvariant == LoopsSpec => []LoopInv
<1>1. LoopInv /\ [LoopsNext]_allLoopVars => LoopInv'
  BY Frame_Loops, Build_Loops, StartLoops_Loops, NextHeader_Loops, SkipLatch_Loops,
     BeginLoop_Loops, AddBlock_Loops, DropBlock_Loops, EndLoop_Loops, EndLoops_Loops
     DEF LoopsNext
<1> QED
  BY <1>1, Init_Loops, PTL DEF LoopsSpec

-----------------------------------------------------------------------------

(* What the invariant says when the search has ended. *)
LEMMA LoopInvNatural == LoopInv => LoopsAreNatural
<1> SUFFICES ASSUME LoopInv, pc = "loops", FirstPredsLater
             PROVE  /\ \A k \in 1 .. Len(loops) :
                          BodyOf(k) = NaturalLoop(loops[k].latch, loops[k].header)
                    /\ \A header \in Blocks : \A latch \in Reachable(cfg) :
                          latch # header \/ header = Entry =>
                              Cardinality({k \in 1 .. Len(loops) :
                                      loops[k].header = header /\ loops[k].latch = latch})
                                = IF IsBackEdge(DominatorSets(cfg), latch, header)
                                  THEN Cardinality({m \in 1 .. Len(cfg.preds[header]) :
                                                       cfg.preds[header][m] = latch})
                                  ELSE 0
  BY DEF LoopsAreNatural
<1>1. SearchInv /\ header_num = NBlocks /\ Started /\ ~Sweeping /\ FullInv /\ WordKept
  BY DEF LoopInv, SearchInv, SearchRange, Searching, Started, Sweeping
<1>2. ASSUME NEW header \in Blocks, NEW latch \in Reachable(cfg),
             latch # header \/ header = Entry
      PROVE  Cardinality({k \in 1 .. Len(loops) :
                              loops[k].header = header /\ loops[k].latch = latch})
               = IF IsBackEdge(DominatorSets(cfg), latch, header)
                 THEN Cardinality({m \in 1 .. Len(cfg.preds[header]) :
                                      cfg.preds[header][m] = latch})
                 ELSE 0
  <2>1. TreeDominates(header, latch) <=> IsBackEdge(DominatorSets(cfg), latch, header)
    BY <1>1, <1>2, TreeTellsBackEdges
  <2>2. header < header_num
    BY <1>1, NBlocksAssumption DEF Blocks
  <2>3. SeenAt(header, latch)
          = {m \in 1 .. Len(cfg.preds[header]) : cfg.preds[header][m] = latch}
    BY <2>2 DEF SeenAt
  <2>4. latch \in Blocks
    BY DEF Reachable, ReachableFrom
  <2> QED
    BY <1>1, <2>1, <2>3, <2>4 DEF SearchInv, EachEdgeOnce, LoopsOf
<1> QED
  BY <1>1, <1>2 DEF SearchInv, BodiesNatural

(* The header of a loop dominates its blocks when it dominates its latch. *)
LEMMA HeaderDominates ==
    ASSUME WellFormed(cfg), NEW h \in Reachable(cfg), NEW x, Dominates(cfg, h, x),
           NEW b \in NaturalLoop(x, h), b \in Reachable(cfg)
    PROVE  Dominates(cfg, h, b)
<1>1. cfg \in Cfg
  BY DEF WellFormed
<1>2. CASE b = h
  BY <1>1, <1>2, DominatesItself
<1>3. CASE b # h
  BY <1>1, <1>3, DominatesStart DEF NaturalLoop
<1> QED
  BY <1>2, <1>3

(* Of two loops with a block in common, the one whose header is dominated  *)
(* by the header of the other lies in the other: from each of its blocks a *)
(* way past the other header leads to its own header, on to the common     *)
(* block and to the latch of the other loop.                               *)
LEMMA InnerLoop ==
    ASSUME WellFormed(cfg), Reachable(cfg) = Blocks,
           NEW h1 \in Blocks, NEW x1 \in Blocks, NEW h2 \in Blocks, NEW x2 \in Blocks,
           Dominates(cfg, h2, x2), x2 \in Preds(cfg, h2),
           h1 # h2, ~Dominates(cfg, h2, h1),
           NEW b \in NaturalLoop(x1, h1), b \in NaturalLoop(x2, h2)
    PROVE  NaturalLoop(x2, h2) \subseteq NaturalLoop(x1, h1)
<1> DEFINE S == {v \in NaturalLoop(x2, h2) : h2 \in ReachableFrom(cfg, v, h1)}
<1>1. cfg \in Cfg /\ NaturalLoop(x2, h2) \subseteq Blocks
  BY DEF WellFormed, NaturalLoop
<1>2. h1 \notin NaturalLoop(x2, h2)
  BY HeaderDominates
<1>3. h2 \in S
  BY ReachableStart DEF NaturalLoop
<1>4. ASSUME NEW v \in NaturalLoop(x2, h2), NEW u \in Succs(cfg, v),
             h2 \in ReachableFrom(cfg, u, h1)
      PROVE  v \in S
  BY <1>1, <1>2, <1>4, ReachablePrepend
<1>5. x2 \in S
  <2>1. h2 \in Succs(cfg, x2) /\ x2 \in NaturalLoop(x2, h2)
    BY LoopHasLatch DEF WellFormed
  <2> QED
    BY <1>3, <1>4, <2>1
<1>6. \A v \in (S \cap Blocks) \ {h2} : Preds(cfg, v) \subseteq S
  <2> SUFFICES ASSUME NEW v \in S, v # h2, NEW u \in Preds(cfg, v) PROVE u \in S
    OBVIOUS
  <2>1. u \in NaturalLoop(x2, h2)
    BY LoopHasPreds
  <2>2. v \in Blocks /\ v \in Succs(cfg, u)
    BY <1>1, <2>1 DEF WellFormed
  <2> QED
    BY <1>4, <2>1, <2>2
<1>7. NaturalLoop(x2, h2) \subseteq S
  <2> HIDE DEF S
  <2> QED
    BY <1>3, <1>5, <1>6, LoopIsLeast
<1>8. x1 \in ReachableFrom(cfg, b, h1)
  BY <1>2 DEF NaturalLoop
<1>9. Dominates(cfg, h2, b) /\ b \in Blocks
  BY <1>1, HeaderDominates
<1>10. b \in ReachableFrom(cfg, h2, h1)
  BY <1>1, <1>9, DominatedReached
<1>11. ASSUME NEW v \in NaturalLoop(x2, h2) PROVE v \in NaturalLoop(x1, h1)
  <2>1. v \in Blocks /\ h2 \in ReachableFrom(cfg, v, h1)
    BY <1>1, <1>7
  <2>2. b \in ReachableFrom(cfg, v, h1)
    BY <1>1, <1>10, <2>1, ReachableTransitive
  <2>3. x1 \in ReachableFrom(cfg, v, h1)
    BY <1>1, <1>8, <2>1, <2>2, ReachableTransitive
  <2> QED
    BY <2>1, <2>3 DEF NaturalLoop
<1> QED
  BY <1>11

(* The edge of a loop that has been found is in the graph, and its header *)
(* dominates its latch if the latch can be reached.                       *)
LEMMA LoopHasEdge ==
    ASSUME LoopInv, pc = "loops", FirstPredsLater, NEW k \in 1 .. Len(loops),
           NEW h, h = loops[k].header, NEW x, x = loops[k].latch
    PROVE  /\ h \in Blocks /\ x \in Blocks
           /\ x \in Reachable(cfg) => IsBackEdge(DominatorSets(cfg), x, h)
           /\ x \in Preds(cfg, h)
           /\ BodyOf(k) = NaturalLoop(x, h)
<1>1. SearchInv /\ Started /\ ~Sweeping /\ FullInv /\ WordKept
  BY DEF LoopInv, Searching, Started, Sweeping
<1>2. h \in Blocks /\ x \in Blocks
  <2> DEFINE Loop == [header : Blocks, latch : Blocks, bbs : Seq(Blocks)]
  <2>1. loops \in Seq(Loop)
    BY SearchTypes
  <2>2. loops[k] \in Loop
    <3> HIDE DEF Loop
    <3> QED
      BY <2>1
  <2> QED
    BY <2>2
<1>3. k \in LoopsOf(h, x) /\ IsFiniteSet(LoopsOf(h, x))
  <2>1. IsFiniteSet(1 .. Len(loops)) /\ LoopsOf(h, x) \subseteq 1 .. Len(loops)
    BY SearchTypes, FS_Interval DEF LoopsOf
  <2> QED
    BY <2>1, FS_Subset DEF LoopsOf
<1>4. Cardinality(LoopsOf(h, x)) # 0
  BY <1>3, FS_EmptySet
<1>5. TreeDominates(h, x) /\ Cardinality(SeenAt(h, x)) # 0
  BY <1>1, <1>2, <1>4 DEF SearchInv, EachEdgeOnce
<1>6. SeenAt(h, x) # {}
  BY <1>5, FS_EmptySet
<1>7. x \in Preds(cfg, h)
  BY <1>6 DEF SeenAt, Preds
<1>8. x \in Reachable(cfg) => IsBackEdge(DominatorSets(cfg), x, h)
  BY <1>1, <1>2, <1>5, TreeTellsBackEdges
<1> QED
  BY <1>1, <1>2, <1>7, <1>8 DEF SearchInv, BodiesNatural

LEMMA LoopInvNests == LoopInv => LoopsNest
<1> SUFFICES ASSUME LoopInv, pc = "loops", FirstPredsLater, Reachable(cfg) = Blocks,
                    NEW j1 \in 1 .. Len(loops), NEW j2 \in 1 .. Len(loops),
                    loops[j1].header # loops[j2].header,
                    NEW b \in BodyOf(j1), b \in BodyOf(j2)
             PROVE  BodyOf(j1) \subseteq BodyOf(j2) \/ BodyOf(j2) \subseteq BodyOf(j1)
  BY DEF LoopsNest, AllReachable
<1> DEFINE h1 == loops[j1].header
           x1 == loops[j1].latch
           h2 == loops[j2].header
           x2 == loops[j2].latch
<1>1. /\ h1 \in Blocks /\ x1 \in Blocks /\ IsBackEdge(DominatorSets(cfg), x1, h1)
      /\ x1 \in Preds(cfg, h1) /\ BodyOf(j1) = NaturalLoop(x1, h1)
  BY LoopHasEdge
<1>2. /\ h2 \in Blocks /\ x2 \in Blocks /\ IsBackEdge(DominatorSets(cfg), x2, h2)
      /\ x2 \in Preds(cfg, h2) /\ BodyOf(j2) = NaturalLoop(x2, h2)
  BY LoopHasEdge
<1>3. h1 # h2
  OBVIOUS
<1> HIDE DEF h1, h2, x1, x2
<1>4. /\ WellFormed(cfg) /\ IsTree(idoms, postorder_map) /\ InTree(idoms) = Reachable(cfg)
      /\ \A c \in Reachable(cfg) :
            c \in Blocks /\ Ancestors(c) = {a \in Blocks : Dominates(cfg, a, c)}
  <2>1. FullInv /\ Started /\ ~Sweeping
    BY DEF LoopInv, Started, Sweeping
  <2> QED
    BY <2>1, FinishedTree
<1>5. \A h, x \in Blocks : IsBackEdge(DominatorSets(cfg), x, h) => Dominates(cfg, h, x)
  BY DominatorTable DEF IsBackEdge
<1>6. Dominates(cfg, h1, x1) /\ Dominates(cfg, h2, x2)
  BY <1>1, <1>2, <1>5
<1>7. Dominates(cfg, h1, b) /\ Dominates(cfg, h2, b) /\ b \in Blocks
  <2>1. b \in Blocks
    BY <1>1 DEF NaturalLoop
  <2> QED
    BY <1>1, <1>2, <1>4, <1>6, <2>1, HeaderDominates
<1>8. ~(Dominates(cfg, h1, h2) /\ Dominates(cfg, h2, h1))
  BY <1>1, <1>2, <1>3, <1>4, AncestorsOrdered DEF Ancestors
<1>9. CASE ~Dominates(cfg, h2, h1)
  BY <1>1, <1>2, <1>3, <1>4, <1>6, <1>9, InnerLoop
<1>10. CASE ~Dominates(cfg, h1, h2)
  BY <1>1, <1>2, <1>3, <1>4, <1>6, <1>10, InnerLoop
<1> QED
  BY <1>8, <1>9, <1>10

(* The types of the graph, the tree and the search, in every state of     *)
(* LoopInfo on every graph.                                               *)
THEOREM LoopsTypeCorrect == LoopsSpec => []LoopsTypeOK
<1>1. LoopInv => LoopsTypeOK
  BY DEF LoopInv
<1> QED
  BY <1>1, LoopsInvariant, PTL

(* Every loop that LoopInfo's constructor finds has the blocks of the       *)
(* natural loop of its edge.  Of the edges from reachable blocks, those     *)
(* from a block other than the entry to itself left aside, it finds a loop  *)
(* for every back edge, as often as the edge is among the predecessors of   *)
(* its header, and for no other.                                            *)
THEOREM LoopsFoundAreNatural == LoopsSpec => []LoopsAreNatural
BY LoopInvNatural, LoopsInvariant, PTL

(* The loops LoopInfo finds with different headers share no block, or one *)
(* of them holds the other.                                               *)
THEOREM LoopsFoundNest == LoopsSpec => []LoopsNest
BY LoopInvNests, LoopsInvariant, PTL

-----------------------------------------------------------------------------
(* What LoopInfo has left to do after build: the headers, and the latches of  *)
(* one; and of a loop that is collected the blocks not in it, and the stack.  *)
LatchesLeft ==
    IF header_num < NBlocks /\ l <= Len(cfg.preds[header_num])
    THEN Len(cfg.preds[header_num]) + 1 - l ELSE 0

SearchLeft ==
    <<IF pc = "loops" THEN 0 ELSE IF Searching THEN 1 ELSE 2, NBlocks - header_num, LatchesLeft>>

BodyLeft == <<IF pc = "body" THEN 0 ELSE 1, Cardinality(Blocks \ Contained), Len(s)>>

LoopsLeft == (BuildLeft \o SearchLeft) \o BodyLeft

SearchCounted ==
    /\ pc # "intersect" => BuildLeft \in [1 .. 11 -> Nat]
    /\ SearchLeft \in [1 .. 3 -> Nat] /\ BodyLeft \in [1 .. 3 -> Nat]
    /\ NBlocks - header_num \in Nat /\ LatchesLeft \in Nat
    /\ Cardinality(Blocks \ Contained) \in Nat /\ Len(s) \in Nat

LEMMA SearchLeftIs == LoopInv => SearchCounted
<1> SUFFICES ASSUME LoopInv PROVE SearchCounted
  OBVIOUS
<1>1. pc # "intersect" => BuildLeft \in [1 .. 11 -> Nat]
  <2> SUFFICES ASSUME pc # "intersect" PROVE BuildLeft \in [1 .. 11 -> Nat]
    OBVIOUS
  <2>1. /\ TraversalLeft \o TreeSweepsLeft \in [1 .. 7 -> Nat]
        /\ BlockLeft \in [1 .. 4 -> Nat]
    BY SweepsLeftIs DEF SweepsCounted, LoopInv, FullInv
  <2>2. 7 \in Nat /\ 4 \in Nat /\ 7 + 4 = 11
    OBVIOUS
  <2>3. (TraversalLeft \o TreeSweepsLeft) \o BlockLeft \in [1 .. 7 + 4 -> Nat]
    BY <2>1, <2>2, Together
  <2> QED
    BY <2>2, <2>3 DEF BuildLeft
<1>2. NBlocks - header_num \in Nat
  BY SearchTypes
<1>3. LatchesLeft \in Nat
  <2>1. header_num < NBlocks => Len(cfg.preds[header_num]) \in Nat
    BY SearchTypes
  <2>2. l \in Nat
    BY SearchTypes
  <2> QED
    BY <2>1, <2>2 DEF LatchesLeft
<1>4. Cardinality(Blocks \ Contained) \in Nat
  BY BlocksFinite, FS_Subset, FS_CardinalityType
<1>5. Len(s) \in Nat
  BY SearchTypes
<1>6. SearchLeft \in [1 .. 3 -> Nat]
  BY <1>2, <1>3 DEF SearchLeft
<1>7. BodyLeft \in [1 .. 3 -> Nat]
  BY <1>4, <1>5 DEF BodyLeft
<1> QED
  BY <1>1, <1>2, <1>3, <1>4, <1>5, <1>6, <1>7 DEF SearchCounted

(* The search lowers what is left of it, and keeps that of build. *)
LEMMA SearchLowers ==
    ASSUME SearchCounted, SearchCounted', pc # "intersect", BuildLeft' = BuildLeft,
           \/ <<SearchLeft', SearchLeft>> \in Lexicographic(3)
           \/ SearchLeft' = SearchLeft /\ <<BodyLeft', BodyLeft>> \in Lexicographic(3)
    PROVE  <<LoopsLeft', LoopsLeft>> \in Lexicographic(17)
<1>1. 3 \in Nat /\ 11 \in Nat /\ 14 \in Nat /\ 11 + 3 = 14 /\ 14 + 3 = 17
  OBVIOUS
<1>2. BuildLeft \in [1 .. 11 -> Nat]
  BY DEF SearchCounted
<1>3. CASE <<SearchLeft', SearchLeft>> \in Lexicographic(3)
  <2>1. <<BuildLeft \o SearchLeft', BuildLeft \o SearchLeft>> \in Lexicographic(11 + 3)
    BY <1>1, <1>2, <1>3, LowerBehind
  <2>2. <<BuildLeft' \o SearchLeft', BuildLeft \o SearchLeft>> \in Lexicographic(14)
    BY <1>1, <2>1
  <2>3. <<(BuildLeft' \o SearchLeft') \o BodyLeft', (BuildLeft \o SearchLeft) \o BodyLeft>>
            \in Lexicographic(14 + 3)
    BY <1>1, <2>2, LowerBefore DEF SearchCounted
  <2> QED
    BY <1>1, <2>3 DEF LoopsLeft
<1>4. CASE SearchLeft' = SearchLeft /\ <<BodyLeft', BodyLeft>> \in Lexicographic(3)
  <2>1. BuildLeft \o SearchLeft \in [1 .. 11 + 3 -> Nat]
    BY <1>1, <1>2, Together DEF SearchCounted
  <2>2. BuildLeft \o SearchLeft \in [1 .. 14 -> Nat]
    BY <1>1, <2>1
  <2>3. <<(BuildLeft \o SearchLeft) \o BodyLeft', (BuildLeft \o SearchLeft) \o BodyLeft>>
            \in Lexicographic(14 + 3)
    BY <1>1, <1>4, <2>2, LowerBehind
  <2> QED
    BY <1>1, <1>4, <2>3 DEF LoopsLeft
<1> QED
  BY <1>3, <1>4

(* The step looks at what comes after build. *)
LEMMA SearchKeepsBuild ==
    ASSUME UNCHANGED <<cfg, dfsVars, postorder, treeVars>>,
           Searching \/ pc = "built", Searching'
    PROVE  BuildLeft' = BuildLeft
<1>1. TraversalLeft' = TraversalLeft
  BY DEF TraversalLeft, Unlooked, Searching, dfsVars
<1>2. TreeSweepsLeft' = TreeSweepsLeft
  <2>1. Started /\ Started' /\ ~Sweeping /\ ~Sweeping'
    BY DEF Searching, Started, Sweeping
  <2>2. RoomAbove' = RoomAbove
    BY DEF RoomAbove, Processed, treeVars
  <2> QED
    BY <2>1, <2>2 DEF TreeSweepsLeft, treeVars
<1>3. BlockLeft = <<1, 0, 1, 0>> /\ BlockLeft' = <<1, 0, 1, 0>>
  BY DEF BlockLeft, AtBlock, PredsLeft, FingersLeft, Searching
<1> QED
  BY <1>1, <1>2, <1>3 DEF BuildLeft

(* From latch to latch ... *)
LEMMA LatchLowers ==
    ASSUME LoopInv, SearchCounted, SearchCounted',
           StartLoops \/ NextHeader \/ SkipLatch \/ EndLoop \/ EndLoops
    PROVE  <<SearchLeft', SearchLeft>> \in Lexicographic(3)
<1> DEFINE h == NBlocks - header_num
           h1 == NBlocks - header_num'
           m == LatchesLeft
           m1 == LatchesLeft'
<1>1. h \in Nat /\ h1 \in Nat /\ m \in Nat /\ m1 \in Nat
  BY DEF SearchCounted
<1>2. 0 \in Nat /\ 1 \in Nat /\ 2 \in Nat /\ 0 < 1 /\ 1 < 2
  OBVIOUS
<1>3. CASE StartLoops \/ EndLoops
  <2>1. CASE StartLoops
    <3>1. SearchLeft = <<2, h, m>> /\ SearchLeft' = <<1, h1, m1>>
      BY <2>1 DEF StartLoops, SearchLeft, Searching
    <3> HIDE DEF h, h1, m, m1
    <3> QED
      BY <1>1, <1>2, <3>1, LowerOfThree
  <2>2. CASE EndLoops
    <3>1. SearchLeft = <<1, h, m>> /\ SearchLeft' = <<0, h1, m1>>
      BY <2>2 DEF EndLoops, SearchLeft, Searching
    <3> HIDE DEF h, h1, m, m1
    <3> QED
      BY <1>1, <1>2, <3>1, LowerOfThree
  <2> QED
    BY <1>3, <2>1, <2>2
<1>4. CASE NextHeader
  <2>1. pc = "header" /\ pc' = "header" /\ header_num' = header_num + 1
    BY <1>4 DEF NextHeader, buildVars, postorderVars
  <2>2. SearchLeft = <<1, h, m>> /\ SearchLeft' = <<1, h1, m1>>
    BY <2>1 DEF SearchLeft, Searching
  <2>3. h1 < h
    BY <2>1, SearchTypes
  <2> HIDE DEF h, h1, m, m1
  <2> QED
    BY <1>1, <1>2, <2>2, <2>3, LowerOfThree
<1>5. CASE SkipLatch \/ EndLoop
  <2>1. /\ pc \in {"header", "body"} /\ pc' = "header" /\ header_num' = header_num
        /\ l' = l + 1 /\ cfg' = cfg
        /\ header_num < NBlocks /\ l <= Len(cfg.preds[header_num])
    BY <1>5 DEF SkipLatch, EndLoop, HasLatch, buildVars, postorderVars, LoopInv, Searching,
       SearchInv, SearchRange
  <2>2. SearchLeft = <<1, h, m>> /\ SearchLeft' = <<1, h, m1>>
    BY <2>1 DEF SearchLeft, Searching
  <2>3. m1 < m
    <3>1. l \in Nat /\ Len(cfg.preds[header_num]) \in Nat
      BY <2>1, SearchTypes
    <3>2. m = Len(cfg.preds[header_num]) + 1 - l
      BY <2>1 DEF LatchesLeft
    <3>3. m1 = IF l + 1 <= Len(cfg.preds[header_num])
               THEN Len(cfg.preds[header_num]) + 1 - (l + 1) ELSE 0
      BY <2>1 DEF LatchesLeft
    <3>4. \A len, k \in Nat : k <= len =>
            (IF k + 1 <= len THEN len + 1 - (k + 1) ELSE 0) < len + 1 - k
      OBVIOUS
    <3> QED
      BY <2>1, <3>1, <3>2, <3>3, <3>4
  <2> HIDE DEF h, h1, m, m1
  <2> QED
    BY <1>1, <1>2, <2>2, <2>3, LowerOfThree
<1> QED
  BY <1>3, <1>4, <1>5

(* ... and within a loop. *)
LEMMA BodyLowers ==
    ASSUME LoopInv, SearchCounted, SearchCounted', BeginLoop \/ AddBlock \/ DropBlock
    PROVE  SearchLeft' = SearchLeft /\ <<BodyLeft', BodyLeft>> \in Lexicographic(3)
<1> DEFINE c == Cardinality(Blocks \ Contained)
           c1 == Cardinality(Blocks \ Contained')
           k == Len(s)
           k1 == Len(s')
<1>1. c \in Nat /\ c1 \in Nat /\ k \in Nat /\ k1 \in Nat
  BY DEF SearchCounted
<1>2. 0 \in Nat /\ 1 \in Nat /\ 0 < 1
  OBVIOUS
<1>3. SearchLeft' = SearchLeft
  BY DEF BeginLoop, AddBlock, DropBlock, HasLatch, SearchLeft, LatchesLeft, Searching, buildVars,
         postorderVars
<1>4. CASE BeginLoop
  <2>1. BodyLeft = <<1, c, k>> /\ BodyLeft' = <<0, c1, k1>>
    BY <1>4 DEF BeginLoop, HasLatch, BodyLeft
  <2> HIDE DEF c, c1, k, k1
  <2> QED
    BY <1>1, <1>2, <1>3, <2>1, LowerOfThree
<1>5. CASE AddBlock
  <2>1. BodyLeft = <<0, c, k>> /\ BodyLeft' = <<0, c1, k1>>
    BY <1>5 DEF AddBlock, BodyLeft, buildVars, postorderVars
  <2>2. /\ TopBlock \in Blocks /\ TopBlock \notin Contained
        /\ Contained' = Contained \union {TopBlock}
    <3>1. /\ s # <<>> /\ TopBlock \notin Contained /\ bbs' = Append(bbs, TopBlock)
          /\ s \in Seq(Blocks) /\ bbs \in Seq(Blocks)
      BY <1>5, SearchTypes DEF AddBlock
    <3>2. TopBlock \in Blocks
      BY <3>1, PoppedRange
    <3>3. {Append(bbs, TopBlock)[q] : q \in 1 .. Len(Append(bbs, TopBlock))}
              = Contained \union {TopBlock}
      BY <3>1, <3>2, AppendElements, AppendRange DEF Contained
    <3> QED
      BY <3>1, <3>2, <3>3 DEF Contained
  <2>3. c1 < c
    <3> DEFINE x == TopBlock
               S == Blocks \ Contained
               T == Blocks \ Contained'
    <3>1. x \in S /\ x \notin T /\ T \subseteq S
      BY <2>2
    <3>2. IsFiniteSet(S)
      BY BlocksFinite, FS_Subset
    <3> HIDE DEF x, S, T
    <3>3. Cardinality(T) < Cardinality(S)
      BY <3>1, <3>2, FewerLeft
    <3> QED
      BY <3>3 DEF S, T
  <2> HIDE DEF c, c1, k, k1
  <2> QED
    BY <1>1, <1>2, <1>3, <2>1, <2>3, LowerOfThree
<1>6. CASE DropBlock
  <2>1. BodyLeft = <<0, c, k>> /\ BodyLeft' = <<0, c, k1>>
    BY <1>6 DEF DropBlock, BodyLeft, Contained, buildVars, postorderVars
  <2>2. k1 < k
    <3>1. s \in Seq(Blocks) /\ s # <<>> /\ s' = Popped
      BY <1>6, SearchTypes DEF DropBlock
    <3>2. Len(s') = Len(s) - 1
      BY <3>1, FrontElements DEF Popped
    <3> QED
      BY <1>1, <3>2
  <2> HIDE DEF c, c1, k, k1
  <2> QED
    BY <1>1, <1>2, <1>3, <2>1, <2>2, LowerOfThree
<1> QED
  BY <1>4, <1>5, <1>6

LEMMA LoopsRunDown ==
    ASSUME LoopInv, LoopInv', LoopsNext, Sweeping => FirstPredsLater
    PROVE  <<LoopsLeft', LoopsLeft>> \in Lexicographic(17)
<1>1. SearchCounted /\ SearchCounted'
  <2>1. LoopInv' => SearchCounted'
    BY SearchLeftIs, PTL
  <2> QED
    BY <2>1, SearchLeftIs
<1>2. CASE LoopsBuild
  <2>1. Started => Sweeping
    BY <1>2 DEF LoopsBuild, BuildNext, Traverse, PostorderNext, Descend, SkipChild, Return,
       Finish, HasChild, StartSweeps, BeginBlock, SkipPred, CallIntersect, MorePreds, ClimbFirst,
       ClimbSecond, EndIntersect, EndBlock, SweepAgain, EndBuild, Started, Sweeping
  <2>2. <<BuildLeft', BuildLeft>> \in Lexicographic(11)
    BY <1>2, <2>1, BuildRunsDown DEF LoopsBuild, LoopInv
  <2>3. 3 \in Nat /\ 11 \in Nat /\ 14 \in Nat /\ 11 + 3 = 14 /\ 14 + 3 = 17
    OBVIOUS
  <2>4. <<BuildLeft' \o SearchLeft', BuildLeft \o SearchLeft>> \in Lexicographic(11 + 3)
    BY <1>1, <2>2, <2>3, LowerBefore DEF SearchCounted
  <2>5. <<BuildLeft' \o SearchLeft', BuildLeft \o SearchLeft>> \in Lexicographic(14)
    BY <2>3, <2>4
  <2>6. <<(BuildLeft' \o SearchLeft') \o BodyLeft', (BuildLeft \o SearchLeft) \o BodyLeft>>
            \in Lexicographic(14 + 3)
    BY <1>1, <2>3, <2>5, LowerBefore DEF SearchCounted
  <2> QED
    BY <2>3, <2>6 DEF LoopsLeft
<1>3. CASE LoopsNext /\ ~LoopsBuild
  <2>1. /\ UNCHANGED <<cfg, dfsVars, postorder, treeVars>>
        /\ Searching \/ pc = "built"
        /\ Searching' /\ pc # "intersect"
    BY <1>3 DEF LoopsNext, StartLoops, NextHeader, SkipLatch, BeginLoop, HasLatch, AddBlock,
       DropBlock, EndLoop, EndLoops, Searching, buildVars, postorderVars, dfsVars
  <2>2. BuildLeft' = BuildLeft
    BY <2>1, SearchKeepsBuild
  <2>3. \/ <<SearchLeft', SearchLeft>> \in Lexicographic(3)
        \/ SearchLeft' = SearchLeft /\ <<BodyLeft', BodyLeft>> \in Lexicographic(3)
    BY <1>1, <1>3, LatchLowers, BodyLowers DEF LoopsNext
  <2> QED
    BY <1>1, <2>1, <2>2, <2>3, SearchLowers
<1> QED
  BY <1>2, <1>3

(* LoopInfo cannot go on for ever: once the tree is built the search for the *)
(* loops lowers what is left whatever the graph, as a block is added to a    *)
(* loop once and only then are its predecessors pushed.                      *)
LoopsDescend ==
    [][(Sweeping => FirstPredsLater) =>
            <<LoopsLeft', LoopsLeft>> \in Lexicographic(17)]_allLoopVars

THEOREM LoopsCannotGoOn == LoopsSpec => LoopsDescend
<1>1. LoopInv /\ [LoopsNext]_allLoopVars => LoopInv'
  BY Frame_Loops, Build_Loops, StartLoops_Loops, NextHeader_Loops, SkipLatch_Loops,
     BeginLoop_Loops, AddBlock_Loops, DropBlock_Loops, EndLoop_Loops, EndLoops_Loops
     DEF LoopsNext
<1>2. LoopInv /\ [LoopsNext]_allLoopVars
        => [(Sweeping => FirstPredsLater) =>
                <<LoopsLeft', LoopsLeft>> \in Lexicographic(17)]_allLoopVars
  BY <1>1, LoopsRunDown
<1> QED
  BY <1>2, LoopsInvariant, PTL DEF LoopsSpec, LoopsDescend

=============================================================================
