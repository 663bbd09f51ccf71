-------------------------- MODULE DataflowProofs --------------------------
(***************************************************************************)
(* compute_dominators on every graph: the sets it ends with are the        *)
(* dominators of each block, nothing missing and nothing too much, under   *)
(* the numbering of bits the code uses.  The two inclusions have different *)
(* reasons.  No dominator is ever dropped: SetsKept is inductive.  Nothing *)
(* else survives: when a sweep changes nothing every set satisfies the     *)
(* equation (Stable), and then the blocks whose set lacks a bit are closed *)
(* under the edges that avoid the block the bit stands for.                *)
(***************************************************************************)
EXTENDS Dataflow, PostorderProofs

Sweeping == pc \in {"flow", "solved"}

(* The blocks of a sweep: all but the entry. *)
Positions == 0 .. NBlocks - 2

(* The sweeps only start on a complete order. *)
OrderKept == Sweeping => OrderComplete

SetsKept ==
    Sweeping => \A b \in Blocks : {x \in Bits : BitDominates(x, b)} \subseteq dominators[b]

EntrySet == Sweeping => dominators[Entry] = {0}

(* While a sweep has changed nothing, the blocks behind it satisfy the *)
(* equation.                                                           *)
Stable ==
    /\ (pc = "flow" /\ ~change) =>
          \A m \in Positions : m > i => dominators[BlockAt(m)] = Transfer(dominators, m)
    /\ pc = "solved" =>
          \A m \in Positions : dominators[BlockAt(m)] = Transfer(dominators, m)

FlowInv ==
    /\ PostorderInv
    /\ FlowTypeOK
    /\ OrderKept
    /\ SetsKept
    /\ EntrySet
    /\ Stable

-----------------------------------------------------------------------------

(* A complete order has every block: NBlocks positions, no block twice. *)
LEMMA OrderCovers ==
    ASSUME PostorderInv, OrderComplete
    PROVE  Pushed = Blocks
<1> DEFINE f == [k \in 1 .. NBlocks |-> postorder[k]]
<1>1. /\ postorder \in Seq(Blocks) /\ Len(postorder) = NBlocks
      /\ \A m, k \in 1 .. NBlocks : postorder[m] = postorder[k] => m = k
  BY DEF PostorderInv, PostorderTypeOK, VisitedSplit, Injective, OrderComplete
<1>2. f \in [1 .. NBlocks -> Blocks]
  BY <1>1
<1>3. f \in Injection(1 .. NBlocks, Blocks)
  BY <1>1, <1>2 DEF Injection, IsInjective
<1>4. /\ IsFiniteSet(Blocks) /\ Cardinality(Blocks) = NBlocks
      /\ Cardinality(1 .. NBlocks) = NBlocks
  <2>1. NBlocks \in Int /\ NBlocks - 1 \in Int /\ NBlocks >= 2 /\ 0 \in Int /\ 1 \in Int
    BY NBlocksAssumption
  <2>2. IsFiniteSet(0 .. NBlocks - 1) /\ Cardinality(0 .. NBlocks - 1) = NBlocks
    BY <2>1, FS_Interval
  <2>3. Cardinality(1 .. NBlocks) = NBlocks
    BY <2>1, FS_Interval
  <2> QED
    BY <2>2, <2>3 DEF Blocks
<1> HIDE DEF f
<1>5. f \in Surjection(1 .. NBlocks, Blocks)
  BY <1>3, <1>4, FS_Injection
<1>6. \A b \in Blocks : \E k \in 1 .. NBlocks : postorder[k] = b
  BY <1>5 DEF Surjection, f
<1>7. Pushed \subseteq Blocks
  BY <1>1 DEF Pushed
<1> QED
  BY <1>1, <1>6, <1>7 DEF Pushed

(* The blocks of a sweep are the blocks but the entry, each at one position. *)
LEMMA PositionsCover ==
    ASSUME PostorderInv, OrderComplete, pc # "dfs"
    PROVE  /\ Reachable(cfg) = Blocks
           /\ \A m \in Positions : BlockAt(m) \in Blocks \ {Entry}
           /\ \A m, k \in Positions : BlockAt(m) = BlockAt(k) => m = k
           /\ \A b \in Blocks \ {Entry} : \E m \in Positions : b = BlockAt(m)
<1>1. /\ postorder \in Seq(Blocks) /\ Len(postorder) = NBlocks
      /\ \A m, k \in 1 .. NBlocks : postorder[m] = postorder[k] => m = k
      /\ postorder[NBlocks] = Entry
  BY DEF PostorderInv, PostorderTypeOK, VisitedSplit, Injective, OrderComplete
<1>2. Pushed = Blocks
  BY OrderCovers
<1>3. Reachable(cfg) = Blocks
  BY <1>2, PushedIsReachable
<1>4. \A m \in Positions : m + 1 \in 1 .. NBlocks /\ m + 1 # NBlocks /\ m \in Int
  BY NBlocksAssumption DEF Positions
<1>5. \A m \in Positions : BlockAt(m) \in Blocks \ {Entry}
  <2> SUFFICES ASSUME NEW m \in Positions PROVE BlockAt(m) \in Blocks \ {Entry}
    OBVIOUS
  <2>1. NBlocks \in 1 .. NBlocks
    BY NBlocksAssumption
  <2> QED
    BY <1>1, <1>4, <2>1 DEF BlockAt
<1>6. \A m, k \in Positions : BlockAt(m) = BlockAt(k) => m = k
  BY <1>1, <1>4 DEF BlockAt
<1>7. ASSUME NEW b \in Blocks \ {Entry}
      PROVE  \E m \in Positions : b = BlockAt(m)
  <2>1. PICK k \in 1 .. NBlocks : postorder[k] = b
    BY <1>1, <1>2 DEF Pushed
  <2>2. k # NBlocks
    BY <1>1, <2>1
  <2>3. k - 1 \in Positions /\ (k - 1) + 1 = k
    BY <2>2, NBlocksAssumption DEF Positions
  <2> QED
    BY <2>1, <2>3 DEF BlockAt
<1> QED
  BY <1>3, <1>5, <1>6, <1>7

(* Only bit 0 stands for a dominator of the entry. *)
LEMMA EntryBits ==
    ASSUME PostorderInv, OrderComplete, pc # "dfs", NEW x \in Bits, BitDominates(x, Entry)
    PROVE  x = 0
<1> SUFFICES ASSUME x # 0 PROVE FALSE
  OBVIOUS
<1>1. x # NBlocks - 1 /\ Entry \notin ReachableFrom(cfg, Entry, BlockAt(x))
  BY DEF BitDominates, Dominates
<1>2. x \in Positions
  BY <1>1, NBlocksAssumption DEF Bits, Blocks, Positions
<1>3. Entry # BlockAt(x)
  BY <1>2, PositionsCover
<1> QED
  BY <1>1, <1>3, ReachableStart, EntryIsBlock

(* The equation keeps every bit of the solution. *)
LEMMA TransferKeeps ==
    ASSUME FlowInv, Sweeping, NEW m \in Positions, NEW x \in Bits,
           BitDominates(x, BlockAt(m))
    PROVE  x \in Transfer(dominators, m)
<1>1. pc # "dfs" /\ OrderComplete /\ PostorderInv /\ WellFormed(cfg)
  BY DEF FlowInv, Sweeping, OrderKept, PostorderInv, PostorderTypeOK
<1>2. /\ Reachable(cfg) = Blocks
      /\ BlockAt(m) \in Blocks
  BY <1>1, PositionsCover
<1>3. \A u \in Preds(cfg, BlockAt(m)) : u \in Blocks
  BY <1>1, <1>2, NeighboursAreBlocks DEF WellFormed
<1>4. \A b \in Blocks : BitDominates(x, b) => x \in dominators[b]
  BY DEF FlowInv, SetsKept
<1>5. CASE x = 0
  BY <1>3, <1>4, <1>5 DEF Transfer, BitDominates
<1>6. CASE x = m
  BY <1>6 DEF Transfer, OwnBit
<1>7. CASE x # 0 /\ x # m
  <2>1. x # NBlocks - 1 /\ Dominates(cfg, BlockAt(x), BlockAt(m))
    BY <1>7 DEF BitDominates
  <2>2. x \in Positions
    BY <2>1, NBlocksAssumption DEF Bits, Blocks, Positions
  <2>3. BlockAt(x) \in Blocks /\ BlockAt(x) # BlockAt(m)
    BY <1>1, <1>7, <2>2, PositionsCover
  <2>4. \A u \in Preds(cfg, BlockAt(m)) : Dominates(cfg, BlockAt(x), u)
    BY <1>1, <1>2, <1>3, <2>1, <2>3, DominatesPreds
  <2>5. \A u \in Preds(cfg, BlockAt(m)) : x \in dominators[u]
    BY <1>3, <1>4, <2>1, <2>4 DEF BitDominates
  <2> QED
    BY <2>5 DEF Transfer
<1> QED
  BY <1>5, <1>6, <1>7

-----------------------------------------------------------------------------

(* The invariant holds at the start. *)
LEMMA FlowInit_Inv == FlowInit => FlowInv
<1> SUFFICES ASSUME FlowInit PROVE FlowInv
  OBVIOUS
<1>1. PostorderInv
  BY PostorderInit_Inv DEF FlowInit
<1>2. pc = "dfs"
  BY DEF FlowInit, PostorderInit
<1>3. FlowTypeOK
  <2>1. i \in -1 .. NBlocks - 2
    BY NBlocksAssumption DEF FlowInit
  <2> QED
    BY <1>1, <2>1 DEF FlowTypeOK, FlowInit, PostorderInv
<1> QED
  BY <1>1, <1>2, <1>3
  DEF FlowInv, OrderKept, SetsKept, EntrySet, Stable, Sweeping

(* The traversal does not touch the sets. *)
LEMMA Traverse_Inv == FlowInv /\ Traverse => FlowInv'
<1> SUFFICES ASSUME FlowInv, Traverse PROVE FlowInv'
  OBVIOUS
<1>1. PostorderInv'
  BY PostorderNext_Inv DEF FlowInv, Traverse
<1>2. pc' \in {"dfs", "ordered"}
  BY DEF Traverse, PostorderNext, Descend, SkipChild, Return, Finish, HasChild
<1>3. FlowTypeOK'
  BY <1>1 DEF FlowTypeOK, FlowInv, Traverse, flowVars, PostorderInv
<1> QED
  BY <1>1, <1>2, <1>3
  DEF FlowInv, OrderKept, SetsKept, EntrySet, Stable, Sweeping

(* The sets start with every bit, the entry's with its own. *)
LEMMA StartFlow_Inv == FlowInv /\ StartFlow => FlowInv'
<1> SUFFICES ASSUME FlowInv, StartFlow PROVE FlowInv'
  OBVIOUS
<1>1. /\ pc = "ordered" /\ pc' = "flow" /\ OrderComplete
      /\ dominators' = [b \in Blocks |-> StartSet(b)]
      /\ i' = NBlocks - 2 /\ change' = FALSE
      /\ cfg' = cfg /\ visited' = visited /\ path' = path /\ cursor' = cursor
      /\ postorder' = postorder
  BY DEF StartFlow, dfsVars, SweepStart
<1>2. PostorderInv'
  BY <1>1, PostorderFrame_Inv DEF FlowInv
<1>3. OrderComplete'
  BY <1>1 DEF OrderComplete
<1>4. FlowTypeOK'
  <2>1. i' \in -1 .. NBlocks - 2
    BY <1>1, NBlocksAssumption
  <2>2. dominators' \in [Blocks -> SUBSET Bits]
    BY <1>1, EntryIsBlock DEF StartSet, Bits
  <2> QED
    BY <1>1, <1>2, <2>1, <2>2 DEF FlowTypeOK, PostorderInv
<1>5. EntrySet'
  BY <1>1, EntryIsBlock DEF EntrySet, StartSet, Entry
<1>6. SetsKept'
  <2> SUFFICES ASSUME NEW b \in Blocks, NEW x \in Bits, BitDominates(x, b)'
               PROVE  x \in dominators'[b]
    BY DEF SetsKept, Bits
  <2>1. CASE b = Entry
    <3>1. BitDominates(x, Entry)
      BY <1>1, <2>1 DEF BitDominates, BlockAt
    <3>2. x = 0
      BY <1>1, <3>1, EntryBits DEF FlowInv
    <3> QED
      BY <1>1, <2>1, <3>2 DEF StartSet, Entry
  <2>2. CASE b # Entry
    BY <1>1, <2>2 DEF StartSet
  <2> QED
    BY <2>1, <2>2
<1>7. Stable'
  BY <1>1 DEF Stable, Positions
<1> QED
  BY <1>2, <1>3, <1>4, <1>5, <1>6, <1>7 DEF FlowInv, OrderKept

LEMMA AssertFails_Inv == FlowInv /\ AssertFails => FlowInv'
<1> SUFFICES ASSUME FlowInv, AssertFails PROVE FlowInv'
  OBVIOUS
<1>1. /\ pc = "ordered" /\ pc' = "aborted"
      /\ UNCHANGED <<cfg, visited, path, cursor, postorder, dominators, i, change>>
  BY DEF AssertFails, dfsVars, flowVars
<1>2. PostorderInv'
  BY <1>1, PostorderFrame_Inv DEF FlowInv
<1>3. FlowTypeOK'
  BY <1>1, <1>2 DEF FlowTypeOK, PostorderInv, FlowInv
<1> QED
  BY <1>1, <1>2, <1>3 DEF FlowInv, OrderKept, SetsKept, EntrySet, Stable, Sweeping

(* One block's set is recomputed. *)
LEMMA VisitBlock_Inv == FlowInv /\ VisitBlock => FlowInv'
<1> SUFFICES ASSUME FlowInv, VisitBlock PROVE FlowInv'
  OBVIOUS
<1> DEFINE b == BlockAt(i)
           new == Transfer(dominators, i)
<1>1. /\ pc = "flow" /\ pc' = "flow" /\ i >= 0
      /\ dominators' = [dominators EXCEPT ![b] = new]
      /\ change' = (change \/ new # dominators[b])
      /\ i' = i - 1
      /\ cfg' = cfg /\ visited' = visited /\ path' = path /\ cursor' = cursor
      /\ postorder' = postorder
  BY DEF VisitBlock, postorderVars
<1>2. PostorderInv' /\ PostorderInv
  BY <1>1, PostorderFrame_Inv DEF FlowInv
<1>3. OrderComplete /\ OrderComplete'
  BY <1>1 DEF OrderComplete, FlowInv, OrderKept, Sweeping
<1>4. i \in Positions /\ i' \in -1 .. NBlocks - 2
  BY <1>1, NBlocksAssumption DEF FlowInv, FlowTypeOK, Positions
<1>5. b \in Blocks \ {Entry}
  BY <1>1, <1>2, <1>3, <1>4, PositionsCover
<1>6. new \subseteq Bits
  <2>1. i \in Bits
    BY <1>4, NBlocksAssumption DEF Bits, Blocks, Positions
  <2> QED
    BY <2>1 DEF Transfer, OwnBit
<1>7. dominators \in [Blocks -> SUBSET Bits] /\ change \in BOOLEAN
  BY DEF FlowInv, FlowTypeOK
<1>8. dominators' \in [Blocks -> SUBSET Bits]
  <2> HIDE DEF new, b
  <2> QED
    BY <1>1, <1>5, <1>6, <1>7
<1>9. FlowTypeOK'
  <2>1. change' \in BOOLEAN
    BY <1>1, <1>7
  <2> QED
    BY <1>2, <1>4, <1>8, <2>1 DEF FlowTypeOK, PostorderInv
<1>10. EntrySet'
  <2>1. dominators[Entry] = {0}
    BY <1>1 DEF FlowInv, EntrySet, Sweeping
  <2> HIDE DEF new, b
  <2> QED
    BY <1>1, <1>5, <1>7, <2>1 DEF EntrySet
<1>11. SetsKept'
  <2> SUFFICES ASSUME NEW d \in Blocks, NEW x \in Bits, BitDominates(x, d)'
               PROVE  x \in dominators'[d]
    BY DEF SetsKept, Bits
  <2>1. BitDominates(x, d)
    BY <1>1 DEF BitDominates, BlockAt
  <2>2. CASE d = b
    <3>1. x \in new
      BY <1>1, <1>4, <2>1, <2>2, TransferKeeps DEF Sweeping
    <3> HIDE DEF new, b
    <3> QED
      BY <1>1, <1>5, <1>7, <2>2, <3>1
  <2>3. CASE d # b
    <3>1. x \in dominators[d]
      BY <1>1, <2>1 DEF FlowInv, SetsKept, Sweeping
    <3> HIDE DEF new, b
    <3> QED
      BY <1>1, <1>7, <2>3, <3>1
  <2> QED
    BY <2>2, <2>3
<1>12. Stable'
  <2> SUFFICES ASSUME ~change', NEW m \in Positions, m > i'
               PROVE  dominators'[BlockAt(m)'] = Transfer(dominators, m)'
    BY <1>1 DEF Stable
  <2>1. ~change /\ new = dominators[b]
    BY <1>1, <1>7
  <2>2. dominators' = dominators
    <3> HIDE DEF new, b
    <3> QED
      BY <1>1, <1>7, <2>1
  <2>3. BlockAt(m)' = BlockAt(m) /\ Transfer(dominators, m)' = Transfer(dominators, m)
    BY <1>1, <2>2 DEF BlockAt, Transfer
  <2>4. m = i \/ m > i
    BY <1>1, <1>4 DEF Positions
  <2> QED
    BY <1>1, <2>1, <2>2, <2>3, <2>4 DEF FlowInv, Stable
<1> QED
  BY <1>1, <1>2, <1>3, <1>9, <1>10, <1>11, <1>12 DEF FlowInv, OrderKept

(* What the steps that leave the sets alone have in common. *)
LEMMA SetsUnchanged ==
    ASSUME FlowInv, pc = "flow", pc' \in {"flow", "solved"},
           UNCHANGED <<cfg, visited, path, cursor, postorder, dominators>>,
           i' \in -1 .. NBlocks - 2, change' \in BOOLEAN
    PROVE  /\ PostorderInv' /\ FlowTypeOK' /\ OrderKept' /\ SetsKept' /\ EntrySet'
           /\ \A m \in Positions : /\ BlockAt(m)' = BlockAt(m)
                                   /\ Transfer(dominators, m)' = Transfer(dominators, m)
<1>1. PostorderInv'
  BY PostorderFrame_Inv DEF FlowInv
<1>2. FlowTypeOK'
  BY <1>1 DEF FlowInv, FlowTypeOK, PostorderInv
<1>3. OrderKept' /\ EntrySet'
  BY DEF FlowInv, OrderKept, OrderComplete, EntrySet, Sweeping
<1>4. SetsKept'
  <2> SUFFICES ASSUME NEW d \in Blocks, NEW x \in Bits, BitDominates(x, d)'
               PROVE  x \in dominators'[d]
    BY DEF SetsKept, Bits
  <2>1. BitDominates(x, d)
    BY DEF BitDominates, BlockAt
  <2> QED
    BY <2>1 DEF FlowInv, SetsKept, Sweeping
<1>5. \A m \in Positions : /\ BlockAt(m)' = BlockAt(m)
                           /\ Transfer(dominators, m)' = Transfer(dominators, m)
  BY DEF BlockAt, Transfer
<1> QED
  BY <1>1, <1>2, <1>3, <1>4, <1>5

(* A sweep changed a set: the next one starts, with nothing behind it. *)
LEMMA SweepAgain_Inv == FlowInv /\ SweepAgain => FlowInv'
<1> SUFFICES ASSUME FlowInv, SweepAgain PROVE FlowInv'
  OBVIOUS
<1>1. /\ pc = "flow" /\ pc' = "flow" /\ i' = NBlocks - 2 /\ change' = FALSE
      /\ UNCHANGED <<cfg, visited, path, cursor, postorder, dominators>>
  BY DEF SweepAgain, SweepStart, FreshChange, postorderVars
<1>2. i' \in -1 .. NBlocks - 2
  BY <1>1, NBlocksAssumption
<1>3. Stable'
  BY <1>1 DEF Stable, Positions
<1> QED
  BY <1>1, <1>2, <1>3, SetsUnchanged DEF FlowInv

(* A sweep changed nothing: all blocks satisfy the equation. *)
LEMMA EndFlow_Inv == FlowInv /\ EndFlow => FlowInv'
<1> SUFFICES ASSUME FlowInv, EndFlow PROVE FlowInv'
  OBVIOUS
<1>1. /\ pc = "flow" /\ pc' = "solved" /\ i = -1 /\ ~change
      /\ UNCHANGED <<cfg, visited, path, cursor, postorder, dominators, i, change>>
  BY DEF EndFlow, Settled, dfsVars, flowVars
<1>2. i' \in -1 .. NBlocks - 2 /\ change' \in BOOLEAN
  BY <1>1 DEF FlowInv, FlowTypeOK
<1>3. \A m \in Positions : dominators[BlockAt(m)] = Transfer(dominators, m)
  BY <1>1 DEF FlowInv, Stable, Positions
<1>4. Stable'
  BY <1>1, <1>2, <1>3, SetsUnchanged DEF Stable
<1> QED
  BY <1>1, <1>2, <1>4, SetsUnchanged DEF FlowInv

LEMMA FlowStutter_Inv == FlowInv /\ UNCHANGED dataflowVars => FlowInv'
<1> SUFFICES ASSUME FlowInv, UNCHANGED dataflowVars PROVE FlowInv'
  OBVIOUS
<1> USE DEF dataflowVars, postorderVars, flowVars
<1>1. PostorderInv'
  BY PostorderFrame_Inv DEF FlowInv
<1> QED
  BY <1>1 DEF FlowInv, FlowTypeOK, PostorderInv, OrderKept, OrderComplete, EntrySet,
              SetsKept, Stable, Sweeping, BitDominates, BlockAt, Transfer, OwnBit

LEMMA FlowInvariant == FlowSpec => []FlowInv
<1>1. FlowInit => FlowInv
  BY FlowInit_Inv
<1>2. FlowInv /\ [FlowNext]_dataflowVars => FlowInv'
  BY Traverse_Inv, StartFlow_Inv, AssertFails_Inv, VisitBlock_Inv, SweepAgain_Inv,
     EndFlow_Inv, FlowStutter_Inv DEF FlowNext
<1> QED
  BY <1>1, <1>2, PTL DEF FlowSpec

-----------------------------------------------------------------------------

(* A bit that the equation puts in no set but that of `avoid` is in none     *)
(* that can be reached around it: the sets without the bit are closed under  *)
(* the edges that avoid it.                                                  *)
LEMMA MissingBitClosed ==
    ASSUME FlowInv, pc = "solved", NEW x \in Bits, x # 0,
           NEW avoid, avoid # Entry,
           \A m \in Positions : x = m => BlockAt(m) = avoid
    PROVE  \A b \in ReachableFrom(cfg, Entry, avoid) : x \notin dominators[b]
<1> DEFINE S == {b \in Blocks \ {avoid} : x \notin dominators[b]}
<1>1. /\ PostorderInv /\ OrderComplete /\ pc # "dfs" /\ WellFormed(cfg)
      /\ dominators[Entry] = {0}
      /\ \A m \in Positions : dominators[BlockAt(m)] = Transfer(dominators, m)
  BY DEF FlowInv, OrderKept, EntrySet, Stable, Sweeping, PostorderInv, PostorderTypeOK
<1>2. Entry \in S
  BY <1>1, EntryIsBlock
<1>3. ASSUME NEW u \in S, NEW v \in Succs(cfg, u), v # avoid
      PROVE  v \in S
  <2>1. v \in Blocks /\ u \in Preds(cfg, v)
    BY <1>1, <1>3, NeighboursAreBlocks DEF WellFormed
  <2>2. CASE v = Entry
    BY <1>2, <2>2
  <2>3. CASE v # Entry
    <3>1. PICK m \in Positions : v = BlockAt(m)
      BY <1>1, <2>1, <2>3, PositionsCover
    <3>2. x # m
      BY <1>3, <3>1
    <3>3. x \notin Transfer(dominators, m)
      BY <1>3, <2>1, <3>1, <3>2 DEF Transfer, OwnBit
    <3> QED
      BY <1>1, <1>3, <2>1, <3>1, <3>3
  <2> QED
    BY <2>2, <2>3
<1>4. S \in ClosedSets(cfg, Entry, avoid)
  BY <1>2, <1>3 DEF ClosedSets
<1> QED
  BY <1>4, ReachableLeast

(* A set of the result has no bit that does not stand for a dominator. *)
LEMMA NothingTooMuch ==
    ASSUME FlowInv, pc = "solved", NEW b \in Blocks, NEW x \in dominators[b]
    PROVE  x \in Bits /\ BitDominates(x, b)
<1>1. /\ PostorderInv /\ OrderComplete /\ pc # "dfs"
      /\ dominators \in [Blocks -> SUBSET Bits]
  BY DEF FlowInv, FlowTypeOK, OrderKept, Sweeping
<1>2. x \in Bits
  BY <1>1
<1>3. b \in Reachable(cfg)
  BY <1>1, PositionsCover
<1>4. ASSUME x # 0 PROVE x # NBlocks - 1
  <2> SUFFICES ASSUME x = NBlocks - 1 PROVE FALSE
    OBVIOUS
  <2>1. \A m \in Positions : x # m
    BY NBlocksAssumption DEF Positions
  <2>2. NoBlock # Entry
    BY EntryIsBlock, NoBlockIsNone
  <2>3. \A d \in Reachable(cfg) : x \notin dominators[d]
    BY <1>2, <1>4, <2>1, <2>2, MissingBitClosed DEF Reachable
  <2> QED
    BY <1>3, <2>3
<1>5. ASSUME x # 0, x # NBlocks - 1 PROVE Dominates(cfg, BlockAt(x), b)
  <2>1. x \in Positions
    BY <1>2, <1>5, NBlocksAssumption DEF Bits, Blocks, Positions
  <2>2. BlockAt(x) # Entry
    BY <1>1, <2>1, PositionsCover
  <2>3. \A d \in ReachableFrom(cfg, Entry, BlockAt(x)) : x \notin dominators[d]
    BY <1>2, <1>5, <2>2, MissingBitClosed
  <2> QED
    BY <1>3, <2>3 DEF Dominates
<1> QED
  BY <1>2, <1>4, <1>5 DEF BitDominates

LEMMA FlowInv_Exact == FlowInv => SolutionExact
<1> SUFFICES ASSUME FlowInv, pc = "solved", NEW b \in Blocks \ {Entry}
             PROVE  dominators[b] = {x \in Bits : BitDominates(x, b)}
  BY DEF SolutionExact
<1>1. {x \in Bits : BitDominates(x, b)} \subseteq dominators[b]
  BY DEF FlowInv, SetsKept, Sweeping
<1> QED
  BY <1>1, NothingTooMuch

LEMMA FlowInv_Kept == FlowInv => SolutionKept
BY DEF FlowInv, SetsKept, Sweeping, SolutionKept

(* The position in the sweep never leaves the postorder, and no bit beyond *)
(* the graph's blocks is ever set.                                         *)
THEOREM FlowTypeCorrect == FlowSpec => []FlowTypeOK
<1>1. FlowInv => FlowTypeOK
  BY DEF FlowInv
<1> QED
  BY <1>1, FlowInvariant, PTL

(* No step of compute_dominators drops a bit of the solution. *)
THEOREM FlowKeepsSolution == FlowSpec => []SolutionKept
BY FlowInv_Kept, FlowInvariant, PTL

(* On every graph compute_dominators ends with exactly the dominators of *)
(* each block, through the numbering of bits that it uses.               *)
THEOREM FlowSolutionExact == FlowSpec => []SolutionExact
BY FlowInv_Exact, FlowInvariant, PTL

-----------------------------------------------------------------------------
(* What compute_dominators has left to do after the traversal: the bits still *)
(* set, whether another sweep is due, and the blocks this one has to visit.   *)
SetBits == {e \in Blocks \X Bits : e[2] \in dominators[e[1]]}

SweepsLeft ==
    <<IF pc \in {"dfs", "ordered"} THEN 2 ELSE IF pc = "flow" THEN 1 ELSE 0,
      Cardinality(SetBits), IF change THEN 1 ELSE 0, i + 1>>

FlowLeft == TraversalLeft \o SweepsLeft

(* A block's set never lacks what the equation would give it now: sets only *)
(* ever lose bits.                                                          *)
SetsAbove ==
    pc = "flow" => \A m \in Positions : Transfer(dominators, m) \subseteq dominators[BlockAt(m)]

(* The sweeps were not begun on an incomplete order. *)
AbortedRightly == pc = "aborted" => ~OrderComplete

DescentInv == FlowInv /\ SetsAbove /\ AbortedRightly

(* The equation follows its arguments. *)
LEMMA TransferGrows ==
    ASSUME FlowInv, pc = "flow", NEW D, NEW m \in Positions,
           \A b \in Blocks : D[b] \subseteq dominators[b]
    PROVE  Transfer(D, m) \subseteq Transfer(dominators, m)
<1>1. pc # "dfs" /\ OrderComplete /\ PostorderInv /\ WellFormed(cfg)
  BY DEF FlowInv, Sweeping, OrderKept, PostorderInv, PostorderTypeOK
<1>2. BlockAt(m) \in Blocks
  BY <1>1, PositionsCover
<1>3. Preds(cfg, BlockAt(m)) \subseteq Blocks
  BY <1>1, <1>2, NeighboursAreBlocks DEF WellFormed
<1> QED
  BY <1>3 DEF Transfer

LEMMA VisitBlock_Above ==
    ASSUME FlowInv, SetsAbove, VisitBlock
    PROVE  /\ SetsAbove'
           /\ \A b \in Blocks : dominators'[b] \subseteq dominators[b]
<1> DEFINE b == BlockAt(i)
           new == Transfer(dominators, i)
<1>1. /\ pc = "flow" /\ pc' = "flow" /\ i >= 0
      /\ dominators' = [dominators EXCEPT ![b] = new]
      /\ cfg' = cfg /\ postorder' = postorder
  BY DEF VisitBlock, postorderVars
<1>2. OrderComplete /\ PostorderInv /\ pc # "dfs"
  BY <1>1 DEF FlowInv, OrderKept, Sweeping
<1>3. i \in Positions
  BY <1>1, NBlocksAssumption DEF FlowInv, FlowTypeOK, Positions
<1>4. b \in Blocks
  BY <1>2, <1>3, PositionsCover
<1>5. dominators \in [Blocks -> SUBSET Bits]
  BY DEF FlowInv, FlowTypeOK
<1>6. new \subseteq dominators[b]
  BY <1>1, <1>3 DEF SetsAbove
<1>7. /\ dominators'[b] = new
      /\ \A d \in Blocks \ {b} : dominators'[d] = dominators[d]
  <2> HIDE DEF b, new
  <2> QED
    BY <1>1, <1>4, <1>5
<1>8. \A d \in Blocks : dominators'[d] \subseteq dominators[d]
  BY <1>6, <1>7
<1>9. ASSUME NEW m \in Positions
      PROVE  Transfer(dominators', m) \subseteq dominators'[BlockAt(m)]
  <2>1. Transfer(dominators', m) \subseteq Transfer(dominators, m)
    BY <1>1, <1>8, TransferGrows
  <2>2. BlockAt(m) \in Blocks
    BY <1>2, PositionsCover
  <2>3. CASE BlockAt(m) = b
    <3>1. m = i
      BY <1>2, <1>3, <2>3, PositionsCover
    <3> QED
      BY <1>7, <2>1, <3>1
  <2>4. CASE BlockAt(m) # b
    <3>1. Transfer(dominators, m) \subseteq dominators[BlockAt(m)]
      BY <1>1 DEF SetsAbove
    <3> QED
      BY <1>7, <2>1, <2>2, <2>4, <3>1
  <2> QED
    BY <2>3, <2>4
<1>10. \A m \in Positions : /\ Transfer(dominators, m)' = Transfer(dominators', m)
                            /\ BlockAt(m)' = BlockAt(m)
  BY <1>1 DEF Transfer, BlockAt
<1> QED
  BY <1>8, <1>9, <1>10 DEF SetsAbove

LEMMA FlowNext_Descent == DescentInv /\ FlowNext => DescentInv'
<1> SUFFICES ASSUME DescentInv, FlowNext PROVE DescentInv'
  OBVIOUS
<1>1. FlowInv /\ FlowInv' /\ SetsAbove /\ AbortedRightly
  BY Traverse_Inv, StartFlow_Inv, AssertFails_Inv, VisitBlock_Inv, SweepAgain_Inv,
     EndFlow_Inv DEF FlowNext, DescentInv
<1>2. CASE Traverse
  <2>1. pc' \in {"dfs", "ordered"}
    BY <1>2 DEF Traverse, PostorderNext, Descend, SkipChild, Return, Finish, HasChild
  <2> QED
    BY <1>1, <2>1 DEF DescentInv, SetsAbove, AbortedRightly
<1>3. CASE StartFlow
  <2>1. /\ pc' = "flow" /\ dominators' = [b \in Blocks |-> StartSet(b)]
        /\ postorder' = postorder
        /\ pc # "dfs" /\ OrderComplete /\ PostorderInv
    BY <1>1, <1>3 DEF StartFlow, FlowInv
  <2>2. ASSUME NEW m \in Positions
        PROVE  Transfer(dominators, m)' \subseteq dominators'[BlockAt(m)']
    <3>1. m \in Bits
      BY NBlocksAssumption DEF Bits, Blocks, Positions
    <3>2. Transfer(dominators, m)' \subseteq Bits
      BY <3>1 DEF Transfer, OwnBit
    <3>3. BlockAt(m)' = BlockAt(m) /\ BlockAt(m) \in Blocks \ {Entry}
      BY <2>1, PositionsCover DEF BlockAt
    <3>4. dominators'[BlockAt(m)] = Bits
      BY <2>1, <3>3 DEF StartSet
    <3> QED
      BY <3>2, <3>3, <3>4
  <2> QED
    BY <1>1, <2>1, <2>2 DEF DescentInv, SetsAbove, AbortedRightly
<1>4. CASE AssertFails
  <2>1. pc' = "aborted" /\ ~OrderComplete'
    BY <1>4 DEF AssertFails, OrderComplete
  <2> QED
    BY <1>1, <2>1 DEF DescentInv, SetsAbove, AbortedRightly
<1>5. CASE VisitBlock
  <2>1. SetsAbove' /\ pc' = "flow"
    BY <1>1, <1>5, VisitBlock_Above DEF VisitBlock, postorderVars
  <2> QED
    BY <1>1, <2>1 DEF DescentInv, AbortedRightly
<1>6. CASE SweepAgain
  <2>1. /\ pc = "flow" /\ pc' = "flow" /\ dominators' = dominators /\ cfg' = cfg
        /\ postorder' = postorder
    BY <1>6 DEF SweepAgain, postorderVars
  <2> QED
    BY <1>1, <2>1 DEF DescentInv, SetsAbove, AbortedRightly, Transfer, BlockAt
<1>7. CASE EndFlow
  <2>1. pc' = "solved"
    BY <1>7 DEF EndFlow
  <2> QED
    BY <1>1, <2>1 DEF DescentInv, SetsAbove, AbortedRightly
<1> QED
  BY <1>2, <1>3, <1>4, <1>5, <1>6, <1>7 DEF FlowNext

LEMMA DescentInvariant == FlowSpec => []DescentInv
<1>1. FlowInit => DescentInv
  BY FlowInit_Inv DEF DescentInv, SetsAbove, AbortedRightly, FlowInit, PostorderInit
<1>2. DescentInv /\ UNCHANGED dataflowVars => DescentInv'
  <2> SUFFICES ASSUME DescentInv, UNCHANGED dataflowVars PROVE DescentInv'
    OBVIOUS
  <2> USE DEF dataflowVars, postorderVars, flowVars
  <2> QED
    BY FlowStutter_Inv
    DEF DescentInv, SetsAbove, AbortedRightly, OrderComplete, Transfer, BlockAt, OwnBit
<1>3. DescentInv /\ [FlowNext]_dataflowVars => DescentInv'
  BY <1>2, FlowNext_Descent
<1> QED
  BY <1>1, <1>3, PTL DEF FlowSpec

(* The parts of FlowLeft are tuples of numbers. *)
FlowCounted ==
    /\ TraversalLeft \in [1 .. 3 -> Nat]
    /\ SweepsLeft \in [1 .. 4 -> Nat]
    /\ Cardinality(SetBits) \in Nat /\ IsFiniteSet(SetBits)
    /\ i + 1 \in Nat

LEMMA FlowLeftIs == FlowInv => FlowCounted
<1> SUFFICES ASSUME FlowInv PROVE FlowCounted
  OBVIOUS
<1>1. TraversalLeft \in [1 .. 3 -> Nat]
  BY TraversalLeftIs DEF TraversalCounted, FlowInv, PostorderInv
<1>2. IsFiniteSet(SetBits) /\ Cardinality(SetBits) \in Nat
  <2>1. IsFiniteSet(Blocks \X Bits)
    BY BlocksFinite, FS_Product DEF Bits
  <2>2. SetBits \in SUBSET (Blocks \X Bits)
    BY DEF SetBits
  <2> QED
    BY <2>1, <2>2, FS_Subset, FS_CardinalityType
<1>3. i + 1 \in Nat
  BY NBlocksAssumption DEF FlowInv, FlowTypeOK
<1> QED
  BY <1>1, <1>2, <1>3 DEF FlowCounted, SweepsLeft

(* A sweep that takes a bit from a set leaves fewer. *)
LEMMA BitsLost ==
    ASSUME FlowInv, FlowInv', dominators' # dominators,
           \A b \in Blocks : dominators'[b] \subseteq dominators[b]
    PROVE  Cardinality(SetBits') < Cardinality(SetBits)
<1>1. dominators \in [Blocks -> SUBSET Bits] /\ dominators' \in [Blocks -> SUBSET Bits]
  BY DEF FlowInv, FlowTypeOK, Bits
<1>2. PICK b \in Blocks : dominators'[b] # dominators[b]
  BY <1>1
<1>3. PICK x \in Bits : x \in dominators[b] /\ x \notin dominators'[b]
  BY <1>1, <1>2
<1>4. <<b, x>> \in SetBits /\ <<b, x>> \notin SetBits'
  BY <1>3 DEF SetBits
<1>5. SetBits' \subseteq SetBits
  BY DEF SetBits, Bits
<1>6. IsFiniteSet(SetBits)
  BY FlowLeftIs DEF FlowCounted
<1> DEFINE e == <<b, x>>
<1>7. e \in SetBits /\ e \notin SetBits'
  BY <1>4
<1> HIDE DEF e
<1> QED
  BY <1>5, <1>6, <1>7, FewerLeft

LEMMA FlowRunsDown ==
    ASSUME DescentInv, FlowNext
    PROVE  <<FlowLeft', FlowLeft>> \in Lexicographic(7)
<1>1. FlowInv /\ FlowInv' /\ SetsAbove
  BY FlowNext_Descent DEF DescentInv
<1>2. FlowCounted /\ FlowCounted'
  <2>1. FlowInv' => FlowCounted'
    BY FlowLeftIs, PTL
  <2> QED
    BY <1>1, <2>1, FlowLeftIs
<1>3. 3 \in Nat /\ 4 \in Nat /\ 3 + 4 = 7
  OBVIOUS
<1>4. CASE Traverse
  <2>1. <<TraversalLeft', TraversalLeft>> \in Lexicographic(3)
    BY <1>1, <1>4, TraversalRunsDown DEF Traverse, FlowInv
  <2>2. <<TraversalLeft' \o SweepsLeft', TraversalLeft \o SweepsLeft>> \in Lexicographic(3 + 4)
    BY <1>2, <1>3, <2>1, LowerBefore DEF FlowCounted
  <2> QED
    BY <1>3, <2>2 DEF FlowLeft
<1>5. SUFFICES ASSUME StartFlow \/ AssertFails \/ VisitBlock \/ SweepAgain \/ EndFlow
               PROVE  <<SweepsLeft', SweepsLeft>> \in Lexicographic(4)
  <2>1. CASE ~Traverse
    <3>1. TraversalLeft' = TraversalLeft
      BY <2>1 DEF FlowNext, StartFlow, AssertFails, VisitBlock, SweepAgain, EndFlow, dfsVars,
                  postorderVars, TraversalLeft, Unlooked
    <3>2. <<SweepsLeft', SweepsLeft>> \in Lexicographic(4)
      BY <1>5, <2>1 DEF FlowNext
    <3>3. <<TraversalLeft \o SweepsLeft', TraversalLeft \o SweepsLeft>> \in Lexicographic(3 + 4)
      BY <1>2, <1>3, <3>2, LowerBehind DEF FlowCounted
    <3> QED
      BY <1>3, <3>1, <3>3 DEF FlowLeft
  <2> QED
    BY <1>4, <2>1
<1> DEFINE c == Cardinality(SetBits)
           d == Cardinality(SetBits')
           f == IF change THEN 1 ELSE 0
           g == IF change' THEN 1 ELSE 0
<1>6. c \in Nat /\ d \in Nat /\ f \in Nat /\ g \in Nat /\ i + 1 \in Nat /\ i' + 1 \in Nat
  BY <1>2 DEF FlowCounted
<1>7. 0 \in Nat /\ 1 \in Nat /\ 2 \in Nat /\ 0 < 1 /\ 1 < 2 /\ 0 < 2
  OBVIOUS
<1>8. CASE StartFlow \/ AssertFails
  <2>1. SweepsLeft = <<2, c, f, i + 1>>
    BY <1>8 DEF StartFlow, AssertFails, SweepsLeft
  <2>2. PICK r \in {0, 1} : SweepsLeft' = <<r, d, g, i' + 1>>
    BY <1>8 DEF StartFlow, AssertFails, SweepsLeft
  <2>3. r \in Nat /\ r < 2
    BY <2>2
  <2> HIDE DEF c, d, f, g
  <2> QED
    BY <1>6, <1>7, <2>1, <2>2, <2>3, LowerOfFour
<1>9. CASE VisitBlock
  <2>1. pc = "flow" /\ pc' = "flow" /\ i' = i - 1
        /\ change' = (change \/ Transfer(dominators, i) # dominators[BlockAt(i)])
        /\ dominators' = [dominators EXCEPT ![BlockAt(i)] = Transfer(dominators, i)]
    BY <1>9 DEF VisitBlock, postorderVars
  <2>2. SweepsLeft = <<1, c, f, i + 1>> /\ SweepsLeft' = <<1, d, g, i' + 1>>
    BY <2>1 DEF SweepsLeft
  <2>3. CASE dominators' # dominators
    <3>1. d < c
      BY <1>1, <1>9, <2>3, VisitBlock_Above, BitsLost
    <3> HIDE DEF c, d, f, g
    <3> QED
      BY <1>6, <1>7, <2>2, <3>1, LowerOfFour
  <2>4. CASE dominators' = dominators
    <3>1. i \in Positions
      BY <1>9, NBlocksAssumption DEF VisitBlock, FlowInv, FlowTypeOK, Positions, DescentInv
    <3>2. BlockAt(i) \in Blocks
      BY <1>1, <2>1, <3>1, PositionsCover DEF FlowInv, OrderKept, Sweeping
    <3>3. Transfer(dominators, i) = dominators[BlockAt(i)]
      BY <1>1, <2>1, <2>4, <3>2 DEF FlowInv, FlowTypeOK
    <3>4. change' = change
      BY <1>1, <2>1, <3>3 DEF FlowInv, FlowTypeOK
    <3>5. d = c /\ g = f
      BY <2>4, <3>4 DEF SetBits, Bits
    <3>6. i' + 1 < i + 1
      BY <1>1, <2>1 DEF FlowInv, FlowTypeOK
    <3> HIDE DEF c, d, f, g
    <3> QED
      BY <1>6, <1>7, <2>2, <3>5, <3>6, LowerOfFour
  <2> QED
    BY <2>3, <2>4
<1>10. CASE SweepAgain
  <2>1. pc = "flow" /\ pc' = "flow" /\ change /\ ~change' /\ dominators' = dominators
    BY <1>10 DEF SweepAgain, postorderVars, Settled, FreshChange
  <2>2. SweepsLeft = <<1, c, 1, i + 1>> /\ SweepsLeft' = <<1, d, 0, i' + 1>> /\ d = c
    BY <2>1 DEF SweepsLeft, SetBits, Bits
  <2> HIDE DEF c, d, f, g
  <2> QED
    BY <1>6, <1>7, <2>2, LowerOfFour
<1>11. CASE EndFlow
  <2>1. SweepsLeft = <<1, c, f, i + 1>> /\ SweepsLeft' = <<0, d, g, i' + 1>>
    BY <1>11 DEF EndFlow, SweepsLeft
  <2> HIDE DEF c, d, f, g
  <2> QED
    BY <1>6, <1>7, <2>1, LowerOfFour
<1> QED
  BY <1>5, <1>8, <1>9, <1>10, <1>11

(* compute_dominators cannot go on for ever on any graph: each step of it    *)
(* lowers the tuple of what the traversal and the sweeps have left.  That a  *)
(* sweep is repeated only after one that took a bit from a set, and none     *)
(* ever gets a bit back, is why the loop on `change` has an end.             *)
FlowDescends == [][(<<FlowLeft', FlowLeft>> \in Lexicographic(7))]_dataflowVars

THEOREM FlowCannotGoOn == FlowSpec => FlowDescends
<1>1. DescentInv /\ [FlowNext]_dataflowVars
          => [(<<FlowLeft', FlowLeft>> \in Lexicographic(7))]_dataflowVars
  BY FlowRunsDown
<1> QED
  BY <1>1, DescentInvariant, PTL DEF FlowSpec, FlowDescends

(* If every block can be reached the order is complete. *)
LEMMA OrderIsComplete ==
    ASSUME PostorderInv, pc # "dfs", Reachable(cfg) = Blocks
    PROVE  OrderComplete
<1>1. /\ postorder \in Seq(Blocks)
      /\ Len(postorder) \in Nat \ {0}
      /\ postorder[Len(postorder)] = Entry
      /\ \A m, k \in 1 .. Len(postorder) : postorder[m] = postorder[k] => m = k
  BY DEF PostorderInv, PostorderTypeOK, VisitedSplit, Injective, Phase
<1>2. Pushed = Blocks
  BY PushedIsReachable
<1> DEFINE f == [k \in 1 .. Len(postorder) |-> postorder[k]]
<1>3. f \in Bijection(1 .. Len(postorder), Blocks)
  BY <1>1, <1>2 DEF Pushed, Bijection, Injection, Surjection, IsInjective
<1>4. IsFiniteSet(1 .. Len(postorder)) /\ Cardinality(1 .. Len(postorder)) = Len(postorder)
  BY <1>1, FS_Interval
<1>5. ExistsBijection(1 .. Len(postorder), Blocks)
  <2> HIDE DEF f
  <2> QED
    BY <1>3 DEF ExistsBijection
<1>6. Cardinality(Blocks) = Len(postorder)
  BY <1>4, <1>5, FS_Bijection
<1>7. Cardinality(Blocks) = NBlocks
  <2>1. 0 \in Int /\ NBlocks - 1 \in Int /\ NBlocks >= 2 /\ NBlocks \in Int
    BY NBlocksAssumption
  <2> QED
    BY <2>1, FS_Interval DEF Blocks
<1> QED
  BY <1>1, <1>6, <1>7 DEF OrderComplete

(* The assertion before the sweeps stops exactly the graphs that have a *)
(* block that cannot be reached.                                        *)
FlowStopsRightly ==
    /\ pc = "solved" => Reachable(cfg) = Blocks
    /\ pc = "aborted" => Reachable(cfg) # Blocks

THEOREM FlowEndIsRight == FlowSpec => []FlowStopsRightly
<1>1. DescentInv => FlowStopsRightly
  BY PositionsCover, OrderIsComplete
  DEF DescentInv, FlowStopsRightly, FlowInv, OrderKept, Sweeping, AbortedRightly
<1> QED
  BY <1>1, DescentInvariant, PTL

=============================================================================
