------------------------------ MODULE DomTree ------------------------------
(***************************************************************************)
(* DominatorTree::build of src/dominance/dtree.h, the algorithm of Cooper, *)
(* Harvey and Kennedy: sweeps over the blocks in reverse postorder, each   *)
(* block's immediate dominator being recomputed from its predecessors by   *)
(* `intersect`, until a sweep changes nothing.                             *)
(*                                                                         *)
(* Sequences are indexed from 1 here and from 0 in the code; the positions *)
(* that postorder_map holds count from 0 in both.                          *)
(***************************************************************************)
EXTENDS Postorder

CONSTANT Junk       \* values a freshly allocated Buf<int> may hold

ASSUME JunkAssumption == Junk \subseteq Int /\ Junk # {}

VARIABLES
    idoms,          \* slot -> immediate dominator, or UNDEFINED_IDOM
    postorder_map,  \* slot -> position in postorder
    change,         \* this sweep changed an entry of idoms
    i,              \* position of the block being processed
    j,              \* index of its predecessor looked at next
    new_idom,       \* candidate; b1 of intersect while that runs
    b2              \* b2 of intersect

UNDEFINED_IDOM == -1

(* A Buf<int> of cfg.size() elements, and the word before it: nothing in   *)
(* build tests an index against UNDEFINED_IDOM, so [-1] is read on some    *)
(* graphs.  With glibc that word is the upper half of the size field of    *)
(* the allocation, 0 for every array below 4 GiB.                          *)
Slots == Blocks \union {UNDEFINED_IDOM}
WordBefore == 0

treeVars == <<idoms, postorder_map, change, i, j, new_idom, b2>>
buildVars == <<postorderVars, treeVars>>

TreeInit ==
    /\ PostorderInit
    /\ idoms = [b \in Slots |-> IF b \in Blocks THEN UNDEFINED_IDOM ELSE WordBefore]
    /\ postorder_map = [b \in Slots |-> WordBefore]
    /\ change = FALSE
    /\ i = 0 /\ j = 0
    /\ new_idom = 0 /\ b2 = 0

Traverse == PostorderNext /\ UNCHANGED treeVars

(* The first block of a sweep, after the entry, and the next one. *)
SweepStart == Len(postorder) - 1
(* Mutant: every other block is skipped. *)
SkippingPosition(k) == k - 2
NextPosition(k) == k - 1

(* The map is filled for the blocks the traversal lists, the others keep   *)
(* what the allocator left.  The entry dominates itself.                   *)
MapOf(order, junk) ==
    [b \in Slots |->
        CASE b \in Blocks /\ \E k \in 1 .. Len(order) : order[k] = b ->
                (CHOOSE k \in 1 .. Len(order) : order[k] = b) - 1
          [] b \in Blocks /\ ~\E k \in 1 .. Len(order) : order[k] = b -> junk[b]
          [] OTHER -> WordBefore]

StartSweeps ==
    /\ pc = "ordered"
    /\ \E junk \in [Blocks -> Junk] : postorder_map' = MapOf(postorder, junk)
    /\ idoms' = [idoms EXCEPT ![Entry] = Entry]
    /\ change' = FALSE
    /\ i' = SweepStart
    /\ pc' = "block"
    /\ UNCHANGED <<cfg, visited, postorder, path, cursor, j, new_idom, b2>>

(* The block of the sweep, and the predecessor it looks at. *)
Current == postorder[i]
Pred == cfg.preds[Current][j]

(* Mutant: the predecessor added last is the first candidate. *)
LastCandidate(b) == cfg.preds[b][Len(cfg.preds[b])]
FirstCandidate(b) == cfg.preds[b][1]

(* The first predecessor is the first candidate, whether it has been *)
(* processed or not.                                                 *)
BeginBlock ==
    /\ pc = "block"
    /\ i >= 1
    /\ new_idom' = FirstCandidate(Current)
    /\ j' = 2
    /\ pc' = "preds"
    /\ UNCHANGED <<cfg, dfsVars, postorder, idoms, postorder_map, change, i, b2>>

MorePreds == pc = "preds" /\ j <= Len(cfg.preds[Current])

SkipPred ==
    /\ MorePreds
    /\ idoms[Pred] = UNDEFINED_IDOM
    /\ j' = j + 1
    /\ UNCHANGED <<postorderVars, idoms, postorder_map, change, i, new_idom, b2>>

CallIntersect ==
    /\ MorePreds
    /\ idoms[Pred] # UNDEFINED_IDOM
    /\ b2' = Pred
    /\ pc' = "intersect"
    /\ UNCHANGED <<cfg, dfsVars, postorder, idoms, postorder_map, change, i, j, new_idom>>

(* The finger with the smaller position climbs; on a tie b2 does. *)
(* Mutant: block numbers are compared instead.                     *)
FirstNumberedHigher(x, y) == x > y
FirstClimbs(x, y) == postorder_map[x] < postorder_map[y]

ClimbFirst ==
    /\ pc = "intersect"
    /\ new_idom # b2
    /\ FirstClimbs(new_idom, b2)
    /\ new_idom' = idoms[new_idom]
    /\ UNCHANGED <<postorderVars, idoms, postorder_map, change, i, j, b2>>

ClimbSecond ==
    /\ pc = "intersect"
    /\ new_idom # b2
    /\ ~FirstClimbs(new_idom, b2)
    /\ b2' = idoms[b2]
    /\ UNCHANGED <<postorderVars, idoms, postorder_map, change, i, j, new_idom>>

EndIntersect ==
    /\ pc = "intersect"
    /\ new_idom = b2
    /\ j' = j + 1
    /\ pc' = "preds"
    /\ UNCHANGED <<cfg, dfsVars, postorder, idoms, postorder_map, change, i, new_idom, b2>>

EndBlock ==
    /\ pc = "preds"
    /\ j > Len(cfg.preds[Current])
    /\ idoms' = [idoms EXCEPT ![Current] = new_idom]
    /\ change' = (change \/ idoms[Current] # new_idom)
    /\ i' = NextPosition(i)
    /\ pc' = "block"
    /\ UNCHANGED <<cfg, dfsVars, postorder, postorder_map, j, new_idom, b2>>

(* Mutant: the flag is not reset for the next sweep. *)
StaleChange == change
FreshChange == FALSE

(* Mutant: one sweep is taken to be enough. *)
SettledAtOnce == TRUE
Settled == ~change

SweepAgain ==
    /\ pc = "block"
    /\ i = 0
    /\ ~Settled
    /\ change' = FreshChange
    /\ i' = SweepStart
    /\ UNCHANGED <<postorderVars, idoms, postorder_map, j, new_idom, b2>>

EndBuild ==
    /\ pc = "block"
    /\ i = 0
    /\ Settled
    /\ pc' = "built"
    /\ UNCHANGED <<cfg, dfsVars, postorder, treeVars>>

BuildNext ==
    \/ Traverse
    \/ StartSweeps
    \/ BeginBlock \/ SkipPred \/ CallIntersect
    \/ ClimbFirst \/ ClimbSecond \/ EndIntersect
    \/ EndBlock
    \/ SweepAgain \/ EndBuild

BuildSpec == TreeInit /\ [][BuildNext]_buildVars /\ WF_buildVars(BuildNext)

-----------------------------------------------------------------------------

(* What build needs of a graph and nothing checks: for every reachable     *)
(* block but the entry, the predecessor added first comes later in the     *)
(* postorder, so that a sweep processes it before the block.               *)
FirstPredsLater ==
    \A k \in 1 .. Len(postorder) - 1 :
        \E m \in k + 1 .. Len(postorder) :
            postorder[m] = cfg.preds[postorder[k]][1]

AllReachable == Reachable(cfg) = Blocks

(* The sets of blocks that have the parent of each of their blocks, and what *)
(* b's have in common: b, its parent in the tree t, and so on to the entry.  *)
ParentClosed(t) ==
    {S \in SUBSET Blocks : \A b \in S : t[b] \in S \union {UNDEFINED_IDOM}}

AncestorsIn(t, b) ==
    LET closed == ParentClosed(t)
    IN  {x \in Blocks : \A S \in closed : b \in S => x \in S}

Ancestors(b) == AncestorsIn(idoms, b)

Processed == {b \in Blocks : idoms[b] # UNDEFINED_IDOM}

TreeTypeOK ==
    /\ PostorderTypeOK
    /\ idoms \in [Slots -> Slots]
    /\ postorder_map \in [Slots -> Int]
    /\ change \in BOOLEAN
    /\ i \in 0 .. NBlocks - 1
    /\ j \in Nat
    /\ {new_idom, b2} \subseteq Slots

(* idoms is the dominator tree of the graph: every reachable block has its *)
(* true immediate dominator, the entry itself, an unreachable block none.  *)
IdomsTrue ==
    LET dom == DominatorSets(cfg)
        reach == Reachable(cfg)
    IN  /\ idoms[Entry] = Entry
        /\ \A b \in reach \ {Entry} :
              idoms[b] # UNDEFINED_IDOM /\ IsImmediateDominator(dom, idoms[b], b)
        /\ \A b \in Blocks \ reach : idoms[b] = UNDEFINED_IDOM

(* When build returns, the tree is right, on every graph whose first *)
(* predecessors come later in the postorder.                         *)
IdomsCorrect == pc = "built" /\ FirstPredsLater => IdomsTrue

(* "The DominatorTree contains the `idoms` array, which maps any basic     *)
(* block to its immediate dominator" (dtree.h:12-13), with no condition on *)
(* the graph.                                                              *)
IdomsCorrectOnAnyGraph == pc = "built" => IdomsTrue

(* Between two blocks of any sweep the unfinished tree never loses a true  *)
(* dominator: those of a processed block are among its ancestors.          *)
TreeKeepsDominators ==
    pc = "block" /\ FirstPredsLater =>
        LET dom == DominatorSets(cfg)
        IN  \A b \in Processed : dom[b] \subseteq Ancestors(b)

(* The fingers of intersect stay on blocks of the tree: neither array is   *)
(* read at index -1, where build would go on with whatever lies there.     *)
FingersInTree ==
    pc = "intersect" /\ FirstPredsLater => {new_idom, b2} \subseteq Processed

(* While build runs, parents are later in the postorder than children:     *)
(* idoms never holds a cycle for intersect to run around in.               *)
ParentsLater ==
    pc \in {"block", "preds", "intersect"} /\ FirstPredsLater =>
        \A b \in Processed \ {Entry} : postorder_map[b] < postorder_map[idoms[b]]

(* A step moves a processed block only up, to one of its ancestors of      *)
(* before the step: the sweeps cannot oscillate.                           *)
BlocksMoveUp ==
    [][FirstPredsLater => \A b \in Processed \ {Entry} :
            idoms'[b] \in Ancestors(b) \ {b}]_buildVars
=============================================================================
