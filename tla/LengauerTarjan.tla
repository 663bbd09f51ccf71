--------------------------- MODULE LengauerTarjan ---------------------------
(***************************************************************************)
(* lt_slow and custom_dfs of src/dominance/lengauer-tarjan.h: immediate    *)
(* dominators by semidominators, without path compression.                 *)
(*                                                                         *)
(* The arrays keep their names without the bbnum_to_ prefix.  A value a    *)
(* fresh array holds before its first assignment is UNDEFINED_BBNUM here;  *)
(* the steps read such a value only where the text says so.                *)
(***************************************************************************)
EXTENDS Dominance

CONSTANT Cfgs       \* the graphs the program is run on

ASSUME CfgsAssumption == \A c \in Cfgs : WellFormed(c)

VARIABLES
    cfg,            \* the graph
    pc,             \* which loop runs
    stack,          \* Stack<int> of custom_dfs, top last
    curr,           \* the block it is at
    succ_idx,       \* how many successors of that block it has still to look at
    count,          \* n of custom_dfs: blocks numbered so far
    semi,           \* bbnum_to_semi_dfnum; 0: not visited
    vertex,         \* dfnum_to_bbnum
    parent,         \* bbnum_to_parent_bbnum
    ancestor,       \* bbnum_to_ancestor_bbnum: the linked forest
    bucket_head,
    bucket_link,
    dfnum,          \* the loop counter of both loops of lt_slow
    bbnum,          \* the element of the bucket looked at
    idom            \* the result

UNDEFINED_BBNUM == -1

Numbers == 1 .. NBlocks
Undefined == [b \in Blocks |-> UNDEFINED_BBNUM]

(* b and all that is above it in the forest that f maps to parents: what   *)
(* every set has that has b and with a block its parent.                   *)
UpFrom(f, b) ==
    LET closed == {S \in SUBSET Blocks : \A x \in S : f[x] = UNDEFINED_BBNUM \/ f[x] \in S}
    IN  {x \in Blocks : \A S \in closed : b \in S => x \in S}

searchVars == <<stack, curr, succ_idx, count, vertex, parent>>
vars == <<cfg, pc, searchVars, semi, ancestor, bucket_head, bucket_link,
          dfnum, bbnum, idom>>

Init ==
    /\ cfg \in Cfgs
    /\ pc = "search"
    /\ stack = <<Entry>>
    /\ curr = Entry /\ succ_idx = 0
    /\ count = 0
    /\ semi = [b \in Blocks |-> 0]
    /\ vertex = [k \in Numbers |-> UNDEFINED_BBNUM]
    /\ parent = Undefined
    /\ ancestor = Undefined
    /\ bucket_head = Undefined
    /\ bucket_link = Undefined
    /\ dfnum = 0
    /\ bbnum = UNDEFINED_BBNUM
    /\ idom = Undefined

-----------------------------------------------------------------------------
(* custom_dfs *)

Top == stack[Len(stack)]
Popped == SubSeq(stack, 1, Len(stack) - 1)

Popping == pc = "search" /\ succ_idx = 0 /\ stack # <<>>

(* A block may be on the stack several times; it is visited once. *)
PopVisited ==
    /\ Popping
    /\ semi[Top] # 0
    /\ stack' = Popped
    /\ UNCHANGED <<cfg, pc, curr, succ_idx, count, semi, vertex, parent, ancestor,
                   bucket_head, bucket_link, dfnum, bbnum, idom>>

Visit ==
    /\ Popping
    /\ semi[Top] = 0
    /\ count' = count + 1
    /\ semi' = [semi EXCEPT ![Top] = count + 1]
    /\ vertex' = [vertex EXCEPT ![count + 1] = Top]
    /\ ancestor' = [ancestor EXCEPT ![Top] = UNDEFINED_BBNUM]
    /\ bucket_head' = [bucket_head EXCEPT ![Top] = UNDEFINED_BBNUM]
    /\ bucket_link' = [bucket_link EXCEPT ![Top] = UNDEFINED_BBNUM]
    /\ stack' = Popped
    /\ curr' = Top
    /\ succ_idx' = Len(cfg.succs[Top])
    /\ UNCHANGED <<cfg, pc, parent, dfnum, bbnum, idom>>

(* The successors are pushed last one first: the first one ends on top. *)
Succ == cfg.succs[curr][succ_idx]

(* The parent of a block that is already on the stack is overwritten: the  *)
(* block is visited from its topmost entry, which the last parent pushed.  *)
(* Mutant: the first parent is kept. *)
AdoptedOrphan == IF parent[Succ] = UNDEFINED_BBNUM THEN [parent EXCEPT ![Succ] = curr] ELSE parent
Adopted == [parent EXCEPT ![Succ] = curr]

PushSucc ==
    /\ pc = "search"
    /\ succ_idx >= 1
    /\ semi[Succ] = 0
    /\ stack' = Append(stack, Succ)
    /\ parent' = Adopted
    /\ succ_idx' = succ_idx - 1
    /\ UNCHANGED <<cfg, pc, curr, count, semi, vertex, ancestor,
                   bucket_head, bucket_link, dfnum, bbnum, idom>>

SkipSucc ==
    /\ pc = "search"
    /\ succ_idx >= 1
    /\ semi[Succ] # 0
    /\ succ_idx' = succ_idx - 1
    /\ UNCHANGED <<cfg, pc, stack, curr, count, semi, vertex, parent, ancestor,
                   bucket_head, bucket_link, dfnum, bbnum, idom>>

(* Mutant: one past the last number. *)
PastLastNumber == NBlocks + 1
LastNumber == NBlocks

(* The search is over.  lt_slow starts at number cfg.size(), whether a     *)
(* block has it or not.                                                    *)
EndSearch ==
    /\ pc = "search"
    /\ succ_idx = 0
    /\ stack = <<>>
    /\ dfnum' = LastNumber
    /\ pc' = "semi"
    /\ UNCHANGED <<cfg, searchVars, semi, ancestor, bucket_head, bucket_link, bbnum, idom>>

-----------------------------------------------------------------------------
(* lt_slow *)

(* Mutant of Lowest: the forest is not looked at. *)
LowestHere(b) == b

(* ancestor_with_lowest_semi: the block with the lowest semi, the first of *)
(* them, on the way from b to the root of its tree in the forest, the root *)
(* itself left out.                                                        *)
Lowest(b) ==
    LET way == {x \in UpFrom(ancestor, b) : ancestor[x] # UNDEFINED_BBNUM}
    IN  CHOOSE u \in {b} \union way :
            \A x \in way : semi[u] < semi[x] \/ (semi[u] = semi[x] /\ x \in UpFrom(ancestor, u))

(* semi(w): the lowest number among w's own and those its predecessors lead to. *)
Candidates(w) == {semi[w]} \union {semi[Lowest(v)] : v \in Preds(cfg, w)}
BestSemi(w) == CHOOSE s \in Candidates(w) : \A t \in Candidates(w) : s <= t

Numbered(k) == vertex[k] # UNDEFINED_BBNUM

(* assert(bbnum_to_semi_dfnum[w] == dfnum): no block has this number, so w *)
(* is a value the allocator left, and not the number of a block with it.   *)
AssertFails ==
    /\ pc = "semi"
    /\ dfnum >= 2
    /\ ~Numbered(dfnum)
    /\ pc' = "aborted"
    /\ UNCHANGED <<cfg, searchVars, semi, ancestor, bucket_head, bucket_link,
                   dfnum, bbnum, idom>>

(* Compute semi(w), link w to its parent, put w into the bucket of its     *)
(* semidominator, and start on the bucket of the parent.                   *)
Semidominator ==
    /\ pc = "semi"
    /\ dfnum >= 2
    /\ Numbered(dfnum)
    /\ LET w == vertex[dfnum]
           semidom == vertex[BestSemi(w)]
       IN  /\ semi' = [semi EXCEPT ![w] = BestSemi(w)]
           /\ ancestor' = [ancestor EXCEPT ![w] = parent[w]]
           /\ bucket_link' = [bucket_link EXCEPT ![w] = bucket_head[semidom]]
           /\ bucket_head' = [bucket_head EXCEPT ![semidom] = w]
           /\ bbnum' = bucket_head'[parent[w]]
    /\ pc' = "bucket"
    /\ UNCHANGED <<cfg, searchVars, dfnum, idom>>

Parent == parent[vertex[dfnum]]

(* The immediate dominator of b, or a block that has the same one. *)
(* Mutant: a block is taken for its own relative. *)
IdomOrSelf(b, u) == IF semi[u] <= semi[b] THEN u ELSE Parent
IdomOrRelative(b, u) == IF semi[u] < semi[b] THEN u ELSE Parent

(* Mutant: the bucket is read from its head again. *)
HeadAgain == bucket_head[Parent]
NextInBucket == bucket_link[bbnum]

BucketElement ==
    /\ pc = "bucket"
    /\ bbnum # UNDEFINED_BBNUM
    /\ idom' = [idom EXCEPT ![bbnum] = IdomOrRelative(bbnum, Lowest(bbnum))]
    /\ bbnum' = NextInBucket
    /\ UNCHANGED <<cfg, pc, searchVars, semi, ancestor, bucket_head, bucket_link, dfnum>>

EmptyBucket ==
    /\ pc = "bucket"
    /\ bbnum = UNDEFINED_BBNUM
    /\ bucket_head' = [bucket_head EXCEPT ![Parent] = UNDEFINED_BBNUM]
    /\ dfnum' = dfnum - 1
    /\ pc' = "semi"
    /\ UNCHANGED <<cfg, searchVars, semi, ancestor, bucket_link, bbnum, idom>>

StartFinal ==
    /\ pc = "semi"
    /\ dfnum = 1
    /\ dfnum' = 2
    /\ pc' = "final"
    /\ UNCHANGED <<cfg, searchVars, semi, ancestor, bucket_head, bucket_link, bbnum, idom>>

(* The last loop: dfnum < nelems, so the block numbered last is left out. *)
(* Mutant: the last two blocks are. *)
MoreFinalShort == dfnum < NBlocks - 1
MoreFinal == dfnum < NBlocks
IsRelative(w) == idom[w] # vertex[semi[w]]

(* assert(u < w) compares block numbers, not the numbers of the search. *)
(* Mutant: the block before w is refused as well.                       *)
InStrictOrder(u, w) == u + 1 < w
InOrder(u, w) == u < w

KeepIdom ==
    /\ pc = "final"
    /\ MoreFinal
    /\ ~IsRelative(vertex[dfnum])
    /\ dfnum' = dfnum + 1
    /\ UNCHANGED <<cfg, pc, searchVars, semi, ancestor, bucket_head, bucket_link, bbnum, idom>>

CopyIdom ==
    /\ pc = "final"
    /\ MoreFinal
    /\ LET w == vertex[dfnum]
       IN  /\ IsRelative(w)
           /\ InOrder(idom[w], w)
           /\ idom' = [idom EXCEPT ![w] = idom[idom[w]]]
    /\ dfnum' = dfnum + 1
    /\ UNCHANGED <<cfg, pc, searchVars, semi, ancestor, bucket_head, bucket_link, bbnum>>

OrderAssertFails ==
    /\ pc = "final"
    /\ MoreFinal
    /\ LET w == vertex[dfnum]
       IN  IsRelative(w) /\ ~InOrder(idom[w], w)
    /\ pc' = "aborted"
    /\ UNCHANGED <<cfg, searchVars, semi, ancestor, bucket_head, bucket_link,
                   dfnum, bbnum, idom>>

EndFinal ==
    /\ pc = "final"
    /\ ~MoreFinal
    /\ pc' = "done"
    /\ UNCHANGED <<cfg, searchVars, semi, ancestor, bucket_head, bucket_link,
                   dfnum, bbnum, idom>>

Next ==
    \/ PopVisited \/ Visit \/ PushSucc \/ SkipSucc \/ EndSearch
    \/ AssertFails \/ Semidominator
    \/ BucketElement \/ EmptyBucket
    \/ StartFinal
    \/ KeepIdom \/ CopyIdom \/ OrderAssertFails
    \/ EndFinal

Spec == Init /\ [][Next]_vars /\ WF_vars(Next)

-----------------------------------------------------------------------------

TypeOK ==
    /\ WellFormed(cfg)
    /\ stack \in Seq(Blocks)
    /\ curr \in Blocks
    /\ succ_idx \in 0 .. Len(cfg.succs[curr])
    /\ count \in 0 .. NBlocks
    /\ semi \in [Blocks -> 0 .. NBlocks]
    /\ vertex \in [Numbers -> Blocks \union {UNDEFINED_BBNUM}]
    /\ {parent, ancestor, bucket_head, bucket_link, idom}
            \subseteq [Blocks -> Blocks \union {UNDEFINED_BBNUM}]
    /\ dfnum \in 0 .. NBlocks
    /\ bbnum \in Blocks \union {UNDEFINED_BBNUM}

(* The number the search gave to a block. *)
Number(b) == CHOOSE k \in Numbers : vertex[k] = b

(* b and its ancestors in the tree of parents. *)
TreePath(b) == UpFrom(parent, b)

AllReachable == Reachable(cfg) = Blocks

(* The explicit stack, with its duplicates and overwritten parents, leaves *)
(* a depth-first spanning tree: every parent link is an edge of the graph, *)
(* and an edge that goes up in number goes to a descendant.  The comment   *)
(* at lengauer-tarjan.h:63-65 argues for it, semidominators are wrong      *)
(* without it.                                                             *)
SearchTreeIsDepthFirst ==
    pc = "semi" /\ dfnum = NBlocks /\ AllReachable =>
        /\ \A b \in Blocks \ {Entry} : parent[b] \in Preds(cfg, b)
        /\ \A v \in Blocks : \A w \in Succs(cfg, v) :
              Number(v) < Number(w) => v \in TreePath(w)

(* The definition of semi(w): the lowest number from which a path leads to *)
(* w whose inner blocks are all numbered above w.  Such a path can be      *)
(* followed backwards from w and from blocks numbered above it.            *)
LeadsTo(w) ==
    LET closed == {S \in SUBSET Blocks :
                      \A x \in S : Number(x) >= Number(w) => Preds(cfg, x) \subseteq S}
    IN  {x \in Blocks : \A S \in closed : w \in S => x \in S}

SemiDefinition(w) ==
    CHOOSE s \in {Number(x) : x \in LeadsTo(w)} : \A x \in LeadsTo(w) : s <= Number(x)

(* Every semidominator is the one of the definition, though each was       *)
(* computed from the part of the forest linked by then.                    *)
SemisCorrect ==
    pc = "semi" /\ dfnum = 1 =>
        \A w \in Blocks \ {Entry} : semi[w] = SemiDefinition(w)

(* When the first loop ends every block but the entry has been in exactly  *)
(* the bucket of its semidominator and been taken out of it: idom holds    *)
(* its immediate dominator, or an earlier numbered block that has the same *)
(* one.                                                                    *)
BucketsSettleIdoms ==
    pc = "final" /\ dfnum = 2 =>
        LET dom == DominatorSets(cfg)
        IN  /\ \A b \in Blocks : bucket_head[b] = UNDEFINED_BBNUM
            /\ \A b \in Blocks \ {Entry} :
                  \/ IsImmediateDominator(dom, idom[b], b)
                  \/ /\ Number(idom[b]) < Number(b)
                     /\ dom[idom[b]] \ {idom[b]} = dom[b] \ {b}

(* At the end the immediate dominators are right, but for the block        *)
(* numbered last: that one may still hold a block with the same immediate  *)
(* dominator.                                                              *)
IdomsCorrectButLast ==
    pc = "done" =>
        LET dom == DominatorSets(cfg)
            last == vertex[NBlocks]
        IN  /\ \A b \in Blocks \ {Entry, last} : IsImmediateDominator(dom, idom[b], b)
            /\ \/ IsImmediateDominator(dom, idom[last], last)
               \/ IsImmediateDominator(dom, idom[idom[last]], last)

(* "A Fast Algorithm for Finding Dominators" (dominance/README.md:26): the *)
(* result is the immediate dominator of every block.                       *)
IdomsCorrect ==
    pc = "done" =>
        LET dom == DominatorSets(cfg)
        IN  \A b \in Blocks \ {Entry} : IsImmediateDominator(dom, idom[b], b)

(* Where blocks are numbered in the order of the search, as in the graphs  *)
(* of the benchmark, the assertion is the one intended and holds; and an   *)
(* unreachable block is what the assertion of the first loop stops at.     *)
AbortsExplained ==
    pc = "aborted" =>
        IF AllReachable THEN \E b \in Blocks : Number(b) # b + 1
                        ELSE dfnum = NBlocks

(* lt_slow ends on every graph, at its last statement or an assertion. *)
Ends == <>(pc \in {"done", "aborted"})
=============================================================================
