------------------------------ MODULE LoopInfo ------------------------------
(***************************************************************************)
(* LoopInfo of src/loops/loop_info.h: the natural loops of the graph, one  *)
(* for every edge from a latch to a header that dominates it, found with   *)
(* the tree of DominatorTree::build.                                       *)
(***************************************************************************)
EXTENDS DomTree, FiniteSets

VARIABLES
    header_num,     \* the candidate header
    l,              \* index of the predecessor looked at, the latch
    bbs,            \* Loop::bbs of the loop being collected
    s,              \* Stack<int> s of its constructor, top last
    loops           \* the loops found so far

loopVars == <<header_num, l, bbs, s, loops>>
allLoopVars == <<buildVars, loopVars>>

NoLoops ==
    /\ header_num = 0 /\ l = 0
    /\ bbs = <<>> /\ s = <<>>
    /\ loops = <<>>

LoopsInit == TreeInit /\ NoLoops

LoopsBuild == BuildNext /\ UNCHANGED loopVars

StartLoops ==
    /\ pc = "built"
    /\ header_num' = 0
    /\ l' = 1
    /\ pc' = "header"
    /\ UNCHANGED <<cfg, dfsVars, postorder, treeVars, bbs, s, loops>>

(* The blocks the runner of `dominates` meets: it starts at the parent of  *)
(* b, not at b, and goes from each block to its parent.                    *)
RunnerStart(b) == idoms[b]

Met(b) ==
    LET closed == {S \in SUBSET Slots : \A y \in S : idoms[y] \in S}
    IN  {x \in Slots : \A S \in closed : RunnerStart(b) \in S => x \in S}

(* Mutant: every edge passes for a back edge. *)
AnyDominates(a, b) == TRUE

(* dominates: the entry always, any other block if the runner meets it.  *)
(* is_reachable_from_entry(b) is dominates(0, b), which is always true.  *)
TreeDominates(a, b) == a = Entry \/ a \in Met(b)
ReachableFromEntry(b) == TreeDominates(Entry, b)

HasLatch == pc = "header" /\ header_num < NBlocks /\ l <= Len(cfg.preds[header_num])
Latch == cfg.preds[header_num][l]
IsLoop == TreeDominates(header_num, Latch) /\ ReachableFromEntry(Latch)

(* Mutant: the next header's predecessors are looked at from where those *)
(* of the last one ended.                                                 *)
SameLatch == l
FirstLatch == 1

NextHeader ==
    /\ pc = "header"
    /\ header_num < NBlocks
    /\ ~HasLatch
    /\ header_num' = header_num + 1
    /\ l' = FirstLatch
    /\ UNCHANGED <<buildVars, bbs, s, loops>>

SkipLatch ==
    /\ HasLatch
    /\ ~IsLoop
    /\ l' = l + 1
    /\ UNCHANGED <<buildVars, header_num, bbs, s, loops>>

FirstBody(h) == <<h>>

(* The constructor of Loop: the header is in the loop from the start, and *)
(* the latch is the first block to collect.                               *)
BeginLoop ==
    /\ HasLatch
    /\ IsLoop
    /\ bbs' = FirstBody(header_num)
    /\ s' = <<Latch>>
    /\ pc' = "body"
    /\ UNCHANGED <<cfg, dfsVars, postorder, treeVars, header_num, l, loops>>

Contained == {bbs[k] : k \in 1 .. Len(bbs)}
TopBlock == s[Len(s)]
(* Mutant: the top is read and left on the stack. *)
NotPopped == s
Popped == SubSeq(s, 1, Len(s) - 1)

(* Mutant: the walk goes forward. *)
Targets(b) == cfg.succs[b]
Sources(b) == cfg.preds[b]

(* A block not in the loop yet is added, and its predecessors are pushed. *)
AddBlock ==
    /\ pc = "body"
    /\ s # <<>>
    /\ TopBlock \notin Contained
    /\ bbs' = Append(bbs, TopBlock)
    /\ s' = Popped \o Sources(TopBlock)
    /\ UNCHANGED <<buildVars, header_num, l, loops>>

DropBlock ==
    /\ pc = "body"
    /\ s # <<>>
    /\ TopBlock \in Contained
    /\ s' = Popped
    /\ UNCHANGED <<buildVars, header_num, l, bbs, loops>>

EndLoop ==
    /\ pc = "body"
    /\ s = <<>>
    /\ loops' = Append(loops, [header |-> header_num, latch |-> Latch, bbs |-> bbs])
    /\ l' = l + 1
    /\ pc' = "header"
    /\ UNCHANGED <<cfg, dfsVars, postorder, treeVars, header_num, bbs, s>>

EndLoops ==
    /\ pc = "header"
    /\ header_num = NBlocks
    /\ pc' = "loops"
    /\ UNCHANGED <<cfg, dfsVars, postorder, treeVars, loopVars>>

LoopsNext ==
    \/ LoopsBuild
    \/ StartLoops
    \/ NextHeader \/ SkipLatch \/ BeginLoop
    \/ AddBlock \/ DropBlock \/ EndLoop
    \/ EndLoops

LoopsSpec == LoopsInit /\ [][LoopsNext]_allLoopVars /\ WF_allLoopVars(LoopsNext)

-----------------------------------------------------------------------------

LoopsTypeOK ==
    /\ TreeTypeOK
    /\ header_num \in 0 .. NBlocks
    /\ l \in Nat
    /\ pc = "header" /\ header_num < NBlocks => l \in 1 .. Len(cfg.preds[header_num]) + 1
    /\ bbs \in Seq(Blocks)
    /\ s \in Seq(Blocks)
    /\ loops \in Seq([header : Blocks, latch : Blocks, bbs : Seq(Blocks)])

BodyOf(k) == {loops[k].bbs[m] : m \in 1 .. Len(loops[k].bbs)}

(* A back edge leads to a block that dominates the one it leaves.  No block *)
(* dominates one that cannot be reached, and every other dominates itself.  *)
IsBackEdge(dom, latch, header) == header \in dom[latch]

(* The natural loop of an edge: its header, and the blocks from which the *)
(* latch can be reached without passing the header.                       *)
NaturalLoop(latch, header) ==
    {header} \union {b \in Blocks : latch \in ReachableFrom(cfg, b, header)}

(* The blocks of a loop found are those of the natural loop of its edge,   *)
(* and the loops are those of the back edges, one for every occurrence of  *)
(* the edge in the predecessor list of its header.  Two kinds of edges are *)
(* left to LoopsAreBackEdges: those from a block other than the entry to   *)
(* itself, and those from a block that cannot be reached.                  *)
LoopsAreNatural ==
    pc = "loops" /\ FirstPredsLater =>
        LET dom == DominatorSets(cfg)
        IN  /\ \A k \in 1 .. Len(loops) :
                  BodyOf(k) = NaturalLoop(loops[k].latch, loops[k].header)
            /\ \A header \in Blocks : \A latch \in Reachable(cfg) :
                  latch # header \/ header = Entry =>
                      Cardinality({k \in 1 .. Len(loops) :
                                      loops[k].header = header /\ loops[k].latch = latch})
                        = IF IsBackEdge(dom, latch, header)
                          THEN Cardinality({m \in 1 .. Len(cfg.preds[header]) :
                                               cfg.preds[header][m] = latch})
                          ELSE 0

(* "Return true if BB no. `a` dominates BB no. `b`" (dtree.h:90), asked of *)
(* every edge: the edges a loop is found for are the back edges, those     *)
(* from a block to itself and from unreachable blocks included.  The class *)
(* comment says it too: "Start from `b` and go up. If you see `a` then     *)
(* yes, otherwise no" (dtree.h:22-23).                                     *)
LoopsAreBackEdges ==
    pc = "loops" /\ FirstPredsLater =>
        LET dom == DominatorSets(cfg)
        IN  \A header \in Blocks : \A latch \in Preds(cfg, header) :
                (\E k \in 1 .. Len(loops) :
                     loops[k].header = header /\ loops[k].latch = latch)
                    <=> IsBackEdge(dom, latch, header)

(* Loops with different headers are disjoint or nested. *)
LoopsNest ==
    pc = "loops" /\ FirstPredsLater /\ AllReachable =>
        \A j1, j2 \in 1 .. Len(loops) :
            \/ loops[j1].header = loops[j2].header
            \/ BodyOf(j1) \cap BodyOf(j2) = {}
            \/ BodyOf(j1) \subseteq BodyOf(j2)
            \/ BodyOf(j2) \subseteq BodyOf(j1)
=============================================================================
