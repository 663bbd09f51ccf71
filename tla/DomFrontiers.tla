---------------------------- MODULE DomFrontiers ----------------------------
(***************************************************************************)
(* dom_frontiers of src/dominance/dom_frontiers.h, run after build as      *)
(* print_dom_fronts.cpp does.  From every predecessor of a join point a    *)
(* runner climbs the tree to the immediate dominator of the join point,    *)
(* adding the join point to the frontier of each block it leaves.          *)
(***************************************************************************)
EXTENDS DomTree

VARIABLES
    DF,             \* block -> BitSet of blocks
    n,              \* the block looked at
    p,              \* index of its predecessor
    runner          \* where the walk from that predecessor has come to

frontierVars == <<DF, n, p, runner>>
allFrontierVars == <<buildVars, frontierVars>>

FrontiersInit ==
    /\ TreeInit
    /\ DF = [b \in Blocks |-> {}]
    /\ n = 0 /\ p = 0 /\ runner = 0

FrontiersBuild == BuildNext /\ UNCHANGED frontierVars

StartFrontiers ==
    /\ pc = "built"
    /\ n' = 0
    /\ pc' = "join"
    /\ UNCHANGED <<cfg, dfsVars, postorder, treeVars, DF, p, runner>>

(* is_join_point: more than one entry in preds, the same block twice *)
(* included.                                                         *)
(* Mutant: two predecessors are not enough. *)
IsBusyJoin(b) == Len(cfg.preds[b]) > 2
IsJoinPoint(b) == Len(cfg.preds[b]) > 1

SkipBlock ==
    /\ pc = "join"
    /\ n < NBlocks
    /\ ~IsJoinPoint(n)
    /\ n' = n + 1
    /\ UNCHANGED <<buildVars, DF, p, runner>>

(* The runner starts at the first predecessor of a join point ... *)
EnterJoin ==
    /\ pc = "join"
    /\ n < NBlocks
    /\ IsJoinPoint(n)
    /\ p' = 1
    /\ runner' = cfg.preds[n][1]
    /\ pc' = "run"
    /\ UNCHANGED <<cfg, dfsVars, postorder, treeVars, DF, n>>

(* Where the climb for a block ends. *)
(* Mutant: at the block itself.      *)
OwnCeiling(b) == b
Ceiling(b) == idoms[b]

(* ... climbs, ... *)
Climb ==
    /\ pc = "run"
    /\ runner # Ceiling(n)
    /\ runner # UNDEFINED_IDOM
    /\ DF' = [DF EXCEPT ![runner] = @ \union {n}]
    /\ runner' = idoms[runner]
    /\ UNCHANGED <<buildVars, n, p>>

(* ... and, at the immediate dominator, moves to the next predecessor. *)
NextRunner ==
    /\ pc = "run"
    /\ runner = Ceiling(n)
    /\ p < Len(cfg.preds[n])
    /\ p' = p + 1
    /\ runner' = cfg.preds[n][p + 1]
    /\ UNCHANGED <<buildVars, DF, n>>

LeaveJoin ==
    /\ pc = "run"
    /\ runner = Ceiling(n)
    /\ p = Len(cfg.preds[n])
    /\ n' = n + 1
    /\ pc' = "join"
    /\ UNCHANGED <<cfg, dfsVars, postorder, treeVars, DF, p, runner>>

(* A runner that has left the tree makes bset_add take DF[-1], the         *)
(* allocator's own words, for a BitSet: its assertion stops the program.   *)
Crash ==
    /\ pc = "run"
    /\ runner # Ceiling(n)
    /\ runner = UNDEFINED_IDOM
    /\ pc' = "crashed"
    /\ UNCHANGED <<cfg, dfsVars, postorder, treeVars, frontierVars>>

EndFrontiers ==
    /\ pc = "join"
    /\ n = NBlocks
    /\ pc' = "fronts"
    /\ UNCHANGED <<cfg, dfsVars, postorder, treeVars, frontierVars>>

FrontiersNext ==
    \/ FrontiersBuild
    \/ StartFrontiers
    \/ SkipBlock \/ EnterJoin
    \/ Climb \/ NextRunner \/ LeaveJoin \/ Crash
    \/ EndFrontiers

FrontiersSpec ==
    FrontiersInit /\ [][FrontiersNext]_allFrontierVars /\ WF_allFrontierVars(FrontiersNext)

-----------------------------------------------------------------------------

FrontiersTypeOK ==
    /\ TreeTypeOK
    /\ DF \in [Blocks -> SUBSET Blocks]
    /\ n \in 0 .. NBlocks
    /\ p \in Nat
    /\ runner \in Slots

(* The graphs dom_frontiers is meant for: every block reachable, and a tree *)
(* that build gets right.                                                   *)
Regular == AllReachable /\ FirstPredsLater

(* The finished sets are the dominance frontiers of the definition, but    *)
(* for the entry: a loop back to it is missed when the entry has no other  *)
(* predecessor, and the entry itself is never in its own frontier, since   *)
(* every runner stops there.                                               *)
FrontiersCorrect ==
    pc = "fronts" /\ Regular =>
        LET dom == DominatorSets(cfg)
        IN  \A b \in Blocks :
                /\ DF[b] \ {Entry} = Frontier(cfg, dom, b) \ {Entry}
                /\ Entry \in DF[b] <=>
                      /\ Entry \in Frontier(cfg, dom, b)
                      /\ IsJoinPoint(Entry) /\ b # Entry
=============================================================================
