----------------------------- MODULE TreeClients -----------------------------
(***************************************************************************)
(* The two clients of the dominator tree.  print_dom_fronts.cpp and        *)
(* print_nat_loops.cpp begin alike: a graph is parsed and its tree built.  *)
(* Then the one runs dom_frontiers and the other LoopInfo; no program runs *)
(* both, so whichever starts leaves the state of the other alone.          *)
(***************************************************************************)
EXTENDS DomFrontiers, LoopInfo

clientVars == <<buildVars, frontierVars, loopVars>>

ClientsInit == FrontiersInit /\ NoLoops

FrontiersStep == FrontiersNext /\ UNCHANGED loopVars
LoopsStep == LoopsNext /\ UNCHANGED frontierVars

ClientsNext == FrontiersStep \/ LoopsStep

ClientsSpec ==
    ClientsInit /\ [][ClientsNext]_clientVars /\ WF_clientVars(ClientsNext)

-----------------------------------------------------------------------------

(* A runner leaves the tree: a block in the tree is joined from one that *)
(* is not.                                                               *)
RunnerLost ==
    \E b \in Reachable(cfg) : IsJoinPoint(b) /\ ~(Preds(cfg, b) \subseteq Reachable(cfg))

(* On a graph whose first predecessors come later the sweeps end, and then *)
(* so does either client: LoopInfo always, although it pushes blocks again *)
(* that it has met before, and dom_frontiers with all runners stopped at   *)
(* the block they have to stop at, unless one is lost, and then at the     *)
(* assertion.                                                              *)
ClientsEnd ==
    [](pc = "ordered" /\ FirstPredsLater =>
            <>(\/ pc = "loops"
               \/ pc = "fronts" /\ ~RunnerLost
               \/ pc = "crashed" /\ RunnerLost))
=============================================================================
