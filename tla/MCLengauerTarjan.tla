------------------------- MODULE MCLengauerTarjan -------------------------
EXTENDS LengauerTarjan, MCGraphs

(* Five blocks are the fewest on which the last loop copies an immediate *)
(* dominator.                                                            *)
MCCfgs == CfgsOf(FallThroughBranches \union ThreeBlockBranches) \union BenchmarkCfgs
=============================================================================
