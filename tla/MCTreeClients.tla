---------------------------- MODULE MCTreeClients ----------------------------
EXTENDS TreeClients, MCGraphs

(* Every block branches to at most two others; the entry is branched to in *)
(* the graphs of three blocks and in two of the benchmark's.  Unreachable  *)
(* blocks occur in the first two families.                                 *)
MCCfgs == CfgsOf(EntryFreeBranches \union ThreeBlockBranches) \union BenchmarkCfgs
MCJunk == {NBlocks}
=============================================================================
