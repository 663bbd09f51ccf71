----------------------------- MODULE MCLoopInfo -----------------------------
EXTENDS LoopInfo, MCGraphs

MCCfgs == CfgsOf(EntryFreeBranches \union ThreeBlockBranches) \union BenchmarkCfgs
MCJunk == {0}
=============================================================================
