---------------------------- MODULE MCDataflow ----------------------------
EXTENDS Dataflow, MCGraphs

MCCfgs == CfgsOf(EntryFreeBranches \union ThreeBlockBranches
                 \union FallThroughBranches) \union BenchmarkCfgs
=============================================================================
