------------------------------ MODULE MCGraphs ------------------------------
(***************************************************************************)
(* Families of small control-flow graphs for TLC.  Each is a set of        *)
(* functions from blocks to the targets of their branches; BuildCfg adds   *)
(* the edges in the parser's order.                                        *)
(***************************************************************************)
EXTENDS Cfg

(* The target lists of at most two branches into `targets`: no branch (the *)
(* exit), one, or two, to the same block included.                         *)
UpToTwo(targets) ==
    {<<>>} \union {<<s>> : s \in targets} \union {<<s, t>> : s \in targets, t \in targets}

(* No branch, one, or two to different blocks in either order. *)
UpToTwoDistinct(targets) ==
    {<<>>} \union {<<s>> : s \in targets}
           \union {p \in targets \X targets : p[1] # p[2]}

(* All graphs of at most two different targets per block in which nothing *)
(* branches to the entry.                                                 *)
EntryFreeBranches == [Blocks -> UpToTwoDistinct(Blocks \ {Entry})]

(* Graphs in which the blocks after the first m have no branches and no    *)
(* branch leads to them: they are unreachable.                             *)
Padded(m, branches) ==
    {[b \in Blocks |-> IF b < m THEN f[b] ELSE <<>>] : f \in branches}

(* Branches to the entry as well, among the first three blocks. *)
ThreeBlockBranches == Padded(3, [0 .. 2 -> UpToTwo(0 .. 2)])

(* The graphs of the benchmark and all like them: every block but the last *)
(* goes on to the next one and perhaps to any other block, which is the    *)
(* first or the second target of its branch.                               *)
Shapes == {<<"next">>} \union ({"then", "else"} \X Blocks)

FallThrough(b, shape) ==
    CASE shape[1] = "next" -> <<b + 1>>
      [] shape[1] = "then" -> <<shape[2], b + 1>>
      [] shape[1] = "else" -> <<b + 1, shape[2]>>

FallThroughBranches ==
    {[b \in Blocks |-> IF b = NBlocks - 1 THEN <<>> ELSE FallThrough(b, f[b])] :
        f \in [0 .. NBlocks - 2 -> Shapes]}

(* The special constructors of cfg.h, at this size. *)
BenchmarkCfgs == {LinearCfg, FwdbackCfg, ManypredCfg}

CfgsOf(branches) == {BuildCfg(f) : f \in branches}
=============================================================================
