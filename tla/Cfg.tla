-------------------------------- MODULE Cfg --------------------------------
(***************************************************************************)
(* The control-flow graph of src/common/cfg.h: basic blocks numbered from  *)
(* 0, each with the list of its successors and the list of its             *)
(* predecessors.  Both lists are ordered and may hold a block twice (BR    *)
(* %c, .1, .1 adds the edge twice), and the passes depend on their order.  *)
(* Instructions are left out: the dominance and loop passes never look at  *)
(* them.                                                                   *)
(***************************************************************************)
EXTENDS Integers, Sequences

CONSTANT NBlocks    \* number of basic blocks, cfg.size()

(* DominatorTree's constructor asserts number_bbs >= 2: entry and exit. *)
ASSUME NBlocksAssumption == NBlocks \in Nat /\ NBlocks >= 2

Blocks == 0 .. NBlocks - 1

Entry == 0

(* A CFG as the passes receive it: [succs, preds], both Buf<int> per block. *)
Cfg == [succs : [Blocks -> Seq(Blocks)], preds : [Blocks -> Seq(Blocks)]]

(* The successors and the predecessors of b as sets. *)
Succs(c, b) == {c.succs[b][k] : k \in 1 .. Len(c.succs[b])}
Preds(c, b) == {c.preds[b][k] : k \in 1 .. Len(c.preds[b])}

(* The constructor: nbbs blocks, no edges. *)
NewCfg == [succs |-> [b \in Blocks |-> <<>>], preds |-> [b \in Blocks |-> <<>>]]

(* Mutant: the ends of an edge are not looked at. *)
AnyEdge(source, dest) == TRUE

(* add_edge asserts both ends to be below size() before it pushes. *)
EdgeAllowed(source, dest) == source < NBlocks /\ dest < NBlocks

AddEdge(c, source, dest) ==
    [succs |-> [c.succs EXCEPT ![source] = Append(@, dest)],
     preds |-> [c.preds EXCEPT ![dest] = Append(@, source)]]

(* The edges of the branches of block b, in the order of its BR instructions. *)
AddBranches(c, b, targets) ==
    LET added[k \in 0 .. Len(targets)] ==
            IF k = 0 THEN c ELSE AddEdge(added[k - 1], b, targets[k])
    IN  added[Len(targets)]

(* The parser and the special constructors below add the edges of block 0 *)
(* first, then those of block 1, and so on: every predecessor list is     *)
(* sorted by block number.                                                *)
BuildCfg(branches) ==
    LET upTo[b \in 0 .. NBlocks] ==
            IF b = 0 THEN NewCfg ELSE AddBranches(upTo[b - 1], b - 1, branches[b - 1])
    IN  upTo[NBlocks]

(* linear_cfg: BB_n -> BB_{n+1}. *)
LinearCfg ==
    BuildCfg([b \in Blocks |-> IF b = NBlocks - 1 THEN <<>> ELSE <<b + 1>>])

(* fwdback_cfg: every odd block also branches one block back. *)
FwdbackCfg ==
    BuildCfg([b \in Blocks |-> CASE b = NBlocks - 1 -> <<>>
                                 [] b # NBlocks - 1 /\ b % 2 = 0 -> <<b + 1>>
                                 [] OTHER -> <<b + 1, b - 1>>])

(* manypred_cfg: a third of the blocks also branch to the first block, a *)
(* third to the last one.                                                *)
ManypredCfg ==
    BuildCfg([b \in Blocks |-> CASE b = NBlocks - 1 -> <<>>
                                 [] b # NBlocks - 1 /\ b % 3 = 0 -> <<b + 1>>
                                 [] b # NBlocks - 1 /\ b % 3 = 1 -> <<b + 1, 0>>
                                 [] OTHER -> <<b + 1, NBlocks - 1>>])

(* What every pass relies on: the two lists of every block name existing *)
(* blocks, and describe the same edges.                                  *)
WellFormed(c) ==
    /\ c \in Cfg
    /\ \A b, d \in Blocks : d \in Succs(c, b) <=> b \in Preds(c, d)
=============================================================================
