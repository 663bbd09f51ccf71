------------------------------ MODULE Dataflow ------------------------------
(***************************************************************************)
(* compute_dominators of src/dominance/dataflow.h: the dominator set of    *)
(* every block by iteration over the dataflow equation, in reverse         *)
(* postorder, until a sweep changes nothing.                               *)
(*                                                                         *)
(* A bitset of cfg.size() bits is a subset of Bits.  light_all also sets   *)
(* the bits of the last word beyond them; no block is given one of those,  *)
(* nor the bit NBlocks - 1, so each of them is in the same sets as that    *)
(* bit at every step, and they are left out.                               *)
(***************************************************************************)
EXTENDS Postorder

VARIABLES
    dominators,     \* block -> BitSet
    i,              \* position in the sweep, from 0
    change          \* this sweep changed a set

flowVars == <<dominators, i, change>>
dataflowVars == <<postorderVars, flowVars>>

(* The bits are numbered like the blocks. *)
Bits == Blocks

FlowInit ==
    /\ PostorderInit
    /\ dominators = [b \in Blocks |-> {}]
    /\ i = 0
    /\ change = FALSE

Traverse == PostorderNext /\ UNCHANGED flowVars

(* The two assertions between the traversal and the sweeps. *)
OrderComplete ==
    /\ Len(postorder) = NBlocks
    /\ postorder[NBlocks] = Entry

(* Mutant: a sweep starts at the entry. *)
SweepFromEntry == NBlocks - 1
SweepStart == NBlocks - 2

(* Mutant: the sets start empty. *)
DarkSet(b) == IF b = Entry THEN {Entry} ELSE {}
StartSet(b) == IF b = Entry THEN {Entry} ELSE Bits

(* The entry is dominated by itself, every other block, to begin with, by *)
(* all blocks.                                                            *)
StartFlow ==
    /\ pc = "ordered"
    /\ OrderComplete
    /\ dominators' = [b \in Blocks |-> StartSet(b)]
    /\ i' = SweepStart
    /\ change' = FALSE
    /\ pc' = "flow"
    /\ UNCHANGED <<cfg, dfsVars, postorder>>

AssertFails ==
    /\ pc = "ordered"
    /\ ~OrderComplete
    /\ pc' = "aborted"
    /\ UNCHANGED <<cfg, dfsVars, postorder, flowVars>>

(* The block at position k of the sweep. *)
BlockAt(k) == postorder[k + 1]

(* The bit that stands for "the block itself": the code adds its position *)
(* in the postorder, not its number.                                      *)
OwnBit(k) == k

(* The value of temp for the block at position k: the bits common to the *)
(* sets of its predecessors, and its own.                                *)
Transfer(D, k) ==
    {x \in Bits : \A u \in Preds(cfg, BlockAt(k)) : x \in D[u]} \union {OwnBit(k)}

VisitBlock ==
    /\ pc = "flow"
    /\ i >= 0
    /\ dominators' = [dominators EXCEPT ![BlockAt(i)] = Transfer(dominators, i)]
    /\ change' = (change \/ Transfer(dominators, i) # dominators[BlockAt(i)])
    /\ i' = i - 1
    /\ UNCHANGED postorderVars

(* Mutant: the flag is not reset for the next sweep. *)
StaleChange == change
FreshChange == FALSE

(* Mutant: one sweep is taken to be enough. *)
SettledAtOnce == TRUE
Settled == ~change

SweepAgain ==
    /\ pc = "flow"
    /\ i = -1
    /\ ~Settled
    /\ change' = FreshChange
    /\ i' = SweepStart
    /\ UNCHANGED <<postorderVars, dominators>>

EndFlow ==
    /\ pc = "flow"
    /\ i = -1
    /\ Settled
    /\ pc' = "solved"
    /\ UNCHANGED <<cfg, dfsVars, postorder, flowVars>>

FlowNext ==
    \/ Traverse
    \/ StartFlow \/ AssertFails
    \/ VisitBlock
    \/ SweepAgain \/ EndFlow

FlowSpec == FlowInit /\ [][FlowNext]_dataflowVars /\ WF_dataflowVars(FlowNext)

-----------------------------------------------------------------------------

FlowTypeOK ==
    /\ PostorderTypeOK
    /\ dominators \in [Blocks -> SUBSET Bits]
    /\ i \in -1 .. NBlocks - 2
    /\ change \in BOOLEAN

(* What bit x means in a solution: bit 0 is in every set, because the set  *)
(* of the entry is {0}; the last bit in none, because no sweep visits the  *)
(* entry; any other bit stands for the block at that position.             *)
BitDominates(x, b) ==
    \/ x = 0
    \/ /\ x # NBlocks - 1
       /\ Dominates(cfg, BlockAt(x), b)

(* The sets that the sweeps end with are, read through that numbering, the *)
(* dominators of each block: nothing missing and nothing too much.         *)
SolutionExact ==
    pc = "solved" =>
        \A b \in Blocks \ {Entry} : dominators[b] = {x \in Bits : BitDominates(x, b)}

(* While the sweeps run no bit is dropped that the solution has: the       *)
(* iteration comes down to the greatest solution and not below it.         *)
SolutionKept ==
    pc = "flow" =>
        \A b \in Blocks \ {Entry} : {x \in Bits : BitDominates(x, b)} \subseteq dominators[b]

(* The program ends, with a solution or at the assertion, and it is the *)
(* assertion exactly when a block is unreachable.                       *)
FlowEnds ==
    <>IF Reachable(cfg) = Blocks THEN pc = "solved" ELSE pc = "aborted"
=============================================================================
