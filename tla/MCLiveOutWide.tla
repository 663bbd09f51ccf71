--------------------------- MODULE MCLiveOutWide ---------------------------
(***************************************************************************)
(* Three chains of blocks, with words of four bits and an int of two:      *)
(* there are more blocks than a word has bits.                             *)
(***************************************************************************)
EXTENDS LiveOut

Write(r) == def(r, op_simple(val_imm(1)))
Read(r) == print(op_simple(val_reg(r)))
Goto(b) == br_uncond(b + 1)

(* The first block writes the highest register there can be and another in *)
(* the upper half of the word, the last block reads the latter, and the    *)
(* second writes the register that the sign bit of the int stands for.     *)
High == INT_SIZE + 1

LinkOfHigh(b) ==
    CASE b = Entry -> <<Write(NBlocks - 1), Write(High), Goto(b)>>
      [] b = 1 -> <<Write(INT_SIZE - 1), Goto(b)>>
      [] b = NBlocks - 1 -> <<Read(High)>>
      [] b \notin {Entry, 1, NBlocks - 1} -> <<Goto(b)>>

(* Few registers, so that their sets have fewer words than the sets of the *)
(* first pass: the second block writes the register that the last reads.   *)
LinkOfFew(b) ==
    CASE b = 1 -> <<Write(0), Goto(b)>>
      [] b = NBlocks - 1 -> <<Read(0)>>
      [] b \notin {1, NBlocks - 1} -> <<Goto(b)>>

(* Nothing is written: the last block reads the register after the only *)
(* one that the sets of the sweeps are made for.                        *)
LinkOfNone(b) == IF b = NBlocks - 1 THEN <<Read(1)>> ELSE <<Goto(b)>>

MCPrograms ==
    {[b \in Blocks |-> LinkOfHigh(b)], [b \in Blocks |-> LinkOfFew(b)],
     [b \in Blocks |-> LinkOfNone(b)]}
MCCfgs == {CfgOf(p) : p \in MCPrograms}
=============================================================================
