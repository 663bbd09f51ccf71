------------------------------- MODULE MCLVN -------------------------------
EXTENDS LVNValues

R(r) == val_reg(r)
Sum(reg, a, b) == def(reg, op_add(a, b))
Move(reg, a) == def(reg, op_simple(a))

(* Sums of the same registers into three of them, one with an immediate, and *)
(* moves that overwrite their operands or their results.                     *)
Insts ==
    {Sum(r, R(0), R(1)) : r \in 0 .. 2}
        \union {Sum(2, R(1), R(0)), Sum(1, R(0), val_imm(1)), Sum(0, R(2), R(1))}
        \union {Move(2, R(0)), Move(1, R(2)), Move(0, val_imm(1))}

(* The block after it, for which the tables must be empty again. *)
NextBlocks ==
    {<<Sum(1, R(0), R(2)), print(op_simple(R(1))), Sum(2, R(0), R(1)), Sum(0, R(0), R(1))>>,
     <<Move(2, R(0)), Sum(1, R(2), R(2)), Sum(0, R(2), R(0)), br_uncond(0)>>}

MCRegisters == 0 .. 2
MCPrograms == {<<block, next>> : block \in [1 .. 4 -> Insts], next \in NextBlocks}
=============================================================================
