----------------------------- MODULE MCLiveOut -----------------------------
EXTENDS LiveOut, TLC

Read(r) == print(op_simple(val_reg(r)))
Write(r) == def(r, op_simple(val_imm(1)))

(* What a block does to its registers: nothing, read one, write one, or read *)
(* one and then write it by the same instruction.                            *)
Bodies == {<<>>, <<Read(0)>>, <<Write(0)>>, <<def(0, op_add(val_reg(0), val_reg(1)))>>}

(* How it ends.  The condition of the first is a register of its own. *)
Ends ==
    {<<br_cond(val_reg(1), 1, 2)>>, <<br_cond(val_imm(0), 2, 0)>>,
     <<br_uncond(1)>>, <<br_uncond(2)>>, <<>>}

(* A block that reads what it has written, and one whose register is too *)
(* high for a program of this size.                                      *)
Odd == {<<Write(1), Read(1)>>, <<Read(2), Write(2), br_uncond(2)>>, <<Write(NBlocks)>>}

Choices == Bodies \X Ends
Block(choice) == choice[1] \o choice[2]

ProgramsOfThree ==
    {(0 :> Block(x)) @@ (1 :> Block(y)) @@ (2 :> Block(z)) : x, y, z \in Choices}

MCPrograms ==
    ProgramsOfThree
        \union {[p EXCEPT ![b] = o] : p \in {(0 :> Block(x)) @@ (1 :> Block(x)) @@ (2 :> Block(x)) : x \in Choices},
                                      b \in Blocks, o \in Odd}

MCCfgs == {CfgOf(p) : p \in MCPrograms}
=============================================================================
