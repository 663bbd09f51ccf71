----------------------------- MODULE LVNValues -----------------------------
(***************************************************************************)
(* What value numbering means: the block as it was and the block as it is  *)
(* rewritten are executed side by side, on registers with unknown          *)
(* contents.  `before` and `after` are history variables; the code has     *)
(* nothing of the kind.                                                    *)
(***************************************************************************)
EXTENDS LVN

CONSTANT Registers  \* those the programs name

ASSUME RegistersAssumption ==
    /\ Registers \subseteq Nat
    /\ \A p \in Programs : \A b \in 1 .. Len(p) : \A k \in 1 .. Len(p[b]) :
          RegsRead(p[b][k]) \union RegsWritten(p[b][k]) \subseteq Registers

VARIABLES before, after     \* register -> what it holds

valuesVars == <<lvnVars, before, after>>

(* What is known of a value: <<v>> is an immediate or what a register held  *)
(* at the start of the block, <<l, r>> the sum of two such.  Equal terms    *)
(* are equal values whatever the registers held.                            *)
Unknown == [r \in Registers |-> <<val_reg(r)>>]

ValueIn(env, val) == IF val.kind = "VAL_REG" THEN env[val.num] ELSE <<val>>

Result(env, op) ==
    IF op.kind = "OP_ADD" THEN <<ValueIn(env, op.lhs), ValueIn(env, op.rhs)>>
    ELSE ValueIn(env, op.lhs)

Executed(env, inst) ==
    IF inst.kind = "DEF" THEN [env EXCEPT ![inst.reg] = Result(env, inst.op)] ELSE env

ValuesInit ==
    /\ LvnInit
    /\ before = Unknown
    /\ after = Unknown

(* One instruction of both blocks, or the start of the next block. *)
Observe ==
    IF bb' = bb
    THEN /\ before' = Executed(before, bbs[bb][n])
         /\ after' = Executed(after, bbs'[bb][n])
    ELSE /\ before' = Unknown
         /\ after' = Unknown

ValuesNext == LvnNext /\ Observe

ValuesSpec == ValuesInit /\ [][ValuesNext]_valuesVars

-----------------------------------------------------------------------------

Values == lvn.number_for_value

ValuesTypeOK ==
    /\ LvnTypeOK
    /\ DOMAIN before = Registers /\ DOMAIN after = Registers

(* Two values have the same number exactly when they are equal by what the *)
(* block has computed so far: a shared number never claims too much, and   *)
(* no repeated addition is missed, also after registers are overwritten.   *)
NumbersAreValues ==
    \A j, k \in 1 .. Len(Values) :
        Values[j].num = Values[k].num
            <=> ValueIn(before, Values[j].val) = ValueIn(before, Values[k].val)

(* An instruction of the rewritten block copies a register to itself. *)
SelfCopy(inst) ==
    inst.kind = "DEF" /\ inst.op.kind = "OP_SIMPLE" /\ inst.op.lhs = val_reg(inst.reg)

(* The rewritten block computes in every register what the block did, at    *)
(* every instruction up to the first that copies a register to itself.      *)
ValuesKept ==
    (bb <= Len(bbs) /\ \A k \in 1 .. n - 1 : ~SelfCopy(bbs[bb][k])) => after = before

(* get_value_for_number "assert(0)"s that a value with the number of the    *)
(* sum is there to be copied (lvn.h:86-93); what it finds has that value.   *)
RewriteKeepsValues == after = before
=============================================================================
