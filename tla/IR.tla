--------------------------------- MODULE IR ---------------------------------
(***************************************************************************)
(* Values, operations and instructions of src/common/cfg.h.  A Value is a  *)
(* number below 2^31 and a kind, which the code packs into the topmost bit *)
(* of a word; here it is a record of both.  The numbers come from the      *)
(* lexer, which delivers none of 2^31 or more, so the assertions of        *)
(* val_imm and val_reg hold.                                               *)
(***************************************************************************)
EXTENDS Integers, Sequences

Value == [kind : {"VAL_IMM", "VAL_REG"}, num : Nat]

val_imm(v) == [kind |-> "VAL_IMM", num |-> v]
val_reg(r) == [kind |-> "VAL_REG", num |-> r]

Operation ==
    [kind : {"OP_SIMPLE"}, lhs : Value] \union [kind : {"OP_ADD"}, lhs : Value, rhs : Value]

op_simple(lhs) == [kind |-> "OP_SIMPLE", lhs |-> lhs]
op_add(lhs, rhs) == [kind |-> "OP_ADD", lhs |-> lhs, rhs |-> rhs]

(* The parser accepts simple operations only after PRINT. *)
Instruction ==
    [kind : {"DEF"}, reg : Nat, op : Operation]
        \union [kind : {"PRINT"}, op : [kind : {"OP_SIMPLE"}, lhs : Value]]
        \union [kind : {"BR_UNCOND"}, uncond_lbl : Nat]
        \union [kind : {"BR_COND"}, cond_val : Value, then : Nat, els : Nat]

def(reg, op) == [kind |-> "DEF", reg |-> reg, op |-> op]
print(op) == [kind |-> "PRINT", op |-> op]
br_uncond(lbl) == [kind |-> "BR_UNCOND", uncond_lbl |-> lbl]
br_cond(val, lbl1, lbl2) ==
    [kind |-> "BR_COND", cond_val |-> val, then |-> lbl1, els |-> lbl2]

-----------------------------------------------------------------------------

Operands(op) == IF op.kind = "OP_ADD" THEN {op.lhs, op.rhs} ELSE {op.lhs}

ValuesRead(inst) ==
    CASE inst.kind \in {"DEF", "PRINT"} -> Operands(inst.op)
      [] inst.kind = "BR_COND" -> {inst.cond_val}
      [] inst.kind = "BR_UNCOND" -> {}

(* The registers an instruction reads and the one it writes. *)
RegsRead(inst) == {v.num : v \in {w \in ValuesRead(inst) : w.kind = "VAL_REG"}}
RegsWritten(inst) == IF inst.kind = "DEF" THEN {inst.reg} ELSE {}

(* The edges an instruction makes the parser add, in its order. *)
Targets(inst) ==
    CASE inst.kind = "BR_UNCOND" -> <<inst.uncond_lbl>>
      [] inst.kind = "BR_COND" -> <<inst.then, inst.els>>
      [] inst.kind \in {"DEF", "PRINT"} -> <<>>

BranchTargets(insts) ==
    LET upTo[k \in 0 .. Len(insts)] ==
            IF k = 0 THEN <<>> ELSE upTo[k - 1] \o Targets(insts[k])
    IN  upTo[Len(insts)]
=============================================================================
