-------------------------------- MODULE LVN --------------------------------
(***************************************************************************)
(* Local value numbering, src/local_value_numbering/lvn.h, as              *)
(* apply_lvn.cpp runs it: block by block, with one object that is cleared  *)
(* after each.  Every value gets a number, two values the same one if they *)
(* are known to be equal, and an addition whose operands have been added   *)
(* before is replaced by a copy of a value that has the number of the sum. *)
(***************************************************************************)
EXTENDS IR

CONSTANT Programs   \* each the sequence of the instructions of its blocks

ASSUME LvnProgramsAssumption == Programs \subseteq Seq(Seq(Instruction))

VARIABLES
    bbs,            \* the program, rewritten in place
    bb,             \* the block that apply is called for
    n,              \* the instruction in it
    lvn             \* [number_for_value, number_for_add, counter], a struct LVN

lvnVars == <<bbs, bb, n, lvn>>

Empty == [number_for_value |-> <<>>, number_for_add |-> <<>>, counter |-> 0]

(* The first entry of a table that meets a condition is the one the loops *)
(* over the tables stop at.                                               *)
FirstEntry(table, Test(_)) ==
    CHOOSE k \in 1 .. Len(table) : Test(table[k]) /\ \A m \in 1 .. k - 1 : ~Test(table[m])

(* Mutant: the number before it is counted up. *)
LastNumber(l) == l.counter
FreshNumber(l) == l.counter + 1

HasNumber(l, val) ==
    \E k \in 1 .. Len(l.number_for_value) : l.number_for_value[k].val = val

EntryOf(l, val) == FirstEntry(l.number_for_value, LAMBDA e : e.val = val)
NumberOf(l, val) == l.number_for_value[EntryOf(l, val)].num

(* get_number_for_value_or_create: what it leaves behind. *)
WithNumber(l, val) ==
    IF HasNumber(l, val) THEN l
    ELSE [l EXCEPT !.number_for_value = Append(@, [val |-> val, num |-> FreshNumber(l)]),
                   !.counter = @ + 1]

set_number_for_value_or_create(l, val, num) ==
    IF HasNumber(l, val) THEN [l EXCEPT !.number_for_value[EntryOf(l, val)].num = num]
    ELSE [l EXCEPT !.number_for_value = Append(@, [val |-> val, num |-> num])]

get_value_for_number(l, num) ==
    l.number_for_value[FirstEntry(l.number_for_value, LAMBDA e : e.num = num)].val

(* Mutant: additions are told apart by their first operand only. *)
SameFirst(a, lnum, rnum) == a.lnum = lnum
SameAdd(a, lnum, rnum) == a.lnum = lnum /\ a.rnum = rnum

HasAdd(l, lnum, rnum) ==
    \E k \in 1 .. Len(l.number_for_add) : SameAdd(l.number_for_add[k], lnum, rnum)

AddNumberOf(l, lnum, rnum) ==
    l.number_for_add[FirstEntry(l.number_for_add, LAMBDA a : SameAdd(a, lnum, rnum))].num

WithAdd(l, lnum, rnum) ==
    [l EXCEPT !.number_for_add = Append(@, [lnum |-> lnum, rnum |-> rnum, num |-> FreshNumber(l)]),
              !.counter = @ + 1]

(* Mutant: the additions of the last block are kept. *)
ClearedValues(l) == [Empty EXCEPT !.number_for_add = l.number_for_add]
Cleared(l) == Empty

-----------------------------------------------------------------------------

LvnInit ==
    /\ bbs \in Programs
    /\ bb = 1
    /\ n = 1
    /\ lvn = Empty

HasInst == bb <= Len(bbs) /\ n <= Len(bbs[bb])
Inst == bbs[bb][n]
IsAdd == HasInst /\ Inst.kind = "DEF" /\ Inst.op.kind = "OP_ADD"
IsCopy == HasInst /\ Inst.kind = "DEF" /\ Inst.op.kind = "OP_SIMPLE"

(* op_add numbers both operands, then looks the pair up. *)
Operated == WithNumber(WithNumber(lvn, Inst.op.lhs), Inst.op.rhs)
Lnum == NumberOf(Operated, Inst.op.lhs)
Rnum == NumberOf(Operated, Inst.op.rhs)

NewAdd ==
    /\ IsAdd
    /\ ~HasAdd(Operated, Lnum, Rnum)
    /\ lvn' = set_number_for_value_or_create(
                  WithAdd(Operated, Lnum, Rnum), val_reg(Inst.reg), FreshNumber(Operated))
    /\ n' = n + 1
    /\ UNCHANGED <<bbs, bb>>

(* The sum is known.  The register is given its number before a value with *)
(* that number is looked for, so it may be found itself.                   *)
RepeatedAdd ==
    /\ IsAdd
    /\ HasAdd(Operated, Lnum, Rnum)
    /\ LET num == AddNumberOf(Operated, Lnum, Rnum)
       IN  /\ lvn' = set_number_for_value_or_create(Operated, val_reg(Inst.reg), num)
           /\ bbs' = [bbs EXCEPT ![bb][n].op = op_simple(get_value_for_number(lvn', num))]
    /\ n' = n + 1
    /\ UNCHANGED bb

Copy ==
    /\ IsCopy
    /\ LET numbered == WithNumber(lvn, Inst.op.lhs)
       IN  lvn' = set_number_for_value_or_create(
                      numbered, val_reg(Inst.reg), NumberOf(numbered, Inst.op.lhs))
    /\ n' = n + 1
    /\ UNCHANGED <<bbs, bb>>

(* Instructions that define nothing are passed over. *)
SkipInst ==
    /\ HasInst
    /\ Inst.kind # "DEF"
    /\ n' = n + 1
    /\ UNCHANGED <<bbs, bb, lvn>>

(* apply is over: main clears the tables and goes on to the next block. *)
NextBlock ==
    /\ bb <= Len(bbs)
    /\ n > Len(bbs[bb])
    /\ lvn' = Cleared(lvn)
    /\ bb' = bb + 1
    /\ n' = 1
    /\ UNCHANGED bbs

LvnNext == NewAdd \/ RepeatedAdd \/ Copy \/ SkipInst \/ NextBlock

LvnSpec == LvnInit /\ [][LvnNext]_lvnVars

(* Every number was handed out by the counter, and no value has two. *)
LvnTypeOK ==
    /\ bbs \in Seq(Seq(Instruction))
    /\ bb \in 1 .. Len(bbs) + 1
    /\ n \in Nat \ {0}
    /\ lvn.number_for_value \in Seq([val : Value, num : 1 .. lvn.counter])
    /\ lvn.number_for_add \in Seq([lnum : 1 .. lvn.counter, rnum : 1 .. lvn.counter, num : 1 .. lvn.counter])
    /\ lvn.counter \in Nat
    /\ \A j, k \in 1 .. Len(lvn.number_for_value) :
          lvn.number_for_value[j].val = lvn.number_for_value[k].val => j = k
=============================================================================
