------------------------------- MODULE Parser -------------------------------
(***************************************************************************)
(* parse_procedure of src/common/parser_ir.h.  The text is a sequence of   *)
(* tokens and comments, as the lexer cuts it; a BAD item is a character or *)
(* a word that the lexer stops the program at.  Each step looks at the     *)
(* current token once.  Every error ends the program.                      *)
(***************************************************************************)
EXTENDS Cfg, IR, InstList, SequencesExt, FiniteSetsExt

CONSTANTS
    Texts,
    INT_MAX     \* of the int that scan_int computes in, 2^31 - 1 in the code

ASSUME IntMaxAssumption == INT_MAX \in Nat

(* An item's val is the number that the digits of a label, register or *)
(* literal stand for, and the number of colons in a comment.           *)
Kinds == {"BR", "COMMA", "COLON", "INTLIT", "LARROW", "LBL", "NL", "PLUS", "PRINT",
          "REG", "COMMENT", "BAD"}

Item == [kind : Kinds, val : Nat]

(* count_bbs, on the text from item k on: all colons, of comments as well. *)
Colons(item) == CASE item.kind = "COLON" -> 1
                  [] item.kind = "COMMENT" -> item.val
                  [] item.kind \notin {"COLON", "COMMENT"} -> 0

count_bbs(t, k) ==
    LET from[m \in k .. Len(t) + 1] == IF m = Len(t) + 1 THEN 0 ELSE Colons(t[m]) + from[m + 1]
    IN  from[k]

(* scan_int, one digit after the other: the sum wraps, as it does in the    *)
(* unoptimized builds of the scripts, and the program stops if it is then   *)
(* negative.  The first digits of the number are the digits of num \div 10. *)
Overflow == -1

Wrapped(v) == v % (2 * (INT_MAX + 1))

(* The sum with one digit more, unless the program has stopped. *)
WithDigit(val, digit) ==
    LET sum == Wrapped(val * 10 + digit)
    IN  IF val = Overflow \/ sum > INT_MAX THEN Overflow ELSE sum

scan_int(num) ==
    LET val[p \in Nat] == IF p = 0 THEN 0 ELSE WithDigit(val[p \div 10], p % 10)
    IN  val[num]

HasNumber(item) == item.kind \in {"LBL", "REG", "INTLIT"}
Bad == [kind |-> "BAD", val |-> 0]

Scanned(item) ==
    CASE ~HasNumber(item) -> item
      [] HasNumber(item) /\ scan_int(item.val) = Overflow -> Bad
      [] HasNumber(item) /\ scan_int(item.val) # Overflow -> [item EXCEPT !.val = scan_int(@)]

(* next_token passes over comments. *)
TokenAt(t, k) ==
    CHOOSE m \in k .. Len(t) + 1 :
        /\ \A p \in k .. m - 1 : t[p].kind = "COMMENT"
        /\ m <= Len(t) => t[m].kind # "COMMENT"

EOI == [kind |-> "EOI", val |-> 0]
Token(t, k) == IF TokenAt(t, k) > Len(t) THEN EOI ELSE Scanned(t[TokenAt(t, k)])
After(t, k) == IF TokenAt(t, k) > Len(t) THEN Len(t) + 1 ELSE TokenAt(t, k) + 1

(* The program stops at once if there are no blocks; the texts are those in *)
(* which NBlocks are counted, after the first token.                        *)
ASSUME TextsAssumption ==
    \A t \in Texts : t \in Seq(Item) /\ count_bbs(t, After(t, 1)) = NBlocks

VARIABLES
    text,
    input,          \* index of the first item not yet read
    token,          \* the current token
    pc,             \* what is expected next
    inst,           \* the instruction being read
    curr_bb,        \* number of the next block
    max_reg_used,
    mem, insts,     \* the nodes, and per block the list of its instructions
    cfg             \* the edges

lexVars == <<text, input, token>>
blockVars == <<curr_bb, max_reg_used, mem, insts, cfg>>
parserVars == <<lexVars, pc, inst, blockVars>>

NoInst == [kind |-> "none"]

ParserInit ==
    /\ text \in Texts
    /\ token = Token(text, 1)
    /\ input = After(text, 1)
    /\ pc = IF token.kind = "BAD" THEN "error" ELSE "top"
    /\ inst = NoInst
    /\ curr_bb = 0
    /\ max_reg_used = 0
    /\ mem = <<>>
    /\ insts = [b \in Blocks |-> NewList]
    /\ cfg = NewCfg

(* next_token, and on to the next step unless the lexer gives up. *)
Advance(step) ==
    /\ token' = Token(text, input)
    /\ input' = After(text, input)
    /\ pc' = IF token'.kind = "BAD" THEN "error" ELSE step
    /\ UNCHANGED text

(* A step that looks at the token and does not take it. *)
Stay(step) == pc' = step /\ UNCHANGED lexVars

is_token(kind) == token.kind = kind
StartsValue == token.kind \in {"REG", "INTLIT"}
TokenValue == IF is_token("REG") THEN val_reg(token.val) ELSE val_imm(token.val)

(* expect_token. *)
Expect(here, kind, step) ==
    /\ pc = here
    /\ IF is_token(kind) THEN Advance(step) ELSE Stay("error")
    /\ UNCHANGED <<inst, blockVars>>

(* The outer loop of parse_procedure: anything but a label or a newline ends *)
(* it without an error; newlines are passed over, and a block must follow.   *)
Top ==
    /\ pc = "top"
    /\ Stay(IF token.kind \in {"LBL", "NL"} THEN "blank" ELSE "done")
    /\ UNCHANGED <<inst, blockVars>>

SkipNewline ==
    /\ pc = "blank"
    /\ is_token("NL")
    /\ Advance("blank")
    /\ UNCHANGED <<inst, blockVars>>

BeginBlock ==
    /\ pc = "blank"
    /\ ~is_token("NL")
    /\ Stay("label")
    /\ UNCHANGED <<inst, blockVars>>

(* Mutant: the number of the label is not looked at. *)
AnyNumber(num) == TRUE
IsNext(num) == num = curr_bb

(* parse_bb. *)
BlockLabel ==
    /\ pc = "label"
    /\ IF is_token("LBL") /\ IsNext(token.val)
       THEN Advance("colon") /\ curr_bb' = curr_bb + 1
       ELSE Stay("error") /\ UNCHANGED curr_bb
    /\ UNCHANGED <<inst, max_reg_used, mem, insts, cfg>>

BlockColon == Expect("colon", "COLON", "newline")
BlockNewline == Expect("newline", "NL", "body")

(* The block whose instructions are read. *)
bb_num == curr_bb - 1

(* parse_instruction takes the first token and goes by its kind. *)
BeginDef ==
    /\ pc = "body"
    /\ is_token("REG")
    /\ inst' = [kind |-> "DEF", reg |-> token.val]
    /\ Advance("arrow")
    /\ UNCHANGED blockVars

BeginPrint ==
    /\ pc = "body"
    /\ is_token("PRINT")
    /\ inst' = [kind |-> "PRINT"]
    /\ Advance("lhs")
    /\ UNCHANGED blockVars

BeginBranch ==
    /\ pc = "body"
    /\ is_token("BR")
    /\ Advance("target")
    /\ UNCHANGED <<inst, blockVars>>

EndBlock ==
    /\ pc = "body"
    /\ token.kind \notin {"REG", "PRINT", "BR"}
    /\ Stay("top")
    /\ UNCHANGED <<inst, blockVars>>

Arrow == Expect("arrow", "LARROW", "lhs")

(* inst with its operation. *)
WithOp(op) ==
    IF inst.kind = "DEF" THEN def(inst.reg, op) ELSE print(op)

(* parse_operation: a value, and then a newline, which is left alone, or a *)
(* plus and another value, which PRINT does not allow.                     *)
Lhs ==
    /\ pc = "lhs"
    /\ IF StartsValue
       THEN Advance("operator") /\ inst' = WithOp(op_simple(TokenValue))
       ELSE Stay("error") /\ UNCHANGED inst
    /\ UNCHANGED blockVars

Operator ==
    /\ pc = "operator"
    /\ CASE is_token("PLUS") -> Advance("rhs")
         [] is_token("NL") -> Stay("end")
         [] token.kind \notin {"PLUS", "NL"} -> Stay("error")
    /\ UNCHANGED <<inst, blockVars>>

Rhs ==
    /\ pc = "rhs"
    /\ IF StartsValue /\ inst.kind = "DEF"
       THEN Advance("end") /\ inst' = WithOp(op_add(inst.op.lhs, TokenValue))
       ELSE Stay("error") /\ UNCHANGED inst
    /\ UNCHANGED blockVars

(* A label, or a value and two labels.  add_edge asserts that the block *)
(* exists.                                                              *)
Target ==
    /\ pc = "target"
    /\ \/ /\ is_token("LBL") /\ EdgeAllowed(bb_num, token.val)
          /\ cfg' = AddEdge(cfg, bb_num, token.val)
          /\ inst' = br_uncond(token.val)
          /\ Advance("end")
       \/ /\ StartsValue
          /\ inst' = [cond_val |-> TokenValue]
          /\ Advance("comma1")
          /\ UNCHANGED cfg
       \/ /\ ~StartsValue /\ ~(is_token("LBL") /\ EdgeAllowed(bb_num, token.val))
          /\ Stay("error")
          /\ UNCHANGED <<inst, cfg>>
    /\ UNCHANGED <<curr_bb, max_reg_used, mem, insts>>

FirstComma == Expect("comma1", "COMMA", "then")

ThenLabel ==
    /\ pc = "then"
    /\ IF is_token("LBL")
       THEN Advance("comma2") /\ inst' = [cond_val |-> inst.cond_val, then |-> token.val]
       ELSE Stay("error") /\ UNCHANGED inst
    /\ UNCHANGED blockVars

SecondComma == Expect("comma2", "COMMA", "else")

(* Mutant: the edges are added in the other order. *)
ElseFirst(c, source, then, els) == AddEdge(AddEdge(c, source, els), source, then)
BothEdges(c, source, then, els) == AddEdge(AddEdge(c, source, then), source, els)

ElseLabel ==
    /\ pc = "else"
    /\ IF is_token("LBL") /\ EdgeAllowed(bb_num, inst.then) /\ EdgeAllowed(bb_num, token.val)
       THEN /\ cfg' = BothEdges(cfg, bb_num, inst.then, token.val)
            /\ inst' = br_cond(inst.cond_val, inst.then, token.val)
            /\ Advance("end")
       ELSE Stay("error") /\ UNCHANGED <<inst, cfg>>
    /\ UNCHANGED <<curr_bb, max_reg_used, mem, insts>>

(* The newline at the end of the instruction; parse_bb puts it in the list. *)
EndInst ==
    /\ pc = "end"
    /\ IF is_token("NL")
       THEN /\ LET new == Append(mem, [NewNode(inst) EXCEPT !.parent = bb_num])
               IN  mem' = Linked(new, insts[bb_num], Len(new))
            /\ insts' = [insts EXCEPT ![bb_num] = ListWith(@, Len(mem'))]
            /\ max_reg_used' = IF inst.kind = "DEF" /\ inst.reg > max_reg_used
                               THEN inst.reg ELSE max_reg_used
            /\ Advance("body")
       ELSE Stay("error") /\ UNCHANGED <<max_reg_used, mem, insts>>
    /\ UNCHANGED <<inst, curr_bb, cfg>>

ParserNext ==
    \/ Top \/ SkipNewline \/ BeginBlock
    \/ BlockLabel \/ BlockColon \/ BlockNewline
    \/ BeginDef \/ BeginPrint \/ BeginBranch \/ EndBlock
    \/ Arrow \/ Lhs \/ Operator \/ Rhs
    \/ Target \/ FirstComma \/ ThenLabel \/ SecondComma \/ ElseLabel
    \/ EndInst

ParserSpec == ParserInit /\ [][ParserNext]_parserVars /\ WF_parserVars(ParserNext)

-----------------------------------------------------------------------------

(* There is a block for every colon counted, so the blocks begun exist from *)
(* the colon on.                                                            *)
ParserTypeOK ==
    /\ curr_bb = NBlocks + 1 => pc \in {"colon", "error"}
    /\ text \in Seq(Item)
    /\ input \in 1 .. Len(text) + 1
    /\ token \in Item \union {EOI}
    /\ pc \in {"top", "blank", "label", "colon", "newline", "body", "arrow", "lhs",
               "operator", "rhs", "target", "comma1", "then", "comma2", "else", "end",
               "done", "error"}
    /\ pc = "end" => inst \in Instruction
    /\ curr_bb \in 0 .. NBlocks + 1
    /\ max_reg_used \in Nat
    /\ WellFormed(cfg)

code == [b \in Blocks |-> InstsOf(mem, insts[b])]

(* The lists are sound at every step: forwards and backwards each shows the *)
(* nodes of its block, in the order in which they were made, and every node *)
(* made is in the list of one block.                                        *)
ListsInOrder ==
    /\ \A b \in Blocks :
        /\ IsLinked(mem, insts[b])
        /\ LET node == NodesOf(mem, insts[b])
           IN  /\ \A k \in 1 .. insts[b].size : mem[node[k]].parent = b
               /\ \A k, m \in 1 .. insts[b].size : k < m => node[k] < node[m]
    /\ \A p \in 1 .. Len(mem) : \E b \in Blocks : p \in Range(NodesOf(mem, insts[b]))

(* Between two instructions the graph has the edges of the branches in the *)
(* lists, and its edge lists have the order that the passes assume.  The   *)
(* program never ends well between an edge and its branch.                 *)
CfgFollowsCode ==
    pc \notin {"end", "error"} => cfg = BuildCfg([b \in Blocks |-> BranchTargets(code[b])])

-----------------------------------------------------------------------------

(* A number up to INT_MAX is read as it is.  Of a larger one, what an int   *)
(* keeps of it is read, unless that is negative for it or for the number    *)
(* that some of its first digits make.                                      *)
FirstDigits(num) ==
    LET from[p \in Nat] == IF p = 0 THEN {} ELSE {p} \union from[p \div 10]
    IN  from[num]
TooLarge(num) == \E p \in FirstDigits(num) : Wrapped(p) > INT_MAX
Delivered(item) ==
    CASE ~HasNumber(item) -> item
      [] HasNumber(item) /\ TooLarge(item.val) -> Bad
      [] HasNumber(item) /\ ~TooLarge(item.val) -> [item EXCEPT !.val = Wrapped(@)]

(* The language, by lines.  Comments are not there, a line is what a newline *)
(* ends, and the rest follows the last newline.                              *)
Tokens(t) ==
    LET kept == SelectSeq(t, LAMBDA item : item.kind # "COMMENT")
    IN  [k \in 1 .. Len(kept) |-> Delivered(kept[k])]

NewlinesOf(s) == {k \in 1 .. Len(s) : s[k].kind = "NL"}
LineEnd(s, n) ==
    CHOOSE k \in NewlinesOf(s) : Cardinality({m \in NewlinesOf(s) : m <= k}) = n
Lines(s) ==
    [n \in 1 .. Cardinality(NewlinesOf(s)) |->
        SubSeq(s, IF n = 1 THEN 1 ELSE LineEnd(s, n - 1) + 1, LineEnd(s, n) - 1)]

Shape(line) == [k \in 1 .. Len(line) |->
                    IF line[k].kind \in {"REG", "INTLIT"} THEN "value" ELSE line[k].kind]
ValueOf(item) == IF item.kind = "REG" THEN val_reg(item.val) ELSE val_imm(item.val)

Blank(line) == line = <<>>
IsLabel(line) == Shape(line) = <<"LBL", "COLON">>

(* The instructions that a line can stand for: one, or none. *)
Reading(line) ==
    CASE Shape(line) = <<"value", "LARROW", "value">> /\ line[1].kind = "REG" ->
             {def(line[1].val, op_simple(ValueOf(line[3])))}
      [] Shape(line) = <<"value", "LARROW", "value", "PLUS", "value">> /\ line[1].kind = "REG" ->
             {def(line[1].val, op_add(ValueOf(line[3]), ValueOf(line[5])))}
      [] Shape(line) = <<"PRINT", "value">> -> {print(op_simple(ValueOf(line[2])))}
      [] Shape(line) = <<"BR", "LBL">> /\ line[2].val \in Blocks -> {br_uncond(line[2].val)}
      [] Shape(line) = <<"BR", "value", "COMMA", "LBL", "COMMA", "LBL">>
             /\ line[4].val \in Blocks /\ line[6].val \in Blocks ->
             {br_cond(ValueOf(line[2]), line[4].val, line[6].val)}
      [] OTHER -> {}

AllLines(s) ==
    LET ended == Lines(s)
    IN  Append(ended, IF ended = <<>> THEN s ELSE SubSeq(s, LineEnd(s, Len(ended)) + 1, Len(s)))

LabelsBefore(lines, n) == Cardinality({m \in 1 .. n - 1 : IsLabel(lines[m])})
AfterBlank(lines, n) == n > 1 /\ Blank(lines[n - 1])

(* Line n is where the parser stops well: it starts with what can start    *)
(* neither a block nor, in a block, an instruction, whatever follows.  The *)
(* end of the input is such a line, but not after an empty one.            *)
StopsAt(lines, n) ==
    /\ ~AfterBlank(lines, n)
    /\ IF Blank(lines[n]) THEN n = Len(lines)
       ELSE /\ lines[n][1].kind \notin {"LBL", "BAD"}
            /\ LabelsBefore(lines, n) > 0 => lines[n][1].kind \notin {"REG", "PRINT", "BR"}

(* A line to read on from: an empty one, the label of the next block, or an *)
(* instruction of a block, which no empty line may precede.                 *)
ReadsOn(lines, n) ==
    /\ n < Len(lines)
    /\ \/ Blank(lines[n])
       \/ IsLabel(lines[n]) /\ lines[n][1].val = LabelsBefore(lines, n)
       \/ Reading(lines[n]) # {} /\ LabelsBefore(lines, n) > 0 /\ ~AfterBlank(lines, n)

EndsOf(lines) ==
    {n \in 1 .. Len(lines) : StopsAt(lines, n) /\ \A m \in 1 .. n - 1 : ReadsOn(lines, m)}

(* The instructions of block b, in lines that end at line n. *)
BlockOf(lines, n, b) ==
    LET ofBlock == {m \in 1 .. n - 1 : Reading(lines[m]) # {} /\ LabelsBefore(lines, m) = b + 1}
        sorted == SetToSortSeq(ofBlock, <)
    IN  [k \in 1 .. Len(sorted) |-> CHOOSE inst_ \in Reading(lines[sorted[k]]) : TRUE]

(* Every text that is in the language is read as the blocks it describes,   *)
(* numbers as an int keeps them, with the highest register written in them, *)
(* and the program stops at any other.                                      *)
ParserEnds ==
    <>LET lines == AllLines(Tokens(text))
      IN  \/ /\ pc = "done"
             /\ \E n \in EndsOf(lines) : code = [b \in Blocks |-> BlockOf(lines, n, b)]
             /\ max_reg_used = Max({0} \union UNION {RegsWritten(mem[p].inst) : p \in 1 .. Len(mem)})
          \/ /\ pc = "error"
             /\ EndsOf(lines) = {}
=============================================================================
