--------------------------- MODULE LiveOutProofs ---------------------------
(***************************************************************************)
(* liveout_info on every program.  The first pass gathers exactly what     *)
(* each block reads first and writes.  With no more blocks than an int has *)
(* bits, the sets the sweeps end with are the live registers of each       *)
(* block: nothing else is ever added (SetsSound), and when a sweep changes *)
(* nothing every set takes in what its successors pass (Stable), so that   *)
(* the blocks that have a register are closed backwards.                   *)
(***************************************************************************)
EXTENDS LiveOut, PostorderProofs

(* The traversal has not begun; after a failed assertion it never does. *)
Gathering == pc \in {"gather", "aborted"}

(* The register numbers that pass the assertions of the first pass. *)
Fitting == 0 .. NBlocks - 1

(* What the first k instructions of block b write and read first, and the *)
(* sets of b when those instructions have been looked at.                 *)
WritesBy(b, r, k) == \E m \in 1 .. k : r \in RegsWritten(code[b][m])

ReadsFirstBy(b, r, k) ==
    \E m \in 1 .. k :
        /\ r \in RegsRead(code[b][m])
        /\ \A j \in 1 .. m - 1 : r \notin RegsWritten(code[b][j])

GatheredBy(b, k) ==
    /\ UEVar[b].bits = {r \in Fitting : ReadsFirstBy(b, r, k)}
    /\ VarKill[b].bits = {r \in Fitting : WritesBy(b, r, k)}
    /\ \A m \in 1 .. k : RegsRead(code[b][m]) \union RegsWritten(code[b][m]) \subseteq Fitting

(* How many instructions of block b the first pass has looked at. *)
LookedAt(b) == IF b < i THEN Len(code[b]) ELSE IF b = i THEN n - 1 ELSE 0

GatherInv ==
    /\ pc = "gather" => /\ n <= Len(code[i]) + 1
                        /\ \A b \in Blocks : GatheredBy(b, LookedAt(b))
    /\ ~Gathering => \A b \in Blocks : GatheredBy(b, Len(code[b]))

(* The order comes after the first pass. *)
OrderInv ==
    /\ Gathering => cfg \in Cfgs /\ TraversalInit
    /\ ~Gathering => PostorderInv

(* temp2 is of the size of the sets of the second pass, whatever was copied. *)
Temp2Kept == temp2 = [max_elems |-> num_registers, bits |-> temp2.bits]

BaseInv ==
    /\ LiveTypeOK
    /\ Temp2Kept
    /\ OrderInv
    /\ GatherInv

-----------------------------------------------------------------------------

(* Registers are numbered from 0. *)
LEMMA InstructionRegs ==
    ASSUME NEW inst \in Instruction
    PROVE  RegsRead(inst) \subseteq Nat /\ RegsWritten(inst) \subseteq Nat
<1>1. RegsWritten(inst) \subseteq Nat
  BY DEF RegsWritten, Instruction
<1>2. ValuesRead(inst) \subseteq Value
  <2>1. CASE inst.kind = "DEF"
    BY <2>1 DEF ValuesRead, Instruction, Operation, Operands
  <2>2. CASE inst.kind = "PRINT"
    BY <2>2 DEF ValuesRead, Instruction, Operands
  <2>3. CASE inst.kind = "BR_COND"
    BY <2>3 DEF ValuesRead, Instruction
  <2>4. CASE inst.kind = "BR_UNCOND"
    BY <2>4 DEF ValuesRead, Instruction
  <2> QED
    BY <2>1, <2>2, <2>3, <2>4 DEF Instruction
<1> QED
  BY <1>1, <1>2 DEF RegsRead, Value

(* One more instruction. *)
LEMMA OneMoreInst ==
    ASSUME NEW b, NEW k \in Nat \ {0}, GatheredBy(b, k - 1),
           NEW inst, inst = code[b][k],
           RegsRead(inst) \union RegsWritten(inst) \subseteq Fitting
    PROVE  /\ {r \in Fitting : ReadsFirstBy(b, r, k)}
                  = UEVar[b].bits \union ExposedBy(inst, VarKill[b].bits)
           /\ {r \in Fitting : WritesBy(b, r, k)} = VarKill[b].bits \union RegsWritten(inst)
           /\ \A m \in 1 .. k : RegsRead(code[b][m]) \union RegsWritten(code[b][m]) \subseteq Fitting
<1>1. 1 .. k = 1 .. (k - 1) \union {k} /\ k \notin 1 .. (k - 1)
  OBVIOUS
<1>2. \A r : WritesBy(b, r, k) <=> WritesBy(b, r, k - 1) \/ r \in RegsWritten(inst)
  BY <1>1 DEF WritesBy
<1>3. \A r : ReadsFirstBy(b, r, k)
                <=> ReadsFirstBy(b, r, k - 1) \/ (r \in RegsRead(inst) /\ ~WritesBy(b, r, k - 1))
  BY <1>1 DEF WritesBy, ReadsFirstBy
<1>4. {r \in Fitting : WritesBy(b, r, k)} = VarKill[b].bits \union RegsWritten(inst)
  BY <1>2 DEF GatheredBy
<1>5. {r \in Fitting : ReadsFirstBy(b, r, k)}
          = UEVar[b].bits \union ExposedBy(inst, VarKill[b].bits)
  BY <1>3 DEF GatheredBy, ExposedBy
<1> QED
  BY <1>1, <1>4, <1>5 DEF GatheredBy

(* A set has a size and bits, and may be given other bits. *)
LEMMA IsSet ==
    ASSUME NEW size, NEW set \in SetsOf(size)
    PROVE  /\ set = [max_elems |-> size, bits |-> set.bits] /\ set.max_elems = size
           /\ set.bits \subseteq Fitting
BY DEF SetsOf, Fitting

LEMMA WithBits ==
    ASSUME NEW size, NEW set, set = [max_elems |-> size, bits |-> set.bits], NEW new
    PROVE  [set EXCEPT !.bits = new] = [max_elems |-> size, bits |-> new]
<1>1. \A b : [[max_elems |-> size, bits |-> b] EXCEPT !.bits = new]
                = [max_elems |-> size, bits |-> new]
  OBVIOUS
<1> QED
  BY <1>1, Zenon

(* The sizes of sets in words: one with few enough elements has one word. *)
LEMMA OneWord ==
    ASSUME NEW sz \in Nat, sz >= 1, sz <= INT_SIZE
    PROVE  num_words(sz) = 1
<1>1. WORD_SIZE \in Nat /\ sz <= WORD_SIZE /\ WORD_SIZE > 0
  BY SizesAssumption
<1>2. sz + WORD_SIZE - 1 >= WORD_SIZE /\ sz + WORD_SIZE - 1 < 2 * WORD_SIZE
  BY <1>1
<1>3. ASSUME NEW a \in Nat, NEW w \in Nat, w > 0, a >= w, a < 2 * w PROVE a \div w = 1
  BY <1>3
<1> QED
  BY <1>1, <1>2, <1>3 DEF num_words

(* Below the sign bit bset64_not complements. *)
LEMMA NotBelowSign ==
    ASSUME NEW x \in Nat, x < INT_SIZE
    PROVE  NotSource(x) = x
<1>1. WORD_SIZE \in Nat /\ WORD_SIZE > 0 /\ x < WORD_SIZE
  BY SizesAssumption
<1>2. ASSUME NEW a \in Nat, NEW w \in Nat, a < w PROVE a % w = a
  BY <1>2
<1> QED
  BY <1>1, <1>2 DEF NotSource

-----------------------------------------------------------------------------

LEMMA SameRegisters == code' = code => num_registers' = num_registers
BY DEF num_registers, max_register, WrittenIn

LEMMA Init_Base == LiveInit => BaseInv
<1> SUFFICES ASSUME LiveInit PROVE BaseInv
  OBVIOUS
<1>1. /\ code \in Programs /\ cfg = CfgOf(code) /\ pc = "gather" /\ i = 0 /\ n = 1
      /\ changed = FALSE /\ TraversalInit
      /\ code \in [Blocks -> Seq(Instruction)] /\ cfg \in Cfgs
  BY ProgramsAssumption DEF LiveInit
<1>2. PostorderTypeOK
  BY <1>1, EntryIsBlock, CfgsAssumption DEF TraversalInit, PostorderTypeOK
<1>3. /\ UEVar \in [Blocks -> SetsOf(NBlocks)] /\ VarKill \in [Blocks -> SetsOf(NBlocks)]
      /\ LiveOut \in [Blocks -> SetsOf(num_registers)]
      /\ temp1 \in SetsOf(num_registers)
      /\ temp2 = [max_elems |-> num_registers, bits |-> {}]
  BY DEF LiveInit, EmptySet, SetsOf
<1>4. i \in Blocks
  BY <1>1, EntryIsBlock DEF Entry
<1>5. LiveTypeOK
  BY <1>1, <1>2, <1>3, <1>4 DEF LiveTypeOK
<1>6. Temp2Kept
  BY <1>3 DEF Temp2Kept
<1>7. OrderInv
  BY <1>1 DEF OrderInv, Gathering
<1>8. \A b \in Blocks : LookedAt(b) = 0
  BY <1>1, NBlocksAssumption DEF LookedAt, Blocks
<1>9. \A b \in Blocks : GatheredBy(b, 0)
  BY DEF LiveInit, EmptySet, GatheredBy, WritesBy, ReadsFirstBy
<1>10. n <= Len(code[i]) + 1
  BY <1>1, <1>4
<1>11. GatherInv
  BY <1>1, <1>8, <1>9, <1>10 DEF GatherInv, Gathering
<1> QED
  BY <1>5, <1>6, <1>7, <1>11 DEF BaseInv

(* What the steps of the first pass have in common. *)
LEMMA GatherFrame ==
    ASSUME BaseInv, pc = "gather", pc' \in {"gather", "aborted"},
           UNCHANGED <<cfg, dfsVars, postorder, code, solveVars>>,
           UEVar' \in [Blocks -> SetsOf(NBlocks)], VarKill' \in [Blocks -> SetsOf(NBlocks)],
           pc' = "gather" => i' \in Blocks, n' \in Nat \ {0}
    PROVE  LiveTypeOK' /\ Temp2Kept' /\ OrderInv'
<1>1. num_registers' = num_registers
  BY SameRegisters
<1>2. OrderInv'
  BY DEF BaseInv, OrderInv, Gathering, TraversalInit, dfsVars
<1>3. PostorderTypeOK'
  BY DEF BaseInv, LiveTypeOK, PostorderTypeOK, dfsVars
<1>4. Temp2Kept' /\ (temp2.bits \subseteq Words(temp2))'
  BY <1>1 DEF BaseInv, LiveTypeOK, Temp2Kept, solveVars, Words, num_words
<1>5. LiveTypeOK'
  BY <1>1, <1>3, <1>4 DEF BaseInv, LiveTypeOK, solveVars
<1> QED
  BY <1>2, <1>4, <1>5

LEMMA GatherInst_Base == BaseInv /\ GatherInst => BaseInv'
<1> SUFFICES ASSUME BaseInv, GatherInst PROVE BaseInv'
  OBVIOUS
<1>1. /\ pc = "gather" /\ pc' = "gather" /\ n <= Len(code[i]) /\ InstFits
      /\ UEVar' = [UEVar EXCEPT ![i].bits = @ \union ExposedBy(Inst, VarKill[i].bits)]
      /\ VarKill' = [VarKill EXCEPT ![i].bits = @ \union RegsWritten(Inst)]
      /\ n' = n + 1 /\ i' = i
      /\ UNCHANGED <<cfg, dfsVars, postorder, code, solveVars>>
  BY DEF GatherInst, HasInst, postorderVars, dfsVars
<1>2. /\ i \in Blocks /\ n \in Nat \ {0} /\ code[i] \in Seq(Instruction)
      /\ UEVar \in [Blocks -> SetsOf(NBlocks)] /\ VarKill \in [Blocks -> SetsOf(NBlocks)]
  BY <1>1 DEF BaseInv, LiveTypeOK
<1>3. Inst = code[i][n] /\ Inst \in Instruction
  BY <1>1, <1>2 DEF Inst
<1>4. RegsRead(Inst) \union RegsWritten(Inst) \subseteq Fitting
  <2>1. \A r \in RegsRead(Inst) \union RegsWritten(Inst) : r \in Nat /\ r < NBlocks
    BY <1>1, <1>2, <1>3, InstructionRegs DEF InstFits, Fits, SetsOf
  <2> QED
    BY <2>1, NBlocksAssumption DEF Fitting
<1>5. LookedAt(i) = n - 1 /\ GatheredBy(i, n - 1)
  BY <1>1, <1>2, NBlocksAssumption DEF BaseInv, GatherInv, LookedAt, Blocks
<1>6. /\ {r \in Fitting : ReadsFirstBy(i, r, n)}
             = UEVar[i].bits \union ExposedBy(Inst, VarKill[i].bits)
      /\ {r \in Fitting : WritesBy(i, r, n)} = VarKill[i].bits \union RegsWritten(Inst)
      /\ \A m \in 1 .. n : RegsRead(code[i][m]) \union RegsWritten(code[i][m]) \subseteq Fitting
  BY <1>2, <1>3, <1>4, <1>5, OneMoreInst
<1>7. /\ UEVar' \in [Blocks -> SetsOf(NBlocks)]
      /\ UEVar'[i].bits = {r \in Fitting : ReadsFirstBy(i, r, n)}
      /\ \A b \in Blocks \ {i} : UEVar'[b] = UEVar[b]
  <2> DEFINE new == UEVar[i].bits \union ExposedBy(Inst, VarKill[i].bits)
  <2>1. new \subseteq 0 .. NBlocks - 1 /\ new = {r \in Fitting : ReadsFirstBy(i, r, n)}
    BY <1>6 DEF Fitting
  <2>2. UEVar' = [UEVar EXCEPT ![i] = [max_elems |-> NBlocks, bits |-> new]]
    <3>1. UEVar[i] = [max_elems |-> NBlocks, bits |-> UEVar[i].bits]
      BY <1>2, IsSet
    <3> HIDE DEF new
    <3>2. [UEVar[i] EXCEPT !.bits = new] = [max_elems |-> NBlocks, bits |-> new]
      BY <3>1, WithBits
    <3> QED
      BY <1>1, <3>2, Zenon DEF new
  <2> HIDE DEF new
  <2> QED
    BY <1>2, <2>1, <2>2 DEF SetsOf
<1>8. /\ VarKill' \in [Blocks -> SetsOf(NBlocks)]
      /\ VarKill'[i].bits = {r \in Fitting : WritesBy(i, r, n)}
      /\ \A b \in Blocks \ {i} : VarKill'[b] = VarKill[b]
  <2> DEFINE new == VarKill[i].bits \union RegsWritten(Inst)
  <2>1. new \subseteq 0 .. NBlocks - 1 /\ new = {r \in Fitting : WritesBy(i, r, n)}
    BY <1>6 DEF Fitting
  <2>2. VarKill' = [VarKill EXCEPT ![i] = [max_elems |-> NBlocks, bits |-> new]]
    <3>1. VarKill[i] = [max_elems |-> NBlocks, bits |-> VarKill[i].bits]
      BY <1>2, IsSet
    <3> HIDE DEF new
    <3>2. [VarKill[i] EXCEPT !.bits = new] = [max_elems |-> NBlocks, bits |-> new]
      BY <3>1, WithBits
    <3> QED
      BY <1>1, <3>2, Zenon DEF new
  <2> HIDE DEF new
  <2> QED
    BY <1>2, <2>1, <2>2 DEF SetsOf
<1>9. \A b, k : GatheredBy(b, k)' <=>
         /\ UEVar'[b].bits = {r \in Fitting : ReadsFirstBy(b, r, k)}
         /\ VarKill'[b].bits = {r \in Fitting : WritesBy(b, r, k)}
         /\ \A m \in 1 .. k : RegsRead(code[b][m]) \union RegsWritten(code[b][m]) \subseteq Fitting
  BY <1>1 DEF GatheredBy, WritesBy, ReadsFirstBy
<1>10. \A b \in Blocks : GatheredBy(b, LookedAt(b))'
  <2> SUFFICES ASSUME NEW b \in Blocks PROVE GatheredBy(b, LookedAt(b))'
    OBVIOUS
  <2>1. CASE b = i
    <3>1. LookedAt(b)' = n
      BY <1>1, <1>2, <2>1, NBlocksAssumption DEF LookedAt, Blocks
    <3> QED
      BY <1>6, <1>7, <1>8, <1>9, <2>1, <3>1
  <2>2. CASE b # i
    <3>1. LookedAt(b)' = LookedAt(b)
      BY <1>1, <2>2 DEF LookedAt
    <3>2. GatheredBy(b, LookedAt(b))
      BY <1>1 DEF BaseInv, GatherInv
    <3> QED
      BY <1>7, <1>8, <1>9, <2>2, <3>1, <3>2 DEF GatheredBy
  <2> QED
    BY <2>1, <2>2
<1>11. GatherInv'
  <2>1. n' <= Len(code[i])' + 1
    BY <1>1, <1>2
  <2> QED
    BY <1>1, <1>10, <2>1 DEF GatherInv, Gathering
<1> QED
  BY <1>1, <1>2, <1>7, <1>8, <1>11, GatherFrame DEF BaseInv

LEMMA AssertFails_Base == BaseInv /\ AssertFails => BaseInv'
<1> SUFFICES ASSUME BaseInv, AssertFails PROVE BaseInv'
  OBVIOUS
<1>1. /\ pc = "gather" /\ pc' = "aborted"
      /\ UNCHANGED <<cfg, dfsVars, postorder, code, gatherVars, solveVars, i, n>>
  BY DEF AssertFails, HasInst
<1>2. GatherInv'
  BY <1>1 DEF GatherInv, Gathering
<1>3. /\ UEVar' \in [Blocks -> SetsOf(NBlocks)] /\ VarKill' \in [Blocks -> SetsOf(NBlocks)]
      /\ n' \in Nat \ {0}
  BY <1>1 DEF gatherVars, BaseInv, LiveTypeOK
<1> QED
  BY <1>1, <1>2, <1>3, GatherFrame DEF BaseInv

LEMMA GatherNextBlock_Base == BaseInv /\ GatherNextBlock => BaseInv'
<1> SUFFICES ASSUME BaseInv, GatherNextBlock PROVE BaseInv'
  OBVIOUS
<1>1. /\ pc = "gather" /\ pc' = "gather" /\ n > Len(code[i]) /\ i < NBlocks - 1
      /\ i' = i + 1 /\ n' = 1
      /\ UNCHANGED <<cfg, dfsVars, postorder, code, gatherVars, solveVars>>
  BY DEF GatherNextBlock, postorderVars, dfsVars
<1>2. /\ i \in Blocks /\ n \in Nat \ {0} /\ n <= Len(code[i]) + 1
      /\ \A b \in Blocks : code[b] \in Seq(Instruction)
      /\ UEVar' \in [Blocks -> SetsOf(NBlocks)] /\ VarKill' \in [Blocks -> SetsOf(NBlocks)]
  BY <1>1 DEF BaseInv, LiveTypeOK, GatherInv, gatherVars
<1>3. i' \in Blocks /\ i' > i /\ i \in Int /\ \A b \in Blocks : b \in Int
  BY <1>1, <1>2, NBlocksAssumption DEF Blocks
<1>4. Len(code[i]) = n - 1
  BY <1>1, <1>2
<1>5. \A b \in Blocks : LookedAt(b)' = LookedAt(b)
  BY <1>1, <1>3, <1>4 DEF LookedAt
<1>6. \A b, k : GatheredBy(b, k)' <=> GatheredBy(b, k)
  BY <1>1 DEF GatheredBy, WritesBy, ReadsFirstBy, gatherVars
<1>7. \A b \in Blocks : GatheredBy(b, LookedAt(b))'
  BY <1>1, <1>5, <1>6 DEF BaseInv, GatherInv
<1>8. GatherInv'
  <2>1. n' <= Len(code[i])' + 1
    BY <1>1, <1>2, <1>3
  <2> QED
    BY <1>1, <1>7, <2>1 DEF GatherInv, Gathering
<1> QED
  BY <1>1, <1>2, <1>3, <1>8, GatherFrame DEF BaseInv

LEMMA EndGather_Base == BaseInv /\ EndGather => BaseInv'
<1> SUFFICES ASSUME BaseInv, EndGather PROVE BaseInv'
  OBVIOUS
<1>1. /\ pc = "gather" /\ pc' = "dfs" /\ n > Len(code[i]) /\ i = NBlocks - 1
      /\ UNCHANGED <<cfg, dfsVars, postorder, code, gatherVars, solveVars, i, n>>
  BY DEF EndGather
<1>2. /\ i \in Blocks /\ n \in Nat \ {0} /\ n <= Len(code[i]) + 1
      /\ \A b \in Blocks : code[b] \in Seq(Instruction)
      /\ cfg \in Cfgs /\ TraversalInit
  BY <1>1 DEF BaseInv, LiveTypeOK, GatherInv, OrderInv, Gathering
<1>3. PostorderInit'
  BY <1>1, <1>2 DEF PostorderInit, TraversalInit, dfsVars
<1>4. PostorderInv'
  BY <1>3, PostorderInit_Inv, PTL
<1>5. num_registers' = num_registers
  BY <1>1, SameRegisters
<1>6. Temp2Kept' /\ (temp2.bits \subseteq Words(temp2))'
  BY <1>1, <1>5 DEF BaseInv, LiveTypeOK, Temp2Kept, solveVars, Words, num_words
<1>7. LiveTypeOK'
  BY <1>1, <1>4, <1>5, <1>6
  DEF BaseInv, LiveTypeOK, PostorderInv, solveVars, gatherVars
<1>8. \A b \in Blocks : LookedAt(b) = Len(code[b])
  <2> SUFFICES ASSUME NEW b \in Blocks PROVE LookedAt(b) = Len(code[b])
    OBVIOUS
  <2>1. CASE b < i
    BY <2>1 DEF LookedAt
  <2>2. CASE ~(b < i)
    <3>1. b = i
      BY <1>1, <2>2, NBlocksAssumption DEF Blocks
    <3>2. Len(code[i]) = n - 1
      BY <1>1, <1>2
    <3> QED
      BY <2>2, <3>1, <3>2 DEF LookedAt
  <2> QED
    BY <2>1, <2>2
<1>9. \A b, k : GatheredBy(b, k)' <=> GatheredBy(b, k)
  BY <1>1 DEF GatheredBy, WritesBy, ReadsFirstBy, gatherVars
<1>10. \A b \in Blocks : GatheredBy(b, Len(code[b]))'
  BY <1>1, <1>8, <1>9 DEF BaseInv, GatherInv
<1>11. GatherInv' /\ OrderInv'
  BY <1>1, <1>4, <1>10 DEF GatherInv, OrderInv, Gathering
<1> QED
  BY <1>6, <1>7, <1>11 DEF BaseInv

LEMMA Traverse_Base == BaseInv /\ Traverse => BaseInv'
<1> SUFFICES ASSUME BaseInv, Traverse PROVE BaseInv'
  OBVIOUS
<1>1. /\ pc = "dfs" /\ pc' \in {"dfs", "ordered"} /\ PostorderNext /\ cfg' = cfg
      /\ UNCHANGED <<code, gatherVars, solveVars, i, n>>
  BY DEF Traverse, PostorderNext, Descend, SkipChild, Return, Finish, HasChild
<1>2. PostorderInv'
  BY <1>1, PostorderNext_Inv DEF BaseInv, OrderInv, Gathering
<1>3. num_registers' = num_registers
  BY <1>1, SameRegisters
<1>4. Temp2Kept' /\ (temp2.bits \subseteq Words(temp2))'
  BY <1>1, <1>3 DEF BaseInv, LiveTypeOK, Temp2Kept, solveVars, Words, num_words
<1>5. LiveTypeOK'
  BY <1>1, <1>2, <1>3, <1>4
  DEF BaseInv, LiveTypeOK, PostorderInv, solveVars, gatherVars
<1>6. \A b, k : GatheredBy(b, k)' <=> GatheredBy(b, k)
  BY <1>1 DEF GatheredBy, WritesBy, ReadsFirstBy, gatherVars
<1>7. \A b \in Blocks : GatheredBy(b, Len(code[b]))'
  BY <1>1, <1>6 DEF BaseInv, GatherInv, Gathering
<1> QED
  BY <1>1, <1>2, <1>4, <1>5, <1>7 DEF BaseInv, GatherInv, OrderInv, Gathering

(* The sweeps only touch the sets of the second pass. *)
Solving == pc \in {"block", "succs", "lived"}

LEMMA SolveFrame ==
    ASSUME BaseInv, Solving \/ pc = "ordered", Solving',
           UNCHANGED <<cfg, dfsVars, postorder, code, gatherVars>>,
           LiveOut' \in [Blocks -> SetsOf(num_registers)],
           temp1' \in SetsOf(num_registers),
           temp2' = [max_elems |-> num_registers, bits |-> temp2'.bits],
           temp2'.bits \subseteq Words(temp2),
           pc' \in {"block", "succs"} => i' \in 1 .. Len(postorder) + 1,
           n' \in Nat \ {0}, changed' \in BOOLEAN
    PROVE  BaseInv'
<1>1. num_registers' = num_registers
  BY SameRegisters
<1>2. /\ ~Gathering /\ ~Gathering' /\ pc # "dfs" /\ pc' # "dfs"
      /\ pc # "gather" /\ pc' # "gather"
  BY DEF Solving, Gathering
<1>3. PostorderInv'
  BY <1>2, PostorderFrame_Inv DEF BaseInv, OrderInv, dfsVars
<1>4. OrderInv'
  BY <1>2, <1>3 DEF OrderInv
<1>5. \A b, k : GatheredBy(b, k)' <=> GatheredBy(b, k)
  BY DEF GatheredBy, WritesBy, ReadsFirstBy, gatherVars
<1>6. \A b \in Blocks : GatheredBy(b, Len(code[b]))'
  BY <1>2, <1>5 DEF BaseInv, GatherInv
<1>7. GatherInv'
  BY <1>2, <1>6 DEF GatherInv
<1>8. Temp2Kept'
  BY <1>1 DEF Temp2Kept
<1>9. (temp2.bits \subseteq Words(temp2))'
  <2>1. temp2'.max_elems = temp2.max_elems
    BY DEF BaseInv, LiveTypeOK
  <2> QED
    BY <2>1 DEF Words, num_words
<1>10. LiveTypeOK'
  <2>1. temp2'.max_elems = num_registers'
    BY <1>1
  <2> QED
    BY <1>1, <1>2, <1>3, <1>9, <2>1 DEF BaseInv, LiveTypeOK, PostorderInv, gatherVars
<1> QED
  BY <1>4, <1>7, <1>8, <1>10 DEF BaseInv

-----------------------------------------------------------------------------

(* What the turn for one successor makes of the sets: a word operation on   *)
(* the whole, and on few enough registers what the equation says.           *)
Passed(temp, kill, out, ue) ==
    union_equal_sets_in_place(
        intersect_equal_sets_in_place(NotWritten(temp, kill), out), ue)

LEMMA NotWrittenIs ==
    ASSUME NEW size, NEW temp, temp = [max_elems |-> size, bits |-> temp.bits], NEW kill
    PROVE  LET w == {x \in Words(temp) :
                        NotSource(x) \notin (IF num_words(size) = num_words(kill.max_elems)
                                             THEN kill.bits ELSE temp.bits)}
           IN  NotWritten(temp, kill) = [max_elems |-> size, bits |-> w]
<1> DEFINE copied == IF num_words(size) = num_words(kill.max_elems)
                     THEN kill.bits ELSE temp.bits
           c == bset_copy(temp, kill)
<1>1. temp.max_elems = size
  OBVIOUS
<1>2. c = [max_elems |-> size, bits |-> copied]
  BY <1>1, WithBits DEF bset_copy
<1>3. c.max_elems = size /\ c.bits = copied /\ Words(c) = Words(temp)
  BY <1>1, <1>2 DEF Words
<1>4. bset_not(c) = [max_elems |-> size, bits |-> {x \in Words(c) : NotSource(x) \notin c.bits}]
  <2> HIDE DEF c
  <2>1. c = [max_elems |-> size, bits |-> c.bits]
    BY <1>2, <1>3
  <2>2. \A new : [c EXCEPT !.bits = new] = [max_elems |-> size, bits |-> new]
    BY <2>1, WithBits
  <2> QED
    BY <2>2, Zenon DEF bset_not
<1> QED
  BY <1>3, <1>4 DEF NotWritten

LEMMA PassedIs ==
    ASSUME NEW size, NEW temp, temp = [max_elems |-> size, bits |-> temp.bits],
           NEW kill \in SetsOf(NBlocks), NEW out \in SetsOf(size), NEW ue \in SetsOf(NBlocks)
    PROVE  LET p == Passed(temp, kill, out, ue)
           IN  /\ p = [max_elems |-> size, bits |-> p.bits]
               /\ p.bits \subseteq Words(temp) /\ p.bits \subseteq Fitting
               /\ (size \in 1 .. NBlocks /\ NBlocks <= INT_SIZE) =>
                     p.bits = ue.bits \union (out.bits \ kill.bits)
<1> DEFINE copied == IF num_words(size) = num_words(kill.max_elems)
                     THEN kill.bits ELSE temp.bits
           w == {x \in Words(temp) : NotSource(x) \notin copied}
           both == (w \intersect out.bits) \union (ue.bits \intersect Words(temp))
           a == NotWritten(temp, kill)
           b == intersect_equal_sets_in_place(a, out)
           p == Passed(temp, kill, out, ue)
<1>1. a = [max_elems |-> size, bits |-> w]
  BY NotWrittenIs, ZenonT(40)
<1>2. b = [max_elems |-> size, bits |-> w \intersect out.bits]
  <2> HIDE DEF a, w
  <2>1. a = [max_elems |-> size, bits |-> a.bits] /\ a.bits = w
    BY <1>1
  <2>2. \A new : [a EXCEPT !.bits = new] = [max_elems |-> size, bits |-> new]
    BY <2>1, WithBits
  <2>3. b = [max_elems |-> size, bits |-> a.bits \intersect out.bits]
    BY <2>2, Zenon DEF intersect_equal_sets_in_place, b
  <2> QED
    BY <2>1, <2>3
<1>3. p = [max_elems |-> size, bits |-> both]
  <2>1. p = union_equal_sets_in_place(b, ue)
    BY DEF Passed
  <2> HIDE DEF a, b, w, p
  <2>2. b = [max_elems |-> size, bits |-> b.bits] /\ b.bits = w \intersect out.bits
    BY <1>2
  <2>3. Words(b) = Words(temp)
    BY <2>2 DEF Words
  <2> QED
    BY <2>1, <2>2, <2>3, WithBits DEF union_equal_sets_in_place
<1>4. p.bits = both
  BY <1>3
<1>5. out.bits \subseteq Fitting /\ ue.bits \subseteq Fitting /\ kill.max_elems = NBlocks
  BY IsSet
<1>6. both \subseteq Words(temp) /\ both \subseteq Fitting
  BY <1>5
<1>7. ASSUME size \in 1 .. NBlocks, NBlocks <= INT_SIZE
      PROVE  both = ue.bits \union (out.bits \ kill.bits)
  <2>1. num_words(size) = 1 /\ num_words(NBlocks) = 1
    BY <1>7, OneWord, NBlocksAssumption, SizesAssumption
  <2>2. copied = kill.bits
    BY <1>5, <2>1
  <2>3. Fitting \subseteq Words(temp)
    <3>1. temp.max_elems = size
      OBVIOUS
    <3>2. Words(temp) = 0 .. WORD_SIZE - 1
      BY <2>1, <3>1, SizesAssumption DEF Words
    <3> QED
      BY <1>7, <3>2, NBlocksAssumption, SizesAssumption DEF Fitting
  <2>4. \A x \in Fitting : NotSource(x) = x
    BY <1>7, NotBelowSign, NBlocksAssumption, SizesAssumption DEF Fitting
  <2> HIDE DEF copied
  <2> QED
    BY <1>5, <2>2, <2>3, <2>4
<1> HIDE DEF p, both
<1> QED
  BY <1>3, <1>4, <1>6, <1>7 DEF p

-----------------------------------------------------------------------------

(* With few enough registers: what block s passes to its predecessors, and  *)
(* whether block b has taken in what its first k successors pass, and the   *)
(* first k blocks of the order what all their successors pass.              *)
Narrow == NBlocks <= INT_SIZE

PassedBy(s) == UEVar[s].bits \union (LiveOut[s].bits \ VarKill[s].bits)

TakesIn(b, k) == \A m \in 1 .. k : PassedBy(cfg.succs[b][m]) \subseteq LiveOut[b].bits

Solved(k) == \A m \in 1 .. k : TakesIn(postorder[m], Len(cfg.succs[postorder[m]]))

SetsSound ==
    \A b \in Blocks : \A r \in LiveOut[b].bits : b \in Reachable(cfg) /\ b \in NeededAfter(r)

(* While a sweep has changed nothing, the blocks behind it are solved; the  *)
(* block at hand has not changed as long as it has what temp1 kept of it.   *)
Stable ==
    /\ (pc = "block" /\ ~changed) => Solved(i - 1)
    /\ (pc = "succs" /\ ~changed /\ temp1.bits = LiveOut[Current].bits) =>
          Solved(i - 1) /\ TakesIn(Current, n - 1)
    /\ pc = "lived" => Solved(Len(postorder))

BlockKept ==
    pc = "succs" => i <= Len(postorder) /\ temp1.bits \subseteq LiveOut[Current].bits

LiveInv ==
    /\ BaseInv
    /\ BlockKept
    /\ Narrow => SetsSound /\ Stable

-----------------------------------------------------------------------------

(* Once the first pass is over, every register is below the number of      *)
(* blocks, and the highest one written bounds the others.                  *)
LEMMA RegistersFit ==
    ASSUME BaseInv, ~Gathering
    PROVE  /\ num_registers \in 1 .. NBlocks
           /\ \A b \in Blocks : \A r : Writes(b, r) => r \in 0 .. num_registers - 1
<1> DEFINE written == {0} \union UNION {WrittenIn(code[b]) : b \in Blocks}
<1>1. \A b \in Blocks : \A m \in 1 .. Len(code[b]) : RegsWritten(code[b][m]) \subseteq Fitting
  BY DEF BaseInv, GatherInv, GatheredBy
<1>2. \A b \in Blocks : WrittenIn(code[b]) \subseteq Fitting
  BY <1>1 DEF WrittenIn
<1>3. written \subseteq Fitting /\ 0 \in written
  BY <1>2, NBlocksAssumption DEF Fitting
<1>4. \E m \in written : \A k \in written : k <= m
  <2>1. /\ written \in SUBSET Int /\ written # {} /\ NBlocks - 1 \in Int
        /\ \A k \in written : k <= NBlocks - 1
    BY <1>3, NBlocksAssumption DEF Fitting
  <2> HIDE DEF written
  <2> QED
    BY <2>1, IntMax
<1>5. max_register = CHOOSE r \in written : \A k \in written : k <= r
  BY DEF max_register
<1>6. max_register \in written /\ \A k \in written : k <= max_register
  <2> HIDE DEF written
  <2> QED
    BY <1>4, <1>5
<1>7. \A b \in Blocks : \A r : Writes(b, r) => r \in written
  BY DEF Writes, WrittenIn
<1>8. max_register \in Fitting /\ \A b \in Blocks : \A r : Writes(b, r) => r \in 0 .. max_register
  BY <1>3, <1>6, <1>7, NBlocksAssumption DEF Fitting
<1> HIDE DEF written
<1> QED
  BY <1>8, NBlocksAssumption DEF Fitting, num_registers

(* What the sets of the first pass are once it is over. *)
LEMMA Gathered ==
    ASSUME BaseInv, ~Gathering, NEW b \in Blocks
    PROVE  /\ UEVar[b].bits = {r \in Fitting : ReadsFirst(b, r)}
           /\ VarKill[b].bits = {r \in Fitting : Writes(b, r)}
           /\ \A r : ReadsFirst(b, r) \/ Writes(b, r) => r \in Fitting
<1>1. GatheredBy(b, Len(code[b]))
  BY DEF BaseInv, GatherInv
<1>2. \A r : (ReadsFirstBy(b, r, Len(code[b])) <=> ReadsFirst(b, r))
             /\ (WritesBy(b, r, Len(code[b])) <=> Writes(b, r))
  BY DEF ReadsFirstBy, ReadsFirst, WritesBy, Writes
<1>3. \A r : ReadsFirst(b, r) \/ Writes(b, r) => r \in Fitting
  BY <1>1 DEF GatheredBy, ReadsFirst, Writes
<1> QED
  BY <1>1, <1>2, <1>3 DEF GatheredBy

(* A register is needed after a block when a successor passes it on, ... *)
LEMMA NeededStep ==
    ASSUME NEW b \in Blocks, NEW s \in Succs(cfg, b), NEW r,
           ReadsFirst(s, r) \/ (s \in NeededAfter(r) /\ ~Writes(s, r))
    PROVE  b \in NeededAfter(r)
<1>1. ASSUME NEW S \in SUBSET Blocks, ClosedBackwards(S, r)
      PROVE  b \in S
  BY <1>1 DEF NeededAfter, ClosedBackwards
<1> QED
  BY <1>1 DEF NeededAfter

(* ... and after none that is not in every set closed backwards. *)
LEMMA NeededLeast ==
    ASSUME NEW r, NEW S \in SUBSET Blocks, ClosedBackwards(S, r)
    PROVE  NeededAfter(r) \subseteq S
BY DEF NeededAfter

(* The blocks of the sweeps. *)
LEMMA SweepBlocks ==
    ASSUME BaseInv, Solving
    PROVE  /\ postorder \in Seq(Blocks) /\ Len(postorder) \in Nat
           /\ {postorder[m] : m \in 1 .. Len(postorder)} = Reachable(cfg)
           /\ cfg \in Cfg /\ ~Gathering /\ num_registers \in 1 .. NBlocks
           /\ \A b \in Blocks : /\ cfg.succs[b] \in Seq(Blocks) /\ Len(cfg.succs[b]) \in Nat
                                /\ UEVar[b] \in SetsOf(NBlocks) /\ VarKill[b] \in SetsOf(NBlocks)
                                /\ LiveOut[b] \in SetsOf(num_registers)
           /\ (pc \in {"block", "succs"} /\ i <= Len(postorder)) =>
                 i \in 1 .. Len(postorder) /\ Current \in Blocks /\ Current \in Reachable(cfg)
<1>1. ~Gathering /\ pc # "dfs" /\ PostorderInv
  BY DEF Solving, Gathering, BaseInv, OrderInv
<1>2. /\ postorder \in Seq(Blocks) /\ Len(postorder) \in Nat /\ cfg \in Cfg
      /\ Pushed = Reachable(cfg)
  BY <1>1, PushedIsReachable DEF PostorderInv, PostorderTypeOK, WellFormed
<1>3. (pc \in {"block", "succs"} /\ i <= Len(postorder)) =>
         i \in 1 .. Len(postorder) /\ Current \in Blocks /\ Current \in Reachable(cfg)
  <2> SUFFICES ASSUME pc \in {"block", "succs"}, i <= Len(postorder)
               PROVE  i \in 1 .. Len(postorder) /\ Current \in Blocks /\ Current \in Reachable(cfg)
    OBVIOUS
  <2>1. i \in 1 .. Len(postorder)
    BY <1>2 DEF BaseInv, LiveTypeOK
  <2> QED
    BY <1>2, <2>1 DEF Current, Pushed
<1>4. \A b \in Blocks : /\ cfg.succs[b] \in Seq(Blocks) /\ Len(cfg.succs[b]) \in Nat
                        /\ UEVar[b] \in SetsOf(NBlocks) /\ VarKill[b] \in SetsOf(NBlocks)
                        /\ LiveOut[b] \in SetsOf(num_registers)
  BY <1>2 DEF Cfg, BaseInv, LiveTypeOK
<1> QED
  BY <1>1, <1>2, <1>3, <1>4, RegistersFit DEF Pushed

(* What does not change when the graph, the program and the sets do not. *)
LEMMA SetsFrame ==
    ASSUME UNCHANGED <<cfg, code, LiveOut>>
    PROVE  /\ SetsSound' <=> SetsSound
           /\ UNCHANGED <<UEVar, VarKill, postorder>> =>
                 /\ \A k : Solved(k)' <=> Solved(k)
                 /\ \A b, k : TakesIn(b, k)' <=> TakesIn(b, k)
<1>1. \A r : NeededAfter(r)' = NeededAfter(r)
  BY DEF NeededAfter, ClosedBackwards, ReadsFirst, Writes
<1>2. SetsSound' <=> SetsSound
  BY <1>1 DEF SetsSound
<1>3. ASSUME UNCHANGED <<UEVar, VarKill, postorder>>
      PROVE  /\ \A k : Solved(k)' <=> Solved(k)
             /\ \A b, k : TakesIn(b, k)' <=> TakesIn(b, k)
  BY <1>3 DEF Solved, TakesIn, PassedBy
<1> QED
  BY <1>2, <1>3

-----------------------------------------------------------------------------

LEMMA Init_Live == LiveInit => LiveInv
<1> SUFFICES ASSUME LiveInit PROVE LiveInv
  OBVIOUS
<1>1. BaseInv /\ pc = "gather"
  BY Init_Base DEF LiveInit
<1>2. \A b \in Blocks : LiveOut[b].bits = {}
  BY DEF LiveInit, EmptySet
<1> QED
  BY <1>1, <1>2 DEF LiveInv, BlockKept, SetsSound, Stable

(* Before the sweeps the sets stay empty. *)
LEMMA BeforeSweeps ==
    ASSUME LiveInv, UNCHANGED <<cfg, code, LiveOut>>, BaseInv', ~Solving'
    PROVE  LiveInv'
<1>1. SetsSound' <=> SetsSound
  BY SetsFrame
<1> QED
  BY <1>1 DEF LiveInv, BlockKept, Stable, Solving, Narrow

LEMMA StartSolve_Live == LiveInv /\ StartSolve => LiveInv'
<1> SUFFICES ASSUME LiveInv, StartSolve PROVE LiveInv'
  OBVIOUS
<1>1. /\ pc = "ordered" /\ pc' = "block" /\ i' = 1 /\ changed' = FALSE
      /\ UNCHANGED <<cfg, dfsVars, postorder, code, gatherVars, LiveOut, temp1, temp2, n>>
  BY DEF StartSolve, SweepStart
<1>2. Solving'
  BY <1>1 DEF Solving
<1>3. i' \in 1 .. Len(postorder) + 1
  BY <1>1 DEF LiveInv, BaseInv, LiveTypeOK, PostorderTypeOK
<1>4. BaseInv'
  BY <1>1, <1>2, <1>3, SolveFrame DEF LiveInv, BaseInv, LiveTypeOK, Temp2Kept
<1>5. SetsSound' <=> SetsSound
  BY <1>1, SetsFrame
<1>6. Solved(i - 1)'
  BY <1>1 DEF Solved
<1> QED
  BY <1>1, <1>4, <1>5, <1>6 DEF LiveInv, BlockKept, Stable, Narrow

LEMMA BeginBlock_Live == LiveInv /\ BeginBlock => LiveInv'
<1> SUFFICES ASSUME LiveInv, BeginBlock PROVE LiveInv'
  OBVIOUS
<1>1. /\ pc = "block" /\ pc' = "succs" /\ i <= Len(postorder) /\ n' = 1
      /\ temp1' = bset_copy(temp1, LiveOut[Current])
      /\ UNCHANGED <<cfg, dfsVars, postorder, code, gatherVars, LiveOut, temp2, changed, i>>
  BY DEF BeginBlock
<1>2. Solving /\ Solving' /\ BaseInv
  BY <1>1 DEF Solving, LiveInv
<1>3. /\ Current \in Blocks /\ i \in 1 .. Len(postorder)
      /\ LiveOut[Current] \in SetsOf(num_registers) /\ temp1 \in SetsOf(num_registers)
  BY <1>1, <1>2, SweepBlocks DEF BaseInv, LiveTypeOK
<1>4. temp1' = LiveOut[Current]
  <2>1. /\ temp1 = [max_elems |-> num_registers, bits |-> temp1.bits]
        /\ LiveOut[Current] = [max_elems |-> num_registers, bits |-> LiveOut[Current].bits]
    BY <1>3, IsSet
  <2>2. \A new : [temp1 EXCEPT !.bits = new] = [max_elems |-> num_registers, bits |-> new]
    BY <2>1, WithBits
  <2>3. temp1.max_elems = LiveOut[Current].max_elems
    BY <1>3, IsSet
  <2>4. temp1' = [temp1 EXCEPT !.bits = LiveOut[Current].bits]
    BY <1>1, <2>3, Zenon DEF bset_copy
  <2> QED
    BY <2>1, <2>2, <2>4, Zenon
<1>5. BaseInv'
  <2>1. LiveOut' \in [Blocks -> SetsOf(num_registers)] /\ changed' \in BOOLEAN
    BY <1>1, <1>2 DEF BaseInv, LiveTypeOK
  <2>2. /\ temp2' = [max_elems |-> num_registers, bits |-> temp2'.bits]
        /\ temp2'.bits \subseteq Words(temp2)
    BY <1>1, <1>2 DEF BaseInv, LiveTypeOK, Temp2Kept
  <2>3. i' \in 1 .. Len(postorder) + 1 /\ n' \in Nat \ {0} /\ temp1' \in SetsOf(num_registers)
    BY <1>1, <1>2, <1>3, <1>4 DEF BaseInv, LiveTypeOK
  <2> QED
    BY <1>1, <1>2, <2>1, <2>2, <2>3, SolveFrame
<1>6. Current' = Current
  BY <1>1 DEF Current
<1>7. BlockKept'
  BY <1>1, <1>4, <1>6 DEF BlockKept
<1>8. /\ SetsSound' <=> SetsSound
      /\ Solved(i - 1)' <=> Solved(i - 1)
  BY <1>1, SetsFrame DEF gatherVars
<1>9. TakesIn(Current, n - 1)'
  BY <1>1 DEF TakesIn
<1>10. Narrow => Stable'
  BY <1>1, <1>8, <1>9 DEF Stable, LiveInv
<1> QED
  BY <1>5, <1>7, <1>8, <1>10 DEF LiveInv, Narrow

(* The turn of one successor: the block takes in what the successor passes. *)
LEMMA SolveSuccIs ==
    ASSUME LiveInv, SolveSucc
    PROVE  /\ Current \in Blocks /\ Current \in Reachable(cfg) /\ i \in 1 .. Len(postorder)
           /\ n \in 1 .. Len(cfg.succs[Current])
           /\ Succ \in Blocks /\ Succ \in Succs(cfg, Current)
           /\ temp2' = [max_elems |-> num_registers, bits |-> temp2'.bits]
           /\ temp2'.bits \subseteq Words(temp2) /\ temp2'.bits \subseteq Fitting
           /\ Narrow => temp2'.bits = PassedBy(Succ)
           /\ LiveOut' = [LiveOut EXCEPT ![Current] =
                             [max_elems |-> num_registers,
                              bits |-> LiveOut[Current].bits \union temp2'.bits]]
<1>1. /\ pc = "succs" /\ n <= Len(cfg.succs[Current]) /\ i <= Len(postorder)
      /\ temp2' = Passed(temp2, VarKill[Succ], LiveOut[Succ], UEVar[Succ])
      /\ LiveOut' = [LiveOut EXCEPT ![Current] = union_equal_sets_in_place(@, temp2')]
  BY DEF SolveSucc, Passed, LiveInv, BlockKept
<1>2. BaseInv /\ Solving
  BY <1>1 DEF LiveInv, Solving
<1>3. /\ Current \in Blocks /\ Current \in Reachable(cfg) /\ i \in 1 .. Len(postorder)
      /\ cfg.succs[Current] \in Seq(Blocks) /\ num_registers \in 1 .. NBlocks
      /\ LiveOut[Current] \in SetsOf(num_registers)
  BY <1>1, <1>2, SweepBlocks
<1>4. n \in 1 .. Len(cfg.succs[Current])
  BY <1>1, <1>2, <1>3 DEF BaseInv, LiveTypeOK
<1>5. Succ \in Blocks /\ Succ \in Succs(cfg, Current)
  BY <1>3, <1>4 DEF Succ, Succs
<1>6. /\ VarKill[Succ] \in SetsOf(NBlocks) /\ UEVar[Succ] \in SetsOf(NBlocks)
      /\ LiveOut[Succ] \in SetsOf(num_registers)
      /\ temp2 = [max_elems |-> num_registers, bits |-> temp2.bits]
  BY <1>2, <1>5, SweepBlocks DEF BaseInv, Temp2Kept
<1>7. /\ temp2' = [max_elems |-> num_registers, bits |-> temp2'.bits]
      /\ temp2'.bits \subseteq Words(temp2) /\ temp2'.bits \subseteq Fitting
      /\ Narrow => temp2'.bits = PassedBy(Succ)
  <2>1. ASSUME NEW kill, NEW out, NEW ue, kill = VarKill[Succ], out = LiveOut[Succ],
               ue = UEVar[Succ]
        PROVE  LET p == Passed(temp2, kill, out, ue)
               IN  /\ p = [max_elems |-> num_registers, bits |-> p.bits]
                   /\ p.bits \subseteq Words(temp2) /\ p.bits \subseteq Fitting
                   /\ (num_registers \in 1 .. NBlocks /\ NBlocks <= INT_SIZE) =>
                         p.bits = ue.bits \union (out.bits \ kill.bits)
    BY <1>6, <2>1, PassedIs
  <2> DEFINE p == Passed(temp2, VarKill[Succ], LiveOut[Succ], UEVar[Succ])
  <2>2. /\ p = [max_elems |-> num_registers, bits |-> p.bits]
        /\ p.bits \subseteq Words(temp2) /\ p.bits \subseteq Fitting
        /\ (num_registers \in 1 .. NBlocks /\ NBlocks <= INT_SIZE) =>
              p.bits = UEVar[Succ].bits \union (LiveOut[Succ].bits \ VarKill[Succ].bits)
    BY <2>1
  <2>3. temp2' = p
    BY <1>1
  <2> HIDE DEF p
  <2> QED
    BY <1>3, <2>2, <2>3 DEF Narrow, PassedBy
<1>8. union_equal_sets_in_place(LiveOut[Current], temp2')
          = [max_elems |-> num_registers, bits |-> LiveOut[Current].bits \union temp2'.bits]
  <2> DEFINE o == LiveOut[Current]
  <2>1. o = [max_elems |-> num_registers, bits |-> o.bits]
    BY <1>3, IsSet
  <2>2. temp2.max_elems = num_registers /\ o.max_elems = num_registers
    BY <1>3, <1>6, IsSet
  <2>3. Words(o) = Words(temp2)
    BY <2>2 DEF Words
  <2>4. o.bits \union (temp2'.bits \intersect Words(o)) = o.bits \union temp2'.bits
    BY <1>7, <2>3
  <2> HIDE DEF o
  <2>5. \A new : [o EXCEPT !.bits = new] = [max_elems |-> num_registers, bits |-> new]
    BY <2>1, WithBits
  <2>6. union_equal_sets_in_place(o, temp2')
            = [max_elems |-> num_registers, bits |-> o.bits \union (temp2'.bits \intersect Words(o))]
    BY <2>5, Zenon DEF union_equal_sets_in_place
  <2>7. union_equal_sets_in_place(o, temp2')
            = [max_elems |-> num_registers, bits |-> o.bits \union temp2'.bits]
    BY <2>4, <2>6, Zenon
  <2> QED
    BY <2>7 DEF o
<1> QED
  BY <1>1, <1>3, <1>4, <1>5, <1>7, <1>8

LEMMA SolveSucc_Live == LiveInv /\ SolveSucc => LiveInv'
<1> SUFFICES ASSUME LiveInv, SolveSucc PROVE LiveInv'
  OBVIOUS
<1> DEFINE o == LiveOut[Current].bits \union temp2'.bits
<1>1. /\ pc = "succs" /\ pc' = "succs" /\ n' = n + 1 /\ i <= Len(postorder)
      /\ UNCHANGED <<cfg, dfsVars, postorder, code, gatherVars, temp1, changed, i>>
  BY DEF SolveSucc, postorderVars, dfsVars, LiveInv, BlockKept
<1>2. /\ Current \in Blocks /\ Current \in Reachable(cfg) /\ i \in 1 .. Len(postorder)
      /\ n \in 1 .. Len(cfg.succs[Current])
      /\ Succ \in Blocks /\ Succ \in Succs(cfg, Current)
      /\ temp2' = [max_elems |-> num_registers, bits |-> temp2'.bits]
      /\ temp2'.bits \subseteq Words(temp2) /\ temp2'.bits \subseteq Fitting
      /\ Narrow => temp2'.bits = PassedBy(Succ)
      /\ LiveOut' = [LiveOut EXCEPT ![Current] = [max_elems |-> num_registers, bits |-> o]]
  BY SolveSuccIs
<1>3. BaseInv /\ Solving /\ Solving'
  BY <1>1 DEF LiveInv, Solving
<1>4. /\ LiveOut \in [Blocks -> SetsOf(num_registers)]
      /\ LiveOut[Current] \in SetsOf(num_registers)
      /\ LiveOut[Current] = [max_elems |-> num_registers, bits |-> LiveOut[Current].bits]
      /\ LiveOut[Current].bits \subseteq Fitting
  BY <1>2, <1>3, IsSet DEF BaseInv, LiveTypeOK
<1>5. /\ LiveOut' \in [Blocks -> SetsOf(num_registers)]
      /\ LiveOut'[Current].bits = o
      /\ \A b \in Blocks \ {Current} : LiveOut'[b] = LiveOut[b]
  <2>1. o \subseteq Fitting
    BY <1>2, <1>4
  <2> HIDE DEF o
  <2>2. [max_elems |-> num_registers, bits |-> o] \in SetsOf(num_registers)
    BY <2>1 DEF SetsOf, Fitting
  <2> QED
    BY <1>2, <1>4, <2>2
<1>6. BaseInv'
  <2>1. /\ i' \in 1 .. Len(postorder) + 1 /\ n' \in Nat \ {0} /\ changed' \in BOOLEAN
        /\ temp1' \in SetsOf(num_registers)
    BY <1>1, <1>2, <1>3 DEF BaseInv, LiveTypeOK
  <2> QED
    BY <1>1, <1>2, <1>3, <1>5, <2>1, SolveFrame
<1>7. Current' = Current
  BY <1>1 DEF Current
<1>8. BlockKept'
  BY <1>1, <1>5, <1>7 DEF BlockKept, LiveInv
<1>9. ASSUME Narrow PROVE SetsSound'
  <2>1. \A r : NeededAfter(r)' = NeededAfter(r)
    BY <1>1 DEF NeededAfter, ClosedBackwards, ReadsFirst, Writes
  <2>2. SetsSound
    BY <1>9 DEF LiveInv
  <2>3. ASSUME NEW r \in temp2'.bits PROVE Current \in NeededAfter(r)
    <3>1. ~Gathering /\ r \in Fitting
      BY <1>2, <1>3, <2>3, SweepBlocks
    <3>2. \/ r \in UEVar[Succ].bits
          \/ r \in LiveOut[Succ].bits /\ r \notin VarKill[Succ].bits
      BY <1>2, <1>9, <2>3 DEF PassedBy
    <3>3. ReadsFirst(Succ, r) \/ (Succ \in NeededAfter(r) /\ ~Writes(Succ, r))
      BY <1>2, <1>3, <2>2, <3>1, <3>2, Gathered DEF SetsSound
    <3> QED
      BY <1>2, <3>3, NeededStep
  <2>4. \A b \in Blocks : \A r \in LiveOut'[b].bits : b \in Reachable(cfg) /\ b \in NeededAfter(r)
    <3> SUFFICES ASSUME NEW b \in Blocks, NEW r \in LiveOut'[b].bits
                 PROVE  b \in Reachable(cfg) /\ b \in NeededAfter(r)
      OBVIOUS
    <3>1. CASE b # Current
      BY <1>5, <2>2, <3>1 DEF SetsSound
    <3>2. CASE b = Current
      BY <1>2, <1>5, <2>2, <2>3, <3>2 DEF SetsSound
    <3> QED
      BY <3>1, <3>2
  <2> QED
    BY <1>1, <2>1, <2>4 DEF SetsSound
<1>10. ASSUME Narrow PROVE Stable'
  <2>1. ASSUME ~changed, temp1.bits = o
        PROVE  /\ Solved(i - 1)'
               /\ TakesIn(Current, n - 1)'
    <3>1. o = LiveOut[Current].bits /\ temp1.bits = LiveOut[Current].bits
      BY <1>1, <2>1 DEF LiveInv, BlockKept
    <3>2. LiveOut' = LiveOut
      <4> HIDE DEF o
      <4> QED
        BY <1>2, <1>4, <3>1
    <3>3. Solved(i - 1) /\ TakesIn(Current, n - 1)
      BY <1>1, <1>10, <2>1, <3>1 DEF LiveInv, Stable
    <3>4. PassedBy(Succ) \subseteq LiveOut[Current].bits
      BY <1>2, <1>10, <3>1
    <3>5. \A m \in 1 .. n : PassedBy(cfg.succs[Current][m]) \subseteq LiveOut[Current].bits
      <4>1. \A m \in 1 .. n : m \in 1 .. n - 1 \/ m = n
        BY <1>2
      <4> QED
        BY <3>3, <3>4, <4>1 DEF TakesIn, Succ
    <3>6. Solved(i - 1)' <=> Solved(i - 1)
      BY <1>1, <3>2, SetsFrame DEF gatherVars
    <3>7. \A s : PassedBy(s)' = PassedBy(s)
      BY <1>1, <3>2 DEF PassedBy, gatherVars
    <3>8. (\A m \in 1 .. n - 1 : PassedBy(cfg.succs[Current][m]) \subseteq LiveOut[Current].bits)'
      <4>1. (n - 1)' = n
        BY <1>1, <1>2
      <4> QED
        BY <1>1, <1>7, <3>2, <3>5, <3>7, <4>1
    <3> QED
      BY <3>3, <3>6, <3>8 DEF TakesIn
  <2> QED
    BY <1>1, <1>5, <1>7, <2>1 DEF Stable
<1> QED
  BY <1>6, <1>8, <1>9, <1>10 DEF LiveInv, Narrow

LEMMA EndBlock_Live == LiveInv /\ EndBlock => LiveInv'
<1> SUFFICES ASSUME LiveInv, EndBlock PROVE LiveInv'
  OBVIOUS
<1>1. /\ pc = "succs" /\ pc' = "block" /\ n > Len(cfg.succs[Current]) /\ i' = i + 1
      /\ i <= Len(postorder)
      /\ changed' = (changed \/ ~bset_eq(temp1, LiveOut[Current]))
      /\ UNCHANGED <<cfg, dfsVars, postorder, code, gatherVars, LiveOut, temp1, temp2, n>>
  BY DEF EndBlock, LiveInv, BlockKept
<1>2. BaseInv /\ Solving /\ Solving'
  BY <1>1 DEF LiveInv, Solving
<1>3. /\ Current \in Blocks /\ i \in 1 .. Len(postorder) /\ Len(postorder) \in Nat
      /\ Len(cfg.succs[Current]) \in Nat /\ n \in Nat
  BY <1>1, <1>2, SweepBlocks DEF BaseInv, LiveTypeOK
<1>4. BaseInv'
  <2>1. /\ LiveOut' \in [Blocks -> SetsOf(num_registers)] /\ temp1' \in SetsOf(num_registers)
        /\ temp2' = [max_elems |-> num_registers, bits |-> temp2'.bits]
        /\ temp2'.bits \subseteq Words(temp2) /\ n' \in Nat \ {0}
    BY <1>1, <1>2 DEF BaseInv, LiveTypeOK, Temp2Kept
  <2>2. i' \in 1 .. Len(postorder) + 1 /\ changed' \in BOOLEAN
    BY <1>1, <1>3 DEF bset_eq
  <2> QED
    BY <1>1, <1>2, <2>1, <2>2, SolveFrame
<1>5. BlockKept'
  BY <1>1 DEF BlockKept
<1>6. SetsSound' <=> SetsSound
  BY <1>1, SetsFrame
<1>7. ASSUME Narrow PROVE Stable'
  <2>1. ASSUME ~changed' PROVE Solved(i - 1)'
    <3>1. ~changed /\ temp1.bits = LiveOut[Current].bits
      BY <1>1, <2>1 DEF bset_eq
    <3>2. Solved(i - 1) /\ TakesIn(Current, n - 1)
      BY <1>1, <1>7, <3>1 DEF LiveInv, Stable
    <3>3. TakesIn(Current, Len(cfg.succs[Current]))
      BY <1>1, <1>3, <3>2 DEF TakesIn
    <3>4. \A m \in 1 .. i : m \in 1 .. i - 1 \/ m = i
      BY <1>3
    <3>5. \A m \in 1 .. i : TakesIn(postorder[m], Len(cfg.succs[postorder[m]]))
      BY <3>2, <3>3, <3>4 DEF Solved, Current
    <3>6. \A b, k : TakesIn(b, k)' <=> TakesIn(b, k)
      BY <1>1, SetsFrame DEF gatherVars
    <3>7. \A m \in 1 .. i' - 1 : TakesIn(postorder[m], Len(cfg.succs[postorder[m]]))'
      <4>1. i' - 1 = i
        BY <1>1, <1>3
      <4> QED
        BY <1>1, <3>5, <3>6, <4>1
    <3> QED
      BY <1>1, <3>7 DEF Solved
  <2> QED
    BY <1>1, <2>1 DEF Stable
<1> QED
  BY <1>4, <1>5, <1>6, <1>7 DEF LiveInv, Narrow

LEMMA SweepAgain_Live == LiveInv /\ SweepAgain => LiveInv'
<1> SUFFICES ASSUME LiveInv, SweepAgain PROVE LiveInv'
  OBVIOUS
<1>1. /\ pc = "block" /\ pc' = "block" /\ i' = 1
      /\ changed' = FALSE
      /\ UNCHANGED <<cfg, dfsVars, postorder, code, gatherVars, LiveOut, temp1, temp2, n>>
  BY DEF SweepAgain, SweepStart, FreshChange, postorderVars, dfsVars
<1>2. BaseInv /\ Solving /\ Solving'
  BY <1>1 DEF LiveInv, Solving
<1>3. BaseInv'
  <2>1. /\ LiveOut' \in [Blocks -> SetsOf(num_registers)] /\ temp1' \in SetsOf(num_registers)
        /\ temp2' = [max_elems |-> num_registers, bits |-> temp2'.bits]
        /\ temp2'.bits \subseteq Words(temp2) /\ n' \in Nat \ {0}
    BY <1>1, <1>2 DEF BaseInv, LiveTypeOK, Temp2Kept
  <2>2. Len(postorder) \in Nat
    BY <1>2, SweepBlocks
  <2>3. 1 \in 1 .. Len(postorder) + 1
    BY <2>2
  <2>4. i' \in 1 .. Len(postorder) + 1
    BY <1>1, <2>3, Zenon
  <2>5. changed' \in BOOLEAN
    BY <1>1
  <2> QED
    BY <1>1, <1>2, <2>1, <2>4, <2>5, SolveFrame
<1>4. SetsSound' <=> SetsSound
  BY <1>1, SetsFrame
<1>5. Solved(i - 1)'
  BY <1>1 DEF Solved
<1> QED
  BY <1>1, <1>3, <1>4, <1>5 DEF LiveInv, BlockKept, Stable, Narrow

LEMMA EndSolve_Live == LiveInv /\ EndSolve => LiveInv' /\ (Narrow => Solved(Len(postorder)))
<1> SUFFICES ASSUME LiveInv, EndSolve PROVE LiveInv' /\ (Narrow => Solved(Len(postorder)))
  OBVIOUS
<1>1. /\ pc = "block" /\ pc' = "lived" /\ i > Len(postorder) /\ ~changed
      /\ UNCHANGED <<cfg, dfsVars, postorder, code, gatherVars, solveVars, i, n>>
  BY DEF EndSolve, Settled
<1>2. BaseInv /\ Solving /\ Solving'
  BY <1>1 DEF LiveInv, Solving
<1>3. BaseInv'
  <2>1. /\ LiveOut' \in [Blocks -> SetsOf(num_registers)] /\ temp1' \in SetsOf(num_registers)
        /\ temp2' = [max_elems |-> num_registers, bits |-> temp2'.bits]
        /\ temp2'.bits \subseteq Words(temp2) /\ n' \in Nat \ {0} /\ changed' \in BOOLEAN
    BY <1>1, <1>2 DEF BaseInv, LiveTypeOK, Temp2Kept, solveVars
  <2> QED
    BY <1>1, <1>2, <2>1, SolveFrame
<1>4. SetsSound' <=> SetsSound
  BY <1>1, SetsFrame DEF solveVars
<1>5. i - 1 = Len(postorder)
  BY <1>1, <1>2, SweepBlocks DEF BaseInv, LiveTypeOK
<1>6. Narrow => Solved(Len(postorder))
  BY <1>1, <1>5 DEF LiveInv, Stable
<1>7. \A k : Solved(k)' <=> Solved(k)
  BY <1>1, SetsFrame DEF solveVars, gatherVars
<1>8. Narrow => Stable'
  BY <1>1, <1>6, <1>7 DEF Stable
<1> QED
  BY <1>1, <1>3, <1>4, <1>6, <1>8 DEF LiveInv, BlockKept, Narrow

LEMMA Stutter_Live == LiveInv /\ UNCHANGED liveVars => LiveInv'
<1> SUFFICES ASSUME LiveInv, UNCHANGED liveVars PROVE LiveInv'
  OBVIOUS
<1>1. UNCHANGED <<cfg, dfsVars, postorder, pc, code, UEVar, VarKill, LiveOut, temp1, temp2, changed, i, n>>
  BY DEF liveVars, postorderVars, dfsVars, gatherVars, solveVars
<1>2. num_registers' = num_registers
  BY <1>1, SameRegisters
<1>3. OrderInv'
  <2>1. PostorderInv => PostorderInv'
    BY <1>1, PostorderFrame_Inv DEF dfsVars
  <2> QED
    BY <1>1, <2>1 DEF LiveInv, BaseInv, OrderInv, Gathering, TraversalInit, dfsVars
<1>4. GatherInv'
  BY <1>1 DEF LiveInv, BaseInv, GatherInv, Gathering, GatheredBy, LookedAt, WritesBy, ReadsFirstBy
<1>5. LiveTypeOK' /\ Temp2Kept'
  BY <1>1, <1>2
  DEF LiveInv, BaseInv, LiveTypeOK, Temp2Kept, PostorderTypeOK, dfsVars, Words, num_words
<1>6. SetsSound' <=> SetsSound
  BY <1>1, SetsFrame
<1>7. /\ \A k : Solved(k)' <=> Solved(k)
      /\ \A b, k : TakesIn(b, k)' <=> TakesIn(b, k)
  BY <1>1, SetsFrame
<1>8. Current' = Current
  BY <1>1 DEF Current
<1>9. Stable => Stable'
  <2>1. /\ Solved(i - 1)' <=> Solved(i - 1)
        /\ Solved(Len(postorder))' <=> Solved(Len(postorder))
        /\ TakesIn(Current, n - 1)' <=> TakesIn(Current, n - 1)
    BY <1>1, <1>8 DEF Solved, TakesIn, PassedBy
  <2>2. LiveOut[Current]' = LiveOut[Current]
    BY <1>1, <1>8
  <2> QED
    BY <1>1, <2>1, <2>2 DEF Stable
<1>10. BlockKept'
  BY <1>1, <1>8 DEF LiveInv, BlockKept
<1> QED
  BY <1>3, <1>4, <1>5, <1>6, <1>9, <1>10 DEF LiveInv, BaseInv, Narrow

LEMMA LiveNext_Inv == LiveInv /\ [LiveNext]_liveVars => LiveInv'
<1> SUFFICES ASSUME LiveInv, [LiveNext]_liveVars PROVE LiveInv'
  OBVIOUS
<1>1. ASSUME GatherInst \/ AssertFails \/ GatherNextBlock \/ EndGather PROVE LiveInv'
  <2>1. /\ UNCHANGED <<cfg, code, LiveOut>> /\ pc' \in {"gather", "aborted", "dfs"}
    BY <1>1 DEF GatherInst, AssertFails, GatherNextBlock, EndGather, HasInst,
                postorderVars, solveVars
  <2>2. BaseInv'
    BY <1>1, GatherInst_Base, AssertFails_Base, GatherNextBlock_Base, EndGather_Base DEF LiveInv
  <2> QED
    BY <2>1, <2>2, BeforeSweeps DEF Solving
<1>2. CASE Traverse
  <2>1. UNCHANGED <<cfg, code, LiveOut>> /\ pc' \in {"dfs", "ordered"}
    BY <1>2 DEF Traverse, PostorderNext, Descend, SkipChild, Return, Finish, HasChild, solveVars
  <2>2. BaseInv'
    BY <1>2, Traverse_Base DEF LiveInv
  <2> QED
    BY <2>1, <2>2, BeforeSweeps DEF Solving
<1> QED
  BY <1>1, <1>2, StartSolve_Live, BeginBlock_Live, SolveSucc_Live, EndBlock_Live,
     SweepAgain_Live, EndSolve_Live, Stutter_Live DEF LiveNext

(* The inductive invariant holds throughout. *)
LEMMA LiveInvariant == LiveSpec => []LiveInv
BY Init_Live, LiveNext_Inv, PTL DEF LiveSpec

-----------------------------------------------------------------------------

LEMMA LiveRegistersAre ==
    /\ DOMAIN LiveRegisters = Blocks
    /\ LiveRegisters = [b \in Blocks |-> LiveRegisters[b]]
    /\ \A b \in Blocks :
          LiveRegisters[b] = {r \in RegistersRead :
                                 b \in Reachable(cfg) /\ b \in NeededAfter(r)}
BY DEF LiveRegisters

(* Only what some block reads is needed after a block, ... *)
LEMMA NeededIsRead ==
    ASSUME BaseInv, Solving, NEW r, NEW b \in NeededAfter(r)
    PROVE  r \in RegistersRead
<1> SUFFICES ASSUME r \notin RegistersRead PROVE FALSE
  OBVIOUS
<1>1. \A c \in Blocks : ~ReadsFirst(c, r)
  BY DEF ReadsFirst, RegistersRead
<1>2. \A c \in Blocks : \A s \in Succs(cfg, c) : ~ReadsFirst(s, r)
  BY <1>1, SweepBlocks, NeighboursAreBlocks
<1>3. ClosedBackwards({}, r)
  BY <1>2 DEF ClosedBackwards
<1> QED
  BY <1>3, NeededLeast

(* ... and once the first pass is over that is below the number of blocks. *)
LEMMA ReadFit ==
    ASSUME BaseInv, ~Gathering
    PROVE  RegistersRead \subseteq Fitting
<1>1. \A b \in Blocks : \A k \in 1 .. Len(code[b]) : RegsRead(code[b][k]) \subseteq Fitting
  BY DEF BaseInv, GatherInv, GatheredBy
<1> QED
  BY <1>1 DEF RegistersRead

(* No set ever has a register that is not live at the exit of its block. *)
LEMMA OnlyLive ==
    ASSUME BaseInv, SetsSound, Solving, NEW b \in Blocks
    PROVE  LiveOut[b].bits \subseteq LiveRegisters[b]
BY LiveRegistersAre, NeededIsRead DEF SetsSound

(* When every set takes in what the successors pass, the blocks that have  *)
(* register r are closed backwards, so no block that needs r is without.   *)
LEMMA AllLive ==
    ASSUME BaseInv, Solving, Solved(Len(postorder)),
           NEW r \in Fitting, NEW b \in Reachable(cfg), b \in NeededAfter(r)
    PROVE  r \in LiveOut[b].bits
<1> DEFINE S == {c \in Blocks : c \in Reachable(cfg) => r \in LiveOut[c].bits}
<1>1. /\ cfg \in Cfg /\ ~Gathering /\ Len(postorder) \in Nat
      /\ {postorder[m] : m \in 1 .. Len(postorder)} = Reachable(cfg)
      /\ \A c \in Blocks : cfg.succs[c] \in Seq(Blocks) /\ Len(cfg.succs[c]) \in Nat
  BY SweepBlocks
<1>2. r \in Fitting
  OBVIOUS
<1>3. ASSUME NEW c \in Blocks, NEW s \in Succs(cfg, c),
             ReadsFirst(s, r) \/ (s \in S /\ ~Writes(s, r)), c \in Reachable(cfg)
      PROVE  r \in LiveOut[c].bits
  <2>1. s \in Blocks /\ s \in Reachable(cfg)
    <3>1. s \in Blocks /\ s # NoBlock
      BY <1>1, NeighboursAreBlocks, NoBlockIsNone
    <3> QED
      BY <1>1, <1>3, <3>1, EntryIsBlock, ReachableClosed DEF Reachable
  <2>2. r \in PassedBy(s)
    BY <1>1, <1>2, <1>3, <2>1, Gathered DEF PassedBy
  <2>3. PICK m \in 1 .. Len(cfg.succs[c]) : cfg.succs[c][m] = s
    BY <1>1, <1>3 DEF Succs
  <2>4. TakesIn(c, Len(cfg.succs[c]))
    BY <1>1, <1>3 DEF Solved
  <2> QED
    BY <2>2, <2>3, <2>4 DEF TakesIn
<1>4. ClosedBackwards(S, r)
  <2> SUFFICES ASSUME NEW c \in Blocks, NEW s \in Succs(cfg, c),
                      ReadsFirst(s, r) \/ (s \in S /\ ~Writes(s, r))
               PROVE  c \in S
    BY DEF ClosedBackwards
  <2> QED
    BY <1>3
<1>5. b \in S
  <2>1. S \in SUBSET Blocks
    OBVIOUS
  <2> HIDE DEF S
  <2> QED
    BY <1>4, <2>1, NeededLeast
<1> QED
  BY <1>5

(* The sets of a sweep that changed nothing are the solution. *)
LEMMA ExactWhenSolved ==
    ASSUME BaseInv, SetsSound, Solving, Solved(Len(postorder))
    PROVE  LiveBits = LiveRegisters
<1>1. RegistersRead \subseteq Fitting
  BY ReadFit, SweepBlocks
<1>2. \A b \in Blocks : LiveOut[b].bits = LiveRegisters[b]
  BY <1>1, OnlyLive, AllLive, LiveRegistersAre
<1> QED
  BY <1>2, LiveRegistersAre DEF LiveBits

-----------------------------------------------------------------------------

(* Type correctness: no step of liveout_info leaves a set with bits beyond *)
(* the blocks, an index outside the order or a set of another size.        *)
THEOREM LiveTypeCorrect == LiveSpec => []LiveTypeOK
<1>1. LiveInv => LiveTypeOK
  BY DEF LiveInv, BaseInv
<1> QED
  BY <1>1, LiveInvariant, PTL

(* gather_info: on every program the first pass records for each block, in *)
(* UEVar what it reads before it writes it and in VarKill what it writes,  *)
(* whatever the number of blocks and the order of the instructions.        *)
THEOREM LiveGathersExactly == LiveSpec => []GatherExact
<1>1. LiveInv => GatherExact
  <2> SUFFICES ASSUME LiveInv, pc = "dfs", NEW b \in Blocks
               PROVE  /\ UEVar[b].bits = {r \in 0 .. NBlocks - 1 : ReadsFirst(b, r)}
                      /\ VarKill[b].bits = {r \in 0 .. NBlocks - 1 : Writes(b, r)}
    BY DEF GatherExact
  <2> QED
    BY Gathered DEF LiveInv, Gathering, Fitting
<1> QED
  BY <1>1, LiveInvariant, PTL

(* liveout_info: with no more blocks than an int has bits, the words at the *)
(* end hold exactly the registers live at the exit of every block that the  *)
(* entry reaches, those only read included, and none elsewhere, for every   *)
(* program the parser hands over.  That print_bitset stops short of the     *)
(* registers above the highest one written is not in this theorem.          *)
THEOREM LiveSetsExact == LiveSpec => []LiveOutExact
<1>1. LiveInv => LiveOutExact
  BY ExactWhenSolved DEF LiveInv, LiveOutExact, Narrow, Solving, Stable
<1> QED
  BY <1>1, LiveInvariant, PTL

-----------------------------------------------------------------------------

WithinLive == \A b \in Blocks : LiveOut[b].bits \subseteq LiveRegisters[b]

LEMMA StaysWithinLive == BaseInv /\ SetsSound /\ Solving => WithinLive
BY OnlyLive DEF WithinLive

LEMMA SameLiveRegisters == UNCHANGED <<cfg, code>> => LiveRegisters' = LiveRegisters
BY DEF LiveRegisters, RegistersRead, NeededAfter, ClosedBackwards, ReadsFirst, Writes

LEMMA Init_Tables == LiveInit => Tables!Init
<1> SUFFICES ASSUME LiveInit PROVE Tables!Init
  OBVIOUS
<1>1. pc # "lived" /\ \A b \in Blocks : LiveOut[b] = EmptySet(num_registers)
  BY DEF LiveInit
<1>2. \A b \in Blocks : LiveOut[b].bits = {}
  BY <1>1 DEF EmptySet
<1>3. LiveBits = [b \in DOMAIN LiveRegisters |-> {}]
  BY <1>2, LiveRegistersAre DEF LiveBits
<1> QED
  BY <1>1, <1>3, Zenon DEF Tables!Init

(* The turn for a successor grows the set of one block within its solution. *)
LEMMA SolveSucc_Tables ==
    ASSUME LiveInv, LiveInv', Narrow, SolveSucc
    PROVE  Tables!Grow
<1> DEFINE new == temp2'.bits
<1>1. /\ pc = "succs" /\ pc' = "succs" /\ UNCHANGED <<cfg, code>>
  BY DEF SolveSucc, postorderVars
<1>2. /\ Current \in Blocks
      /\ LiveOut' = [LiveOut EXCEPT ![Current] =
                        [max_elems |-> num_registers,
                         bits |-> LiveOut[Current].bits \union temp2'.bits]]
  BY SolveSuccIs
<1>3. BaseInv /\ BaseInv' /\ SetsSound' /\ Solving /\ Solving'
  BY <1>1 DEF LiveInv, Solving, Narrow
<1>4. LiveOut \in [Blocks -> SetsOf(num_registers)]
  BY <1>3 DEF BaseInv, LiveTypeOK
<1>5. /\ \A b \in Blocks \ {Current} : LiveOut'[b] = LiveOut[b]
      /\ LiveOut'[Current].bits = LiveOut[Current].bits \union new
  BY <1>2, <1>4
<1>6. LiveRegisters' = LiveRegisters
  BY <1>1, SameLiveRegisters
<1>7. new \subseteq LiveRegisters[Current]
  <2>1. \A b \in Blocks : LiveOut'[b].bits \subseteq LiveRegisters'[b]
    <3>1. WithinLive'
      BY <1>3, StaysWithinLive, PTL
    <3> QED
      BY <3>1 DEF WithinLive
  <2> QED
    BY <1>2, <1>5, <1>6, <2>1
<1> HIDE DEF new
<1>8. LiveBits' = [LiveBits EXCEPT ![Current] = @ \union new]
  <2>1. LiveBits' = [b \in Blocks |-> LiveOut'[b].bits]
    BY DEF LiveBits
  <2>2. \A b \in Blocks :
           LiveOut'[b].bits = IF b = Current THEN LiveOut[b].bits \union new
                              ELSE LiveOut[b].bits
    BY <1>5
  <2> QED
    BY <1>2, <2>1, <2>2 DEF LiveBits
<1>9. Current \in DOMAIN LiveRegisters /\ new \in SUBSET LiveRegisters[Current]
  BY <1>2, <1>7, LiveRegistersAre
<1> QED
  BY <1>1, <1>6, <1>8, <1>9, Zenon DEF Tables!Grow

LEMMA EndSolve_Tables ==
    ASSUME LiveInv, Narrow, EndSolve
    PROVE  Tables!Finish
<1>1. /\ pc = "block" /\ pc' = "lived" /\ UNCHANGED <<cfg, code, LiveOut>>
  BY DEF EndSolve, solveVars
<1>2. LiveBits = LiveRegisters
  BY <1>1, EndSolve_Live, ExactWhenSolved DEF LiveInv, Solving
<1>3. LiveRegisters' = LiveRegisters
  BY <1>1, SameLiveRegisters
<1>4. LiveBits' = LiveBits
  BY <1>1 DEF LiveBits
<1> QED
  BY <1>1, <1>2, <1>3, <1>4, Zenon DEF Tables!Finish

LEMMA Others_Tables ==
    ASSUME UNCHANGED <<cfg, code, LiveOut>>, (pc = "lived") <=> (pc = "lived")'
    PROVE  UNCHANGED Tables!vars
<1>1. LiveRegisters' = LiveRegisters
  BY SameLiveRegisters
<1>2. LiveBits' = LiveBits
  BY DEF LiveBits
<1> QED
  BY <1>1, <1>2, Zenon DEF Tables!vars

LEMMA LiveNext_Tables ==
    ASSUME LiveInv, LiveInv', Narrow, [LiveNext]_liveVars
    PROVE  [Tables!Next]_(Tables!vars)
<1>1. CASE SolveSucc
  BY <1>1, SolveSucc_Tables, Zenon DEF Tables!Next
<1>2. CASE EndSolve
  BY <1>2, EndSolve_Tables, Zenon DEF Tables!Next
<1>3. ASSUME \/ GatherInst \/ AssertFails \/ GatherNextBlock \/ EndGather \/ Traverse
             \/ StartSolve \/ BeginBlock \/ EndBlock \/ SweepAgain \/ UNCHANGED liveVars
      PROVE  UNCHANGED Tables!vars
  <2>1. UNCHANGED <<cfg, code, LiveOut>>
    BY <1>3
    DEF GatherInst, AssertFails, GatherNextBlock, EndGather, Traverse, PostorderNext, Descend,
        SkipChild, Return, Finish, StartSolve, BeginBlock, EndBlock, SweepAgain,
        liveVars, postorderVars, solveVars
  <2>2. (pc = "lived") <=> (pc = "lived")'
    BY <1>3
    DEF GatherInst, AssertFails, GatherNextBlock, EndGather, HasInst, Traverse, PostorderNext,
        Descend, SkipChild, Return, Finish, HasChild, StartSolve, BeginBlock, EndBlock,
        SweepAgain, liveVars, postorderVars
  <2> QED
    BY <2>1, <2>2, Others_Tables
<1> QED
  BY <1>1, <1>2, <1>3 DEF LiveNext

(* liveout_info implements the table that grows from nothing within the    *)
(* live registers, those only read included, and is handed back when its   *)
(* words hold all of them: no turn of a sweep adds a register that is not  *)
(* live, and the sweeps do not end one too early.                          *)
THEOREM LiveFillsTables ==
    ASSUME NBlocks <= INT_SIZE
    PROVE  LiveSpec => TablesFilled
<1>1. Narrow
  BY DEF Narrow
<1>2. LiveInv /\ LiveInv' /\ [LiveNext]_liveVars => [Tables!Next]_(Tables!vars)
  BY <1>1, LiveNext_Tables
<1> QED
  BY <1>2, Init_Tables, LiveInvariant, PTL DEF LiveSpec, TablesFilled, Tables!Spec

-----------------------------------------------------------------------------
(* What liveout_info has left to do: of the first pass the blocks and the     *)
(* instructions, then the traversal; of the sweeps the bits not set, whether  *)
(* this sweep has changed a set, and the blocks it has to visit; and of a     *)
(* block its successors.                                                      *)
GatherLeft ==
    IF pc = "gather" THEN <<1, NBlocks - i, Len(code[i]) + 1 - n>> ELSE <<0, 0, 0>>

BitsMissing == {e \in Blocks \X Fitting : e[2] \notin LiveOut[e[1]].bits}

(* The flag is raised after the block that makes it true. *)
SweepChanges == changed \/ (pc = "succs" /\ temp1.bits # LiveOut[Current].bits)

LiveSweepsLeft ==
    <<IF pc = "lived" THEN 0 ELSE IF Solving THEN 1 ELSE 2,
      Cardinality(BitsMissing), IF SweepChanges THEN 1 ELSE 0>>

SuccsLeft ==
    IF pc \in {"block", "succs"}
    THEN <<Len(postorder) + 1 - i, IF pc = "block" THEN 1 ELSE 0,
           IF pc = "succs" THEN Len(cfg.succs[Current]) + 1 - n ELSE 0>>
    ELSE <<0, 0, 0>>

LiveLeft == ((GatherLeft \o TraversalLeft) \o LiveSweepsLeft) \o SuccsLeft

(* It looks no further than one past the last successor. *)
WithinSuccs == pc = "succs" => n <= Len(cfg.succs[Current]) + 1

(* The first pass stops at a register that does not fit. *)
StoppedRightly == pc = "aborted" => NamesHighRegister

LiveDescentInv == LiveInv /\ WithinSuccs /\ StoppedRightly

LEMMA LiveDescent_Next == LiveDescentInv /\ [LiveNext]_liveVars => LiveDescentInv'
<1> SUFFICES ASSUME LiveDescentInv, [LiveNext]_liveVars PROVE LiveDescentInv'
  OBVIOUS
<1>1. LiveInv /\ LiveInv' /\ BaseInv
  BY LiveNext_Inv DEF LiveDescentInv, LiveInv
<1>2. CASE UNCHANGED liveVars
  <2>1. WithinSuccs' /\ StoppedRightly'
    BY <1>2 DEF liveVars, postorderVars, dfsVars, WithinSuccs, StoppedRightly, LiveDescentInv,
       Current, NamesHighRegister
  <2> QED
    BY <1>1, <2>1 DEF LiveDescentInv
<1>3. CASE BeginBlock \/ SolveSucc
  <2>1. Solving /\ pc' = "succs" /\ cfg' = cfg /\ postorder' = postorder /\ i' = i
        /\ i <= Len(postorder)
    BY <1>1, <1>3 DEF BeginBlock, SolveSucc, Solving, postorderVars, LiveInv, BlockKept
  <2>2. Current' = Current /\ Len(cfg.succs[Current]) \in Nat
    <3>1. Current \in Blocks
      BY <1>1, <1>3, <2>1, SweepBlocks DEF BeginBlock, SolveSucc
    <3> QED
      BY <1>1, <2>1, <3>1, SweepBlocks DEF Current
  <2>3. n' = 1 \/ (n \in Nat /\ n <= Len(cfg.succs[Current]) /\ n' = n + 1)
    BY <1>1, <1>3 DEF BeginBlock, SolveSucc, BaseInv, LiveTypeOK
  <2>4. n' <= Len(cfg.succs[Current]) + 1
    BY <2>2, <2>3
  <2> QED
    BY <1>1, <2>1, <2>2, <2>4 DEF LiveDescentInv, WithinSuccs, StoppedRightly
<1>4. CASE AssertFails
  <2>1. pc = "gather" /\ pc' = "aborted" /\ code' = code /\ n <= Len(code[i]) /\ ~InstFits
    BY <1>4 DEF AssertFails, HasInst
  <2>2. i \in Blocks /\ n \in 1 .. Len(code[i]) /\ UEVar[i].max_elems = NBlocks
        /\ code[i][n] \in Instruction
    <3>1. i \in Blocks /\ n \in Nat \ {0} /\ UEVar[i] \in SetsOf(NBlocks)
          /\ code[i] \in Seq(Instruction)
      BY <1>1, <2>1 DEF BaseInv, LiveTypeOK
    <3>2. n \in 1 .. Len(code[i])
      BY <2>1, <3>1
    <3> QED
      BY <3>1, <3>2, IsSet
  <2>3. PICK r \in RegsRead(Inst) \union RegsWritten(Inst) : ~(r < NBlocks)
    BY <2>1, <2>2 DEF InstFits, Fits
  <2>4. r \in Nat
    BY <2>2, <2>3, InstructionRegs DEF Inst
  <2>5. r >= NBlocks
    BY <2>3, <2>4, NBlocksAssumption
  <2>6. NamesHighRegister
    BY <2>2, <2>3, <2>5 DEF NamesHighRegister, Inst
  <2> QED
    BY <1>1, <2>1, <2>6 DEF LiveDescentInv, WithinSuccs, StoppedRightly, NamesHighRegister
<1>5. CASE \/ GatherInst \/ GatherNextBlock \/ EndGather \/ Traverse \/ StartSolve
           \/ EndBlock \/ SweepAgain \/ EndSolve
  <2>1. pc' \notin {"succs", "aborted"}
    BY <1>5 DEF GatherInst, HasInst, GatherNextBlock, EndGather, Traverse, StartSolve, EndBlock,
       SweepAgain, EndSolve, PostorderNext, Descend, SkipChild, Return, Finish, HasChild,
       postorderVars
  <2> QED
    BY <1>1, <2>1 DEF LiveDescentInv, WithinSuccs, StoppedRightly
<1> QED
  BY <1>2, <1>3, <1>4, <1>5 DEF LiveNext

LEMMA LiveDescentInvariant == LiveSpec => []LiveDescentInv
<1>1. LiveInit => LiveDescentInv
  BY Init_Live DEF LiveDescentInv, WithinSuccs, StoppedRightly, LiveInit
<1> QED
  BY <1>1, LiveDescent_Next, PTL DEF LiveSpec

(* liveout_info stops at the assertion only if some register of the program *)
(* is not below the number of blocks, and finishes only if none is.         *)
LiveStopsRightly ==
    /\ pc = "aborted" => NamesHighRegister
    /\ pc = "lived" => ~NamesHighRegister

THEOREM LiveEndIsRight == LiveSpec => []LiveStopsRightly
<1>1. LiveDescentInv => LiveStopsRightly
  <2> SUFFICES ASSUME LiveDescentInv, pc = "lived", NamesHighRegister PROVE FALSE
    BY DEF LiveDescentInv, StoppedRightly, LiveStopsRightly
  <2>1. PICK b \in Blocks : \E k \in 1 .. Len(code[b]) :
            \E r \in RegsRead(code[b][k]) \union RegsWritten(code[b][k]) : r >= NBlocks
    BY DEF NamesHighRegister
  <2>2. GatheredBy(b, Len(code[b]))
    BY <2>1 DEF LiveDescentInv, LiveInv, BaseInv, GatherInv, Gathering
  <2>3. PICK r \in Fitting : r >= NBlocks
    BY <2>1, <2>2 DEF GatheredBy
  <2> QED
    BY <2>3, NBlocksAssumption DEF Fitting
<1> QED
  BY <1>1, LiveDescentInvariant, PTL

(* The parts of the tuple are tuples of numbers. *)
LiveCounted ==
    /\ GatherLeft \in [1 .. 3 -> Nat]
    /\ TraversalLeft \in [1 .. 3 -> Nat]
    /\ LiveSweepsLeft \in [1 .. 3 -> Nat]
    /\ SuccsLeft \in [1 .. 3 -> Nat]
    /\ GatherLeft \o TraversalLeft \in [1 .. 6 -> Nat]
    /\ (GatherLeft \o TraversalLeft) \o LiveSweepsLeft \in [1 .. 9 -> Nat]
    /\ IsFiniteSet(BitsMissing) /\ Cardinality(BitsMissing) \in Nat

LEMMA LiveLeftIs == LiveDescentInv => LiveCounted
<1> SUFFICES ASSUME LiveDescentInv PROVE LiveCounted
  OBVIOUS
<1>0. BaseInv /\ LiveTypeOK /\ n \in Nat /\ NBlocks \in Nat
  BY NBlocksAssumption DEF LiveDescentInv, LiveInv, BaseInv, LiveTypeOK
<1>1. GatherLeft \in [1 .. 3 -> Nat]
  <2>1. CASE pc = "gather"
    <3>1. i \in 0 .. NBlocks - 1 /\ i \in Blocks
      BY <1>0, <2>1 DEF LiveTypeOK, Blocks
    <3>2. Len(code[i]) \in Nat /\ n <= Len(code[i]) + 1
      BY <1>0, <2>1, <3>1 DEF LiveTypeOK, BaseInv, GatherInv
    <3>3. 1 \in Nat /\ NBlocks - i \in Nat /\ Len(code[i]) + 1 - n \in Nat
      BY <1>0, <3>1, <3>2
    <3>4. GatherLeft = <<1, NBlocks - i, Len(code[i]) + 1 - n>>
      BY <2>1 DEF GatherLeft
    <3> QED
      BY <3>3, <3>4
  <2>2. CASE pc # "gather"
    BY <2>2 DEF GatherLeft
  <2> QED
    BY <2>1, <2>2
<1>2. TraversalLeft \in [1 .. 3 -> Nat]
  BY <1>0, TraversalLeftIs DEF TraversalCounted, LiveTypeOK
<1>3. IsFiniteSet(BitsMissing) /\ Cardinality(BitsMissing) \in Nat
  <2>1. IsFiniteSet(Blocks \X Fitting)
    BY BlocksFinite, FS_Product DEF Fitting, Blocks
  <2>2. BitsMissing \in SUBSET (Blocks \X Fitting)
    BY DEF BitsMissing
  <2> QED
    BY <2>1, <2>2, FS_Subset, FS_CardinalityType
<1>4. LiveSweepsLeft \in [1 .. 3 -> Nat]
  BY <1>3 DEF LiveSweepsLeft
<1>5. SuccsLeft \in [1 .. 3 -> Nat]
  <2>1. CASE pc \in {"block", "succs"}
    <3>1. Solving /\ i \in 1 .. Len(postorder) + 1 /\ Len(postorder) \in Nat
      BY <1>0, <2>1, SweepBlocks DEF LiveTypeOK, Solving
    <3>2. Len(postorder) + 1 - i \in Nat
      BY <3>1
    <3>3. pc = "succs" => Len(cfg.succs[Current]) + 1 - n \in Nat
      <4> SUFFICES ASSUME pc = "succs" PROVE Len(cfg.succs[Current]) + 1 - n \in Nat
        OBVIOUS
      <4>1. i <= Len(postorder)
        BY DEF LiveDescentInv, LiveInv, BlockKept
      <4>2. Len(cfg.succs[Current]) \in Nat
        BY <1>0, <3>1, <4>1, SweepBlocks
      <4>3. n <= Len(cfg.succs[Current]) + 1
        BY DEF LiveDescentInv, WithinSuccs
      <4> QED
        BY <1>0, <4>2, <4>3
    <3> QED
      BY <2>1, <3>2, <3>3 DEF SuccsLeft
  <2>2. CASE pc \notin {"block", "succs"}
    BY <2>2 DEF SuccsLeft
  <2> QED
    BY <2>1, <2>2
<1>6. 3 \in Nat /\ 6 \in Nat /\ 3 + 3 = 6 /\ 6 + 3 = 9
  OBVIOUS
<1>7. GatherLeft \o TraversalLeft \in [1 .. 6 -> Nat]
  <2>1. GatherLeft \o TraversalLeft \in [1 .. 3 + 3 -> Nat]
    BY <1>1, <1>2, <1>6, Together
  <2> QED
    BY <1>6, <2>1
<1>8. (GatherLeft \o TraversalLeft) \o LiveSweepsLeft \in [1 .. 9 -> Nat]
  <2>1. (GatherLeft \o TraversalLeft) \o LiveSweepsLeft \in [1 .. 6 + 3 -> Nat]
    BY <1>4, <1>6, <1>7, Together
  <2> QED
    BY <1>6, <2>1
<1> QED
  BY <1>1, <1>2, <1>3, <1>4, <1>5, <1>7, <1>8 DEF LiveCounted

(* Which part a step lowers: those before it stay, those behind it may not. *)
LEMMA LowerPart ==
    ASSUME LiveCounted, LiveCounted',
           \/ <<GatherLeft', GatherLeft>> \in Lexicographic(3)
           \/ /\ GatherLeft' = GatherLeft
              /\ <<TraversalLeft', TraversalLeft>> \in Lexicographic(3)
           \/ /\ GatherLeft' = GatherLeft /\ TraversalLeft' = TraversalLeft
              /\ <<LiveSweepsLeft', LiveSweepsLeft>> \in Lexicographic(3)
           \/ /\ GatherLeft' = GatherLeft /\ TraversalLeft' = TraversalLeft
              /\ LiveSweepsLeft' = LiveSweepsLeft
              /\ <<SuccsLeft', SuccsLeft>> \in Lexicographic(3)
    PROVE  <<LiveLeft', LiveLeft>> \in Lexicographic(12)
<1>1. 3 \in Nat /\ 6 \in Nat /\ 9 \in Nat /\ 3 + 3 = 6 /\ 6 + 3 = 9 /\ 9 + 3 = 12
  OBVIOUS
<1> DEFINE front == GatherLeft \o TraversalLeft
           most == front \o LiveSweepsLeft
<1>2. CASE <<front', front>> \in Lexicographic(6)
  <2>1. <<front' \o LiveSweepsLeft', front \o LiveSweepsLeft>> \in Lexicographic(6 + 3)
    BY <1>1, <1>2, LowerBefore DEF LiveCounted
  <2>2. <<most', most>> \in Lexicographic(9)
    BY <1>1, <2>1
  <2>3. <<most' \o SuccsLeft', most \o SuccsLeft>> \in Lexicographic(9 + 3)
    BY <1>1, <2>2, LowerBefore DEF LiveCounted
  <2> QED
    BY <1>1, <2>3 DEF LiveLeft
<1>3. CASE <<GatherLeft', GatherLeft>> \in Lexicographic(3)
  <2>1. <<GatherLeft' \o TraversalLeft', GatherLeft \o TraversalLeft>> \in Lexicographic(3 + 3)
    BY <1>1, <1>3, LowerBefore DEF LiveCounted
  <2> QED
    BY <1>1, <1>2, <2>1
<1>4. CASE /\ GatherLeft' = GatherLeft
           /\ <<TraversalLeft', TraversalLeft>> \in Lexicographic(3)
  <2>1. <<GatherLeft \o TraversalLeft', GatherLeft \o TraversalLeft>> \in Lexicographic(3 + 3)
    BY <1>1, <1>4, LowerBehind DEF LiveCounted
  <2> QED
    BY <1>1, <1>2, <1>4, <2>1
<1>5. CASE /\ GatherLeft' = GatherLeft /\ TraversalLeft' = TraversalLeft
           /\ <<LiveSweepsLeft', LiveSweepsLeft>> \in Lexicographic(3)
  <2>1. front \in [1 .. 6 -> Nat] /\ front' = front
    BY <1>5 DEF LiveCounted
  <2>2. <<front \o LiveSweepsLeft', front \o LiveSweepsLeft>> \in Lexicographic(6 + 3)
    BY <1>1, <1>5, <2>1, LowerBehind
  <2>3. <<most', most>> \in Lexicographic(9)
    BY <1>1, <2>1, <2>2
  <2>4. <<most' \o SuccsLeft', most \o SuccsLeft>> \in Lexicographic(9 + 3)
    BY <1>1, <2>3, LowerBefore DEF LiveCounted
  <2> QED
    BY <1>1, <2>4 DEF LiveLeft
<1>6. CASE /\ GatherLeft' = GatherLeft /\ TraversalLeft' = TraversalLeft
           /\ LiveSweepsLeft' = LiveSweepsLeft
           /\ <<SuccsLeft', SuccsLeft>> \in Lexicographic(3)
  <2>1. most \in [1 .. 9 -> Nat] /\ most' = most
    BY <1>6 DEF LiveCounted
  <2>2. <<most \o SuccsLeft', most \o SuccsLeft>> \in Lexicographic(9 + 3)
    BY <1>1, <1>6, <2>1, LowerBehind
  <2> QED
    BY <1>1, <2>1, <2>2 DEF LiveLeft
<1> QED
  BY <1>3, <1>4, <1>5, <1>6

(* Going on by one leaves one less. *)
LEMMA OneLess ==
    ASSUME NEW len \in Nat, NEW k \in Nat, k <= len
    PROVE  /\ len + 1 - (k + 1) \in Nat /\ len + 1 - k \in Nat
           /\ len + 1 - (k + 1) < len + 1 - k
OBVIOUS

(* The first pass, ... *)
LEMMA GatherLowers ==
    ASSUME LiveDescentInv, LiveCounted, LiveCounted',
           GatherInst \/ AssertFails \/ GatherNextBlock \/ EndGather
    PROVE  <<GatherLeft', GatherLeft>> \in Lexicographic(3)
<1>1. pc = "gather" /\ i \in 0 .. NBlocks - 1 /\ i \in Blocks /\ Len(code[i]) \in Nat
      /\ n \in Nat /\ n <= Len(code[i]) + 1 /\ code' = code /\ NBlocks \in Nat
  BY NBlocksAssumption DEF LiveDescentInv, LiveInv, BaseInv, GatherInv, LiveTypeOK, Blocks,
     GatherInst, AssertFails, GatherNextBlock, EndGather, HasInst
<1> DEFINE a == NBlocks - i
           b == Len(code[i]) + 1 - n
<1>2. GatherLeft = <<1, a, b>> /\ a \in Nat /\ b \in Nat
  BY <1>1 DEF GatherLeft
<1>3. 0 \in Nat /\ 1 \in Nat /\ 0 < 1
  OBVIOUS
<1>4. CASE AssertFails \/ EndGather
  <2>1. GatherLeft' = <<0, 0, 0>>
    BY <1>4 DEF AssertFails, EndGather, GatherLeft
  <2> HIDE DEF a, b
  <2> QED
    BY <1>2, <1>3, <2>1, LowerOfThree
<1>5. CASE GatherInst
  <2>1. pc' = "gather" /\ i' = i /\ n' = n + 1 /\ n <= Len(code[i])
    BY <1>5 DEF GatherInst, HasInst, postorderVars
  <2> DEFINE c == Len(code[i]) + 1 - (n + 1)
  <2>2. GatherLeft' = <<1, a, c>>
    BY <1>1, <2>1 DEF GatherLeft
  <2>3. c \in Nat /\ c < b
    BY <1>1, <2>1, OneLess
  <2> HIDE DEF a, b, c
  <2> QED
    BY <1>2, <1>3, <2>2, <2>3, LowerOfThree
<1>6. CASE GatherNextBlock
  <2>1. pc' = "gather" /\ i' = i + 1 /\ n' = 1 /\ i < NBlocks - 1
    BY <1>6 DEF GatherNextBlock, postorderVars
  <2> DEFINE c == NBlocks - (i + 1)
             d == Len(code[i + 1]) + 1 - 1
  <2>2. i + 1 \in Blocks
    BY <1>1, <2>1 DEF Blocks
  <2>3. Len(code[i + 1]) \in Nat
    BY <2>2 DEF LiveDescentInv, LiveInv, BaseInv, LiveTypeOK
  <2>4. GatherLeft' = <<1, c, d>> /\ c \in Nat /\ d \in Nat /\ c < a
    BY <1>1, <2>1, <2>3 DEF GatherLeft
  <2> HIDE DEF a, b, c, d
  <2> QED
    BY <1>2, <1>3, <2>4, LowerOfThree
<1> QED
  BY <1>4, <1>5, <1>6

(* ... the sweeps, ... *)
LEMMA BitsGained ==
    ASSUME LiveInv, SolveSucc, IsFiniteSet(BitsMissing)
    PROVE  LiveOut' = LiveOut \/ Cardinality(BitsMissing') < Cardinality(BitsMissing)
<1> DEFINE o == LiveOut[Current].bits \union temp2'.bits
<1>1. /\ Current \in Blocks /\ temp2'.bits \subseteq Fitting
      /\ LiveOut' = [LiveOut EXCEPT ![Current] = [max_elems |-> num_registers, bits |-> o]]
  BY SolveSuccIs
<1>2. /\ LiveOut \in [Blocks -> SetsOf(num_registers)]
      /\ LiveOut[Current] = [max_elems |-> num_registers, bits |-> LiveOut[Current].bits]
  <2>1. LiveOut \in [Blocks -> SetsOf(num_registers)]
    BY DEF LiveInv, BaseInv, LiveTypeOK
  <2> QED
    BY <1>1, <2>1, IsSet
<1>3. o = LiveOut[Current].bits => LiveOut' = LiveOut
  <2> HIDE DEF o
  <2> QED
    BY <1>1, <1>2
<1> SUFFICES ASSUME o # LiveOut[Current].bits
             PROVE  Cardinality(BitsMissing') < Cardinality(BitsMissing)
  BY <1>3
<1>4. PICK r \in Fitting : r \in o /\ r \notin LiveOut[Current].bits
  BY <1>1
<1>5. LiveOut'[Current].bits = o /\ \A b \in Blocks \ {Current} : LiveOut'[b] = LiveOut[b]
  <2> HIDE DEF o
  <2> QED
    BY <1>1, <1>2
<1> DEFINE e == <<Current, r>>
<1>6. e \in BitsMissing /\ e \notin BitsMissing'
  BY <1>1, <1>4, <1>5 DEF BitsMissing
<1>7. \A b \in Blocks : LiveOut[b].bits \subseteq LiveOut'[b].bits
  BY <1>5
<1>8. BitsMissing' \subseteq BitsMissing
  BY <1>7 DEF BitsMissing, Fitting
<1> HIDE DEF e
<1> QED
  BY <1>6, <1>8, FewerLeft

LEMMA SweepsLower ==
    ASSUME LiveDescentInv, LiveDescentInv', LiveCounted, LiveCounted',
           StartSolve \/ SolveSucc \/ SweepAgain \/ EndSolve,
           SolveSucc => LiveOut' # LiveOut
    PROVE  <<LiveSweepsLeft', LiveSweepsLeft>> \in Lexicographic(3)
<1> DEFINE c == Cardinality(BitsMissing)
           d == Cardinality(BitsMissing')
           f == IF SweepChanges THEN 1 ELSE 0
           g == IF SweepChanges' THEN 1 ELSE 0
<1>1. c \in Nat /\ d \in Nat /\ f \in Nat /\ g \in Nat
  BY DEF LiveCounted
<1>2. 0 \in Nat /\ 1 \in Nat /\ 2 \in Nat /\ 0 < 1 /\ 1 < 2
  OBVIOUS
<1>3. CASE StartSolve
  <2>1. LiveSweepsLeft = <<2, c, f>> /\ LiveSweepsLeft' = <<1, d, g>>
    BY <1>3 DEF StartSolve, LiveSweepsLeft, Solving
  <2> HIDE DEF c, d, f, g
  <2> QED
    BY <1>1, <1>2, <2>1, LowerOfThree
<1>4. CASE SolveSucc
  <2>1. LiveSweepsLeft = <<1, c, f>> /\ LiveSweepsLeft' = <<1, d, g>>
    BY <1>4 DEF SolveSucc, LiveSweepsLeft, Solving, postorderVars
  <2>2. d < c
    BY <1>4, BitsGained DEF LiveDescentInv, LiveCounted
  <2> HIDE DEF c, d, f, g
  <2> QED
    BY <1>1, <1>2, <2>1, <2>2, LowerOfThree
<1>5. CASE SweepAgain
  <2>1. pc = "block" /\ pc' = "block" /\ changed /\ ~changed' /\ LiveOut' = LiveOut
    BY <1>5 DEF SweepAgain, Settled, FreshChange, postorderVars
  <2>2. f = 1 /\ g = 0 /\ BitsMissing' = BitsMissing
    BY <2>1 DEF SweepChanges, BitsMissing, Fitting
  <2>3. LiveSweepsLeft = <<1, c, 1>> /\ LiveSweepsLeft' = <<1, c, 0>>
    BY <2>1, <2>2 DEF LiveSweepsLeft, Solving
  <2> HIDE DEF c, d, f, g
  <2> QED
    BY <1>1, <1>2, <2>3, LowerOfThree
<1>6. CASE EndSolve
  <2>1. LiveSweepsLeft = <<1, c, f>> /\ LiveSweepsLeft' = <<0, d, g>>
    BY <1>6 DEF EndSolve, LiveSweepsLeft, Solving
  <2> HIDE DEF c, d, f, g
  <2> QED
    BY <1>1, <1>2, <2>1, LowerOfThree
<1> QED
  BY <1>3, <1>4, <1>5, <1>6

(* ... and the steps of a block that leave the sets alone. *)
LEMMA SuccsLower ==
    ASSUME LiveDescentInv, LiveDescentInv', LiveCounted, LiveCounted',
           BeginBlock \/ SolveSucc \/ EndBlock, LiveOut' = LiveOut
    PROVE  /\ LiveSweepsLeft' = LiveSweepsLeft
           /\ <<SuccsLeft', SuccsLeft>> \in Lexicographic(3)
<1>1. /\ LiveInv /\ BaseInv /\ Solving /\ Solving' /\ i <= Len(postorder)
      /\ cfg' = cfg /\ postorder' = postorder
      /\ pc \in {"block", "succs"} /\ pc' \in {"block", "succs"}
  BY DEF LiveDescentInv, LiveInv, BlockKept, BeginBlock, SolveSucc, EndBlock, Solving,
         postorderVars
<1>2. /\ Current \in Blocks /\ i \in 1 .. Len(postorder) /\ Len(postorder) \in Nat
      /\ Len(cfg.succs[Current]) \in Nat
      /\ n \in Nat /\ n' \in Nat
  BY <1>1, SweepBlocks DEF LiveDescentInv, LiveInv, BaseInv, LiveTypeOK
<1>3. BitsMissing' = BitsMissing
  BY DEF BitsMissing, Fitting
<1> DEFINE a == Len(postorder) + 1 - i
           k == Len(cfg.succs[Current]) + 1 - n
<1>4. a \in Nat /\ 0 \in Nat /\ 1 \in Nat /\ 0 < 1
  BY <1>2
<1>5. CASE BeginBlock
  <2>1. /\ pc = "block" /\ pc' = "succs" /\ i' = i /\ changed' = changed
        /\ temp1' = bset_copy(temp1, LiveOut[Current]) /\ n' = 1
    BY <1>5 DEF BeginBlock
  <2>2. Current' = Current
    BY <1>1, <2>1 DEF Current
  <2>3. temp1'.bits = LiveOut[Current].bits
    <3>1. LiveOut[Current] \in SetsOf(num_registers) /\ temp1 \in SetsOf(num_registers)
      BY <1>1, <1>2, SweepBlocks DEF BaseInv, LiveTypeOK
    <3>2. temp1.max_elems = LiveOut[Current].max_elems
      BY <3>1, IsSet
    <3>3. temp1 = [max_elems |-> num_registers, bits |-> temp1.bits]
      BY <3>1, IsSet
    <3>4. temp1' = [temp1 EXCEPT !.bits = LiveOut[Current].bits]
      BY <2>1, <3>2, Zenon DEF bset_copy
    <3>5. \A new : [temp1 EXCEPT !.bits = new] = [max_elems |-> num_registers, bits |-> new]
      BY <3>3, WithBits
    <3>6. temp1' = [max_elems |-> num_registers, bits |-> LiveOut[Current].bits]
      BY <3>4, <3>5, Zenon
    <3> QED
      BY <3>6
  <2>4. (SweepChanges' <=> SweepChanges)
    BY <2>1, <2>2, <2>3 DEF SweepChanges
  <2>5. LiveSweepsLeft' = LiveSweepsLeft
    BY <1>1, <1>3, <2>4 DEF LiveSweepsLeft, Solving
  <2> DEFINE m == Len(cfg.succs[Current]) + 1 - 1
  <2>6. SuccsLeft = <<a, 1, 0>>
    BY <2>1 DEF SuccsLeft
  <2>7. SuccsLeft' = <<a, 0, m>>
    BY <1>1, <2>1, <2>2 DEF SuccsLeft
  <2>8. m \in Nat
    BY <1>2
  <2>9. <<SuccsLeft', SuccsLeft>> \in Lexicographic(3)
    <3> HIDE DEF a, m
    <3> QED
      BY <1>4, <2>6, <2>7, <2>8, LowerOfThree
  <2> QED
    BY <2>5, <2>9
<1>6. CASE SolveSucc
  <2>1. /\ pc = "succs" /\ pc' = "succs" /\ i' = i /\ changed' = changed /\ temp1' = temp1
        /\ n' = n + 1 /\ n <= Len(cfg.succs[Current])
    BY <1>6 DEF SolveSucc, postorderVars
  <2>2. Current' = Current
    BY <1>1, <2>1 DEF Current
  <2>3. (SweepChanges' <=> SweepChanges)
    BY <2>1, <2>2 DEF SweepChanges
  <2>4. LiveSweepsLeft' = LiveSweepsLeft
    BY <1>1, <1>3, <2>3 DEF LiveSweepsLeft, Solving
  <2> DEFINE m == Len(cfg.succs[Current]) + 1 - (n + 1)
  <2>5. SuccsLeft = <<a, 0, k>>
    BY <2>1 DEF SuccsLeft
  <2>6. SuccsLeft' = <<a, 0, m>>
    BY <1>1, <2>1, <2>2 DEF SuccsLeft
  <2>7. m \in Nat /\ k \in Nat /\ m < k
    BY <1>2, <2>1, OneLess
  <2>8. <<SuccsLeft', SuccsLeft>> \in Lexicographic(3)
    <3> HIDE DEF a, m, k
    <3> QED
      BY <1>4, <2>5, <2>6, <2>7, LowerOfThree
  <2> QED
    BY <2>4, <2>8
<1>7. CASE EndBlock
  <2>1. /\ pc = "succs" /\ pc' = "block" /\ i' = i + 1
        /\ changed' = (changed \/ ~bset_eq(temp1, LiveOut[Current]))
    BY <1>7 DEF EndBlock
  <2>2. bset_eq(temp1, LiveOut[Current]) <=> temp1.bits = LiveOut[Current].bits
    <3>1. LiveOut[Current] \in SetsOf(num_registers) /\ temp1 \in SetsOf(num_registers)
      BY <1>1, <1>2, SweepBlocks DEF BaseInv, LiveTypeOK
    <3>2. temp1.max_elems = LiveOut[Current].max_elems
      BY <3>1, IsSet
    <3> QED
      BY <3>2 DEF bset_eq
  <2>3. (SweepChanges' <=> SweepChanges)
    BY <2>1, <2>2 DEF SweepChanges
  <2>4. LiveSweepsLeft' = LiveSweepsLeft
    BY <1>1, <1>3, <2>3 DEF LiveSweepsLeft, Solving
  <2> DEFINE c == Len(postorder) + 1 - (i + 1)
  <2>5. SuccsLeft = <<a, 0, k>>
    BY <2>1 DEF SuccsLeft
  <2>6. SuccsLeft' = <<c, 1, 0>>
    BY <1>1, <2>1 DEF SuccsLeft
  <2>7. c \in Nat /\ c < a
    BY <1>2
  <2>8. k \in Nat
    <3>1. n <= Len(cfg.succs[Current]) + 1
      BY <2>1 DEF LiveDescentInv, WithinSuccs
    <3> QED
      BY <1>2, <3>1
  <2>9. <<SuccsLeft', SuccsLeft>> \in Lexicographic(3)
    <3> HIDE DEF a, c, k
    <3> QED
      BY <1>4, <2>5, <2>6, <2>7, <2>8, LowerOfThree
  <2> QED
    BY <2>4, <2>9
<1> QED
  BY <1>5, <1>6, <1>7

LEMMA LiveRunsDown ==
    ASSUME LiveDescentInv, LiveNext
    PROVE  <<LiveLeft', LiveLeft>> \in Lexicographic(12)
<1>1. LiveDescentInv'
  BY LiveDescent_Next
<1>2. LiveCounted /\ LiveCounted'
  <2>1. LiveDescentInv' => LiveCounted'
    BY LiveLeftIs, PTL
  <2> QED
    BY <1>1, <2>1, LiveLeftIs
<1>3. CASE GatherInst \/ AssertFails \/ GatherNextBlock \/ EndGather
  BY <1>2, <1>3, GatherLowers, LowerPart
<1>4. CASE Traverse
  <2>1. PostorderInv /\ pc = "dfs" /\ pc' \in {"dfs", "ordered"}
    BY <1>4 DEF LiveDescentInv, LiveInv, BaseInv, OrderInv, Gathering, Traverse, PostorderNext,
       Descend, SkipChild, Return, Finish, HasChild
  <2>2. <<TraversalLeft', TraversalLeft>> \in Lexicographic(3)
    BY <1>4, <2>1, TraversalRunsDown DEF Traverse
  <2>3. GatherLeft' = GatherLeft
    BY <2>1 DEF GatherLeft
  <2> QED
    BY <1>2, <2>2, <2>3, LowerPart
<1>5. CASE StartSolve \/ BeginBlock \/ SolveSucc \/ EndBlock \/ SweepAgain \/ EndSolve
  <2>1. /\ pc \in {"ordered", "block", "succs"} /\ pc' \in {"block", "succs", "lived"}
        /\ UNCHANGED <<cfg, path, cursor>>
    BY <1>5 DEF StartSolve, BeginBlock, SolveSucc, EndBlock, SweepAgain, EndSolve, dfsVars,
       postorderVars
  <2>2. GatherLeft' = GatherLeft /\ TraversalLeft' = TraversalLeft
    BY <2>1 DEF GatherLeft, TraversalLeft, Unlooked
  <2>3. CASE StartSolve \/ SweepAgain \/ EndSolve \/ (SolveSucc /\ LiveOut' # LiveOut)
    <3>1. SolveSucc => LiveOut' # LiveOut
      BY <2>3 DEF StartSolve, SweepAgain, EndSolve, SolveSucc, postorderVars
    <3>2. <<LiveSweepsLeft', LiveSweepsLeft>> \in Lexicographic(3)
      BY <1>1, <1>2, <2>3, <3>1, SweepsLower
    <3> QED
      BY <1>2, <2>2, <3>2, LowerPart
  <2>4. CASE BeginBlock \/ EndBlock \/ (SolveSucc /\ LiveOut' = LiveOut)
    <3>1. LiveOut' = LiveOut
      BY <2>4 DEF BeginBlock, EndBlock
    <3> QED
      BY <1>1, <1>2, <2>2, <2>4, <3>1, SuccsLower, LowerPart
  <2> QED
    BY <1>5, <2>3, <2>4
<1> QED
  BY <1>3, <1>4, <1>5 DEF LiveNext

(* liveout_info cannot go on for ever on any program, with as many registers *)
(* as it likes: a sweep is repeated only after one that set a bit, no bit is *)
(* ever reset, and those there are to set are the registers that passed the  *)
(* assertions of the first pass.                                             *)
LiveDescends == [][(<<LiveLeft', LiveLeft>> \in Lexicographic(12))]_liveVars

THEOREM LiveCannotGoOn == LiveSpec => LiveDescends
<1>1. LiveDescentInv /\ [LiveNext]_liveVars
          => [(<<LiveLeft', LiveLeft>> \in Lexicographic(12))]_liveVars
  BY LiveRunsDown
<1> QED
  BY <1>1, LiveDescentInvariant, PTL DEF LiveSpec, LiveDescends

=============================================================================
