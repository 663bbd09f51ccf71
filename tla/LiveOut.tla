------------------------------- MODULE LiveOut -------------------------------
(***************************************************************************)
(* liveout_info of src/live_information/liveout.h: the registers that are  *)
(* live at the exit of each block.  A first pass over the instructions     *)
(* gathers, per block, the registers read before they are written (UEVar)  *)
(* and the registers written (VarKill); sweeps over the blocks in          *)
(* postorder then add to LiveOut until one of them adds nothing.           *)
(*                                                                         *)
(* The sets of the first pass have one bit per block, those of the second  *)
(* one bit per register up to the highest one written.                     *)
(***************************************************************************)
EXTENDS Postorder, IR, BitSet

CONSTANT Programs   \* what the parser may hand over: per block its instructions

(* The successors come from the branches, as the parser adds them. *)
CfgOf(program) == BuildCfg([b \in Blocks |-> BranchTargets(program[b])])

ASSUME ProgramsAssumption ==
    /\ \A p \in Programs : p \in [Blocks -> Seq(Instruction)]
    /\ Cfgs = {CfgOf(p) : p \in Programs}

VARIABLES
    code,           \* block -> its instructions
    UEVar, VarKill, \* block -> BitSet
    LiveOut,        \* block -> BitSet
    temp1, temp2,   \* BitSet
    i,              \* the block in the first pass, then the index into postorder
    n,              \* the instruction in the first pass, then the successor
    changed         \* this sweep changed a set

gatherVars == <<UEVar, VarKill>>
solveVars == <<LiveOut, temp1, temp2, changed>>
liveVars == <<postorderVars, code, gatherVars, solveVars, i, n>>

(* max_register of the parser, which looks at the registers written only *)
(* and starts at 0; num_registers is one more.                           *)
WrittenIn(insts) == UNION {RegsWritten(insts[k]) : k \in 1 .. Len(insts)}

max_register ==
    LET written == {0} \union UNION {WrittenIn(code[b]) : b \in Blocks}
    IN  CHOOSE r \in written : \A s \in written : s <= r

num_registers == max_register + 1

LiveInit ==
    /\ code \in Programs
    /\ cfg = CfgOf(code)
    /\ TraversalInit
    /\ pc = "gather"
    /\ UEVar = [b \in Blocks |-> EmptySet(NBlocks)]
    /\ VarKill = [b \in Blocks |-> EmptySet(NBlocks)]
    /\ LiveOut = [b \in Blocks |-> EmptySet(num_registers)]
    /\ temp1 = EmptySet(num_registers)
    /\ temp2 = EmptySet(num_registers)
    /\ i = 0
    /\ n = 1
    /\ changed = FALSE

(* The instruction that gather_info_for_block looks at.  A register number *)
(* that is not below the number of blocks fails the assertion of bset_add  *)
(* or bset_is_in.                                                          *)
HasInst == pc = "gather" /\ n <= Len(code[i])
Inst == code[i][n]
InstFits == \A r \in RegsRead(Inst) \union RegsWritten(Inst) : Fits(UEVar[i], r)

(* Mutant: the register is written before the operands are looked at. *)
ExposedAfter(inst, kill) == RegsRead(inst) \ (kill \union RegsWritten(inst))
ExposedBy(inst, kill) == RegsRead(inst) \ kill

GatherInst ==
    /\ HasInst
    /\ InstFits
    /\ UEVar' = [UEVar EXCEPT ![i].bits = @ \union ExposedBy(Inst, VarKill[i].bits)]
    /\ VarKill' = [VarKill EXCEPT ![i].bits = @ \union RegsWritten(Inst)]
    /\ n' = n + 1
    /\ UNCHANGED <<postorderVars, code, solveVars, i>>

AssertFails ==
    /\ HasInst
    /\ ~InstFits
    /\ pc' = "aborted"
    /\ UNCHANGED <<cfg, dfsVars, postorder, code, gatherVars, solveVars, i, n>>

GatherNextBlock ==
    /\ pc = "gather"
    /\ n > Len(code[i])
    /\ i < NBlocks - 1
    /\ i' = i + 1
    /\ n' = 1
    /\ UNCHANGED <<postorderVars, code, gatherVars, solveVars>>

EndGather ==
    /\ pc = "gather"
    /\ n > Len(code[i])
    /\ i = NBlocks - 1
    /\ pc' = "dfs"
    /\ UNCHANGED <<cfg, dfsVars, postorder, code, gatherVars, solveVars, i, n>>

Traverse == PostorderNext /\ UNCHANGED <<code, gatherVars, solveVars, i, n>>

(* Mutant: the sweep starts one place before the first block. *)
BeforeFirst == 0
SweepStart == 1

StartSolve ==
    /\ pc = "ordered"
    /\ changed' = FALSE
    /\ i' = SweepStart
    /\ pc' = "block"
    /\ UNCHANGED <<cfg, dfsVars, postorder, code, gatherVars, LiveOut, temp1, temp2, n>>

Current == postorder[i]
Succ == cfg.succs[Current][n]

BeginBlock ==
    /\ pc = "block"
    /\ i <= Len(postorder)
    /\ temp1' = bset_copy(temp1, LiveOut[Current])
    /\ n' = 1
    /\ pc' = "succs"
    /\ UNCHANGED <<cfg, dfsVars, postorder, code, gatherVars, LiveOut, temp2, changed, i>>

(* Mutant: what the successor writes is passed on to its predecessors. *)
AllPass(temp, kill) == bset_not(EmptySet(temp.max_elems))

(* temp, made the complement of what the successor writes.  It keeps its *)
(* last value instead when the sets differ in size.                      *)
NotWritten(temp, kill) == bset_not(bset_copy(temp, kill))

(* The turn of liveout_solve_equ_for_bb for one successor. *)
SolveSucc ==
    /\ pc = "succs"
    /\ n <= Len(cfg.succs[Current])
    /\ temp2' = union_equal_sets_in_place(
                    intersect_equal_sets_in_place(
                        NotWritten(temp2, VarKill[Succ]), LiveOut[Succ]),
                    UEVar[Succ])
    /\ LiveOut' = [LiveOut EXCEPT ![Current] = union_equal_sets_in_place(@, temp2')]
    /\ n' = n + 1
    /\ UNCHANGED <<postorderVars, code, gatherVars, temp1, changed, i>>

EndBlock ==
    /\ pc = "succs"
    /\ n > Len(cfg.succs[Current])
    /\ changed' = (changed \/ ~bset_eq(temp1, LiveOut[Current]))
    /\ i' = i + 1
    /\ pc' = "block"
    /\ UNCHANGED <<cfg, dfsVars, postorder, code, gatherVars, LiveOut, temp1, temp2, n>>

(* Mutant: the flag is not reset for the next sweep. *)
StaleChange == changed
FreshChange == FALSE

(* Mutant: one sweep is taken to be enough. *)
SettledAtOnce == TRUE
Settled == ~changed

SweepAgain ==
    /\ pc = "block"
    /\ i > Len(postorder)
    /\ ~Settled
    /\ changed' = FreshChange
    /\ i' = SweepStart
    /\ UNCHANGED <<postorderVars, code, gatherVars, LiveOut, temp1, temp2, n>>

EndSolve ==
    /\ pc = "block"
    /\ i > Len(postorder)
    /\ Settled
    /\ pc' = "lived"
    /\ UNCHANGED <<cfg, dfsVars, postorder, code, gatherVars, solveVars, i, n>>

LiveNext ==
    \/ GatherInst \/ AssertFails \/ GatherNextBlock \/ EndGather
    \/ Traverse \/ StartSolve
    \/ BeginBlock \/ SolveSucc \/ EndBlock
    \/ SweepAgain \/ EndSolve

LiveSpec == LiveInit /\ [][LiveNext]_liveVars /\ WF_liveVars(LiveNext)

-----------------------------------------------------------------------------

(* The bits that can ever be set are register numbers below the number of *)
(* blocks, also in the sets that are sized by the registers.              *)
SetsOf(size) == [max_elems : {size}, bits : SUBSET (0 .. NBlocks - 1)]

LiveTypeOK ==
    /\ PostorderTypeOK
    /\ code \in [Blocks -> Seq(Instruction)]
    /\ UEVar \in [Blocks -> SetsOf(NBlocks)]
    /\ VarKill \in [Blocks -> SetsOf(NBlocks)]
    /\ LiveOut \in [Blocks -> SetsOf(num_registers)]
    /\ temp1 \in SetsOf(num_registers)
    /\ temp2.max_elems = num_registers /\ temp2.bits \subseteq Words(temp2)
    /\ pc = "gather" => i \in Blocks
    /\ pc \in {"block", "succs"} => i \in 1 .. Len(postorder) + 1
    /\ n \in Nat \ {0}
    /\ changed \in BOOLEAN

(* Block b writes register r; it reads r before it does. *)
Writes(b, r) == \E k \in 1 .. Len(code[b]) : r \in RegsWritten(code[b][k])
ReadsFirst(b, r) ==
    \E k \in 1 .. Len(code[b]) :
        /\ r \in RegsRead(code[b][k])
        /\ \A m \in 1 .. k - 1 : r \notin RegsWritten(code[b][m])

(* The first pass finds for every block, also one that cannot be reached,  *)
(* what it reads before it writes it and what it writes.                   *)
GatherExact ==
    pc = "dfs" =>
        \A b \in Blocks :
            /\ UEVar[b].bits = {r \in 0 .. NBlocks - 1 : ReadsFirst(b, r)}
            /\ VarKill[b].bits = {r \in 0 .. NBlocks - 1 : Writes(b, r)}

(* Register r is needed after b: some walk from a successor of b leads     *)
(* through blocks that do not write r to one that reads it first.  The     *)
(* blocks such walks start from are the least set closed backwards.        *)
ClosedBackwards(S, r) ==
    \A b \in Blocks :
        (\E s \in Succs(cfg, b) : ReadsFirst(s, r) \/ (s \in S /\ ~Writes(s, r))) => b \in S

NeededAfter(r) ==
    LET closed == {S \in SUBSET Blocks : ClosedBackwards(S, r)}
    IN  {b \in Blocks : \A S \in closed : b \in S}

RegistersRead ==
    UNION {UNION {RegsRead(code[b][k]) : k \in 1 .. Len(code[b])} : b \in Blocks}

(* What is live at the exit of the blocks that the traversal lists; the *)
(* others are never visited.                                            *)
LiveRegisters ==
    LET needed == [r \in RegistersRead |-> NeededAfter(r)]
        reach == Reachable(cfg)
    IN  [b \in Blocks |-> {r \in RegistersRead : b \in reach /\ b \in needed[r]}]

(* The registers whose bits are set in the words of the sets. *)
LiveBits == [b \in Blocks |-> LiveOut[b].bits]

(* With no more blocks than an int has bits, the words at the end hold     *)
(* exactly the live registers of each reachable block: none is missing,    *)
(* and none is left that is not live.  A set shows less than its words     *)
(* hold: bset_is_in and print_bitset stop at the highest register written, *)
(* and a live register above it, one that is only read, is never seen; see *)
(* EquationsHold.                                                          *)
LiveOutExact == (pc = "lived" /\ NBlocks <= INT_SIZE) => LiveBits = LiveRegisters

(* "an implementation of the LiveOut Data-flow equations"                  *)
(* (live_information/README.md:3), which "outputs the live variables at    *)
(* the exit for each basic block" (README.md:21): the sets at the end, as  *)
(* they are printed, solve the equations for every register that is read.  *)
EquationsHold ==
    pc = "lived" =>
        \A b \in Blocks :
            Elements(LiveOut[b]) =
                {r \in RegistersRead :
                    \E s \in Succs(cfg, b) :
                        ReadsFirst(s, r) \/ (r \in Elements(LiveOut[s]) /\ ~Writes(s, r))}

(* The sweeps without how they go about it: words that start empty, grow   *)
(* within the live registers, and are returned when they hold all of them. *)
Tables == INSTANCE LiveTables WITH
    solution <- LiveRegisters,
    sets <- LiveBits,
    done <- (pc = "lived")

TablesFilled == Tables!Spec

(* The program ends: at the assertion exactly when some block, reachable   *)
(* or not, names a register that is not below the number of blocks, and    *)
(* with all sweeps done otherwise.                                         *)
NamesHighRegister ==
    \E b \in Blocks : \E k \in 1 .. Len(code[b]) :
        \E r \in RegsRead(code[b][k]) \union RegsWritten(code[b][k]) : r >= NBlocks

LiveEnds == <>IF NamesHighRegister THEN pc = "aborted" ELSE pc = "lived"
=============================================================================
