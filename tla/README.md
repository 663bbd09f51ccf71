# Verification of the compiler-optimization passes

This directory holds TLA+ models of the passes in this repository, the TLC
configurations that check them on small control-flow graphs, and TLAPS proofs of
what holds on every graph. The programs are sequential: a run reads one
control-flow graph (CFG), makes one pass over it after another and prints. What
is hard about them is not concurrency but fixed points, orders and boundaries:
sweeps that work with half-finished results, loops whose end depends on the shape
of a tree another pass left, sentinel indices, and inputs (unreachable blocks,
loops back to the entry, a block that branches to itself) that no test file
contains.

## Inventory

| Component | State | Operations | What makes it correct |
|---|---|---|---|
| `common/cfg.h` CFG | per block the lists `succs`, `preds`, instructions | constructor, `add_edge`, special constructors | both lists describe the same edges |
| `common/parser_ir.h` parser | input position, token, line, `curr_bb`, highest register | `next_token`, `parse_instruction`, `parse_bb`, `count_bbs`, `parse_procedure` | edges in textual order; every label names a block; errors stop the program |
| `common/utils.h` traversal | `visited`, `postorder`, the stack of calls | `postorder_dfs`, `postorder_helper` | lists the reachable blocks, each once, the entry last; only edges that close a cycle lead to a later block |
| `dominance/dtree.h` dominator tree | `idoms`, `postorder_map`, loop variables | `build`, `intersect`, `idom`, `dominates`, `is_reachable_from_entry` | `idoms` are the immediate dominators; every loop ends; no index -1 |
| `dominance/dom_frontiers.h` frontiers | `DF`, the runner | `dom_frontiers`, `is_join_point` | the sets are the dominance frontiers; the runner stops |
| `dominance/dataflow.h` dominator sets | `dominators`, `temp`, `change` | `compute_dominators` | ends with the greatest solution of the equation |
| `dominance/lengauer-tarjan.h` | the arrays of the paper, buckets as linked lists | `custom_dfs`, `lt_slow`, `ancestor_with_lowest_semi`, `link` | depth-first tree; semidominators; immediate dominators |
| `loops/loop_info.h` natural loops | the loops, one loop's blocks and stack | `LoopInfo`, `Loop` | one natural loop per back edge; loops nest |
| `live_information/liveout.h` | `UEVar`, `VarKill`, `LiveOut` | `gather_info_for_block`, `liveout_solve_equ_for_bb`, `liveout_info` | least solution of the equation; sets of the right size |
| `local_value_numbering/lvn.h` | two tables of numbers, a counter | `apply`, `clear` | a replaced addition has the value of the register it is replaced by |
| `common/bitset.h`, `stack.h`, `buf.h`, `list.h` | words; elements and `curr`; data, length, capacity; links | the containers | each behaves as the set, stack, sequence or list it stands for |

The components call each other in one direction. The parser builds the CFG and
passes it by value, its buffers being shared by all copies. `build`,
`compute_dominators` and `liveout_info` call `postorder_dfs` first.
`print_dom_fronts.cpp` runs `build` and then `dom_frontiers` on its tree;
`LoopInfo` runs `build` and then asks `dominates`; `benchmark.cpp` runs the three
dominator algorithms one after the other on generated graphs. There are no
threads, callbacks, messages, timeouts or files kept between runs, so there are
no interleavings, crashes or retries to model. The order of the predecessor and
successor lists decides what the passes do and is the main source of
nondeterminism in the models; the content of freshly allocated memory is the
other.

The hazards, at their lines, are listed in PROJECT.json; the properties are aimed
at them.

## Modules

    IR              values, operations, instructions
    Buf             the growable array
      Stack         the stack over it
    InstList        the intrusive list of a block's instructions
    Containers      a client of a Stack, a Buf or a list
    GrowingSequence, NodeSequence
                    what Buf and Stack and what the list promise; Containers
                    refines both
    BitSet          bitsets by their words
    Cfg             the graph, add_edge, the parser's order of edges
      Parser        parse_procedure, with IR and InstList
      Dominance     reference definitions by reachability, from no algorithm
        Postorder   postorder_dfs
          DomTree       DominatorTree::build
            DomFrontiers    dom_frontiers, run after build
            LoopInfo        LoopInfo and Loop, run after build
              TreeClients     build, then either of the two
          Dataflow      compute_dominators
          LiveOut       liveout_info, with IR and BitSet
        LengauerTarjan  custom_dfs and lt_slow
    LiveTables      what liveout_info promises; LiveOut refines it
    LVN             local value numbering, with IR
      LVNValues     the block executed before and after LVN, side by side
    MCGraphs        the families of graphs the runs use
    MC*             a specification with the graphs, programs or texts of its runs
    DominanceProofs theorems and proofs about Dominance
      PostorderProofs     ... Postorder
        DomTreeProofs         ... DomTree, DomFrontiers and LoopInfo
        DataflowProofs        ... Dataflow
        LiveOutProofs         ... LiveOut and its refinement of LiveTables
      LengauerTarjanProofs
                          ... LengauerTarjan
      ParserProofs        ... Parser, Containers and its two refinements
    LVNProofs           ... LVNValues

A specification that runs after another extends it: its next-state relation has
the one of the earlier pass as a disjunct, and `pc` moves from the last label of
the one to the first of the other, as `main` or a constructor calls them in turn.
Two specifications may run after the same one (DomFrontiers and LoopInfo after
DomTree): `TreeClients` puts both behind one `build`.

How state and actions correspond to the code:

- **Cfg.** A CFG is a record of two functions from blocks to sequences, `succs`
  and `preds`. Blocks are numbered from 0 and the entry is 0. `BuildCfg` adds the
  edges of the branches block by block, as `parse_procedure` does, so that every
  predecessor list is sorted by source block; `CfgFollowsCode` checks of the parser
  that the graphs the passes start from are the ones it makes.
- **IR.** A Value is a record of its kind and its number, which the code packs
  into one word.
- **Buf, Stack, InstList, Containers.** A Buf is a record of its fields, `data`
  being all the memory it owns: `realloc` keeps what fits, and what nobody has
  written is `Junk`. The list lives in a heap of nodes, where a pointer is an
  index. `Containers` is a client that uses one of them in any order of calls and
  respects what each call asserts of its caller; `call` keeps what a call was
  given or returned, so that the refinement of `GrowingSequence` compares answers
  and not only contents. Because a Stack refines a sequence, the passes that use
  one (`custom_dfs`, `Loop`) have it as a sequence. `NodeSequence` says what the
  list does, not what one may wish: its mark is the node taken for the last.
- **Parser.** The text is a sequence of items, the tokens and comments as the
  lexer cuts them; a `BAD` item stands for a character or word that the lexer
  stops at. `scan_int` goes through the digits of a number with a sum that wraps,
  as it does in the unoptimized builds of the scripts; a sum that becomes negative
  stops the program. `token` and `input` are the program's, `pc` is the place in the nest
  of functions, `inst` the instruction being read. Each action looks at the
  current token once; every error, assertions included, leads to `"error"`.
  `EndInst` is `insert_inst_at_end` with the links of InstList.
- **BitSet, LiveOut.** A bitset is the set of the bits that are set in its words
  and the size it was made with; the sizes of a word and of an int are constants.
  `bset_copy` copies nothing between sets of different numbers of words, and
  `bset_not` repeats the highest bit of the int in the upper half of the word.
  `GatherInst` is one instruction of `gather_info_for_block`, `SolveSucc` one turn
  of `liveout_solve_equ_for_bb` with its five calls on sets. `AssertFails` is the
  assertion of `bset_is_in` and `bset_add` on a register number.
- **LVN.** The struct LVN is a record of its two tables and its counter.
  `NewAdd`, `RepeatedAdd`, `Copy` and `SkipInst` are the four ways an instruction
  takes through `apply`; `NextBlock` is the call of `clear` in main. LVNValues adds
  two history variables: what the registers hold if the block is executed as it
  was and as it is rewritten, as terms over what they held at its start.
- **Postorder.** The recursion of `postorder_helper` is a stack `path` of active
  calls and a cursor per block. `Descend`, `SkipChild`, `Return` are the three
  things the loop in it does; `Finish` is the end of `postorder_dfs`.
- **DomTree.** `StartSweeps` is everything from the map of positions to the first
  sweep. Then one action per step: `BeginBlock` takes the first candidate,
  `SkipPred` and `CallIntersect` are the two outcomes of the test of a
  predecessor, `ClimbFirst` and `ClimbSecond` the two branches of `intersect`
  (whose `b1` is `new_idom`), `EndBlock` stores the result, `SweepAgain` and
  `EndBuild` are the two outcomes of `while (change)`. `build` can read both
  arrays at index -1; the functions have that slot, `WordBefore`, with the value
  that precedes a small allocation of glibc. `postorder_map` starts with values of
  `Junk` for blocks that the traversal does not list.
- **DomFrontiers.** The two nested loops and the climb of the runner. A runner at
  -1 makes `bset_add` fail its assertion (`Crash`).
- **Dataflow.** A bitset is a set of numbers below `cfg.size()`. `VisitBlock` is
  one turn of the inner loop: it computes the new set from the predecessors'
  present ones and stores it if it differs. The two assertions after the
  traversal are `OrderComplete`.
- **LengauerTarjan.** The arrays keep their names. `PopVisited` and `Visit` are
  the two outcomes of a pop in `custom_dfs`; `PushSucc` and `SkipSucc` are the two
  outcomes of a turn of its loop over the successors, last one first; a push
  overwrites the parent. `Semidominator` is the first half of a turn of the
  first loop, `BucketElement` and `EmptyBucket` the second; `KeepIdom`,
  `CopyIdom` and `OrderAssertFails` are the last loop. `link` is the assignment
  to `ancestor`; the walks up the forest are `UpFrom`, the least set that has a
  block and the parent of each of its blocks.
- **LoopInfo.** `NextHeader`, `SkipLatch` and `BeginLoop` are the two loops of the
  constructor and its condition; `AddBlock` and `DropBlock` the loop of `Loop`'s
  constructor; `EndLoop` pushes the loop. The walk of `dominates` is the set of
  blocks its runner meets, `Met`.
- **TreeClients.** What `print_dom_fronts.cpp` and `print_nat_loops.cpp` have in
  common, the graph and `build`, and then either of `dom_frontiers` and `LoopInfo`,
  whichever starts first; the state of the other stays as it was.

## Runs

Every specification ends on purpose (the program does), so the configurations
turn the deadlock check off and state as properties that the end is reached.

| Run | Graphs | Shows |
|---|---|---|
| `tree_clients` | 4 blocks, at most two different targets each, no branch to the entry; all 3-block graphs with branches to the entry, double edges and self-loops, with one more unreachable block; the benchmark's | the traversal lists the reachable blocks in an order of use to the passes; on graphs that meet `FirstPredsLater` the tree is right, a sweep never loses a dominator, moves blocks only up, and the sweeps end; then either client: on graphs with all blocks reachable the frontiers are right but for the entry; the loops found are the natural loops of the back edges, with their multiplicity, self-loops and unreachable latches aside, and loops nest; both end, `dom_frontiers` at its assertion exactly when a join point in the tree has a predecessor outside it |
| `dataflow` | as `tree_clients`, and all graphs of the benchmark's kind: every block goes on to the next one and perhaps to any other | the sets end as the greatest solution, and are never below it; the program ends at the assertion exactly when a block is unreachable |
| `lengauer_tarjan` | 5 blocks, of the benchmark's kind; 3-block graphs padded with unreachable ones | the search tree is depth-first; semidominators; the buckets; the result but for the block numbered last; what the aborts are |
| `loops_of_back_edges` | as `tree_clients` | violated: a loop is found for an edge to the entry from an unreachable block |
| `idoms_on_any_graph` | 4 blocks, all reachable | violated: `build` without `FirstPredsLater` |
| `lengauer_tarjan_idoms` | as `lengauer_tarjan` | violated: the last loop's bound |
| `live_out` | all programs of 3 blocks that each end in one of five ways and read, write, do both or neither before; some with a register too high, or one that is written and then read | the first pass is exact; the sweeps refine `LiveTables` and end with words that hold the live registers of every reachable block, written somewhere or only read; the program stops at its assertion exactly when a register is not below the number of blocks |
| `live_out_wide` | three chains of 5 blocks, words of 4 bits, an int of 2 | violated by each chain: the upper half of the words is lost; a set is not copied into one with fewer words; a set ends at the highest register written. Which of them the trace shows depends on the timing of TLC's workers |
| `lvn` | all blocks of 4 instructions out of 9, followed by one of two other blocks | numbers are equal exactly when the values are; the rewritten block computes the same up to the first copy of a register to itself |
| `lvn_rewrite` | the same | violated: such a copy is not what the addition was |
| `parser` | 7 texts with 2 colons and what one item taken out, doubled, inserted, replaced or given another number makes of them, 3158 in all | the verdict and the blocks read are those of the language described by lines and of the numbers as they wrap; lists are linked soundly at every step; the edges are those of the branches |
| `containers` | every sequence of calls on a Stack or a Buf of up to 5 elements of 2 values, or on a list of up to 5 nodes | lengths and capacities stay inside the memory; the stack never passes its elements; Stack and Buf refine a sequence, answers included; the links of the list agree in both directions and it refines a sequence with a mark |

**Bounds.** `NBlocks` and the programs and texts a run starts from are the only
bounds of the passes; nothing else in them grows without limit, as every loop of the programs is bounded
by its input. Graphs have at least two blocks, as DominatorTree's constructor
asserts; `liveout_info` and the parser would also take fewer. Four blocks give every shape
the properties tell apart: irreducible graphs, three sweeps of `build` and
`compute_dominators`, fingers that climb several steps on both sides, a
predecessor that is processed later, nested loops and loops with a common header,
unreachable blocks that lead into reachable ones. Five blocks are the fewest on
which the last loop of `lt_slow` copies an immediate dominator. A block ends
with at most two targets, as a conditional branch of the IR does. Every
action fires in the runs, `Crash`, the aborts and the reads at -1 included.
Three blocks suffice for the live-out sets: a loop, a join and a block that
cannot be reached, with registers that pass through a block and through a loop,
so that a second sweep still changes sets. `LiveOutExact` is
stated for at most 32 blocks (`INT_SIZE`): registers are below the number of
blocks then, or the program has stopped, and the words' upper half is not used. It
is about the bits of the words, whether or not `max_elems` lets `print_bitset` get
to them; `EquationsHold` is about what is printed.
`live_out_wide` goes past the word instead, by making it small (`WORD_SIZE` 4 and
`INT_SIZE` 2 for 64 and 32): what matters is only that the int is half of the word
and that there are more blocks than bits. In the same way the parser's `INT_MAX` is
15, so that the numbers tried are read as they are, are noticed to be too large,
or wrap and are not noticed. A Buf asks for at least `MinCap` = 2 elements instead
of 16; with `MaxLen` = 5 it then doubles twice, and `compact` and `reserve` leave
capacities that no doubling would. `MaxNodes` = 5 nodes are made in all: inserting
after the tail, at the end again and unlinking what is left takes three (the run
also passes with 6).
Four instructions let a sum be computed, its operand and its result be overwritten
and the sum be asked for again. One wrong item per text reaches
every error of the parser, at every place.

**Fairness.** Each specification has weak fairness of its whole next-state
relation: a sequential program that can go on does. Nothing more is assumed, and
as the next step is determined by the state (but for the junk in
`postorder_map`), nothing more would matter. LVN states no liveness: it is one
pass over a finite list.

**`FirstPredsLater`.** `build` takes `preds[0]` as its first candidate unseen.
The published algorithm takes the first *processed* predecessor. They agree when
for every reachable block the predecessor added first comes later in the
postorder. The properties of `build` and its clients are stated under that
condition, and `idoms_on_any_graph` shows that it is not idle: without it the
tree can be wrong on a graph all of whose blocks are reachable.

## Findings

The runs that end in a violation, each a disagreement between the code and what
it says of itself (PROJECT.json quotes the lines):

- `build` on graphs where the first predecessor is not processed (dtree.h:67);
- `dominates`, which is not reflexive but at the entry (dtree.h:102), so that a
  block that branches to itself is no loop, and `is_reachable_from_entry`, which is
  always true (dtree.h:112), so that an edge to the entry from an unreachable block
  is one;
- `lt_slow` leaving out the block numbered last (lengauer-tarjan.h:172);
- live registers that are missing: the complement of a bitset keeps 32 bits of 64
  (bitset.h:30), the copy between sets of different sizes reports success
  (bitset.h:92), and the sets end at the highest register that is written, although
  a higher one may be read (liveout.h:131);
- value numbering rewriting an addition to a copy of the register to itself
  (lvn.h:138).

All but the one of `lt_slow` were also reproduced with the programs built from the
code.

Seen on the way, and covered by properties that hold: `compute_dominators` adds
to a block's set its position in the postorder where dominance/README.md:10-11
speaks of the equation of dominator sets, so a set holds positions and is read as
blocks (dataflow.h:81; `SolutionExact` says which); a node inserted after the last
one does not become the tail (list.h:96), so that the next insertion at the end
drops it while `size` still counts it, or, if the old tail was unlinked before,
fails its assertion (`ListIsSequence`; `lost` counts such nodes); `unlink` leaves
the parent of a node, so its assertion that a node is not "already unlinked"
(list.h:50) never notices a second call; a number is noticed to be too large only
if the wrapped sum is negative: 5000000000 is read as 705032704 (parser_ir.h:136,
`ParserEnds`); the assertion in the last
loop of `lt_slow` compares block numbers where it means search numbers
(lengauer-tarjan.h:178, `AbortsExplained`); the parser counts the colons
of comments as blocks, fails on an empty line at the end of a file, and stops
without a word at a line that starts with neither a label nor an instruction
(`ParserEnds` describes that language); live-out sets of unreachable blocks stay
empty (`LiveRegisters`).

## Proofs

TLC checks the graphs of a few blocks; the theorems hold for every `NBlocks` of at
least 2 and every set `Cfgs` of well-formed graphs (`NBlocksAssumption`,
`CfgsAssumption`), for every set of programs over such graphs, for every set
of blocks to number (`LvnProgramsAssumption`, `RegistersAssumption`), for every
text and every size of an int (`TextsAssumption`, `IntMaxAssumption`), and for
containers of every capacity and any number of elements and nodes
(`MinCapAssumption`, `BoundsAssumption`). All the
assumptions are evaluated in the runs. Each module has one invariant, made of
named parts; a lemma per action says that the action keeps it, and the theorems
follow from it.

- **DominanceProofs.** `NewCfgWellFormed` and `AddEdgeWellFormed`: every graph that
  `add_edge` builds is well formed, so `CfgsAssumption` is what the program's
  graphs meet. `ReachableStart`, `ReachableClosed`, `ReachableLeast`: reachability
  is the least set that holds the start and is closed under the edges. From these
  come the facts about dominators that the passes rest on: a strict dominator of
  a block dominates its reachable predecessors (`DominatesPreds`), what dominates
  the end of a way it is not on dominates the start (`DominatesStart`), and from a
  dominator there is a way past any block above it (`DominatedReached`).
- **PostorderProofs.** `PostorderTypeCorrect` and `PostorderListsReachable`, from
  the invariant `PostorderInv`. The property speaks of the end only; the invariant
  says what holds on the way: a visited block is either pushed or has an active
  call (`VisitedSplit`), a pushed block has no unvisited successor
  (`PushedExplored`), nor an active one among those its cursor has passed
  (`ActiveExplored`), and cursors of unvisited blocks are still at their first
  successor (`CursorFresh`). When the last call returns, what is pushed is
  therefore closed under the edges, and has all that is reachable.
  `PostorderEdgesCloseCycles` adds `CallsNest` and `EdgesBackOrEarlier`: from an
  active block one gets to those whose calls began later, and an edge of a pushed
  block leads to one pushed before it or to one from which there is a way back.
- **DataflowProofs.** `FlowTypeCorrect`, `FlowKeepsSolution` and
  `FlowSolutionExact`, from the invariant `FlowInv`. That no dominator is dropped
  is inductive by itself (`SetsKept`): a dominator of a block other than the block
  dominates its predecessors. That nothing else is left over needs `Stable`: while
  the present sweep has changed nothing, the blocks behind it satisfy the equation,
  so at the end all do, and the blocks whose set lacks a bit are closed under the
  edges that avoid the block the bit stands for. A counting argument
  (`OrderCovers`) shows that an order of full length has every block.
- **DomTreeProofs.** Six theorems about `build`, from an invariant in two layers.
  `BuildInv` (types, the map of positions, the place of the sweep) holds on every
  graph and gives `BuildTypeCorrect`: every index is a block or the slot at -1.
  `TreeInv` holds under `FirstPredsLater`. Its first part says that `idoms` is a
  tree whose parents come later in the postorder (`IsTree`), which makes every
  climb end (`BuildParentsLater`, `BuildFingersInTree`). Its second part is about
  dominators: a parent has all strict dominators of its child
  (`DominatorsKept`), `intersect` keeps to blocks that have them (`Candidate`,
  `Second`), and while a sweep has changed nothing the blocks behind it have
  parents above all their predecessors (`SweptStable`), which at the end makes
  the ancestors of a block dominators: `BuildIdomsCorrect` and
  `BuildKeepsDominators`. Neither part says why the sweeps do not oscillate.
  That is because blocks only ever move up (`BuildBlocksMoveUp`), which needs
  `CommonKept`, that whatever is above all processed predecessors of a block is
  above its parent, and `FirstPredAbove`: the candidate of a sweep starts at
  `preds[0]`, so the parent must still be above that one, except between the
  turns of the parent and of the block in one sweep.
- **DomTreeProofs**, on dom_frontiers. `FrontiersTypeCorrect` on every graph;
  `FrontiersAreExact` and `FrontiersNeverCrash` on the graphs of `Regular`;
  `FrontiersKeepTree` and `FrontiersMoveUp` carry the results about `build` over.
  The invariant `FrontInv` says which walks have passed which blocks: a block's
  set has the join points whose walks from the predecessors looked at have met
  it (`FrontierSoFar`), and the runner is between the predecessor and the join
  point's parent (`RunnerAbove`), so it cannot leave the tree. What remains is
  that the blocks between a predecessor and the parent are those that dominate
  the predecessor and not, strictly, the join point.
- **DomTreeProofs**, on LoopInfo. `LoopsTypeCorrect` on every graph, `LoopsFoundAreNatural` and
  `LoopsFoundNest` where the tree is right (of unreachable blocks the second
  allows none, and the first says nothing of the loops found from them, nor of
  edges from a block to itself, which `loops_of_back_edges` is about). While a body is collected, everything found can reach the latch
  without the header, and the predecessors of every block taken are found
  (`Collecting`); when the stack is empty the body is closed backwards, as the
  natural loop is the least set to be. `EachEdgeOnce` counts: there are as many
  loops of an edge as places of it among the predecessors passed. These two hold
  whatever the tree is; `MetIsAbove` is what ties `dominates`, through the slot at
  -1 as well, to the tree, and `TreeTellsBackEdges` to the back edges. That loops
  nest is `InnerLoop`: if they share a block and the header of one does not
  dominate that of the other, there is a way from each block of the first, around
  the header of the second, to the second's latch.
- **LengauerTarjanProofs.** Six theorems, one for every safety property of
  `custom_dfs` and `lt_slow` that the run checks, from the invariant `Inv`. They
  are the correctness of the algorithm, from the source's own stack and linked
  forest to the result; nothing of it is assumed.
  - *The search* (`SearchIsDepthFirst`). While the stack holds blocks still to be
    visited, with duplicates, and their parents are overwritten, the parents of
    the entries are all on the way up from the block visited last, the lower the
    entry the higher the parent (`StackInv`); an edge not looked at from a
    numbered block goes to one that will be visited below it (`EdgesLeft`). So an
    edge up in number goes to a descendant (`EdgesUp`) and the descendants of a
    block are numbered one after the other (`Intervals`). That the last entry
    pushed decides the parent is what makes this hold.
  - *The theory* is about any tree with these two properties (`SearchTree`), in
    lemmas: semidominators satisfy the recursion the code computes
    (`SemiRecursion`), a block whose semidominator no block between undercuts
    has it as its immediate dominator (`SemiIsImmediate`), and otherwise the
    lowest such block has the same immediate dominator (`RelativeDominators`).
  - *The first loop.* `Forest` says that the blocks above the loop counter are
    linked and have their semidominators and the others are neither, so that a
    walk up finds the lowest of what it should (`SemidominatorsCorrect`).
    `Buckets` says that a block with its semidominator that is not settled is in
    the bucket of it, that only such blocks are, and that none waits there longer
    than the child of the bucket's block above it is unfinished (`NoneLate`). The
    last is what makes the evaluation of a block see the blocks between it and
    its semidominator and no others, and what leaves no bucket unread at the
    end (`BucketsCorrect`).
  - *The last loop* (`ImmediateDominatorsButLast`, `AbortsAreExplained`). Blocks
    with lower numbers have their immediate dominators and the others are still
    settled (`LastLoopInv`), the one numbered last for good.
- **LiveOutProofs.** `LiveTypeCorrect` and `LiveGathersExactly` for all programs,
  `LiveSetsExact` and the refinement `LiveFillsTables`, about the words of the
  sets, for those of at most `INT_SIZE` blocks: with more the words lose their
  upper half, which is what `live_out_wide` shows. The live registers they speak
  of are all that are read, also those above `max_elems`, whose bits the unions
  keep in the word. `BaseInv` has the first pass: each set holds what the
  instructions looked at so far read first or write. `SetsSound` says that only
  live registers are added, `Stable` that behind a sweep without changes every
  block has taken in what its successors pass. For the refinement each step of
  the code is matched with a step of `LiveTables`: `SolveSucc` is a `Grow`
  that stays within the live registers, or changes nothing, `EndSolve` is the
  `Finish`, whose guard, that all sets are complete, is where `Stable` is needed,
  and all others change nothing.
- **LVNProofs.** `ValuesTypeCorrect`, `EqualNumbersEqualValues` and
  `RewritingKeepsValues`, from `ValuesInv`. What the table says of the registers
  of the moment is not inductive: an addition is known by the numbers of its
  operands when no register may hold the operands any more. The invariant
  therefore has a term for every number, no two the same, such that each value
  with a number holds its term and each known addition has the sum of the terms
  of its operands (`Meaning`). The terms are not a variable of the model: the
  invariant says that there are some, and each step's lemma extends them.
- **ParserProofs**, on Containers. `ArraysImplementSequences` and
  `ListImplementsSequence` prove the two refinements call by call, and
  `ContainersTypeCorrect` the types, whatever a program calls in which order and
  whatever fresh memory holds. `ArraysInv` says that a buffer's elements are the
  first `len` cells of its memory and never junk, and that a stack stays inside
  the elements pushed; growing, `compact` and `reserve` change the memory and not
  its first cells, so each call answers as it would on the sequence. `ListInv`
  says that the nodes of a list are a chain without repetition from the head,
  linked both ways, that ends where a link leads nowhere (`IsChain`); the mark of
  `NodeSequence` is the place of the tail in that chain. An insertion at the end
  is made behind the tail, so if the tail is not the last node, what follows it
  is cut off: this is what `lost` counts.
- **ParserProofs**, on Parser. `ParserTypeCorrect`, `ParserListsInOrder` and
  `ParserCfgFollowsCode` for every text, from the invariant `ParserInv`. That the
  parser stays inside the array of blocks it made (`ColonInv`) is arithmetic about
  text still unread: the blocks begun, the colon that a block's label waits for
  and the colons from `input` on are never more than those counted at the start.
  `BlocksInv` says that each block's list is exactly the nodes of that block in the
  order they were made, linked both ways (`Filled`), with no instruction in blocks
  not begun. `GraphInv` says that the graph is the one that `BuildCfg` makes of the
  branches listed and of the one whose newline is still to come: as blocks after
  the current one have no branches yet, the edge just added is the last that
  `BuildCfg` adds (`BuildOneMore`). The lexer's recursive functions are unfolded
  one step at a time, as its loops run.

**Termination.** That a program does not go on for ever needs neither fairness nor
ENABLED: it is enough that every step lowers a value of a well-founded order. For each
program but value numbering, which is one walk over the instructions, a theorem gives
a tuple of naturals, of what the program has left to do from its outermost loop to
its innermost, that every step lowers in dictionary order.
`LexicographicDescentEnds` in DominanceProofs shows that such tuples have no
infinite descent, `LowerBefore` and `LowerBehind` put a tuple together from those of
a program's parts, and each module has the tuple under the name of what is left.

| theorem | of | on | what ends the loop that might not |
|---|---|---|---|
| `PostorderDescends` | `postorder_dfs` | every graph | a block is called once; its edges are counted off |
| `FlowCannotGoOn` | `compute_dominators` | every graph | a repeated sweep has taken a bit away, and none comes back |
| `BuildCannotGoOn` | `build` | graphs of `FirstPredsLater` | a repeated sweep has moved a block up (`RoomAbove`); a finger climbs in the postorder |
| `FrontiersCannotGoOn` | `dom_frontiers` | those, and walks on graphs of `Regular` | a runner has fewer blocks above it after each climb |
| `LoopsCannotGoOn` | LoopInfo | build as above, the search on every graph | predecessors are pushed only for a block new in the loop |
| `CannotGoOn` | `custom_dfs`, `lt_slow` | every graph | pushes are of edges of a block just numbered; links of a bucket go up in number (`BucketsAscend`) |
| `LiveCannotGoOn` | `liveout_info` | every program | a repeated sweep has set a bit, of the finitely many registers read or written |
| `ParserCannotGoOn` | `parse_procedure` | every text | a step without a token leads to one that takes it |

With them, `FlowEndIsRight` and `LiveEndIsRight` say of which inputs the two data-flow
programs end well and of which at an assertion, as `AbortsAreExplained` does in one
direction for `lt_slow`. What `Ends` and its like say beyond that is only
that a program which is not at its end has a step, and that the step is taken:
that is ENABLED and fairness, and is checked by TLC.

Where an argument wants induction, as over the positions of the blocks of a tree,
the proofs take the least or the greatest of the counterexamples and refute it
(`NatMin` and `IntMax` in DominanceProofs, `FirstPlace` in LVNProofs, from the
library's `WFMin`). Ancestors, reachable blocks, natural loops and the blocks that
need a register are defined as least closed sets, so that their proofs only name
a closed set. Only `LiveFillsTables` assumes more than the assumptions on the
constants, `NBlocks <= INT_SIZE`, the case `MCLiveOut` has; the other conditions
(`FirstPredsLater`, `Regular`, `AllReachable`) are those of the properties, which
the runs check in the same form.

Every invariant, action property and refinement that a passing run checks is also a
theorem. Those about the frontiers and the loops are theorems of `FrontiersSpec` and
of `LoopsSpec`, each of which is `ClientsSpec` without the other client. Only model-checked are the liveness properties (`ClientsEnd`,
`Ends`, `FlowEnds`, `LiveEnds`, `ParserEnds`), of which the theorems on
termination prove that no run is without end, on the inputs in the table. What `ParserEnds`
says of the language that is read would besides be an induction over the text.
The five runs that end in a violation are about single properties that are false.

## Not modelled

Live-out sets and values of programs with more than 64 blocks at their real
sizes: `live_out_wide` has them scaled down. A client that uses a Buf after
`free`, or through a copy that shares its memory, or that unlinks a node twice:
the passes do neither. Allocation failures, at which every allocation asserts. Printing and
reading files. `add_edges`, which has no caller. The DEBUG_LT code and
`lt_examples.cpp`, which is in no build script and calls a function that does not
exist. The D versions, which the headers replace.

## Plan

1. *Done:* Cfg, Postorder, DomTree, DomFrontiers, LoopInfo, TreeClients, Dataflow,
   LengauerTarjan, LiveOut with LiveTables, LVN with LVNValues, Parser with
   InstList, Buf and Stack with GrowingSequence, the whole list with NodeSequence,
   their runs, and the proofs above, which have a theorem for every safety property
   of the runs.
2. Left: the induction over the text that `ParserEnds` would need, and the step from
   the theorems on termination to the liveness properties, once a prover does either.
