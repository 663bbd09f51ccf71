----------------------------- MODULE Dominance -----------------------------
(***************************************************************************)
(* Reference definitions the passes of src/dominance and src/loops are     *)
(* measured against.  They are the textbook ones, by reachability: none of *)
(* them is taken from the algorithms.                                      *)
(***************************************************************************)
EXTENDS Cfg

NoBlock == -1

(* The sets of blocks that hold `start`, do not hold `avoid` and are closed *)
(* under the edges that do not lead to `avoid`.                             *)
ClosedSets(c, start, avoid) ==
    {S \in SUBSET (Blocks \ {avoid}) :
        start \in S /\ \A u \in S : Succs(c, u) \ {avoid} \subseteq S}

(* The blocks some path from `start` leads to without touching `avoid`: *)
(* what every such set has.                                             *)
ReachableFrom(c, start, avoid) ==
    LET closed == ClosedSets(c, start, avoid)
    IN  IF start = avoid THEN {} ELSE {b \in Blocks : \A S \in closed : b \in S}

Reachable(c) == ReachableFrom(c, Entry, NoBlock)

(* a dominates b: every path from the entry to b goes through a. *)
Dominates(c, a, b) ==
    b \in Reachable(c) /\ b \notin ReachableFrom(c, Entry, a)

(* All dominators of every block, computed once per graph. *)
DominatorSets(c) ==
    LET reach == Reachable(c)
        around == [a \in Blocks |-> ReachableFrom(c, Entry, a)]
    IN  [b \in Blocks |-> {a \in Blocks : b \in reach /\ b \notin around[a]}]

(* a is the immediate dominator of b: the strict dominator every other *)
(* strict dominator of b dominates.                                    *)
IsImmediateDominator(dom, a, b) ==
    /\ a \in dom[b] \ {b}
    /\ dom[b] \ {b} \subseteq dom[a]

(* The dominance frontier of b: the blocks with a predecessor that b       *)
(* dominates and that b does not strictly dominate.                        *)
Frontier(c, dom, b) ==
    {n \in Blocks : /\ \E p \in Preds(c, n) : b \in dom[p]
                    /\ b \notin dom[n] \ {n}}
=============================================================================
