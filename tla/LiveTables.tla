----------------------------- MODULE LiveTables -----------------------------
(***************************************************************************)
(* What liveout_info promises, without how it does it: a table of sets     *)
(* starts empty, grows one block at a time and never beyond the solution,  *)
(* and is done when it is the solution.                                    *)
(***************************************************************************)
VARIABLES
    solution,       \* block -> the set it should have
    sets,           \* block -> the set it has
    done

vars == <<solution, sets, done>>

Init ==
    /\ sets = [b \in DOMAIN solution |-> {}]
    /\ done = FALSE

Grow ==
    /\ ~done
    /\ \E b \in DOMAIN solution : \E new \in SUBSET solution[b] :
            sets' = [sets EXCEPT ![b] = @ \union new]
    /\ UNCHANGED <<solution, done>>

Finish ==
    /\ sets = solution
    /\ done' = TRUE
    /\ UNCHANGED <<solution, sets>>

Next == Grow \/ Finish

Spec == Init /\ [][Next]_vars
=============================================================================
