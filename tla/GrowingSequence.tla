-------------------------- MODULE GrowingSequence --------------------------
(***************************************************************************)
(* What Buf and Stack promise, without their memory: a sequence, and what  *)
(* each call is given or returns.                                          *)
(***************************************************************************)
EXTENDS Integers, Sequences

CONSTANTS
    Values,
    Junk        \* an element that nobody has assigned yet

VARIABLES
    contents,
    call        \* the last call: its name, the index it was given, if any,
                \* and the value it was given or returned

vars == <<contents, call>>

CalledAt(name, k, val) == call' = [name |-> name, at |-> k, val |-> val]
Called(name, val) == CalledAt(name, 0, val)

Init == contents = <<>> /\ call = [name |-> "none", at |-> 0, val |-> Junk]

Push == \E v \in Values : contents' = Append(contents, v) /\ Called("push", v)

Last == contents[Len(contents)]

Pop ==
    /\ contents # <<>>
    /\ Called("pop", Last)
    /\ contents' = SubSeq(contents, 1, Len(contents) - 1)

Back == contents # <<>> /\ Called("back", Last) /\ UNCHANGED contents

Read ==
    /\ \E k \in DOMAIN contents : CalledAt("read", k, contents[k])
    /\ UNCHANGED contents

Assign ==
    \E k \in DOMAIN contents, v \in Values :
        contents' = [contents EXCEPT ![k] = v] /\ CalledAt("assign", k, v)

Fill == \E v \in Values : contents' = [k \in DOMAIN contents |-> v] /\ Called("fill", v)

(* The new elements are whatever the memory holds. *)
Stretch ==
    /\ contents = <<>>
    /\ contents' \in Seq(Values \union {Junk})
    /\ Called("stretch", Len(contents'))

Empty == contents' = <<>> /\ Called("empty", Junk)

(* Calls that only move memory. *)
Keep == Called("keep", Junk) /\ UNCHANGED contents

Next ==
    \/ Push \/ Pop \/ Back \/ Read \/ Assign \/ Fill
    \/ Stretch \/ Empty \/ Keep

Spec == Init /\ [][Next]_vars
=============================================================================
