-------------------------------- MODULE Buf --------------------------------
(***************************************************************************)
(* Buf of src/common/buf.h, the growable array of all passes.  `data` is   *)
(* the memory it owns, with what earlier elements and the allocator left   *)
(* in it; `cap` is how much of it the buffer believes to have.             *)
(***************************************************************************)
EXTENDS Integers, Sequences

CONSTANTS
    MinCap,     \* the least capacity that _grow asks for, 16 in the code
    Junk        \* what memory holds that nobody has written

ASSUME MinCapAssumption == MinCap \in Nat \ {0}

MAX(x, y) == IF x > y THEN x ELSE y

NewBuf == [cap |-> 0, len |-> 0, data |-> <<>>]

(* realloc keeps what fits. *)
Resized(data, size) == [k \in 1 .. size |-> IF k <= Len(data) THEN data[k] ELSE Junk]

Grown(b, new_len) ==
    LET new_cap == MAX(MAX(2 * b.cap, new_len), MinCap)
    IN  [b EXCEPT !.data = Resized(b.data, new_cap), !.cap = new_cap]

(* Mutant: the capacity is looked at before the new element is counted. *)
GrownLate(b) == IF b.len > b.cap THEN Grown(b, b.len + 1) ELSE b
WithRoom(b) == IF b.len + 1 > b.cap THEN Grown(b, b.len + 1) ELSE b

push(b, v) == [WithRoom(b) EXCEPT !.data[b.len + 1] = v, !.len = b.len + 1]

(* The assertion of reserve, on a buffer that has never been used or has *)
(* been compacted while empty.                                           *)
CanReserve(b) == b.len = 0 /\ b.cap = 0

(* No less than MinCap is allocated, and only n of it is used. *)
reserve(b, n) == [Grown(b, n) EXCEPT !.cap = n]
reserve_and_set(b, n) == [reserve(b, n) EXCEPT !.len = n]

(* compact does not shrink the memory but grows it, and only then gives the *)
(* capacity up that it has no elements for.                                 *)
compact(b) == [Grown(b, b.len) EXCEPT !.cap = b.len]

clear(b) == [b EXCEPT !.len = 0]

(* back and pop_back; both assert that there is an element. *)
HasBack(b) == b.len >= 1
back(b) == b.data[b.len]
pop_back(b) == [b EXCEPT !.len = @ - 1]

(* operator[] on the left of an assignment. *)
assigned(b, k, v) == [b EXCEPT !.data[k + 1] = v]

(* Every element is constructed anew, as v. *)
initialize(b, v) ==
    [b EXCEPT !.data = [k \in 1 .. Len(@) |-> IF k <= b.len THEN v ELSE @[k]]]

(* A buffer of its own with the elements of b. *)
deep_copy(b) ==
    LET copy == reserve(NewBuf, b.cap)
    IN  [copy EXCEPT !.len = b.len,
                     !.data = [k \in 1 .. Len(copy.data) |->
                                  IF k <= b.len THEN b.data[k] ELSE copy.data[k]]]

(* What begin() .. end() runs over. *)
Elements(b) == SubSeq(b.data, 1, b.len)

-----------------------------------------------------------------------------

(* The buffer stays inside the memory it owns. *)
IsBuf(b, Values) ==
    /\ b.data \in Seq(Values \union {Junk})
    /\ b.len \in 0 .. b.cap
    /\ b.cap \in 0 .. Len(b.data)
=============================================================================
