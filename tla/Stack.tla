------------------------------- MODULE Stack -------------------------------
(***************************************************************************)
(* Stack of src/common/stack.h: a Buf that never shrinks and the number of *)
(* its elements that are on the stack.  What lies above them is reused.    *)
(***************************************************************************)
EXTENDS Buf

NewStack == [curr |-> 0, elems |-> NewBuf]

(* pop asserts it. *)
CanPop(s) == s.curr > 0

top(s) == s.elems.data[s.curr]
pop(s) == [s EXCEPT !.curr = @ - 1]

(* Mutant: an element that is there is never written over. *)
KeptElems(s, v) == IF s.curr = s.elems.len THEN push(s.elems, v) ELSE s.elems
PushedElems(s, v) ==
    IF s.curr = s.elems.len THEN push(s.elems, v) ELSE assigned(s.elems, s.curr, v)

push_on(s, v) == [curr |-> s.curr + 1, elems |-> PushedElems(s, v)]

OnStack(s) == SubSeq(s.elems.data, 1, s.curr)
=============================================================================
