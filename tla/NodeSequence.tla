---------------------------- MODULE NodeSequence ----------------------------
(***************************************************************************)
(* What the intrusive list does, without its pointers: a sequence of nodes *)
(* with a mark, the position of the node taken for the last one.  An       *)
(* insertion after the marked node does not move the mark, and one at the  *)
(* end loses the nodes behind it.                                          *)
(***************************************************************************)
EXTENDS Integers, Sequences

CONSTANT Nodes

VARIABLES
    contents,
    mark,
    lost        \* nodes that are counted and not there any more

vars == <<contents, mark, lost>>

Init == contents = <<>> /\ mark = 0 /\ lost = 0

Fresh(p) == \A k \in DOMAIN contents : contents[k] # p

Before(k) == SubSeq(contents, 1, k)
Behind(k) == SubSeq(contents, k + 1, Len(contents))

InsertAtEnd ==
    /\ contents = <<>> \/ mark > 0
    /\ \E p \in Nodes : Fresh(p) /\ contents' = Append(Before(mark), p)
    /\ lost' = lost + Len(Behind(mark))
    /\ mark' = mark + 1

InsertAfter ==
    /\ \E k \in DOMAIN contents :
        /\ \E p \in Nodes : Fresh(p) /\ contents' = Append(Before(k), p) \o Behind(k)
        /\ mark' = IF k < mark THEN mark + 1 ELSE mark
    /\ UNCHANGED lost

Unlink ==
    /\ \E k \in DOMAIN contents :
        /\ contents' = Before(k - 1) \o Behind(k)
        /\ mark' = IF k <= mark THEN mark - 1 ELSE mark
    /\ UNCHANGED lost

Next == InsertAtEnd \/ InsertAfter \/ Unlink

Spec == Init /\ [][Next]_vars
=============================================================================
