------------------------------ MODULE InstList ------------------------------
(***************************************************************************)
(* The instructions of a basic block: the intrusive list of                *)
(* src/common/list.h.  `mem` is the heap, a sequence of nodes; a pointer   *)
(* to a node is its index.  The parser calls insert_at_end only; nothing   *)
(* in the repository calls insert_after or unlink.                         *)
(***************************************************************************)
EXTENDS Integers, Sequences

nullptr == 0

NewList == [head |-> nullptr, tail |-> nullptr, size |-> 0]

(* A node as the constructors of Instruction leave it, in no list. *)
NoParent == -1
NewNode(inst) == [inst |-> inst, parent |-> NoParent, prev |-> nullptr, next |-> nullptr]

(* The heap with one link set; nothing is written through a null pointer. *)
WithNext(mem, p, q) == IF p = nullptr THEN mem ELSE [mem EXCEPT ![p].next = q]
WithPrev(mem, p, q) == IF p = nullptr THEN mem ELSE [mem EXCEPT ![p].prev = q]

(* insert_at_end asserts that an empty list has no tail and another has one. *)
EndsAgree(list) == list.head = nullptr <=> list.tail = nullptr

(* The list after insert_at_end of the node at index p ... *)
ListWith(list, p) ==
    [head |-> IF list.head = nullptr THEN p ELSE list.head, tail |-> p, size |-> list.size + 1]

(* Mutant: the old last node is not linked to the new one. *)
BackLinked(mem, list, p) == [mem EXCEPT ![p].prev = list.tail]

(* ... and the heap. *)
Linked(mem, list, p) ==
    WithNext([mem EXCEPT ![p].next = nullptr, ![p].prev = list.tail], list.tail, p)

(* insert_after of the node q, called on the node p. *)
LinkedAfter(mem, p, q) ==
    LET between == [mem EXCEPT ![q].next = mem[p].next, ![q].prev = p]
    IN  WithNext(WithPrev(between, mem[p].next, q), p, q)

(* inserted_after: the tail is set to what it is. *)
ListWithAfter(list, p) ==
    [list EXCEPT !.tail = IF p = list.tail THEN p ELSE @, !.size = @ + 1]

(* unlink of the node p, whose own links and parent stay. *)
Unlinked(mem, p) ==
    WithPrev(WithNext(mem, mem[p].prev, mem[p].next), mem[p].next, mem[p].prev)

(* Mutant: a tail that is unlinked is kept. *)
TailKept(mem, list, p) ==
    [list EXCEPT !.head = IF p = @ THEN mem[p].next ELSE @, !.size = @ - 1]
ListWithout(mem, list, p) ==
    [list EXCEPT !.head = IF p = @ THEN mem[p].next ELSE @,
                 !.tail = IF p = @ THEN mem[p].prev ELSE @,
                 !.size = @ - 1]

-----------------------------------------------------------------------------

(* The nodes the iterator meets, followed `size` links from the head. *)
NodesOf(mem, list) ==
    LET node[k \in 1 .. list.size] == IF k = 1 THEN list.head ELSE mem[node[k - 1]].next
    IN  node

(* The nodes until the iterator meets the null pointer that is its end. *)
Walk(mem, list) ==
    LET node[k \in 1 .. Len(mem) + 1] ==
            IF k = 1 THEN list.head
            ELSE IF node[k - 1] = nullptr THEN nullptr ELSE mem[node[k - 1]].next
    IN  [k \in {m \in 1 .. Len(mem) + 1 : node[m] # nullptr} |-> node[k]]

InstsOf(mem, list) == [k \in 1 .. list.size |-> mem[NodesOf(mem, list)[k]].inst]

(* The links of a list: forwards from the head to the tail and no further, *)
(* backwards the same nodes.                                               *)
IsLinked(mem, list) ==
    LET node == NodesOf(mem, list)
    IN  IF list.size = 0 THEN list.head = nullptr /\ list.tail = nullptr
        ELSE /\ \A k \in 1 .. list.size : node[k] \in DOMAIN mem
             /\ node[list.size] = list.tail
             /\ mem[list.tail].next = nullptr
             /\ mem[list.head].prev = nullptr
             /\ \A k \in 2 .. list.size : mem[node[k]].prev = node[k - 1]
=============================================================================
