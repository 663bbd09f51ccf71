----------------------------- MODULE Containers -----------------------------
(***************************************************************************)
(* A client of one container, a Stack, a Buf or the list of a block, that  *)
(* calls it as the passes do, in any order and with any arguments: stacks  *)
(* are popped only if not empty, a buffer is reserved only if fresh, nodes *)
(* are inserted once and picked from the list by walking it.  The client   *)
(* frees the container last.                                               *)
(***************************************************************************)
EXTENDS Stack, InstList

CONSTANTS
    Values,         \* the elements
    MaxLen,         \* bound on the elements of a stack or buffer
    MaxNodes        \* bound on the nodes made

ASSUME BoundsAssumption == MaxLen \in Nat /\ MaxNodes \in Nat

VARIABLES
    subject,        \* the container used
    call,           \* the last call on a stack or buffer
    stk, buf,
    heap, list

arrayVars == <<call, stk, buf>>
nodeVars == <<heap, list>>
vars == <<subject, arrayVars, nodeVars>>

Init ==
    /\ subject \in {"stack", "buf", "list"}
    /\ call = [name |-> "none", at |-> 0, val |-> Junk]
    /\ stk = NewStack
    /\ buf = NewBuf
    /\ heap = <<>>
    /\ list = NewList

CalledAt(name, k, val) == call' = [name |-> name, at |-> k, val |-> val]
Called(name, val) == CalledAt(name, 0, val)

-----------------------------------------------------------------------------
(* Stack, as custom_dfs and the constructor of Loop use it. *)

OnStackOnly == subject = "stack" /\ UNCHANGED <<subject, buf, nodeVars>>

StackPush ==
    /\ OnStackOnly
    /\ stk.curr < MaxLen
    /\ \E v \in Values : stk' = push_on(stk, v) /\ Called("push", v)

StackPop ==
    /\ OnStackOnly
    /\ CanPop(stk)
    /\ stk' = pop(stk)
    /\ Called("pop", top(stk))

-----------------------------------------------------------------------------
(* Buf *)

OnBufOnly == subject = "buf" /\ UNCHANGED <<subject, stk, nodeVars>>

BufPush ==
    /\ OnBufOnly
    /\ buf.len < MaxLen
    /\ \E v \in Values : buf' = push(buf, v) /\ Called("push", v)

BufPopBack ==
    /\ OnBufOnly
    /\ HasBack(buf)
    /\ buf' = pop_back(buf)
    /\ Called("pop", back(buf))

BufBack ==
    /\ OnBufOnly
    /\ HasBack(buf)
    /\ Called("back", back(buf))
    /\ UNCHANGED buf

BufRead ==
    /\ OnBufOnly
    /\ \E k \in 1 .. buf.len : CalledAt("read", k, buf.data[k])
    /\ UNCHANGED buf

BufAssign ==
    /\ OnBufOnly
    /\ \E k \in 1 .. buf.len, v \in Values :
            buf' = assigned(buf, k - 1, v) /\ CalledAt("assign", k, v)

(* v stands for what the constructor of the elements makes. *)
BufInitialize ==
    /\ OnBufOnly
    /\ \E v \in Values : buf' = initialize(buf, v) /\ Called("fill", v)

BufReserve ==
    /\ OnBufOnly
    /\ CanReserve(buf)
    /\ \E size \in 0 .. MaxLen : buf' = reserve(buf, size)
    /\ Called("keep", Junk)

BufReserveAndSet ==
    /\ OnBufOnly
    /\ CanReserve(buf)
    /\ \E size \in 0 .. MaxLen : buf' = reserve_and_set(buf, size) /\ Called("stretch", size)

BufCompact == OnBufOnly /\ buf' = compact(buf) /\ Called("keep", Junk)

BufClear == OnBufOnly /\ buf' = clear(buf) /\ Called("empty", Junk)

(* The client goes on with a copy. *)
BufDeepCopy == OnBufOnly /\ buf' = deep_copy(buf) /\ Called("keep", Junk)

(* free of either; Stack::free leaves curr as it is. *)
Free ==
    /\ subject \in {"stack", "buf"}
    /\ subject' = "freed"
    /\ stk' = [stk EXCEPT !.elems = NewBuf]
    /\ buf' = NewBuf
    /\ Called("empty", Junk)
    /\ UNCHANGED nodeVars

-----------------------------------------------------------------------------
(* The list.  A new node gets its parent before it is inserted. *)

InList == Walk(heap, list)
Block == 0
Made == Append(heap, [NewNode("inst") EXCEPT !.parent = Block])
OnListOnly == subject = "list" /\ UNCHANGED <<subject, arrayVars>>

InsertAtEnd ==
    /\ OnListOnly
    /\ Len(heap) < MaxNodes
    /\ EndsAgree(list)
    /\ heap' = Linked(Made, list, Len(Made))
    /\ list' = ListWith(list, Len(Made))

InsertAfter ==
    /\ OnListOnly
    /\ Len(heap) < MaxNodes
    /\ \E k \in 1 .. Len(InList) :
        /\ heap' = LinkedAfter(Made, InList[k], Len(Made))
        /\ list' = ListWithAfter(list, InList[k])

Unlink ==
    /\ OnListOnly
    /\ \E k \in 1 .. Len(InList) :
        /\ heap' = Unlinked(heap, InList[k])
        /\ list' = ListWithout(heap, list, InList[k])

TailAssertFails ==
    /\ subject = "list"
    /\ Len(heap) < MaxNodes
    /\ ~EndsAgree(list)
    /\ subject' = "aborted"
    /\ UNCHANGED <<arrayVars, nodeVars>>

Next ==
    \/ StackPush \/ StackPop
    \/ BufPush \/ BufPopBack \/ BufBack \/ BufRead \/ BufAssign \/ BufInitialize
    \/ BufReserve \/ BufReserveAndSet \/ BufCompact \/ BufClear \/ BufDeepCopy
    \/ Free
    \/ InsertAtEnd \/ InsertAfter \/ Unlink \/ TailAssertFails

Spec == Init /\ [][Next]_vars

-----------------------------------------------------------------------------

(* Lengths and capacities stay inside the memory owned, the stack inside  *)
(* its elements, so that no assertion of push or pop can fail; the links  *)
(* of the list agree in both directions.                                  *)
ContainersTypeOK ==
    /\ subject \in {"stack", "buf", "list", "freed", "aborted"}
    /\ IsBuf(buf, Values)
    /\ IsBuf(stk.elems, Values)
    /\ stk.curr \in Nat
    /\ subject = "stack" => stk.curr <= stk.elems.len
    /\ \A k \in 1 .. Len(InList) :
            heap[InList[k]].prev = IF k = 1 THEN nullptr ELSE InList[k - 1]

(* The elements on the stack or in the buffer, none if there is neither. *)
Contents == CASE subject = "stack" -> OnStack(stk)
              [] subject = "buf" -> Elements(buf)
              [] subject \notin {"stack", "buf"} -> <<>>

Arrays == INSTANCE GrowingSequence WITH contents <- Contents

(* What a stack or buffer returns is what a sequence would, whatever lies   *)
(* in its memory: reused elements, the room left by compact, the memory     *)
(* that _grow and deep_copy move.                                           *)
ArraysAreSequences == Arrays!Spec

(* Where the node at the tail is in the list, 0 if nowhere. *)
TailPosition ==
    LET at == {k \in 1 .. Len(InList) : InList[k] = list.tail}
    IN  IF at = {} THEN 0 ELSE CHOOSE k \in at : TRUE

(* Nodes that are counted and that a walk over the list does not meet. *)
Lost == list.size - Len(InList)

MarkedNodes == INSTANCE NodeSequence WITH
    Nodes <- 1 .. MaxNodes,
    contents <- InList,
    mark <- TailPosition,
    lost <- Lost

(* A walk over the list meets the nodes a sequence would hold, and a node   *)
(* gets lost only by an insertion at the end after one behind the last.     *)
ListIsSequence == MarkedNodes!Spec
=============================================================================
