----------------------------- MODULE Postorder -----------------------------
(***************************************************************************)
(* postorder_dfs and postorder_helper of src/common/utils.h, the traversal *)
(* every pass starts with.  The helper is recursive: `path` is the stack   *)
(* of its active calls, innermost last, and `cursor[b]` the successor the  *)
(* call for b looks at next.                                               *)
(***************************************************************************)
EXTENDS Dominance

CONSTANT Cfgs       \* the graphs the program is run on

ASSUME CfgsAssumption == \A c \in Cfgs : WellFormed(c)

VARIABLES
    cfg,            \* the graph, never changed by a pass
    pc,             \* which part of the program runs
    visited,        \* BitSet visited
    postorder,      \* Buf<int> postorder
    path,           \* blocks whose postorder_helper call is active
    cursor          \* per block, index into its successors

dfsVars == <<visited, path, cursor>>
postorderVars == <<cfg, pc, visited, postorder, path, cursor>>

(* The entry is marked and the outermost call is made for it. *)
TraversalInit ==
    /\ visited = {Entry}
    /\ postorder = <<>>
    /\ path = <<Entry>>
    /\ cursor = [b \in Blocks |-> 1]

PostorderInit == cfg \in Cfgs /\ pc = "dfs" /\ TraversalInit

(* The block whose call runs and the successor it looks at. *)
Top == path[Len(path)]
HasChild == pc = "dfs" /\ cursor[Top] <= Len(cfg.succs[Top])
Child == cfg.succs[Top][cursor[Top]]

(* An unvisited child is marked, then visited by a recursive call. *)
Descend ==
    /\ HasChild
    /\ Child \notin visited
    /\ visited' = visited \union {Child}
    /\ path' = Append(path, Child)
    /\ cursor' = [cursor EXCEPT ![Top] = @ + 1]
    /\ UNCHANGED <<cfg, pc, postorder>>

SkipChild ==
    /\ HasChild
    /\ Child \in visited
    /\ cursor' = [cursor EXCEPT ![Top] = @ + 1]
    /\ UNCHANGED <<cfg, pc, visited, postorder, path>>

(* Mutant of PushedLast: the order comes out reversed. *)
PushedInFront(order, b) == <<b>> \o order
PushedLast(order, b) == Append(order, b)

(* The call for the top block is over: its caller pushes the block. *)
Return ==
    /\ pc = "dfs"
    /\ ~HasChild
    /\ Len(path) > 1
    /\ postorder' = PushedLast(postorder, Top)
    /\ path' = SubSeq(path, 1, Len(path) - 1)
    /\ UNCHANGED <<cfg, pc, visited, cursor>>

(* The outermost call is over: postorder_dfs itself pushes the entry. *)
Finish ==
    /\ pc = "dfs"
    /\ ~HasChild
    /\ Len(path) = 1
    /\ postorder' = PushedLast(postorder, Entry)
    /\ path' = <<>>
    /\ pc' = "ordered"
    /\ UNCHANGED <<cfg, visited, cursor>>

PostorderNext == Descend \/ SkipChild \/ Return \/ Finish

PostorderSpec ==
    PostorderInit /\ [][PostorderNext]_postorderVars /\ WF_postorderVars(PostorderNext)

-----------------------------------------------------------------------------

(* The blocks already pushed, and those with an active call. *)
Pushed == {postorder[k] : k \in 1 .. Len(postorder)}
Active == {path[k] : k \in 1 .. Len(path)}

PostorderTypeOK ==
    /\ WellFormed(cfg)
    /\ visited \subseteq Blocks
    /\ postorder \in Seq(Blocks)
    /\ path \in Seq(Blocks)
    /\ cursor \in [Blocks -> Nat \ {0}]

(* When the traversal is over it has listed every block that can be        *)
(* reached, no other block, and none twice; the entry is the last one.     *)
(* compute_dominators asserts the last part, build and liveout_info assume *)
(* all of it.                                                              *)
OrderListsReachable ==
    pc = "ordered" =>
        /\ Pushed = Reachable(cfg)
        /\ \A j, k \in 1 .. Len(postorder) : postorder[j] = postorder[k] => j = k
        /\ postorder[Len(postorder)] = Entry

(* An edge that leads to a later block of the postorder closes a cycle: on *)
(* an acyclic graph the order is a reverse topological one, and one sweep  *)
(* meets every predecessor first.                                          *)
LaterTargetsCloseCycles ==
    pc = "ordered" =>
        \A j, k \in 1 .. Len(postorder) :
            (j < k /\ postorder[k] \in Succs(cfg, postorder[j]))
                => postorder[j] \in ReachableFrom(cfg, postorder[k], NoBlock)
=============================================================================
