-------------------------- MODULE PostorderProofs --------------------------
(***************************************************************************)
(* The traversal lists exactly the reachable blocks, each once, the entry  *)
(* last: for every graph, by the inductive invariant PostorderInv.         *)
(***************************************************************************)
EXTENDS Postorder, DominanceProofs

Injective(q) == \A m, k \in 1 .. Len(q) : q[m] = q[k] => m = k

(* A visited block is either pushed or has an active call, and not both. *)
VisitedSplit ==
    /\ visited = Active \union Pushed
    /\ Active \cap Pushed = {}
    /\ Injective(path) /\ Injective(postorder)

(* Everything a pushed block leads to has been visited, and of an active *)
(* one everything its cursor has passed.                                 *)
PushedExplored == \A b \in Pushed : Succs(cfg, b) \subseteq visited
ActiveExplored ==
    \A b \in Active : \A k \in 1 .. Len(cfg.succs[b]) :
        k < cursor[b] => cfg.succs[b][k] \in visited

(* No successor of an unvisited block has been looked at. *)
CursorFresh == \A b \in Blocks \ visited : cursor[b] = 1

(* The outermost call is the entry's, until the entry has been pushed. *)
Phase ==
    IF pc = "dfs" THEN path # <<>> /\ path[1] = Entry
    ELSE /\ path = <<>>
         /\ Len(postorder) \in Nat \ {0}
         /\ postorder[Len(postorder)] = Entry

PostorderInv ==
    /\ PostorderTypeOK
    /\ VisitedSplit
    /\ PushedExplored
    /\ ActiveExplored
    /\ CursorFresh
    /\ Phase
    /\ visited \subseteq Reachable(cfg)

-----------------------------------------------------------------------------

(* The elements of a sequence without its last one. *)
LEMMA FrontElements ==
    ASSUME NEW S, NEW q \in Seq(S), q # <<>>
    PROVE  LET f == SubSeq(q, 1, Len(q) - 1)
           IN  /\ f \in Seq(S)
               /\ Len(f) = Len(q) - 1
               /\ \A k \in 1 .. Len(q) - 1 : f[k] = q[k]
OBVIOUS

(* A block appended to a sequence that does not have it keeps the sequence *)
(* free of duplicates.                                                     *)
LEMMA AppendInjective ==
    ASSUME NEW S, NEW q \in Seq(S), NEW e \in S, Injective(q),
           e \notin {q[k] : k \in 1 .. Len(q)}
    PROVE  Injective(Append(q, e))
<1> DEFINE a == Append(q, e)
<1>1. /\ Len(a) = Len(q) + 1 /\ Len(q) \in Nat
      /\ \A k \in 1 .. Len(q) : a[k] = q[k]
      /\ a[Len(q) + 1] = e
  BY AppendElements
<1> HIDE DEF a
<1>2. Injective(a)
  BY <1>1 DEF Injective
<1> QED
  BY <1>2 DEF a

(* Without its last element a sequence free of duplicates has all elements *)
(* but that one.                                                           *)
LEMMA FrontRange ==
    ASSUME NEW S, NEW q \in Seq(S), q # <<>>, Injective(q)
    PROVE  LET f == SubSeq(q, 1, Len(q) - 1)
           IN  /\ Injective(f)
               /\ {f[k] : k \in 1 .. Len(f)} = {q[k] : k \in 1 .. Len(q)} \ {q[Len(q)]}
<1> DEFINE f == SubSeq(q, 1, Len(q) - 1)
<1>1. Len(q) \in Nat \ {0}
  OBVIOUS
<1>2. Len(f) = Len(q) - 1 /\ \A k \in 1 .. Len(q) - 1 : f[k] = q[k]
  BY FrontElements
<1> HIDE DEF f
<1>3. Injective(f)
  BY <1>1, <1>2 DEF Injective
<1>4. {f[k] : k \in 1 .. Len(f)} = {q[k] : k \in 1 .. Len(q)} \ {q[Len(q)]}
  <2>1. ASSUME NEW x \in {f[k] : k \in 1 .. Len(f)}
        PROVE  x \in {q[k] : k \in 1 .. Len(q)} \ {q[Len(q)]}
    BY <1>1, <1>2 DEF Injective
  <2>2. ASSUME NEW x \in {q[k] : k \in 1 .. Len(q)}, x # q[Len(q)]
        PROVE  x \in {f[k] : k \in 1 .. Len(f)}
    <3>1. PICK k \in 1 .. Len(q) : x = q[k]
      BY <2>2
    <3>2. k \in 1 .. Len(f)
      BY <1>1, <1>2, <2>2, <3>1
    <3> QED
      BY <1>2, <3>1, <3>2
  <2> QED
    BY <2>1, <2>2
<1> QED
  BY <1>3, <1>4 DEF f

(* The call that runs is active. *)
LEMMA TopIsActive ==
    ASSUME PostorderTypeOK, Phase, pc = "dfs"
    PROVE  /\ Len(path) \in Nat \ {0}
           /\ Top \in Active
           /\ Top \in Blocks
           /\ cfg.succs[Top] \in Seq(Blocks)
<1>1. Len(path) \in Nat \ {0}
  BY DEF PostorderTypeOK, Phase
<1> QED
  BY <1>1 DEF PostorderTypeOK, Top, Active, WellFormed, Cfg

-----------------------------------------------------------------------------

(* The invariant holds at the start. *)
LEMMA PostorderInit_Inv == PostorderInit => PostorderInv
<1> SUFFICES ASSUME PostorderInit PROVE PostorderInv
  OBVIOUS
<1> USE DEF PostorderInit, TraversalInit
<1>1. PostorderTypeOK
  BY CfgsAssumption, EntryIsBlock DEF PostorderTypeOK
<1>2. Active = {Entry} /\ Pushed = {}
  BY DEF Active, Pushed
<1>3. VisitedSplit
  BY <1>2 DEF VisitedSplit, Injective
<1>4. PushedExplored
  BY <1>2 DEF PushedExplored
<1>5. ActiveExplored
  BY <1>2, EntryIsBlock, CfgsAssumption DEF ActiveExplored, WellFormed, Cfg
<1>6. Phase
  BY DEF Phase
<1>7. visited \subseteq Reachable(cfg)
  BY ReachableStart, EntryIsBlock, NoBlockIsNone DEF Reachable
<1>8. CursorFresh
  BY DEF CursorFresh
<1> QED
  BY <1>8, <1>1, <1>3, <1>4, <1>5, <1>6, <1>7 DEF PostorderInv

(* A call for an unvisited child begins. *)
LEMMA Descend_Inv == PostorderInv /\ Descend => PostorderInv'
<1> SUFFICES ASSUME PostorderInv, Descend PROVE PostorderInv'
  OBVIOUS
<1> USE DEF PostorderInv
<1>1. /\ pc = "dfs" /\ pc' = "dfs" /\ cfg' = cfg /\ postorder' = postorder
      /\ Child \notin visited
      /\ visited' = visited \union {Child}
      /\ path' = Append(path, Child)
      /\ cursor' = [cursor EXCEPT ![Top] = @ + 1]
  BY DEF Descend, HasChild
<1>2. /\ Len(path) \in Nat \ {0} /\ Top \in Active /\ Top \in Blocks
      /\ cfg.succs[Top] \in Seq(Blocks)
  BY <1>1, TopIsActive
<1>3. cursor[Top] \in 1 .. Len(cfg.succs[Top])
  BY <1>2 DEF Descend, HasChild, PostorderTypeOK
<1>4. Child \in Blocks /\ Child \in Succs(cfg, Top)
  BY <1>2, <1>3 DEF Child, Succs
<1>5. PostorderTypeOK'
  <2>1. path' \in Seq(Blocks)
    BY <1>1, <1>4, AppendElements DEF PostorderTypeOK
  <2>2. cursor' \in [Blocks -> Nat \ {0}]
    BY <1>1, <1>2 DEF PostorderTypeOK
  <2> QED
    BY <1>1, <1>4, <2>1, <2>2 DEF PostorderTypeOK
<1>6. Active' = Active \union {Child} /\ Pushed' = Pushed
  <2>1. path \in Seq(Blocks)
    BY DEF PostorderTypeOK
  <2> QED
    BY <1>1, <1>4, <2>1, AppendRange DEF Active, Pushed
<1>7. Child \notin Active /\ Child \notin Pushed
  BY <1>1 DEF VisitedSplit
<1>8. VisitedSplit'
  <2>1. Injective(path')
    BY <1>1, <1>4, <1>7, AppendInjective DEF PostorderTypeOK, VisitedSplit, Active
  <2> QED
    BY <1>1, <1>6, <1>7, <2>1 DEF VisitedSplit
<1>9. PushedExplored'
  BY <1>1, <1>6 DEF PushedExplored
<1>10. ActiveExplored'
  <2> SUFFICES ASSUME NEW b \in Active', NEW k \in 1 .. Len(cfg.succs[b]), k < cursor'[b]
               PROVE  cfg.succs[b][k] \in visited'
    BY <1>1 DEF ActiveExplored
  <2>1. CASE b = Top
    <3>1. k < cursor[b] + 1
      BY <1>1, <1>2, <2>1 DEF PostorderTypeOK
    <3>2. CASE k = cursor[b]
      BY <1>1, <2>1, <3>2 DEF Child
    <3>3. CASE k # cursor[b]
      BY <1>1, <1>2, <1>3, <2>1, <3>1, <3>3 DEF ActiveExplored
    <3> QED
      BY <3>2, <3>3
  <2>2. CASE b # Top /\ b \in Active
    BY <1>1, <2>2 DEF ActiveExplored, PostorderTypeOK
  <2>3. CASE b # Top /\ b = Child
    <3>1. cursor'[b] = 1
      BY <1>1, <1>2, <1>4, <2>3 DEF CursorFresh, PostorderTypeOK
    <3> QED
      BY <1>1, <3>1
  <2> QED
    BY <1>6, <2>1, <2>2, <2>3
<1>11. Phase'
  BY <1>1, <1>2, <1>4, AppendElements, SMTT(30) DEF Phase, PostorderTypeOK
<1>12. visited' \subseteq Reachable(cfg')
  <2>1. Top \in Reachable(cfg)
    BY <1>2 DEF VisitedSplit
  <2>2. Child # NoBlock
    BY <1>4, NoBlockIsNone
  <2>3. Child \in Reachable(cfg)
    BY <1>4, <2>1, <2>2, ReachableClosed, EntryIsBlock DEF Reachable, PostorderTypeOK, WellFormed
  <2> QED
    BY <1>1, <2>3
<1>13. CursorFresh'
  BY <1>1, <1>2 DEF CursorFresh, VisitedSplit, PostorderTypeOK
<1> QED
  BY <1>5, <1>8, <1>9, <1>10, <1>11, <1>12, <1>13

(* A visited child is passed over. *)
LEMMA SkipChild_Inv == PostorderInv /\ SkipChild => PostorderInv'
<1> SUFFICES ASSUME PostorderInv, SkipChild PROVE PostorderInv'
  OBVIOUS
<1> USE DEF PostorderInv
<1>1. /\ pc = "dfs" /\ pc' = "dfs" /\ cfg' = cfg /\ postorder' = postorder
      /\ visited' = visited /\ path' = path
      /\ Child \in visited
      /\ cursor' = [cursor EXCEPT ![Top] = @ + 1]
  BY DEF SkipChild, HasChild
<1>2. /\ Top \in Active /\ Top \in Blocks
      /\ cfg.succs[Top] \in Seq(Blocks)
  BY <1>1, TopIsActive
<1>3. Active' = Active /\ Pushed' = Pushed
  BY <1>1 DEF Active, Pushed
<1>4. PostorderTypeOK'
  BY <1>1, <1>2 DEF PostorderTypeOK
<1>5. VisitedSplit'
  BY <1>1, <1>3 DEF VisitedSplit
<1>6. PushedExplored'
  BY <1>1, <1>3 DEF PushedExplored
<1>7. ActiveExplored'
  <2> SUFFICES ASSUME NEW b \in Active, NEW k \in 1 .. Len(cfg.succs[b]), k < cursor'[b]
               PROVE  cfg.succs[b][k] \in visited
    BY <1>1, <1>3 DEF ActiveExplored
  <2>1. CASE b = Top
    <3>1. k < cursor[b] + 1 /\ cursor[b] \in Nat
      BY <1>1, <1>2, <2>1 DEF PostorderTypeOK
    <3>2. CASE k = cursor[b]
      BY <1>1, <2>1, <3>2 DEF Child
    <3>3. CASE k # cursor[b]
      BY <3>1, <3>3 DEF ActiveExplored
    <3> QED
      BY <3>2, <3>3
  <2>2. CASE b # Top
    BY <1>1, <2>2 DEF ActiveExplored, PostorderTypeOK, VisitedSplit
  <2> QED
    BY <2>1, <2>2
<1>8. CursorFresh'
  BY <1>1, <1>2 DEF CursorFresh, VisitedSplit, PostorderTypeOK
<1>9. Phase'
  BY <1>1 DEF Phase
<1> QED
  BY <1>1, <1>4, <1>5, <1>6, <1>7, <1>8, <1>9

(* What the two actions that end a call have in common: the block goes  *)
(* from the active to the pushed ones, with all its successors visited. *)
LEMMA CallEnds ==
    ASSUME PostorderInv, pc = "dfs", ~HasChild
    PROVE  /\ Succs(cfg, Top) \subseteq visited
           /\ Top \in Blocks /\ Top \in Active /\ Top \notin Pushed
           /\ Append(postorder, Top) \in Seq(Blocks)
           /\ Injective(Append(postorder, Top))
           /\ {Append(postorder, Top)[k] : k \in 1 .. Len(Append(postorder, Top))}
                  = Pushed \union {Top}
           /\ Len(Append(postorder, Top)) \in Nat \ {0}
           /\ Append(postorder, Top)[Len(Append(postorder, Top))] = Top
<1> USE DEF PostorderInv
<1>1. /\ Top \in Active /\ Top \in Blocks
      /\ cfg.succs[Top] \in Seq(Blocks)
  BY TopIsActive
<1>2. Len(cfg.succs[Top]) < cursor[Top] /\ Len(cfg.succs[Top]) \in Nat /\ cursor[Top] \in Nat
  BY <1>1 DEF HasChild, PostorderTypeOK
<1>3. Succs(cfg, Top) \subseteq visited
  BY <1>1, <1>2 DEF ActiveExplored, Succs
<1>4. Top \notin Pushed
  BY <1>1 DEF VisitedSplit
<1>5. postorder \in Seq(Blocks) /\ Injective(postorder) /\ Len(postorder) \in Nat
  BY DEF PostorderTypeOK, VisitedSplit
<1>6. Injective(Append(postorder, Top))
  BY <1>1, <1>4, <1>5, AppendInjective DEF Pushed
<1>7. {Append(postorder, Top)[k] : k \in 1 .. Len(Append(postorder, Top))}
          = Pushed \union {Top}
  BY <1>1, <1>5, AppendRange DEF Pushed
<1>8. /\ Append(postorder, Top) \in Seq(Blocks)
      /\ Len(Append(postorder, Top)) = Len(postorder) + 1
      /\ Append(postorder, Top)[Len(postorder) + 1] = Top
  BY <1>1, <1>5, AppendElements
<1> QED
  BY <1>1, <1>3, <1>4, <1>5, <1>6, <1>7, <1>8

(* A recursive call ends. *)
LEMMA Return_Inv == PostorderInv /\ Return => PostorderInv'
<1> SUFFICES ASSUME PostorderInv, Return PROVE PostorderInv'
  OBVIOUS
<1> USE DEF PostorderInv
<1>1. /\ pc = "dfs" /\ pc' = "dfs" /\ cfg' = cfg /\ ~HasChild
      /\ visited' = visited /\ cursor' = cursor
      /\ Len(path) > 1
      /\ postorder' = Append(postorder, Top)
      /\ path' = SubSeq(path, 1, Len(path) - 1)
  BY DEF Return, PushedLast
<1>2. /\ Succs(cfg, Top) \subseteq visited
      /\ Top \in Blocks /\ Top \in Active /\ Top \notin Pushed
      /\ postorder' \in Seq(Blocks) /\ Injective(postorder')
      /\ Pushed' = Pushed \union {Top}
  BY <1>1, CallEnds DEF Pushed
<1>3. path \in Seq(Blocks) /\ path # <<>> /\ Injective(path) /\ Len(path) \in Nat
  BY <1>1 DEF PostorderTypeOK, VisitedSplit, Phase
<1>4. /\ path' \in Seq(Blocks) /\ Len(path') = Len(path) - 1
      /\ \A k \in 1 .. Len(path) - 1 : path'[k] = path[k]
  BY <1>1, <1>3, FrontElements
<1>5. Injective(path') /\ Active' = Active \ {Top}
  BY <1>1, <1>3, FrontRange DEF Active, Top
<1>6. PostorderTypeOK'
  BY <1>1, <1>2, <1>4 DEF PostorderTypeOK
<1>7. VisitedSplit'
  BY <1>1, <1>2, <1>5 DEF VisitedSplit
<1>8. PushedExplored'
  BY <1>1, <1>2 DEF PushedExplored
<1>9. ActiveExplored'
  BY <1>1, <1>5 DEF ActiveExplored
<1>10. CursorFresh'
  BY <1>1 DEF CursorFresh
<1>11. Phase'
  BY <1>1, <1>3, <1>4 DEF Phase
<1> QED
  BY <1>1, <1>6, <1>7, <1>8, <1>9, <1>10, <1>11

(* The outermost call ends. *)
LEMMA Finish_Inv == PostorderInv /\ Finish => PostorderInv'
<1> SUFFICES ASSUME PostorderInv, Finish PROVE PostorderInv'
  OBVIOUS
<1> USE DEF PostorderInv
<1>1. /\ pc = "dfs" /\ pc' = "ordered" /\ cfg' = cfg /\ ~HasChild
      /\ visited' = visited /\ cursor' = cursor
      /\ Len(path) = 1 /\ path[1] = Entry
      /\ path' = <<>>
  BY DEF Finish, Phase
<1>2. Top = Entry /\ Active = {Entry}
  BY <1>1 DEF Top, Active
<1>3. postorder' = Append(postorder, Top)
  BY <1>2 DEF Finish, PushedLast
<1>4. /\ Succs(cfg, Entry) \subseteq visited
      /\ postorder' \in Seq(Blocks) /\ Injective(postorder')
      /\ Pushed' = Pushed \union {Entry}
      /\ Len(postorder') \in Nat \ {0}
      /\ postorder'[Len(postorder')] = Entry
  BY <1>1, <1>2, <1>3, CallEnds DEF Pushed
<1>5. Active' = {}
  BY <1>1 DEF Active
<1>6. PostorderTypeOK'
  BY <1>1, <1>4 DEF PostorderTypeOK
<1>7. VisitedSplit'
  BY <1>1, <1>2, <1>4, <1>5 DEF VisitedSplit, Injective
<1>8. PushedExplored'
  BY <1>1, <1>4 DEF PushedExplored
<1>9. ActiveExplored'
  BY <1>5 DEF ActiveExplored
<1>10. CursorFresh'
  BY <1>1 DEF CursorFresh
<1>11. Phase'
  BY <1>1, <1>4 DEF Phase
<1> QED
  BY <1>1, <1>6, <1>7, <1>8, <1>9, <1>10, <1>11

(* Every step of the traversal keeps the invariant. *)
LEMMA PostorderNext_Inv == PostorderInv /\ PostorderNext => PostorderInv'
BY Descend_Inv, SkipChild_Inv, Return_Inv, Finish_Inv DEF PostorderNext

(* So does every later step of the passes that use the order: they leave *)
(* the traversal's variables alone.                                      *)
LEMMA PostorderFrame_Inv ==
    ASSUME PostorderInv, UNCHANGED <<cfg, visited, postorder, path, cursor>>,
           pc' = "dfs" <=> pc = "dfs"
    PROVE  PostorderInv'
<1> USE DEF PostorderInv
<1>1. Active' = Active /\ Pushed' = Pushed
  BY DEF Active, Pushed
<1>2. PostorderTypeOK'
  BY DEF PostorderTypeOK
<1>3. VisitedSplit' /\ PushedExplored' /\ ActiveExplored' /\ CursorFresh'
  BY <1>1 DEF VisitedSplit, PushedExplored, ActiveExplored, CursorFresh
<1>4. Phase'
  BY DEF Phase
<1> QED
  BY <1>2, <1>3, <1>4

(* When the traversal is over, what is pushed is what can be reached: it   *)
(* is closed under the edges, so by ReachableLeast nothing is missing.     *)
LEMMA PushedIsReachable ==
    ASSUME PostorderInv, pc # "dfs"
    PROVE  Pushed = Reachable(cfg)
<1> USE DEF PostorderInv
<1>1. Active = {} /\ visited = Pushed
  <2>1. path = <<>>
    BY DEF Phase
  <2>2. Active = {}
    BY <2>1 DEF Active
  <2> QED
    BY <2>2 DEF VisitedSplit
<1>2. Entry \in Pushed
  BY DEF Phase, Pushed
<1>3. Pushed \subseteq Blocks \ {NoBlock}
  BY <1>1, NoBlockIsNone DEF PostorderTypeOK
<1>4. \A b \in Pushed : Succs(cfg, b) \ {NoBlock} \subseteq Pushed
  BY <1>1 DEF PushedExplored
<1>5. Pushed \in ClosedSets(cfg, Entry, NoBlock)
  BY <1>2, <1>3, <1>4 DEF ClosedSets
<1>6. Reachable(cfg) \subseteq Pushed
  BY <1>5, EntryIsBlock, NoBlockIsNone, ReachableLeast DEF Reachable
<1> QED
  BY <1>1, <1>6

LEMMA PostorderInv_Lists == PostorderInv => OrderListsReachable
BY PushedIsReachable DEF PostorderInv, OrderListsReachable, VisitedSplit, Injective, Phase

LEMMA PostorderInvariant == PostorderSpec => []PostorderInv
<1>1. PostorderInit => PostorderInv
  BY PostorderInit_Inv
<1>2. PostorderInv /\ UNCHANGED postorderVars => PostorderInv'
  BY PostorderFrame_Inv DEF postorderVars
<1>3. PostorderInv /\ [PostorderNext]_postorderVars => PostorderInv'
  BY <1>2, PostorderNext_Inv
<1> QED
  BY <1>1, <1>3, PTL DEF PostorderSpec

(* The traversal's variables keep their types: every index stays in range. *)
THEOREM PostorderTypeCorrect == PostorderSpec => []PostorderTypeOK
<1>1. PostorderInv => PostorderTypeOK
  BY DEF PostorderInv
<1> QED
  BY <1>1, PostorderInvariant, PTL

(* On every graph, postorder_dfs lists the blocks that can be reached, each *)
(* once and no other, and the entry last.                                   *)
THEOREM PostorderListsReachable == PostorderSpec => []OrderListsReachable
BY PostorderInv_Lists, PostorderInvariant, PTL

-----------------------------------------------------------------------------

(* The active calls are nested: from a block one gets to those whose calls *)
(* began later.                                                            *)
CallsNest ==
    \A m, k \in 1 .. Len(path) :
        m <= k => path[k] \in ReachableFrom(cfg, path[m], NoBlock)

(* An edge of a pushed block leads to a block pushed before it, or back. *)
EdgesBackOrEarlier ==
    \A k \in 1 .. Len(postorder) : \A d \in Succs(cfg, postorder[k]) :
        \/ postorder[k] \in ReachableFrom(cfg, d, NoBlock)
        \/ \E m \in 1 .. k : postorder[m] = d

EdgesInv == PostorderInv /\ CallsNest /\ EdgesBackOrEarlier

(* A call that ends leaves every edge of its block in order: the target has *)
(* been pushed, or its own call is one of those this call is part of.       *)
LEMMA CallEnds_Edges ==
    ASSUME EdgesInv, pc = "dfs", ~HasChild,
           postorder' = Append(postorder, Top), cfg' = cfg
    PROVE  EdgesBackOrEarlier'
<1>1. /\ Succs(cfg, Top) \subseteq visited
      /\ Top \in Blocks /\ Top \in Active
  BY CallEnds DEF EdgesInv
<1>2. /\ visited = Active \union Pushed
      /\ postorder \in Seq(Blocks) /\ Len(postorder) \in Nat
      /\ Len(path) \in Nat
  BY DEF EdgesInv, PostorderInv, PostorderTypeOK, VisitedSplit
<1>3. /\ Len(postorder') = Len(postorder) + 1
      /\ \A k \in 1 .. Len(postorder) : postorder'[k] = postorder[k]
      /\ postorder'[Len(postorder) + 1] = Top
  BY <1>1, <1>2, AppendElements
<1> SUFFICES ASSUME NEW k \in 1 .. Len(postorder'), NEW d \in Succs(cfg, postorder'[k])
             PROVE  \/ postorder'[k] \in ReachableFrom(cfg, d, NoBlock)
                    \/ \E m \in 1 .. k : postorder'[m] = d
  BY DEF EdgesBackOrEarlier
<1>4. CASE k \in 1 .. Len(postorder)
  <2>1. postorder'[k] = postorder[k] /\ \A m \in 1 .. k : postorder'[m] = postorder[m]
    BY <1>2, <1>3, <1>4
  <2> QED
    BY <1>4, <2>1 DEF EdgesInv, EdgesBackOrEarlier
<1>5. CASE k = Len(postorder) + 1
  <2>1. postorder'[k] = Top /\ d \in visited
    BY <1>1, <1>3, <1>5
  <2>2. CASE d \in Pushed
    <3>1. PICK m \in 1 .. Len(postorder) : postorder[m] = d
      BY <2>2 DEF Pushed
    <3>2. m \in 1 .. k /\ postorder'[m] = d
      BY <1>2, <1>3, <1>5, <3>1
    <3> QED
      BY <3>2
  <2>3. CASE d \in Active
    <3>1. PICK m \in 1 .. Len(path) : path[m] = d
      BY <2>3 DEF Active
    <3>2. Len(path) \in 1 .. Len(path) /\ m <= Len(path)
      BY <1>2
    <3> QED
      BY <2>1, <3>1, <3>2 DEF EdgesInv, CallsNest, Top
  <2> QED
    BY <1>2, <2>1, <2>2, <2>3
<1> QED
  BY <1>2, <1>3, <1>4, <1>5

LEMMA PostorderInit_Edges == PostorderInit => EdgesInv
<1> SUFFICES ASSUME PostorderInit PROVE EdgesInv
  OBVIOUS
<1>1. PostorderInv
  BY PostorderInit_Inv
<1>2. Len(path) = 1 /\ path[1] = Entry /\ Len(postorder) = 0
  BY DEF PostorderInit, TraversalInit
<1>3. CallsNest
  BY <1>2, EntryIsBlock, NoBlockIsNone, ReachableStart DEF CallsNest
<1>4. EdgesBackOrEarlier
  BY <1>2 DEF EdgesBackOrEarlier
<1> QED
  BY <1>1, <1>3, <1>4 DEF EdgesInv

LEMMA PostorderNext_Edges == EdgesInv /\ PostorderNext => EdgesInv'
<1> SUFFICES ASSUME EdgesInv, PostorderNext PROVE EdgesInv'
  OBVIOUS
<1>1. PostorderInv /\ PostorderInv'
  BY PostorderNext_Inv DEF EdgesInv
<1>2. path \in Seq(Blocks) /\ cfg \in Cfg
  BY <1>1 DEF PostorderInv, PostorderTypeOK, WellFormed
<1>3. CASE Descend
  <2>1. /\ pc = "dfs" /\ cfg' = cfg /\ postorder' = postorder
        /\ path' = Append(path, Child)
    BY <1>3 DEF Descend, HasChild
  <2>2. /\ Len(path) \in Nat \ {0} /\ Top \in Blocks
        /\ cfg.succs[Top] \in Seq(Blocks)
    BY <1>1, <2>1, TopIsActive DEF PostorderInv
  <2>3. cursor[Top] \in 1 .. Len(cfg.succs[Top])
    BY <1>1, <1>3, <2>2 DEF Descend, HasChild, PostorderInv, PostorderTypeOK
  <2>4. Child \in Blocks /\ Child \in Succs(cfg, Top)
    BY <2>2, <2>3 DEF Child, Succs
  <2>5. /\ Len(path') = Len(path) + 1
        /\ \A k \in 1 .. Len(path) : path'[k] = path[k]
        /\ path'[Len(path) + 1] = Child
    BY <1>2, <2>1, <2>4, AppendElements
  <2>6. ASSUME NEW m \in 1 .. Len(path), NEW k \in 1 .. Len(path'), m <= k
        PROVE  path'[k] \in ReachableFrom(cfg, path'[m], NoBlock)
    <3>1. path'[m] = path[m] /\ path[m] \in Blocks
      BY <1>2, <2>5
    <3>2. CASE k \in 1 .. Len(path)
      BY <2>5, <2>6, <3>1, <3>2 DEF EdgesInv, CallsNest
    <3>3. CASE k = Len(path) + 1
      <4>1. Top \in ReachableFrom(cfg, path[m], NoBlock)
        BY <2>2 DEF EdgesInv, CallsNest, Top
      <4>2. Child # NoBlock
        BY <2>4, NoBlockIsNone
      <4> QED
        BY <1>2, <2>4, <2>5, <3>1, <3>3, <4>1, <4>2, ReachableClosed
    <3> QED
      BY <2>2, <2>5, <3>2, <3>3
  <2>7. Child \in ReachableFrom(cfg, Child, NoBlock)
    BY <2>4, NoBlockIsNone, ReachableStart
  <2>8. CallsNest'
    <3> SUFFICES ASSUME NEW m \in 1 .. Len(path'), NEW k \in 1 .. Len(path'), m <= k
                 PROVE  path'[k] \in ReachableFrom(cfg, path'[m], NoBlock)
      BY <2>1 DEF CallsNest
    <3>1. CASE m \in 1 .. Len(path)
      BY <2>6, <3>1
    <3>2. CASE m = Len(path) + 1
      <4>1. k = Len(path) + 1
        BY <2>2, <2>5, <3>2
      <4> QED
        BY <2>5, <2>7, <3>2, <4>1
    <3> QED
      BY <2>2, <2>5, <3>1, <3>2
  <2>9. EdgesBackOrEarlier'
    BY <2>1 DEF EdgesInv, EdgesBackOrEarlier
  <2> QED
    BY <1>1, <2>8, <2>9 DEF EdgesInv
<1>4. CASE SkipChild
  BY <1>1, <1>4 DEF SkipChild, EdgesInv, CallsNest, EdgesBackOrEarlier
<1>5. CASE Return
  <2>1. /\ pc = "dfs" /\ ~HasChild /\ cfg' = cfg /\ path # <<>>
        /\ postorder' = Append(postorder, Top)
        /\ path' = SubSeq(path, 1, Len(path) - 1)
    BY <1>1, <1>5 DEF Return, PushedLast, PostorderInv, Phase
  <2>2. /\ Len(path') = Len(path) - 1 /\ Len(path) \in Nat
        /\ \A k \in 1 .. Len(path) - 1 : path'[k] = path[k]
    BY <1>2, <2>1, FrontElements
  <2>3. CallsNest'
    BY <2>1, <2>2 DEF EdgesInv, CallsNest
  <2> QED
    BY <1>1, <2>1, <2>3, CallEnds_Edges DEF EdgesInv
<1>6. CASE Finish
  <2>1. /\ pc = "dfs" /\ ~HasChild /\ cfg' = cfg /\ Len(path) = 1 /\ path[1] = Entry
        /\ path' = <<>>
    BY <1>1, <1>6 DEF Finish, PostorderInv, Phase
  <2>2. postorder' = Append(postorder, Top)
    BY <1>6, <2>1 DEF Finish, PushedLast, Top
  <2>3. CallsNest'
    BY <2>1 DEF CallsNest
  <2> QED
    BY <1>1, <2>1, <2>2, <2>3, CallEnds_Edges DEF EdgesInv
<1> QED
  BY <1>3, <1>4, <1>5, <1>6 DEF PostorderNext

(* In every postorder, for every graph, an edge to a later block is part of *)
(* a cycle.                                                                 *)
THEOREM PostorderEdgesCloseCycles == PostorderSpec => []LaterTargetsCloseCycles
<1>1. PostorderInit => EdgesInv
  BY PostorderInit_Edges
<1>2. EdgesInv /\ UNCHANGED postorderVars => EdgesInv'
  BY PostorderFrame_Inv DEF postorderVars, EdgesInv, CallsNest, EdgesBackOrEarlier
<1>3. EdgesInv /\ [PostorderNext]_postorderVars => EdgesInv'
  BY <1>2, PostorderNext_Edges
<1>4. EdgesInv => LaterTargetsCloseCycles
  <2> SUFFICES ASSUME EdgesInv, NEW m \in 1 .. Len(postorder), NEW k \in 1 .. Len(postorder),
                      m < k, postorder[k] \in Succs(cfg, postorder[m])
               PROVE  postorder[m] \in ReachableFrom(cfg, postorder[k], NoBlock)
    BY DEF LaterTargetsCloseCycles
  <2>1. Len(postorder) \in Nat /\ Injective(postorder)
    BY DEF EdgesInv, PostorderInv, PostorderTypeOK, VisitedSplit
  <2>2. \A l \in 1 .. m : postorder[l] # postorder[k]
    BY <2>1 DEF Injective
  <2> QED
    BY <2>2 DEF EdgesInv, EdgesBackOrEarlier
<1> QED
  BY <1>1, <1>3, <1>4, PTL DEF PostorderSpec

-----------------------------------------------------------------------------
(* What the traversal has left to do: the edges it has not looked at, and *)
(* then the calls to return from.                                         *)
Unlooked ==
    {e \in Blocks \X (Nat \ {0}) : cursor[e[1]] <= e[2] /\ e[2] <= Len(cfg.succs[e[1]])}

TraversalLeft == <<IF pc = "dfs" THEN 1 ELSE 0, Cardinality(Unlooked), Len(path)>>

(* There are finitely many blocks, ... *)
LEMMA BlocksFinite == IsFiniteSet(Blocks)
<1>1. 0 \in Int /\ NBlocks - 1 \in Int
  BY NBlocksAssumption
<1> QED
  BY <1>1, FS_Interval DEF Blocks

(* ... and finitely many edges. *)
LEMMA UnlookedFinite ==
    ASSUME PostorderTypeOK
    PROVE  IsFiniteSet(Unlooked)
<1> DEFINE f == [b \in Blocks |-> {b} \X (1 .. Len(cfg.succs[b]))]
           R == {f[b] : b \in Blocks}
<1>1. f \in Surjection(Blocks, R)
  BY DEF Surjection
<1>2. IsFiniteSet(R)
  <2> HIDE DEF f, R
  <2> QED
    BY <1>1, BlocksFinite, FS_Surjection
<1>3. \A b \in Blocks : cfg.succs[b] \in Seq(Blocks) /\ Len(cfg.succs[b]) \in Nat
  BY DEF PostorderTypeOK, WellFormed, Cfg
<1>4. ASSUME NEW b \in Blocks
      PROVE  IsFiniteSet({b} \X (1 .. Len(cfg.succs[b])))
  <2>1. 1 \in Int /\ Len(cfg.succs[b]) \in Int
    BY <1>3
  <2>2. IsFiniteSet(1 .. Len(cfg.succs[b])) /\ IsFiniteSet({b})
    BY <2>1, FS_Interval, FS_Singleton
  <2> QED
    BY <2>2, FS_Product
<1>5. \A T \in R : IsFiniteSet(T)
  BY <1>4
<1>6. IsFiniteSet(UNION R)
  <2> HIDE DEF R
  <2> QED
    BY <1>2, <1>5, FS_UNION
<1>7. ASSUME NEW e \in Unlooked PROVE e \in UNION R
  <2>1. e[1] \in Blocks /\ e[2] \in 1 .. Len(cfg.succs[e[1]]) /\ e = <<e[1], e[2]>>
    BY <1>3 DEF Unlooked
  <2>2. e \in f[e[1]]
    BY <2>1
  <2> QED
    BY <2>1, <2>2
<1> HIDE DEF R
<1>8. Unlooked \in SUBSET UNION R
  BY <1>7
<1> QED
  BY <1>6, <1>8, FS_Subset

(* A cursor that moves on leaves an edge less. *)
LEMMA EdgeLooked ==
    ASSUME PostorderTypeOK, NEW b \in Blocks, cursor[b] <= Len(cfg.succs[b]),
           cfg' = cfg, cursor' = [cursor EXCEPT ![b] = @ + 1]
    PROVE  /\ Cardinality(Unlooked') \in Nat /\ Cardinality(Unlooked) \in Nat
           /\ Cardinality(Unlooked') < Cardinality(Unlooked)
<1> DEFINE e == <<b, cursor[b]>>
<1>1. cursor \in [Blocks -> Nat \ {0}] /\ cursor[b] \in Nat \ {0}
  BY DEF PostorderTypeOK
<1>2. e \in Unlooked
  BY <1>1 DEF Unlooked
<1>3. e \notin Unlooked'
  BY <1>1 DEF Unlooked
<1>4. Unlooked' \subseteq Unlooked
  <2> SUFFICES ASSUME NEW x \in Unlooked' PROVE x \in Unlooked
    OBVIOUS
  <2>1. /\ x \in Blocks \X (Nat \ {0}) /\ x[1] \in Blocks /\ x[2] \in Nat
        /\ cursor'[x[1]] <= x[2] /\ x[2] <= Len(cfg.succs[x[1]])
    BY DEF Unlooked
  <2>2. cursor[x[1]] <= cursor'[x[1]] /\ cursor[x[1]] \in Nat /\ cursor'[x[1]] \in Nat
    BY <1>1, <2>1
  <2>3. cursor[x[1]] <= x[2]
    BY <2>1, <2>2
  <2> QED
    BY <2>1, <2>3 DEF Unlooked
<1>5. IsFiniteSet(Unlooked)
  BY UnlookedFinite
<1> HIDE DEF e
<1> QED
  BY <1>2, <1>3, <1>4, <1>5, FewerLeft

(* These are numbers. *)
TraversalCounted ==
    TraversalLeft \in [1 .. 3 -> Nat] /\ Cardinality(Unlooked) \in Nat /\ Len(path) \in Nat

LEMMA TraversalLeftIs == PostorderTypeOK => TraversalCounted
<1> SUFFICES ASSUME PostorderTypeOK PROVE TraversalCounted
  OBVIOUS
<1>1. Cardinality(Unlooked) \in Nat
  BY UnlookedFinite, FS_CardinalityType
<1>2. Len(path) \in Nat
  BY DEF PostorderTypeOK
<1> QED
  BY <1>1, <1>2 DEF TraversalCounted, TraversalLeft

(* Every step of the traversal leaves less of it. *)
LEMMA TraversalRunsDown ==
    ASSUME PostorderInv, PostorderNext
    PROVE  <<TraversalLeft', TraversalLeft>> \in Lexicographic(3)
<1>1. PostorderTypeOK /\ PostorderTypeOK' /\ Phase
  BY PostorderNext_Inv DEF PostorderInv
<1>2. /\ Cardinality(Unlooked) \in Nat /\ Len(path) \in Nat
      /\ Cardinality(Unlooked') \in Nat /\ Len(path') \in Nat
  <2>1. PostorderTypeOK' => TraversalCounted'
    BY TraversalLeftIs, PTL
  <2> QED
    BY <1>1, <2>1, TraversalLeftIs DEF TraversalCounted
<1>3. pc = "dfs" /\ Top \in Blocks
  BY <1>1, TopIsActive DEF PostorderNext, Descend, SkipChild, Return, Finish, HasChild
<1> DEFINE was == <<1, Cardinality(Unlooked), Len(path)>>
<1>4. TraversalLeft = was
  BY <1>3 DEF TraversalLeft
<1>5. CASE Descend \/ SkipChild
  <2>1. pc' = "dfs" /\ cfg' = cfg /\ cursor' = [cursor EXCEPT ![Top] = @ + 1]
        /\ cursor[Top] <= Len(cfg.succs[Top])
    BY <1>3, <1>5 DEF Descend, SkipChild, HasChild
  <2>2. Cardinality(Unlooked') < Cardinality(Unlooked)
    BY <1>1, <1>3, <2>1, EdgeLooked
  <2>3. TraversalLeft' = <<1, Cardinality(Unlooked'), Len(path')>>
    BY <2>1 DEF TraversalLeft
  <2> QED
    BY <1>2, <1>4, <2>2, <2>3, LowerOfThree
<1>6. CASE Return
  <2>1. pc' = "dfs" /\ Unlooked' = Unlooked /\ path' = SubSeq(path, 1, Len(path) - 1) /\ path # <<>>
    BY <1>3, <1>6 DEF Return, Unlooked
  <2>2. Len(path') < Len(path)
    <3>1. Len(path') = Len(path) - 1
      BY <1>1, <2>1, FrontElements DEF PostorderTypeOK
    <3> QED
      BY <1>2, <3>1
  <2>3. TraversalLeft' = <<1, Cardinality(Unlooked'), Len(path')>>
    BY <2>1 DEF TraversalLeft
  <2> QED
    BY <1>2, <1>4, <2>1, <2>2, <2>3, LowerOfThree
<1>7. CASE Finish
  <2>1. TraversalLeft' = <<0, Cardinality(Unlooked'), Len(path')>>
    BY <1>7 DEF Finish, TraversalLeft
  <2>2. 0 \in Nat /\ 1 \in Nat /\ 0 < 1
    OBVIOUS
  <2> QED
    BY <1>2, <1>4, <2>1, <2>2, LowerOfThree
<1> QED
  BY <1>5, <1>6, <1>7 DEF PostorderNext

(* postorder_dfs cannot go on for ever: every step leaves fewer edges to   *)
(* look at, or as many and fewer calls.                                    *)
TraversalDescends ==
    [][(<<TraversalLeft', TraversalLeft>> \in Lexicographic(3))]_postorderVars

THEOREM PostorderDescends == PostorderSpec => TraversalDescends
<1>1. PostorderInv /\ [PostorderNext]_postorderVars
          => [(<<TraversalLeft', TraversalLeft>> \in Lexicographic(3))]_postorderVars
  BY TraversalRunsDown
<1> QED
  BY <1>1, PostorderInvariant, PTL DEF PostorderSpec, TraversalDescends

=============================================================================
