------------------------- MODULE TagHierarchyProofs -------------------------
(***************************************************************************)
(* Proofs about TagHierarchy for every set of client ids, every bound on   *)
(* the number of vertices, and every request.                              *)
(*                                                                         *)
(* Every step of the daemon changes the graph, the index, the root and the *)
(* stored archive in one of eight ways, whatever command it belongs to     *)
(* (lemma StepEffect, one case per action).  The invariants are then       *)
(* proved effect by effect.                                                *)
(***************************************************************************)
EXTENDS TagHierarchy, TLAPS

-----------------------------------------------------------------------------
(* The effects.                                                            *)

EffNone == UNCHANGED <<bundle, edges, vertices_, root_, nextv, saved>>
EffClear == ClearGraph /\ UNCHANGED saved
EffStore ==
    /\ saved' = [present |-> TRUE, bundle |-> bundle, edges |-> edges,
                 nextv |-> nextv]
    /\ UNCHANGED <<bundle, edges, vertices_, root_, nextv>>
EffLoad == Idle /\ Load /\ UNCHANGED saved
EffRoot ==
    /\ nextv <= MaxVertex
    /\ root_' = nextv
    /\ bundle' = [v \in V \cup {nextv} |->
                    IF v = nextv THEN RootBundle ELSE bundle[v]]
    /\ nextv' = nextv + 1
    /\ UNCHANGED <<edges, vertices_, saved>>
EffAdd(n) ==
    /\ n.id # Absent
    /\ nextv <= MaxVertex
    /\ UniqueIds => \A v \in V : bundle[v].id # n.id
    /\ ParentVertex(n) \in V \/ (ParentVertex(n) = Null /\ ~HangsOnRoot(n))
    /\ AddNode(n)
EffUpdate(n) ==
    /\ n.id # Absent
    /\ vertices_[n.id] \in V
    /\ SameParent(n)
    /\ bundle' = [bundle EXCEPT ![vertices_[n.id]] = n]
    /\ UNCHANGED <<edges, vertices_, root_, nextv, saved>>
EffDelete(id) ==
    /\ vertices_[id] \in V
    /\ DeleteVertex(vertices_[id])
    /\ UNCHANGED saved

Effect ==
    \/ EffNone
    \/ EffClear
    \/ EffStore
    \/ EffLoad
    \/ EffRoot
    \/ \E n \in Node : EffAdd(n)
    \/ \E n \in Node : EffUpdate(n)
    \/ \E id \in ClientIds : EffDelete(id)

\* Every step has one of the effects: the commands that only read leave the
\* memory alone, and a command that ends the process clears it.
LEMMA StepEffect == [Next]_vars => Effect
<1> SUFFICES ASSUME [Next]_vars PROVE Effect
  OBVIOUS
<1> USE DEF memory
<1>1. CASE UnknownCommand
  BY <1>1 DEF UnknownCommand, Exit, Stop, Effect, EffClear
<1>2. CASE \E addRoot \in BOOLEAN : PopulateBegin(addRoot)
  BY <1>2 DEF PopulateBegin, Effect, EffRoot, EffNone
<1>3. ASSUME NEW n \in Node, PopulateNode(n) PROVE Effect
  <2>1. CASE n.id = Absent
    BY <1>3, <2>1 DEF PopulateNode, Finish, Effect, EffNone
  <2>2. CASE n.id # Absent /\ AddNode(n) /\
             (ParentVertex(n) \in V \/ (ParentVertex(n) = Null /\ ~HangsOnRoot(n)))
    BY <1>3, <2>2 DEF PopulateNode, Effect, EffAdd
  <2>3. CASE Exit("populate_graph", "none")
    BY <2>3 DEF Exit, Stop, Effect, EffClear
  <2>4. CASE UseAfterFree("populate_graph")
    BY <2>4 DEF UseAfterFree, Stop, Effect, EffClear
  <2> QED BY <1>3, <2>1, <2>2, <2>3, <2>4 DEF PopulateNode
<1>4. CASE PopulateDone \/ UpdateDone \/ DeleteDone
  BY <1>4 DEF PopulateDone, UpdateDone, DeleteDone, Finish, Effect, EffNone
<1>5. CASE UpdateBegin \/ DeleteBegin
  BY <1>5 DEF UpdateBegin, DeleteBegin, Effect, EffNone
<1>6. ASSUME NEW n \in Node, UpdateNode(n) PROVE Effect
  <2>1. CASE UpdateThrows(n) /\ Finish("empty") /\ UNCHANGED memory
    BY <2>1 DEF Finish, Effect, EffNone
  <2>2. CASE ~UpdateThrows(n) /\ vertices_[n.id] \in V /\ ~SameParent(n)
    BY <1>6, <2>2 DEF UpdateNode, Effect, EffNone
  <2>3. CASE ~UpdateThrows(n) /\ vertices_[n.id] \in V /\ SameParent(n)
    <3>1. n.id # Absent
      BY <2>3 DEF UpdateThrows
    <3> QED BY <1>6, <2>3, <3>1 DEF UpdateNode, Effect, EffUpdate
  <2>4. CASE UseAfterFree("update")
    BY <2>4 DEF UseAfterFree, Stop, Effect, EffClear
  <2> QED BY <1>6, <2>1, <2>2, <2>3, <2>4 DEF UpdateNode
<1>7. ASSUME NEW id \in ClientIds, DeleteNode(id) PROVE Effect
  <2>1. CASE vertices_[id] = Null /\ UNCHANGED <<memory, saved, status>>
    BY <2>1 DEF Effect, EffNone
  <2>2. CASE vertices_[id] \in V /\ DeleteVertex(vertices_[id]) /\ UNCHANGED saved
    BY <2>2 DEF Effect, EffDelete
  <2>3. CASE UseAfterFree("delete")
    BY <2>3 DEF UseAfterFree, Stop, Effect, EffClear
  <2> QED BY <1>7, <2>1, <2>2, <2>3 DEF DeleteNode
<1>8. CASE Store
  BY <1>8 DEF Store, Effect, EffStore
<1>9. CASE Restore
  BY <1>9 DEF Restore, Reply, Effect, EffNone, EffLoad
<1>10. CASE RestoreUnreadable
  BY <1>10 DEF RestoreUnreadable, Exit, Stop, Effect, EffClear
<1>11. CASE Flush
  BY <1>11 DEF Flush, Reply, Effect, EffClear
<1>12. CASE HealthCheck
  BY <1>12 DEF HealthCheck, Reply, Effect, EffNone
<1>13. ASSUME NEW cmd, NEW v, Read(v, cmd) PROVE Effect
  BY <1>13 DEF Read, Reply, Exit, UseAfterFree, Stop, Effect, EffNone, EffClear
<1>14. ASSUME NEW cmd, NotInitialized(cmd) PROVE Effect
  BY <1>14 DEF NotInitialized, Reply, Effect, EffNone
<1>15. ASSUME NEW cmd, Traverse(cmd) PROVE Effect
  BY <1>13, <1>14, <1>15 DEF Traverse
<1>16. ASSUME NEW p \in ClientIds \cup {NoParent}, Nodes(p) PROVE Effect
  BY <1>13, <1>14, <1>16 DEF Nodes
<1>17. ASSUME NEW cmd, Malformed(cmd) PROVE Effect
  BY <1>17 DEF Malformed, Reply, Effect, EffNone
<1>18. CASE Restart
  BY <1>18 DEF Restart, Effect, EffClear
<1>19. CASE UNCHANGED vars
  BY <1>19 DEF vars, Effect, EffNone
<1> QED
  BY <1>1, <1>2, <1>3, <1>4, <1>5, <1>6, <1>7, <1>8, <1>9, <1>10, <1>11, <1>12,
     <1>15, <1>16, <1>17, <1>18, <1>19 DEF Next

-----------------------------------------------------------------------------
(* The record of the call.                                                 *)

CallRecord == [cmd : Commands, busy : BOOLEAN, out : Outcomes,
               conflict : BOOLEAN, status : [AllIds -> DeleteStatus]]

\* A new call record is well formed.
LEMMA CallType ==
  ASSUME NEW cmd \in Commands, NEW busy \in BOOLEAN, NEW out \in Outcomes
  PROVE  Call(cmd, busy, out) \in CallRecord
BY DEF Call, CallRecord, NoStatus, DeleteStatus

\* The updates that loops make to the record of their call keep it well formed.
LEMMA CallUpdateType ==
  ASSUME NEW c \in CallRecord, NEW out \in Outcomes, NEW id \in AllIds,
         NEW st \in DeleteStatus
  PROVE  /\ [c EXCEPT !.busy = FALSE, !.out = out] \in CallRecord
         /\ [c EXCEPT !.conflict = TRUE] \in CallRecord
         /\ [c EXCEPT !.status[id] = st] \in CallRecord
<1>1. [c EXCEPT !.busy = FALSE] \in CallRecord
  BY DEF CallRecord
<1>2. [c EXCEPT !.busy = FALSE, !.out = out] \in CallRecord
  BY <1>1 DEF CallRecord
<1>3. [c EXCEPT !.conflict = TRUE] \in CallRecord
  BY DEF CallRecord
<1>4. [c.status EXCEPT ![id] = st] \in [AllIds -> DeleteStatus]
  BY DEF CallRecord
<1>5. [c EXCEPT !.status[id] = st] \in CallRecord
  BY <1>4 DEF CallRecord
<1> QED BY <1>2, <1>3, <1>5
Statuses == {"up", "exited", "corrupted"}

\* Every step leaves the call record and the status of the process well formed.
LEMMA StepCallType ==
  ASSUME call \in CallRecord, status \in Statuses, [Next]_vars
  PROVE  call' \in CallRecord /\ status' \in Statuses
<1> DEFINE Goal == call' \in CallRecord /\ status' \in Statuses
<1>0. ASSUME NEW out \in Outcomes, Finish(out) PROVE Goal
  BY <1>0, CallUpdateType DEF Finish, AllIds, DeleteStatus
<1>1. ASSUME NEW cmd \in Commands, NEW out \in Outcomes, Reply(cmd, out) PROVE Goal
  BY <1>1, CallType DEF Reply
<1>2. ASSUME NEW cmd \in Commands, Begin(cmd), UNCHANGED status PROVE Goal
  BY <1>2, CallType DEF Begin, Outcomes
<1>3. ASSUME NEW cmd \in Commands, NEW out \in Outcomes, NEW how \in Statuses,
             Stop(how, cmd, out)
      PROVE  Goal
  BY <1>3, CallType DEF Stop
<1>4. ASSUME NEW cmd \in Commands, NEW out \in Outcomes, Exit(cmd, out) PROVE Goal
  BY <1>3, <1>4 DEF Exit, Statuses
<1>5. ASSUME NEW cmd \in Commands, UseAfterFree(cmd) PROVE Goal
  BY <1>3, <1>5 DEF UseAfterFree, Statuses, Outcomes
<1>6. ASSUME NEW cmd \in Commands, NEW v, Read(v, cmd) PROVE Goal
  BY <1>1, <1>4, <1>5, <1>6 DEF Read, Outcomes
<1>7. ASSUME NEW cmd \in Commands, NotInitialized(cmd) PROVE Goal
  BY <1>1, <1>7 DEF NotInitialized, Outcomes
<1>8. CASE UnknownCommand
  BY <1>4, <1>8 DEF UnknownCommand, Commands, Outcomes
<1>9. CASE \E addRoot \in BOOLEAN : PopulateBegin(addRoot)
  BY <1>2, <1>9 DEF PopulateBegin, Commands
<1>10. CASE \E n \in Node : PopulateNode(n)
  BY <1>0, <1>4, <1>5, <1>10 DEF PopulateNode, AddNode, Commands, Outcomes
<1>11. CASE PopulateDone \/ UpdateDone \/ DeleteDone
  BY <1>0, <1>11 DEF PopulateDone, UpdateDone, DeleteDone, Outcomes
<1>12. CASE UpdateBegin \/ DeleteBegin
  BY <1>2, <1>12 DEF UpdateBegin, DeleteBegin, Commands
<1>13. CASE \E n \in Node : UpdateNode(n)
  <2> PICK n \in Node : UpdateNode(n)
    BY <1>13
  <2>1. CASE call' = [call EXCEPT !.conflict = TRUE] /\ UNCHANGED status
    BY <2>1, CallUpdateType DEF AllIds, DeleteStatus, Outcomes
  <2> QED BY <1>0, <1>5, <2>1 DEF UpdateNode, Commands, Outcomes
<1>14. CASE \E id \in ClientIds : DeleteNode(id)
  <2> PICK id \in ClientIds : DeleteNode(id)
    BY <1>14
  <2>1. ASSUME NEW st \in DeleteStatus, call' = [call EXCEPT !.status[id] = st],
               UNCHANGED status
        PROVE  Goal
    BY <2>1, CallUpdateType DEF AllIds, Outcomes
  <2> QED BY <1>5, <2>1 DEF DeleteNode, DeleteStatus, Commands
<1>15. CASE Store
  BY <1>15, CallType DEF Store, Commands, Outcomes
<1>16. CASE Restore \/ Flush \/ HealthCheck
  BY <1>1, <1>16 DEF Restore, Flush, HealthCheck, Commands, Outcomes
<1>17. CASE RestoreUnreadable
  BY <1>4, <1>17 DEF RestoreUnreadable, Commands, Outcomes
<1>18. CASE \E cmd \in {"search", "filteroptions"} : Traverse(cmd)
  BY <1>6, <1>7, <1>18 DEF Traverse, Commands
<1>19. CASE \E p \in ClientIds \cup {NoParent} : Nodes(p)
  BY <1>6, <1>7, <1>19 DEF Nodes, Commands
<1>20. CASE \E cmd \in {"populate_graph", "delete", "nodes", "search",
                      "filteroptions"} : Malformed(cmd)
  BY <1>1, <1>20 DEF Malformed, Commands, Outcomes
<1>21. CASE Restart
  BY <1>21, CallType DEF Restart, NoCall, Commands, Outcomes, Statuses
<1>22. CASE UNCHANGED vars
  BY <1>22 DEF vars
<1> QED
  BY <1>8, <1>9, <1>10, <1>11, <1>12, <1>13, <1>14, <1>15, <1>16, <1>17, <1>18,
     <1>19, <1>20, <1>21, <1>22 DEF Next

-----------------------------------------------------------------------------
(* Type correctness.                                                       *)

\* The part of TypeOK that is about the graph, the index, the root, the archive.
MemoryOK ==
    /\ bundle \in [DOMAIN bundle -> Bundle]
    /\ nextv \in 1..(MaxVertex + 1)
    /\ DOMAIN bundle \subseteq 1..(nextv - 1)
    /\ edges \subseteq (1..MaxVertex) \X (1..MaxVertex)
    /\ vertices_ \in [AllIds -> 0..MaxVertex]
    /\ root_ \in 0..(nextv - 1)
    /\ Snapshot(saved)

\* A node of a request that has an id can be the bundle of a vertex.
LEMMA NodeIsBundle ==
  ASSUME NEW n \in Node, n.id # Absent
  PROVE  n \in Bundle /\ n.id \in AllIds /\ n.id \in ClientIds
BY DEF Node, Bundle, AllIds

\* The vertices after one is added, and their bundles.
LEMMA AddedBundle ==
  ASSUME MemoryOK, NEW b \in Bundle, nextv <= MaxVertex,
         bundle' = [v \in V \cup {nextv} |-> IF v = nextv THEN b ELSE bundle[v]]
  PROVE  /\ DOMAIN bundle' = V \cup {nextv}
         /\ nextv \notin V
         /\ bundle'[nextv] = b
         /\ \A v \in V : bundle'[v] = bundle[v]
         /\ bundle' \in [DOMAIN bundle' -> Bundle]
         /\ DOMAIN bundle' \subseteq 1..nextv
<1>1. nextv \notin V
  BY ConstantAssumption DEF MemoryOK, V
<1>2. DOMAIN bundle' = V \cup {nextv}
  OBVIOUS
<1>3. \A v \in V : bundle[v] \in Bundle
  BY DEF MemoryOK, V
<1>4. DOMAIN bundle' \subseteq 1..nextv
  BY <1>2, ConstantAssumption DEF MemoryOK, V
<1> QED BY <1>1, <1>2, <1>3, <1>4

\* Every effect preserves the types of the memory.
LEMMA EffectMemoryOK ==
  ASSUME MemoryOK, Effect
  PROVE  MemoryOK'
<1> USE ConstantAssumption
<1>1. CASE EffNone
  BY <1>1 DEF EffNone, MemoryOK, Snapshot
<1>2. CASE EffClear
  BY <1>2 DEF EffClear, ClearGraph, MemoryOK, Snapshot, Null
<1>3. CASE EffStore
  BY <1>3 DEF EffStore, MemoryOK, Snapshot
<1>4. CASE EffLoad
  <2>1. root_' \in 0..(saved.nextv - 1)
    BY <1>4 DEF EffLoad, Load, ScannedEntry, MemoryOK, Snapshot, Null
  <2> QED BY <1>4, <2>1 DEF EffLoad, Load, MemoryOK, Snapshot
<1>5. CASE EffRoot
  <2>1. RootBundle \in Bundle
    BY DEF RootBundle, Bundle, AllIds, ParentIds
  <2>2. /\ bundle' \in [DOMAIN bundle' -> Bundle]
        /\ DOMAIN bundle' \subseteq 1..nextv
    BY <1>5, <2>1, AddedBundle DEF EffRoot
  <2> QED BY <1>5, <2>2 DEF EffRoot, MemoryOK, Snapshot
<1>6. CASE \E n \in Node : EffAdd(n)
  <2> PICK n \in Node : EffAdd(n)
    BY <1>6
  <2>1. n \in Bundle /\ n.id \in AllIds
    BY NodeIsBundle DEF EffAdd
  <2>2. /\ bundle' \in [DOMAIN bundle' -> Bundle]
        /\ DOMAIN bundle' \subseteq 1..nextv
    BY <2>1, AddedBundle DEF EffAdd, AddNode
  <2>3. ParentVertex(n) # Null => ParentVertex(n) \in 1..MaxVertex
    BY DEF EffAdd, MemoryOK, V, Null
  <2>4. edges' \subseteq (1..MaxVertex) \X (1..MaxVertex)
    BY <2>3 DEF EffAdd, AddNode, MemoryOK
  <2>5. vertices_' \in [AllIds -> 0..MaxVertex]
    BY <2>1 DEF EffAdd, AddNode, NewIndex, MemoryOK
  <2> QED BY <2>2, <2>4, <2>5 DEF EffAdd, AddNode, MemoryOK, Snapshot
<1>7. CASE \E n \in Node : EffUpdate(n)
  <2> PICK n \in Node : EffUpdate(n)
    BY <1>7
  <2>1. n \in Bundle
    BY NodeIsBundle DEF EffUpdate
  <2> QED BY <2>1 DEF EffUpdate, MemoryOK, Snapshot, V
<1>8. CASE \E id \in ClientIds : EffDelete(id)
  <2> PICK id \in ClientIds : EffDelete(id)
    BY <1>8
  <2> DEFINE D == Descendants(vertices_[id])
  <2>1. bundle' = [u \in V \ D |-> bundle[u]]
    BY DEF EffDelete, DeleteVertex
  <2>2. bundle' \in [DOMAIN bundle' -> Bundle] /\ DOMAIN bundle' \subseteq DOMAIN bundle
    BY <2>1 DEF MemoryOK, V
  <2>3. vertices_' \in [AllIds -> 0..MaxVertex]
    BY DEF EffDelete, DeleteVertex, IndexWithout, MemoryOK, Null
  <2>4. edges' \subseteq edges
    BY DEF EffDelete, DeleteVertex, EdgesWithout
  <2> QED BY <2>2, <2>3, <2>4 DEF EffDelete, DeleteVertex, MemoryOK, Snapshot
<1> QED BY <1>1, <1>2, <1>3, <1>4, <1>5, <1>6, <1>7, <1>8 DEF Effect

\* TypeOK is the conjunction of its two halves.
LEMMA TypeOKParts == TypeOK <=> MemoryOK /\ call \in CallRecord /\ status \in Statuses
BY DEF TypeOK, MemoryOK, CallRecord, Statuses

\* The initial state is well typed.
LEMMA InitTypeOK == Init => TypeOK
<1> SUFFICES ASSUME Init PROVE TypeOK
  OBVIOUS
<1>1. MemoryOK
  BY ConstantAssumption DEF Init, MemoryOK, Snapshot, Null
<1>2. call \in CallRecord /\ status \in Statuses
  BY CallType DEF Init, NoCall, Commands, Outcomes, Statuses
<1> QED BY <1>1, <1>2, TypeOKParts

\* Type correctness, for every set of client ids and every bound: in particular
\* a new vertex is never one that is in use, and root_ never names a vertex that
\* has not been allocated.
THEOREM TypeCorrect == Spec => []TypeOK
<1>1. Init => TypeOK
  BY InitTypeOK
<1>2. TypeOK /\ [Next]_vars => TypeOK'
  <2> SUFFICES ASSUME TypeOK, [Next]_vars PROVE TypeOK'
    OBVIOUS
  <2>1. MemoryOK'
    BY TypeOKParts, StepEffect, EffectMemoryOK
  <2>2. call' \in CallRecord /\ status' \in Statuses
    BY TypeOKParts, StepCallType
  <2> QED BY <2>1, <2>2 DEF TypeOK, MemoryOK, CallRecord, Statuses
<1> QED BY <1>1, <1>2, PTL DEF Spec

-----------------------------------------------------------------------------
(* The graph invariants, which hold whatever ids clients use.  They are    *)
(* inductive together with the same facts about the archive, which load    *)
(* brings back, and with the fact that root_, while it is a vertex at all, *)
(* is one that carries the root's id (RootNamed): a node without a parent  *)
(* id is hung below it.                                                    *)

GraphOK(b, es) ==
    /\ \A e \in es : e[1] \in DOMAIN b /\ e[2] \in DOMAIN b
    /\ \A e \in es : e[1] < e[2] /\ \A f \in es : f[2] = e[2] => f = e
    /\ \A e \in es : b[e[1]].id =
          IF b[e[2]].parent_id \in AllIds THEN b[e[2]].parent_id ELSE RootId
RootNamed == root_ \in V => bundle[root_].id = RootId
GraphInv ==
    /\ MemoryOK
    /\ GraphOK(bundle, edges)
    /\ GraphOK(saved.bundle, saved.edges)
    /\ IndexSound
    /\ RootNamed

\* What the recursion of delete collects contains the vertex it starts from and
\* everything below what it contains.
LEMMA DescendantsClosed ==
  ASSUME EdgesLive, NEW v \in V
  PROVE  /\ v \in Descendants(v)
         /\ Descendants(v) \subseteq V
         /\ \A e \in edges : e[1] \in Descendants(v) => e[2] \in Descendants(v)
BY DEF Descendants, ClosedUnderEdges, EdgesLive

\* It contains nothing outside a set that has the vertex and is closed.
LEMMA DescendantsLeast ==
  ASSUME NEW v, NEW S \in SUBSET V, v \in S, ClosedUnderEdges(S)
  PROVE  Descendants(v) \subseteq S
BY DEF Descendants

\* Adding a node: the new edge, if any, leads from an older vertex, whose id is
\* the one the node names as its parent, to the new vertex.
LEMMA AddPreservesGraph ==
  ASSUME GraphInv, NEW n \in Node, EffAdd(n)
  PROVE  GraphOK(bundle, edges)' /\ IndexSound' /\ RootNamed'
<1> USE ConstantAssumption
<1> DEFINE p == ParentVertex(n)
<1>1. n \in Bundle /\ n.id \in AllIds
  BY NodeIsBundle DEF EffAdd
<1>2. /\ DOMAIN bundle' = V \cup {nextv}
      /\ nextv \notin V
      /\ bundle'[nextv] = n
      /\ \A v \in V : bundle'[v] = bundle[v]
  BY <1>1, AddedBundle DEF EffAdd, AddNode, GraphInv
<1>3. nextv \in Nat /\ V \subseteq 1..(nextv - 1) /\ root_ \in 0..(nextv - 1)
  BY DEF GraphInv, MemoryOK, V
<1>4. \A e \in edges : e[1] \in V /\ e[2] \in V
  BY DEF GraphInv, GraphOK, V
<1>5. CASE p = Null
  <2>1. edges' = edges
    BY <1>5 DEF EffAdd, AddNode
  <2> QED
    <3>1. GraphOK(bundle, edges)'
      BY <1>2, <1>4, <2>1 DEF GraphInv, GraphOK
    <3>2. IndexSound'
      BY <1>1, <1>2, <1>3 DEF EffAdd, AddNode, NewIndex, GraphInv, MemoryOK, IndexSound, V
    <3>3. RootNamed'
      BY <1>2, <1>3 DEF EffAdd, AddNode, GraphInv, RootNamed, V
    <3> QED BY <3>1, <3>2, <3>3
<1>6. CASE p # Null
  <2>1. p \in V
    BY <1>6 DEF EffAdd
  <2>2. edges' = edges \cup {<<p, nextv>>}
    BY <1>6 DEF EffAdd, AddNode
  <2>3. bundle[p].id = IF n.parent_id \in AllIds THEN n.parent_id ELSE RootId
    BY <1>6, <2>1 DEF ParentVertex, GraphInv, IndexSound, RootNamed
  <2> HIDE DEF p
  <2>4. p < nextv
    BY <1>3, <2>1
  <2>5. \A e \in edges' : e[1] \in DOMAIN bundle' /\ e[2] \in DOMAIN bundle'
    BY <1>2, <1>4, <2>1, <2>2
  <2>6. ASSUME NEW e \in edges'
        PROVE  e[1] < e[2] /\ \A f \in edges' : f[2] = e[2] => f = e
    <3>1. \A f \in edges : f[2] # nextv
      BY <1>2, <1>4
    <3>2. CASE e \in edges
      <4>1. e[1] < e[2] /\ \A f \in edges : f[2] = e[2] => f = e
        BY <3>2 DEF GraphInv, GraphOK
      <4> QED BY <2>2, <3>1, <3>2, <4>1
    <3>3. CASE e = <<p, nextv>>
      BY <2>2, <2>4, <3>1, <3>3
    <3> QED BY <2>2, <3>2, <3>3
  <2>7. ASSUME NEW e \in edges'
        PROVE  bundle'[e[1]].id = IF bundle'[e[2]].parent_id \in AllIds
                                  THEN bundle'[e[2]].parent_id ELSE RootId
    <3>1. CASE e \in edges
      BY <1>2, <1>4, <3>1 DEF GraphInv, GraphOK
    <3>2. CASE e = <<p, nextv>>
      BY <1>2, <2>1, <2>3, <3>2
    <3> QED BY <2>2, <3>1, <3>2
  <2>8. GraphOK(bundle, edges)'
    BY <2>5, <2>6, <2>7 DEF GraphOK
  <2>9. IndexSound'
    BY <1>1, <1>2, <1>3 DEF EffAdd, AddNode, NewIndex, GraphInv, MemoryOK, IndexSound, V
  <2>10. RootNamed'
    BY <1>2, <1>3 DEF EffAdd, AddNode, GraphInv, RootNamed, V
  <2> QED BY <2>8, <2>9, <2>10
<1> QED BY <1>5, <1>6

\* Deleting a subtree leaves no edge to or from it and no index entry for it.
LEMMA DeletePreservesGraph ==
  ASSUME GraphInv, NEW id \in ClientIds, EffDelete(id)
  PROVE  GraphOK(bundle, edges)' /\ IndexSound' /\ RootNamed'
<1> DEFINE D == Descendants(vertices_[id])
<1>1. bundle' = [u \in V \ D |-> bundle[u]]
  BY DEF EffDelete, DeleteVertex
<1>2. edges' = {e \in edges : e[2] \notin D}
  BY DEF EffDelete, DeleteVertex, EdgesWithout
<1>3. vertices_' = [i \in AllIds |->
                      IF \E u \in D : bundle[u].id = i THEN Null ELSE vertices_[i]]
  BY DEF EffDelete, DeleteVertex, IndexWithout
<1>4. \A e \in edges : e[1] \in V /\ e[2] \in V
  BY DEF GraphInv, GraphOK, V
<1>5. \A e \in edges : e[1] \in D => e[2] \in D
  BY <1>4, DescendantsClosed DEF EffDelete, EdgesLive
<1> HIDE DEF D
<1>6. DOMAIN bundle' = V \ D /\ \A u \in V \ D : bundle'[u] = bundle[u]
  BY <1>1
<1>7. \A e \in edges' : e \in edges /\ e[1] \in V \ D /\ e[2] \in V \ D
  BY <1>2, <1>4, <1>5
<1>8. GraphOK(bundle, edges)'
  <2>1. \A e \in edges' : e[1] \in DOMAIN bundle' /\ e[2] \in DOMAIN bundle'
    BY <1>6, <1>7
  <2>2. \A e \in edges' : e[1] < e[2] /\ \A f \in edges' : f[2] = e[2] => f = e
    BY <1>7 DEF GraphInv, GraphOK
  <2>3. \A e \in edges' : bundle'[e[1]].id =
            IF bundle'[e[2]].parent_id \in AllIds THEN bundle'[e[2]].parent_id ELSE RootId
    BY <1>6, <1>7 DEF GraphInv, GraphOK
  <2> QED BY <2>1, <2>2, <2>3 DEF GraphOK
<1>9. IndexSound'
  BY <1>3, <1>6 DEF GraphInv, IndexSound, V
<1>10. RootNamed'
  BY <1>6 DEF EffDelete, DeleteVertex, GraphInv, RootNamed, V
<1> QED BY <1>8, <1>9, <1>10

\* Updating a node changes neither its id nor its parent id.
LEMMA UpdatePreservesGraph ==
  ASSUME GraphInv, NEW n \in Node, EffUpdate(n)
  PROVE  GraphOK(bundle, edges)' /\ IndexSound' /\ RootNamed'
<1> DEFINE v == vertices_[n.id]
<1>1. n.id \in AllIds
  BY NodeIsBundle DEF EffUpdate
<1>2. v \in V /\ bundle[v].id = n.id /\ bundle[v].parent_id = n.parent_id
  <2>1. v \in V
    BY DEF EffUpdate
  <2>2. v # Null
    BY <2>1, ConstantAssumption DEF GraphInv, MemoryOK, V, Null
  <2> QED BY <1>1, <2>1, <2>2 DEF EffUpdate, SameParent, GraphInv, IndexSound
<1>3. bundle' = [bundle EXCEPT ![v] = n]
  BY DEF EffUpdate
<1> HIDE DEF v
<1>4. DOMAIN bundle' = DOMAIN bundle
  BY <1>3
<1>5. \A u \in V : bundle'[u].id = bundle[u].id /\ bundle'[u].parent_id = bundle[u].parent_id
  BY <1>2, <1>3 DEF V
<1>6. edges' = edges /\ vertices_' = vertices_ /\ root_' = root_
  BY DEF EffUpdate
<1>7. GraphOK(bundle, edges)'
  BY <1>4, <1>5, <1>6 DEF GraphInv, GraphOK, V
<1>8. IndexSound'
  BY <1>4, <1>5, <1>6 DEF GraphInv, IndexSound, V
<1>9. RootNamed'
  BY <1>4, <1>5, <1>6 DEF GraphInv, RootNamed, V
<1> QED BY <1>7, <1>8, <1>9

\* Every effect preserves the graph invariant.
LEMMA EffectGraphInv ==
  ASSUME GraphInv, Effect
  PROVE  GraphInv'
<1>1. MemoryOK'
  BY EffectMemoryOK DEF GraphInv
<1>2. GraphOK(saved.bundle, saved.edges)'
  BY DEF Effect, GraphInv, EffNone, EffClear, EffStore, EffLoad, EffRoot, EffAdd,
         AddNode, EffUpdate, EffDelete
<1>3. CASE EffNone \/ EffStore
  BY <1>3, <1>1, <1>2 DEF EffNone, EffStore, GraphInv, IndexSound, RootNamed, V
<1>4. CASE EffClear
  BY <1>4, <1>1, <1>2 DEF EffClear, ClearGraph, GraphInv, GraphOK, IndexSound, RootNamed, V
<1>5. CASE EffLoad
  <2>1. GraphOK(bundle, edges)'
    BY <1>5 DEF EffLoad, Load, GraphInv
  <2>2. IndexSound'
    BY <1>5 DEF EffLoad, Load, ScannedEntry, IndexSound, V
  <2>3. RootNamed'
    BY <1>5, ConstantAssumption DEF EffLoad, Load, ScannedEntry, RootNamed, V, GraphInv,
       MemoryOK, Snapshot, Null
  <2> QED BY <1>1, <1>2, <2>1, <2>2, <2>3 DEF GraphInv
<1>6. CASE EffRoot
  <2>1. RootBundle \in Bundle
    BY DEF RootBundle, Bundle, AllIds, ParentIds
  <2>2. /\ DOMAIN bundle' = V \cup {nextv}
        /\ nextv \notin V
        /\ bundle'[nextv] = RootBundle
        /\ \A v \in V : bundle'[v] = bundle[v]
    BY <1>6, <2>1, AddedBundle DEF EffRoot, GraphInv
  <2>3. GraphOK(bundle, edges)'
    BY <1>6, <2>2 DEF EffRoot, GraphInv, GraphOK, V
  <2>4. IndexSound'
    BY <1>6, <2>2 DEF EffRoot, GraphInv, IndexSound, V
  <2>5. RootNamed'
    BY <1>6, <2>2 DEF EffRoot, RootNamed, RootBundle
  <2> QED BY <1>1, <1>2, <2>3, <2>4, <2>5 DEF GraphInv
<1>7. CASE \E n \in Node : EffAdd(n)
  BY <1>1, <1>2, <1>7, AddPreservesGraph DEF GraphInv
<1>8. CASE \E n \in Node : EffUpdate(n)
  BY <1>1, <1>2, <1>8, UpdatePreservesGraph DEF GraphInv
<1>9. CASE \E id \in ClientIds : EffDelete(id)
  BY <1>1, <1>2, <1>9, DeletePreservesGraph DEF GraphInv
<1> QED BY <1>3, <1>4, <1>5, <1>6, <1>7, <1>8, <1>9 DEF Effect

\* The initial state satisfies the graph invariant.
LEMMA InitGraphInv == Init => GraphInv
<1> SUFFICES ASSUME Init PROVE GraphInv
  OBVIOUS
<1>1. MemoryOK
  BY InitTypeOK, TypeOKParts
<1> QED BY <1>1 DEF Init, GraphInv, GraphOK, IndexSound, RootNamed, V

\* The graph invariant is an invariant of the daemon.
LEMMA GraphInvariant == Spec => []GraphInv
<1>1. GraphInv /\ [Next]_vars => GraphInv'
  BY StepEffect, EffectGraphInv
<1> QED BY <1>1, InitGraphInv, PTL DEF Spec

\* What populate_graph, delete, flush and load make of the index never names a
\* freed vertex or a vertex with another id, even if ids are repeated.
THEOREM IndexIsSound == Spec => []IndexSound
<1>1. GraphInv => IndexSound
  BY DEF GraphInv
<1> QED BY <1>1, GraphInvariant, PTL

\* No edge outlives one of its vertices: delete clears what it must.
THEOREM EdgesAreLive == Spec => []EdgesLive
<1>1. GraphInv => EdgesLive
  BY DEF GraphInv, GraphOK, EdgesLive, V
<1> QED BY <1>1, GraphInvariant, PTL

\* The graph is a forest whatever clients populate it with, so the recursion of
\* delete ends and frees every vertex once.
THEOREM GraphIsForest == Spec => []Forest
<1>1. GraphInv => Forest
  BY DEF GraphInv, GraphOK, Forest
<1> QED BY <1>1, GraphInvariant, PTL

\* The edges agree with the parent ids of the nodes, also after updates.
THEOREM ParentLinksAgree == Spec => []ParentLinkAgrees
<1>1. GraphInv => ParentLinkAgrees
  BY DEF GraphInv, GraphOK, ParentLinkAgrees
<1> QED BY <1>1, GraphInvariant, PTL

\* A delete step never separates a vertex it keeps from a parent it frees.
THEOREM DeleteTakesSubtrees == Spec => DeleteTakesSubtree
<1> DEFINE A == Busy("delete") => \A e \in edges : e[1] \notin V' => e[2] \notin V'
<1>1. GraphInv /\ [Next]_vars => [A]_vars
  <2> SUFFICES ASSUME GraphInv, Next, Busy("delete"), NEW e \in edges, e[1] \notin V'
               PROVE  e[2] \notin V'
    OBVIOUS
  <2>1. EdgesLive
    BY DEF GraphInv, GraphOK, EdgesLive, V
  <2>2. CASE \E id \in ClientIds : EffDelete(id)
    <3> PICK id \in ClientIds : EffDelete(id)
      BY <2>2
    <3>1. V' = V \ Descendants(vertices_[id])
      BY DEF EffDelete, DeleteVertex, V
    <3> QED BY <2>1, <3>1, DescendantsClosed DEF EffDelete, EdgesLive
  <2>3. CASE EffNone \/ EffClear \/ EffStore
    BY <2>1, <2>3 DEF EffNone, EffClear, EffStore, ClearGraph, V, EdgesLive
  <2>4. CASE EffRoot \/ (\E n \in Node : EffAdd(n)) \/ (\E n \in Node : EffUpdate(n))
    BY <2>1, <2>4 DEF EffRoot, EffAdd, AddNode, EffUpdate, V, EdgesLive
  <2>5. ~EffLoad
    BY DEF Busy, EffLoad, Idle
  <2> QED BY <2>2, <2>3, <2>4, <2>5, StepEffect DEF Effect
<1> QED BY <1>1, GraphInvariant, PTL DEF Spec, DeleteTakesSubtree
=============================================================================
