---------------------- MODULE TagHierarchyClientProofs ----------------------
(***************************************************************************)
(* What holds for well-behaved clients: ones that do not use "root" as the *)
(* id of a node, and, for the theorems about the index, ones that never    *)
(* add an id that is already in the graph.  Both are hypotheses of the     *)
(* theorems; without them the properties fail (see the runs that expect a  *)
(* violation).                                                             *)
(***************************************************************************)
EXTENDS TagHierarchyProofs

-----------------------------------------------------------------------------
(* The root.  RootLive is not inductive alone: a delete could free the     *)
(* root if it were below another vertex.  It never is, because only nodes  *)
(* of requests get an in-edge, and none of those is called "root".         *)

RootsOnTop(b, es) == \A e \in es : b[e[2]].id # RootId
RootInv ==
    /\ GraphInv
    /\ RootLive
    /\ RootsOnTop(bundle, edges)
    /\ RootsOnTop(saved.bundle, saved.edges)

\* A delete that starts from a client's node never reaches a root.
LEMMA DeleteSparesRoots ==
  ASSUME RootId \notin ClientIds, RootInv, NEW id \in ClientIds, EffDelete(id)
  PROVE  \A u \in Descendants(vertices_[id]) : bundle[u].id # RootId
<1> DEFINE S == {u \in V : bundle[u].id # RootId}
<1>1. vertices_[id] # Null
  BY ConstantAssumption DEF EffDelete, RootInv, GraphInv, MemoryOK, V, Null
<1>2. vertices_[id] \in S
  BY <1>1 DEF EffDelete, RootInv, GraphInv, IndexSound, AllIds
<1>3. ClosedUnderEdges(S)
  BY DEF ClosedUnderEdges, RootInv, RootsOnTop, GraphInv, GraphOK, V
<1> HIDE DEF S
<1>4. S \in SUBSET V
  BY DEF S
<1>5. Descendants(vertices_[id]) \subseteq S
  BY <1>2, <1>3, <1>4, DescendantsLeast
<1> QED BY <1>5 DEF S

\* Every effect preserves the invariant of the root.
LEMMA EffectRootInv ==
  ASSUME RootId \notin ClientIds, RootInv, Effect
  PROVE  RootInv'
<1> USE ConstantAssumption
<1>1. GraphInv'
  BY EffectGraphInv DEF RootInv
<1>2. RootsOnTop(saved.bundle, saved.edges)'
  BY DEF Effect, RootInv, EffNone, EffClear, EffStore, EffLoad, EffRoot, EffAdd,
         AddNode, EffUpdate, EffDelete
<1>3. \A e \in edges : e[1] \in V /\ e[2] \in V
  BY DEF RootInv, GraphInv, GraphOK, V
<1>4. nextv \in Nat /\ V \subseteq 1..(nextv - 1) /\ root_ \in 0..(nextv - 1)
  BY DEF RootInv, GraphInv, MemoryOK, V
<1>5. CASE EffNone \/ EffStore
  BY <1>1, <1>2, <1>5 DEF EffNone, EffStore, RootInv, RootLive, V
<1>6. CASE EffClear
  BY <1>1, <1>2, <1>6 DEF EffClear, ClearGraph, RootInv, RootLive, RootsOnTop, V
<1>7. CASE EffLoad
  <2>1. RootsOnTop(bundle, edges)'
    BY <1>7 DEF EffLoad, Load, RootInv
  <2>2. RootLive'
    BY <1>7 DEF EffLoad, Load, ScannedEntry, RootLive, V
  <2> QED BY <1>1, <1>2, <2>1, <2>2 DEF RootInv
<1>8. CASE EffRoot
  <2>1. RootBundle \in Bundle
    BY DEF RootBundle, Bundle, AllIds, ParentIds
  <2>2. /\ DOMAIN bundle' = V \cup {nextv}
        /\ nextv \notin V
        /\ bundle'[nextv] = RootBundle
        /\ \A v \in V : bundle'[v] = bundle[v]
    BY <1>8, <2>1, AddedBundle DEF EffRoot, RootInv, GraphInv
  <2>3. RootLive'
    BY <1>4, <1>8, <2>2 DEF EffRoot, RootLive, RootBundle, V
  <2>4. RootsOnTop(bundle, edges)'
    BY <1>3, <1>8, <2>2 DEF EffRoot, RootInv, RootsOnTop
  <2> QED BY <1>1, <1>2, <2>3, <2>4 DEF RootInv
<1>9. ASSUME NEW n \in Node, EffAdd(n) PROVE RootInv'
  <2>1. n \in Bundle /\ n.id # RootId
    BY <1>9, NodeIsBundle DEF EffAdd
  <2>2. /\ DOMAIN bundle' = V \cup {nextv}
        /\ nextv \notin V
        /\ bundle'[nextv] = n
        /\ \A v \in V : bundle'[v] = bundle[v]
    BY <1>9, <2>1, AddedBundle DEF EffAdd, AddNode, RootInv, GraphInv
  <2>3. root_' = root_
    BY <1>9 DEF EffAdd, AddNode
  <2>4. RootLive'
    BY <2>1, <2>2, <2>3 DEF RootInv, RootLive, V
  <2>5. \A e \in edges' : e \in edges \/ e[2] = nextv
    BY <1>9 DEF EffAdd, AddNode
  <2>6. RootsOnTop(bundle, edges)'
    BY <1>3, <2>1, <2>2, <2>5 DEF RootInv, RootsOnTop
  <2> QED BY <1>1, <1>2, <2>4, <2>6 DEF RootInv
<1>10. ASSUME NEW n \in Node, EffUpdate(n) PROVE RootInv'
  <2> DEFINE v == vertices_[n.id]
  <2>1. n.id \in AllIds /\ v \in V /\ v # Null
    BY <1>4, <1>10, NodeIsBundle DEF EffUpdate, Null
  <2>2. bundle[v].id = n.id
    BY <2>1 DEF RootInv, GraphInv, IndexSound
  <2>3. bundle' = [bundle EXCEPT ![v] = n]
    BY <1>10 DEF EffUpdate
  <2> HIDE DEF v
  <2>4. V' = V /\ \A u \in V : bundle'[u].id = bundle[u].id
    BY <2>1, <2>2, <2>3 DEF V
  <2>5. edges' = edges /\ root_' = root_
    BY <1>10 DEF EffUpdate
  <2>6. RootLive'
    BY <2>4, <2>5 DEF RootInv, RootLive
  <2>7. RootsOnTop(bundle, edges)'
    BY <1>3, <2>4, <2>5 DEF RootInv, RootsOnTop
  <2> QED BY <1>1, <1>2, <2>6, <2>7 DEF RootInv
<1>11. ASSUME NEW id \in ClientIds, EffDelete(id) PROVE RootInv'
  <2> DEFINE D == Descendants(vertices_[id])
  <2>1. \A u \in D : bundle[u].id # RootId
    BY <1>11, DeleteSparesRoots
  <2>2. bundle' = [u \in V \ D |-> bundle[u]] /\ root_' = root_
    BY <1>11 DEF EffDelete, DeleteVertex
  <2>3. \A e \in edges' : e \in edges /\ e[2] \in V \ D
    BY <1>3, <1>11 DEF EffDelete, DeleteVertex, EdgesWithout
  <2> HIDE DEF D
  <2>4. V' = V \ D /\ \A u \in V \ D : bundle'[u] = bundle[u]
    BY <2>2 DEF V
  <2>5. RootLive'
    BY <2>1, <2>2, <2>4 DEF RootInv, RootLive
  <2>6. RootsOnTop(bundle, edges)'
    BY <2>3, <2>4 DEF RootInv, RootsOnTop
  <2> QED BY <1>1, <1>2, <2>5, <2>6 DEF RootInv
<1> QED BY <1>5, <1>6, <1>7, <1>8, <1>9, <1>10, <1>11 DEF Effect

\* The invariant of the root is one, if no client calls a node "root".
LEMMA RootInvariant ==
  ASSUME RootId \notin ClientIds
  PROVE  Spec => []RootInv
<1>1. Init => RootInv
  BY InitGraphInv DEF Init, RootInv, RootLive, RootsOnTop, V
<1>2. RootInv /\ [Next]_vars => RootInv'
  BY StepEffect, EffectRootInv
<1> QED BY <1>1, <1>2, PTL DEF Spec

\* If no client uses "root" as an id, root_ is null or a live root vertex: the
\* comparison with null that the queries and healthcheck make is enough.
THEOREM RootIsLive ==
  ASSUME RootId \notin ClientIds
  PROVE  Spec => []RootLive
<1>1. RootInv => RootLive
  BY DEF RootInv
<1> QED BY <1>1, RootInvariant, PTL

-----------------------------------------------------------------------------
(* The index.  With unique ids it has every node of a client; load rebuilds *)
(* it from an archive in which ids are unique as well.                      *)

UniqueIn(b) ==
    \A u, v \in DOMAIN b : b[u].id \in ClientIds /\ b[u].id = b[v].id => u = v
IndexInv == GraphInv /\ IndexComplete /\ UniqueIn(saved.bundle)

\* Every effect preserves the invariant of the index.
LEMMA EffectIndexInv ==
  ASSUME RootId \notin ClientIds, UniqueIds, IndexInv, Effect
  PROVE  IndexInv'
<1> USE ConstantAssumption
<1>1. GraphInv'
  BY EffectGraphInv DEF IndexInv
<1>2. UniqueIn(bundle)
  BY DEF IndexInv, IndexComplete, UniqueIn, V
<1>3. UniqueIn(saved.bundle)'
  <2>1. CASE EffStore
    BY <1>2, <2>1 DEF EffStore, UniqueIn
  <2>2. CASE saved' = saved
    BY <2>2 DEF IndexInv, UniqueIn
  <2> QED BY <2>1, <2>2 DEF Effect, EffNone, EffClear, EffLoad, EffRoot, EffAdd,
             AddNode, EffUpdate, EffDelete
<1>4. CASE EffNone \/ EffStore
  BY <1>1, <1>3, <1>4 DEF EffNone, EffStore, IndexInv, IndexComplete, V
<1>5. CASE EffClear
  BY <1>1, <1>3, <1>5 DEF EffClear, ClearGraph, IndexInv, IndexComplete, V
<1>6. CASE EffLoad
  <2> SUFFICES ASSUME NEW v \in V', bundle'[v].id \in ClientIds
               PROVE  vertices_'[bundle'[v].id] = v
    BY <1>1, <1>3 DEF IndexInv, IndexComplete
  <2> DEFINE i == bundle'[v].id
  <2>1. v \in DOMAIN saved.bundle /\ saved.bundle[v].id = i /\ i \in AllIds
    BY <1>6 DEF EffLoad, Load, V, AllIds
  <2>2. ScannedEntry(saved.bundle, i, vertices_'[i])
    BY <1>6, <2>1 DEF EffLoad, Load
  <2>3. vertices_'[i] \in DOMAIN saved.bundle /\ saved.bundle[vertices_'[i]].id = i
    BY <2>1, <2>2 DEF ScannedEntry
  <2> QED BY <2>1, <2>3 DEF IndexInv, UniqueIn
<1>7. CASE EffRoot
  <2>1. RootBundle \in Bundle
    BY DEF RootBundle, Bundle, AllIds, ParentIds
  <2>2. /\ V' = V \cup {nextv}
        /\ bundle'[nextv] = RootBundle
        /\ \A v \in V : bundle'[v] = bundle[v]
        /\ vertices_' = vertices_
    BY <1>7, <2>1, AddedBundle DEF EffRoot, IndexInv, GraphInv, V
  <2>3. IndexComplete'
    BY <2>2 DEF IndexInv, IndexComplete, RootBundle
  <2> QED BY <1>1, <1>3, <2>3 DEF IndexInv
<1>8. ASSUME NEW n \in Node, EffAdd(n) PROVE IndexInv'
  <2>1. n \in Bundle /\ n.id \in AllIds
    BY <1>8, NodeIsBundle DEF EffAdd
  <2>2. /\ V' = V \cup {nextv}
        /\ bundle'[nextv] = n
        /\ \A v \in V : bundle'[v] = bundle[v]
    BY <1>8, <2>1, AddedBundle DEF EffAdd, AddNode, IndexInv, GraphInv, V
  <2>3. vertices_' = [vertices_ EXCEPT ![n.id] = nextv] /\ \A v \in V : bundle[v].id # n.id
    BY <1>8 DEF EffAdd, AddNode, NewIndex
  <2>4. vertices_ \in [AllIds -> 0..MaxVertex]
    BY DEF IndexInv, GraphInv, MemoryOK
  <2>5. IndexComplete'
    BY <2>1, <2>2, <2>3, <2>4 DEF IndexInv, IndexComplete, AllIds
  <2> QED BY <1>1, <1>3, <2>5 DEF IndexInv
<1>9. ASSUME NEW n \in Node, EffUpdate(n) PROVE IndexInv'
  <2> DEFINE w == vertices_[n.id]
  <2>1. n.id \in AllIds /\ w \in V /\ w # Null
    BY <1>9, NodeIsBundle DEF EffUpdate, Null, IndexInv, GraphInv, MemoryOK, V
  <2>2. bundle[w].id = n.id
    BY <2>1 DEF IndexInv, GraphInv, IndexSound
  <2>3. bundle' = [bundle EXCEPT ![w] = n] /\ vertices_' = vertices_
    BY <1>9 DEF EffUpdate
  <2> HIDE DEF w
  <2>4. V' = V /\ \A u \in V : bundle'[u].id = bundle[u].id
    BY <2>1, <2>2, <2>3 DEF V
  <2> QED BY <1>1, <1>3, <2>3, <2>4 DEF IndexInv, IndexComplete
<1>10. ASSUME NEW id \in ClientIds, EffDelete(id) PROVE IndexInv'
  <2> DEFINE D == Descendants(vertices_[id])
  <2>1. bundle' = [u \in V \ D |-> bundle[u]]
    BY <1>10 DEF EffDelete, DeleteVertex
  <2>2. vertices_' = [i \in AllIds |->
                        IF \E u \in D : bundle[u].id = i THEN Null ELSE vertices_[i]]
    BY <1>10 DEF EffDelete, DeleteVertex, IndexWithout
  <2>3. D \subseteq V
    BY DEF Descendants
  <2> HIDE DEF D
  <2>4. V' = V \ D /\ \A u \in V \ D : bundle'[u] = bundle[u]
    BY <2>1 DEF V
  <2>5. IndexComplete'
    BY <1>2, <2>2, <2>3, <2>4 DEF IndexInv, IndexComplete, UniqueIn, AllIds, V
  <2> QED BY <1>1, <1>3, <2>5 DEF IndexInv
<1> QED BY <1>4, <1>5, <1>6, <1>7, <1>8, <1>9, <1>10 DEF Effect

\* The invariant of the index is one, for clients that keep ids unique.
LEMMA IndexInvariant ==
  ASSUME RootId \notin ClientIds, UniqueIds
  PROVE  Spec => []IndexInv
<1>1. Init => IndexInv
  BY InitGraphInv DEF Init, IndexInv, IndexComplete, UniqueIn, V
<1>2. IndexInv /\ [Next]_vars => IndexInv'
  BY StepEffect, EffectIndexInv
<1> QED BY <1>1, <1>2, PTL DEF Spec

\* Every node in the graph can be found by its id, if clients keep ids unique:
\* no sequence of populate, delete, store and restore loses an index entry.
THEOREM IndexIsComplete ==
  ASSUME RootId \notin ClientIds, UniqueIds
  PROVE  Spec => []IndexComplete
<1>1. IndexInv => IndexComplete
  BY DEF IndexInv
<1> QED BY <1>1, IndexInvariant, PTL

\* The round trip through the archive changes neither the root nor what a client
\* finds under an id, if clients keep ids unique.
THEOREM RestoreIsFaithful ==
  ASSUME RootId \notin ClientIds, UniqueIds
  PROVE  Spec => []RestoreFaithful
<1>1. RootInv /\ IndexInv => RestoreFaithful
  <2> SUFFICES ASSUME RootInv, IndexInv PROVE RestoreFaithful
    OBVIOUS
  <2>1. V \subseteq 1..(nextv - 1) /\ nextv \in Nat
    BY ConstantAssumption DEF RootInv, GraphInv, MemoryOK, V
  <2>2. ScannedEntry(bundle, RootId, root_)
    <3>1. CASE root_ = Null
      BY <2>1, <3>1 DEF RootInv, RootLive, ScannedEntry, V, Null
    <3>2. CASE root_ # Null
      BY <3>2 DEF RootInv, RootLive, ScannedEntry, V
    <3> QED BY <3>1, <3>2
  <2>3. ASSUME NEW i \in ClientIds PROVE ScannedEntry(bundle, i, vertices_[i])
    <3>1. \A v \in V : bundle[v].id = i => v = vertices_[i]
      BY DEF IndexInv, IndexComplete
    <3>2. CASE vertices_[i] = Null
      BY <2>1, <3>1, <3>2 DEF ScannedEntry, V, Null
    <3>3. CASE vertices_[i] # Null
      <4>1. vertices_[i] \in V /\ bundle[vertices_[i]].id = i
        BY <3>3 DEF IndexInv, GraphInv, IndexSound, AllIds
      <4> QED BY <2>1, <3>1, <4>1 DEF ScannedEntry, V
    <3> QED BY <3>2, <3>3
  <2> QED BY <2>2, <2>3 DEF RestoreFaithful
<1> QED BY <1>1, RootInvariant, IndexInvariant, PTL

-----------------------------------------------------------------------------
(* What a delete request has named is gone.                                *)

\* The null descriptor is not a vertex.
LEMMA NullIsNoVertex == MemoryOK => Null \notin V
<1> SUFFICES ASSUME MemoryOK, Null \in V PROVE FALSE
  OBVIOUS
<1>1. 0 \in 1..(nextv - 1) /\ nextv \in 1..(MaxVertex + 1)
  BY DEF MemoryOK, V, Null
<1> QED BY <1>1, ConstantAssumption

\* The statuses of a delete request are written by its own loop only.
LEMMA StepDeleteStatus ==
  ASSUME call \in CallRecord, [Next]_vars, call'.cmd = "delete"
  PROVE  \/ call'.status = NoStatus
         \/ \E id \in ClientIds : DeleteNode(id)
         \/ call' = call /\ bundle' = bundle
         \/ DeleteDone
<1> DEFINE Goal == \/ call'.status = NoStatus
                   \/ \E id \in ClientIds : DeleteNode(id)
                   \/ call' = call /\ bundle' = bundle
                   \/ DeleteDone
<1>1. ASSUME NEW cmd, NEW busy, NEW out, call' = Call(cmd, busy, out) PROVE Goal
  BY <1>1 DEF Call
<1>2. ASSUME NEW how, NEW cmd, NEW out, Stop(how, cmd, out) PROVE Goal
  BY <1>1, <1>2 DEF Stop
<1>3. ASSUME NEW cmd, UseAfterFree(cmd) PROVE Goal
  BY <1>2, <1>3 DEF UseAfterFree
<1>4. ASSUME NEW cmd, NEW out, Exit(cmd, out) \/ Reply(cmd, out) PROVE Goal
  BY <1>1, <1>2, <1>4 DEF Exit, Reply
<1>5. ASSUME NEW cmd, NEW v, Read(v, cmd) PROVE Goal
  BY <1>3, <1>4, <1>5 DEF Read
<1>6. CASE UnknownCommand \/ RestoreUnreadable
  BY <1>4, <1>6 DEF UnknownCommand, RestoreUnreadable
<1>7. CASE (\E addRoot \in BOOLEAN : PopulateBegin(addRoot)) \/ UpdateBegin \/ DeleteBegin
  BY <1>1, <1>7 DEF PopulateBegin, UpdateBegin, DeleteBegin, Begin
<1>8. ASSUME NEW out, Finish(out), call.cmd # "delete" PROVE FALSE
  BY <1>8 DEF Finish, CallRecord
<1>9. CASE \E n \in Node : PopulateNode(n)
  <2> PICK n \in Node : PopulateNode(n)
    BY <1>9
  <2>1. call.cmd = "populate_graph"
    BY DEF PopulateNode, Busy
  <2>2. ~AddNode(n)
    BY <2>1 DEF AddNode
  <2> QED BY <1>3, <1>4, <1>8, <2>1, <2>2 DEF PopulateNode
<1>10. CASE PopulateDone \/ UpdateDone
  BY <1>8, <1>10 DEF PopulateDone, UpdateDone, Busy
<1>11. CASE \E n \in Node : UpdateNode(n)
  <2> PICK n \in Node : UpdateNode(n)
    BY <1>11
  <2>1. call.cmd = "update"
    BY DEF UpdateNode, Busy
  <2>2. call' # [call EXCEPT !.conflict = TRUE] /\ call' # call
    BY <2>1 DEF CallRecord
  <2> QED BY <1>3, <1>8, <2>1, <2>2 DEF UpdateNode
<1>12. CASE Store
  BY <1>1, <1>12 DEF Store
<1>13. CASE Restore \/ Flush \/ HealthCheck
  BY <1>4, <1>13 DEF Restore, Flush, HealthCheck
<1>14. CASE \E cmd \in {"search", "filteroptions"} : Traverse(cmd)
  BY <1>4, <1>5, <1>14 DEF Traverse, NotInitialized
<1>15. CASE \E p \in ClientIds \cup {NoParent} : Nodes(p)
  BY <1>4, <1>5, <1>15 DEF Nodes, NotInitialized
<1>16. CASE \E cmd \in {"populate_graph", "delete", "nodes", "search",
                      "filteroptions"} : Malformed(cmd)
  BY <1>4, <1>16 DEF Malformed
<1>17. CASE Restart
  BY <1>1, <1>17 DEF Restart, NoCall
<1>18. CASE UNCHANGED vars
  BY <1>18 DEF vars
<1> QED
  BY <1>6, <1>7, <1>9, <1>10, <1>11, <1>12, <1>13, <1>14, <1>15, <1>16, <1>17,
     <1>18 DEF Next

\* A delete request, for clients that keep ids unique, leaves no node that it has
\* named, in whatever order it names nodes and their descendants.
THEOREM DeletedAreGone ==
  ASSUME RootId \notin ClientIds, UniqueIds
  PROVE  Spec => []DeletedIsGone
<1>1. Init => DeletedIsGone
  <2>1. Init => V = {}
    BY DEF Init, V
  <2> QED BY <2>1 DEF DeletedIsGone
<1>2. TypeOK /\ IndexInv /\ DeletedIsGone /\ [Next]_vars => DeletedIsGone'
  <2> SUFFICES ASSUME TypeOK, IndexInv, DeletedIsGone, [Next]_vars, call'.cmd = "delete",
                      NEW i \in ClientIds, call'.status[i] # "",
                      NEW v \in V', bundle'[v].id = i
               PROVE  FALSE
    BY DEF DeletedIsGone
  <2>1. call \in CallRecord
    BY TypeOKParts
  <2>2. CASE call'.status = NoStatus
    BY <2>2 DEF NoStatus, AllIds
  <2>3. CASE call' = call /\ bundle' = bundle
    BY <2>3 DEF DeletedIsGone, V
  <2>4. CASE DeleteDone
    <3>1. bundle' = bundle /\ call.cmd = "delete"
      BY <2>4 DEF DeleteDone, memory, Busy
    <3>2. call'.status = call.status
      BY <2>1, <2>4 DEF DeleteDone, Finish, CallRecord
    <3> QED BY <3>1, <3>2 DEF DeletedIsGone, V
  <2>5. ASSUME NEW id \in ClientIds, DeleteNode(id) PROVE FALSE
    <3>1. call.cmd = "delete"
      BY <2>5 DEF DeleteNode, Busy
    <3>2. ASSUME NEW st, call' = [call EXCEPT !.status[id] = st]
          PROVE  i # id => call'.status[i] = call.status[i]
      BY <2>1, <3>2 DEF CallRecord, AllIds
    <3>3. CASE vertices_[id] = Null /\ bundle' = bundle /\
               call' = [call EXCEPT !.status[id] = "Not found"]
      <4>1. \A u \in V : bundle[u].id # id
        <5>1. Null \notin V
          BY NullIsNoVertex DEF IndexInv, GraphInv
        <5> QED BY <3>3, <5>1 DEF IndexInv, IndexComplete
      <4> QED BY <3>1, <3>2, <3>3, <4>1 DEF DeletedIsGone, V
    <3>4. CASE vertices_[id] \in V /\ DeleteVertex(vertices_[id]) /\
               call' = [call EXCEPT !.status[id] = "Success"]
      <4>1. vertices_[id] \in Descendants(vertices_[id])
        BY <3>4, DescendantsClosed DEF IndexInv, GraphInv, GraphOK, EdgesLive, V
      <4>2. v \in V /\ v # vertices_[id] /\ bundle[v].id = i
        BY <3>4, <4>1 DEF DeleteVertex, V
      <4>3. i # id
        BY <4>2 DEF IndexInv, IndexComplete
      <4> QED BY <3>1, <3>2, <3>4, <4>2, <4>3 DEF DeletedIsGone
    <3>5. CASE UseAfterFree("delete")
      BY <3>5 DEF UseAfterFree, Stop, ClearGraph, V
    <3> QED BY <2>5, <3>3, <3>4, <3>5 DEF DeleteNode, memory
  <2> QED BY <2>1, <2>2, <2>3, <2>4, <2>5, StepDeleteStatus
<1> QED BY <1>1, <1>2, TypeCorrect, IndexInvariant, PTL DEF Spec

-----------------------------------------------------------------------------
(* Memory safety.                                                          *)

\* In a forest that grows at its leaves the recursion of delete reaches no
\* vertex twice.
LEMMA ReachedOnce ==
  ASSUME GraphInv, NEW v \in V
  PROVE  ~ReachedTwice(v)
<1> DEFINE S == {u \in V : v <= u}
<1>1. V \subseteq Nat
  BY ConstantAssumption DEF GraphInv, MemoryOK, V
<1>2. ASSUME NEW e \in edges
      PROVE  /\ e[1] \in V /\ e[2] \in V
             /\ e[1] \in Nat /\ e[2] \in Nat /\ v \in Nat /\ e[1] < e[2]
  BY <1>1 DEF GraphInv, GraphOK, V
<1>3. v \in S /\ S \in SUBSET V
  <2>1. v <= v
    BY <1>1
  <2> QED BY <2>1
<1>4. ASSUME NEW e \in edges, v <= e[1] PROVE v <= e[2] /\ e[2] # v
  BY <1>2, <1>4
<1>5. ClosedUnderEdges(S)
  BY <1>2, <1>4 DEF ClosedUnderEdges
<1> HIDE DEF S
<1>6. Descendants(v) \subseteq S
  BY <1>3, <1>5, DescendantsLeast
<1>7. \A e \in edges : e[2] = v => e[1] \notin Descendants(v)
  BY <1>4, <1>6 DEF S
<1>8. \A e, f \in edges : e[2] = f[2] => e = f
  BY DEF GraphInv, GraphOK
<1> QED BY <1>7, <1>8 DEF ReachedTwice

\* No sequence of requests makes the daemon touch freed memory, if no client uses
\* "root" as an id; and the process ends only where populate_graph, nodes, restore
\* and unregistered commands end it.
THEOREM MemoryIsSafe ==
  ASSUME RootId \notin ClientIds
  PROVE  Spec => []MemorySafe
<1>1. Init => MemorySafe
  BY DEF Init, MemorySafe
<1>2. RootInv /\ MemorySafe /\ [Next]_vars => MemorySafe'
  <2> SUFFICES ASSUME RootInv, MemorySafe, [Next]_vars PROVE MemorySafe'
    OBVIOUS
  <2>1. ASSUME status = "up", UNCHANGED status PROVE MemorySafe'
    BY <2>1 DEF MemorySafe
  <2>2. ASSUME NEW cmd \in {"populate_graph", "nodes", "restore", "unknown"}, NEW out,
               Exit(cmd, out)
        PROVE  MemorySafe'
    BY <2>2 DEF Exit, Stop, Call, MemorySafe
  <2>3. root_ \in V \cup {Null} /\ \A i \in AllIds : vertices_[i] \in V \cup {Null}
    BY DEF RootInv, RootLive, GraphInv, IndexSound
  <2>4. CASE UnknownCommand \/ RestoreUnreadable
    BY <2>2, <2>4 DEF UnknownCommand, RestoreUnreadable
  <2>5. CASE (\E addRoot \in BOOLEAN : PopulateBegin(addRoot)) \/ UpdateBegin \/ DeleteBegin
    BY <2>1, <2>5 DEF PopulateBegin, UpdateBegin, DeleteBegin, Idle
  <2>6. CASE \E n \in Node : PopulateNode(n)
    <3> PICK n \in Node : PopulateNode(n)
      BY <2>6
    <3>1. ParentVertex(n) \in V \cup {Null}
      BY <2>3 DEF ParentVertex
    <3> QED BY <2>1, <2>2, <3>1 DEF PopulateNode, AddNode, Finish, Busy
  <2>7. CASE PopulateDone \/ UpdateDone \/ DeleteDone
    BY <2>1, <2>7 DEF PopulateDone, UpdateDone, DeleteDone, Finish, Busy
  <2>8. CASE \E n \in Node : UpdateNode(n)
    <3> PICK n \in Node : UpdateNode(n)
      BY <2>8
    <3>1. ~UpdateThrows(n) => n.id \in AllIds /\ vertices_[n.id] # Null
      BY NodeIsBundle DEF UpdateThrows
    <3>2. ~UpdateThrows(n) => vertices_[n.id] \in V
      BY <2>3, <3>1
    <3> QED BY <2>1, <3>2 DEF UpdateNode, Finish, Busy
  <2>9. CASE \E id \in ClientIds : DeleteNode(id)
    <3> PICK id \in ClientIds : DeleteNode(id)
      BY <2>9
    <3>1. vertices_[id] # Null => vertices_[id] \in V
      BY <2>3 DEF AllIds
    <3>2. vertices_[id] \in V => ~ReachedTwice(vertices_[id])
      BY ReachedOnce DEF RootInv
    <3> QED BY <2>1, <3>1, <3>2 DEF DeleteNode, Busy
  <2>10. CASE Store \/ Restore \/ Flush \/ HealthCheck
    BY <2>1, <2>10 DEF Store, Restore, Flush, HealthCheck, Reply, Idle
  <2>11. ASSUME NEW cmd \in {"search", "filteroptions"}, Traverse(cmd) PROVE MemorySafe'
    <3>1. root_ # Null => root_ \in V
      BY <2>3
    <3>2. Null \notin V
      BY NullIsNoVertex DEF RootInv, GraphInv
    <3> QED BY <2>1, <2>11, <3>1, <3>2 DEF Traverse, NotInitialized, Read, Reply, Idle
  <2>12. ASSUME NEW p \in ClientIds \cup {NoParent}, Nodes(p) PROVE MemorySafe'
    <3>1. ASSUME NEW v \in V \cup {Null}, Read(v, "nodes"), status = "up" PROVE MemorySafe'
      BY <2>1, <2>2, <3>1 DEF Read, Reply
    <3> QED BY <2>1, <2>3, <2>12, <3>1 DEF Nodes, NotInitialized, Reply, Idle
  <2>13. CASE \E cmd \in {"populate_graph", "delete", "nodes", "search",
                        "filteroptions"} : Malformed(cmd)
    BY <2>1, <2>13 DEF Malformed, Reply, Idle
  <2>14. CASE Restart
    BY <2>14 DEF Restart, MemorySafe
  <2>15. CASE UNCHANGED vars
    BY <2>15 DEF vars, MemorySafe
  <2> QED
    BY <2>4, <2>5, <2>6, <2>7, <2>8, <2>9, <2>10, <2>11, <2>12, <2>13, <2>14,
       <2>15 DEF Next
<1> QED BY <1>1, <1>2, RootInvariant, PTL DEF Spec
=============================================================================
