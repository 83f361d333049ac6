----------------------- MODULE TagHierarchyByIdProofs -----------------------
(***************************************************************************)
(* TagHierarchy implements HierarchyById, for every set of ids and data    *)
(* and every number of vertices, if clients never add an id twice nor use  *)
(* the root's.  Each effect of TagHierarchyProofs is an action of          *)
(* HierarchyById, or a stuttering step.                                    *)
(***************************************************************************)
EXTENDS TagHierarchyById, TagHierarchyClientProofs

-----------------------------------------------------------------------------
(* The invariant under which steps are simulated.  What it adds to those   *)
(* of the root and the index is that a node of a client has data, by which *)
(* the abstract specification tells it from none.                          *)

HasData(b) == \A v \in DOMAIN b : b[v].id # RootId => b[v].data \in Data
ByIdInv == RootInv /\ IndexInv /\ HasData(bundle) /\ HasData(saved.bundle)

LEMMA EffectHasData ==
  ASSUME ByIdInv, Effect
  PROVE  HasData(bundle)' /\ HasData(saved.bundle)'
<1>0. HasData(bundle) /\ HasData(saved.bundle) /\ MemoryOK
  BY DEF ByIdInv, RootInv, GraphInv
<1>1. CASE EffNone \/ EffStore
  BY <1>0, <1>1 DEF EffNone, EffStore, HasData
<1>2. CASE EffClear
  BY <1>0, <1>2 DEF EffClear, ClearGraph, HasData
<1>3. CASE EffLoad
  BY <1>0, <1>3 DEF EffLoad, Load, HasData
<1>4. CASE EffRoot
  <2>1. RootBundle \in Bundle
    BY DEF RootBundle, Bundle, AllIds, ParentIds
  <2>2. /\ DOMAIN bundle' = V \cup {nextv} /\ bundle'[nextv] = RootBundle
        /\ \A v \in V : bundle'[v] = bundle[v]
    BY <1>0, <1>4, <2>1, AddedBundle DEF EffRoot
  <2>3. saved' = saved
    BY <1>4 DEF EffRoot
  <2> QED BY <1>0, <2>2, <2>3 DEF HasData, V, RootBundle
<1>5. ASSUME NEW n \in Node, EffAdd(n) PROVE HasData(bundle)' /\ HasData(saved.bundle)'
  <2>1. n \in Bundle /\ n.data \in Data
    BY <1>5, NodeIsBundle DEF EffAdd, Node
  <2>2. /\ DOMAIN bundle' = V \cup {nextv} /\ bundle'[nextv] = n
        /\ \A v \in V : bundle'[v] = bundle[v]
    BY <1>0, <1>5, <2>1, AddedBundle DEF EffAdd, AddNode
  <2>3. saved' = saved
    BY <1>5 DEF EffAdd, AddNode
  <2> QED BY <1>0, <2>1, <2>2, <2>3 DEF HasData, V
<1>6. ASSUME NEW n \in Node, EffUpdate(n) PROVE HasData(bundle)' /\ HasData(saved.bundle)'
  <2>1. n.data \in Data
    BY DEF Node
  <2>2. bundle' = [bundle EXCEPT ![vertices_[n.id]] = n] /\ saved' = saved
    BY <1>6 DEF EffUpdate
  <2> QED BY <1>0, <2>1, <2>2 DEF HasData
<1>7. ASSUME NEW id \in ClientIds, EffDelete(id) PROVE HasData(bundle)' /\ HasData(saved.bundle)'
  <2>1. bundle' = [u \in V \ Descendants(vertices_[id]) |-> bundle[u]] /\ saved' = saved
    BY <1>7 DEF EffDelete, DeleteVertex
  <2> QED BY <1>0, <2>1 DEF HasData, V
<1> QED BY <1>1, <1>2, <1>3, <1>4, <1>5, <1>6, <1>7 DEF Effect

\* Initially there is nothing, and every step keeps the invariant.
LEMMA ByIdInvariant ==
  ASSUME RootId \notin ClientIds, UniqueIds
  PROVE  Spec => []ByIdInv
<1>1. Init => HasData(bundle) /\ HasData(saved.bundle)
  BY DEF Init, HasData
<1>2. ByIdInv /\ [Next]_vars => HasData(bundle)' /\ HasData(saved.bundle)'
  BY StepEffect, EffectHasData
<1>3. ByIdInv <=> RootInv /\ IndexInv /\ HasData(bundle) /\ HasData(saved.bundle)
  BY DEF ByIdInv
<1> QED BY <1>1, <1>2, <1>3, RootInvariant, IndexInvariant, PTL DEF Spec

-----------------------------------------------------------------------------
(* What the mapping yields.                                                *)

\* The vertex that carries an id is the one that load's scan finds.
LEMMA CarrierIs ==
  ASSUME NEW b, NEW i, NEW v, DOMAIN b \subseteq Nat \ {0}, ScannedEntry(b, i, v)
  PROVE  Carrier(b, i) = v
<1>1. v \in DOMAIN b \cup {Null}
  BY DEF ScannedEntry
<1>2. ASSUME NEW w, ScannedEntry(b, i, w) PROVE w = v
  <2>1. CASE {u \in DOMAIN b : b[u].id = i} = {}
    BY <1>2, <2>1 DEF ScannedEntry
  <2>2. CASE {u \in DOMAIN b : b[u].id = i} # {}
    <3>1. v \in DOMAIN b /\ w \in DOMAIN b /\ v <= w /\ w <= v
      BY <1>2, <2>2 DEF ScannedEntry
    <3> QED BY <3>1
  <2> QED BY <2>1, <2>2
<1> QED BY <1>1, <1>2 DEF Carrier

\* What the node at v hangs below.
Up(v) == HangsBelow(bundle, edges, root_, v)
NodeOf(v) == [up |-> Up(v), parent_id |-> bundle[v].parent_id, data |-> bundle[v].data]

\* It is decided by the one edge to v, if there is one.
UpDecided(v) ==
    /\ <<root_, v>> \in edges => Up(v) = RootId
    /\ \A p : <<p, v>> \in edges /\ bundle[p].id # RootId => Up(v) = bundle[p].id
    /\ <<root_, v>> \notin edges /\ (\A p : <<p, v>> \in edges => bundle[p].id = RootId)
          => Up(v) = Absent

LEMMA UpIs ==
  ASSUME RootInv
  PROVE  \A u : UpDecided(u)
<1> SUFFICES ASSUME NEW v PROVE UpDecided(v)
  OBVIOUS
<1>0. MemoryOK /\ GraphOK(bundle, edges) /\ RootLive
  BY DEF RootInv, GraphInv
<1>1. /\ \A p : <<p, v>> \in edges => p \in DOMAIN bundle /\ p # Null
      /\ \A p, q : <<p, v>> \in edges /\ <<q, v>> \in edges => p = q
      /\ root_ # Null => bundle[root_].id = RootId
  <2>1. Null \notin DOMAIN bundle
    BY <1>0, NullIsNoVertex DEF V
  <2>2. ASSUME NEW p, <<p, v>> \in edges PROVE p \in DOMAIN bundle
    BY <1>0, <2>2 DEF GraphOK
  <2>3. ASSUME NEW p, NEW q, <<p, v>> \in edges, <<q, v>> \in edges PROVE p = q
    <3>1. <<q, v>> = <<p, v>>
      BY <1>0, <2>3 DEF GraphOK
    <3> QED BY <3>1
  <2> QED BY <1>0, <2>1, <2>2, <2>3 DEF RootLive
<1> DEFINE parents == {p \in DOMAIN bundle : <<p, v>> \in edges /\ bundle[p].id # RootId}
<1>2. Up(v) = IF root_ # Null /\ <<root_, v>> \in edges THEN RootId
              ELSE IF parents = {} THEN Absent ELSE bundle[CHOOSE p \in parents : TRUE].id
  BY DEF Up, HangsBelow
<1>3. <<root_, v>> \in edges => Up(v) = RootId
  BY <1>1, <1>2
<1>4. ASSUME NEW p, <<p, v>> \in edges, bundle[p].id # RootId PROVE Up(v) = bundle[p].id
  <2>1. parents = {p}
    BY <1>1, <1>4
  <2>2. ~(root_ # Null /\ <<root_, v>> \in edges)
    BY <1>1, <1>4
  <2>3. (CHOOSE q \in parents : TRUE) = p
    BY <2>1
  <2> HIDE DEF parents
  <2> QED BY <1>2, <2>1, <2>2, <2>3
<1>5. ASSUME <<root_, v>> \notin edges, \A p : <<p, v>> \in edges => bundle[p].id = RootId
      PROVE  Up(v) = Absent
  <2>1. parents = {}
    BY <1>5
  <2> QED BY <1>2, <1>5, <2>1
<1> QED BY <1>3, <1>4, <1>5 DEF UpDecided

\* The same in the next state.
LEMMA NextUpIs == (RootInv => \A u : UpDecided(u))'
BY UpIs, PTL

\* The index finds the nodes, and nothing else.
LEMMA NodesAre ==
  ASSUME ByIdInv
  PROVE  /\ NodesById = [i \in ClientIds |-> IF vertices_[i] \in V THEN NodeOf(vertices_[i])
                                             ELSE ById!Nil]
         /\ \A i \in ClientIds : vertices_[i] \in V => bundle[vertices_[i]].id = i
         /\ \A i \in ClientIds : vertices_[i] \notin V => vertices_[i] = Null
         /\ \A v \in V : bundle[v].id \in ClientIds => vertices_[bundle[v].id] = v
         /\ Null \notin V
<1>1. NodesById = [i \in ClientIds |-> IF vertices_[i] \in V THEN NodeOf(vertices_[i])
                                       ELSE ById!Nil]
  BY DEF NodesById, NodeAt, NodeOf, Up, ById!Nil, V
<1>2. Null \notin V
  BY NullIsNoVertex DEF ByIdInv, RootInv, GraphInv
<1> QED BY <1>1, <1>2 DEF ByIdInv, RootInv, GraphInv, IndexSound, IndexInv, IndexComplete, AllIds

\* A node is present in the abstract specification if its vertex is in the graph.
LEMMA PresentIs ==
  ASSUME RootId \notin ClientIds, ByIdInv
  PROVE  ById!Present = {i \in ClientIds : vertices_[i] \in V}
<1>1. ASSUME NEW i \in ClientIds PROVE NodesById[i] # ById!Nil <=> vertices_[i] \in V
  <2>1. CASE vertices_[i] \in V
    <3>1. bundle[vertices_[i]].id = i
      BY <2>1, NodesAre
    <3>2. bundle[vertices_[i]].data \in Data
      BY <2>1, <3>1 DEF ByIdInv, HasData, V
    <3>3. NodesById[i].data \in Data /\ ById!Nil.data = Absent
      BY <2>1, <3>2, NodesAre DEF NodeOf, ById!Nil
    <3> QED BY <2>1, <3>3, ConstantAssumption
  <2>2. CASE vertices_[i] \notin V
    BY <2>2, NodesAre
  <2> QED BY <2>1, <2>2
<1> QED BY <1>1 DEF ById!Present

-----------------------------------------------------------------------------
(* Every effect is a step of the abstract specification, or none.          *)

LEMMA InitById ==
  ASSUME Init
  PROVE  ById!Init
<1>1. NodesById = ById!NoNodes
  BY DEF Init, NodesById, NodeAt, ById!NoNodes, ById!Nil
<1>2. Rooted = FALSE
  BY DEF Init, Rooted
<1>3. DOMAIN saved.bundle = {}
  BY DEF Init
<1>4. \A i : Carrier(saved.bundle, i) = Null
  <2>1. \A i : ScannedEntry(saved.bundle, i, Null)
    BY <1>3 DEF ScannedEntry
  <2> QED BY <1>3, <2>1, CarrierIs
<1>5. ArchivedNodes = ById!NoNodes
  BY <1>3, <1>4 DEF ArchivedNodes, NodeAt, ById!NoNodes, ById!Nil
<1>6. ArchiveById = [node |-> ById!NoNodes, rooted |-> FALSE]
  BY <1>4, <1>5 DEF ArchiveById
<1> QED BY <1>1, <1>2, <1>6 DEF ById!Init

\* The archive is mapped to the same while it stays.
LEMMA SameArchive ==
  ASSUME saved' = saved
  PROVE  ArchiveById' = ArchiveById
BY DEF ArchiveById, ArchivedNodes

LEMMA NoneById ==
  ASSUME EffNone
  PROVE  UNCHANGED <<NodesById, Rooted, ArchiveById>>
<1>1. ArchiveById' = ArchiveById
  BY SameArchive DEF EffNone
<1>2. NodesById' = NodesById /\ Rooted' = Rooted
  BY DEF EffNone, NodesById, Rooted
<1> QED BY <1>1, <1>2

LEMMA ClearById ==
  ASSUME EffClear
  PROVE  ById!Clear
<1>1. ArchiveById' = ArchiveById
  BY SameArchive DEF EffClear
<1>2. NodesById' = ById!NoNodes
  BY DEF EffClear, ClearGraph, NodesById, NodeAt, ById!NoNodes, ById!Nil
<1>3. Rooted' = FALSE
  BY DEF EffClear, ClearGraph, Rooted
<1> QED BY <1>1, <1>2, <1>3 DEF ById!Clear

\* A store: the index and root_ are what a scan of the graph finds.
LEMMA StoreById ==
  ASSUME RootId \notin ClientIds, ByIdInv, RestoreFaithful, EffStore
  PROVE  ById!Save
<1>0. /\ saved' = [present |-> TRUE, bundle |-> bundle, edges |-> edges, nextv |-> nextv]
      /\ UNCHANGED <<bundle, edges, vertices_, root_>>
  BY DEF EffStore
<1>1. DOMAIN bundle \subseteq Nat \ {0}
  BY DEF ByIdInv, RootInv, GraphInv, MemoryOK
<1>2. Carrier(bundle, RootId) = root_ /\ \A i \in ClientIds : Carrier(bundle, i) = vertices_[i]
  BY <1>1, CarrierIs DEF RestoreFaithful
<1>3. saved'.bundle = bundle /\ saved'.edges = edges
  BY <1>0
<1>4. ArchivedNodes' = NodesById
  BY <1>2, <1>3 DEF ArchivedNodes, NodesById
<1>5. ArchiveById' = [node |-> NodesById, rooted |-> Rooted]
  BY <1>2, <1>3, <1>4 DEF ArchiveById, Rooted
<1>6. NodesById' = NodesById /\ Rooted' = Rooted
  BY <1>0 DEF NodesById, Rooted
<1> QED BY <1>5, <1>6 DEF ById!Save

\* A restore: load leaves the entries that its scan finds.
LEMMA LoadById ==
  ASSUME ByIdInv, EffLoad
  PROVE  ById!Load
<1>0. /\ bundle' = saved.bundle /\ edges' = saved.edges /\ saved' = saved
      /\ \A i \in AllIds : ScannedEntry(saved.bundle, i, vertices_'[i])
      /\ ScannedEntry(saved.bundle, RootId, root_')
  BY DEF EffLoad, Load
<1>1. DOMAIN saved.bundle \subseteq Nat \ {0}
  BY DEF ByIdInv, RootInv, GraphInv, MemoryOK, Snapshot
<1>2. Carrier(saved.bundle, RootId) = root_'
      /\ \A i \in ClientIds : Carrier(saved.bundle, i) = vertices_'[i]
  BY <1>0, <1>1, CarrierIs DEF AllIds
<1>3. NodesById' = ArchivedNodes
  BY <1>0, <1>2 DEF ArchivedNodes, NodesById
<1>4. Rooted' = (Carrier(saved.bundle, RootId) # Null)
  BY <1>2 DEF Rooted
<1>5. ArchiveById.node = ArchivedNodes
      /\ ArchiveById.rooted = (Carrier(saved.bundle, RootId) # Null)
  BY DEF ArchiveById
<1>6. ArchiveById' = ArchiveById
  BY <1>0, SameArchive
<1> QED BY <1>3, <1>4, <1>5, <1>6 DEF ById!Load

\* A second root, from which no edge leads yet.
LEMMA RootById ==
  ASSUME RootId \notin ClientIds, ByIdInv, ByIdInv', EffRoot
  PROVE  ById!AddRoot
<1>0. /\ MemoryOK /\ GraphOK(bundle, edges) /\ RootInv /\ RootInv'
      /\ edges' = edges /\ vertices_' = vertices_ /\ root_' = nextv /\ saved' = saved
      /\ nextv \in Nat /\ nextv # Null
  BY DEF ByIdInv, RootInv, GraphInv, EffRoot, MemoryOK, Null
<1>1. /\ V' = V \cup {nextv} /\ nextv \notin V
      /\ \A v \in V : bundle'[v] = bundle[v]
  <2>1. RootBundle \in Bundle
    BY DEF RootBundle, Bundle, AllIds, ParentIds
  <2> QED BY <1>0, <2>1, AddedBundle DEF EffRoot, V
<1>2. \A p, v : <<p, v>> \in edges => p \in V /\ v \in V
  <2> SUFFICES ASSUME NEW p, NEW v, <<p, v>> \in edges PROVE p \in V /\ v \in V
    OBVIOUS
  <2> QED BY <1>0 DEF GraphOK, V
<1>3. (RootInv => \A u : UpDecided(u))'
  BY NextUpIs
<1>4. ASSUME NEW v \in V PROVE Up(v)' = IF Up(v) = RootId THEN Absent ELSE Up(v)
  <2>1. <<nextv, v>> \notin edges
    BY <1>1, <1>2
  <2>2. CASE \E p : <<p, v>> \in edges /\ bundle[p].id # RootId
    <3>1. PICK p : <<p, v>> \in edges /\ bundle[p].id # RootId
      BY <2>2
    <3>2. Up(v) = bundle[p].id
      BY <1>0, <3>1, UpIs DEF UpDecided
    <3>3. bundle'[p].id = bundle[p].id
      BY <1>1, <1>2, <3>1
    <3>4. Up(v)' = bundle[p].id
      BY <1>0, <1>3, <3>1, <3>3 DEF UpDecided
    <3> QED BY <3>1, <3>2, <3>4
  <2>3. CASE ~\E p : <<p, v>> \in edges /\ bundle[p].id # RootId
    <3>1. \A p : <<p, v>> \in edges => bundle'[p].id = RootId
      BY <1>1, <1>2, <2>3
    <3>2. Up(v)' = Absent
      BY <1>0, <1>3, <2>1, <3>1 DEF UpDecided
    <3>3. Up(v) \in {RootId, Absent}
      BY <1>0, <2>3, UpIs DEF UpDecided
    <3> QED BY <3>2, <3>3
  <2> QED BY <2>2, <2>3
<1>5. ASSUME NEW i \in ClientIds
      PROVE  NodesById'[i] = IF NodesById[i].up = RootId THEN [NodesById[i] EXCEPT !.up = Absent]
                             ELSE NodesById[i]
  <2>1. CASE vertices_[i] \in V
    <3>1. NodesById[i] = NodeOf(vertices_[i])
      BY <2>1, NodesAre
    <3>2. NodesById'[i] = NodeOf(vertices_[i])'
      <4>1. NodesById'[i] = NodeAt(bundle', edges', root_', vertices_'[i])
        BY DEF NodesById
      <4> QED BY <1>0, <1>1, <2>1, <4>1 DEF NodeAt, NodeOf, Up, V
    <3>3. NodeOf(vertices_[i])' =
              [up |-> Up(vertices_[i])', parent_id |-> bundle[vertices_[i]].parent_id,
               data |-> bundle[vertices_[i]].data]
      BY <1>0, <1>1, <2>1 DEF NodeOf
    <3>4. Up(vertices_[i])' = IF Up(vertices_[i]) = RootId THEN Absent ELSE Up(vertices_[i])
      BY <1>0, <1>4, <2>1 DEF Up
    <3> QED BY <3>1, <3>2, <3>3, <3>4 DEF NodeOf
  <2>2. CASE vertices_[i] \notin V
    <3>1. NodesById[i] = ById!Nil /\ vertices_[i] = Null
      BY <2>2, NodesAre
    <3>2. NodesById'[i] = ById!Nil
      <4>1. NodesById'[i] = NodeAt(bundle', edges', root_', vertices_'[i])
        BY DEF NodesById
      <4> QED BY <1>0, <1>1, <2>2, <3>1, <4>1 DEF NodeAt, ById!Nil, V
    <3>3. ById!Nil.up = Absent /\ Absent # RootId
      BY ConstantAssumption DEF ById!Nil
    <3> QED BY <3>1, <3>2, <3>3
  <2> QED BY <2>1, <2>2
<1>6. NodesById' = [i \in ClientIds |-> IF NodesById[i].up = RootId
                                        THEN [NodesById[i] EXCEPT !.up = Absent] ELSE NodesById[i]]
  <2>1. NodesById' = [i \in ClientIds |-> NodesById'[i]]
    BY DEF NodesById
  <2> QED BY <1>5, <2>1
<1>7. Rooted' = TRUE
  BY <1>0 DEF Rooted
<1>8. ArchiveById' = ArchiveById
  BY <1>0, SameArchive
<1> QED BY <1>6, <1>7, <1>8 DEF ById!AddRoot

\* The node that is found under an id after a step.
LEMMA NextNode ==
  ASSUME NEW i \in ClientIds, NEW w, vertices_'[i] = w
  PROVE  /\ w \in V' => NodesById'[i] = [up |-> Up(w)', parent_id |-> bundle'[w].parent_id,
                                         data |-> bundle'[w].data]
         /\ w \notin V' => NodesById'[i] = ById!Nil
<1>1. NodesById'[i] = NodeAt(bundle', edges', root_', w)
  BY DEF NodesById
<1> QED BY <1>1 DEF NodeAt, Up, ById!Nil, V

\* A vertex hangs where it hung if the edge to it stays and leads from the same id.
LEMMA SameUp ==
  ASSUME RootInv, RootInv', root_' = root_, NEW v,
         \A p : <<p, v>> \in edges' <=> <<p, v>> \in edges,
         \A p : <<p, v>> \in edges => bundle'[p].id = bundle[p].id
  PROVE  Up(v)' = Up(v)
<1>1. UpDecided(v)
  BY UpIs
<1>2. (RootInv => \A u : UpDecided(u))'
  BY NextUpIs
<1>3. UpDecided(v)'
  BY <1>2
<1>4. /\ <<root_, v>> \in edges => Up(v)' = RootId
      /\ \A p : <<p, v>> \in edges /\ bundle[p].id # RootId => Up(v)' = bundle[p].id
      /\ <<root_, v>> \notin edges /\ (\A p : <<p, v>> \in edges => bundle[p].id = RootId)
            => Up(v)' = Absent
  BY <1>3 DEF UpDecided
<1> QED BY <1>1, <1>4 DEF UpDecided

\* A node is added below the node it names, below the root, or nowhere.
LEMMA AddById ==
  ASSUME RootId \notin ClientIds, UniqueIds, ByIdInv, ByIdInv', NEW n \in Node, EffAdd(n)
  PROVE  \E i \in ClientIds \ ById!Present, p \in ClientIds \cup {RootId, NoParent, Absent},
            d \in Data : ById!Add(i, p, d)
<1> DEFINE q == ParentVertex(n)
<1>0. /\ MemoryOK /\ GraphOK(bundle, edges) /\ RootInv /\ RootInv' /\ RootLive /\ IndexSound
      /\ n.id \in ClientIds /\ n.parent_id \in ParentIds /\ n.data \in Data
      /\ edges' = (IF q = Null THEN edges ELSE edges \cup {<<q, nextv>>})
      /\ vertices_' = [vertices_ EXCEPT ![n.id] = nextv] /\ root_' = root_ /\ saved' = saved
      /\ \A v \in V : bundle[v].id # n.id
      /\ q \in V \/ (q = Null /\ ~HangsOnRoot(n))
      /\ vertices_ \in [AllIds -> 0..MaxVertex]
  BY NodeIsBundle DEF ByIdInv, RootInv, GraphInv, EffAdd, AddNode, NewIndex, MemoryOK, Node
<1>1. /\ V' = V \cup {nextv} /\ nextv \notin V /\ bundle'[nextv] = n
      /\ \A v \in V : bundle'[v] = bundle[v]
  <2>1. n \in Bundle
    BY NodeIsBundle DEF EffAdd
  <2> QED BY <1>0, <2>1, AddedBundle DEF EffAdd, AddNode, V
<1>2. \A p, v : <<p, v>> \in edges => p \in V /\ v \in V
  <2> SUFFICES ASSUME NEW p, NEW v, <<p, v>> \in edges PROVE p \in V /\ v \in V
    OBVIOUS
  <2> QED BY <1>0 DEF GraphOK, V
<1>3. /\ Null \notin V /\ \A i \in ClientIds : vertices_[i] \notin V => vertices_[i] = Null
      /\ \A i \in ClientIds : vertices_[i] \in V => bundle[vertices_[i]].id = i
      /\ NodesById = [i \in ClientIds |-> IF vertices_[i] \in V THEN NodeOf(vertices_[i])
                                          ELSE ById!Nil]
      /\ ById!Present = {i \in ClientIds : vertices_[i] \in V}
  BY NodesAre, PresentIs
<1>4. n.id \notin ById!Present
  BY <1>0, <1>3
<1> HIDE DEF q
<1>5. ASSUME NEW v \in V PROVE Up(v)' = Up(v)
  <2>1. v # nextv
    BY <1>1
  <2>2. \A p : <<p, v>> \in edges' <=> <<p, v>> \in edges
    BY <1>0, <2>1
  <2>3. \A p : <<p, v>> \in edges => bundle'[p].id = bundle[p].id
    BY <1>1, <1>2
  <2> QED BY <1>0, <2>2, <2>3, SameUp
<1>6. ASSUME NEW j \in ClientIds, j # n.id PROVE NodesById'[j] = NodesById[j]
  <2>1. PICK w : w = vertices_[j]
    OBVIOUS
  <2>2. vertices_'[j] = w
    BY <1>0, <1>6, <2>1 DEF AllIds
  <2>3. CASE w \in V
    <3>1. NodesById'[j] = [up |-> Up(w)', parent_id |-> bundle'[w].parent_id,
                           data |-> bundle'[w].data]
      BY <1>1, <2>2, <2>3, NextNode
    <3>2. NodesById[j] = NodeOf(w)
      BY <1>3, <2>1, <2>3
    <3> QED BY <1>1, <1>5, <2>3, <3>1, <3>2 DEF NodeOf
  <2>4. CASE w \notin V
    <3>1. w = Null /\ NodesById[j] = ById!Nil
      BY <1>3, <2>1, <2>4
    <3>2. Null # nextv
      BY <1>0, ConstantAssumption DEF MemoryOK, Null
    <3>3. w \notin V'
      BY <1>1, <2>4, <3>1, <3>2
    <3> QED BY <2>2, <3>1, <3>3, NextNode
  <2> QED BY <2>3, <2>4
<1>7. PICK w : w = nextv
  OBVIOUS
<1>8. NodesById'[n.id] = [up |-> Up(w)', parent_id |-> n.parent_id, data |-> n.data]
  <2>1. vertices_'[n.id] = w /\ w \in V'
    BY <1>0, <1>1, <1>7 DEF AllIds
  <2>2. NodesById'[n.id] = [up |-> Up(w)', parent_id |-> bundle'[w].parent_id,
                            data |-> bundle'[w].data]
    BY <1>0, <2>1, NextNode
  <2> QED BY <1>1, <1>7, <2>2
<1>9. /\ <<root_, w>> \in edges' => Up(w)' = RootId
      /\ \A p : <<p, w>> \in edges' /\ bundle'[p].id # RootId => Up(w)' = bundle'[p].id
      /\ <<root_, w>> \notin edges' /\ (\A p : <<p, w>> \in edges' => bundle'[p].id = RootId)
            => Up(w)' = Absent
  <2>1. (RootInv => \A u : UpDecided(u))'
    BY NextUpIs
  <2>2. UpDecided(w)'
    BY <1>0, <2>1
  <2> QED BY <1>0, <2>2 DEF UpDecided
<1>10. \A p : <<p, w>> \in edges' <=> q # Null /\ p = q
  BY <1>0, <1>1, <1>2, <1>7
<1>11. /\ n.parent_id \in AllIds => q = vertices_[n.parent_id]
       /\ n.parent_id \notin AllIds => q = root_ /\ q # Null
       /\ q # Null => q \in V /\ bundle'[q].id = bundle[q].id
       /\ q # Null /\ n.parent_id \in AllIds => bundle[q].id = n.parent_id
       /\ root_ # Null => bundle[root_].id = RootId
  BY <1>0, <1>1, <1>3 DEF q, ParentVertex, HangsOnRoot, IndexSound, RootLive
<1>12. Up(w)' \in ById!Place(n.parent_id) /\ (Up(w)' = RootId => Rooted)
  <2>1. CASE n.parent_id \in ClientIds /\ q # Null
    <3>1. Up(w)' = n.parent_id /\ n.parent_id # RootId
      BY <1>9, <1>10, <1>11, <2>1 DEF AllIds
    <3>2. n.parent_id \in ById!Present
      BY <1>3, <1>11, <2>1 DEF AllIds
    <3> QED BY <3>1, <3>2 DEF ById!Place
  <2>2. CASE n.parent_id \in ClientIds /\ q = Null
    <3>1. Up(w)' = Absent
      BY <1>9, <1>10, <2>2
    <3>2. n.parent_id \notin ById!Present
      BY <1>3, <1>11, <2>2 DEF AllIds
    <3> QED BY <2>2, <3>1, <3>2, ConstantAssumption DEF ById!Place
  <2>3. CASE n.parent_id = RootId
    <3>1. Up(w)' = IF q # Null /\ q = root_ THEN RootId ELSE Absent
      BY <1>9, <1>10, <1>11, <2>3 DEF AllIds
    <3>2. n.parent_id \notin ById!Present
      BY <1>3, <2>3
    <3> QED BY <2>3, <3>1, <3>2, ConstantAssumption DEF ById!Place, Rooted
  <2>4. CASE n.parent_id \notin AllIds
    <3>1. Up(w)' = RootId /\ root_ # Null
      BY <1>9, <1>10, <1>11, <2>4
    <3> QED BY <1>3, <2>4, <3>1 DEF ById!Place, Rooted, AllIds
  <2> QED BY <2>1, <2>2, <2>3, <2>4 DEF AllIds
<1>13. NodesById' = [NodesById EXCEPT ![n.id] = [up |-> Up(w)', parent_id |-> n.parent_id,
                                                 data |-> n.data]]
  <2>1. NodesById' = [i \in ClientIds |-> NodesById'[i]]
    BY DEF NodesById
  <2>2. NodesById = [i \in ClientIds |-> NodesById[i]]
    BY DEF NodesById
  <2> QED BY <1>0, <1>6, <1>8, <2>1, <2>2
<1>14. Rooted' = Rooted /\ ArchiveById' = ArchiveById
  BY <1>0, SameArchive DEF Rooted
<1>15. ById!Add(n.id, n.parent_id, n.data)
  BY <1>12, <1>13, <1>14 DEF ById!Add
<1> QED BY <1>0, <1>4, <1>15 DEF ParentIds, AllIds

\* An update keeps the id and the parent id, so the node stays where it hangs.
LEMMA UpdateById ==
  ASSUME RootId \notin ClientIds, ByIdInv, ByIdInv', NEW n \in Node, EffUpdate(n)
  PROVE  \E i \in ById!Present : \E d \in Data : ById!Change(i, d)
<1>0. /\ RootInv /\ RootInv' /\ bundle \in [V -> Bundle]
      /\ n.id \in ClientIds /\ n.id \in AllIds /\ n.data \in Data
      /\ edges' = edges /\ vertices_' = vertices_ /\ root_' = root_ /\ saved' = saved
  BY NodeIsBundle DEF ByIdInv, RootInv, GraphInv, EffUpdate, MemoryOK, Node, V
<1>1. PICK v : v = vertices_[n.id]
  OBVIOUS
<1>2. /\ v \in V /\ bundle[v].parent_id = n.parent_id
      /\ V' = V /\ bundle'[v] = n /\ \A u \in V \ {v} : bundle'[u] = bundle[u]
  BY <1>0, <1>1 DEF EffUpdate, SameParent, V
<1>3. /\ Null \notin V /\ \A i \in ClientIds : vertices_[i] \notin V => vertices_[i] = Null
      /\ \A i \in ClientIds : vertices_[i] \in V => bundle[vertices_[i]].id = i
      /\ NodesById = [i \in ClientIds |-> IF vertices_[i] \in V THEN NodeOf(vertices_[i])
                                          ELSE ById!Nil]
      /\ ById!Present = {i \in ClientIds : vertices_[i] \in V}
  BY NodesAre, PresentIs
<1>4. ASSUME NEW u \in V PROVE Up(u)' = Up(u)
  <2>1. ASSUME NEW p, <<p, u>> \in edges PROVE p \in V
    BY <1>0, <2>1 DEF RootInv, GraphInv, GraphOK, V
  <2>2. \A p \in V : bundle'[p].id = bundle[p].id
    BY <1>0, <1>1, <1>2, <1>3
  <2> QED BY <1>0, <2>1, <2>2, SameUp
<1>5. ASSUME NEW j \in ClientIds, j # n.id PROVE NodesById'[j] = NodesById[j]
  <2>1. PICK w : w = vertices_[j]
    OBVIOUS
  <2>2. CASE w \in V
    <3>1. w # v
      BY <1>0, <1>1, <1>3, <1>5, <2>1, <2>2
    <3>2. NodesById'[j] = [up |-> Up(w)', parent_id |-> bundle'[w].parent_id,
                           data |-> bundle'[w].data]
      BY <1>0, <1>2, <2>1, <2>2, NextNode
    <3>3. NodesById[j] = NodeOf(w)
      BY <1>3, <2>1, <2>2
    <3> QED BY <1>2, <1>4, <2>2, <3>1, <3>2, <3>3 DEF NodeOf
  <2>3. CASE w \notin V
    BY <1>0, <1>2, <1>3, <2>1, <2>3, NextNode
  <2> QED BY <2>2, <2>3
<1>6. NodesById'[n.id] = [NodesById[n.id] EXCEPT !.data = n.data]
  <2>1. NodesById'[n.id] = [up |-> Up(v)', parent_id |-> n.parent_id, data |-> n.data]
    <3>1. NodesById'[n.id] = [up |-> Up(v)', parent_id |-> bundle'[v].parent_id,
                              data |-> bundle'[v].data]
      BY <1>0, <1>1, <1>2, NextNode
    <3> QED BY <1>2, <3>1
  <2>2. NodesById[n.id] = [up |-> Up(v), parent_id |-> bundle[v].parent_id,
                           data |-> bundle[v].data]
    BY <1>0, <1>1, <1>2, <1>3 DEF NodeOf
  <2>3. Up(v)' = Up(v)
    BY <1>2, <1>4
  <2> QED BY <1>2, <2>1, <2>2, <2>3
<1>7. NodesById' = [NodesById EXCEPT ![n.id].data = n.data]
  <2>1. NodesById' = [i \in ClientIds |-> NodesById'[i]]
    BY DEF NodesById
  <2>2. NodesById = [i \in ClientIds |-> NodesById[i]]
    BY DEF NodesById
  <2> QED BY <1>0, <1>5, <1>6, <2>1, <2>2
<1>8. Rooted' = Rooted /\ ArchiveById' = ArchiveById
  BY <1>0, SameArchive DEF Rooted
<1>9. ById!Change(n.id, n.data) /\ n.id \in ById!Present
  BY <1>0, <1>1, <1>2, <1>3, <1>7, <1>8 DEF ById!Change
<1> QED BY <1>0, <1>9

\* What hangs below a node are the ids of what its edges lead to.
LEMMA SubtreeIs ==
  ASSUME RootId \notin ClientIds, ByIdInv, NEW id \in ClientIds, vertices_[id] \in V
  PROVE  ById!Subtree(id) = {j \in ById!Present : vertices_[j] \in Descendants(vertices_[id])}
<1> DEFINE D == Descendants(vertices_[id])
<1>1. /\ \A i \in ClientIds : vertices_[i] \in V => bundle[vertices_[i]].id = i
      /\ \A v \in V : bundle[v].id \in ClientIds => vertices_[bundle[v].id] = v
      /\ \A i \in ClientIds : vertices_[i] \in V => NodesById[i].up = Up(vertices_[i])
      /\ ById!Present = {i \in ClientIds : vertices_[i] \in V}
  BY NodesAre, PresentIs DEF NodeOf
<1>2. /\ EdgesLive /\ \A e \in edges : bundle[e[2]].id # RootId
      /\ \A v \in V : bundle[v].id \in AllIds
      /\ \A p, v : <<p, v>> \in edges => p \in V /\ v \in V
  <2>1. EdgesLive /\ \A e \in edges : bundle[e[2]].id # RootId
    BY DEF ByIdInv, RootInv, GraphInv, GraphOK, RootsOnTop, EdgesLive, V
  <2>2. \A v \in V : bundle[v].id \in AllIds
    BY DEF ByIdInv, RootInv, GraphInv, MemoryOK, Bundle, V
  <2>3. ASSUME NEW p, NEW v, <<p, v>> \in edges PROVE p \in V /\ v \in V
    BY <2>1, <2>3 DEF EdgesLive
  <2> QED BY <2>1, <2>2, <2>3
<1>3. vertices_[id] \in D /\ D \subseteq V /\ \A e \in edges : e[1] \in D => e[2] \in D
  BY <1>2, DescendantsClosed
<1>4. ASSUME NEW j \in ById!Present, vertices_[j] \in D,
             NEW S \in SUBSET ById!Present, id \in S,
             \A k \in ById!Present : NodesById[k].up \in S => k \in S
      PROVE  j \in S
  <2> DEFINE T == {u \in V : bundle[u].id \in S}
  <2>1. vertices_[id] \in T
    BY <1>1, <1>4
  <2>2. ASSUME NEW e \in edges, e[1] \in T PROVE e[2] \in T
    <3>1. e = <<e[1], e[2]>> /\ e[2] \in V /\ bundle[e[1]].id \in S
      BY <1>2, <2>2 DEF ByIdInv, RootInv, GraphInv, MemoryOK, EdgesLive
    <3>2. bundle[e[1]].id # RootId
      BY <1>1, <1>4, <3>1
    <3>3. Up(e[2]) = bundle[e[1]].id
      BY <3>1, <3>2, UpIs DEF ByIdInv, UpDecided
    <3>4. bundle[e[2]].id \in ClientIds
      BY <1>2, <3>1 DEF AllIds
    <3>5. /\ vertices_[bundle[e[2]].id] = e[2] /\ bundle[e[2]].id \in ById!Present
          /\ NodesById[bundle[e[2]].id].up = Up(e[2])
      BY <1>1, <3>1, <3>4
    <3>6. bundle[e[2]].id \in S
      BY <1>4, <3>1, <3>3, <3>5
    <3> QED BY <3>1, <3>6
  <2>3. T \in SUBSET V /\ ClosedUnderEdges(T)
    BY <2>2 DEF ClosedUnderEdges
  <2> HIDE DEF T
  <2>4. D \subseteq T
    BY <2>1, <2>3, DescendantsLeast
  <2> QED BY <1>1, <1>4, <2>4 DEF T
<1>5. ASSUME NEW j \in ById!Subtree(id) PROVE vertices_[j] \in D /\ j \in ById!Present
  <2> DEFINE S == {k \in ById!Present : vertices_[k] \in D}
  <2> HIDE DEF D
  <2>1. S \in SUBSET ById!Present /\ id \in S
    BY <1>1, <1>3
  <2>2. ASSUME NEW k \in ById!Present, NodesById[k].up \in S PROVE k \in S
    <3>1. PICK w : w = vertices_[k]
      OBVIOUS
    <3>2. w \in V /\ Up(w) \in ClientIds /\ vertices_[Up(w)] \in D
      BY <1>1, <2>2, <3>1
    <3>3. PICK p : <<p, w>> \in edges /\ Up(w) = bundle[p].id
      <4>1. Up(w) # RootId /\ Up(w) # Absent
        BY <3>2, ConstantAssumption
      <4>2. UpDecided(w)
        BY UpIs DEF ByIdInv
      <4> QED BY <4>1, <4>2 DEF UpDecided
    <3>4. vertices_[Up(w)] = p
      BY <1>1, <1>2, <3>2, <3>3
    <3>5. w \in D
      <4>1. \A e \in edges : e[1] \in D => e[2] \in D
        BY <1>3
      <4>2. <<p, w>>[1] \in D => <<p, w>>[2] \in D
        BY <3>3, <4>1
      <4> QED BY <3>2, <3>4, <4>2
    <3> QED BY <3>1, <3>5
  <2> HIDE DEF S
  <2>3. j \in S
    BY <2>1, <2>2 DEF ById!Subtree
  <2> QED BY <2>3 DEF S
<1>6. ASSUME NEW j \in ById!Present, vertices_[j] \in D PROVE j \in ById!Subtree(id)
  BY <1>4, <1>6 DEF ById!Subtree
<1> QED BY <1>5, <1>6

\* A delete removes the node and its subtree, and moves no other node.
LEMMA DeleteById ==
  ASSUME RootId \notin ClientIds, ByIdInv, ByIdInv', NEW id \in ClientIds, EffDelete(id)
  PROVE  id \in ById!Present /\ ById!Remove(id)
<1> DEFINE D == Descendants(vertices_[id])
<1>0. /\ RootInv /\ RootInv' /\ vertices_[id] \in V
      /\ V' = V \ D /\ \A u \in V \ D : bundle'[u] = bundle[u]
      /\ edges' = {e \in edges : e[2] \notin D}
      /\ \A i \in AllIds : vertices_'[i] = IF \E u \in D : bundle[u].id = i THEN Null
                                           ELSE vertices_[i]
      /\ root_' = root_ /\ saved' = saved
  BY DEF ByIdInv, EffDelete, DeleteVertex, EdgesWithout, IndexWithout, V
<1>1. /\ \A i \in ClientIds : vertices_[i] \in V => bundle[vertices_[i]].id = i
      /\ \A i \in ClientIds : vertices_[i] \notin V => vertices_[i] = Null
      /\ \A v \in V : bundle[v].id \in ClientIds => vertices_[bundle[v].id] = v
      /\ NodesById = [i \in ClientIds |-> IF vertices_[i] \in V THEN NodeOf(vertices_[i])
                                          ELSE ById!Nil]
      /\ Null \notin V
      /\ ById!Present = {i \in ClientIds : vertices_[i] \in V}
  BY NodesAre, PresentIs
<1>2. EdgesLive
  BY DEF ByIdInv, RootInv, GraphInv, GraphOK, EdgesLive, V
<1>3. D \subseteq V /\ \A e \in edges : e[1] \in D => e[2] \in D
  BY <1>0, <1>2, DescendantsClosed
<1>4. \A j \in ClientIds : j \in ById!Subtree(id) <=> vertices_[j] \in D
  BY <1>0, <1>1, <1>3, SubtreeIs
<1> HIDE DEF D
<1>5. ASSUME NEW v \in V \ D PROVE Up(v)' = Up(v)
  <2>1. \A p : <<p, v>> \in edges' <=> <<p, v>> \in edges
    BY <1>0
  <2>2. ASSUME NEW p, <<p, v>> \in edges PROVE bundle'[p].id = bundle[p].id
    <3>1. <<p, v>>[1] \in V /\ (<<p, v>>[1] \in D => <<p, v>>[2] \in D)
      BY <1>2, <1>3, <2>2 DEF EdgesLive
    <3>2. p \in V \ D
      BY <3>1
    <3> QED BY <1>0, <3>2
  <2> QED BY <1>0, <2>1, <2>2, SameUp
<1>6. ASSUME NEW j \in ClientIds
      PROVE  NodesById'[j] = IF j \in ById!Subtree(id) THEN ById!Nil ELSE NodesById[j]
  <2>1. PICK w : w = vertices_[j]
    OBVIOUS
  <2>2. vertices_'[j] = IF \E u \in D : bundle[u].id = j THEN Null ELSE w
    BY <1>0, <2>1 DEF AllIds
  <2>3. CASE w \in D
    <3>1. vertices_'[j] = Null /\ Null \notin V'
      BY <1>0, <1>1, <1>3, <2>1, <2>2, <2>3
    <3>2. NodesById'[j] = ById!Nil
      BY <3>1, NextNode
    <3> QED BY <1>4, <2>1, <2>3, <3>2
  <2>4. CASE w \in V \ D
    <3>1. vertices_'[j] = w /\ w \in V'
      BY <1>0, <1>1, <1>3, <2>1, <2>2, <2>4
    <3>2. NodesById'[j] = [up |-> Up(w)', parent_id |-> bundle'[w].parent_id,
                           data |-> bundle'[w].data]
      BY <3>1, NextNode
    <3>3. NodesById[j] = NodeOf(w)
      BY <1>1, <2>1, <2>4
    <3>4. NodesById'[j] = NodesById[j]
      BY <1>0, <1>5, <2>4, <3>2, <3>3 DEF NodeOf
    <3> QED BY <1>4, <2>1, <2>4, <3>4
  <2>5. CASE w \notin V
    <3>1. w = Null /\ NodesById[j] = ById!Nil
      BY <1>1, <2>1, <2>5
    <3>2. vertices_'[j] = Null /\ Null \notin V'
      BY <1>0, <1>1, <2>2, <3>1
    <3>3. NodesById'[j] = ById!Nil
      BY <3>2, NextNode
    <3> QED BY <3>1, <3>3
  <2> QED BY <1>3, <2>3, <2>4, <2>5
<1>7. NodesById' = [j \in ClientIds |-> IF j \in ById!Subtree(id) THEN ById!Nil
                                        ELSE NodesById[j]]
  <2>1. NodesById' = [j \in ClientIds |-> NodesById'[j]]
    BY DEF NodesById
  <2> QED BY <1>6, <2>1
<1>8. Rooted' = Rooted /\ ArchiveById' = ArchiveById
  BY <1>0, SameArchive DEF Rooted
<1> QED BY <1>0, <1>1, <1>7, <1>8 DEF ById!Remove

\* Every step of the daemon is one of the abstract specification, or none.
LEMMA StepById ==
  ASSUME RootId \notin ClientIds, UniqueIds, ByIdInv, ByIdInv', RestoreFaithful, [Next]_vars
  PROVE  [ById!Next]_<<NodesById, Rooted, ArchiveById>>
<1>1. CASE EffNone
  BY <1>1, NoneById
<1>2. CASE EffClear
  BY <1>2, ClearById DEF ById!Next
<1>3. CASE EffStore
  BY <1>3, StoreById DEF ById!Next
<1>4. CASE EffLoad
  BY <1>4, LoadById DEF ById!Next
<1>5. CASE EffRoot
  BY <1>5, RootById DEF ById!Next
<1>6. ASSUME NEW n \in Node, EffAdd(n) PROVE ById!Next
  BY <1>6, AddById DEF ById!Next
<1>7. ASSUME NEW n \in Node, EffUpdate(n) PROVE ById!Next
  BY <1>7, UpdateById DEF ById!Next
<1>8. ASSUME NEW id \in ClientIds, EffDelete(id) PROVE ById!Next
  BY <1>8, DeleteById DEF ById!Next
<1> QED BY <1>1, <1>2, <1>3, <1>4, <1>5, <1>6, <1>7, <1>8, StepEffect DEF Effect

\* Read through ids, populate_graph, update, delete, flush, store and restore do
\* what HierarchyById promises: each reaches the node that was meant and its
\* subtree, and a restore brings back what was stored.
THEOREM GraphImplementsNodes ==
  ASSUME RootId \notin ClientIds, UniqueIds
  PROVE  Spec => ImplementsById
<1>1. Init => ById!Init
  BY InitById
<1>2. ByIdInv /\ ByIdInv' /\ RestoreFaithful /\ [Next]_vars
          => [ById!Next]_<<NodesById, Rooted, ArchiveById>>
  BY StepById
<1> QED BY <1>1, <1>2, ByIdInvariant, RestoreIsFaithful, PTL DEF Spec, ImplementsById, ById!Spec
=============================================================================
