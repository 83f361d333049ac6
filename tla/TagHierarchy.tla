---------------------------- MODULE TagHierarchy ----------------------------
(***************************************************************************)
(* The in-memory hierarchy of one tag-hierarchy daemon: the boost graph,   *)
(* the index from node ids to vertex descriptors, the root descriptor, and *)
(* every command that reads or changes them (tag_hierarchy.cpp and         *)
(* commands/*.cpp), with the exits of main.cpp's HandleReply.              *)
(*                                                                         *)
(* The daemon is single threaded: one command is handled at a time.  The   *)
(* commands that loop over the nodes of a request (populate_graph, update, *)
(* delete) are a Begin step, one step per node, and a Done step; while     *)
(* such a call is busy no other command can start.  The nodes of a request *)
(* are chosen one by one, so a request is any finite list.                 *)
(*                                                                         *)
(* Vertex descriptors (addresses of list nodes) are numbers in the order   *)
(* of allocation since the graph was last cleared; 0 is the null           *)
(* descriptor, which is what numeric_limits<void*>::max() yields.          *)
(***************************************************************************)
EXTENDS Naturals

CONSTANTS
    ClientIds,   \* ids that clients name in requests
    RootId,      \* the string "root"
    Data,        \* what an update may change in a node's properties
    NoParent,    \* a "parent_id" or "parentId" that is no string, as None
    Absent,      \* a key that is missing (for "id" also one that is no string)
    MaxVertex,   \* bound: vertices allocated between two clears
    UniqueIds    \* TRUE if clients never add an id that a vertex carries

ASSUME ConstantAssumption ==
    /\ NoParent # Absent
    /\ {NoParent, Absent} \cap (ClientIds \cup {RootId}) = {}
    /\ Absent \notin Data
    /\ MaxVertex \in Nat
    /\ UniqueIds \in BOOLEAN

VARIABLES
    bundle,      \* graph_'s vertices: live vertex -> its Modelhierarchy
    edges,       \* graph_'s edges, pairs <<parent vertex, child vertex>>
    vertices_,   \* the index: id -> vertex, 0 where there is no entry
    root_,       \* the root descriptor, 0 if none
    nextv,       \* the next vertex to allocate
    saved,       \* the last serialized graph that was stored
    status,      \* of the process: "up", "exited" or "corrupted"
    call         \* the command being handled, or the last one handled

memory == <<bundle, edges, vertices_, root_, nextv>>
vars == <<bundle, edges, vertices_, root_, nextv, saved, status, call>>

Null == 0
AllIds == ClientIds \cup {RootId}
ParentIds == AllIds \cup {NoParent, Absent}

\* Modelhierarchy and the properties that the commands of this module read.
Bundle == [id : AllIds, parent_id : ParentIds, data : Data \cup {Absent}]
\* One node dictionary of a populate_graph or update request.
Node == [id : ClientIds \cup {Absent}, parent_id : ParentIds, data : Data]

V == DOMAIN bundle
RootBundle == [id |-> RootId, parent_id |-> Absent, data |-> Absent]

-----------------------------------------------------------------------------
(* The call record and the ways a command ends.                            *)

\* "ok" and "error" are replies, "empty" is the empty list that
\* Command::Process returns when ProcessRequest threw, "failed" is the reply
\* HandleReply sends before it rethrows, "none" is no reply.
Outcomes == {"ok", "error", "empty", "failed", "none"}
Commands == {"none", "populate_graph", "update", "delete", "nodes", "search",
             "filteroptions", "store", "restore", "flush", "healthcheck",
             "unknown"}
DeleteStatus == {"", "Success", "Not found"}
NoStatus == [i \in AllIds |-> ""]
Call(cmd, busy, out) ==
    [cmd |-> cmd, busy |-> busy, out |-> out, conflict |-> FALSE, status |-> NoStatus]
NoCall == Call("none", FALSE, "none")

Idle == status = "up" /\ ~call.busy
Busy(cmd) == status = "up" /\ call.busy /\ call.cmd = cmd

Begin(cmd) == call' = Call(cmd, TRUE, "none")
Reply(cmd, out) ==
    /\ call' = Call(cmd, FALSE, out)
    /\ UNCHANGED <<saved, status>>
\* The reply that ends the call in progress.
Finish(out) ==
    /\ call' = [call EXCEPT !.busy = FALSE, !.out = out]
    /\ UNCHANGED <<saved, status>>

\* Mutant: root_ is not reset.
ClearGraph_KeepsRoot ==
    /\ bundle' = [v \in {} |-> RootBundle]
    /\ edges' = {}
    /\ vertices_' = [i \in AllIds |-> Null]
    /\ nextv' = 1
    /\ UNCHANGED root_

\* ClearGraph: also the state of a process that has just started.
ClearGraph ==
    /\ bundle' = [v \in {} |-> RootBundle]
    /\ edges' = {}
    /\ vertices_' = [i \in AllIds |-> Null]
    /\ root_' = Null
    /\ nextv' = 1

\* The process ends and its memory with it.  "exited": by an uncaught
\* exception or a null dereference.  "corrupted": it went on after touching
\* freed memory, and nothing can be said of it any more.
Stop(how, cmd, out) ==
    /\ status' = how
    /\ call' = Call(cmd, FALSE, out)
    /\ ClearGraph
    /\ UNCHANGED saved
Exit(cmd, out) == Stop("exited", cmd, out)
UseAfterFree(cmd) == \E how \in {"exited", "corrupted"} : Stop(how, cmd, "none")

\* A read through a descriptor that may be null or freed.
Read(v, cmd) ==
    \/ /\ v \in V
       /\ Reply(cmd, "ok")
       /\ UNCHANGED memory
    \/ v = Null /\ Exit(cmd, "none")
    \/ v \notin V \cup {Null} /\ UseAfterFree(cmd)

\* A parameter, or a property that a traversal needs, is missing or of the wrong
\* type: ProcessRequest throws before it changes anything and Command::Process
\* swallows the exception.  The queries look at root_ before their parameters.
Malformed(cmd) ==
    /\ Idle
    /\ cmd \in {"nodes", "search", "filteroptions"} => root_ # Null
    /\ Reply(cmd, "empty")
    /\ UNCHANGED memory

-----------------------------------------------------------------------------
(* populate_graph                                                          *)

PopulateBegin(addRoot) ==
    /\ Idle
    /\ Begin("populate_graph")
    /\ \/ /\ addRoot
          /\ nextv <= MaxVertex
          /\ root_' = nextv
          /\ bundle' = [v \in V \cup {nextv} |->
                          IF v = nextv THEN RootBundle ELSE bundle[v]]
          /\ nextv' = nextv + 1
       \/ /\ ~addRoot
          /\ UNCHANGED <<root_, bundle, nextv>>
    /\ UNCHANGED <<edges, vertices_, saved, status>>

\* Where the edge to a new node comes from; Null if it gets no edge, as when
\* its parent is not (yet) in the index.
ParentVertex(n) == IF n.parent_id \in AllIds THEN vertices_[n.parent_id] ELSE root_
HangsOnRoot(n) == n.parent_id \notin AllIds

\* Mutant: only a node with a parent id is indexed.
NewIndex_OnlyChildren(n) ==
    IF HangsOnRoot(n) THEN vertices_ ELSE [vertices_ EXCEPT ![n.id] = nextv]

NewIndex(n) == [vertices_ EXCEPT ![n.id] = nextv]

\* Mutant: a node whose id is indexed keeps its vertex and gets one more edge.
AddNode_Reuses(n) ==
    LET parent == ParentVertex(n)
        vertex == IF vertices_[n.id] = Null THEN nextv ELSE vertices_[n.id]
    IN
    /\ bundle' = [v \in V \cup {vertex} |-> IF v = vertex THEN n ELSE bundle[v]]
    /\ edges' = IF parent = Null THEN edges ELSE edges \cup {<<parent, vertex>>}
    /\ vertices_' = [vertices_ EXCEPT ![n.id] = vertex]
    /\ nextv' = nextv + 1
    /\ UNCHANGED <<root_, saved, status, call>>

AddNode(n) ==
    LET parent == ParentVertex(n) IN
    /\ bundle' = [v \in V \cup {nextv} |-> IF v = nextv THEN n ELSE bundle[v]]
    /\ edges' = IF parent = Null THEN edges ELSE edges \cup {<<parent, nextv>>}
    /\ vertices_' = NewIndex(n)
    /\ nextv' = nextv + 1
    /\ UNCHANGED <<root_, saved, status, call>>

PopulateNode(n) ==
    /\ Busy("populate_graph")
    /\ nextv <= MaxVertex
    /\ UniqueIds => \A v \in V : bundle[v].id # n.id
    /\ \/ /\ n.id = Absent                     \* boost::get throws
          /\ Finish("empty")
          /\ UNCHANGED memory
       \/ /\ n.id # Absent
          /\ ParentVertex(n) \in V \/ (ParentVertex(n) = Null /\ ~HangsOnRoot(n))
          /\ AddNode(n)
       \/ /\ n.id # Absent
          /\ ParentVertex(n) = Null /\ HangsOnRoot(n)
          /\ Exit("populate_graph", "none")    \* add_edge from a null root_
       \/ /\ n.id # Absent
          /\ ParentVertex(n) \notin V \cup {Null}
          /\ UseAfterFree("populate_graph")

PopulateDone ==
    /\ Busy("populate_graph")
    /\ Finish("ok")
    /\ UNCHANGED memory

-----------------------------------------------------------------------------
(* update                                                                  *)

UpdateBegin ==
    /\ Idle
    /\ Begin("update")
    /\ UNCHANGED <<memory, saved, status>>

\* vertices.at, node.at or properties.at throws; the nodes of the request
\* that were updated before this one stay updated.
UpdateThrows(n) ==
    IF n.id = Absent \/ n.parent_id = Absent THEN TRUE
    ELSE LET v == vertices_[n.id] IN
         v = Null \/ (v \in V /\ bundle[v].parent_id = Absent)

\* Mutant: the parent id is not compared.
SameParent_NotChecked(n) == TRUE

SameParent(n) == bundle[vertices_[n.id]].parent_id = n.parent_id

UpdateNode(n) ==
    /\ Busy("update")
    /\ \/ /\ UpdateThrows(n)
          /\ Finish("empty")
          /\ UNCHANGED memory
       \/ /\ ~UpdateThrows(n)
          /\ vertices_[n.id] \in V
          /\ \/ /\ ~SameParent(n)
                /\ call' = [call EXCEPT !.conflict = TRUE]
                /\ UNCHANGED bundle
             \/ /\ SameParent(n)
                /\ bundle' = [bundle EXCEPT ![vertices_[n.id]] = n]
                /\ UNCHANGED call
          /\ UNCHANGED <<edges, vertices_, root_, nextv, saved, status>>
       \/ /\ ~UpdateThrows(n)
          /\ vertices_[n.id] \notin V
          /\ UseAfterFree("update")

UpdateDone ==
    /\ Busy("update")
    /\ Finish(IF call.conflict THEN "error" ELSE "ok")
    /\ UNCHANGED memory

-----------------------------------------------------------------------------
(* delete                                                                  *)

DeleteBegin ==
    /\ Idle
    /\ Begin("delete")
    /\ UNCHANGED <<memory, saved, status>>

\* vertices_to_delete: v and everything the recursion reaches along out-edges.
ClosedUnderEdges(S) == \A e \in edges : e[1] \in S => e[2] \in S

\* Mutant: only the vertex and its children are collected.
Descendants_OneLevel(v) == {u \in V : u = v \/ <<v, u>> \in edges}

Descendants(v) ==
    {u \in V : \A S \in SUBSET V : v \in S /\ ClosedUnderEdges(S) => u \in S}

\* The recursion reaches some vertex twice: it is freed twice, or, on a cycle,
\* the recursion does not end.
ReachedTwice(v) ==
    LET D == Descendants(v) IN
    \/ \E e \in edges : e[2] = v /\ e[1] \in D
    \/ \E e, f \in edges : e # f /\ e[2] = f[2] /\ e[1] \in D /\ f[1] \in D

\* Mutant: out-edges are cleared instead of in-edges.
EdgesWithout_OutEdges(D) == {e \in edges : e[1] \notin D}

\* Mutant: the ids are not erased from the index.
IndexWithout_NotErased(D) == vertices_

\* For each vertex of D: clear_in_edges, remove_vertex, vertices.erase of its id.
EdgesWithout(D) == {e \in edges : e[2] \notin D}
IndexWithout(D) ==
    [i \in AllIds |-> IF \E u \in D : bundle[u].id = i THEN Null ELSE vertices_[i]]

\* Mutant: the vertices stay in the graph.
DeleteVertex_KeepsVertices(v) ==
    /\ edges' = EdgesWithout(Descendants(v))
    /\ vertices_' = IndexWithout(Descendants(v))
    /\ UNCHANGED <<bundle, root_, nextv>>

DeleteVertex(v) ==
    LET D == Descendants(v) IN
    /\ bundle' = [u \in V \ D |-> bundle[u]]
    /\ edges' = EdgesWithout(D)
    /\ vertices_' = IndexWithout(D)
    /\ UNCHANGED <<root_, nextv>>

DeleteNode(id) ==
    LET v == vertices_[id] IN
    /\ Busy("delete")
    /\ \/ /\ v = Null
          /\ call' = [call EXCEPT !.status[id] = "Not found"]
          /\ UNCHANGED <<memory, saved, status>>
       \/ /\ v \in V /\ ~ReachedTwice(v)
          /\ call' = [call EXCEPT !.status[id] = "Success"]
          /\ DeleteVertex(v)
          /\ UNCHANGED <<saved, status>>
       \/ /\ v # Null /\ (v \notin V \/ ReachedTwice(v))
          /\ UseAfterFree("delete")

DeleteDone ==
    /\ Busy("delete")
    /\ Finish("ok")
    /\ UNCHANGED memory

-----------------------------------------------------------------------------
(* store, restore, flush                                                   *)

\* save() writes the graph (and the edge labels, a constant); neither the
\* index nor the root is part of the archive.
Store ==
    /\ Idle
    /\ saved' = [present |-> TRUE, bundle |-> bundle, edges |-> edges,
                 nextv |-> nextv]
    /\ call' = Call("store", FALSE, "ok")
    /\ UNCHANGED <<memory, status>>

\* The entry that load()'s scan in list order leaves for id i: the last
\* vertex that carries i.
ScannedEntry(b, i, v) ==
    LET carriers == {w \in DOMAIN b : b[w].id = i} IN
    \/ v = Null /\ carriers = {}
    \/ v \in carriers /\ \A w \in carriers : w <= v

\* Mutant: allocation restarts below the loaded vertices.
Load_LowNext ==
    /\ bundle' = saved.bundle
    /\ edges' = saved.edges
    /\ nextv' = 1
    /\ vertices_' \in [AllIds -> 0..MaxVertex]
    /\ \A i \in AllIds : ScannedEntry(saved.bundle, i, vertices_'[i])
    /\ root_' \in 0..MaxVertex
    /\ ScannedEntry(saved.bundle, RootId, root_')

\* Mutant: the scan fills the index but does not look for the root.
Load_NoRoot ==
    /\ bundle' = saved.bundle
    /\ edges' = saved.edges
    /\ nextv' = saved.nextv
    /\ vertices_' \in [AllIds -> 0..MaxVertex]
    /\ \A i \in AllIds : ScannedEntry(saved.bundle, i, vertices_'[i])
    /\ root_' = Null

\* Boost re-adds vertices and edges in their saved order, so the positions
\* are those of the archive.
Load ==
    /\ bundle' = saved.bundle
    /\ edges' = saved.edges
    /\ nextv' = saved.nextv
    /\ vertices_' \in [AllIds -> 0..MaxVertex]
    /\ \A i \in AllIds : ScannedEntry(saved.bundle, i, vertices_'[i])
    /\ root_' \in 0..MaxVertex
    /\ ScannedEntry(saved.bundle, RootId, root_')

\* The backup service answered "ERROR", or with the archive it holds.
Restore ==
    /\ Idle
    /\ \/ /\ ~saved.present
          /\ Reply("restore", "error")
          /\ UNCHANGED memory
       \/ /\ saved.present
          /\ Load
          /\ Reply("restore", "ok")

\* The archive cannot be read: the exception leaves Handle and main.
RestoreUnreadable ==
    /\ Idle
    /\ Exit("restore", "failed")

Flush ==
    /\ Idle
    /\ ClearGraph
    /\ Reply("flush", "ok")

-----------------------------------------------------------------------------
(* The commands that only read.  What they compute is not modelled here,   *)
(* only which descriptors they dereference.                                *)

HealthCheck ==
    /\ Idle
    /\ Reply("healthcheck", IF root_ = Null THEN "error" ELSE "ok")
    /\ UNCHANGED memory

NotInitialized(cmd) ==
    /\ root_ = Null
    /\ Reply(cmd, "error")
    /\ UNCHANGED memory

\* Mutant: the check that the graph has been initialized is missing.
Traverse_Unchecked(cmd) == Idle /\ Read(root_, cmd)

\* search and filteroptions traverse from the root.
Traverse(cmd) ==
    /\ Idle
    /\ \/ NotInitialized(cmd)
       \/ root_ # Null /\ Read(root_, cmd)

\* nodes traverses from parentId; operator[] yields null for an unknown id.
Nodes(parentId) ==
    /\ Idle
    /\ \/ NotInitialized("nodes")
       \/ root_ # Null /\ parentId = NoParent /\ Read(root_, "nodes")
       \/ root_ # Null /\ parentId \in AllIds /\ Read(vertices_[parentId], "nodes")

\* An unregistered command: calling the empty std::function throws, HandleReply
\* answers "command failed" and rethrows, and nothing catches it.
UnknownCommand ==
    /\ Idle
    /\ Exit("unknown", "failed")

\* A new process, as TagHierarchyImpl() leaves it.
Restart ==
    /\ status # "up"
    /\ status' = "up"
    /\ call' = NoCall
    /\ ClearGraph
    /\ UNCHANGED saved

-----------------------------------------------------------------------------
Init ==
    /\ bundle = [v \in {} |-> RootBundle]
    /\ edges = {}
    /\ vertices_ = [i \in AllIds |-> Null]
    /\ root_ = Null
    /\ nextv = 1
    /\ saved = [present |-> FALSE, bundle |-> bundle, edges |-> {}, nextv |-> 1]
    /\ status = "up"
    /\ call = NoCall

Next ==
    \/ UnknownCommand
    \/ \E addRoot \in BOOLEAN : PopulateBegin(addRoot)
    \/ \E n \in Node : PopulateNode(n)
    \/ PopulateDone
    \/ UpdateBegin
    \/ \E n \in Node : UpdateNode(n)
    \/ UpdateDone
    \/ DeleteBegin
    \/ \E id \in ClientIds : DeleteNode(id)
    \/ DeleteDone
    \/ Store
    \/ Restore
    \/ RestoreUnreadable
    \/ Flush
    \/ HealthCheck
    \/ \E cmd \in {"search", "filteroptions"} : Traverse(cmd)
    \/ \E parentId \in ClientIds \cup {NoParent} : Nodes(parentId)
    \/ \E cmd \in {"populate_graph", "delete", "nodes", "search",
                   "filteroptions"} : Malformed(cmd)
    \/ Restart

Spec == Init /\ [][Next]_vars

-----------------------------------------------------------------------------
(* Properties                                                              *)

Snapshot(s) ==
    /\ s.present \in BOOLEAN
    /\ s.bundle \in [DOMAIN s.bundle -> Bundle]
    /\ s.nextv \in 1..(MaxVertex + 1)
    /\ DOMAIN s.bundle \subseteq 1..(s.nextv - 1)
    /\ s.edges \subseteq (1..MaxVertex) \X (1..MaxVertex)

\* Type invariant; live vertices, and a root_ that points somewhere, lie below
\* the next vertex to allocate, so that a new vertex is never one in use.
TypeOK ==
    /\ bundle \in [DOMAIN bundle -> Bundle]
    /\ nextv \in 1..(MaxVertex + 1)
    /\ DOMAIN bundle \subseteq 1..(nextv - 1)
    /\ edges \subseteq (1..MaxVertex) \X (1..MaxVertex)
    /\ vertices_ \in [AllIds -> 0..MaxVertex]
    /\ root_ \in 0..(nextv - 1)
    /\ Snapshot(saved)
    /\ status \in {"up", "exited", "corrupted"}
    /\ call \in [cmd : Commands, busy : BOOLEAN, out : Outcomes,
                conflict : BOOLEAN, status : [AllIds -> DeleteStatus]]

\* The index never holds a descriptor of a freed vertex, nor one of a vertex
\* with another id: what update, delete and nodes look up by id is that node
\* (vertices_ after populate_graph, delete, flush and load).
IndexSound ==
    \A i \in AllIds : vertices_[i] # Null =>
        /\ vertices_[i] \in V
        /\ bundle[vertices_[i]].id = i

\* Every edge joins two live vertices: delete frees a vertex only when no edge
\* to or from it is left (clear_in_edges before remove_vertex, children first).
EdgesLive == \A e \in edges : e[1] \in V /\ e[2] \in V

\* The graph is a forest that grows at its leaves: an edge leads to a younger
\* vertex and no vertex has two parents.  This is what makes the recursion of
\* DeleteVertexRecursiveImpl end and free each vertex once.
Forest ==
    \A e \in edges :
        /\ e[1] < e[2]
        /\ \A f \in edges : f[2] = e[2] => f = e

\* The edges agree with the nodes' own parent_id: a node hangs below the node
\* its parent_id names, or below a root if it names none.  update replaces a
\* node's properties, but not its edges.
ParentLinkAgrees ==
    \A e \in edges :
        LET p == bundle[e[2]].parent_id IN
        bundle[e[1]].id = IF p \in AllIds THEN p ELSE RootId

\* root_ is null or a live root vertex, the youngest one.  Every query starts
\* from it after no more than a comparison with null.
RootLive ==
    /\ root_ # Null => root_ \in V /\ bundle[root_].id = RootId
    /\ \A v \in V : bundle[v].id = RootId => v <= root_

\* With unique ids, a node that is in the graph can be found by its id.
IndexComplete ==
    \A v \in V : bundle[v].id \in ClientIds => vertices_[bundle[v].id] = v

\* A store at this point, followed by a restore here or in another daemon,
\* changes nothing that a client who does not use the id "root" can see: load's
\* scan of the graph finds the root, and under every client id the node, that this
\* daemon answers from.  (The scan also indexes the root, which populate_graph does
\* not: see HealthyMeansRooted.)
\* Neither is part of the archive, and the index also holds what populate_graph,
\* delete and earlier restores made of it.
RestoreFaithful ==
    /\ ScannedEntry(bundle, RootId, root_)
    /\ \A i \in ClientIds : ScannedEntry(bundle, i, vertices_[i])

\* While a delete request is handled and after its reply, no node that it has
\* named so far is left in the graph, whatever its status says.
DeletedIsGone ==
    call.cmd = "delete" =>
        \A i \in ClientIds : call.status[i] # "" => \A v \in V : bundle[v].id # i

\* A step of delete that removes a vertex removes its whole subtree.
DeleteTakesSubtree ==
    [][Busy("delete") => \A e \in edges : e[1] \notin V' => e[2] \notin V']_vars

\* No command touches freed memory, and only populate_graph (a root node
\* before any root), nodes (an unknown parentId), an unreadable archive and an
\* unregistered command end the process.
MemorySafe ==
    /\ status # "corrupted"
    /\ status = "exited" =>
          call.cmd \in {"populate_graph", "nodes", "restore", "unknown"}

\* What the healthcheck reports: "ok" means that the graph has a root.
HealthyMeansRooted ==
    call.cmd = "healthcheck" /\ call.out = "ok" => root_ \in V

\* An id that some vertex carries can be looked up, whichever of its carriers
\* the index names (the comment above DeleteVertex: the index is updated "to
\* reflect changes").
IdFindable ==
    \A v \in V : bundle[v].id \in ClientIds => vertices_[bundle[v].id] # Null
=============================================================================
