-------------------------- MODULE TagHierarchyById --------------------------
(* TagHierarchy implements HierarchyById for clients that never add an id  *)
(* twice nor use the root's.  One step on the graph is one step on the     *)
(* nodes, or none.                                                         *)
EXTENDS MCTagHierarchy

\* The vertex that carries id i in a graph; the youngest, if several do.
Carrier(b, i) ==
    CHOOSE v \in (DOMAIN b) \cup {Null} : ScannedEntry(b, i, v)

\* What the vertex v hangs below: the id of its parent's node, and nothing if
\* that is a root other than the given one.
HangsBelow(b, e, root, v) ==
    IF root # Null /\ <<root, v>> \in e THEN RootId
    ELSE LET parents == {p \in DOMAIN b : <<p, v>> \in e /\ b[p].id # RootId} IN
         IF parents = {} THEN Absent ELSE b[CHOOSE p \in parents : TRUE].id

\* The node at a vertex as clients see it.
NodeAt(b, e, root, v) ==
    IF v \notin DOMAIN b THEN [up |-> Absent, parent_id |-> Absent, data |-> Absent]
    ELSE [up |-> HangsBelow(b, e, root, v), parent_id |-> b[v].parent_id, data |-> b[v].data]

\* The hierarchy, read through the index and root_ as the commands do.
NodesById == [i \in ClientIds |-> NodeAt(bundle, edges, root_, vertices_[i])]
Rooted == root_ # Null

\* The archive, read through a scan of it as load does.
ArchivedNodes ==
    [i \in ClientIds |-> NodeAt(saved.bundle, saved.edges, Carrier(saved.bundle, RootId),
                                Carrier(saved.bundle, i))]
ArchiveById == [node |-> ArchivedNodes, rooted |-> Carrier(saved.bundle, RootId) # Null]

ById == INSTANCE HierarchyById WITH
    node <- NodesById, rooted <- Rooted, archive <- ArchiveById

\* Through ids, a daemon's memory behaves as HierarchyById: whatever the index,
\* the descriptors and the list of vertices went through, update and delete
\* reach the node that was meant and its subtree, and a restore brings back
\* what was stored.
ImplementsById == ById!Spec

\* Bounds: TLC does not go on from an archive of more than two allocations or
\* with two kinds of data, nor after a command that read or changed nothing
\* (what could follow it could also follow without it).  It checks the invariants
\* in those states too.
Bounded ==
    /\ saved.nextv <= 3
    /\ \A v \in DOMAIN saved.bundle : saved.bundle[v].data \in {Absent, CHOOSE d \in Data : TRUE}
    /\ call.cmd \notin {"nodes", "search", "filteroptions", "healthcheck"}
    /\ call.out \notin {"empty", "error", "failed"}
    /\ ~call.conflict /\ \A i \in ClientIds : call.status[i] # "Not found"
=============================================================================
