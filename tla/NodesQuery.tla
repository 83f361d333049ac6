----------------------------- MODULE NodesQuery -----------------------------
(* The nodes command: a traversal with FilteredHierarchyVisitor, ended below *)
(* filtered vertices, then the reply, which describes the children of the    *)
(* vertex that parentId names.  The tree is any, and stays; requests follow  *)
(* one another, as on a daemon that is only queried.                         *)
EXTENDS DepthFirstVisit, FiniteSets

CONSTANTS
    Shapes,     \* the properties a vertex may have
    RootShape,  \* the properties of the root, vertex 1
    Filters,    \* the filters a request may carry
    Absent      \* a missing key

VARIABLES
    props,              \* vertex -> its properties
    filter,             \* the request's filters; an empty set is no filter
    valid_nodes, valid_models, suppressed_nodes, node_severity,
    data_access_level,  \* what the visitor collects; NoSeverity, Absent if nothing
    status,             \* "idle", "visiting", "replied", "threw" or "exited"
    reply               \* vertex returned -> the properties that were added

tree == <<parent, props>>
request == <<tree, start, filter>>
collected == <<valid_nodes, valid_models, suppressed_nodes, node_severity,
               data_access_level>>
vars == <<request, path, ei, collected, status, reply>>

\* Severities are natural numbers; this one stands for none.
NoSeverity == -1

ASSUME ShapeAssumption ==
    \A shape \in Shapes \cup {RootShape} : shape.severity \in Nat \cup {NoSeverity}

Higher(a, b) == IF a > b THEN a ELSE b
NoReply == [v \in {} |-> Absent]
NoFilter == [l1filter |-> {}, modelownerfilter |-> {}, modelclassfilter |-> {},
             kpifilter |-> {}]

Element(v) == props[v].is_modelelement

\* A filter that is given admits a vertex without the key, and of the vertices
\* that have it those with a value it lists; None is never listed.
Passes(f, value) == f = {} \/ value = Absent \/ value \in f

\* GetTermfunc: TRUE if nothing below v is visited.  A vertex is its own id.
Termfunc(v) ==
    IF props[v].levelno = 1 /\ filter.l1filter # {} THEN v \notin filter.l1filter
    ELSE /\ props[v].type \in {"model", Absent}
         /\ ~ /\ Passes(filter.modelownerfilter, props[v].modelowner)
              /\ Passes(filter.modelclassfilter, props[v].modelclass)

\* discover_vertex goes on past its early returns.
Accepted(v) == Element(v) /\ Passes(filter.kpifilter, props[v].kpigroup_id)

\* Mutant: the loop stops at the vertex before the first valid one.
NewlyValid_TooFew(p) ==
    {p[i] : i \in {i \in 1..(Len(p) - 1) : \A j \in 1..(i + 1) : p[j] \notin valid_nodes}}

\* The loop over the path, from v up, that breaks at the first valid vertex.
NewlyValid(p) ==
    {p[i] : i \in {i \in 1..Len(p) : \A j \in 1..i : p[j] \notin valid_nodes}}

\* Mutant: the pair has the path's end for its key.
ModelEntries_FromStart(p) ==
    IF Len(p) > 1 THEN {<<p[Len(p)], p[2]>>} ELSE Vertices \X Vertices

\* valid_models_[path_[path_.size() - 2]].insert(path_[1]).  On a path of one
\* vertex both indices are out of range, and anything may be inserted.
ModelEntries(p) ==
    IF Len(p) > 1 THEN {<<p[Len(p) - 1], p[2]>>} ELSE Vertices \X Vertices

\* nodes.cpp up to depth_first_visit.
Request(v, f) ==
    /\ status = "idle"
    /\ status' = "visiting"
    /\ start' = v /\ filter' = f
    /\ UNCHANGED <<tree, path, ei, collected, reply>>

\* Command::Process catches what a property of the wrong type makes boost::get
\* or map::at throw; the reply is empty.
Exception ==
    /\ status' = "threw"
    /\ UNCHANGED <<request, path, ei, collected, reply>>
DiscoverThrows(v) ==
    \/ props[v].bad = "levelno"                 \* or "is_modelelement"
    \/ props[v].bad = "type" /\ ~(props[v].levelno = 1 /\ filter.l1filter # {})

\* discover_vertex and, right after it, the terminator function.
Discover(v) ==
    /\ status = "visiting" /\ v \in ToEnter
    /\ \/ DiscoverThrows(v) /\ Exception
       \/ /\ ~DiscoverThrows(v)
          /\ Enter(v, Termfunc(v))
          /\ \/ ~Accepted(v) /\ UNCHANGED <<valid_nodes, valid_models>>
             \/ /\ Accepted(v)
                /\ valid_nodes' = valid_nodes \cup NewlyValid(path')
                /\ \E entry \in ModelEntries(path') :
                        valid_models' = valid_models \cup {entry}
          /\ UNCHANGED <<request, suppressed_nodes, node_severity,
                         data_access_level, status, reply>>
       \/ /\ path = <<>> /\ Accepted(v)      \* out of range: it may also crash
          /\ status' = "exited"
          /\ UNCHANGED <<request, path, ei, collected, reply>>

\* Mutant: the severity of an element overwrites the one its parent has.
Severities_LastWins(s, t) ==
    LET new == IF Element(t) THEN props[t].severity ELSE node_severity[t] IN
    IF new = NoSeverity THEN node_severity
    ELSE [node_severity EXCEPT ![t] = new, ![s] = new]

\* An element passes on its own severity, every other vertex the one it got.
Severities(s, t) ==
    LET new == IF Element(t) THEN props[t].severity ELSE node_severity[t] IN
    IF new = NoSeverity THEN node_severity
    ELSE [node_severity EXCEPT ![t] = new, ![s] = Higher(@, new)]

\* Mutant: only elements pass their suppression on.
Suppressed_OneLevel(s, t) == IF Element(t) /\ props[t].issuppressed THEN {s, t} ELSE {}

\* So with suppression.
Suppressed(s, t) ==
    IF Element(t) THEN IF props[t].issuppressed THEN {s, t} ELSE {}
    ELSE IF t \in suppressed_nodes THEN {s} ELSE {}

\* Mutant: the level is recorded for both ends of the edge.
AccessLevels_BothEnds(s, t) ==
    LET own == props[t].dataaccesslevel IN
    IF own = Absent THEN data_access_level
    ELSE [data_access_level EXCEPT ![s] = own, ![t] = own]

\* The target's own access level, or else the one recorded for the source.
AccessLevels(s, t) ==
    LET own == props[t].dataaccesslevel
        level == IF own # Absent THEN own ELSE data_access_level[s]
    IN  IF level = Absent THEN data_access_level
        ELSE [data_access_level EXCEPT ![t] = level]

FinishEdge(s, t) ==
    /\ Leave
    /\ data_access_level' = AccessLevels(s, t)
    /\ suppressed_nodes' = suppressed_nodes \cup Suppressed(s, t)
    /\ node_severity' = Severities(s, t)
    /\ UNCHANGED <<request, valid_nodes, valid_models, status, reply>>

Finish ==
    /\ status = "visiting" /\ Len(path) > 1 /\ Pending = {}
    /\ \/ props[path[1]].bad = "finish_edge" /\ Exception
       \/ props[path[1]].bad # "finish_edge" /\ FinishEdge(path[2], path[1])

\* The loop over the children of the start, after depth_first_visit.
Reply ==
    /\ status = "visiting" /\ Len(path) = 1
    /\ Leave
    /\ status' = "replied"
    /\ reply' = [c \in Children(start) \cap valid_nodes |->
          [model_ids       |-> {m \in Vertices : <<c, m>> \in valid_models},
           issuppressed    |-> c \in suppressed_nodes,
           severity        |-> IF node_severity[c] = NoSeverity
                               THEN props[c].severity ELSE node_severity[c],
           dataaccesslevel |-> IF data_access_level[c] = Absent
                               THEN props[c].dataaccesslevel ELSE data_access_level[c]]]
    /\ UNCHANGED <<request, collected>>

\* The reply has gone out; what the visitor collected was local to the call.  A
\* daemon that exited has been started and filled again.
Sent ==
    /\ status \in {"replied", "threw", "exited"}
    /\ status' = "idle"
    /\ start' = 1 /\ filter' = NoFilter
    /\ path' = <<>> /\ ei' = 0
    /\ valid_nodes' = {} /\ valid_models' = {} /\ suppressed_nodes' = {}
    /\ node_severity' = [v \in Vertices |-> NoSeverity]
    /\ data_access_level' = [v \in Vertices |-> Absent]
    /\ reply' = NoReply
    /\ UNCHANGED tree

-----------------------------------------------------------------------------
InitQuery ==
    /\ InitVisit
    /\ start = 1 /\ filter = NoFilter
    /\ valid_nodes = {} /\ valid_models = {} /\ suppressed_nodes = {}
    /\ node_severity = [v \in Vertices |-> NoSeverity]
    /\ data_access_level = [v \in Vertices |-> Absent]
    /\ status = "idle"
    /\ reply = NoReply

Init ==
    /\ parent \in Trees
    /\ props \in [Vertices -> Shapes \cup {RootShape}]
    /\ \A v \in Vertices : props[v] = RootShape <=> v = 1
    /\ InitQuery

Next ==
    \/ \E v \in Vertices, f \in Filters : Request(v, f)
    \/ \E v \in Vertices : Discover(v)
    \/ Finish
    \/ Reply
    \/ Sent

Spec == Init /\ [][Next]_vars

-----------------------------------------------------------------------------
(* Properties.  The right-hand sides do not know of the traversal: they    *)
(* look at the tree as a whole.                                            *)

\* Type invariant, and the path is a chain of edges up to the start.
TypeOK ==
    /\ IsTree(parent)
    /\ start \in Vertices
    /\ path \in Seq(Vertices) /\ ei \in 0..N
    /\ valid_nodes \subseteq Vertices /\ suppressed_nodes \subseteq Vertices
    /\ valid_models \subseteq Vertices \X Vertices
    /\ node_severity \in [Vertices -> Int]
    /\ status \in {"idle", "visiting", "replied", "threw", "exited"}
    /\ PathIsChain

\* The vertices a traversal reaches: below the start, with no filtered vertex
\* above them.
Visited ==
    {v \in Below(start) : \A a \in Ancestors[v] \ {v} :
                               start \in Ancestors[a] => ~Termfunc(a)}
\* The elements that decide what is said of c: those below it with no other
\* element in between.
Deciding(c) ==
    {e \in Visited \cap Below(c) : Element(e) /\ \A a \in Ancestors[e] \ {e} :
                                                   c \in Ancestors[a] => ~Element(a)}

\* The loop over the path stops at the first vertex that is valid already.  No
\* ancestor is missed by that: above a valid vertex all are valid, up to the
\* start.
ValidUpwards ==
    \A v \in valid_nodes : v = start \/ parent[v] \in valid_nodes

\* A query returns exactly the children that have, themselves or below them, an
\* element that passes every filter, and lists exactly the models (parents) of
\* those elements.  (Not for a start that is itself such an element: the visitor
\* then reads its path out of range.)
ReplyIsFiltered ==
    status = "replied" /\ ~Accepted(start) =>
        LET passing(c) == {e \in Visited \cap Below(c) : Accepted(e)} IN
        /\ DOMAIN reply = {c \in Children(start) : passing(c) # {}}
        /\ \A c \in DOMAIN reply : reply[c].model_ids = {parent[e] : e \in passing(c)}

\* The severity returned for a child that is no element is the highest of the
\* elements below it that the traversal reached, in whatever order it met them.
SeverityIsHighest ==
    status = "replied" =>
        \A c \in DOMAIN reply :
            LET below == {props[e].severity : e \in Deciding(c)} \ {NoSeverity} IN
            ~Element(c) /\ below # {} =>
                reply[c].severity \in below /\ \A x \in below : x <= reply[c].severity

\* A child that is no element is returned as suppressed if and only if some
\* element below it that the traversal reached is.
SuppressedIffAny ==
    status = "replied" =>
        \A c \in DOMAIN reply :
            ~Element(c) => (reply[c].issuppressed <=> \E e \in Deciding(c) : props[e].issuppressed)

\* Access levels go down the tree only: a child that has one is returned with it,
\* and a child that has none is returned without, or with that of a vertex above it,
\* never with that of a sibling or of a vertex below.
NoLevelFromBelow ==
    status = "replied" =>
        \A c \in DOMAIN reply :
            LET own == props[c].dataaccesslevel
                above == {props[a].dataaccesslevel : a \in Ancestors[c] \ {c}}
            IN  IF own # Absent THEN reply[c].dataaccesslevel = own
                ELSE reply[c].dataaccesslevel \in above \cup {Absent}

\* A comment in finish_edge: the level should propagate down towards the leaf nodes,
\* from the source of an edge to a target that has none.  (The code looks for the
\* source's level in what was recorded, and it is recorded only when the edge to the
\* source is finished: after those below it, and for the start never.)
AccessLevelInherited ==
    status = "replied" =>
        \A c \in DOMAIN reply :
            props[c].dataaccesslevel = Absent =>
                reply[c].dataaccesslevel = props[start].dataaccesslevel
=============================================================================
