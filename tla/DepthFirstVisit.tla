--------------------------- MODULE DepthFirstVisit ---------------------------
(* boost::depth_first_visit on a hierarchy, as far as its visitors can tell: *)
(* which vertex is entered or left next.  Vertices are numbered in the order *)
(* of their allocation.  populate_graph draws the edge to a vertex when it   *)
(* adds it, from a vertex that exists, so a vertex has at most one parent,   *)
(* which is older, and out-edges are in the order of their targets; no       *)
(* vertex is met twice, and the color map decides nothing.                   *)
EXTENDS Integers, Sequences

CONSTANT N      \* bound: number of vertices

ASSUME VertexAssumption == N \in Nat \ {0}

VARIABLES
    parent,     \* the edges of graph_: vertex -> its parent, 0 if it has none
    start,      \* where the traversal starts
    path,       \* the vertices being visited, the last one entered first
    ei          \* the last target that the vertex in front has dealt with

Vertices == 1..N
IsTree(p) == p \in [Vertices -> 0..N] /\ \A v \in Vertices : p[v] < v
Trees == {p \in [Vertices -> 0..N] : IsTree(p)}
Children(v) == {c \in Vertices : parent[c] = v}

\* Mutant: the vertex is added at the other end.
Enter_PushBack(v, terminate) ==
    /\ path' = path \o <<v>>
    /\ ei' = IF terminate THEN N ELSE 0

\* discover_vertex has been called; where the terminator function answers
\* TRUE, the out-edges are skipped.
Enter(v, terminate) ==
    /\ path' = <<v>> \o path
    /\ ei' = IF terminate THEN N ELSE 0

\* The targets that the vertex in front still has to deal with.
Pending == IF path = <<>> THEN {} ELSE {c \in Children(Head(path)) : c > ei}

\* The vertex to enter next: the start, or the first pending target.
ToEnter ==
    IF path = <<>> THEN IF ei = 0 THEN {start} ELSE {}
    ELSE {c \in Pending : \A d \in Pending : c <= d}

\* finish_vertex, after which the edge from the new front to it is finished.
Leave ==
    /\ path # <<>> /\ Pending = {}
    /\ path' = Tail(path)
    /\ ei' = Head(path)

InitVisit == path = <<>> /\ ei = 0

-----------------------------------------------------------------------------
(* Paths, for properties.                                                  *)

\* v and everything above it.
Ancestors[v \in Vertices] ==
    IF parent[v] = 0 THEN {v} ELSE {v} \cup Ancestors[parent[v]]
Below(v) == {u \in Vertices : v \in Ancestors[u]}

\* The path is a chain of edges from the start.
PathIsChain ==
    /\ \A i \in 1..(Len(path) - 1) : parent[path[i]] = path[i + 1]
    /\ path # <<>> => path[Len(path)] = start
=============================================================================
