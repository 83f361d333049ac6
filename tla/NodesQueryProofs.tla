--------------------------- MODULE NodesQueryProofs ---------------------------
(***************************************************************************)
(* Proofs about NodesQuery for every tree, every properties of its         *)
(* vertices and every filter: what the nodes command replies.              *)
(***************************************************************************)
EXTENDS NodesQuery, DepthFirstVisitProofs

-----------------------------------------------------------------------------
(* The inductive invariant.                                                *)

\* The vertices on the path, those that discover_vertex has been called for, and
\* those that have been left again.
OnPath == {path[i] : i \in 1..Len(path)}
Entered == Visited \ ToVisit
Finished == Entered \ OnPath

\* The elements that have decided about u so far: those that decide about a child
\* that has been left.
Gathered(u) == {e \in Visited : \E d \in Children(u) \cap Finished : e \in Deciding(d)}

Typed ==
    /\ VisitOK
    /\ props \in [Vertices -> Shapes \cup {RootShape}]
    /\ valid_nodes \subseteq Vertices /\ suppressed_nodes \subseteq Vertices
    /\ valid_models \subseteq Vertices \X Vertices
    /\ node_severity \in [Vertices -> Nat \cup {NoSeverity}]
    /\ data_access_level = [v \in Vertices |-> data_access_level[v]]
    /\ status \in {"idle", "visiting", "replied", "threw", "exited"}

\* Nothing has been visited, or collected.
Blank ==
    /\ path = <<>> /\ ei = 0
    /\ valid_nodes = {} /\ valid_models = {} /\ suppressed_nodes = {}
    /\ node_severity = [v \in Vertices |-> NoSeverity]
    /\ data_access_level = [v \in Vertices |-> Absent]

\* No vertex is entered below one that ends the search.
OnlyVisited == Roots \subseteq Visited /\ OnPath \subseteq Visited

\* The valid vertices are the accepted ones and all above them, up to the start.
ValidOK ==
    valid_nodes = {a \in Below(start) : \E e \in Entered : Accepted(e) /\ a \in Ancestors[e]}

\* The models are the parents of the accepted vertices, each kept under the child
\* of the start that is above it.
ModelsOK ==
    ~Accepted(start) =>
        \A c, m \in Vertices :
            <<c, m>> \in valid_models <=>
                \E e \in Entered :
                    Accepted(e) /\ c \in Children(start) \cap Ancestors[e] /\ m = parent[e]

\* A level is recorded for a vertex when it has been left, and it is its own.
LevelsOK ==
    \A u \in Vertices : data_access_level[u] # Absent =>
        /\ data_access_level[u] = props[u].dataaccesslevel
        /\ u \notin OnPath /\ u \notin ToVisit

\* What is recorded for a vertex that is no element comes from the elements that
\* have decided about it.
SuppressedOK ==
    \A u \in Below(start) : ~Element(u) =>
        (u \in suppressed_nodes <=> \E e \in Gathered(u) : props[e].issuppressed)

IsHighest(x, S) == IF S = {} THEN x = NoSeverity ELSE x \in S /\ \A y \in S : y <= x
SeveritiesOf(E) == {props[e].severity : e \in E} \ {NoSeverity}

SeverityOK ==
    \A u \in Below(start) : ~Element(u) => IsHighest(node_severity[u], SeveritiesOf(Gathered(u)))

\* As the code is: nothing comes down an edge either.
LevelIsOwn ==
    status = "replied" =>
        \A c \in DOMAIN reply : reply[c].dataaccesslevel = props[c].dataaccesslevel

Replied == ReplyIsFiltered /\ SeverityIsHighest /\ SuppressedIffAny /\ LevelIsOwn

Inv ==
    /\ Typed
    /\ status = "idle" => Blank
    /\ OnlyVisited
    /\ ValidOK
    /\ ModelsOK
    /\ LevelsOK
    /\ SuppressedOK
    /\ SeverityOK
    /\ Replied

-----------------------------------------------------------------------------
(* What is visited, and which elements decide.                             *)

\* A step that keeps the request keeps what is said of the tree.
LEMMA SameQuery ==
  ASSUME UNCHANGED <<parent, props, start, filter>>
  PROVE  /\ Ancestors' = Ancestors /\ Visited' = Visited
         /\ \A v : /\ Children(v)' = Children(v) /\ Below(v)' = Below(v)
                   /\ Element(v)' = Element(v) /\ Accepted(v)' = Accepted(v)
                   /\ Deciding(v)' = Deciding(v)
<1>1. Ancestors' = Ancestors /\ \A v : Children(v)' = Children(v) /\ Below(v)' = Below(v)
  BY SameTree
<1>2. \A v : Termfunc(v)' = Termfunc(v)
  BY DEF Termfunc, Passes
<1>3. \A v : Element(v)' = Element(v)
  BY DEF Element
<1>4. \A v : Accepted(v)' = Accepted(v)
  BY <1>3 DEF Accepted, Passes
<1>5. Visited' = Visited
  BY <1>1, <1>2 DEF Visited, Below
<1>6. \A v : Deciding(v)' = Deciding(v)
  BY <1>1, <1>3, <1>5 DEF Deciding
<1> QED BY <1>1, <1>3, <1>4, <1>5, <1>6

\* The start is visited, and so are the children of a vertex that is, unless it ends
\* the search, and everything above it, up to the start.
LEMMA VisitedFacts ==
  ASSUME VisitOK
  PROVE  /\ start \in Visited /\ Visited \subseteq Below(start) /\ Visited \subseteq Vertices
         /\ \A v \in Visited : ~Termfunc(v) => Children(v) \subseteq Visited
         /\ \A v \in Visited : Termfunc(v) => Visited \cap Below(v) \subseteq {v}
         /\ \A e \in Visited : Ancestors[e] \cap Below(start) \subseteq Visited
<1>0. IsTree(parent) /\ start \in Vertices /\ Vertices \subseteq Nat
  BY VertexAssumption DEF VisitOK, Vertices
<1>1. Visited \subseteq Below(start) /\ Visited \subseteq Vertices
  BY DEF Visited, Below
<1>2. start \in Visited
  <2>1. start \in Ancestors[start]
    BY <1>0, AncestorsStep
  <2>2. ASSUME NEW a \in Ancestors[start], start \in Ancestors[a] PROVE a = start
    <3>1. a \in Vertices /\ a <= start
      BY <1>0, AncestorsOlder
    <3>2. start <= a
      BY <1>0, <2>2, <3>1, AncestorsOlder
    <3> QED BY <1>0, <3>1, <3>2
  <2> QED BY <1>0, <2>1, <2>2 DEF Visited, Below
<1>3. ASSUME NEW v \in Visited, ~Termfunc(v), NEW c \in Children(v) PROVE c \in Visited
  <2>1. v \in Vertices /\ start \in Ancestors[v]
    BY DEF Visited, Below
  <2>2. c \in Vertices /\ Ancestors[c] = {c} \cup Ancestors[v]
    BY <1>0, <2>1, ChildFacts
  <2> QED BY <1>3, <2>1, <2>2 DEF Visited, Below
<1>4. ASSUME NEW v \in Visited, Termfunc(v), NEW u \in Visited, u \in Below(v) PROVE u = v
  BY <1>4 DEF Visited, Below
<1>5. ASSUME NEW e \in Visited, NEW a \in Ancestors[e], a \in Below(start) PROVE a \in Visited
  <2>1. e \in Vertices /\ a \in Vertices /\ a <= e
    BY <1>0, <1>1, AncestorsOlder
  <2>2. ASSUME NEW b \in Ancestors[a] \ {a} PROVE b \in Ancestors[e] \ {e}
    <3>1. b \in Ancestors[e]
      BY <1>0, <2>1, AncestorsTransitive
    <3>2. b \in Vertices /\ b <= a
      BY <1>0, <2>1, AncestorsOlder
    <3> QED BY <1>0, <2>1, <3>1, <3>2
  <2> QED BY <1>5, <2>2 DEF Visited
<1> QED BY <1>1, <1>2, <1>3, <1>4, <1>5

\* An element decides alone about itself.
LEMMA ElementDecides ==
  ASSUME VisitOK, NEW t \in Visited, Element(t)
  PROVE  Deciding(t) = {t}
<1>0. IsTree(parent) /\ t \in Vertices /\ Vertices \subseteq Nat /\ t \in Ancestors[t]
  BY VisitedFacts, AncestorsStep, VertexAssumption DEF VisitOK, Vertices
<1>1. ASSUME NEW e \in Deciding(t) PROVE e = t
  BY <1>0 DEF Deciding, Below
<1>2. ASSUME NEW a \in Ancestors[t], t \in Ancestors[a] PROVE a = t
  <2>1. a \in Vertices /\ a <= t
    BY <1>0, AncestorsOlder
  <2>2. t <= a
    BY <1>0, <1>2, <2>1, AncestorsOlder
  <2> QED BY <1>0, <2>1, <2>2
<1>3. t \in Deciding(t)
  BY <1>0, <1>2 DEF Deciding, Below
<1> QED BY <1>1, <1>3

\* About another vertex those decide that decide about one of its children.
LEMMA ChildrenDecide ==
  ASSUME VisitOK, NEW u \in Below(start), ~Element(u)
  PROVE  Deciding(u) = {e \in Visited : \E c \in Children(u) \cap Visited : e \in Deciding(c)}
<1>0. IsTree(parent) /\ u \in Vertices /\ start \in Ancestors[u] /\ start \in Vertices
  BY DEF VisitOK, Below
<1>1. ASSUME NEW e \in Deciding(u)
      PROVE  e \in Visited /\ \E c \in Children(u) \cap Visited : e \in Deciding(c)
  <2>1. e \in Visited /\ e \in Vertices /\ u \in Ancestors[e] /\ Element(e)
        /\ \A a \in Ancestors[e] \ {e} : u \in Ancestors[a] => ~Element(a)
    BY DEF Deciding, Below
  <2>2. e # u
    BY <2>1
  <2>3. PICK c \in Children(u) : c \in Ancestors[e]
    BY <1>0, <2>1, <2>2, BelowChild
  <2>4. c \in Vertices /\ Ancestors[c] = {c} \cup Ancestors[u]
    BY <1>0, ChildFacts
  <2>5. c \in Visited
    BY <1>0, <2>1, <2>3, <2>4, VisitedFacts DEF Below
  <2>6. u \in Ancestors[c]
    BY <1>0, <2>4, AncestorsStep
  <2>7. ASSUME NEW a \in Ancestors[e] \ {e}, c \in Ancestors[a] PROVE ~Element(a)
    <3>1. a \in Vertices
      BY <1>0, <2>1, AncestorsOlder
    <3>2. u \in Ancestors[a]
      BY <1>0, <2>6, <2>7, <3>1, AncestorsTransitive
    <3> QED BY <2>1, <3>2
  <2>8. e \in Deciding(c)
    BY <2>1, <2>3, <2>7 DEF Deciding, Below
  <2> QED BY <2>1, <2>5, <2>8
<1>2. ASSUME NEW e \in Visited, NEW c \in Children(u) \cap Visited, e \in Deciding(c)
      PROVE  e \in Deciding(u)
  <2>1. c \in Vertices /\ Ancestors[c] = {c} \cup Ancestors[u] /\ u \in Ancestors[c]
    BY <1>0, ChildFacts, AncestorsStep
  <2>2. e \in Vertices /\ c \in Ancestors[e] /\ Element(e)
        /\ \A a \in Ancestors[e] \ {e} : c \in Ancestors[a] => ~Element(a)
    BY <1>2 DEF Deciding, Below
  <2>3. u \in Ancestors[e]
    BY <1>0, <2>1, <2>2, AncestorsTransitive
  <2>4. ASSUME NEW a \in Ancestors[e] \ {e}, u \in Ancestors[a] PROVE ~Element(a)
    <3>1. CASE c \in Ancestors[a]
      BY <2>2, <3>1
    <3>2. CASE c \notin Ancestors[a]
      <4>1. a \in Vertices /\ a \in Ancestors[c]
        BY <1>0, <2>2, <3>2, AncestorsLinear, AncestorsOlder
      <4>2. a # c
        BY <1>0, <3>2, <4>1, AncestorsStep
      <4>3. a \in Ancestors[u] /\ a <= u /\ u <= a
        BY <1>0, <2>1, <2>4, <4>1, <4>2, AncestorsOlder
      <4>4. a = u
        BY <1>0, <4>1, <4>3, VertexAssumption DEF Vertices
      <4> QED BY <4>4
    <3> QED BY <3>1, <3>2
  <2> QED BY <1>2, <2>2, <2>3, <2>4 DEF Deciding, Below
<1>3. Deciding(u) \subseteq Visited
  BY DEF Deciding
<1> QED BY <1>1, <1>2, <1>3

\* The path holds everything between its front and the start.
LEMMA OnPathIs ==
  ASSUME VisitOK, path # <<>>
  PROVE  OnPath = Ancestors[path[1]] \cap Below(start)
<1>0. /\ IsTree(parent) /\ start \in Vertices /\ path \in Seq(Vertices)
      /\ Len(path) \in Nat /\ Len(path) >= 1 /\ path[Len(path)] = start
      /\ \A i \in 1..(Len(path) - 1) : parent[path[i]] = path[i + 1]
      /\ \A i \in 1..Len(path) : path[i] \in Vertices
  BY DEF VisitOK, PathIsChain
<1>1. ASSUME NEW i \in 1..Len(path)
      PROVE  path[i] \in Ancestors[path[1]] /\ path[i] \in Below(start)
  <2>1. 1 \in 1..Len(path) /\ Len(path) \in 1..Len(path) /\ 1 <= i /\ i <= Len(path)
    BY <1>0
  <2>2. path[i] \in Ancestors[path[1]] /\ start \in Ancestors[path[i]]
    BY <1>0, <2>1, PathAbove
  <2> QED BY <1>0, <2>2 DEF Below
<1>2. ASSUME NEW a \in Ancestors[path[1]], a \in Below(start), a \notin OnPath PROVE FALSE
  <2> DEFINE T == {i \in 1..Len(path) : a \notin Ancestors[path[i]]}
  <2>1. a \in Vertices /\ start \in Ancestors[a]
    BY <1>2 DEF Below
  <2>2. T # {}
    <3>1. Len(path) \in 1..Len(path) /\ a # start
      BY <1>0, <1>2 DEF OnPath
    <3>2. a \notin Ancestors[start]
      <4>1. SUFFICES ASSUME a \in Ancestors[start] PROVE FALSE
        OBVIOUS
      <4>2. a <= start /\ start <= a
        BY <1>0, <2>1, <4>1, AncestorsOlder
      <4> QED BY <1>0, <2>1, <3>1, <4>2, VertexAssumption DEF Vertices
    <3> QED BY <1>0, <3>1, <3>2
  <2>3. T \in SUBSET Nat
    BY <1>0
  <2> HIDE DEF T
  <2>4. PICK x \in T : \A y \in T : x <= y
    BY <2>2, <2>3, LeastNumber
  <2>5. x \in 1..Len(path) /\ a \notin Ancestors[path[x]] /\ x # 1
    BY <1>2 DEF T
  <2>6. x - 1 \in 1..(Len(path) - 1) /\ x - 1 \in 1..Len(path) /\ (x - 1) + 1 = x /\ ~(x <= x - 1)
    BY <1>0, <2>5
  <2>7. x - 1 \notin T
    BY <2>4, <2>6
  <2>8. a \in Ancestors[path[x - 1]] /\ a # path[x - 1]
    BY <1>2, <2>6, <2>7 DEF T, OnPath
  <2>9. parent[path[x - 1]] = path[x] /\ path[x - 1] \in Vertices /\ path[x] \in Vertices
    BY <1>0, <2>5, <2>6
  <2>10. path[x] # 0
    BY <2>9, VertexAssumption DEF Vertices
  <2> QED BY <1>0, <2>5, <2>8, <2>9, <2>10, AncestorsStep
<1>3. OnPath \subseteq Ancestors[path[1]] \cap Below(start)
  BY <1>1 DEF OnPath
<1> QED BY <1>2, <1>3

-----------------------------------------------------------------------------
(* How a step of the traversal changes what has been entered and left.     *)

\* Nothing has been entered yet.
LEMMA AtStart ==
  ASSUME path = <<>>, ei = 0
  PROVE  /\ Roots = {start} /\ OnPath = {} /\ Entered = {} /\ Finished = {}
         /\ \A u : Gathered(u) = {}
<1>1. Roots = {start} /\ OnPath = {}
  BY DEF Roots, OnPath
<1>2. Visited \subseteq ToVisit
  BY <1>1 DEF Visited, ToVisit, Below
<1>3. Entered = {} /\ Finished = {}
  BY <1>2 DEF Entered, Finished
<1> QED BY <1>1, <1>3 DEF Gathered

\* A step that stays where it is.
LEMMA SamePlace ==
  ASSUME VisitOK, UNCHANGED <<parent, props, start, filter, path, ei>>
  PROVE  /\ VisitOK' /\ Roots' = Roots /\ ToVisit' = ToVisit /\ OnPath' = OnPath
         /\ Entered' = Entered /\ \A u : Gathered(u)' = Gathered(u)
<1>1. /\ Ancestors' = Ancestors /\ Visited' = Visited
      /\ \A v : Children(v)' = Children(v) /\ Deciding(v)' = Deciding(v)
  BY SameQuery
<1>2. VisitOK'
  BY DEF VisitOK, IsTree, PathIsChain
<1>3. Roots' = Roots /\ OnPath' = OnPath
  BY DEF Roots, Mark, OnPath
<1>4. ToVisit' = ToVisit
  BY <1>1, <1>3 DEF ToVisit
<1>5. Entered' = Entered
  BY <1>1, <1>4 DEF Entered
<1>6. \A u : Gathered(u)' = Gathered(u)
  BY <1>1, <1>3, <1>5 DEF Gathered, Finished
<1> QED BY <1>2, <1>3, <1>4, <1>5, <1>6

\* A vertex is entered, for the first time; nothing is left.
LEMMA EnterPlace ==
  ASSUME VisitOK, OnlyVisited, NEW v \in ToEnter, NEW terminate \in BOOLEAN,
         terminate <=> Termfunc(v), Enter(v, terminate),
         UNCHANGED <<parent, props, start, filter>>
  PROVE  /\ VisitOK' /\ OnlyVisited' /\ v \in Visited /\ v \in ToVisit /\ v \notin OnPath
         /\ path' # <<>> /\ path'[1] = v /\ Len(path') = Len(path) + 1
         /\ \A i \in 1..Len(path) : path'[i + 1] = path[i]
         /\ OnPath' = OnPath \cup {v} /\ ToVisit' \subseteq ToVisit
         /\ Entered' = Entered \cup {v} /\ \A u : Gathered(u)' = Gathered(u)
<1>1. /\ Ancestors' = Ancestors /\ Visited' = Visited
      /\ \A u : Children(u)' = Children(u) /\ Deciding(u)' = Deciding(u)
  BY SameQuery
<1>2. /\ VisitOK' /\ path' # <<>> /\ path'[1] = v
      /\ Len(path') = Len(path) + 1
      /\ \A i \in 1..Len(path) : path'[i + 1] = path[i]
      /\ Roots' = (Roots \ {v}) \cup (IF terminate THEN {} ELSE Children(v))
  BY EnterRoots
<1>3. ToVisit' = ToVisit \ IF terminate THEN Below(v) ELSE {v}
  BY EnterToVisit
<1>4. v \in Vertices /\ v \in Roots /\ v \in ToVisit /\ v \in Visited
  BY ToEnterFacts DEF OnlyVisited
<1>5. v \notin OnPath
  <2>1. CASE path = <<>>
    BY <2>1 DEF OnPath
  <2>2. CASE path # <<>>
    BY <1>4, <2>2, RootNotAbove, OnPathIs
  <2> QED BY <2>1, <2>2
<1>6. OnPath' = OnPath \cup {v}
  <2>1. Len(path) \in Nat /\ Len(path') \in Nat
    BY <1>2 DEF VisitOK
  <2>2. ASSUME NEW i \in 1..Len(path') PROVE path'[i] \in OnPath \cup {v}
    <3>1. CASE i = 1
      BY <1>2, <3>1
    <3>2. CASE i # 1
      <4>1. i - 1 \in 1..Len(path) /\ (i - 1) + 1 = i
        BY <1>2, <2>1, <3>2
      <4>2. path'[i] = path[i - 1]
        BY <1>2, <4>1
      <4> QED BY <4>1, <4>2 DEF OnPath
    <3> QED BY <3>1, <3>2
  <2>3. ASSUME NEW i \in 1..Len(path) PROVE path[i] \in OnPath'
    <3>1. i + 1 \in 1..Len(path') /\ path'[i + 1] = path[i]
      BY <1>2, <2>1
    <3> QED BY <3>1 DEF OnPath
  <2>4. v \in OnPath'
    <3>1. 1 \in 1..Len(path')
      BY <1>2, <2>1
    <3> QED BY <1>2, <3>1 DEF OnPath
  <2>5. OnPath' \subseteq OnPath \cup {v}
    BY <2>2 DEF OnPath
  <2>6. OnPath \subseteq OnPath'
    BY <2>3 DEF OnPath
  <2> QED BY <2>4, <2>5, <2>6
<1>7. OnlyVisited'
  <2>1. Roots \subseteq Visited /\ OnPath \subseteq Visited
    BY DEF OnlyVisited
  <2>2. ~terminate => Children(v) \subseteq Visited
    BY <1>4, VisitedFacts
  <2>3. Roots' \subseteq Visited
    BY <1>2, <2>1, <2>2
  <2> QED BY <1>1, <1>4, <1>6, <2>1, <2>3 DEF OnlyVisited
<1>8. Entered' = Entered \cup {v}
  <2>1. v \in Below(v)
    BY <1>4, AncestorsStep DEF VisitOK, Below
  <2>2. terminate => Visited \cap Below(v) \subseteq {v}
    BY <1>4, VisitedFacts
  <2>3. Visited \ ToVisit' = (Visited \ ToVisit) \cup {v}
    <3>1. CASE terminate
      BY <1>3, <1>4, <2>1, <2>2, <3>1
    <3>2. CASE ~terminate
      BY <1>3, <1>4, <3>2
    <3> QED BY <3>1, <3>2
  <2> QED BY <1>1, <2>3 DEF Entered
<1>9. Finished' = Finished
  <2>1. v \notin Entered
    BY <1>4 DEF Entered
  <2> QED BY <1>6, <1>8, <2>1 DEF Finished
<1>10. \A u : Gathered(u)' = Gathered(u)
  BY <1>1, <1>9 DEF Gathered
<1> QED BY <1>2, <1>3, <1>4, <1>5, <1>6, <1>7, <1>8, <1>10

\* The vertex in front has been entered, and what is visited of its children left.
LEMMA FrontFacts ==
  ASSUME VisitOK, OnlyVisited, path # <<>>, Pending = {}
  PROVE  /\ path[1] \in OnPath /\ path[1] \in Entered
         /\ Children(path[1]) \cap Visited \subseteq Finished
<1>0. /\ IsTree(parent) /\ path \in Seq(Vertices) /\ Len(path) \in Nat /\ Len(path) >= 1
      /\ 1 \in 1..Len(path) /\ path[1] \in Vertices /\ Head(path) = path[1]
  BY DEF VisitOK
<1>1. path[1] \in OnPath
  BY <1>0 DEF OnPath
<1>2. path[1] \in Entered
  BY <1>1, RootNotAbove DEF OnlyVisited, Entered, ToVisit
<1>3. ASSUME NEW c \in Children(path[1]) \cap Visited PROVE c \in Finished
  <2>1. c \in Vertices /\ parent[c] = path[1] /\ Ancestors[c] = {c} \cup Ancestors[path[1]]
        /\ c \notin Ancestors[path[1]]
    BY <1>0, ChildFacts
  <2>2. c \notin Roots
    <3>1. SUFFICES ASSUME c \in Roots PROVE FALSE
      OBVIOUS
    <3>2. PICK i \in 1..Len(path) : parent[c] = path[i] /\ c > Mark(i)
      BY <3>1 DEF Roots
    <3>3. i = 1
      <4>1. SUFFICES ASSUME i # 1 PROVE FALSE
        OBVIOUS
      <4>2. path[i] < path[1]
        BY <1>0, <4>1, PathOlder
      <4> QED BY <1>0, <2>1, <3>2, <4>2, VertexAssumption DEF Vertices
    <3>4. c > ei
      BY <3>2, <3>3 DEF Mark
    <3> QED BY <1>0, <3>4 DEF Pending
  <2>3. c \notin ToVisit
    BY <2>1, <2>2, RootNotAbove DEF ToVisit
  <2>4. c \notin OnPath
    BY <2>1, OnPathIs
  <2> QED BY <2>3, <2>4 DEF Finished, Entered
<1> QED BY <1>1, <1>2, <1>3

\* The vertex in front is left; nothing is entered.  What decides about it then counts
\* for its parent.
LEMMA LeavePlace ==
  ASSUME VisitOK, OnlyVisited, Leave, UNCHANGED <<parent, props, start, filter>>
  PROVE  /\ VisitOK' /\ OnlyVisited' /\ ToVisit' = ToVisit /\ Entered' = Entered
         /\ OnPath' = OnPath \ {path[1]}
         /\ \A u : Gathered(u)' =
               Gathered(u) \cup IF path[1] \in Children(u) THEN Deciding(path[1]) ELSE {}
<1>0. /\ path # <<>> /\ Pending = {} /\ path' = Tail(path) /\ path \in Seq(Vertices)
      /\ Len(path) \in Nat /\ Len(path) >= 1 /\ Len(Tail(path)) = Len(path) - 1
      /\ \A i \in 1..(Len(path) - 1) : Tail(path)[i] = path[i + 1]
      /\ \A i \in 1..Len(path) : path[i] \in Vertices
  BY Popped DEF Leave, VisitOK
<1>1. /\ Ancestors' = Ancestors /\ Visited' = Visited
      /\ \A u : Children(u)' = Children(u) /\ Deciding(u)' = Deciding(u)
  BY SameQuery
<1>2. VisitOK' /\ Roots' = Roots /\ ToVisit' = ToVisit
  BY LeaveToVisit
<1>3. Entered' = Entered
  BY <1>1, <1>2 DEF Entered
<1>4. OnPath' = OnPath \ {path[1]}
  <2>1. ASSUME NEW i \in 1..Len(path') PROVE path'[i] \in OnPath \ {path[1]}
    <3>1. i \in 1..(Len(path) - 1) /\ i + 1 \in 1..Len(path) /\ 1 \in 1..Len(path) /\ 1 < i + 1
      BY <1>0
    <3>2. path'[i] = path[i + 1] /\ path[i + 1] < path[1]
      BY <1>0, <3>1, PathOlder
    <3> QED BY <1>0, <3>1, <3>2, VertexAssumption DEF OnPath, Vertices
  <2>2. ASSUME NEW i \in 1..Len(path), path[i] # path[1] PROVE path[i] \in OnPath'
    <3>1. i - 1 \in 1..(Len(path) - 1) /\ (i - 1) + 1 = i /\ i - 1 \in 1..Len(path')
      BY <1>0, <2>2
    <3>2. path'[i - 1] = path[i]
      BY <1>0, <3>1
    <3> QED BY <3>1, <3>2 DEF OnPath
  <2>3. OnPath' \subseteq OnPath \ {path[1]}
    BY <2>1 DEF OnPath
  <2>4. OnPath \ {path[1]} \subseteq OnPath'
    BY <2>2 DEF OnPath
  <2> QED BY <2>3, <2>4
<1>5. OnlyVisited'
  BY <1>1, <1>2, <1>4 DEF OnlyVisited
<1>6. Finished' = Finished \cup {path[1]}
  BY <1>0, <1>3, <1>4, FrontFacts DEF Finished
<1>7. ASSUME NEW u
      PROVE  Gathered(u)' =
                Gathered(u) \cup IF path[1] \in Children(u) THEN Deciding(path[1]) ELSE {}
  <2>1. Gathered(u)' = {e \in Visited : \E d \in Children(u) \cap (Finished \cup {path[1]}) :
                                            e \in Deciding(d)}
    BY <1>1, <1>6 DEF Gathered
  <2>2. Deciding(path[1]) \subseteq Visited
    BY DEF Deciding
  <2> QED BY <2>1, <2>2 DEF Gathered
<1> QED BY <1>2, <1>3, <1>4, <1>5, <1>7

\* Once all visited children of a vertex are left, all that decide about it have.
LEMMA AllGathered ==
  ASSUME VisitOK, NEW u \in Below(start), ~Element(u), Children(u) \cap Visited \subseteq Finished
  PROVE  Gathered(u) = Deciding(u)
<1>1. Children(u) \cap Visited = Children(u) \cap Finished
  BY DEF Finished, Entered
<1> QED BY <1>1, ChildrenDecide DEF Gathered

-----------------------------------------------------------------------------
(* Every step keeps the invariant.                                         *)

\* Before a traversal.
LEMMA BlankInv ==
  ASSUME Typed, Blank, status \in {"idle", "visiting"}
  PROVE  Inv
<1>0. VisitOK /\ path = <<>> /\ ei = 0
  BY DEF Typed, Blank
<1>1. /\ Roots = {start} /\ OnPath = {} /\ Entered = {} /\ \A u : Gathered(u) = {}
  BY <1>0, AtStart
<1>2. OnlyVisited
  BY <1>0, <1>1, VisitedFacts DEF OnlyVisited
<1>3. ValidOK /\ ModelsOK
  BY <1>1 DEF ValidOK, ModelsOK, Blank
<1>4. LevelsOK
  BY DEF LevelsOK, Blank
<1>5. SuppressedOK
  BY <1>1 DEF SuppressedOK, Blank
<1>6. SeverityOK
  BY <1>1 DEF SeverityOK, Blank, IsHighest, SeveritiesOf, Below
<1>7. Replied
  BY DEF Replied, ReplyIsFiltered, SeverityIsHighest, SuppressedIffAny, LevelIsOwn
<1> QED BY <1>2, <1>3, <1>4, <1>5, <1>6, <1>7 DEF Inv, Typed, Blank

LEMMA InitInv ==
  ASSUME Init
  PROVE  Inv
<1>1. VisitOK
  BY VertexAssumption DEF Init, InitQuery, InitVisit, VisitOK, Trees, PathIsChain, Vertices
<1>2. Typed /\ Blank /\ status = "idle"
  BY <1>1 DEF Init, InitQuery, InitVisit, Typed, Blank
<1> QED BY <1>2, BlankInv

\* A step that changes no more than the status.
LEMMA SameInv ==
  ASSUME Inv, UNCHANGED <<request, path, ei, collected>>,
         \/ status' \in {"threw", "exited"}
         \/ UNCHANGED <<status, reply>>
  PROVE  Inv'
<1>0. UNCHANGED <<parent, props, start, filter, path, ei, valid_nodes, valid_models,
                  suppressed_nodes, node_severity, data_access_level>>
  BY DEF request, tree, collected
<1>1. VisitOK
  BY DEF Inv, Typed
<1>2. /\ Ancestors' = Ancestors /\ Visited' = Visited
      /\ \A v : /\ Children(v)' = Children(v) /\ Below(v)' = Below(v)
                /\ Element(v)' = Element(v) /\ Accepted(v)' = Accepted(v)
                /\ Deciding(v)' = Deciding(v)
  BY <1>0, SameQuery
<1>3. /\ VisitOK' /\ Roots' = Roots /\ ToVisit' = ToVisit /\ OnPath' = OnPath
      /\ Entered' = Entered /\ \A u : Gathered(u)' = Gathered(u)
  BY <1>0, <1>1, SamePlace
<1>4. Below(start)' = Below(start) /\ Accepted(start)' = Accepted(start)
      /\ Children(start)' = Children(start)
  BY <1>0, <1>2 DEF Below, Accepted, Children, Element
<1>5. Typed'
  BY <1>0, <1>3 DEF Inv, Typed
<1>6. (status = "idle" => Blank)'
  BY <1>0 DEF Inv, Blank
<1>7. OnlyVisited'
  BY <1>2, <1>3 DEF Inv, OnlyVisited
<1>8. ValidOK'
  BY <1>0, <1>2, <1>3, <1>4 DEF Inv, ValidOK
<1>9. ModelsOK'
  BY <1>0, <1>2, <1>3, <1>4 DEF Inv, ModelsOK
<1>10. LevelsOK'
  BY <1>0, <1>3 DEF Inv, LevelsOK
<1>11. SuppressedOK'
  BY <1>0, <1>2, <1>3, <1>4 DEF Inv, SuppressedOK
<1>12. SeverityOK'
  BY <1>0, <1>2, <1>3, <1>4 DEF Inv, SeverityOK, IsHighest, SeveritiesOf
<1>13. Replied'
  <2>1. CASE status' \in {"threw", "exited"}
    BY <2>1 DEF Replied, ReplyIsFiltered, SeverityIsHighest, SuppressedIffAny, LevelIsOwn
  <2>2. CASE UNCHANGED <<status, reply>>
    <3>1. Replied
      BY DEF Inv
    <3>2. ReplyIsFiltered'
      BY <1>0, <1>2, <1>4, <2>2, <3>1 DEF Replied, ReplyIsFiltered
    <3>3. SeverityIsHighest'
      BY <1>0, <1>2, <2>2, <3>1 DEF Replied, SeverityIsHighest
    <3>4. SuppressedIffAny'
      BY <1>0, <1>2, <2>2, <3>1 DEF Replied, SuppressedIffAny
    <3>5. LevelIsOwn'
      BY <1>0, <2>2, <3>1 DEF Replied, LevelIsOwn
    <3> QED BY <3>2, <3>3, <3>4, <3>5 DEF Replied
  <2> QED BY <2>1, <2>2
<1> QED BY <1>5, <1>6, <1>7, <1>8, <1>9, <1>10, <1>11, <1>12, <1>13 DEF Inv

LEMMA RequestInv ==
  ASSUME Inv, NEW v \in Vertices, NEW f \in Filters, Request(v, f)
  PROVE  Inv'
<1>1. /\ status = "idle" /\ status' = "visiting" /\ start' = v
      /\ UNCHANGED <<parent, props, path, ei, valid_nodes, valid_models,
                     suppressed_nodes, node_severity, data_access_level>>
  BY DEF Request, tree, collected
<1>2. Typed /\ Blank
  BY <1>1 DEF Inv
<1>3. Blank'
  BY <1>1, <1>2 DEF Blank
<1>4. VisitOK'
  BY <1>1, <1>2 DEF Typed, Blank, VisitOK, IsTree, PathIsChain
<1>5. Typed'
  BY <1>1, <1>2, <1>4 DEF Typed
<1>6. (status \in {"idle", "visiting"})'
  BY <1>1
<1> QED BY <1>3, <1>5, <1>6, BlankInv, PTL

LEMMA SentInv ==
  ASSUME Inv, Sent
  PROVE  Inv'
<1>1. /\ status' = "idle" /\ start' = 1 /\ path' = <<>> /\ ei' = 0
      /\ valid_nodes' = {} /\ valid_models' = {} /\ suppressed_nodes' = {}
      /\ node_severity' = [v \in Vertices |-> NoSeverity]
      /\ data_access_level' = [v \in Vertices |-> Absent]
      /\ UNCHANGED <<parent, props>>
  BY DEF Sent, tree
<1>2. Blank'
  BY <1>1 DEF Blank
<1>3. VisitOK'
  <2>1. IsTree(parent)'
    BY <1>1 DEF Inv, Typed, VisitOK, IsTree
  <2>2. PathIsChain'
    BY <1>1 DEF PathIsChain
  <2>3. (start \in Vertices /\ ei \in 0..N)'
    BY <1>1, VertexAssumption DEF Vertices
  <2>4. (path \in Seq(Vertices))'
    BY <1>1
  <2> QED BY <2>1, <2>2, <2>3, <2>4 DEF VisitOK
<1>4. Typed'
  BY <1>1, <1>3 DEF Inv, Typed
<1>5. (status \in {"idle", "visiting"})'
  BY <1>1
<1> QED BY <1>2, <1>4, <1>5, BlankInv, PTL

LEMMA PathUpwards ==
  ASSUME VisitOK
  PROVE  \A i, j \in 1..Len(path) : j <= i => path[i] \in Ancestors[path[j]]
BY PathAbove

\* Where the vertex entered is accepted, all of the path is valid afterwards.
LEMMA AllOfPathValid ==
  ASSUME VisitOK, ValidOK, UNCHANGED <<parent, start>>, VisitOK', path' # <<>>
  PROVE  valid_nodes \cup NewlyValid(path') = valid_nodes \cup OnPath'
<1>0. /\ IsTree(parent) /\ start \in Vertices /\ path' \in Seq(Vertices) /\ Len(path') \in Nat
      /\ \A i \in 1..Len(path') : path'[i] \in Vertices
  BY DEF VisitOK
<1>1. Ancestors' = Ancestors
  BY SameTree
<1>2. \A i, j \in 1..Len(path') : j <= i => path'[i] \in Ancestors[path'[j]]
  <2>1. (VisitOK => \A i, j \in 1..Len(path) : j <= i => path[i] \in Ancestors[path[j]])'
    BY PathUpwards, PTL
  <2> QED BY <1>1, <2>1
<1>3. \A i \in 1..Len(path') : start \in Ancestors[path'[i]]
  <2>1. path'[Len(path')] = start
    BY DEF VisitOK, PathIsChain
  <2>2. \A i \in 1..Len(path') : Len(path') \in 1..Len(path') /\ i <= Len(path')
    BY <1>0
  <2> QED BY <1>2, <2>1, <2>2
<1>4. ASSUME NEW i \in 1..Len(path'), NEW j \in 1..i, path'[j] \in valid_nodes
      PROVE  path'[i] \in valid_nodes
  <2>1. j \in 1..Len(path') /\ j <= i
    BY <1>0
  <2>2. path'[i] \in Ancestors[path'[j]]
    BY <1>2, <2>1
  <2>3. PICK e \in Entered : Accepted(e) /\ path'[j] \in Ancestors[e]
    BY <1>4 DEF ValidOK
  <2>4. e \in Vertices
    BY VisitedFacts DEF Entered
  <2>5. path'[i] \in Ancestors[e]
    BY <1>0, <2>2, <2>3, <2>4, AncestorsTransitive
  <2>6. path'[i] \in Below(start)
    BY <1>0, <1>3 DEF Below
  <2> QED BY <2>3, <2>5, <2>6 DEF ValidOK
<1>5. NewlyValid(path') \subseteq OnPath'
  BY DEF NewlyValid, OnPath
<1>6. ASSUME NEW i \in 1..Len(path'), path'[i] \notin valid_nodes
      PROVE  path'[i] \in NewlyValid(path')
  BY <1>4, <1>6 DEF NewlyValid
<1>7. OnPath' \subseteq valid_nodes \cup NewlyValid(path')
  BY <1>6 DEF OnPath
<1> QED BY <1>5, <1>7

\* The model entered for an accepted vertex is its parent, under the one child of the
\* start that is above it.
LEMMA ModelEntered ==
  ASSUME VisitOK, Len(path) > 1
  PROVE  /\ path[2] = parent[path[1]]
         /\ Children(start) \cap Ancestors[path[1]] = {path[Len(path) - 1]}
<1>0. /\ IsTree(parent) /\ start \in Vertices /\ path \in Seq(Vertices) /\ Len(path) \in Nat
      /\ \A i \in 1..Len(path) : path[i] \in Vertices
      /\ \A i \in 1..(Len(path) - 1) : parent[path[i]] = path[i + 1]
      /\ path # <<>> /\ path[Len(path)] = start
  BY DEF VisitOK, PathIsChain
<1>1. /\ 1 \in 1..(Len(path) - 1) /\ 1 \in 1..Len(path) /\ 1 + 1 = 2
      /\ Len(path) - 1 \in 1..(Len(path) - 1) /\ (Len(path) - 1) + 1 = Len(path)
      /\ Len(path) - 1 \in 1..Len(path) /\ 1 <= Len(path) - 1
  BY <1>0
<1>2. path[2] = parent[path[1]]
  BY <1>0, <1>1
<1>3. path[Len(path) - 1] \in Children(start) /\ path[Len(path) - 1] \in Ancestors[path[1]]
  <2>1. parent[path[Len(path) - 1]] = start
    BY <1>0, <1>1
  <2>2. path[Len(path) - 1] \in Ancestors[path[1]]
    BY <1>1, PathAbove
  <2> QED BY <1>0, <1>1, <2>1, <2>2 DEF Children
<1>4. ASSUME NEW c \in Children(start) \cap Ancestors[path[1]] PROVE c = path[Len(path) - 1]
  <2> DEFINE d == path[Len(path) - 1]
  <2>1. d \in Children(start) /\ d \in Ancestors[path[1]]
    BY <1>3
  <2> HIDE DEF d
  <2>2. c \in Ancestors[d] \/ d \in Ancestors[c]
    BY <1>0, <1>1, <2>1, AncestorsLinear
  <2>3. /\ Ancestors[c] = {c} \cup Ancestors[start] /\ c \notin Ancestors[start]
        /\ Ancestors[d] = {d} \cup Ancestors[start] /\ d \notin Ancestors[start]
    BY <1>0, <2>1, ChildFacts
  <2>4. c = d
    BY <2>2, <2>3
  <2> QED BY <2>4 DEF d
<1> QED BY <1>2, <1>3, <1>4

\* discover_vertex, when it comes to its end.
LEMMA EnterInv ==
  ASSUME Inv, NEW v \in ToEnter, status = "visiting", Enter(v, Termfunc(v)),
         \/ ~Accepted(v) /\ UNCHANGED <<valid_nodes, valid_models>>
         \/ /\ Accepted(v)
            /\ valid_nodes' = valid_nodes \cup NewlyValid(path')
            /\ \E entry \in ModelEntries(path') : valid_models' = valid_models \cup {entry},
         UNCHANGED <<request, suppressed_nodes, node_severity, data_access_level, status, reply>>
  PROVE  Inv'
<1>0. /\ UNCHANGED <<parent, props, start, filter>>
      /\ Typed /\ VisitOK /\ OnlyVisited /\ ValidOK /\ ModelsOK /\ LevelsOK
      /\ SuppressedOK /\ SeverityOK
  BY DEF request, tree, Inv, Typed
<1>1. /\ Ancestors' = Ancestors /\ Visited' = Visited
      /\ \A u : /\ Children(u)' = Children(u) /\ Below(u)' = Below(u)
                /\ Element(u)' = Element(u) /\ Accepted(u)' = Accepted(u)
                /\ Deciding(u)' = Deciding(u)
  BY <1>0, SameQuery
<1>2. /\ VisitOK' /\ OnlyVisited' /\ v \in Visited /\ v \in ToVisit /\ v \notin OnPath
      /\ path' # <<>> /\ path'[1] = v /\ Len(path') = Len(path) + 1
      /\ \A i \in 1..Len(path) : path'[i + 1] = path[i]
      /\ OnPath' = OnPath \cup {v} /\ ToVisit' \subseteq ToVisit
      /\ Entered' = Entered \cup {v} /\ \A u : Gathered(u)' = Gathered(u)
  <2>1. \E terminate \in BOOLEAN : (terminate <=> Termfunc(v)) /\ Enter(v, terminate)
    <3>1. CASE Termfunc(v)
      <4>1. Enter(v, TRUE)
        BY <3>1 DEF Enter
      <4> QED BY <3>1, <4>1
    <3>2. CASE ~Termfunc(v)
      <4>1. Enter(v, FALSE)
        BY <3>2 DEF Enter
      <4> QED BY <3>2, <4>1
    <3> QED BY <3>1, <3>2
  <2>2. PICK terminate \in BOOLEAN : (terminate <=> Termfunc(v)) /\ Enter(v, terminate)
    BY <2>1
  <2> QED BY <1>0, <2>2, EnterPlace
<1>3. Below(start)' = Below(start) /\ Accepted(start)' = Accepted(start)
      /\ Children(start)' = Children(start)
  BY <1>0, <1>1 DEF Below, Accepted, Children, Element
<1>4. v \in Vertices /\ start \in Vertices /\ IsTree(parent)
      /\ \A i \in 1..Len(path') : path'[i] \in Vertices
  BY <1>0, <1>2, VisitedFacts DEF VisitOK
<1>5. Accepted(v) => valid_nodes' = valid_nodes \cup (Ancestors[v] \cap Below(start))
  <2>1. Accepted(v) => valid_nodes' = valid_nodes \cup OnPath'
    BY <1>0, <1>2, AllOfPathValid
  <2>2. (VisitOK /\ path # <<>> => OnPath = Ancestors[path[1]] \cap Below(start))'
    BY OnPathIs, PTL
  <2>3. OnPath' = Ancestors[v] \cap Below(start)
    BY <1>1, <1>2, <1>3, <2>2
  <2> QED BY <2>1, <2>3
<1>6. ValidOK'
  <2>1. CASE ~Accepted(v)
    BY <1>0, <1>1, <1>2, <1>3, <2>1 DEF ValidOK
  <2>2. CASE Accepted(v)
    BY <1>0, <1>1, <1>2, <1>3, <1>5, <2>2 DEF ValidOK
  <2> QED BY <2>1, <2>2
<1>7. valid_models' \subseteq Vertices \X Vertices
  <2>1. CASE ~Accepted(v)
    BY <1>0, <2>1 DEF Typed
  <2>2. CASE Accepted(v)
    <3>1. PICK entry \in ModelEntries(path') : valid_models' = valid_models \cup {entry}
      BY <2>2
    <3>2. entry \in Vertices \X Vertices
      <4>1. CASE Len(path') > 1
        <5>1. Len(path') \in Nat /\ Len(path') - 1 \in 1..Len(path') /\ 2 \in 1..Len(path')
          BY <1>2, <4>1 DEF VisitOK
        <5> QED BY <1>4, <4>1, <5>1 DEF ModelEntries
      <4>2. CASE ~(Len(path') > 1)
        BY <4>2 DEF ModelEntries
      <4> QED BY <4>1, <4>2
    <3> QED BY <1>0, <3>1, <3>2 DEF Typed
  <2> QED BY <2>1, <2>2
<1>8. ModelsOK'
  <2>0. parent' = parent /\ Ancestors' = Ancestors /\ Entered' = Entered \cup {v}
        /\ Children(start)' = Children(start) /\ \A e : Accepted(e)' <=> Accepted(e)
    BY <1>0, <1>1, <1>2, <1>3
  <2>1. CASE ~Accepted(v) /\ ~Accepted(start)
    <3>1. ASSUME NEW c \in Vertices, NEW m \in Vertices
          PROVE  <<c, m>> \in valid_models' <=>
                    \E e \in Entered \cup {v} :
                        Accepted(e) /\ c \in Children(start) \cap Ancestors[e] /\ m = parent[e]
      <4>1. <<c, m>> \in valid_models <=>
                \E e \in Entered :
                    Accepted(e) /\ c \in Children(start) \cap Ancestors[e] /\ m = parent[e]
        BY <1>0, <2>1 DEF ModelsOK
      <4>2. valid_models' = valid_models
        BY <2>1
      <4> QED BY <2>1, <4>1, <4>2
    <3>2. \A c, m \in Vertices : <<c, m>> \in valid_models' <=>
              \E e \in Entered' :
                  Accepted(e)' /\ c \in Children(start)' \cap Ancestors'[e] /\ m = parent'[e]
      BY <2>0, <3>1
    <3> QED BY <3>2 DEF ModelsOK
  <2>2. CASE Accepted(v) /\ ~Accepted(start)
    <3>1. path # <<>>
      BY <1>0, <2>2, ToEnterFacts
    <3>2. Len(path') > 1
      BY <1>0, <1>2, <3>1 DEF VisitOK
    <3>3. valid_models' = valid_models \cup {<<path'[Len(path') - 1], path'[2]>>}
      BY <2>2, <3>2 DEF ModelEntries
    <3>4. (VisitOK /\ Len(path) > 1 =>
              /\ path[2] = parent[path[1]]
              /\ Children(start) \cap Ancestors[path[1]] = {path[Len(path) - 1]})'
      BY ModelEntered, PTL
    <3>5. path'[2] = parent[v] /\ Children(start) \cap Ancestors[v] = {path'[Len(path') - 1]}
      BY <1>0, <1>1, <1>2, <1>3, <3>2, <3>4
    <3>6. ASSUME NEW c \in Vertices, NEW m \in Vertices
          PROVE  <<c, m>> \in valid_models' <=>
                    \E e \in Entered \cup {v} :
                        Accepted(e) /\ c \in Children(start) \cap Ancestors[e] /\ m = parent[e]
      <4>1. <<c, m>> \in valid_models <=>
                \E e \in Entered :
                    Accepted(e) /\ c \in Children(start) \cap Ancestors[e] /\ m = parent[e]
        BY <1>0, <2>2 DEF ModelsOK
      <4>2. <<c, m>> \in valid_models' <=>
                <<c, m>> \in valid_models \/ (c = path'[Len(path') - 1] /\ m = path'[2])
        BY <3>3
      <4>3. c \in Children(start) \cap Ancestors[v] <=> c = path'[Len(path') - 1]
        BY <3>5
      <4> QED BY <2>2, <3>5, <4>1, <4>2, <4>3
    <3>7. \A c, m \in Vertices : <<c, m>> \in valid_models' <=>
              \E e \in Entered' :
                  Accepted(e)' /\ c \in Children(start)' \cap Ancestors'[e] /\ m = parent'[e]
      BY <2>0, <3>6
    <3> QED BY <3>7 DEF ModelsOK
  <2>3. CASE Accepted(start)
    BY <1>3, <2>3 DEF ModelsOK
  <2> QED BY <2>1, <2>2, <2>3
<1>9. Typed'
  <2>1. valid_nodes' \subseteq Vertices
    BY <1>6 DEF ValidOK, Below, Vertices
  <2> QED BY <1>0, <1>2, <1>7, <2>1 DEF Typed
<1>10. LevelsOK'
  BY <1>0, <1>2 DEF LevelsOK
<1>11. SuppressedOK'
  BY <1>0, <1>1, <1>2, <1>3 DEF SuppressedOK
<1>12. SeverityOK'
  <2>1. \A u : SeveritiesOf(Gathered(u))' = SeveritiesOf(Gathered(u))
    BY <1>0, <1>2 DEF SeveritiesOf
  <2>2. UNCHANGED node_severity
    OBVIOUS
  <2> QED BY <1>0, <1>1, <1>3, <2>1, <2>2 DEF SeverityOK, IsHighest
<1>13. status' = "visiting"
  OBVIOUS
<1>14. Replied'
  BY <1>13 DEF Replied, ReplyIsFiltered, SeverityIsHighest, SuppressedIffAny, LevelIsOwn
<1> QED BY <1>2, <1>6, <1>8, <1>9, <1>10, <1>11, <1>12, <1>13, <1>14 DEF Inv

LEMMA DiscoverInv ==
  ASSUME Inv, NEW v \in Vertices, Discover(v)
  PROVE  Inv'
<1>1. CASE DiscoverThrows(v) /\ Exception
  BY <1>1, SameInv DEF Exception
<1>2. CASE ~(DiscoverThrows(v) /\ Exception) /\ status' # "exited"
  BY <1>2, EnterInv DEF Discover
<1>3. CASE status' = "exited" /\ UNCHANGED <<request, path, ei, collected, reply>>
  BY <1>3, SameInv
<1>4. CASE status' = "exited" /\ ~UNCHANGED <<request, path, ei, collected, reply>>
  BY <1>1, <1>4 DEF Discover
<1> QED BY <1>1, <1>2, <1>3, <1>4

\* The highest of two sets of severities.
LEMMA HigherIsHighest ==
  ASSUME NEW S \in SUBSET Nat, NEW T \in SUBSET Nat, NEW x, NEW y,
         IsHighest(x, S), IsHighest(y, T)
  PROVE  IsHighest(IF y = NoSeverity THEN x ELSE Higher(x, y), S \cup T)
<1>1. CASE T = {}
  BY <1>1 DEF IsHighest
<1>2. CASE T # {}
  <2>1. y \in Nat /\ y \in T /\ y # NoSeverity /\ \A z \in T : z <= y
    <3>1. y \in T /\ \A z \in T : z <= y
      BY <1>2 DEF IsHighest
    <3>2. y \in Nat
      BY <3>1
    <3> QED BY <3>1, <3>2 DEF NoSeverity
  <2>2. CASE S = {}
    <3>1. x = NoSeverity /\ Higher(x, y) = y
      BY <2>1, <2>2 DEF IsHighest, NoSeverity, Higher
    <3> QED BY <1>2, <2>1, <2>2, <3>1 DEF IsHighest
  <2>3. CASE S # {}
    <3>1. x \in Nat /\ x \in S /\ \A z \in S : z <= x
      BY <2>3 DEF IsHighest
    <3>2. Higher(x, y) \in S \cup T /\ \A z \in S \cup T : z <= Higher(x, y)
      BY <2>1, <3>1 DEF Higher
    <3> QED BY <1>2, <2>1, <3>2 DEF IsHighest
  <2> QED BY <2>2, <2>3
<1> QED BY <1>1, <1>2

LEMMA SeveritiesAreNumbers ==
  ASSUME Typed, NEW E \in SUBSET Vertices
  PROVE  SeveritiesOf(E) \subseteq Nat
<1>1. \A e \in E : props[e].severity \in Nat \cup {NoSeverity}
  BY ShapeAssumption DEF Typed
<1> QED BY <1>1 DEF SeveritiesOf

\* What finish_edge passes on from the target is what decides about the target.
LEMMA PassedOn ==
  ASSUME Inv, path # <<>>, Pending = {}, NEW t, t = path[1]
  PROVE  /\ IsHighest(IF Element(t) THEN props[t].severity ELSE node_severity[t],
                      SeveritiesOf(Deciding(t)))
         /\ (IF Element(t) THEN props[t].issuppressed ELSE t \in suppressed_nodes) <=>
               \E e \in Deciding(t) : props[e].issuppressed
<1>0. /\ Typed /\ VisitOK /\ OnlyVisited /\ SuppressedOK /\ SeverityOK
      /\ t \in Visited /\ t \in Below(start) /\ Children(t) \cap Visited \subseteq Finished
  BY FrontFacts, VisitedFacts DEF Inv, Typed, Entered
<1>1. CASE Element(t)
  <2>1. Deciding(t) = {t}
    BY <1>0, <1>1, ElementDecides
  <2>2. SeveritiesOf({t}) = {props[t].severity} \ {NoSeverity}
    BY DEF SeveritiesOf
  <2>3. t \in Vertices /\ SeveritiesOf({t}) \subseteq Nat
    BY <1>0, VisitedFacts, SeveritiesAreNumbers
  <2>4. IsHighest(props[t].severity, SeveritiesOf({t}))
    <3>1. CASE props[t].severity = NoSeverity
      BY <2>2, <3>1 DEF IsHighest
    <3>2. CASE props[t].severity # NoSeverity
      <4>1. SeveritiesOf({t}) = {props[t].severity}
        BY <2>2, <3>2
      <4>2. props[t].severity \in Nat
        BY <2>3, <4>1
      <4>3. \A y \in {props[t].severity} : y <= props[t].severity
        BY <4>2
      <4> QED BY <4>1, <4>3 DEF IsHighest
    <3> QED BY <3>1, <3>2
  <2> QED BY <1>1, <2>1, <2>4
<1>2. CASE ~Element(t)
  <2>1. Gathered(t) = Deciding(t)
    BY <1>0, <1>2, AllGathered
  <2> QED BY <1>0, <1>2, <2>1 DEF SuppressedOK, SeverityOK
<1> QED BY <1>1, <1>2

\* finish_vertex and finish_edge.
LEMMA FinishEdgeInv ==
  ASSUME Inv, status = "visiting", Len(path) > 1, FinishEdge(path[2], path[1])
  PROVE  Inv'
<1> DEFINE s == path[2]
           t == path[1]
           new == IF Element(t) THEN props[t].severity ELSE node_severity[t]
<1>0. /\ UNCHANGED <<parent, props, start, filter, valid_nodes, valid_models, status, reply>>
      /\ Leave /\ path # <<>> /\ Pending = {}
      /\ data_access_level' = AccessLevels(s, t)
      /\ suppressed_nodes' = suppressed_nodes \cup Suppressed(s, t)
      /\ node_severity' = Severities(s, t)
  BY DEF FinishEdge, request, tree, Leave
<1>1. /\ Typed /\ VisitOK /\ OnlyVisited /\ ValidOK /\ ModelsOK /\ LevelsOK
      /\ SuppressedOK /\ SeverityOK
  BY DEF Inv, Typed
<1>2. /\ Ancestors' = Ancestors /\ Visited' = Visited
      /\ \A u : /\ Children(u)' = Children(u) /\ Below(u)' = Below(u)
                /\ Element(u)' = Element(u) /\ Accepted(u)' = Accepted(u)
                /\ Deciding(u)' = Deciding(u)
  BY <1>0, SameQuery
<1>3. Below(start)' = Below(start) /\ Accepted(start)' = Accepted(start)
      /\ Children(start)' = Children(start)
  BY <1>0, <1>2 DEF Below, Accepted, Children, Element
<1>4. /\ VisitOK' /\ OnlyVisited' /\ ToVisit' = ToVisit /\ Entered' = Entered
      /\ OnPath' = OnPath \ {t}
      /\ \A u : Gathered(u)' = Gathered(u) \cup IF t \in Children(u) THEN Deciding(t) ELSE {}
  BY <1>0, <1>1, LeavePlace
<1>5. /\ s \in Vertices /\ t \in Vertices /\ parent[t] = s /\ s # t /\ s \in OnPath
      /\ t \in Entered /\ \A u : t \in Children(u) <=> u = s
  <2>1. /\ path \in Seq(Vertices) /\ Len(path) \in Nat /\ 1 \in 1..Len(path) /\ 2 \in 1..Len(path)
        /\ 1 \in 1..(Len(path) - 1) /\ 1 + 1 = 2
    BY <1>1 DEF VisitOK
  <2>2. s \in Vertices /\ t \in Vertices /\ parent[t] = s /\ s \in OnPath
    BY <1>1, <2>1 DEF VisitOK, PathIsChain, OnPath
  <2>3. s < t
    BY <1>1, <2>2, ParentFacts DEF VisitOK
  <2>4. t \in Entered
    BY <1>0, <1>1, FrontFacts
  <2> QED BY <2>2, <2>3, <2>4, VertexAssumption DEF Children, Vertices
<1>6. /\ IsHighest(new, SeveritiesOf(Deciding(t)))
      /\ (IF Element(t) THEN props[t].issuppressed ELSE t \in suppressed_nodes) <=>
            \E e \in Deciding(t) : props[e].issuppressed
  BY <1>0, PassedOn
<1>7. new \in Nat \cup {NoSeverity}
  BY <1>1, <1>5, ShapeAssumption DEF Typed
<1> HIDE DEF s, t, new
<1>8. node_severity' = IF new = NoSeverity THEN node_severity
                       ELSE [node_severity EXCEPT ![t] = new, ![s] = Higher(@, new)]
  BY <1>0 DEF Severities, new
<1>9. /\ node_severity' \in [Vertices -> Nat \cup {NoSeverity}]
      /\ node_severity'[s] = IF new = NoSeverity THEN node_severity[s]
                             ELSE Higher(node_severity[s], new)
      /\ \A u \in Vertices : u # s /\ (u = t => ~Element(t)) => node_severity'[u] = node_severity[u]
  <2>1. node_severity \in [Vertices -> Nat \cup {NoSeverity}]
    BY <1>1 DEF Typed
  <2>2. CASE new = NoSeverity
    BY <1>5, <1>8, <2>1, <2>2
  <2>3. CASE new # NoSeverity
    <3>1. /\ node_severity' \in [Vertices -> Nat \cup {NoSeverity}]
          /\ node_severity'[s] = Higher(node_severity[s], new)
          /\ node_severity'[t] = new
          /\ \A u \in Vertices : u # s /\ u # t => node_severity'[u] = node_severity[u]
      BY <1>5, <1>7, <1>8, <2>1, <2>3 DEF Higher
    <3>2. ~Element(t) => new = node_severity[t]
      BY DEF new
    <3> QED BY <2>3, <3>1, <3>2
  <2> QED BY <2>2, <2>3
<1>10. SeverityOK'
  <2>1. SUFFICES ASSUME NEW u \in Below(start), ~Element(u)
                 PROVE  IsHighest(node_severity'[u], SeveritiesOf(Gathered(u)'))
    <3>1. \A u : SeveritiesOf(Gathered(u))' = SeveritiesOf(Gathered(u)')
      BY <1>0 DEF SeveritiesOf
    <3> QED BY <1>2, <1>3, <2>1, <3>1 DEF SeverityOK, IsHighest
  <2>2. u \in Vertices /\ IsHighest(node_severity[u], SeveritiesOf(Gathered(u)))
    BY <1>1, <2>1 DEF SeverityOK, Below
  <2>3. CASE u = s
    <3>1. Gathered(u)' = Gathered(u) \cup Deciding(t)
      BY <1>4, <1>5, <2>3
    <3>2. SeveritiesOf(Gathered(u)') = SeveritiesOf(Gathered(u)) \cup SeveritiesOf(Deciding(t))
      BY <3>1 DEF SeveritiesOf
    <3>3. Gathered(u) \subseteq Vertices /\ Deciding(t) \subseteq Vertices
      BY <1>1, VisitedFacts DEF Gathered, Deciding
    <3>4. SeveritiesOf(Gathered(u)) \subseteq Nat /\ SeveritiesOf(Deciding(t)) \subseteq Nat
      BY <1>1, <3>3, SeveritiesAreNumbers
    <3>5. IsHighest(IF new = NoSeverity THEN node_severity[u] ELSE Higher(node_severity[u], new),
                    SeveritiesOf(Gathered(u)) \cup SeveritiesOf(Deciding(t)))
      BY <1>6, <2>2, <3>4, HigherIsHighest
    <3> QED BY <1>9, <2>3, <3>2, <3>5
  <2>4. CASE u # s
    <3>1. Gathered(u)' = Gathered(u)
      BY <1>4, <1>5, <2>4
    <3>2. node_severity'[u] = node_severity[u]
      BY <1>9, <2>1, <2>2, <2>4
    <3> QED BY <2>2, <3>1, <3>2
  <2> QED BY <2>3, <2>4
<1>11. SuppressedOK' /\ suppressed_nodes' \subseteq Vertices
  <2>1. suppressed_nodes' = suppressed_nodes \cup
            (IF Element(t) THEN IF props[t].issuppressed THEN {s, t} ELSE {}
             ELSE IF t \in suppressed_nodes THEN {s} ELSE {})
    BY <1>0 DEF Suppressed
  <2>2. suppressed_nodes' \subseteq Vertices
    BY <1>1, <1>5, <2>1 DEF Typed
  <2>3. ASSUME NEW u \in Below(start), ~Element(u)
        PROVE  u \in suppressed_nodes' <=> \E e \in Gathered(u)' : props[e].issuppressed
    <3>1. u \in suppressed_nodes <=> \E e \in Gathered(u) : props[e].issuppressed
      BY <1>1, <2>3 DEF SuppressedOK
    <3>2. CASE u = s
      <4>1. u \in suppressed_nodes' <=>
                \/ u \in suppressed_nodes
                \/ IF Element(t) THEN props[t].issuppressed ELSE t \in suppressed_nodes
        BY <2>1, <3>2
      <4>2. Gathered(u)' = Gathered(u) \cup Deciding(t)
        BY <1>4, <1>5, <3>2
      <4> QED BY <1>6, <3>1, <4>1, <4>2
    <3>3. CASE u # s
      <4>1. u \in suppressed_nodes' <=> u \in suppressed_nodes
        BY <2>1, <2>3, <3>3
      <4>2. Gathered(u)' = Gathered(u)
        BY <1>4, <1>5, <3>3
      <4> QED BY <3>1, <4>1, <4>2
    <3> QED BY <3>2, <3>3
  <2> QED BY <1>0, <1>2, <1>3, <2>2, <2>3 DEF SuppressedOK
<1>12. LevelsOK' /\ data_access_level' = [u \in Vertices |-> data_access_level'[u]]
  <2>1. data_access_level[s] = Absent
    BY <1>1, <1>5 DEF LevelsOK
  <2>2. data_access_level' =
            IF props[t].dataaccesslevel = Absent THEN data_access_level
            ELSE [data_access_level EXCEPT ![t] = props[t].dataaccesslevel]
    BY <1>0, <2>1 DEF AccessLevels
  <2>3. data_access_level = [u \in Vertices |-> data_access_level[u]]
    BY <1>1 DEF Typed
  <2>4. /\ data_access_level' = [u \in Vertices |-> data_access_level'[u]]
        /\ data_access_level'[t] = IF props[t].dataaccesslevel = Absent THEN data_access_level[t]
                                   ELSE props[t].dataaccesslevel
        /\ \A u \in Vertices : u # t => data_access_level'[u] = data_access_level[u]
    BY <1>5, <2>2, <2>3
  <2>5. t \notin OnPath' /\ t \notin ToVisit'
    BY <1>4, <1>5 DEF Entered
  <2>6. ASSUME NEW u \in Vertices, data_access_level'[u] # Absent
        PROVE  data_access_level'[u] = props[u].dataaccesslevel /\ u \notin OnPath' /\ u \notin ToVisit'
    <3>1. CASE u = t /\ props[t].dataaccesslevel # Absent
      BY <2>4, <2>5, <3>1
    <3>2. CASE ~(u = t /\ props[t].dataaccesslevel # Absent)
      <4>1. data_access_level'[u] = data_access_level[u]
        BY <2>4, <3>2
      <4> QED BY <1>1, <1>4, <2>6, <4>1 DEF LevelsOK
    <3> QED BY <3>1, <3>2
  <2> QED BY <1>0, <2>4, <2>6 DEF LevelsOK
<1>13. Typed'
  BY <1>0, <1>1, <1>4, <1>9, <1>11, <1>12 DEF Typed
<1>14. ValidOK'
  BY <1>0, <1>1, <1>2, <1>3, <1>4 DEF ValidOK
<1>15. ModelsOK'
  BY <1>0, <1>1, <1>2, <1>3, <1>4 DEF ModelsOK
<1>16. status' = "visiting"
  BY <1>0
<1>17. Replied'
  BY <1>16 DEF Replied, ReplyIsFiltered, SeverityIsHighest, SuppressedIffAny, LevelIsOwn
<1> QED BY <1>4, <1>10, <1>11, <1>12, <1>13, <1>14, <1>15, <1>16, <1>17 DEF Inv

LEMMA FinishInv ==
  ASSUME Inv, Finish
  PROVE  Inv'
<1>1. CASE Exception
  BY <1>1, SameInv DEF Exception
<1>2. CASE ~Exception
  BY <1>2, FinishEdgeInv DEF Finish
<1> QED BY <1>1, <1>2

-----------------------------------------------------------------------------
(* The reply.                                                              *)

\* The whole tree below the start has been visited, and the reply is made of what has
\* been collected.
LEMMA ReplyHolds ==
  ASSUME Typed, ValidOK, ModelsOK, LevelsOK, SuppressedOK, SeverityOK,
         path = <<>>, ToVisit = {},
         reply = [c \in Children(start) \cap valid_nodes |->
            [model_ids       |-> {m \in Vertices : <<c, m>> \in valid_models},
             issuppressed    |-> c \in suppressed_nodes,
             severity        |-> IF node_severity[c] = NoSeverity
                                 THEN props[c].severity ELSE node_severity[c],
             dataaccesslevel |-> IF data_access_level[c] = Absent
                                 THEN props[c].dataaccesslevel ELSE data_access_level[c]]]
  PROVE  Replied
<1>0. IsTree(parent) /\ start \in Vertices /\ VisitOK
  BY DEF Typed, VisitOK
<1>1. Entered = Visited /\ Finished = Visited
  BY DEF Entered, Finished, OnPath
<1>2. DOMAIN reply = Children(start) \cap valid_nodes
  OBVIOUS
<1>3. \A c \in DOMAIN reply :
         /\ reply[c].model_ids = {m \in Vertices : <<c, m>> \in valid_models}
         /\ reply[c].issuppressed <=> c \in suppressed_nodes
         /\ reply[c].severity = IF node_severity[c] = NoSeverity
                                THEN props[c].severity ELSE node_severity[c]
         /\ reply[c].dataaccesslevel = IF data_access_level[c] = Absent
                                       THEN props[c].dataaccesslevel ELSE data_access_level[c]
  OBVIOUS
<1>4. \A c \in Children(start) : c \in Vertices /\ c \in Below(start) /\ parent[c] = start
  BY <1>0, ChildFacts, AncestorsStep DEF Below
<1>5. ReplyIsFiltered
  <2>1. SUFFICES ASSUME ~Accepted(start)
                 PROVE  LET passing(c) == {e \in Visited \cap Below(c) : Accepted(e)} IN
                        /\ DOMAIN reply = {c \in Children(start) : passing(c) # {}}
                        /\ \A c \in DOMAIN reply : reply[c].model_ids = {parent[e] : e \in passing(c)}
    BY DEF ReplyIsFiltered
  <2> DEFINE passing(c) == {e \in Visited \cap Below(c) : Accepted(e)}
  <2>2. \A c \in Vertices : \A e : e \in passing(c) <=>
            e \in Visited /\ c \in Ancestors[e] /\ Accepted(e)
    BY <1>0, VisitedFacts DEF Below
  <2> HIDE DEF passing
  <2>3. DOMAIN reply = {c \in Children(start) : passing(c) # {}}
    BY <1>1, <1>2, <1>4, <2>2 DEF ValidOK
  <2>4. ASSUME NEW c \in DOMAIN reply
        PROVE  reply[c].model_ids = {parent[e] : e \in passing(c)}
    <3>1. c \in Children(start) /\ c \in Vertices /\ parent[c] = start
      BY <1>2, <1>4
    <3>2. \A m \in Vertices : <<c, m>> \in valid_models <=>
              \E e \in Visited : Accepted(e) /\ c \in Ancestors[e] /\ m = parent[e]
      BY <1>1, <2>1, <3>1 DEF ModelsOK
    <3>3. ASSUME NEW e \in passing(c) PROVE parent[e] \in Vertices
      <4>1. e \in Vertices /\ c \in Ancestors[e]
        BY <1>0, <2>2, <3>1, VisitedFacts
      <4>2. parent[e] # 0
        <5>1. SUFFICES ASSUME parent[e] = 0 PROVE FALSE
          OBVIOUS
        <5>2. c = e
          BY <1>0, <4>1, <5>1, AncestorsStep
        <5> QED BY <1>0, <3>1, <5>1, <5>2, VertexAssumption DEF Vertices
      <4> QED BY <1>0, <4>1, <4>2, ParentFacts
    <3>4. {m \in Vertices : <<c, m>> \in valid_models} = {parent[e] : e \in passing(c)}
      BY <2>2, <3>1, <3>2, <3>3
    <3> QED BY <1>3, <3>4
  <2> QED BY <2>3, <2>4 DEF passing
<1>6. ASSUME NEW c \in DOMAIN reply, ~Element(c)
      PROVE  Gathered(c) = Deciding(c) /\ c \in Below(start)
  <2>1. c \in Below(start)
    BY <1>2, <1>4
  <2>2. Children(c) \cap Visited \subseteq Finished
    BY <1>1
  <2> QED BY <1>0, <1>6, <2>1, <2>2, AllGathered
<1>7. SeverityIsHighest
  <2>1. ASSUME NEW c \in DOMAIN reply, ~Element(c), SeveritiesOf(Deciding(c)) # {}
        PROVE  /\ reply[c].severity \in SeveritiesOf(Deciding(c))
               /\ \A x \in SeveritiesOf(Deciding(c)) : x <= reply[c].severity
    <3>1. IsHighest(node_severity[c], SeveritiesOf(Deciding(c)))
      BY <1>6, <2>1 DEF SeverityOK
    <3>2. node_severity[c] \in SeveritiesOf(Deciding(c)) /\ node_severity[c] # NoSeverity
      BY <2>1, <3>1 DEF IsHighest, SeveritiesOf
    <3>3. reply[c].severity = node_severity[c]
      BY <1>3, <3>2
    <3> QED BY <2>1, <3>1, <3>2, <3>3 DEF IsHighest
  <2> QED BY <2>1 DEF SeverityIsHighest, SeveritiesOf
<1>8. SuppressedIffAny
  BY <1>3, <1>6 DEF SuppressedIffAny, SuppressedOK
<1>9. LevelIsOwn
  BY <1>2, <1>3, <1>4 DEF LevelIsOwn, LevelsOK
<1> QED BY <1>5, <1>7, <1>8, <1>9 DEF Replied

\* The end of depth_first_visit, and the loop that makes the reply.
LEMMA ReplyInv ==
  ASSUME Inv, Reply
  PROVE  Inv'
<1>0. /\ UNCHANGED <<parent, props, start, filter, valid_nodes, valid_models,
                     suppressed_nodes, node_severity, data_access_level>>
      /\ Leave /\ Len(path) = 1 /\ status' = "replied"
  BY DEF Reply, request, tree, collected
<1>1. /\ Typed /\ VisitOK /\ OnlyVisited /\ ValidOK /\ ModelsOK /\ LevelsOK
      /\ SuppressedOK /\ SeverityOK
  BY DEF Inv, Typed
<1>2. /\ Ancestors' = Ancestors /\ Visited' = Visited
      /\ \A u : /\ Children(u)' = Children(u) /\ Below(u)' = Below(u)
                /\ Element(u)' = Element(u) /\ Accepted(u)' = Accepted(u)
                /\ Deciding(u)' = Deciding(u)
  BY <1>0, SameQuery
<1>3. Below(start)' = Below(start) /\ Accepted(start)' = Accepted(start)
      /\ Children(start)' = Children(start)
  BY <1>0, <1>2 DEF Below, Accepted, Children, Element
<1>4. /\ VisitOK' /\ OnlyVisited' /\ ToVisit' = ToVisit /\ Entered' = Entered
      /\ OnPath' = OnPath \ {path[1]}
      /\ \A u : Gathered(u)' =
            Gathered(u) \cup IF path[1] \in Children(u) THEN Deciding(path[1]) ELSE {}
  BY <1>0, <1>1, LeavePlace
<1>5. path[1] = start
  <2>1. path # <<>>
    BY <1>0 DEF Leave
  <2> QED BY <1>0, <1>1, <2>1 DEF VisitOK, PathIsChain
<1>6. ASSUME NEW u \in Below(start) PROVE Gathered(u)' = Gathered(u)
  <2>1. IsTree(parent) /\ start \in Vertices /\ u \in Vertices /\ start \in Ancestors[u]
    BY <1>1 DEF VisitOK, Below
  <2>2. start <= u /\ parent[start] < start /\ start \in Nat /\ u \in Nat
    BY <2>1, AncestorsOlder, ParentFacts
  <2>3. start \notin Children(u)
    BY <2>1, <2>2 DEF Children
  <2> QED BY <1>4, <1>5, <2>3
<1>7. path' = <<>> /\ ToVisit' = {}
  <2>1. Len(path') = 0 /\ path' \in Seq(Vertices)
    BY <1>0, <1>1, <1>4, LeaveToVisit DEF VisitOK
  <2>2. path' = <<>>
    BY <2>1
  <2> QED BY <1>0, <1>1, <1>4, <2>2, LeaveToVisit
<1>8. Typed'
  BY <1>0, <1>1, <1>4 DEF Typed
<1>9. ValidOK'
  BY <1>0, <1>1, <1>2, <1>3, <1>4 DEF ValidOK
<1>10. ModelsOK'
  BY <1>0, <1>1, <1>2, <1>3, <1>4 DEF ModelsOK
<1>11. LevelsOK'
  BY <1>0, <1>1, <1>4 DEF LevelsOK
<1>12. SuppressedOK'
  BY <1>0, <1>1, <1>2, <1>3, <1>6 DEF SuppressedOK
<1>13. SeverityOK'
  <2>1. \A u \in Below(start) : SeveritiesOf(Gathered(u))' = SeveritiesOf(Gathered(u))
    BY <1>0, <1>6 DEF SeveritiesOf
  <2> QED BY <1>0, <1>1, <1>2, <1>3, <2>1 DEF SeverityOK, IsHighest
<1>14. (reply = [c \in Children(start) \cap valid_nodes |->
            [model_ids       |-> {m \in Vertices : <<c, m>> \in valid_models},
             issuppressed    |-> c \in suppressed_nodes,
             severity        |-> IF node_severity[c] = NoSeverity
                                 THEN props[c].severity ELSE node_severity[c],
             dataaccesslevel |-> IF data_access_level[c] = Absent
                                 THEN props[c].dataaccesslevel ELSE data_access_level[c]]])'
  BY <1>0, <1>3 DEF Reply
<1>15. (path = <<>>)' /\ (ToVisit = {})'
  BY <1>7
<1>16. Replied'
  BY <1>8, <1>9, <1>10, <1>11, <1>12, <1>13, <1>14, <1>15, ReplyHolds, PTL
<1> QED BY <1>0, <1>4, <1>8, <1>9, <1>10, <1>11, <1>12, <1>13, <1>16 DEF Inv

-----------------------------------------------------------------------------
(* The theorems.                                                           *)

\* The inductive invariant holds: one step per action.
LEMMA Invariant == Spec => []Inv
<1>1. Init => Inv
  BY InitInv
<1>2. Inv /\ [Next]_vars => Inv'
  <2> SUFFICES ASSUME Inv, [Next]_vars PROVE Inv'
    OBVIOUS
  <2>1. CASE UNCHANGED vars
    BY <2>1, SameInv DEF vars
  <2>2. ASSUME NEW v \in Vertices, NEW f \in Filters, Request(v, f) PROVE Inv'
    BY <2>2, RequestInv
  <2>3. ASSUME NEW v \in Vertices, Discover(v) PROVE Inv'
    BY <2>3, DiscoverInv
  <2>4. CASE Finish
    BY <2>4, FinishInv
  <2>5. CASE Reply
    BY <2>5, ReplyInv
  <2>6. CASE Sent
    BY <2>6, SentInv
  <2> QED BY <2>1, <2>2, <2>3, <2>4, <2>5, <2>6 DEF Next
<1> QED BY <1>1, <1>2, PTL DEF Spec

\* The state of a query keeps its types, and the path is always a chain of edges.
THEOREM NodesTypeCorrect == Spec => []TypeOK
<1>1. Inv => TypeOK
  BY DEF Inv, Typed, VisitOK, TypeOK, NoSeverity
<1> QED BY <1>1, Invariant, PTL

\* At every point of the traversal, what is above a valid vertex is valid: that the loop
\* over the path breaks at the first valid vertex loses none.
THEOREM ValidIsClosed == Spec => []ValidUpwards
<1>1. Inv => ValidUpwards
  <2> SUFFICES ASSUME Inv, NEW v \in valid_nodes, v # start PROVE parent[v] \in valid_nodes
    BY DEF ValidUpwards
  <2>0. VisitOK /\ ValidOK /\ IsTree(parent) /\ start \in Vertices
    BY DEF Inv, Typed, VisitOK
  <2>1. v \in Vertices /\ start \in Ancestors[v]
    BY <2>0 DEF ValidOK, Below
  <2>2. PICK e \in Entered : Accepted(e) /\ v \in Ancestors[e]
    BY <2>0 DEF ValidOK
  <2>3. parent[v] \in Vertices /\ Ancestors[v] = {v} \cup Ancestors[parent[v]]
    BY <2>0, <2>1, AncestorsStep
  <2>4. start \in Ancestors[parent[v]] /\ parent[v] \in Ancestors[v]
    BY <2>0, <2>1, <2>3, AncestorsStep
  <2>5. e \in Vertices
    BY <2>0, VisitedFacts DEF Entered
  <2>6. parent[v] \in Ancestors[e]
    BY <2>0, <2>2, <2>4, <2>5, AncestorsTransitive
  <2> QED BY <2>0, <2>2, <2>3, <2>4, <2>6 DEF ValidOK, Below
<1> QED BY <1>1, Invariant, PTL

\* A query returns the children with an element that passes every filter, and the models
\* of those elements: no more, and no less.
THEOREM QueryIsFiltered == Spec => []ReplyIsFiltered
<1>1. Inv => ReplyIsFiltered
  BY DEF Inv, Replied
<1> QED BY <1>1, Invariant, PTL

\* The severity returned is the highest below, whatever the order of the traversal.
THEOREM SeverityIsOfTheWorst == Spec => []SeverityIsHighest
<1>1. Inv => SeverityIsHighest
  BY DEF Inv, Replied
<1> QED BY <1>1, Invariant, PTL

\* A vertex is returned as suppressed if and only if something below it is.
THEOREM SuppressionReachesTheTop == Spec => []SuppressedIffAny
<1>1. Inv => SuppressedIffAny
  BY DEF Inv, Replied
<1> QED BY <1>1, Invariant, PTL

\* No access level is returned for a vertex that is that of a sibling or of a vertex
\* below: what finish_edge records for a vertex is its own level.
THEOREM AccessLevelsDoNotRise == Spec => []NoLevelFromBelow
<1>1. Inv => NoLevelFromBelow
  BY DEF Inv, Replied, LevelIsOwn, NoLevelFromBelow
<1> QED BY <1>1, Invariant, PTL
=============================================================================
