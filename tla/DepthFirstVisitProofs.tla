------------------------ MODULE DepthFirstVisitProofs ------------------------
(***************************************************************************)
(* What holds of a traversal with any visitor, on a tree of any size: the  *)
(* order of the tree, the path, and what is left to visit.                 *)
(***************************************************************************)
EXTENDS DepthFirstVisit, TLAPS, WellFoundedInduction

-----------------------------------------------------------------------------
(* Induction, as the absence of a least counterexample.                    *)

Less == {p \in Nat \X Nat : p[1] < p[2]}

\* A set of natural numbers that is not empty has a least element.
LEMMA LeastNumber ==
  ASSUME NEW T \in SUBSET Nat, T # {}
  PROVE  \E x \in T : \A y \in T : x <= y
<1>1. IsWellFoundedOn(Less, Nat)
  <2>1. OpToRel(<, Nat) = Less
    BY DEF OpToRel, Less
  <2> QED BY <2>1, NatLessThanWellFounded, Zenon
<1>2. \E x \in T : \A y \in T : ~(<<y, x>> \in Less)
  BY <1>1, WFMin
<1>3. \A x, y \in Nat : y < x => <<y, x>> \in Less
  BY DEF Less
<1>4. \A x \in T, y \in T : x \in Nat /\ y \in Nat
  OBVIOUS
<1>5. \A x, y \in Nat : ~(y < x) => x <= y
  OBVIOUS
<1> QED BY <1>2, <1>3, <1>4, <1>5, Zenon

\* To show that all vertices are in a set, it is enough that a vertex is if all
\* older ones are.
LEMMA VertexInduction ==
  ASSUME NEW S, \A v \in Vertices : (\A u \in Vertices : u < v => u \in S) => v \in S
  PROVE  Vertices \subseteq S
<1> SUFFICES ASSUME Vertices \ S # {} PROVE FALSE
  OBVIOUS
<1>1. Vertices \ S \in SUBSET Nat
  BY VertexAssumption DEF Vertices
<1>2. PICK v \in Vertices \ S : \A u \in Vertices \ S : v <= u
  BY <1>1, LeastNumber
<1>3. \A u \in Vertices : u < v => u \in S
  BY <1>1, <1>2 DEF Vertices
<1> QED BY <1>2, <1>3

-----------------------------------------------------------------------------
(* Ancestors.                                                              *)

\* What Ancestors is defined by, for a function g in its place.
Up(g, v) == IF parent[v] = 0 THEN {v} ELSE {v} \cup g[parent[v]]

\* A parent is an older vertex.
LEMMA ParentFacts ==
  ASSUME IsTree(parent), NEW v \in Vertices
  PROVE  /\ v \in Nat /\ v >= 1 /\ v <= N /\ N \in Nat
         /\ parent[v] \in 0..N /\ parent[v] < v
         /\ parent[v] # 0 => parent[v] \in Vertices
BY VertexAssumption DEF IsTree, Vertices

\* There is such a function on the first n vertices.
LEMMA AncestorsUpTo ==
  ASSUME IsTree(parent), NEW n \in 0..N
  PROVE  \E f \in [1..n -> SUBSET Vertices] : \A v \in 1..n : f[v] = Up(f, v)
<1> DEFINE Good(k) == \E f \in [1..k -> SUBSET Vertices] : \A v \in 1..k : f[v] = Up(f, v)
           Bad == {k \in 0..N : ~Good(k)}
<1> SUFFICES ASSUME Bad # {} PROVE FALSE
  OBVIOUS
<1>1. N \in Nat /\ Bad \in SUBSET Nat
  BY VertexAssumption
<1>2. PICK x \in Bad : \A y \in Bad : x <= y
  BY <1>1, LeastNumber
<1>3. x \in 0..N /\ ~Good(x)
  BY <1>2
<1>4. x # 0
  <2>1. [v \in 1..0 |-> {}] \in [1..0 -> SUBSET Vertices]
    OBVIOUS
  <2>2. \A v \in 1..0 : FALSE
    OBVIOUS
  <2>3. Good(0)
    BY <2>1, <2>2
  <2> QED BY <1>3, <2>3
<1>5. x - 1 \in 0..N /\ ~(x <= x - 1)
  <2>1. x \in 0..N
    BY <1>3
  <2> QED BY <2>1, <1>1, <1>4
<1>6. Good(x - 1)
  <2>1. x - 1 \notin Bad
    BY <1>2, <1>5, Zenon
  <2> QED BY <1>5, <2>1
<1>7. PICK f \in [1..(x - 1) -> SUBSET Vertices] : \A v \in 1..(x - 1) : f[v] = Up(f, v)
  BY <1>6
<1> DEFINE g == [v \in 1..x |-> IF v = x THEN Up(f, x) ELSE f[v]]
<1>8. \A v \in 1..x : v \in Vertices /\ v \in Nat /\ (parent[v] # 0 => parent[v] \in 1..(x - 1))
  BY <1>1, <1>3, <1>4, ParentFacts DEF Vertices
<1>9. x \in 1..x /\ 1..x = (1..(x - 1)) \cup {x} /\ x \notin 1..(x - 1)
  BY <1>1, <1>3, <1>4
<1>10. \A v \in 1..(x - 1) : g[v] = f[v]
  BY <1>9
<1>11. g[x] = Up(f, x)
  BY <1>9
<1>12. \A v \in 1..x : Up(g, v) = Up(f, v)
  BY <1>8, <1>10 DEF Up
<1>13. \A v \in 1..x : g[v] = Up(g, v)
  BY <1>7, <1>9, <1>10, <1>11, <1>12
<1>14. Up(f, x) \in SUBSET Vertices
  BY <1>7, <1>8, <1>9 DEF Up
<1>15. g \in [1..x -> SUBSET Vertices]
  BY <1>7, <1>9, <1>14
<1>16. Good(x)
  BY <1>13, <1>15
<1> QED BY <1>3, <1>16

\* Ancestors satisfies its definition.
LEMMA AncestorsDef ==
  ASSUME IsTree(parent)
  PROVE  \A v \in Vertices : Ancestors[v] = Up(Ancestors, v)
<1>1. PICK f \in [1..N -> SUBSET Vertices] : \A v \in 1..N : f[v] = Up(f, v)
  BY AncestorsUpTo, VertexAssumption
<1>2. f = [v \in Vertices |-> IF parent[v] = 0 THEN {v} ELSE {v} \cup f[parent[v]]]
  BY <1>1 DEF Vertices, Up
<1>3. Ancestors = [v \in Vertices |-> IF parent[v] = 0 THEN {v} ELSE {v} \cup Ancestors[parent[v]]]
  BY <1>2, Zenon DEF Ancestors
<1> QED BY <1>3 DEF Up

\* A vertex, what is above it, and that these are its parent's.
LEMMA AncestorsStep ==
  ASSUME IsTree(parent), NEW v \in Vertices
  PROVE  /\ v \in Ancestors[v]
         /\ parent[v] = 0 => Ancestors[v] = {v}
         /\ parent[v] # 0 => parent[v] \in Vertices /\ Ancestors[v] = {v} \cup Ancestors[parent[v]]
BY AncestorsDef, ParentFacts DEF Up

\* The ancestors of a vertex are vertices, and no younger.
LEMMA AncestorsOlder ==
  ASSUME IsTree(parent)
  PROVE  \A v \in Vertices : \A a \in Ancestors[v] : a \in Vertices /\ a <= v
<1> DEFINE S == {v \in Vertices : \A a \in Ancestors[v] : a \in Vertices /\ a <= v}
<1>1. ASSUME NEW v \in Vertices, \A u \in Vertices : u < v => u \in S PROVE v \in S
  <2>1. v \in Nat /\ parent[v] \in Nat /\ parent[v] < v
    BY ParentFacts
  <2> SUFFICES ASSUME NEW a \in Ancestors[v], a # v PROVE a \in Vertices /\ a <= v
    BY <2>1
  <2>2. parent[v] \in Vertices /\ a \in Ancestors[parent[v]]
    BY AncestorsStep
  <2>3. a \in Vertices /\ a <= parent[v]
    BY <1>1, <2>1, <2>2
  <2>4. a \in Nat
    BY <2>3, ParentFacts
  <2> QED BY <2>1, <2>3, <2>4
<1> HIDE DEF S
<1>2. Vertices \subseteq S
  BY <1>1, VertexInduction
<1> QED BY <1>2 DEF S

\* What is above an ancestor is above the vertex.
LEMMA AncestorsTransitive ==
  ASSUME IsTree(parent)
  PROVE  \A v \in Vertices : \A a \in Ancestors[v] : Ancestors[a] \subseteq Ancestors[v]
<1> DEFINE S == {v \in Vertices : \A a \in Ancestors[v] : Ancestors[a] \subseteq Ancestors[v]}
<1>1. ASSUME NEW v \in Vertices, \A u \in Vertices : u < v => u \in S PROVE v \in S
  <2>1. parent[v] < v
    BY ParentFacts
  <2> SUFFICES ASSUME NEW a \in Ancestors[v], a # v PROVE Ancestors[a] \subseteq Ancestors[v]
    OBVIOUS
  <2>2. /\ parent[v] \in Vertices /\ a \in Ancestors[parent[v]]
        /\ Ancestors[parent[v]] \subseteq Ancestors[v]
    BY AncestorsStep
  <2> QED BY <1>1, <2>1, <2>2
<1> HIDE DEF S
<1>2. Vertices \subseteq S
  BY <1>1, VertexInduction
<1> QED BY <1>2 DEF S

\* Of two ancestors of a vertex, one is above the other.
LEMMA AncestorsLinear ==
  ASSUME IsTree(parent)
  PROVE  \A v \in Vertices : \A a, b \in Ancestors[v] : a \in Ancestors[b] \/ b \in Ancestors[a]
<1> DEFINE S == {v \in Vertices : \A a, b \in Ancestors[v] :
                                     a \in Ancestors[b] \/ b \in Ancestors[a]}
<1>1. ASSUME NEW v \in Vertices, \A u \in Vertices : u < v => u \in S PROVE v \in S
  <2>1. parent[v] < v
    BY ParentFacts
  <2> SUFFICES ASSUME NEW a \in Ancestors[v], NEW b \in Ancestors[v]
               PROVE  a \in Ancestors[b] \/ b \in Ancestors[a]
    OBVIOUS
  <2>2. CASE a # v /\ b # v
    <3>1. parent[v] \in Vertices /\ a \in Ancestors[parent[v]] /\ b \in Ancestors[parent[v]]
      BY <2>2, AncestorsStep
    <3> QED BY <1>1, <2>1, <3>1
  <2> QED BY <2>2
<1> HIDE DEF S
<1>2. Vertices \subseteq S
  BY <1>1, VertexInduction
<1> QED BY <1>2 DEF S

\* Below a vertex, but for itself, everything is below one of its children.
LEMMA BelowChild ==
  ASSUME IsTree(parent), NEW a \in Vertices
  PROVE  \A v \in Vertices : a \in Ancestors[v] /\ a # v =>
            \E c \in Children(a) : c \in Ancestors[v]
<1> DEFINE S == {v \in Vertices : a \in Ancestors[v] /\ a # v =>
                                     \E c \in Children(a) : c \in Ancestors[v]}
<1>1. ASSUME NEW v \in Vertices, \A u \in Vertices : u < v => u \in S PROVE v \in S
  <2>1. parent[v] < v /\ v \in Ancestors[v]
    BY ParentFacts, AncestorsStep
  <2> SUFFICES ASSUME a \in Ancestors[v], a # v
               PROVE  \E c \in Children(a) : c \in Ancestors[v]
    OBVIOUS
  <2>2. CASE parent[v] = a
    BY <2>1, <2>2 DEF Children
  <2>3. CASE parent[v] # a
    <3>1. /\ parent[v] \in Vertices /\ a \in Ancestors[parent[v]]
          /\ Ancestors[parent[v]] \subseteq Ancestors[v]
      BY AncestorsStep
    <3> QED BY <1>1, <2>1, <2>3, <3>1
  <2> QED BY <2>2, <2>3
<1> HIDE DEF S
<1>2. Vertices \subseteq S
  BY <1>1, VertexInduction
<1> QED BY <1>2 DEF S

\* A child is below its parent, and its other ancestors are its parent's.
LEMMA ChildFacts ==
  ASSUME IsTree(parent), NEW v \in Vertices, NEW c \in Children(v)
  PROVE  /\ c \in Vertices /\ parent[c] = v /\ v < c
         /\ Ancestors[c] = {c} \cup Ancestors[v] /\ c \notin Ancestors[v]
<1>1. c \in Vertices /\ parent[c] = v /\ v < c /\ v # 0 /\ v \in Nat /\ c \in Nat
  BY ParentFacts DEF Children
<1>2. Ancestors[c] = {c} \cup Ancestors[v]
  BY <1>1, AncestorsStep
<1>3. c \notin Ancestors[v]
  BY <1>1, AncestorsOlder
<1> QED BY <1>1, <1>2, <1>3

-----------------------------------------------------------------------------
(* The path.                                                               *)

VisitOK ==
    /\ IsTree(parent) /\ start \in Vertices
    /\ path \in Seq(Vertices) /\ ei \in 0..N
    /\ PathIsChain

\* A sequence with an element more in front, and with one less.
LEMMA Pushed ==
  ASSUME NEW S, NEW s \in Seq(S), NEW x \in S
  PROVE  /\ <<x>> \o s \in Seq(S) /\ <<x>> \o s # <<>>
         /\ Len(s) \in Nat
         /\ Len(<<x>> \o s) = Len(s) + 1
         /\ (<<x>> \o s)[1] = x
         /\ \A i \in 1..Len(s) : (<<x>> \o s)[i + 1] = s[i]
OBVIOUS

LEMMA Popped ==
  ASSUME NEW S, NEW s \in Seq(S), s # <<>>
  PROVE  /\ Tail(s) \in Seq(S) /\ Head(s) = s[1] /\ s[1] \in S
         /\ Len(s) \in Nat /\ Len(s) >= 1
         /\ Len(Tail(s)) = Len(s) - 1
         /\ \A i \in 1..(Len(s) - 1) : Tail(s)[i] = s[i + 1]
OBVIOUS

\* What is farther back on the path is above, and older.
LEMMA PathAbove ==
  ASSUME VisitOK, NEW i \in 1..Len(path), NEW j \in 1..Len(path), i <= j
  PROVE  path[j] \in Ancestors[path[i]]
<1> DEFINE Bad == {k \in i..Len(path) : path[k] \notin Ancestors[path[i]]}
<1>0. IsTree(parent) /\ path \in Seq(Vertices) /\ Len(path) \in Nat
  BY DEF VisitOK
<1>1. \A k \in 1..Len(path) : path[k] \in Vertices
  BY <1>0
<1> SUFFICES ASSUME Bad # {} PROVE FALSE
  BY <1>0
<1>2. Bad \in SUBSET Nat
  BY <1>0
<1> HIDE DEF Bad
<1>3. PICK x \in Bad : \A y \in Bad : x <= y
  BY <1>2, LeastNumber
<1>4. x \in i..Len(path) /\ path[x] \notin Ancestors[path[i]]
  BY <1>3 DEF Bad
<1>5. x # i
  BY <1>0, <1>1, <1>4, AncestorsStep
<1>6. x - 1 \in i..Len(path) /\ x - 1 \in 1..(Len(path) - 1) /\ x - 1 \in 1..Len(path) /\ ~(x <= x - 1)
  BY <1>0, <1>4, <1>5
<1>7. path[x - 1] \in Ancestors[path[i]]
  BY <1>3, <1>6 DEF Bad
<1>8. parent[path[x - 1]] = path[x]
  <2>1. parent[path[x - 1]] = path[(x - 1) + 1]
    BY <1>6 DEF VisitOK, PathIsChain
  <2> QED BY <1>0, <1>4, <2>1
<1>9. path[x] \in Ancestors[path[x - 1]]
  <2>1. path[x] \in Vertices /\ path[x - 1] \in Vertices
    BY <1>0, <1>1, <1>4, <1>6
  <2>2. path[x - 1] \in Children(path[x])
    BY <1>8, <2>1 DEF Children
  <2>3. path[x] \in Ancestors[path[x]]
    BY <1>0, <2>1, AncestorsStep
  <2> QED BY <1>0, <2>1, <2>2, <2>3, ChildFacts
<1>10. path[x - 1] \in Vertices /\ path[i] \in Vertices
  BY <1>1, <1>6
<1> QED BY <1>0, <1>4, <1>7, <1>9, <1>10, AncestorsTransitive

LEMMA PathOlder ==
  ASSUME VisitOK, NEW i \in 1..Len(path), NEW j \in 1..Len(path), i < j
  PROVE  path[j] < path[i]
<1>0. IsTree(parent) /\ path \in Seq(Vertices) /\ Len(path) \in Nat
  BY DEF VisitOK
<1>1. i \in 1..(Len(path) - 1) /\ i + 1 \in 1..Len(path) /\ i + 1 <= j
  BY <1>0
<1>2. path[i] \in Vertices /\ path[i + 1] \in Vertices /\ path[j] \in Vertices
  BY <1>0, <1>1
<1>3. path[i] \in Children(path[i + 1])
  BY <1>1, <1>2 DEF VisitOK, PathIsChain, Children
<1>4. path[i + 1] < path[i]
  BY <1>0, <1>2, <1>3, ChildFacts
<1>5. path[j] <= path[i + 1]
  BY <1>0, <1>1, <1>2, PathAbove, AncestorsOlder
<1>6. path[i] \in Nat /\ path[i + 1] \in Nat /\ path[j] \in Nat
  BY <1>2, VertexAssumption DEF Vertices
<1> QED BY <1>4, <1>5, <1>6

-----------------------------------------------------------------------------
(* What is left to visit.                                                  *)

\* The last child that the i-th vertex of the path has dealt with, or deals with.
Mark(i) == IF i = 1 THEN ei ELSE path[i - 1]

\* The children that the vertices of the path have yet to deal with, and everything
\* below them.
Roots ==
    IF path = <<>> THEN IF ei = 0 THEN {start} ELSE {}
    ELSE {c \in Vertices : \E i \in 1..Len(path) : parent[c] = path[i] /\ c > Mark(i)}
ToVisit == {u \in Vertices : \E c \in Roots : c \in Ancestors[u]}

\* Nothing on the path, or above it, is left to visit.
LEMMA RootNotAbove ==
  ASSUME VisitOK, path # <<>>, NEW c \in Roots
  PROVE  c \in Vertices /\ c \notin Ancestors[path[1]]
<1>0. IsTree(parent) /\ path \in Seq(Vertices) /\ Len(path) \in Nat /\ Len(path) >= 1
  BY Popped DEF VisitOK
<1>1. PICK i \in 1..Len(path) : parent[c] = path[i] /\ c > Mark(i)
  BY DEF Roots
<1>2. c \in Vertices /\ 1 \in 1..Len(path) /\ path[1] \in Vertices /\ path[i] \in Vertices
  BY <1>0 DEF Roots
<1>3. c \in Children(path[i])
  BY <1>1, <1>2 DEF Children
<1>4. CASE i = 1
  BY <1>0, <1>2, <1>3, <1>4, ChildFacts
<1>5. CASE i # 1
  <2>1. /\ i - 1 \in 1..Len(path) /\ i - 1 < i /\ 1 <= i - 1
        /\ path[i - 1] \in Vertices /\ c > path[i - 1]
    BY <1>0, <1>1, <1>5 DEF Mark
  <2> SUFFICES ASSUME c \in Ancestors[path[1]] PROVE FALSE
    BY <1>2
  <2>2. path[i - 1] \in Ancestors[path[1]]
    BY <1>2, <2>1, PathAbove
  <2>3. c \in Ancestors[path[i - 1]] \/ path[i - 1] \in Ancestors[c]
    BY <1>0, <1>2, <2>2, AncestorsLinear
  <2>4. c \in Nat /\ path[i - 1] \in Nat /\ path[i] \in Nat
    BY <1>2, <2>1, VertexAssumption DEF Vertices
  <2>5. c \notin Ancestors[path[i - 1]]
    BY <1>0, <2>1, <2>4, AncestorsOlder
  <2>6. path[i - 1] \in Ancestors[path[i]]
    BY <1>0, <1>2, <1>3, <2>1, <2>3, <2>4, <2>5, ChildFacts
  <2>7. path[i - 1] <= path[i]
    BY <1>0, <1>2, <2>6, AncestorsOlder
  <2>8. path[i] < path[i - 1]
    BY <2>1, PathOlder
  <2> QED BY <2>4, <2>7, <2>8
<1> QED BY <1>2, <1>4, <1>5

\* The vertex that is entered next is left to visit.
LEMMA ToEnterFacts ==
  ASSUME VisitOK, NEW v \in ToEnter
  PROVE  /\ v \in Vertices /\ v \in Roots /\ v \in ToVisit
         /\ path = <<>> => v = start /\ ei = 0 /\ Roots = {start}
         /\ path # <<>> =>
               /\ Len(path) \in Nat /\ Len(path) >= 1 /\ path[1] \in Vertices
               /\ v \in Children(path[1]) /\ v > ei
               /\ \A d \in Children(path[1]) : d > ei => v <= d
<1>0. IsTree(parent) /\ path \in Seq(Vertices) /\ start \in Vertices
  BY DEF VisitOK
<1>1. CASE path = <<>>
  <2>1. v = start /\ ei = 0 /\ Roots = {start}
    BY <1>1 DEF ToEnter, Roots
  <2> QED BY <1>0, <1>1, <2>1, AncestorsStep DEF ToVisit
<1>2. CASE path # <<>>
  <2>1. Head(path) = path[1] /\ Len(path) \in Nat /\ Len(path) >= 1 /\ path[1] \in Vertices
    BY <1>0, <1>2, Popped
  <2>2. /\ v \in Children(path[1]) /\ v > ei
        /\ \A d \in Children(path[1]) : d > ei => v <= d
    BY <1>2, <2>1 DEF ToEnter, Pending
  <2>3. v \in Vertices /\ v \in Roots
    BY <1>2, <2>1, <2>2 DEF Roots, Mark, Children
  <2> QED BY <1>0, <1>2, <2>1, <2>2, <2>3, AncestorsStep DEF ToVisit
<1> QED BY <1>1, <1>2

\* Entering a vertex keeps the path a chain; the vertex is no longer one of the
\* roots, and its children are, unless it is not to be searched.
LEMMA EnterRoots ==
  ASSUME VisitOK, NEW v \in ToEnter, NEW terminate \in BOOLEAN, Enter(v, terminate),
         UNCHANGED <<parent, start>>
  PROVE  /\ VisitOK' /\ path' # <<>> /\ path'[1] = v
         /\ Len(path') = Len(path) + 1
         /\ \A i \in 1..Len(path) : path'[i + 1] = path[i]
         /\ Roots' = (Roots \ {v}) \cup (IF terminate THEN {} ELSE Children(v))
<1>0. /\ IsTree(parent) /\ path \in Seq(Vertices) /\ start \in Vertices /\ Len(path) \in Nat
      /\ N \in Nat /\ ei \in 0..N
  BY VertexAssumption DEF VisitOK
<1>1. /\ v \in Vertices
      /\ path = <<>> => v = start /\ ei = 0 /\ Roots = {start}
      /\ path # <<>> => /\ Len(path) >= 1 /\ path[1] \in Vertices
                        /\ v \in Children(path[1]) /\ v > ei
                        /\ \A d \in Children(path[1]) : d > ei => v <= d
  BY ToEnterFacts
<1>2. path' = <<v>> \o path /\ ei' = IF terminate THEN N ELSE 0
  BY DEF Enter
<1>3. /\ path' \in Seq(Vertices) /\ path' # <<>> /\ Len(path') = Len(path) + 1
      /\ path'[1] = v /\ \A i \in 1..Len(path) : path'[i + 1] = path[i]
  BY <1>0, <1>1, <1>2, Pushed
<1>4. \A i \in 2..Len(path') : i - 1 \in 1..Len(path) /\ path'[i] = path[i - 1]
  <2>1. \A i \in 2..Len(path') : i - 1 \in 1..Len(path) /\ (i - 1) + 1 = i
    BY <1>0, <1>3
  <2> QED BY <1>3, <2>1
<1>5. PathIsChain'
  <2>1. ASSUME NEW i \in 1..(Len(path') - 1) PROVE parent'[path'[i]] = path'[i + 1]
    <3>1. CASE i = 1
      <4>1. path # <<>> /\ 1 \in 1..Len(path) /\ path'[2] = path[1]
        BY <1>0, <1>3, <2>1, <3>1
      <4> QED BY <1>1, <1>3, <3>1, <4>1 DEF Children
    <3>2. CASE i # 1
      <4>1. i - 1 \in 1..(Len(path) - 1) /\ i \in 1..Len(path) /\ i \in 2..Len(path')
            /\ (i - 1) + 1 = i
        BY <1>0, <1>3, <2>1, <3>2
      <4>2. parent[path[i - 1]] = path[i]
        BY <4>1 DEF VisitOK, PathIsChain
      <4> QED BY <1>3, <1>4, <4>1, <4>2
    <3> QED BY <3>1, <3>2
  <2>2. path'[Len(path')] = start'
    <3>1. CASE path = <<>>
      BY <1>1, <1>3, <3>1
    <3>2. CASE path # <<>>
      <4>1. Len(path) \in 1..Len(path) /\ path[Len(path)] = start
        BY <1>0, <1>1, <3>2 DEF VisitOK, PathIsChain
      <4> QED BY <1>3, <4>1
    <3> QED BY <3>1, <3>2
  <2> QED BY <2>1, <2>2 DEF PathIsChain
<1>6. VisitOK'
  <2>1. ei' \in 0..N
    BY <1>0, <1>2
  <2> QED BY <1>0, <1>3, <1>5, <2>1 DEF VisitOK, IsTree
<1>7. Roots' = (Roots \ {v}) \cup (IF terminate THEN {} ELSE Children(v))
  <2> DEFINE Farther(c) == \E j \in 2..Len(path) : parent[c] = path[j] /\ c > path[j - 1]
             new == IF terminate THEN {} ELSE Children(v)
  <2>1. \A c \in Vertices : c \in new <=> parent[c] = v /\ c > ei'
    <3>1. \A c \in Vertices : c \in Nat /\ c > 0 /\ ~(c > N)
      BY <1>0, ParentFacts
    <3> QED BY <1>2, <3>1 DEF Children
  <2>2. \A c \in Vertices : c \in Roots' <=>
           \/ c \in new
           \/ path # <<>> /\ parent[c] = path[1] /\ c > v
           \/ Farther(c)
    <3> SUFFICES ASSUME NEW c \in Vertices
                 PROVE  c \in Roots' <=> \/ c \in new
                                         \/ path # <<>> /\ parent[c] = path[1] /\ c > v
                                         \/ Farther(c)
      OBVIOUS
    <3>1. c \in Roots' <=> \E i \in 1..Len(path') :
                              parent[c] = path'[i] /\ c > IF i = 1 THEN ei' ELSE path'[i - 1]
      BY <1>3 DEF Roots, Mark
    <3> HIDE DEF new
    <3>2. ASSUME c \in Roots'
          PROVE  c \in new \/ (path # <<>> /\ parent[c] = path[1] /\ c > v) \/ Farther(c)
      <4>1. PICK i \in 1..Len(path') :
                 parent[c] = path'[i] /\ c > IF i = 1 THEN ei' ELSE path'[i - 1]
        BY <3>1, <3>2
      <4>2. CASE i = 1
        BY <1>3, <2>1, <4>1, <4>2
      <4>3. CASE i = 2
        BY <1>0, <1>3, <1>4, <4>1, <4>3
      <4>4. CASE i > 2
        <5>1. i \in 2..Len(path') /\ i - 1 \in 2..Len(path') /\ i - 1 \in 2..Len(path)
          BY <1>0, <1>3, <4>1, <4>4
        <5>2. path'[i] = path[i - 1] /\ path'[i - 1] = path[(i - 1) - 1]
          BY <1>4, <5>1
        <5>3. parent[c] = path[i - 1] /\ c > path[(i - 1) - 1]
          BY <4>1, <4>4, <5>2
        <5> QED BY <5>1, <5>3
      <4> QED BY <1>0, <1>3, <4>2, <4>3, <4>4
    <3>3. ASSUME c \in new PROVE c \in Roots'
      <4>1. 1 \in 1..Len(path')
        BY <1>0, <1>3
      <4> QED BY <1>3, <2>1, <3>1, <3>3, <4>1
    <3>4. ASSUME path # <<>>, parent[c] = path[1], c > v PROVE c \in Roots'
      <4>1. 2 \in 1..Len(path') /\ path'[2] = path[1] /\ path'[2 - 1] = v
        BY <1>0, <1>1, <1>3, <1>4, <3>4
      <4> QED BY <3>1, <3>4, <4>1
    <3>5. ASSUME Farther(c) PROVE c \in Roots'
      <4>1. PICK j \in 2..Len(path) : parent[c] = path[j] /\ c > path[j - 1]
        BY <3>5
      <4>2. /\ j + 1 \in 1..Len(path') /\ j + 1 # 1 /\ (j + 1) - 1 = j /\ j \in 2..Len(path')
            /\ j \in 1..Len(path)
        BY <1>0, <1>3, <4>1
      <4>3. path'[j + 1] = path[j] /\ path'[(j + 1) - 1] = path[j - 1]
        BY <1>3, <1>4, <4>2
      <4> QED BY <3>1, <4>1, <4>2, <4>3
    <3> QED BY <3>2, <3>3, <3>4, <3>5
  <2>3. Roots' \subseteq Vertices /\ new \subseteq Vertices /\ Roots \subseteq Vertices
    BY <1>0, <1>3 DEF Roots, Children
  <2>4. CASE path = <<>>
    <3>1. \A c \in Vertices : ~Farther(c)
      BY <2>4
    <3> HIDE DEF Farther, new
    <3>2. Roots' = new
      BY <2>2, <2>3, <2>4, <3>1
    <3> QED BY <1>1, <2>4, <3>2 DEF new
  <2>5. CASE path # <<>>
    <3>1. \A c \in Vertices : c \in Roots <=> (parent[c] = path[1] /\ c > ei) \/ Farther(c)
      <4> SUFFICES ASSUME NEW c \in Vertices
                   PROVE  c \in Roots <=> (parent[c] = path[1] /\ c > ei) \/ Farther(c)
        OBVIOUS
      <4>1. c \in Roots <=> \E i \in 1..Len(path) :
                              parent[c] = path[i] /\ c > IF i = 1 THEN ei ELSE path[i - 1]
        BY <2>5 DEF Roots, Mark
      <4>2. 1..Len(path) = {1} \cup (2..Len(path)) /\ \A i \in 2..Len(path) : i # 1
        BY <1>0, <1>1, <2>5
      <4> QED BY <4>1, <4>2
    <3>2. \A c \in Vertices : parent[c] = path[1] => (c > v <=> c > ei /\ c # v)
      <4>1. \A c \in Vertices : c \in Int /\ v \in Int /\ ei \in Int
        BY <1>0, <1>1 DEF Vertices
      <4>2. v > ei /\ \A c \in Vertices : parent[c] = path[1] /\ c > ei => v <= c
        BY <1>1, <2>5 DEF Children
      <4> QED BY <4>1, <4>2
    <3>3. ~Farther(v)
      <4> SUFFICES ASSUME NEW j \in 2..Len(path), parent[v] = path[j] PROVE FALSE
        OBVIOUS
      <4>1. path[j] = path[1]
        BY <1>1, <2>5 DEF Children
      <4>2. 1 \in 1..Len(path) /\ j \in 1..Len(path) /\ 1 < j /\ path[1] \in Nat
        BY <1>0, <1>1, <2>5, VertexAssumption DEF Vertices
      <4>3. path[j] < path[1]
        BY <4>2, PathOlder
      <4> QED BY <4>1, <4>2, <4>3
    <3> HIDE DEF Farther, new
    <3>4. \A c \in Vertices : c \in Roots' <=> c \in new \/ (c \in Roots /\ c # v)
      BY <2>2, <2>5, <3>1, <3>2, <3>3
    <3>5. Roots' = (Roots \ {v}) \cup new
      BY <2>3, <3>4
    <3> QED BY <3>5 DEF new
  <2> QED BY <2>4, <2>5
<1> QED BY <1>3, <1>6, <1>7
\* The tree stays, and with it what is above a vertex.
LEMMA SameTree ==
  ASSUME parent' = parent
  PROVE  /\ Ancestors' = Ancestors
         /\ \A v : Children(v)' = Children(v) /\ Below(v)' = Below(v)
<1>1. Ancestors' = Ancestors
  BY DEF Ancestors
<1> QED BY <1>1 DEF Children, Below

\* No root but the vertex that is entered is above that vertex or below it.
LEMMA RootsApart ==
  ASSUME VisitOK, NEW v \in ToEnter, NEW c \in Roots, c # v
  PROVE  c \notin Ancestors[v] /\ v \notin Ancestors[c]
<1>0. IsTree(parent) /\ path \in Seq(Vertices) /\ Len(path) \in Nat
  BY DEF VisitOK
<1>1. /\ path # <<>> /\ v \in Vertices /\ Len(path) >= 1 /\ path[1] \in Vertices
      /\ v \in Children(path[1])
  BY ToEnterFacts
<1>2. c \in Vertices /\ c \notin Ancestors[path[1]]
  BY <1>1, RootNotAbove
<1>3. c \notin Ancestors[v]
  BY <1>0, <1>1, <1>2, ChildFacts
<1>4. PICK i \in 1..Len(path) : parent[c] = path[i]
  BY <1>1 DEF Roots
<1>5. 1 \in 1..Len(path) /\ 1 <= i /\ path[i] \in Vertices /\ c \in Children(path[i])
  BY <1>0, <1>1, <1>2, <1>4 DEF Children
<1>6. path[i] \in Ancestors[path[1]]
  BY <1>5, PathAbove
<1>7. v \notin Ancestors[path[1]]
  BY <1>0, <1>1, ChildFacts
<1>8. v \notin Ancestors[path[i]]
  BY <1>0, <1>1, <1>6, <1>7, AncestorsTransitive
<1>9. v \notin Ancestors[c]
  BY <1>0, <1>5, <1>8, ChildFacts
<1> QED BY <1>3, <1>9

\* Entering a vertex strikes it off what is left to visit, with all that is below it
\* if that is not to be searched.
LEMMA EnterToVisit ==
  ASSUME VisitOK, NEW v \in ToEnter, NEW terminate \in BOOLEAN, Enter(v, terminate),
         UNCHANGED <<parent, start>>
  PROVE  ToVisit' = ToVisit \ IF terminate THEN Below(v) ELSE {v}
<1>0. IsTree(parent) /\ v \in Vertices /\ v \in Roots /\ Ancestors' = Ancestors
  BY ToEnterFacts, SameTree DEF VisitOK
<1>1. Roots' = (Roots \ {v}) \cup (IF terminate THEN {} ELSE Children(v))
  BY EnterRoots
<1>2. ASSUME NEW u \in Vertices, NEW c \in Roots, c # v, c \in Ancestors[u]
      PROVE  v \notin Ancestors[u]
  BY <1>0, <1>2, RootsApart, AncestorsLinear
<1>3. \A u \in Vertices : u \in Ancestors[u]
  BY <1>0, AncestorsStep
<1>4. CASE terminate
  <2>1. ToVisit' = {u \in Vertices : \E c \in Roots \ {v} : c \in Ancestors[u]}
    BY <1>0, <1>1, <1>4 DEF ToVisit
  <2>2. ToVisit \ Below(v) = {u \in Vertices : \E c \in Roots \ {v} : c \in Ancestors[u]}
    BY <1>2 DEF ToVisit, Below
  <2> QED BY <1>4, <2>1, <2>2
<1>5. CASE ~terminate
  <2>1. ASSUME NEW u \in ToVisit' PROVE u \in ToVisit /\ u # v
    <3>1. u \in Vertices
      BY DEF ToVisit
    <3>2. PICK c \in (Roots \ {v}) \cup Children(v) : c \in Ancestors[u]
      BY <1>0, <1>1, <1>5 DEF ToVisit
    <3>3. CASE c \in Roots \ {v}
      BY <1>2, <1>3, <3>1, <3>2, <3>3 DEF ToVisit
    <3>4. CASE c \in Children(v)
      <4>1. v \in Ancestors[c] /\ c \notin Ancestors[v] /\ c \in Vertices
        BY <1>0, <1>3, <3>4, ChildFacts
      <4>2. v \in Ancestors[u]
        BY <1>0, <3>1, <3>2, <4>1, AncestorsTransitive
      <4> QED BY <1>0, <3>1, <3>2, <4>1, <4>2 DEF ToVisit
    <3> QED BY <3>2, <3>3, <3>4
  <2>2. ASSUME NEW u \in ToVisit, u # v PROVE u \in ToVisit'
    <3>1. u \in Vertices
      BY DEF ToVisit
    <3>2. PICK c \in Roots : c \in Ancestors[u]
      BY DEF ToVisit
    <3>3. CASE c # v
      BY <1>0, <1>1, <3>1, <3>2, <3>3 DEF ToVisit
    <3>4. CASE c = v
      <4>1. PICK d \in Children(v) : d \in Ancestors[u]
        BY <1>0, <2>2, <3>1, <3>2, <3>4, BelowChild
      <4> QED BY <1>0, <1>1, <1>5, <3>1, <4>1 DEF ToVisit
    <3> QED BY <3>3, <3>4
  <2> QED BY <1>5, <2>1, <2>2
<1> QED BY <1>4, <1>5

\* Leaving a vertex leaves what there is to visit; once the start is left, there is
\* nothing.
LEMMA LeaveToVisit ==
  ASSUME VisitOK, Leave, UNCHANGED <<parent, start>>
  PROVE  /\ VisitOK' /\ Roots' = Roots /\ ToVisit' = ToVisit
         /\ Len(path') = Len(path) - 1
         /\ path' = <<>> => ei' = start /\ Roots = {} /\ ToVisit = {}
<1>0. /\ IsTree(parent) /\ path \in Seq(Vertices) /\ start \in Vertices /\ Len(path) \in Nat
      /\ N \in Nat
  BY VertexAssumption DEF VisitOK
<1>1. path # <<>> /\ Pending = {} /\ path' = Tail(path) /\ ei' = path[1]
  BY <1>0, Popped DEF Leave
<1>2. /\ path' \in Seq(Vertices) /\ Len(path) >= 1 /\ path[1] \in Vertices
      /\ Len(path') = Len(path) - 1
      /\ \A i \in 1..(Len(path) - 1) : path'[i] = path[i + 1]
      /\ Head(path) = path[1]
  BY <1>0, <1>1, Popped
<1>3. PathIsChain'
  <2>1. ASSUME NEW i \in 1..(Len(path') - 1) PROVE parent'[path'[i]] = path'[i + 1]
    <3>1. i + 1 \in 1..(Len(path) - 1) /\ i \in 1..(Len(path) - 1)
      BY <1>0, <1>2
    <3>2. path'[i] = path[i + 1] /\ path'[i + 1] = path[(i + 1) + 1]
      BY <1>2, <3>1
    <3>3. parent[path[i + 1]] = path[(i + 1) + 1]
      BY <3>1 DEF VisitOK, PathIsChain
    <3> QED BY <3>2, <3>3
  <2>2. path' # <<>> => path'[Len(path')] = start'
    <3> SUFFICES ASSUME path' # <<>> PROVE path'[Len(path')] = start'
      OBVIOUS
    <3>1. Len(path') >= 1
      BY <1>2, Popped
    <3>2. Len(path') \in 1..(Len(path) - 1) /\ Len(path') + 1 = Len(path)
      BY <1>0, <1>2, <3>1
    <3>3. path[Len(path)] = start
      BY <1>1 DEF VisitOK, PathIsChain
    <3> QED BY <1>2, <3>2, <3>3
  <2> QED BY <2>1, <2>2 DEF PathIsChain
<1>4. VisitOK'
  <2>1. ei' \in 0..N
    BY <1>0, <1>1, <1>2 DEF Vertices
  <2> QED BY <1>0, <1>2, <1>3, <2>1 DEF VisitOK, IsTree
<1>5. \A c \in Vertices : ~(parent[c] = path[1] /\ c > ei)
  BY <1>1, <1>2 DEF Pending, Children
<1>6. \A c \in Vertices : c \in Roots <=>
         \E i \in 2..Len(path) : parent[c] = path[i] /\ c > path[i - 1]
  <2> SUFFICES ASSUME NEW c \in Vertices
               PROVE  c \in Roots <=> \E i \in 2..Len(path) : parent[c] = path[i] /\ c > path[i - 1]
    OBVIOUS
  <2>1. c \in Roots <=> \E i \in 1..Len(path) :
                          parent[c] = path[i] /\ c > IF i = 1 THEN ei ELSE path[i - 1]
    BY <1>1 DEF Roots, Mark
  <2>2. 1..Len(path) = {1} \cup (2..Len(path)) /\ \A i \in 2..Len(path) : i # 1
    BY <1>0, <1>2
  <2> QED BY <1>5, <2>1, <2>2
<1>7. Roots \subseteq Vertices /\ Roots' \subseteq Vertices
  BY <1>0, <1>1 DEF Roots
<1>8. CASE path' = <<>>
  <2>1. Len(path) = 1
    BY <1>0, <1>2, <1>8
  <2>2. Roots = {}
    BY <1>6, <1>7, <2>1
  <2>3. path[1] = start
    BY <1>1, <2>1 DEF VisitOK, PathIsChain
  <2>4. ei' = start /\ ei' # 0
    BY <1>0, <1>1, <2>3 DEF Vertices
  <2>5. Roots' = {}
    BY <1>8, <2>4 DEF Roots
  <2> QED BY <1>2, <1>4, <2>2, <2>4, <2>5 DEF ToVisit
<1>9. CASE path' # <<>>
  <2>1. \A c \in Vertices : c \in Roots' <=>
           \E i \in 1..Len(path') : parent[c] = path'[i] /\ c > IF i = 1 THEN ei' ELSE path'[i - 1]
    BY <1>9 DEF Roots, Mark
  <2>2. \A i \in 1..Len(path') : /\ i + 1 \in 2..Len(path) /\ path'[i] = path[i + 1]
                                 /\ (IF i = 1 THEN ei' ELSE path'[i - 1]) = path[(i + 1) - 1]
    <3>1. ASSUME NEW i \in 1..Len(path') PROVE /\ i + 1 \in 2..Len(path) /\ path'[i] = path[i + 1]
                                 /\ (IF i = 1 THEN ei' ELSE path'[i - 1]) = path[(i + 1) - 1]
      <4>1. i + 1 \in 2..Len(path) /\ path'[i] = path[i + 1] /\ (i + 1) - 1 = i
        BY <1>0, <1>2
      <4>2. CASE i = 1
        BY <1>1, <4>1, <4>2
      <4>3. CASE i # 1
        <5>1. i - 1 \in 1..(Len(path) - 1) /\ (i - 1) + 1 = i
          BY <1>0, <1>2, <4>3
        <5> QED BY <1>2, <4>1, <4>3, <5>1
      <4> QED BY <4>1, <4>2, <4>3
    <3> QED BY <3>1
  <2>3. \A j \in 2..Len(path) : j - 1 \in 1..Len(path') /\ (j - 1) + 1 = j
    BY <1>0, <1>2
  <2>4. ASSUME NEW c \in Vertices PROVE c \in Roots' <=> c \in Roots
    <3>1. ASSUME c \in Roots' PROVE c \in Roots
      <4>1. PICK i \in 1..Len(path') :
               parent[c] = path'[i] /\ c > IF i = 1 THEN ei' ELSE path'[i - 1]
        BY <2>1, <3>1
      <4>2. i + 1 \in 2..Len(path) /\ parent[c] = path[i + 1] /\ c > path[(i + 1) - 1]
        BY <2>2, <4>1
      <4> QED BY <1>6, <4>2
    <3>2. ASSUME c \in Roots PROVE c \in Roots'
      <4>1. PICK j \in 2..Len(path) : parent[c] = path[j] /\ c > path[j - 1]
        BY <1>6, <3>2
      <4>2. /\ j - 1 \in 1..Len(path') /\ path'[j - 1] = path[j]
            /\ (IF j - 1 = 1 THEN ei' ELSE path'[(j - 1) - 1]) = path[j - 1]
        BY <2>2, <2>3
      <4> QED BY <2>1, <4>1, <4>2
    <3> QED BY <3>1, <3>2
  <2>5. Roots' = Roots
    BY <1>7, <2>4
  <2> QED BY <1>2, <1>4, <1>9, <2>5, SameTree DEF ToVisit
<1> QED BY <1>8, <1>9
=============================================================================
