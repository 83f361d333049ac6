-------------------------- MODULE SearchQueryProofs --------------------------
(***************************************************************************)
(* Proofs about SearchQuery for every tree, text and request: what search  *)
(* and filteroptions reply.                                                *)
(***************************************************************************)
EXTENDS SearchQuery, DepthFirstVisitProofs

-----------------------------------------------------------------------------
(* The inductive invariant.                                                *)

\* The vertices that discover_vertex has been called for.
Entered == Below(start) \ ToVisit

Handling(command) == status \in {"visiting", "replied"} /\ request.command = command

Typed ==
    /\ VisitOK
    /\ start = 1
    /\ status \in {"idle", "visiting", "replied", "threw"}
    /\ hits \in Seq(Vertices)
    /\ options \cap {NoText} = {}
    /\ Handling("search") => request.max_results \in Int

\* What is left to visit is below the root, and comes after all that was visited.
\* Between two requests nothing was visited.
Visiting ==
    /\ ToVisit \subseteq Below(start)
    /\ \A u \in Entered, w \in ToVisit : Before(u, w)
    /\ status \in {"idle", "threw"} => path = <<>> /\ ei = 0 /\ hits = <<>> /\ options = {}

\* The hits are the matches among the vertices visited, in the order of the tree.
\* The traversal ends when there is nothing left or it has hits enough.
HitsSoFar ==
    Handling("search") =>
        /\ \A i \in 1..Len(hits) : hits[i] \in Entered /\ Matches(request, hits[i])
        /\ \A v \in Entered : Matches(request, v) => \E i \in 1..Len(hits) : hits[i] = v
        /\ \A i, j \in 1..Len(hits) : i < j => Before(hits[i], hits[j])
        /\ Len(hits) <= IF request.max_results > 0 THEN request.max_results ELSE 0
        /\ status = "replied" => ToVisit = {} \/ Full

\* The options are the values of the vertices visited, and only when none is left
\* does the traversal end.
OptionsSoFar ==
    Handling("filteroptions") =>
        /\ options = {props[v][request.type] : v \in Entered} \ {NoText}
        /\ status = "replied" => ToVisit = {}

Inv == Typed /\ Visiting /\ HitsSoFar /\ OptionsSoFar

-----------------------------------------------------------------------------
(* The order of the tree, and how a step of the traversal moves along it.  *)

\* A step that stays where it is.
LEMMA SamePlace ==
  ASSUME Typed, UNCHANGED <<parent, start, path, ei>>
  PROVE  /\ VisitOK' /\ ToVisit' = ToVisit /\ Entered' = Entered
         /\ \A u, w : Before(u, w)' = Before(u, w)
<1>1. Ancestors' = Ancestors /\ \A v : Below(v)' = Below(v)
  BY SameTree
<1>2. ToVisit' = ToVisit
  BY <1>1 DEF ToVisit, Roots, Mark
<1>3. VisitOK'
  BY DEF Typed, VisitOK, IsTree, PathIsChain
<1>4. \A u, w : Before(u, w)' = Before(u, w)
  BY <1>1 DEF Before
<1> QED BY <1>1, <1>2, <1>3, <1>4 DEF Entered

\* At the beginning everything below the root is left to visit.
LEMMA AtStart ==
  ASSUME path = <<>>, ei = 0
  PROVE  ToVisit = Below(start) /\ Entered = {}
BY DEF ToVisit, Roots, Below, Entered

\* The vertex that is entered comes before all others that are left.
LEMMA EnterBefore ==
  ASSUME VisitOK, NEW v \in ToEnter, NEW w \in ToVisit, w # v
  PROVE  Before(v, w)
<1>0. IsTree(parent) /\ v \in Vertices /\ w \in Vertices /\ path \in Seq(Vertices)
  BY ToEnterFacts DEF VisitOK, ToVisit
<1>1. PICK c \in Roots : c \in Ancestors[w]
  BY DEF ToVisit
<1>2. v \in Ancestors[v]
  BY <1>0, AncestorsStep
<1>3. CASE c = v
  BY <1>1, <1>3 DEF Before
<1>4. CASE c # v
  <2>1. /\ path # <<>> /\ Len(path) \in Nat /\ Len(path) >= 1 /\ path[1] \in Vertices
        /\ v \in Children(path[1]) /\ v > ei
        /\ \A d \in Children(path[1]) : d > ei => v <= d
    BY <1>4, ToEnterFacts
  <2>2. c \in Vertices /\ \E i \in 1..Len(path) : parent[c] = path[i] /\ c > Mark(i)
    BY <2>1 DEF Roots
  <2>3. PICK i \in 1..Len(path) : parent[c] = path[i] /\ c > Mark(i)
    BY <2>2
  <2>4. c \in Nat /\ v \in Nat
    BY <1>0, <2>2, VertexAssumption DEF Vertices
  <2>5. CASE i = 1
    <3>1. parent[c] = path[1] /\ parent[v] = path[1] /\ v < c
      BY <1>4, <2>1, <2>2, <2>3, <2>4, <2>5 DEF Mark, Children
    <3> QED BY <1>1, <1>2, <3>1 DEF Before
  <2>6. CASE i # 1
    <3>1. i - 1 \in 1..Len(path) /\ i - 1 \in 1..(Len(path) - 1) /\ (i - 1) + 1 = i /\ 1 <= i - 1
          /\ 1 \in 1..Len(path)
      BY <2>1, <2>3, <2>6
    <3>2. parent[path[i - 1]] = path[i] /\ path[i - 1] < c
      BY <2>3, <2>6, <3>1 DEF Mark, VisitOK, PathIsChain
    <3>3. path[i - 1] \in Ancestors[path[1]]
      BY <3>1, PathAbove
    <3>4. path[i - 1] \in Ancestors[v]
      BY <1>0, <2>1, <3>3, ChildFacts
    <3> QED BY <1>1, <2>3, <3>2, <3>4 DEF Before
  <2> QED BY <2>5, <2>6
<1> QED BY <1>3, <1>4

\* A vertex is entered: it is struck off, and comes after what was visited.
LEMMA EnterVisiting ==
  ASSUME Typed, Visiting, NEW v \in ToEnter, Enter(v, FALSE), UNCHANGED <<parent, start>>
  PROVE  /\ VisitOK' /\ v \in Vertices /\ v \in ToVisit
         /\ ToVisit' = ToVisit \ {v} /\ Entered' = Entered \cup {v}
         /\ ToVisit' \subseteq Below(start)'
         /\ \A u, w : Before(u, w)' = Before(u, w)
         /\ \A u \in Entered', w \in ToVisit' : Before(u, w)'
<1>1. VisitOK /\ FALSE \in BOOLEAN
  BY DEF Typed
<1>2. VisitOK'
  BY <1>1, EnterRoots
<1>3. ToVisit' = ToVisit \ {v}
  BY <1>1, EnterToVisit
<1>4. v \in Vertices /\ v \in ToVisit
  BY <1>1, ToEnterFacts
<1>5. Ancestors' = Ancestors /\ Below(start)' = Below(start)
  BY SameTree DEF Below
<1>6. \A u, w : Before(u, w)' = Before(u, w)
  BY <1>5 DEF Before
<1>7. ToVisit \subseteq Below(start)
  BY DEF Visiting
<1>8. Entered' = Entered \cup {v}
  BY <1>3, <1>4, <1>5, <1>7 DEF Entered
<1>9. \A u \in Entered', w \in ToVisit' : Before(u, w)'
  BY <1>1, <1>3, <1>6, <1>8, EnterBefore DEF Visiting
<1> QED BY <1>2, <1>3, <1>4, <1>5, <1>6, <1>7, <1>8, <1>9

-----------------------------------------------------------------------------
(* Every step keeps the invariant.                                         *)

\* A request is taken: nothing has been visited for it.
LEMMA BeginInv ==
  ASSUME Inv, status = "idle", NEW r, Begin(r),
         r.command = "search" => r.max_results \in Int
  PROVE  Inv'
<1>0. Typed /\ Visiting /\ path = <<>> /\ ei = 0 /\ hits = <<>> /\ options = {}
  BY DEF Inv, Visiting
<1>1. UNCHANGED <<parent, start, path, ei, hits, options, props>> /\ status' = "visiting" /\ request' = r
  BY DEF Begin, tree
<1>2. /\ VisitOK' /\ ToVisit' = ToVisit /\ Entered' = Entered /\ Entered = {}
      /\ \A u, w : Before(u, w)' = Before(u, w)
  BY <1>0, <1>1, SamePlace, AtStart
<1>3. Typed'
  BY <1>0, <1>1, <1>2 DEF Typed, Handling
<1>4. Visiting'
  <2>1. Below(start)' = Below(start)
    BY <1>1, SameTree DEF Below
  <2> QED BY <1>0, <1>1, <1>2, <2>1 DEF Visiting
<1>5. HitsSoFar'
  <2>1. Len(hits') = 0
    BY <1>0, <1>1
  <2>2. 1..Len(hits') = {}
    BY <2>1
  <2>3. r.command = "search" => Len(hits') <= IF r.max_results > 0 THEN r.max_results ELSE 0
    BY <2>1
  <2> QED BY <1>1, <1>2, <2>2, <2>3 DEF HitsSoFar, Handling
<1>6. OptionsSoFar'
  BY <1>0, <1>1, <1>2 DEF OptionsSoFar, Handling
<1> QED BY <1>3, <1>4, <1>5, <1>6 DEF Inv

LEMMA SearchInv ==
  ASSUME Inv, NEW r \in Searches, Search(r)
  PROVE  Inv'
<1>1. CASE ~NoSearcher(r) /\ Begin(r)
  BY <1>1, BeginInv, SearchAssumption DEF Search
<1>2. CASE ~(~NoSearcher(r) /\ Begin(r))
  <2>1. /\ status = "idle" /\ status' = "threw"
        /\ UNCHANGED <<parent, props, start, path, ei, request, hits, options>>
    BY <1>2 DEF Search, tree
  <2>2. /\ Typed /\ Visiting /\ VisitOK' /\ ToVisit' = ToVisit /\ Entered' = Entered
        /\ \A u, w : Before(u, w)' = Before(u, w)
    BY <2>1, SamePlace DEF Inv
  <2>3. Typed'
    BY <2>1, <2>2 DEF Typed, Handling
  <2>4. Visiting'
    <3>1. Below(start)' = Below(start)
      BY <2>1, SameTree DEF Below
    <3> QED BY <2>1, <2>2, <3>1 DEF Visiting
  <2> QED BY <2>1, <2>3, <2>4 DEF Inv, HitsSoFar, OptionsSoFar, Handling
<1> QED BY <1>1, <1>2

LEMMA FilterOptionsInv ==
  ASSUME Inv, NEW key \in Types, FilterOptions(key)
  PROVE  Inv'
BY BeginInv DEF FilterOptions

\* discover_vertex of a search: it stops, or the vertex may be a hit.
LEMMA SearchDiscoverInv ==
  ASSUME Inv, NEW v \in Vertices, SearchDiscover(v)
  PROVE  Inv'
<1>0. /\ Typed /\ Visiting /\ HitsSoFar /\ Handling("search") /\ status = "visiting"
      /\ request.command = "search" /\ request.max_results \in Int
      /\ hits \in Seq(Vertices) /\ Len(hits) \in Nat
      /\ v \in ToEnter /\ UNCHANGED <<parent, props, start, request, options>>
  BY DEF Inv, SearchDiscover, tree, Handling, Typed
<1>1. ASSUME Full, status' = "replied", UNCHANGED <<path, ei, hits>> PROVE Inv'
  <2>1. /\ VisitOK' /\ ToVisit' = ToVisit /\ Entered' = Entered
        /\ \A u, w : Before(u, w)' = Before(u, w)
    BY <1>0, <1>1, SamePlace
  <2>2. Typed'
    BY <1>0, <1>1, <2>1 DEF Typed, Handling
  <2>3. Visiting'
    <3>1. Below(start)' = Below(start)
      BY <1>0, SameTree DEF Below
    <3> QED BY <1>0, <1>1, <2>1, <3>1 DEF Visiting
  <2>4. HitsSoFar'
    <3>1. \A u : Matches(request, u)' = Matches(request, u)
      BY <1>0 DEF Matches
    <3>2. Full'
      BY <1>0, <1>1 DEF Full
    <3> QED BY <1>0, <1>1, <2>1, <3>1, <3>2 DEF HitsSoFar, Handling
  <2>5. OptionsSoFar'
    BY <1>0 DEF OptionsSoFar, Handling
  <2> QED BY <2>2, <2>3, <2>4, <2>5 DEF Inv
<1>2. ASSUME ~Full, Enter(v, FALSE), UNCHANGED status,
             hits' = IF Matches(request, v) THEN Append(hits, v) ELSE hits
      PROVE  Inv'
  <2>1. /\ VisitOK' /\ v \in ToVisit
        /\ ToVisit' = ToVisit \ {v} /\ Entered' = Entered \cup {v}
        /\ ToVisit' \subseteq Below(start)'
        /\ \A u, w : Before(u, w)' = Before(u, w)
        /\ \A u \in Entered', w \in ToVisit' : Before(u, w)'
    BY <1>0, <1>2, EnterVisiting
  <2>2. /\ Append(hits, v) \in Seq(Vertices) /\ Len(Append(hits, v)) = Len(hits) + 1
        /\ Append(hits, v)[Len(hits) + 1] = v
        /\ \A i \in 1..Len(hits) : Append(hits, v)[i] = hits[i]
    BY <1>0
  <2>3. Typed'
    BY <1>0, <1>2, <2>1, <2>2 DEF Typed, Handling
  <2>4. Visiting'
    BY <1>0, <1>2, <2>1 DEF Visiting
  <2>5. HitsSoFar'
    <3>1. \A u : Matches(request, u)' = Matches(request, u)
      BY <1>0 DEF Matches
    <3>2. /\ \A i \in 1..Len(hits) : hits[i] \in Entered /\ Matches(request, hits[i])
          /\ \A u \in Entered : Matches(request, u) => \E i \in 1..Len(hits) : hits[i] = u
          /\ \A i, j \in 1..Len(hits) : i < j => Before(hits[i], hits[j])
          /\ Len(hits) <= IF request.max_results > 0 THEN request.max_results ELSE 0
      BY <1>0 DEF HitsSoFar
    <3>3. CASE ~Matches(request, v)
      <4>1. hits' = hits
        BY <1>2, <3>3
      <4> QED BY <1>0, <1>2, <2>1, <3>1, <3>2, <3>3, <4>1 DEF HitsSoFar, Handling
    <3>4. CASE Matches(request, v)
      <4>1. /\ Len(hits') = Len(hits) + 1 /\ hits'[Len(hits) + 1] = v
            /\ \A i \in 1..Len(hits) : hits'[i] = hits[i]
            /\ 1..Len(hits') = (1..Len(hits)) \cup {Len(hits) + 1}
        BY <1>0, <1>2, <2>2, <3>4
      <4>2. \A i \in 1..Len(hits') : hits'[i] \in Entered' /\ Matches(request, hits'[i])
        BY <2>1, <3>2, <3>4, <4>1
      <4>3. \A u \in Entered' : Matches(request, u) => \E i \in 1..Len(hits') : hits'[i] = u
        BY <2>1, <3>2, <4>1
      <4>4. \A i, j \in 1..Len(hits') : i < j => Before(hits'[i], hits'[j])
        <5> SUFFICES ASSUME NEW i \in 1..Len(hits'), NEW j \in 1..Len(hits'), i < j
                     PROVE  Before(hits'[i], hits'[j])
          OBVIOUS
        <5>1. i \in 1..Len(hits)
          BY <1>0, <4>1
        <5>2. CASE j = Len(hits) + 1
          <6>1. Before(hits[i], v)
            BY <1>0, <2>1, <3>2, <5>1 DEF Visiting
          <6> QED BY <4>1, <5>1, <5>2, <6>1
        <5>3. CASE j \in 1..Len(hits)
          BY <3>2, <4>1, <5>1, <5>3
        <5> QED BY <4>1, <5>2, <5>3
      <4>5. Len(hits') <= IF request.max_results > 0 THEN request.max_results ELSE 0
        BY <1>0, <1>2, <4>1 DEF Full
      <4> QED BY <1>0, <1>2, <2>1, <3>1, <4>2, <4>3, <4>4, <4>5 DEF HitsSoFar, Handling
    <3> QED BY <3>3, <3>4
  <2>6. OptionsSoFar'
    BY <1>0 DEF OptionsSoFar, Handling
  <2> QED BY <2>3, <2>4, <2>5, <2>6 DEF Inv
<1> QED BY <1>1, <1>2 DEF SearchDiscover

\* discover_vertex of filteroptions: the vertex may contribute an option.
LEMMA OptionsDiscoverInv ==
  ASSUME Inv, NEW v \in Vertices, OptionsDiscover(v)
  PROVE  Inv'
<1>0. /\ Typed /\ Visiting /\ OptionsSoFar /\ Handling("filteroptions")
      /\ status = "visiting" /\ request.command = "filteroptions"
      /\ v \in ToEnter /\ Enter(v, FALSE) /\ options' = options \cup NewOptions(v)
      /\ UNCHANGED <<parent, props, start, request, status, hits>>
  BY DEF Inv, OptionsDiscover, tree, Handling
<1>1. /\ VisitOK' /\ ToVisit' = ToVisit \ {v} /\ Entered' = Entered \cup {v}
      /\ ToVisit' \subseteq Below(start)'
      /\ \A u \in Entered', w \in ToVisit' : Before(u, w)'
  BY <1>0, EnterVisiting
<1>2. Typed'
  <2>1. options' \cap {NoText} = {}
    BY <1>0 DEF Typed, NewOptions
  <2> QED BY <1>0, <1>1, <2>1 DEF Typed, Handling
<1>3. Visiting'
  BY <1>0, <1>1 DEF Visiting
<1>4. HitsSoFar'
  BY <1>0 DEF HitsSoFar, Handling
<1>5. OptionsSoFar'
  <2>1. options = {props[u][request.type] : u \in Entered} \ {NoText}
    BY <1>0 DEF OptionsSoFar
  <2>2. options' = {props[u][request.type] : u \in Entered \cup {v}} \ {NoText}
    BY <1>0, <2>1 DEF NewOptions
  <2> QED BY <1>0, <1>1, <2>2 DEF OptionsSoFar
<1> QED BY <1>2, <1>3, <1>4, <1>5 DEF Inv

\* A vertex is left; with the start, nothing remains.
LEMMA FinishInv ==
  ASSUME Inv, Finish
  PROVE  Inv'
<1>0. /\ Typed /\ Visiting /\ HitsSoFar /\ OptionsSoFar /\ VisitOK
      /\ status = "visiting" /\ Leave
      /\ status' = (IF Len(path) = 1 THEN "replied" ELSE "visiting")
      /\ UNCHANGED <<parent, props, start, request, hits, options>>
  BY DEF Inv, Typed, Finish, tree
<1>1. /\ VisitOK' /\ ToVisit' = ToVisit /\ Len(path') = Len(path) - 1
      /\ path' = <<>> => ToVisit = {}
  BY <1>0, LeaveToVisit
<1>2. /\ Ancestors' = Ancestors /\ Below(start)' = Below(start)
      /\ \A u, w : Before(u, w)' = Before(u, w)
  BY <1>0, SameTree DEF Below, Before
<1>3. Entered' = Entered
  BY <1>1, <1>2 DEF Entered
<1>4. status' = "replied" => ToVisit = {}
  <2> SUFFICES ASSUME Len(path) = 1 PROVE path' = <<>>
    BY <1>0, <1>1
  <2>1. Len(path') = 0 /\ path' \in Seq(Vertices)
    BY <1>1 DEF VisitOK
  <2> QED BY <2>1
<1>5. Typed'
  BY <1>0, <1>1 DEF Typed, Handling
<1>6. Visiting'
  BY <1>0, <1>1, <1>2, <1>3 DEF Visiting
<1>7. HitsSoFar'
  <2>1. \A u : Matches(request, u)' = Matches(request, u)
    BY <1>0 DEF Matches
  <2> QED BY <1>0, <1>1, <1>2, <1>3, <1>4, <2>1 DEF HitsSoFar, Handling
<1>8. OptionsSoFar'
  BY <1>0, <1>1, <1>3, <1>4 DEF OptionsSoFar, Handling
<1> QED BY <1>5, <1>6, <1>7, <1>8 DEF Inv

LEMMA SentInv ==
  ASSUME Inv, Sent
  PROVE  Inv'
<1>0. /\ Typed /\ status' = "idle" /\ path' = <<>> /\ ei' = 0 /\ hits' = <<>> /\ options' = {}
      /\ UNCHANGED <<parent, props, start>>
  BY DEF Inv, Sent, tree
<1>1. VisitOK'
  <2>1. 0 \in 0..N /\ <<>> \in Seq(Vertices) /\ Len(<<>>) = 0 /\ 1..(0 - 1) = {}
    BY VertexAssumption
  <2> QED BY <1>0, <2>1 DEF Typed, VisitOK, IsTree, PathIsChain
<1>2. ToVisit' = Below(start)' /\ Entered' = {}
  BY <1>0 DEF ToVisit, Roots, Below, Entered
<1>3. Typed' /\ Visiting'
  BY <1>0, <1>1, <1>2 DEF Typed, Visiting, Handling
<1> QED BY <1>0, <1>3 DEF Inv, HitsSoFar, OptionsSoFar, Handling

LEMMA StutterInv ==
  ASSUME Inv, UNCHANGED vars
  PROVE  Inv'
<1>0. /\ Typed /\ Visiting /\ HitsSoFar /\ OptionsSoFar
      /\ UNCHANGED <<parent, props, start, path, ei, request, status, hits, options>>
  BY DEF Inv, vars, tree
<1>1. /\ VisitOK' /\ ToVisit' = ToVisit /\ Entered' = Entered
      /\ \A u, w : Before(u, w)' = Before(u, w)
  BY <1>0, SamePlace
<1>2. Below(start)' = Below(start)
  BY <1>0, SameTree DEF Below
<1>3. \A u : Matches(request, u)' = Matches(request, u)
  BY <1>0 DEF Matches
<1>4. Typed' /\ Visiting'
  BY <1>0, <1>1, <1>2 DEF Typed, Visiting, Handling
<1>5. HitsSoFar'
  BY <1>0, <1>1, <1>3 DEF HitsSoFar, Handling, Full
<1>6. OptionsSoFar'
  BY <1>0, <1>1 DEF OptionsSoFar, Handling
<1> QED BY <1>4, <1>5, <1>6 DEF Inv

LEMMA InitInv ==
  ASSUME Init
  PROVE  Inv
<1>1. /\ path = <<>> /\ ei = 0 /\ start = 1 /\ status = "idle" /\ hits = <<>> /\ options = {}
      /\ IsTree(parent)
  BY DEF Init, InitVisit, Trees
<1>2. VisitOK
  <2>1. 0 \in 0..N /\ <<>> \in Seq(Vertices) /\ Len(<<>>) = 0 /\ 1..(0 - 1) = {} /\ 1 \in Vertices
    BY VertexAssumption DEF Vertices
  <2> QED BY <1>1, <2>1 DEF VisitOK, PathIsChain
<1>3. ToVisit = Below(start) /\ Entered = {}
  BY <1>1, AtStart
<1>4. Typed /\ Visiting
  BY <1>1, <1>2, <1>3 DEF Typed, Visiting, Handling
<1> QED BY <1>1, <1>4 DEF Inv, HitsSoFar, OptionsSoFar, Handling

LEMMA Invariant == Spec => []Inv
<1>1. Init => Inv
  BY InitInv
<1>2. Inv /\ [Next]_vars => Inv'
  BY SearchInv, FilterOptionsInv, SearchDiscoverInv, OptionsDiscoverInv, FinishInv, SentInv,
     StutterInv DEF Next
<1> QED BY <1>1, <1>2, PTL DEF Spec

-----------------------------------------------------------------------------
(* What the commands reply.                                                *)

\* Types are kept; no option is a missing value (filteroptionsvisitor.h).
THEOREM SearchTypeCorrect == Spec => []TypeOK
<1>1. Inv => TypeOK
  BY DEF Inv, Typed, VisitOK, TypeOK
<1> QED BY <1>1, Invariant, PTL

\* On every tree, search replies with the first max_results matches in the order of
\* the tree, and with all of them if there are no more (searchvisitor.h,
\* discover_vertex; search.cpp).
THEOREM SearchFindsTheFirst == Spec => []HitsAreFirst
<1>1. Inv => HitsAreFirst
  <2> SUFFICES ASSUME Inv, status = "replied", request.command = "search"
               PROVE  HitsAreFirst
    BY DEF HitsAreFirst
  <2> DEFINE found == {v \in Below(start) : Matches(request, v)}
             returned == {hits[i] : i \in 1..Len(hits)}
  <2>1. /\ \A i \in 1..Len(hits) : hits[i] \in Entered /\ Matches(request, hits[i])
        /\ \A v \in Entered : Matches(request, v) => \E i \in 1..Len(hits) : hits[i] = v
        /\ \A i, j \in 1..Len(hits) : i < j => Before(hits[i], hits[j])
        /\ Len(hits) <= IF request.max_results > 0 THEN request.max_results ELSE 0
        /\ ToVisit = {} \/ Full
        /\ \A u \in Entered, w \in ToVisit : Before(u, w)
    BY DEF Inv, HitsSoFar, Visiting, Handling
  <2>2. Entered \subseteq Below(start)
    BY DEF Entered
  <2>3. returned \subseteq found
    BY <2>1, <2>2
  <2>4. ASSUME NEW v \in found \ returned
        PROVE  /\ Len(hits) >= request.max_results
               /\ \A u \in returned : Before(u, v)
    <3>1. v \in ToVisit
      BY <2>1 DEF Entered
    <3>2. Full
      BY <2>1, <3>1
    <3> QED BY <2>1, <3>1, <3>2 DEF Full
  <2> HIDE DEF found, returned
  <2>5. /\ returned \subseteq found
        /\ \A i, j \in 1..Len(hits) : i < j => Before(hits[i], hits[j])
        /\ Len(hits) <= IF request.max_results > 0 THEN request.max_results ELSE 0
        /\ \A v \in found \ returned : /\ Len(hits) >= request.max_results
                                       /\ \A u \in returned : Before(u, v)
    BY <2>1, <2>3, <2>4
  <2> QED BY <2>5 DEF HitsAreFirst, found, returned
<1> QED BY <1>1, Invariant, PTL

\* On every tree, filteroptions replies with the values of all vertices, at every
\* level, and with no other (filteroptionsvisitor.h, discover_vertex).
THEOREM OptionsAreAll == Spec => []OptionsAreComplete
<1>1. Inv => OptionsAreComplete
  <2> SUFFICES ASSUME Inv, status = "replied", request.command = "filteroptions"
               PROVE  options = {props[v][request.type] : v \in Below(start)} \ {NoText}
    BY DEF OptionsAreComplete
  <2>1. ToVisit = {} /\ options = {props[v][request.type] : v \in Entered} \ {NoText}
    BY DEF Inv, OptionsSoFar, Handling
  <2> QED BY <2>1 DEF Entered
<1> QED BY <1>1, Invariant, PTL
=============================================================================
