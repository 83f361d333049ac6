----------------------------- MODULE SearchQuery -----------------------------
(* The search and filteroptions commands: traversals from the root with      *)
(* SearchVisitor and FilterOptionsVisitor.  The tree stays while requests    *)
(* follow one another.  A text is a sequence of letters.                     *)
EXTENDS DepthFirstVisit, FiniteSets

CONSTANTS
    Shapes,     \* the properties a vertex may have: functions from keys to texts
    RootShape,  \* the properties of the root, vertex 1
    NoText,     \* the value of a key that is missing or holds no string
    Searches,   \* the search requests that clients make
    Types       \* the keys that clients ask filteroptions for

ASSUME SearchAssumption == \A r \in Searches : r.command = "search" /\ r.max_results \in Int

VARIABLES
    props,      \* vertex -> its properties
    request,    \* the request being handled
    status,     \* "idle", "visiting", "replied" or "threw"
    hits,       \* hits_, in the order they were found
    options     \* valid_filter_options_

tree == <<parent, props>>
vars == <<tree, start, path, ei, request, status, hits, options>>

NoRequest == [command |-> "none"]
AnyLetter == "."    \* the metacharacter of regular expressions that is modelled
Unclosed == "("     \* a regular expression with it does not compile

\* The term occurs in the text; a letter of wild stands for any letter.
Occurs(term, text, wild) ==
    \E i \in 0..(Len(text) - Len(term)) :
        \A j \in 1..Len(term) : term[j] \in wild \/ term[j] = text[i + j]

\* HasTerm of the three searchers.  boost::boyer_moore finds nothing in an empty
\* text, not even an empty term.
HasTerm(algorithm, term, text) ==
    CASE algorithm = "partial" -> text # <<>> /\ Occurs(term, text, {})
      [] algorithm = "regex" -> Occurs(term, text, {AnyLetter})
      [] algorithm = "exact" -> term = text

\* GetSearcher throws for an unknown algorithm, and std::regex for a term that
\* does not compile.
NoSearcher(r) ==
    \/ r.algorithm \notin {"partial", "regex", "exact"}
    \/ r.algorithm = "regex" /\ \E i \in 1..Len(r.term) : r.term[i] = Unclosed

Matches(r, v) ==
    \E key \in r.keys : props[v][key] # NoText /\ HasTerm(r.algorithm, r.term, props[v][key])

Begin(r) ==
    /\ request' = r
    /\ status' = "visiting"
    /\ UNCHANGED <<tree, start, path, ei, hits, options>>

Search(r) ==
    /\ status = "idle"
    /\ \/ ~NoSearcher(r) /\ Begin(r)
       \/ /\ NoSearcher(r)
          /\ status' = "threw"
          /\ UNCHANGED <<tree, start, path, ei, request, hits, options>>

FilterOptions(key) == status = "idle" /\ Begin([command |-> "filteroptions", type |-> key])

\* Mutant: one hit too many.
Full_OffByOne == Len(hits) > request.max_results

Full == Len(hits) >= request.max_results

\* SearchVisitor::discover_vertex.  StopTraversing is caught in ProcessRequest,
\* which then replies with the hits.
SearchDiscover(v) ==
    /\ status = "visiting" /\ request.command = "search" /\ v \in ToEnter
    /\ \/ Full /\ status' = "replied" /\ UNCHANGED <<path, ei, hits>>
       \/ /\ ~Full
          /\ Enter(v, FALSE)
          /\ hits' = IF Matches(request, v) THEN Append(hits, v) ELSE hits
          /\ UNCHANGED status
    /\ UNCHANGED <<tree, start, request, options>>

\* Mutant: a vertex whose parent has an option contributes none.
NewOptions_TopOnly(v) ==
    IF parent[v] # 0 /\ props[parent[v]][request.type] # NoText THEN {}
    ELSE {props[v][request.type]} \ {NoText}

\* Mutant: the type of the value is not looked at.
NewOptions_AnyType(v) == {props[v][request.type]}

NewOptions(v) == {props[v][request.type]} \ {NoText}

\* FilterOptionsVisitor::discover_vertex.
OptionsDiscover(v) ==
    /\ status = "visiting" /\ request.command = "filteroptions" /\ v \in ToEnter
    /\ Enter(v, FALSE)
    /\ options' = options \cup NewOptions(v)
    /\ UNCHANGED <<tree, start, request, status, hits>>

\* Neither visitor does anything when a vertex or an edge is finished; the
\* traversal ends with the start.
Finish ==
    /\ status = "visiting"
    /\ Leave
    /\ status' = IF Len(path) = 1 THEN "replied" ELSE status
    /\ UNCHANGED <<tree, start, request, hits, options>>

\* The reply has gone out; what the visitors collected was local to the call.
Sent ==
    /\ status \in {"replied", "threw"}
    /\ status' = "idle"
    /\ request' = NoRequest
    /\ path' = <<>> /\ ei' = 0
    /\ hits' = <<>> /\ options' = {}
    /\ UNCHANGED <<tree, start>>

-----------------------------------------------------------------------------
Init ==
    /\ parent \in Trees
    /\ InitVisit
    /\ start = 1
    /\ props \in [Vertices -> Shapes \cup {RootShape}]
    /\ \A v \in Vertices : props[v] = RootShape <=> v = 1
    /\ request = NoRequest
    /\ status = "idle"
    /\ hits = <<>> /\ options = {}

Next ==
    \/ \E r \in Searches : Search(r)
    \/ \E key \in Types : FilterOptions(key)
    \/ \E v \in Vertices : SearchDiscover(v) \/ OptionsDiscover(v)
    \/ Finish
    \/ Sent

Spec == Init /\ [][Next]_vars

-----------------------------------------------------------------------------
\* Type invariant.
TypeOK ==
    /\ IsTree(parent) /\ start = 1
    /\ path \in Seq(Vertices) /\ ei \in 0..N
    /\ status \in {"idle", "visiting", "replied", "threw"}
    /\ hits \in Seq(Vertices)
    /\ options \cap {NoText} = {}

\* u comes before v in the order of the tree: above it, or below an older
\* sibling.
Before(u, v) ==
    /\ u # v
    /\ \/ u \in Ancestors[v]
       \/ \E a \in Ancestors[u], b \in Ancestors[v] : parent[a] = parent[b] /\ a < b

\* A search returns the first max_results matches below the root in the order of
\* the tree, each once, and all of them if there are no more; none if
\* max_results is zero or negative.  The limit is tested only when the next
\* vertex is discovered, so the last hit may or may not stop the traversal.
HitsAreFirst ==
    status = "replied" /\ request.command = "search" =>
        LET found == {v \in Below(start) : Matches(request, v)}
            returned == {hits[i] : i \in 1..Len(hits)}
        IN
        /\ returned \subseteq found
        /\ \A i, j \in 1..Len(hits) : i < j => Before(hits[i], hits[j])
        /\ Len(hits) <= IF request.max_results > 0 THEN request.max_results ELSE 0
        /\ \A v \in found \ returned :
              /\ Len(hits) >= request.max_results
              /\ \A u \in returned : Before(u, v)

\* filteroptions returns the value of every vertex below the root, at every
\* level, and no other.
OptionsAreComplete ==
    status = "replied" /\ request.command = "filteroptions" =>
        options = {props[v][request.type] : v \in Below(start)} \ {NoText}
=============================================================================
