--------------------------- MODULE HierarchyById ---------------------------
(* What the in-memory hierarchy promises clients that use every id once: a  *)
(* forest of nodes that are known by their ids, below at most one root, and *)
(* an archive of it.  There are no vertices, no descriptors and no index.   *)
EXTENDS Naturals

CONSTANTS ClientIds, RootId, Data, NoParent, Absent

VARIABLES
    node,       \* id -> its node, or Nil
    rooted,     \* whether there is a root
    archive     \* the node and rooted that were saved last; empty before that

Nil == [up |-> Absent, parent_id |-> Absent, data |-> Absent]
Present == {i \in ClientIds : node[i] # Nil}

\* i and the nodes that hang below it.
Subtree(i) ==
    {j \in Present : \A S \in SUBSET Present :
        i \in S /\ (\A k \in Present : node[k].up \in S => k \in S) => j \in S}

NoNodes == [i \in ClientIds |-> Nil]

Init ==
    /\ node = NoNodes /\ rooted = FALSE
    /\ archive = [node |-> NoNodes, rooted |-> FALSE]

\* A second root takes the place of the first, whose children hang nowhere.
AddRoot ==
    /\ rooted' = TRUE
    /\ node' = [i \in ClientIds |->
                  IF node[i].up = RootId THEN [node[i] EXCEPT !.up = Absent] ELSE node[i]]
    /\ UNCHANGED archive

\* Where a new node hangs: below the node it names, if there is one by then, and
\* for good; below the root, if it names none.  One that names the root by its
\* id may hang below it or nowhere.
Place(parent_id) ==
    IF parent_id \in Present THEN {parent_id}
    ELSE IF parent_id \in ClientIds THEN {Absent}
    ELSE IF parent_id = RootId THEN {RootId, Absent} ELSE {RootId}

Add(i, parent_id, data) ==
    /\ \E up \in Place(parent_id) :
        /\ up = RootId => rooted
        /\ node' = [node EXCEPT ![i] = [up |-> up, parent_id |-> parent_id, data |-> data]]
    /\ UNCHANGED <<rooted, archive>>

Change(i, data) ==
    /\ node' = [node EXCEPT ![i].data = data]
    /\ UNCHANGED <<rooted, archive>>

Remove(i) ==
    /\ node' = [j \in ClientIds |-> IF j \in Subtree(i) THEN Nil ELSE node[j]]
    /\ UNCHANGED <<rooted, archive>>

Save ==
    /\ archive' = [node |-> node, rooted |-> rooted]
    /\ UNCHANGED <<node, rooted>>

Load ==
    /\ node' = archive.node /\ rooted' = archive.rooted
    /\ UNCHANGED archive

Clear ==
    /\ node' = NoNodes /\ rooted' = FALSE
    /\ UNCHANGED archive

Next ==
    \/ AddRoot \/ Save \/ Load \/ Clear
    \/ \E i \in Present : Remove(i) \/ \E d \in Data : Change(i, d)
    \/ \E i \in ClientIds \ Present, p \in ClientIds \cup {RootId, NoParent, Absent},
          d \in Data : Add(i, p, d)

Spec == Init /\ [][Next]_<<node, rooted, archive>>
=============================================================================
