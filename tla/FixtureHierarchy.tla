-------------------------- MODULE FixtureHierarchy --------------------------
(* NodesQuery on the hierarchy that is kept beside the unit tests: a         *)
(* populate_graph request of 191 nodes (hierarchy_dump.cpp), added to an     *)
(* empty graph with a root.  Three of the nodes name each other as parents,  *)
(* in a circle, and the elements of one model name an id that no node has.   *)
(*                                                                           *)
(* The id of Level1-a->Level2-b->Level3-c is <<a, b, c>>; <<0, ...>> are the *)
(* illegal entries.                                                          *)
EXTENDS MCNodesQuery

\* The folders, in the order of the request.
FolderIds == <<<<2>>, <<0>>, <<1>>, <<2, 1>>, <<2, 3>>, <<2, 2>>, <<1, 2>>, <<1, 3>>,
               <<0, 0>>, <<1, 1>>>>

\* The models, and an illegal entry among them.  The second is Level3-1 of
\* Level1-2->Level2-3, under an id that differs from what its elements name.
ModelIds == <<<<2, 1, 2>>, <<2, 3, 0>>, <<1, 3, 2>>, <<1, 2, 1>>, <<1, 3, 3>>, <<2, 1, 1>>,
              <<0, 0, 0>>, <<2, 2, 3>>, <<2, 2, 2>>, <<2, 1, 3>>, <<1, 2, 2>>, <<2, 3, 3>>,
              <<2, 2, 1>>, <<2, 3, 2>>, <<1, 1, 3>>, <<1, 1, 2>>, <<1, 1, 1>>, <<1, 3, 1>>,
              <<1, 2, 3>>>>

\* The elements of a model, and the KPI groups they belong to.
Elements == <<"input0", "input0", "input0", "output0", "input1", "input1", "input1",
              "output1", "plot">>
KpiGroups == <<"g1", "g2", "g3", "g1", "g1", "g2", "g3", "g1", None>>

\* Which elements are suppressed, for the nine models of Level1-1 and Level1-2.
SuppressedLevel1_1 == <<
    {"input0", "output0", "input1", "output1"}, {"output1", "plot"},
    {"output0", "input1", "output1"}, {"output0", "output1", "plot"},
    {"output0", "output1"}, {"input1"}, {"input0", "input1", "output1", "plot"},
    {"input1", "output1"}, {"input0", "output0", "input1"}>>
SuppressedLevel1_2 == <<
    {"output0"}, {}, {"input0", "output1", "plot"},
    {"output0", "input1", "output1", "plot"}, {"input1"}, {"output1"}, {"input1"},
    {"input1", "output1"}, {"input0", "output0"}>>

\* Nine elements for each of the 18 models, model after model.
ElementId(n) ==
    LET model == (n - 1) \div 9 IN
    <<(model \div 9) + 1, ((model % 9) \div 3) + 1, (model % 3) + 1, ((n - 1) % 9) + 1>>
Ids == FolderIds \o ModelIds \o [n \in 1..162 |-> ElementId(n)]
IdOf(v) == Ids[v - 1]

\* What a node names as its parent; the empty sequence is None.
ParentId(id) == IF id = <<0>> THEN <<0, 0, 0>> ELSE SubSeq(id, 1, Len(id) - 1)

Owners == <<"owner1", "owner2">>
Classes == <<"class1", "class2">>
ElementShape(id) ==
    LET suppressed == (SuppressedLevel1_1 \o SuppressedLevel1_2)
                          [9 * (id[1] - 1) + 3 * (id[2] - 1) + id[3]]
    IN  Leaf(KpiGroups[id[4]], Elements[id[4]] \in suppressed, NoSeverity)
Shape(id) ==
    IF Len(id) = 4 THEN ElementShape(id)
    ELSE IF Len(id) = 3 /\ id[1] # 0 THEN Model(Owners[id[1]], Classes[id[1]])
    ELSE [Folder EXCEPT !.levelno = Len(id)]

\* Mutant: the parent is looked for in the whole request.
Known_WholeRequest(v) == 2..N

\* The vertices whose ids are in the index when vertex v is added.
Known(v) == 2..(v - 1)

\* Mutant: a node whose parent is not found hangs on the root.
PopulatedParent_OnRoot(v) ==
    LET p == ParentId(IdOf(v))
        found == {u \in Known(v) : IdOf(u) = p}
    IN  IF found = {} THEN 1 ELSE CHOOSE u \in found : \A w \in found : w <= u

\* The loop of populate_graph: the parent is the vertex that is found under the
\* parent_id at that time, the root if the node names none.
PopulatedParent(v) ==
    LET p == ParentId(IdOf(v))
        found == {u \in Known(v) : IdOf(u) = p}
    IN  IF p = <<>> THEN 1
        ELSE IF found = {} THEN 0 ELSE CHOOSE u \in found : \A w \in found : w <= u

FixtureInit ==
    /\ parent = [v \in Vertices |-> IF v = 1 THEN 0 ELSE PopulatedParent(v)]
    /\ props = [v \in Vertices |-> IF v = 1 THEN RootShape ELSE Shape(IdOf(v))]
    /\ InitQuery

\* Requests for the children of any vertex that is no element.
FixtureNext ==
    \/ \E v \in Vertices, f \in Filters : ~Element(v) /\ Request(v, f)
    \/ \E v \in Vertices : Discover(v)
    \/ Finish
    \/ Reply
    \/ Sent

FixtureSpec == FixtureInit /\ [][FixtureNext]_vars

\* The filters that the unit tests use, alone and together.
FixtureFilters ==
    LET both == [NoFilter EXCEPT !.l1filter = {2}, !.kpifilter = {"g1", "g3"}] IN
    {NoFilter, [NoFilter EXCEPT !.l1filter = {4}], [NoFilter EXCEPT !.kpifilter = {"g2"}],
     [NoFilter EXCEPT !.modelownerfilter = {"owner1"}],
     [NoFilter EXCEPT !.modelclassfilter = {"class2"}, !.kpifilter = {"g1"}], both}

-----------------------------------------------------------------------------
(* The replies, from the request that populated the hierarchy.  Neither     *)
(* vertices nor edges are looked at: only ids, and their order.              *)

Position == [id \in {Ids[i] : i \in 1..Len(Ids)} |-> CHOOSE i \in 1..Len(Ids) : Ids[i] = id]

\* The node is in the request and so is, before it, what it names as its parent.
Joined(id) ==
    /\ id \in DOMAIN Position
    /\ \/ ParentId(id) = <<>>
       \/ /\ ParentId(id) \in DOMAIN Position
          /\ Position[ParentId(id)] < Position[id]

\* The element is below the node p (<<>> for the root), and no link in between is
\* missing from the request.
HangsBelow(p, id) ==
    /\ SubSeq(id, 1, Len(p)) = p
    /\ \A k \in (Len(p) + 1)..Len(id) : Joined(SubSeq(id, 1, k))

\* The filters, by the Level1 entry that the id begins with, by the owner and class
\* of its model and by the KPI group of the element.  A request below a Level1 entry
\* has passed it already.
Admitted(p, id) ==
    /\ \/ filter.l1filter = {} \/ Len(p) > 1
       \/ \E v \in filter.l1filter : IdOf(v) = SubSeq(id, 1, 1)
    /\ filter.modelownerfilter = {} \/ Owners[id[1]] \in filter.modelownerfilter
    /\ filter.modelclassfilter = {} \/ Classes[id[1]] \in filter.modelclassfilter
    /\ filter.kpifilter = {} \/ KpiGroups[id[4]] \in filter.kpifilter

\* Whatever vertex is asked for, a reply names the next entries of the ids of the
\* admitted elements below it, and their models: all elements that the request ties
\* to that vertex without a gap, and none of those that hang on the circle, on the
\* id that no node has, or on a node that came later.
ReplyFollowsRequest ==
    status = "replied" =>
        LET p == IF start = 1 THEN <<>> ELSE IdOf(start)
            returned == {id \in {ElementId(n) : n \in 1..162} :
                             HangsBelow(p, id) /\ Admitted(p, id)}
        IN  /\ {IdOf(c) : c \in DOMAIN reply} = {SubSeq(id, 1, Len(p) + 1) : id \in returned}
            /\ \A c \in DOMAIN reply :
                  {IdOf(m) : m \in reply[c].model_ids}
                      = {ParentId(id) : id \in {id \in returned :
                                                   SubSeq(id, 1, Len(p) + 1) = IdOf(c)}}
=============================================================================
