---------------------------- MODULE MCNodesQuery ----------------------------
(* NodesQuery on every tree of N vertices whose vertices have one of a few *)
(* shapes.                                                                 *)
EXTENDS NodesQuery

None == "None"
MCRoot == [levelno |-> 0, type |-> Absent, is_modelelement |-> FALSE,
           modelowner |-> Absent, modelclass |-> Absent, kpigroup_id |-> Absent,
           issuppressed |-> FALSE, severity |-> NoSeverity,
           dataaccesslevel |-> Absent, bad |-> ""]
Folder == [MCRoot EXCEPT !.levelno = 1, !.type = "folder", !.modelowner = None,
                         !.modelclass = None]
Model(owner, class) == [MCRoot EXCEPT !.levelno = 3, !.type = "model",
                                      !.modelowner = owner, !.modelclass = class]
Leaf(kpi, suppressed, severity) ==
    [MCRoot EXCEPT !.levelno = 4, !.type = "modelElement", !.is_modelelement = TRUE,
                   !.kpigroup_id = kpi, !.issuppressed = suppressed, !.severity = severity]

\* Shapes and filters that tell apart every case of the visitor and of the
\* terminator function, properties of the wrong type included.
MCShapes == {Folder, Model("o", "k"), Model(None, "k"), Leaf("g", FALSE, 1),
             Leaf("h", TRUE, 2),
             [Leaf(None, FALSE, NoSeverity) EXCEPT !.dataaccesslevel = "internal"],
             [Folder EXCEPT !.bad = "levelno"], [Folder EXCEPT !.bad = "type"],
             [Leaf("g", TRUE, 1) EXCEPT !.bad = "finish_edge"]}
MCFilters == {NoFilter, [NoFilter EXCEPT !.l1filter = {2}],
              [NoFilter EXCEPT !.modelownerfilter = {"o"}, !.kpifilter = {"g"}],
              [NoFilter EXCEPT !.modelclassfilter = {"j"}]}

\* For access levels: folders and elements, with a level or without.
AccessShapes ==
    {Folder, Leaf("g", FALSE, NoSeverity)}
        \cup {[s EXCEPT !.dataaccesslevel = "internal"] : s \in {Folder, Leaf("g", FALSE, 1)}}
Unfiltered == {NoFilter}
=============================================================================
