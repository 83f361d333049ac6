---------------------------- MODULE MCSearchQuery ----------------------------
(* SearchQuery on every tree of N vertices whose texts are taken from a few. *)
EXTENDS SearchQuery

Keys == {"name", "tag"}
MCRoot == [key \in Keys |-> NoText]
MCShapes == {[name |-> <<"a", "b">>, tag |-> NoText],
             [name |-> <<"b">>, tag |-> <<"a">>],
             [name |-> <<>>, tag |-> <<"b">>],
             [name |-> NoText, tag |-> <<"a", "b">>]}
Terms == {<<>>, <<"b">>, <<"a", "b">>, <<AnyLetter, "b">>, <<Unclosed>>}

MCSearches ==
    [command : {"search"}, algorithm : {"partial", "regex", "exact"}, term : Terms,
     keys : {{"name"}, Keys}, max_results : {-1, 0, 1, 2, 4}]
    \cup [command : {"search"}, algorithm : {"fuzzy"}, term : {<<"b">>},
          keys : {Keys}, max_results : {1}]
=============================================================================
