----------------------------- MODULE MCInstall -----------------------------
(* Two versions of a model, the second the longer, of a set of two addons  *)
(* and of an app; the second plan asks for the app's setup without a fetch, *)
(* the third for the fetch alone.                                           *)
EXTENDS Install

MCBlocks == [a |-> 2, b |-> 3]
MCOrder == <<"extra", "core">>
MCPins == [v1 |-> [core |-> <<"c1", "p1">>, extra |-> <<"e1", "p1">>],
           v2 |-> [core |-> <<"c1", "p2">>, extra |-> <<"e2", "p1">>]]

MCPlans ==
    {[ver |-> "a", sized |-> FALSE, summed |-> TRUE, set |-> "v1",
      fetch |-> "one", setup |-> "run"],
     [ver |-> "b", sized |-> FALSE, summed |-> FALSE, set |-> "v2",
      fetch |-> "none", setup |-> "more"],
     [ver |-> "a", sized |-> TRUE, summed |-> TRUE, set |-> "v1",
      fetch |-> "two", setup |-> "none"]}
=============================================================================
