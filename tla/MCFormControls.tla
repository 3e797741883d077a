--------------------------- MODULE MCFormControls ---------------------------
(***************************************************************************)
(* A small instance of FormControls.                                       *)
(***************************************************************************)
EXTENDS FormControls

(* A leaf, a path that has values and a child, and the child.              *)
SomePaths == {<<1, 1>>, <<1, 2>>, <<1, 2, 1>>}
SomeKeys ==
    {Key(<<>>, "specific", Unsaid), Key(<<1, 1>>, "specific", Unsaid),
     Key(<<1, 2>>, "specific", 2), Key(<<1, 2>>, "specific", 3),
     Key(<<3>>, "any", Unsaid)}

(* Two of three sources have names that differ only in case.               *)
TwoAlike == [s \in {1, 2, 3} |-> IF s = 3 THEN 2 ELSE s]

Zone(lower, upper, state) == [lower |-> lower, upper |-> upper, state |-> state]
SomeZones ==
    {<<>>, <<Zone(-4, 12, 2), Zone(10, 10, 4)>>, <<Zone(Unsaid, 10, Unsaid)>>}
SomeLimits == {0, 10}

(* The two controls do not meet, so one of them is used at a time; zones   *)
(* are edited from what was configured; and one delta arrives while a key  *)
(* is picked, up to three times for a path and a device not seen before.   *)
(* The third device is one of two at most, and on one path.                *)
OneControl ==
    /\ tree.nodes = {} \/ (dialog # "zones" /\ zone_text = <<>>)
    /\ dialog = "none" \/ \E text \in SomeZones : zone_text = ZonesWritten(Parsed(text))
    /\ LET alike == {pair \in tree.sources : pair[2] = 3}
       IN  /\ alike \subseteq {<<<<1, 2>>, 3>>}
           /\ Cardinality(tree.sources) + Cardinality(alike) <= 3
    /\ dialog = "path" =>
        Cardinality(tree.sources \ browser.tree.sources) <= 1
=============================================================================
