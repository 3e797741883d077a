--------------------------- MODULE MCConfigDialog ---------------------------
(***************************************************************************)
(* Small instances of ConfigDialog.  An instrument is new, without a key;  *)
(* keyed, with a key and the name a new one has; or named.                 *)
(***************************************************************************)
EXTENDS ConfigDialog

ThreeSettings == {"new", "keyed", "named"}
NamedByKey ==
    [value \in ThreeSettings |-> IF value = "keyed" THEN "named" ELSE value]

(* A user who empties the configuration, and one who leaves an instrument. *)
TwoConfigs == {<<>>, <<<<"new">>>>}

(* A dashboard with two instruments.                                       *)
OneFile == {<<"new", "named">>}

(* Three instruments at once: two on one dashboard and one on the other.   *)
ThreeInstruments == Cardinality(Live) <= 3
=============================================================================
