----------------------------- MODULE MCSvgSkin -----------------------------
(***************************************************************************)
(* Small instances of SvgSkin: a skin like the bundled wind angle, one     *)
(* like the tachometer, and one a user may draw, with values in two slots. *)
(***************************************************************************)
EXTENDS SvgSkin

OnlyFirst(path) == [slot \in Slots |-> IF slot = 0 THEN path ELSE NoPath]
WindAngle ==
    [path |-> OnlyFirst("angle"), zones |-> NoZones, scale |-> NoScale,
     used |-> {0}, coloured |-> FALSE]
Tachometer ==
    [path |-> OnlyFirst("revolutions"), zones |-> "red", scale |-> <<0, 2>>,
     used |-> {0}, coloured |-> TRUE]
OwnSkin ==
    [path |-> OnlyFirst(NoPath), zones |-> NoZones, scale |-> NoScale,
     used |-> {0, 1}, coloured |-> TRUE]

TwoBundled ==
    [name \in Names |->
        IF name = "wind" THEN WindAngle
        ELSE IF name = "tachometer" THEN Tachometer ELSE Missing]
(* A skin imported in the place of the default one, with a scale.          *)
OwnDefault == [OwnSkin EXCEPT !.scale = <<0, 1>>]
TwoImports == {<<"own", OwnSkin>>, <<"wind", OwnDefault>>}
=============================================================================
