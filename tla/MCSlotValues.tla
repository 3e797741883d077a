---------------------------- MODULE MCSlotValues ----------------------------
(***************************************************************************)
(* Small instances of SlotValues.                                          *)
(***************************************************************************)
EXTENDS SlotValues

(* Two sources of one path and one of another.  The first slot follows one *)
(* of the former, the second the other one, or the other path.             *)
ThreeSensors == {<<"heading", 1>>, <<"heading", 2>>, <<"wind", 1>>}
KeysOfSlots ==
    [slot \in Slots |->
        IF slot = "heading" THEN {NoKey, <<"heading", 1>>}
        ELSE {NoKey, <<"heading", 2>>, <<"wind", 1>>}]
=============================================================================
