------------------------------- MODULE MCPages -------------------------------
(***************************************************************************)
(* Small instances of Pages.                                               *)
(***************************************************************************)
EXTENDS Pages, TLC

(* The dashboards are interchangeable in everything below.                 *)
Symmetry == Permutations(Dashboards)

(* A user who empties the configuration, and one who moves everything to   *)
(* page 2 of the second canvas and leaves the selected pages out.          *)
Everywhere(place) == [d \in Dashboards |-> place]
NoneSelected == [c \in Canvases |-> NoPage]
TwoConfigs ==
    {[dashboards |-> Everywhere(NoPlace), current |-> NoneSelected],
     [dashboards |-> Everywhere([canvas |-> 1, page |-> 2]),
      current |-> NoneSelected]}
=============================================================================
