------------------------------- MODULE PubSub -------------------------------
(***************************************************************************)
(* What the subscriptions of DashboardSK promise to an instrument, without *)
(* the subscription map, addresses and dashboards: every reader has a set  *)
(* of subjects, a publication on a subject marks exactly the readers       *)
(* interested in it, and a mark stays until its reader takes it or leaves. *)
(***************************************************************************)
CONSTANTS Readers, Subjects

VARIABLES
    interest,   \* the subjects of each reader
    pending     \* the readers with something new to look at

vars == <<interest, pending>>

Init ==
    /\ interest = [r \in Readers |-> {}]
    /\ pending = {}

Publish(subject) ==
    /\ pending' = pending \cup {r \in Readers : subject \in interest[r]}
    /\ UNCHANGED interest

Take(r) ==
    /\ pending' = pending \ {r}
    /\ UNCHANGED interest

(* A reader changes its mind; what it was told before stays told.          *)
Rekey(r) ==
    /\ interest' \in [Readers -> SUBSET Subjects]
    /\ \A q \in Readers \ {r} : interest'[q] = interest[q]
    /\ UNCHANGED pending

Leave(gone) ==
    /\ interest' = [r \in Readers |-> IF r \in gone THEN {} ELSE interest[r]]
    /\ pending' = pending \ gone

(* Everybody leaves and a new set of readers comes.                        *)
Reload ==
    /\ interest' \in [Readers -> SUBSET Subjects]
    /\ pending' = {}

Next ==
    \/ \E subject \in Subjects : Publish(subject)
    \/ \E r \in Readers : Take(r) \/ Rekey(r)
    \/ \E gone \in SUBSET Readers : Leave(gone)
    \/ Reload

Spec == Init /\ [][Next]_vars
=============================================================================
