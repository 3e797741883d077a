---------------------------- MODULE MCSourceLock ----------------------------
(***************************************************************************)
(* Small instances of SourceLock.                                          *)
(***************************************************************************)
EXTENDS SourceLock

CONSTANTS wind, depth

WindPersist == [base |-> wind, mode |-> "lockpersist"]
WindFirst == [base |-> wind, mode |-> "lockfirst"]
WindAny == [base |-> wind, mode |-> "any"]
DepthPersist == [base |-> depth, mode |-> "lockpersist"]

(* An instrument with one path in all modes, and two paths with a          *)
(* persistent lock.                                                        *)
FourKeys == {WindPersist, WindFirst, WindAny, DepthPersist}
OnlyPersist == {WindPersist}

(* A named source and the direct one on one path, the former also on the   *)
(* other; and two named sources.                                           *)
ThreeSensors == {<<wind, 1>>, <<wind, Direct>>, <<depth, 1>>}
NamedSensors == {<<wind, 1>>, <<wind, 2>>}
=============================================================================
