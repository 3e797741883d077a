--------------------------- MODULE MCSignalKStore ---------------------------
(***************************************************************************)
(* Small instances of SignalKStore.  canon is an identifier in normal      *)
(* form, raw one that NormalizeID turns into canon (a bare MMSI).          *)
(***************************************************************************)
EXTENDS SignalKStore, TLC

CONSTANTS canon, raw, a, b, d1, d2, speed, depth, count

MCNormalForm == [id \in Ids |-> canon]

At(id) == [id |-> id, nested |-> FALSE]
Key(context, path, source, member) ==
    [context |-> context, path |-> path, member |-> member, source |-> source]

(* Two paths of the own vessel.                                            *)
PlainKeys ==
    {Key(At(canon), p, NoSource, Scalar) : p \in Paths}
SpeedKey == Key(At(canon), speed, NoSource, Scalar)

(* Keys with every kind of source.                                         *)
SourceKeys ==
    {Key(At(canon), p, s, Scalar) :
        p \in Paths, s \in Sources \cup {NoSource, AnySource}}

Message(id, context, path, source, fields) ==
    [self |-> id, context |-> context, path |-> path, source |-> source,
     fields |-> fields]

(* Values of the own vessel, one of them complex and from a source, one of *)
(* a vessel that is spelled differently, and a null that names no vessel.  *)
MixedMessages ==
    {Message(raw, NoId, speed, NoSource, {Scalar}),
     Message(NoId, canon, speed, 1, {count}),
     Message(NoId, raw, speed, NoSource, {Scalar}),
     Message(NoId, NoId, speed, NoSource, {})}

(* Values of the own vessel with one of the sources or none, a complex     *)
(* one, and values under an explicit "vessels.self".                       *)
TreeMessages ==
    {Message(id, NoId, speed, s, {Scalar}) :
        id \in {NoId, raw}, s \in Sources \cup {NoSource}}
    \cup {Message(NoId, NoId, speed, s, {m}) :
        s \in Sources \cup {NoSource}, m \in Members}
    \cup {Message(NoId, SelfWord, speed, NoSource, {Scalar}),
          Message(NoId, canon, speed, NoSource, {})}

Layout(id, dbs, own, cls, keys) ==
    [self |-> id, dashboards |-> dbs, owner |-> own, class |-> cls,
     sk_key |-> keys]
Guarded == [i \in Instruments |-> "guarded"]
Bare == [i \in Instruments |-> NoKeys]

EmptyConfig ==
    Layout(Absent, {}, [i \in Instruments |-> NoDashboard], Guarded, Bare)

OnlyOn(d, i) ==
    [j \in Instruments |-> IF j = i THEN d ELSE NoDashboard]
(* One instrument with one key, on the only dashboard.                     *)
SingleConfig(d, i) ==
    Layout(raw, {d}, OnlyOn(d, i), Guarded, [Bare EXCEPT ![i][1] = SpeedKey])
(* A combined instrument at the address that may hold another one.         *)
CombinedConfig(d, i) ==
    Layout(Absent, {d}, OnlyOn(d, i), [Guarded EXCEPT ![i] = "combined"],
           [Bare EXCEPT ![i] = [s \in Slots |-> SpeedKey]])

NoConfigs == {EmptyConfig}
FewConfigs ==
    UNION {{SingleConfig(d, i), CombinedConfig(d, i)} :
              d \in Dashboards, i \in Instruments}

(* Addresses are alike.                                                    *)
Symmetry == Permutations(Instruments) \cup Permutations(Dashboards)
=============================================================================
