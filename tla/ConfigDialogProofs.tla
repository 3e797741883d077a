-------------------------- MODULE ConfigDialogProofs --------------------------
(***************************************************************************)
(* Theorems about ConfigDialog, for any number of dashboards and of        *)
(* instruments, any settings, and whatever the user types, imports and     *)
(* makes of the configuration.                                             *)
(***************************************************************************)
EXTENDS ConfigDialog, SequenceTheorems, TLAPS

(* The instruments of a dashboard: its own ones, none of them twice.       *)
OwnOnly(d, list) == \A n \in 1 .. Len(list) : list[n][1] = d
NoneTwice(list) ==
    \A n, m \in 1 .. Len(list) : list[n] = list[m] => n = m
IsList(d, list) ==
    /\ list \in Seq(Instruments)
    /\ Len(list) <= MaxInstruments
    /\ OwnOnly(d, list)
    /\ NoneTwice(list)

AreObjects(dbs, insts, set) ==
    /\ dbs \in Seq(Dashboards) /\ Len(dbs) <= MaxDashboards
    /\ insts \in [Dashboards -> Seq(Instruments)]
    /\ \A d \in Dashboards : IsList(d, insts[d])
    /\ set \in [Instruments -> Settings]

(* What the dialog u is to the objects: its dashboard is the selected one, *)
(* its instrument is on that, its list is no longer than the one of the    *)
(* dashboard (an entry may have been dropped), and is that one as long as  *)
(* an entry is selected.                                                   *)
Pointed(u, dbs) ==
    /\ u.combo \in 0 .. Len(dbs)
    /\ u.dashboard = ElementAt(dbs, u.combo)
Edits(u, insts) ==
    u.instrument # NoObject =>
        u.dashboard # NoObject /\ u.instrument \in ToSet(insts[u.dashboard])
Listed(u, insts) ==
    IF u.dashboard = NoObject THEN u.list = <<>>
    ELSE Len(u.list) <= Len(insts[u.dashboard])
Selects(u, insts) ==
    /\ u.sel \in 0 .. Len(u.list)
    /\ u.sel # 0 => u.list = insts[u.dashboard]
Shown(u) ==
    /\ u.form.of = u.instrument
    /\ u.instrument # NoObject => u.form.value \in Settings

Consistent(u, dbs, insts) ==
    /\ u \in Dialogs
    /\ Pointed(u, dbs)
    /\ Edits(u, insts)
    /\ Listed(u, insts)
    /\ Selects(u, insts)
    /\ Shown(u)

ObjectsOK == AreObjects(dashboards, instruments, setting)
DialogConsistent == Editing => Consistent(ui, dashboards, instruments)

IInv ==
    /\ TypeOK
    /\ ObjectsOK
    /\ DialogConsistent
    /\ ControlsShowEdited

-----------------------------------------------------------------------------
(* Lemmas about sequences.                                                 *)

LEMMA Bounded ==
    ASSUME NEW S, NEW max \in Nat, NEW seq
    PROVE  seq \in BoundedSeq(S, max) <=> seq \in Seq(S) /\ Len(seq) <= max
<1>1. BoundedSeq(S, max) = UNION {[1 .. n -> S] : n \in 0 .. max}
  BY DEF BoundedSeq, SeqOf
<1>2. ASSUME seq \in BoundedSeq(S, max)
      PROVE  seq \in Seq(S) /\ Len(seq) <= max
  <2>1. PICK n \in 0 .. max : seq \in [1 .. n -> S]
    BY <1>1, <1>2
  <2>2. n \in Nat /\ n <= max
    OBVIOUS
  <2>3. seq \in Seq(S)
    BY <2>1, <2>2, SeqDef
  <2>4. Len(seq) = n
    BY <2>1, <2>2, <2>3, LenProperties
  <2> QED
    BY <2>2, <2>3, <2>4
<1>3. ASSUME seq \in Seq(S), Len(seq) <= max
      PROVE  seq \in BoundedSeq(S, max)
  <2>1. seq \in [1 .. Len(seq) -> S] /\ Len(seq) \in 0 .. max
    BY <1>3, LenProperties
  <2> QED
    BY <1>1, <2>1
<1> QED
  BY <1>2, <1>3

LEMMA InToSet ==
    ASSUME NEW S, NEW seq \in Seq(S), NEW x
    PROVE  x \in ToSet(seq) <=> \E n \in 1 .. Len(seq) : seq[n] = x
BY DEF ToSet

LEMMA ElementAtType ==
    ASSUME NEW S, NEW seq \in Seq(S), NEW n
    PROVE  /\ n \in 1 .. Len(seq) =>
                ElementAt(seq, n) = seq[n] /\ seq[n] \in S
           /\ n \notin 1 .. Len(seq) => ElementAt(seq, n) = NoObject
BY DEF ElementAt

LEMMA NothingAtZero ==
    ASSUME NEW S, NEW seq \in Seq(S)
    PROVE  ElementAt(seq, 0) = NoObject
<1>1. Len(seq) \in Nat /\ 0 \notin 1 .. Len(seq)
  OBVIOUS
<1> QED
  BY <1>1, ElementAtType

LEMMA RemoveAtType ==
    ASSUME NEW S, NEW seq \in Seq(S), NEW n \in 1 .. Len(seq)
    PROVE  /\ RemoveAt(seq, n) \in Seq(S)
           /\ Len(RemoveAt(seq, n)) = Len(seq) - 1
           /\ \A k \in 1 .. Len(seq) - 1 :
                RemoveAt(seq, n)[k] = IF k < n THEN seq[k] ELSE seq[k + 1]
<1> DEFINE head == SubSeq(seq, 1, n - 1)
           tail == SubSeq(seq, n + 1, Len(seq))
<1>1. Len(seq) \in Nat /\ n \in Nat /\ 1 <= n /\ n <= Len(seq)
  OBVIOUS
<1>2. /\ head \in Seq(S) /\ Len(head) = n - 1
      /\ \A k \in 1 .. n - 1 : head[k] = seq[k]
  BY <1>1
<1>3. /\ tail \in Seq(S) /\ Len(tail) = Len(seq) - n
      /\ \A k \in 1 .. Len(seq) - n : tail[k] = seq[n + k]
  BY <1>1
<1>4. RemoveAt(seq, n) = head \o tail
  BY DEF RemoveAt
<1> HIDE DEF head, tail
<1>5. /\ head \o tail \in Seq(S)
      /\ Len(head \o tail) = Len(seq) - 1
      /\ \A k \in 1 .. Len(seq) - 1 :
            (head \o tail)[k] = IF k <= n - 1 THEN head[k]
                                ELSE tail[k - (n - 1)]
  <2>1. /\ head \o tail \in Seq(S)
        /\ Len(head \o tail) = Len(head) + Len(tail)
        /\ \A k \in 1 .. Len(head) + Len(tail) :
              (head \o tail)[k] = IF k <= Len(head) THEN head[k]
                                  ELSE tail[k - Len(head)]
    BY <1>2, <1>3, ConcatProperties
  <2>2. Len(head) + Len(tail) = Len(seq) - 1
    BY <1>1, <1>2, <1>3
  <2> QED
    BY <1>2, <2>1, <2>2
<1>6. ASSUME NEW k \in 1 .. Len(seq) - 1
      PROVE  (head \o tail)[k] = IF k < n THEN seq[k] ELSE seq[k + 1]
  <2>1. CASE k < n
    <3>1. k \in 1 .. n - 1
      BY <1>1, <2>1
    <3> QED
      BY <1>1, <1>2, <1>5, <2>1, <3>1
  <2>2. CASE ~(k < n)
    <3>1. k - (n - 1) \in 1 .. Len(seq) - n /\ n + (k - (n - 1)) = k + 1
      BY <1>1, <2>2
    <3>2. ~(k <= n - 1)
      BY <1>1, <2>2
    <3> QED
      BY <1>3, <1>5, <2>2, <3>1, <3>2
  <2> QED
    BY <2>1, <2>2
<1> QED
  BY <1>4, <1>5, <1>6

LEMMA SwappedType ==
    ASSUME NEW S, NEW seq \in Seq(S), NEW n \in Nat, NEW m \in Nat, n # m
    PROVE  /\ Swapped(seq, n, m) \in Seq(S)
           /\ Len(Swapped(seq, n, m)) = Len(seq)
           /\ n \in 1 .. Len(seq) /\ m \in 1 .. Len(seq) =>
                \A k \in 1 .. Len(seq) :
                    Swapped(seq, n, m)[k] =
                        IF k = n THEN seq[m]
                        ELSE IF k = m THEN seq[n] ELSE seq[k]
           /\ ~(n \in 1 .. Len(seq) /\ m \in 1 .. Len(seq)) =>
                Swapped(seq, n, m) = seq
<1>1. DOMAIN seq = 1 .. Len(seq)
  OBVIOUS
<1>2. CASE ~(n \in 1 .. Len(seq) /\ m \in 1 .. Len(seq))
  BY <1>1, <1>2 DEF Swapped
<1>3. CASE n \in 1 .. Len(seq) /\ m \in 1 .. Len(seq)
  <2>1. Swapped(seq, n, m) = [[seq EXCEPT ![n] = seq[m]] EXCEPT ![m] = seq[n]]
    BY <1>1, <1>3 DEF Swapped
  <2>2. seq[n] \in S /\ seq[m] \in S
    BY <1>3
  <2>3. [seq EXCEPT ![n] = seq[m]] \in Seq(S)
    BY <1>3, <2>2, ExceptSeq
  <2>4. Len([seq EXCEPT ![n] = seq[m]]) = Len(seq)
    BY <1>3, <2>2, ExceptSeq
  <2> QED
    BY <1>1, <1>3, <2>1, <2>2, <2>3, <2>4, ExceptSeq
<1> QED
  BY <1>2, <1>3

(* An entry that is moved by one place is exchanged with its neighbour.    *)
LEMMA InsertedIsSwapped ==
    ASSUME NEW S, NEW seq \in Seq(S),
           NEW n \in 1 .. Len(seq), NEW m \in 1 .. Len(seq),
           m = n - 1 \/ m = n + 1
    PROVE  InsertAt(RemoveAt(seq, n), m, seq[n]) = Swapped(seq, n, m)
<1> DEFINE rest == RemoveAt(seq, n)
           head == SubSeq(rest, 1, m - 1)
           tail == SubSeq(rest, m, Len(rest))
           moved == InsertAt(rest, m, seq[n])
<1>1. /\ Len(seq) \in Nat /\ n \in Nat /\ m \in Nat /\ n # m
      /\ 1 <= n /\ n <= Len(seq) /\ 1 <= m /\ m <= Len(seq)
  OBVIOUS
<1>2. /\ rest \in Seq(S)
      /\ Len(rest) = Len(seq) - 1
      /\ \A k \in 1 .. Len(seq) - 1 :
            rest[k] = IF k < n THEN seq[k] ELSE seq[k + 1]
  BY RemoveAtType
<1>3. moved = (head \o <<seq[n]>>) \o tail
  BY DEF InsertAt
<1> HIDE DEF rest, moved
<1>4. /\ head \in Seq(S) /\ Len(head) = m - 1
      /\ \A k \in 1 .. m - 1 : head[k] = rest[k]
  BY <1>1, <1>2
<1>5. /\ tail \in Seq(S) /\ Len(tail) = Len(seq) - m
      /\ \A k \in 1 .. Len(seq) - m : tail[k] = rest[(m - 1) + k]
  BY <1>1, <1>2
<1> HIDE DEF head, tail
<1>6. seq[n] \in S /\ <<seq[n]>> \in Seq(S) /\ Len(<<seq[n]>>) = 1
      /\ <<seq[n]>>[1] = seq[n]
  OBVIOUS
<1>7. /\ head \o <<seq[n]>> \in Seq(S)
      /\ Len(head \o <<seq[n]>>) = m
      /\ \A k \in 1 .. m - 1 : (head \o <<seq[n]>>)[k] = rest[k]
      /\ (head \o <<seq[n]>>)[m] = seq[n]
  <2> DEFINE last == <<seq[n]>>
  <2>1. last \in Seq(S) /\ Len(last) = 1 /\ last[1] = seq[n]
    BY <1>6
  <2> HIDE DEF last
  <2>2. /\ head \o last \in Seq(S)
        /\ Len(head \o last) = Len(head) + Len(last)
        /\ \A k \in 1 .. Len(head) + Len(last) :
              (head \o last)[k] = IF k <= Len(head) THEN head[k]
                                  ELSE last[k - Len(head)]
    BY <1>4, <2>1, ConcatProperties
  <2>3. m - 1 + 1 = m /\ m \in Nat \ {0}
    BY <1>1
  <2>4. /\ Len(head \o last) = m
        /\ \A k \in 1 .. m - 1 : (head \o last)[k] = head[k]
        /\ (head \o last)[m] = last[1]
    BY <1>4, <2>1, <2>2, <2>3
  <2> QED
    BY <1>4, <2>1, <2>2, <2>4 DEF last
<1>8. /\ moved \in Seq(S)
      /\ Len(moved) = Len(seq)
      /\ \A k \in 1 .. Len(seq) :
            moved[k] = IF k <= m THEN (head \o <<seq[n]>>)[k]
                       ELSE tail[k - m]
  <2> DEFINE first == head \o <<seq[n]>>
  <2> HIDE DEF first
  <2>1. /\ first \in Seq(S) /\ Len(first) = m /\ moved = first \o tail
    BY <1>3, <1>7 DEF first
  <2>2. /\ first \o tail \in Seq(S)
        /\ Len(first \o tail) = Len(first) + Len(tail)
        /\ \A k \in 1 .. Len(first) + Len(tail) :
              (first \o tail)[k] = IF k <= Len(first) THEN first[k]
                                   ELSE tail[k - Len(first)]
    BY <1>5, <2>1, ConcatProperties
  <2>3. Len(first) + Len(tail) = Len(seq)
    BY <1>1, <1>5, <2>1
  <2> QED
    BY <2>1, <2>2, <2>3 DEF first
<1>9. ASSUME NEW k \in 1 .. Len(seq)
      PROVE  moved[k] = IF k < m THEN rest[k]
                        ELSE IF k = m THEN seq[n] ELSE rest[k - 1]
  <2>1. CASE k < m
    <3>1. k \in 1 .. m - 1 /\ k <= m
      BY <1>1, <2>1
    <3> QED
      BY <1>7, <1>8, <2>1, <3>1
  <2>2. CASE k = m
    BY <1>1, <1>7, <1>8, <2>2
  <2>3. CASE k > m
    <3>1. k - m \in 1 .. Len(seq) - m /\ (m - 1) + (k - m) = k - 1
      BY <1>1, <2>3
    <3> QED
      BY <1>1, <1>5, <1>8, <2>3, <3>1
  <2> QED
    BY <1>1, <2>1, <2>2, <2>3
<1>10. ASSUME NEW k \in 1 .. Len(seq)
       PROVE  moved[k] = IF k = n THEN seq[m]
                         ELSE IF k = m THEN seq[n] ELSE seq[k]
  <2>1. CASE k < m
    <3>1. k \in 1 .. Len(seq) - 1
      BY <1>1, <2>1
    <3> QED
      BY <1>1, <1>2, <1>9, <2>1, <3>1
  <2>2. CASE k = m
    BY <1>1, <1>9, <2>2
  <2>3. CASE k > m
    <3>1. k - 1 \in 1 .. Len(seq) - 1 /\ (k - 1) + 1 = k
      BY <1>1, <2>3
    <3> QED
      BY <1>1, <1>2, <1>9, <2>3, <3>1
  <2> QED
    BY <1>1, <2>1, <2>2, <2>3
<1>11. /\ Swapped(seq, n, m) \in Seq(S)
       /\ Len(Swapped(seq, n, m)) = Len(seq)
       /\ \A k \in 1 .. Len(seq) :
             Swapped(seq, n, m)[k] = IF k = n THEN seq[m]
                                     ELSE IF k = m THEN seq[n] ELSE seq[k]
  BY <1>1, SwappedType
<1>12. moved = Swapped(seq, n, m)
  BY <1>8, <1>10, <1>11, SeqEqual
<1> QED
  BY <1>12 DEF moved, rest

-----------------------------------------------------------------------------
(* Lemmas about the lists of instruments.                                  *)

LEMMA EmptyIsList == ASSUME NEW d PROVE IsList(d, <<>>)
<1>1. <<>> \in Seq(Instruments) /\ Len(<<>>) = 0
  OBVIOUS
<1>2. MaxInstruments >= 0
  BY DialogAssumption
<1> QED
  BY <1>1, <1>2 DEF IsList, OwnOnly, NoneTwice

LEMMA AppendIsList ==
    ASSUME NEW d, NEW list, IsList(d, list), NEW i \in Instruments, i[1] = d,
           i \notin ToSet(list), Len(list) < MaxInstruments
    PROVE  /\ IsList(d, Append(list, i))
           /\ ToSet(Append(list, i)) = ToSet(list) \cup {i}
<1> DEFINE longer == Append(list, i)
           n == Len(list)
<1>1. list \in Seq(Instruments) /\ n \in Nat
  BY DEF IsList
<1>2. /\ longer \in Seq(Instruments) /\ Len(longer) = n + 1
      /\ \A k \in 1 .. n : longer[k] = list[k]
      /\ longer[n + 1] = i
  BY <1>1
<1> HIDE DEF longer
<1>3. \A k \in 1 .. n + 1 : k \in 1 .. n \/ k = n + 1
  BY <1>1
<1>4. \A k \in 1 .. n : list[k] # i
  BY <1>1, InToSet
<1>5. OwnOnly(d, longer)
  BY <1>2, <1>3 DEF IsList, OwnOnly
<1>6. NoneTwice(longer)
  BY <1>2, <1>3, <1>4 DEF IsList, NoneTwice
<1>7. Len(longer) <= MaxInstruments
  BY <1>1, <1>2, DialogAssumption
<1>8. ToSet(longer) = ToSet(list) \cup {i}
  <2>1. ASSUME NEW x PROVE x \in ToSet(longer) <=> x \in ToSet(list) \cup {i}
    <3>1. n + 1 \in 1 .. n + 1 /\ \A k \in 1 .. n : k \in 1 .. n + 1
      BY <1>1
    <3>2. x \in ToSet(longer) <=> \E k \in 1 .. n + 1 : longer[k] = x
      BY <1>2, InToSet
    <3>3. x \in ToSet(list) <=> \E k \in 1 .. n : list[k] = x
      BY <1>1, InToSet
    <3> QED
      BY <1>2, <1>3, <3>1, <3>2, <3>3
  <2> QED
    BY <2>1
<1> QED
  BY <1>2, <1>5, <1>6, <1>7, <1>8 DEF IsList, longer

LEMMA RemoveIsList ==
    ASSUME NEW d, NEW list, IsList(d, list), NEW n \in 1 .. Len(list)
    PROVE  /\ IsList(d, RemoveAt(list, n))
           /\ ToSet(RemoveAt(list, n)) \subseteq ToSet(list)
           /\ list[n] \notin ToSet(RemoveAt(list, n))
<1> DEFINE rest == RemoveAt(list, n)
<1>1. list \in Seq(Instruments) /\ Len(list) \in Nat
  BY DEF IsList
<1>2. /\ rest \in Seq(Instruments)
      /\ Len(rest) = Len(list) - 1
      /\ \A k \in 1 .. Len(rest) :
            rest[k] = IF k < n THEN list[k] ELSE list[k + 1]
  BY <1>1, RemoveAtType
<1> HIDE DEF rest
(* Where an entry was before.                                              *)
<1> DEFINE From(k) == IF k < n THEN k ELSE k + 1
<1>3. \A k \in 1 .. Len(rest) :
        /\ From(k) \in 1 .. Len(list) /\ From(k) # n
        /\ \A l \in 1 .. Len(rest) : From(k) = From(l) => k = l
        /\ rest[k] = list[From(k)]
  BY <1>1, <1>2
<1> HIDE DEF From
<1>4. OwnOnly(d, rest)
  BY <1>3 DEF IsList, OwnOnly
<1>5. NoneTwice(rest)
  BY <1>3 DEF IsList, NoneTwice
<1>6. Len(rest) <= MaxInstruments
  BY <1>1, <1>2, DialogAssumption DEF IsList
<1>7. ASSUME NEW x \in ToSet(rest)
      PROVE  x \in ToSet(list) /\ x # list[n]
  <2>1. PICK k \in 1 .. Len(rest) : rest[k] = x
    BY <1>2, InToSet
  <2>2. x = list[From(k)] /\ From(k) \in 1 .. Len(list) /\ From(k) # n
    BY <1>3, <2>1
  <2>3. x # list[n]
    BY <2>2 DEF IsList, NoneTwice
  <2> QED
    BY <1>1, <2>2, <2>3, InToSet
<1> QED
  BY <1>2, <1>4, <1>5, <1>6, <1>7 DEF IsList, rest

LEMMA SwappedIsList ==
    ASSUME NEW d, NEW list, IsList(d, list), NEW n \in Nat, NEW m \in Nat,
           n # m
    PROVE  /\ IsList(d, Swapped(list, n, m))
           /\ Len(Swapped(list, n, m)) = Len(list)
           /\ ToSet(Swapped(list, n, m)) = ToSet(list)
<1> DEFINE other == Swapped(list, n, m)
<1>1. list \in Seq(Instruments)
  BY DEF IsList
<1>2. CASE ~(n \in 1 .. Len(list) /\ m \in 1 .. Len(list))
  BY <1>1, <1>2, SwappedType
<1>3. CASE n \in 1 .. Len(list) /\ m \in 1 .. Len(list)
  <2> DEFINE From(k) == IF k = n THEN m ELSE IF k = m THEN n ELSE k
  <2>1. /\ other \in Seq(Instruments)
        /\ Len(other) = Len(list)
        /\ \A k \in 1 .. Len(list) :
              other[k] = IF k = n THEN list[m]
                         ELSE IF k = m THEN list[n] ELSE list[k]
    BY <1>1, <1>3, SwappedType
  <2> HIDE DEF other
  <2>2. \A k \in 1 .. Len(list) :
          /\ From(k) \in 1 .. Len(list) /\ From(From(k)) = k
          /\ other[k] = list[From(k)]
    BY <1>3, <2>1
  <2> HIDE DEF From
  <2>3. OwnOnly(d, other)
    BY <2>1, <2>2 DEF IsList, OwnOnly
  <2>4. NoneTwice(other)
    <3> SUFFICES ASSUME NEW k \in 1 .. Len(list), NEW l \in 1 .. Len(list),
                        other[k] = other[l]
                 PROVE  k = l
      BY <2>1 DEF NoneTwice
    <3>1. From(k) = From(l)
      BY <2>2 DEF IsList, NoneTwice
    <3> QED
      BY <2>2, <3>1
  <2>5. IsList(d, other)
    BY <2>1, <2>3, <2>4 DEF IsList
  <2>6. ASSUME NEW x PROVE x \in ToSet(other) <=> x \in ToSet(list)
    <3>1. x \in ToSet(other) <=> \E k \in 1 .. Len(list) : other[k] = x
      BY <2>1, InToSet
    <3>2. x \in ToSet(list) <=> \E k \in 1 .. Len(list) : list[k] = x
      BY <1>1, InToSet
    <3> QED
      BY <2>2, <3>1, <3>2
  <2> QED
    BY <2>1, <2>5, <2>6 DEF other
<1> QED
  BY <1>2, <1>3

LEMMA ConfigType ==
    /\ \A config \in DashboardConfigs :
        /\ config \in Seq(Settings) /\ Len(config) <= MaxInstruments
        /\ DOMAIN config = 1 .. Len(config)
        /\ \A n \in DOMAIN config : config[n] \in Settings
    /\ \A config \in Configs :
        /\ config \in Seq(DashboardConfigs) /\ Len(config) <= MaxDashboards
        /\ DOMAIN config = 1 .. Len(config)
        /\ \A n \in DOMAIN config : config[n] \in DashboardConfigs
<1>1. MaxDashboards \in Nat /\ MaxInstruments \in Nat
  BY DialogAssumption
<1>2. ASSUME NEW config \in DashboardConfigs
      PROVE  config \in Seq(Settings) /\ Len(config) <= MaxInstruments
  BY <1>1, <1>2, Bounded DEF DashboardConfigs
<1>3. ASSUME NEW config \in Configs
      PROVE  config \in Seq(DashboardConfigs) /\ Len(config) <= MaxDashboards
  BY <1>1, <1>3, Bounded DEF Configs
<1>4. \A S : \A seq \in Seq(S) :
        /\ DOMAIN seq = 1 .. Len(seq)
        /\ \A n \in DOMAIN seq : seq[n] \in S
  OBVIOUS
<1> QED
  BY <1>2, <1>3, <1>4

LEMMA CreatedIsList ==
    ASSUME NEW d \in Dashboards, NEW config \in DashboardConfigs
    PROVE  /\ IsList(d, Created(d, config))
           /\ \A i \in ToSet(Created(d, config)) :
                i[1] = d /\ i[2] \in DOMAIN config
<1> DEFINE list == Created(d, config)
           n == Len(config)
<1>1. n \in Nat /\ n <= MaxInstruments /\ DOMAIN config = 1 .. n
  BY ConfigType
<1>2. list = [m \in 1 .. n |-> <<d, m>>]
  BY <1>1 DEF Created
<1>3. \A m \in 1 .. n : <<d, m>> \in Instruments
  BY <1>1, DialogAssumption DEF Instruments
<1> HIDE DEF list
<1>4. list \in [1 .. n -> Instruments]
  BY <1>2, <1>3
<1>5. list \in Seq(Instruments)
  BY <1>1, <1>4, SeqDef
<1>6. Len(list) = n
  BY <1>1, <1>4, <1>5, LenProperties
<1>7. OwnOnly(d, list)
  BY <1>2, <1>6 DEF OwnOnly
<1>8. NoneTwice(list)
  <2>1. \A m \in 1 .. n : list[m][2] = m
    BY <1>2
  <2> QED
    BY <1>6, <2>1 DEF NoneTwice
<1>9. ASSUME NEW i \in ToSet(list)
      PROVE  i[1] = d /\ i[2] \in DOMAIN config
  <2>1. PICK m \in 1 .. n : list[m] = i
    BY <1>5, <1>6, InToSet
  <2>2. i = <<d, m>>
    BY <1>2, <2>1
  <2> QED
    BY <1>1, <2>2
<1> QED
  BY <1>1, <1>5, <1>6, <1>7, <1>8, <1>9 DEF IsList, list

-----------------------------------------------------------------------------
(* Lemmas about what the handlers fill the dialog with.                    *)

(* Of r and u only the buttons differ.                                     *)
SameButButtons(r, u) ==
    /\ r.dashboard = u.dashboard /\ r.instrument = u.instrument
    /\ r.combo = u.combo /\ r.list = u.list /\ r.sel = u.sel
    /\ r.form = u.form

LEMMA ObjectsType ==
    ASSUME NEW dbs, NEW insts, NEW set, AreObjects(dbs, insts, set)
    PROVE  /\ dbs \in Seq(Dashboards) /\ Len(dbs) \in Nat
           /\ Len(dbs) <= MaxDashboards
           /\ \A n \in 1 .. Len(dbs) : ElementAt(dbs, n) = dbs[n]
                                      /\ dbs[n] \in Dashboards
                                      /\ dbs[n] # NoObject
           /\ ElementAt(dbs, 0) = NoObject
           /\ \A d \in Dashboards :
                /\ insts[d] \in Seq(Instruments)
                /\ insts[d] \in BoundedSeq(Instruments, MaxInstruments)
                /\ Len(insts[d]) \in 0 .. MaxInstruments
           /\ \A i \in Instruments : set[i] \in Settings
<1>1. dbs \in Seq(Dashboards) /\ Len(dbs) <= MaxDashboards
  BY DEF AreObjects
<1>2. Len(dbs) \in Nat /\ \A n \in 1 .. Len(dbs) : dbs[n] \in Dashboards
  BY <1>1
<1>3. NoObject \notin Dashboards
  BY DialogAssumption
<1>4. \A n \in 1 .. Len(dbs) : ElementAt(dbs, n) = dbs[n]
  BY <1>1, ElementAtType
<1>5. ElementAt(dbs, 0) = NoObject
  BY <1>1, <1>2, ElementAtType
<1>6. ASSUME NEW d \in Dashboards
      PROVE  /\ insts[d] \in Seq(Instruments)
             /\ insts[d] \in BoundedSeq(Instruments, MaxInstruments)
             /\ Len(insts[d]) \in 0 .. MaxInstruments
  <2>1. insts[d] \in Seq(Instruments) /\ Len(insts[d]) <= MaxInstruments
    BY DEF AreObjects, IsList
  <2> QED
    BY <2>1, Bounded, DialogAssumption
<1>7. \A i \in Instruments : set[i] \in Settings
  BY DEF AreObjects
<1> QED
  BY <1>1, <1>2, <1>3, <1>4, <1>5, <1>6, <1>7

LEMMA EmptyList ==
    <<>> \in BoundedSeq(Instruments, MaxInstruments) /\ Len(<<>>) = 0
<1>1. <<>> \in Seq(Instruments) /\ Len(<<>>) = 0 /\ 0 <= MaxInstruments
  BY DialogAssumption
<1> QED
  BY <1>1, Bounded, DialogAssumption

LEMMA EmptyDialogType ==
    /\ EmptyDialog \in Dialogs
    /\ EmptyDialog.dashboard = NoObject /\ EmptyDialog.instrument = NoObject
    /\ EmptyDialog.form.of = NoObject
BY EmptyList, DialogAssumption DEF EmptyDialog, BlankForm, Dialogs, Forms

LEMMA ListOfType ==
    ASSUME NEW dbs, NEW insts, NEW set, AreObjects(dbs, insts, set),
           NEW u \in Dialogs
    PROVE  /\ ListOf(u, insts) \in BoundedSeq(Instruments, MaxInstruments)
           /\ ListOf(u, insts) \in Seq(Instruments)
           /\ Len(ListOf(u, insts)) \in 0 .. MaxInstruments
<1>1. u.dashboard \in Dashboards \cup {NoObject}
  BY DEF Dialogs
<1>2. <<>> \in Seq(Instruments) /\ 0 \in 0 .. MaxInstruments
  BY DialogAssumption
<1> QED
  BY <1>1, <1>2, EmptyList, ObjectsType DEF ListOf

LEMMA FilledList ==
    ASSUME NEW dbs, NEW insts, NEW set, AreObjects(dbs, insts, set),
           NEW u \in Dialogs
    PROVE  /\ FillInstrumentList(u, insts) \in Dialogs
           /\ FillInstrumentList(u, insts).dashboard = u.dashboard
           /\ FillInstrumentList(u, insts).instrument = u.instrument
           /\ FillInstrumentList(u, insts).combo = u.combo
           /\ FillInstrumentList(u, insts).list = ListOf(u, insts)
           /\ FillInstrumentList(u, insts).sel = 0
           /\ FillInstrumentList(u, insts).form = u.form
<1>1. ListOf(u, insts) \in BoundedSeq(Instruments, MaxInstruments)
  BY ListOfType
<1>2. 0 \in 0 .. MaxInstruments
  BY DialogAssumption
<1> QED
  BY <1>1, <1>2 DEF FillInstrumentList, Dialogs

LEMMA FilledDetails ==
    ASSUME NEW dbs, NEW insts, NEW set, AreObjects(dbs, insts, set),
           NEW u \in Dialogs
    PROVE  /\ FillInstrumentDetails(u, set) \in Dialogs
           /\ FillInstrumentDetails(u, set).dashboard = u.dashboard
           /\ FillInstrumentDetails(u, set).instrument = u.instrument
           /\ FillInstrumentDetails(u, set).combo = u.combo
           /\ FillInstrumentDetails(u, set).list = u.list
           /\ FillInstrumentDetails(u, set).sel = u.sel
           /\ Shown(FillInstrumentDetails(u, set))
<1> DEFINE form == IF u.instrument = NoObject THEN BlankForm
                   ELSE [of |-> u.instrument, value |-> set[u.instrument]]
<1>1. u.instrument \in Instruments \cup {NoObject}
  BY DEF Dialogs
<1>2. u.instrument # NoObject => set[u.instrument] \in Settings
  BY <1>1, ObjectsType
<1>3. /\ form \in Forms /\ form.of = u.instrument
      /\ u.instrument # NoObject => form.value \in Settings
  BY <1>1, <1>2 DEF Forms, BlankForm
<1>4. FillInstrumentDetails(u, set) = [u EXCEPT !.form = form]
  BY DEF FillInstrumentDetails
<1> HIDE DEF form
<1> QED
  BY <1>3, <1>4 DEF Dialogs, Shown

LEMMA EnabledItems ==
    ASSUME NEW u \in Dialogs, NEW some
    PROVE  /\ EnableItems(u, some) \in Dialogs
           /\ SameButButtons(EnableItems(u, some), u)
BY DEF EnableItems, Dialogs, SameButButtons

LEMMA EnabledListButtons ==
    ASSUME NEW u \in Dialogs
    PROVE  /\ EnableInstrumentListButtons(u) \in Dialogs
           /\ SameButButtons(EnableInstrumentListButtons(u), u)
<1> DEFINE buttons ==
        IF u.sel = 0 THEN u.buttons \ {"remove"}
        ELSE {"remove"} \cup {b \in {"up"} : u.sel > 1}
                        \cup {b \in {"down"} : u.sel < Len(u.list)}
<1>1. EnableInstrumentListButtons(u) = [u EXCEPT !.buttons = buttons]
  BY DEF EnableInstrumentListButtons
<1>2. u.buttons \in SUBSET Buttons
  BY DEF Dialogs
<1>3. buttons \in SUBSET Buttons
  BY <1>2 DEF Buttons
<1> HIDE DEF buttons
<1> QED
  BY <1>1, <1>3 DEF Dialogs, SameButButtons

LEMMA ButtonsDontMatter ==
    ASSUME NEW dbs, NEW insts, NEW u, Consistent(u, dbs, insts),
           NEW r \in Dialogs, SameButButtons(r, u)
    PROVE  /\ Consistent(r, dbs, insts)
           /\ Coherent(u, insts) => Coherent(r, insts)
BY DEF Consistent, SameButButtons, Pointed, Edits, Listed, Selects, Shown,
       Coherent, ListOf

(* A list that was filled is shown as it is.                               *)
LEMMA FilledIsListed ==
    ASSUME NEW dbs, NEW insts, NEW set, AreObjects(dbs, insts, set),
           NEW u \in Dialogs, u.list = ListOf(u, insts)
    PROVE  /\ Listed(u, insts)
           /\ u.sel \in 0 .. Len(u.list) => Selects(u, insts)
<1>1. u.dashboard \in Dashboards \cup {NoObject}
  BY DEF Dialogs
<1>2. CASE u.dashboard = NoObject
  <2>1. u.list = <<>> /\ Len(u.list) = 0
    BY <1>2 DEF ListOf
  <2> QED
    BY <1>2, <2>1 DEF Listed, Selects
<1>3. CASE u.dashboard # NoObject
  <2>1. u.list = insts[u.dashboard] /\ Len(u.list) \in Nat
    BY <1>1, <1>3, ObjectsType DEF ListOf
  <2> QED
    BY <1>3, <2>1 DEF Listed, Selects
<1> QED
  BY <1>2, <1>3

(* With a list that was just filled, the first instrument is selected if   *)
(* none is edited.                                                         *)
LEMMA EnabledForDashboard ==
    ASSUME NEW dbs, NEW insts, NEW set, AreObjects(dbs, insts, set),
           NEW u \in Dialogs, Pointed(u, dbs), Edits(u, insts), Shown(u),
           u.list = ListOf(u, insts), u.sel \in 0 .. Len(u.list)
    PROVE  /\ Consistent(EnableItemsForSelectedDashboard(u, dbs, insts, set),
                         dbs, insts)
           /\ u.instrument = ElementAt(u.list, u.sel) =>
                Coherent(EnableItemsForSelectedDashboard(u, dbs, insts, set),
                         insts)
<1> DEFINE v == [u EXCEPT !.dashboard = dbs[u.combo]]
           w == EnableItems(v, ListOf(v, insts) # <<>>)
           x == [w EXCEPT !.sel = 1, !.instrument = ListOf(v, insts)[1]]
           r == EnableItemsForSelectedDashboard(u, dbs, insts, set)
<1>1. Listed(u, insts) /\ Selects(u, insts)
  BY FilledIsListed
<1>2. Consistent(u, dbs, insts)
  BY <1>1 DEF Consistent
<1>3. CASE u.combo = 0
  <2>1. r = EnableItems(u, FALSE)
    BY <1>3 DEF EnableItemsForSelectedDashboard
  <2>2. u.list = <<>>
    BY <1>3, ObjectsType DEF Pointed, ListOf
  <2>3. u.instrument = ElementAt(u.list, u.sel) => Coherent(u, insts)
    BY <2>2 DEF Coherent
  <2> QED
    BY <1>2, <2>1, <2>3, EnabledItems, ButtonsDontMatter
<1>4. CASE u.combo # 0
  <2>1. u.combo \in 1 .. Len(dbs) /\ u.dashboard = dbs[u.combo]
        /\ u.dashboard \in Dashboards
    BY <1>4, ObjectsType DEF Pointed
  <2>2. v = u
    BY <2>1 DEF Dialogs
  <2>3. w \in Dialogs /\ SameButButtons(w, u)
    BY <2>2, EnabledItems
  <2>4. Consistent(w, dbs, insts)
    BY <1>2, <2>3, ButtonsDontMatter
  <2>5. CASE ~(ListOf(v, insts) # <<>> /\ u.instrument = NoObject)
    <3>1. r = w
      BY <1>4, <2>5 DEF EnableItemsForSelectedDashboard
    <3>2. ElementAt(u.list, 0) = NoObject
      BY NothingAtZero, ListOfType
    <3>3. u.instrument = ElementAt(u.list, u.sel) => Coherent(u, insts)
      BY <2>2, <2>5, <3>2 DEF Coherent
    <3> HIDE DEF w, r
    <3> QED
      BY <1>2, <2>3, <2>4, <3>1, <3>3, ButtonsDontMatter DEF r
  <2>6. CASE ListOf(v, insts) # <<>> /\ u.instrument = NoObject
    <3>1. r = FillInstrumentDetails(x, set)
      BY <1>4, <2>6 DEF EnableItemsForSelectedDashboard
    <3>2. ListOf(v, insts) = u.list /\ u.list # <<>>
          /\ u.list = insts[u.dashboard]
      BY <2>1, <2>2, <2>6, DialogAssumption DEF ListOf
    <3>3. /\ u.list \in Seq(Instruments)
          /\ Len(u.list) \in 0 .. MaxInstruments
      BY <2>1, <3>2, ObjectsType
    <3>4. Len(u.list) >= 1 /\ 1 \in 1 .. Len(u.list)
      BY <3>2, <3>3
    <3>5. u.list[1] \in Instruments /\ u.list[1] \in ToSet(u.list)
      BY <3>3, <3>4, InToSet
    <3> DEFINE first == ListOf(v, insts)[1]
    <3>6. first = u.list[1]
      BY <3>2
    <3>7. x = [w EXCEPT !.sel = 1, !.instrument = first]
      OBVIOUS
    <3> HIDE DEF v, w, x, first
    <3>8. 1 \in 0 .. MaxInstruments
      BY DialogAssumption
    <3>9. /\ x \in Dialogs /\ x.dashboard = w.dashboard
          /\ x.combo = w.combo /\ x.list = w.list /\ x.sel = 1
          /\ x.instrument = first
      BY <2>3, <3>5, <3>6, <3>7, <3>8 DEF Dialogs
    <3>10. /\ x.dashboard = u.dashboard /\ x.combo = u.combo
           /\ x.list = u.list
      BY <2>3, <3>9 DEF SameButButtons
    <3>11. /\ r \in Dialogs /\ r.dashboard = u.dashboard
           /\ r.instrument = u.list[1] /\ r.combo = u.combo
           /\ r.list = u.list /\ r.sel = 1 /\ Shown(r)
      BY <3>1, <3>6, <3>9, <3>10, FilledDetails
    <3> HIDE DEF r
    <3>12. Pointed(r, dbs)
      BY <3>11 DEF Pointed
    <3>13. Edits(r, insts)
      BY <2>1, <3>2, <3>5, <3>11, DialogAssumption DEF Edits
    <3>14. Listed(r, insts)
      BY <1>1, <3>11 DEF Listed
    <3>15. Selects(r, insts)
      BY <3>2, <3>3, <3>4, <3>11 DEF Selects
    <3>16. Coherent(r, insts)
      <4>1. r.list = ListOf(r, insts)
        BY <3>11 DEF ListOf
      <4>2. ElementAt(r.list, 1) = u.list[1]
        BY <3>3, <3>4, <3>11, ElementAtType
      <4> QED
        BY <3>11, <4>1, <4>2 DEF Coherent
    <3> QED
      BY <3>11, <3>12, <3>13, <3>14, <3>15, <3>16 DEF Consistent, r
  <2> QED
    BY <2>5, <2>6
<1> QED
  BY <1>3, <1>4

(* The whole dialog is filled when no instrument is edited.                *)
LEMMA FilledForm ==
    ASSUME NEW dbs, NEW insts, NEW set, AreObjects(dbs, insts, set),
           NEW u \in Dialogs, u.instrument = NoObject, NEW n,
           \/ dbs = <<>> /\ u.dashboard = NoObject
           \/ dbs # <<>> /\ n \in 1 .. Len(dbs)
    PROVE  /\ Consistent(FillForm(u, n, dbs, insts, set), dbs, insts)
           /\ Coherent(FillForm(u, n, dbs, insts, set), insts)
<1> DEFINE v == IF dbs = <<>> THEN [u EXCEPT !.combo = 0]
                ELSE [u EXCEPT !.combo = n, !.dashboard = dbs[n]]
           l == FillInstrumentList(v, insts)
           w == FillInstrumentDetails(l, set)
           x == EnableItemsForSelectedDashboard(w, dbs, insts, set)
<1>1. v \in Dialogs /\ v.instrument = NoObject /\ Pointed(v, dbs)
  <2>1. CASE dbs = <<>>
    <3>1. 0 \in 0 .. MaxDashboards /\ Len(dbs) = 0 /\ 0 \in 0 .. Len(dbs)
      BY <2>1, DialogAssumption
    <3>2. v = [u EXCEPT !.combo = 0]
      BY <2>1
    <3>3. v \in Dialogs /\ v.combo = 0 /\ v.dashboard = NoObject
          /\ v.instrument = NoObject
      BY <2>1, <3>1, <3>2 DEF Dialogs
    <3> HIDE DEF v
    <3> QED
      BY <3>1, <3>3, ObjectsType DEF Pointed
  <2>2. CASE dbs # <<>>
    <3>1. /\ n \in 1 .. Len(dbs) /\ n \in 0 .. MaxDashboards
          /\ n \in 0 .. Len(dbs)
          /\ dbs[n] \in Dashboards /\ ElementAt(dbs, n) = dbs[n]
      BY <2>2, ObjectsType, DialogAssumption
    <3>2. v = [u EXCEPT !.combo = n, !.dashboard = dbs[n]]
      BY <2>2
    <3>3. v \in Dialogs /\ v.combo = n /\ v.dashboard = dbs[n]
          /\ v.instrument = NoObject
      BY <3>1, <3>2 DEF Dialogs
    <3> HIDE DEF v
    <3> QED
      BY <3>1, <3>3 DEF Pointed
  <2> QED
    BY <2>1, <2>2
<1> HIDE DEF v
<1>2. /\ l \in Dialogs /\ l.dashboard = v.dashboard
      /\ l.instrument = NoObject /\ l.combo = v.combo
      /\ l.list = ListOf(v, insts) /\ l.sel = 0
  BY <1>1, FilledList
<1> HIDE DEF l
<1>3. /\ w \in Dialogs /\ w.dashboard = v.dashboard
      /\ w.instrument = NoObject /\ w.combo = v.combo
      /\ w.list = ListOf(v, insts) /\ w.sel = 0 /\ Shown(w)
  BY <1>2, FilledDetails
<1> HIDE DEF w
<1>4. w.list = ListOf(w, insts)
  BY <1>3 DEF ListOf
<1>5. Pointed(w, dbs) /\ Edits(w, insts)
  BY <1>1, <1>3 DEF Pointed, Edits
<1>6. w.sel \in 0 .. Len(w.list)
  BY <1>1, <1>3, ListOfType
<1>7. Consistent(x, dbs, insts) /\ Coherent(x, insts)
  <2>1. ElementAt(w.list, 0) = NoObject
    BY <1>1, <1>3, NothingAtZero, ListOfType
  <2> QED
    BY <1>3, <1>4, <1>5, <1>6, <2>1, EnabledForDashboard
<1>8. FillForm(u, n, dbs, insts, set) = EnableInstrumentListButtons(x)
  BY DEF FillForm, v, l, w
<1>9. x \in Dialogs
  BY <1>7 DEF Consistent
<1> HIDE DEF x
<1> QED
  BY <1>7, <1>8, <1>9, EnabledListButtons, ButtonsDontMatter

-----------------------------------------------------------------------------
(* What the steps have in common.                                          *)

LEMMA StaysOpen ==
    ASSUME AreObjects(dashboards', instruments', setting'),
           Consistent(ui', dashboards', instruments'),
           orig_config' \in Configs \cup {Closed}
    PROVE  IInv'
<1>1. MaxDashboards \in Nat
  BY DialogAssumption
<1>2. dashboards' \in BoundedSeq(Dashboards, MaxDashboards)
  BY <1>1, Bounded DEF AreObjects
<1>3. instruments' \in [Dashboards -> BoundedSeq(Instruments, MaxInstruments)]
  <2>1. instruments' \in [Dashboards -> Seq(Instruments)]
    BY DEF AreObjects
  <2>2. \A d \in Dashboards :
            instruments'[d] \in BoundedSeq(Instruments, MaxInstruments)
    BY ObjectsType
  <2> QED
    BY <2>1, <2>2
<1>4. setting' \in [Instruments -> Settings]
  BY DEF AreObjects
<1>5. ui' \in Dialogs /\ ui'.form.of = ui'.instrument
  BY DEF Consistent, Shown
<1>6. TypeOK'
  BY <1>2, <1>3, <1>4, <1>5 DEF TypeOK
<1> QED
  BY <1>5, <1>6 DEF IInv, ObjectsOK, DialogConsistent, ControlsShowEdited

LEMMA Closes ==
    ASSUME AreObjects(dashboards', instruments', setting'),
           ui' = EmptyDialog, orig_config' = Closed
    PROVE  IInv'
<1>1. MaxDashboards \in Nat
  BY DialogAssumption
<1>2. dashboards' \in BoundedSeq(Dashboards, MaxDashboards)
  BY <1>1, Bounded DEF AreObjects
<1>3. instruments' \in [Dashboards -> BoundedSeq(Instruments, MaxInstruments)]
  <2>1. instruments' \in [Dashboards -> Seq(Instruments)]
    BY DEF AreObjects
  <2>2. \A d \in Dashboards :
            instruments'[d] \in BoundedSeq(Instruments, MaxInstruments)
    BY ObjectsType
  <2> QED
    BY <2>1, <2>2
<1>4. setting' \in [Instruments -> Settings]
  BY DEF AreObjects
<1>5. ui' \in Dialogs /\ ui'.form.of = ui'.instrument
  BY EmptyDialogType
<1>6. TypeOK'
  BY <1>2, <1>3, <1>4, <1>5 DEF TypeOK
<1> QED
  BY <1>5, <1>6
     DEF IInv, ObjectsOK, DialogConsistent, Editing, ControlsShowEdited

LEMMA WhileEditing ==
    ASSUME IInv, Editing
    PROVE  /\ AreObjects(dashboards, instruments, setting)
           /\ Consistent(ui, dashboards, instruments)
           /\ ui \in Dialogs
           /\ orig_config \in Configs
BY DEF IInv, TypeOK, ObjectsOK, DialogConsistent, Consistent, Editing

LEMMA UpdatedType ==
    ASSUME IInv, Editing
    PROVE  /\ Updated \in [Instruments -> Settings]
           /\ AreObjects(dashboards, instruments, Updated)
           /\ ui.instrument # NoObject =>
                 Updated[ui.instrument] = Named[ui.form.value]
<1>1. /\ setting \in [Instruments -> Settings]
      /\ ui.instrument \in Instruments \cup {NoObject}
      /\ ui.instrument # NoObject => ui.form.value \in Settings
  BY WhileEditing DEF AreObjects, Consistent, Shown, Dialogs
<1>2. Named \in [Settings -> Settings]
  BY DialogAssumption
<1>3. /\ Updated \in [Instruments -> Settings]
      /\ ui.instrument # NoObject =>
            Updated[ui.instrument] = Named[ui.form.value]
  BY <1>1, <1>2 DEF Updated
<1> QED
  BY <1>3, WhileEditing DEF AreObjects

LEMMA GeneratedType ==
    ASSUME AreObjects(dashboards, instruments, setting)
    PROVE  GenerateJSONConfig \in Configs
<1> DEFINE Config(d) == [m \in DOMAIN instruments[d] |->
                            setting[instruments[d][m]]]
           n == Len(dashboards)
<1>1. ASSUME NEW d \in Dashboards
      PROVE  Config(d) \in DashboardConfigs
  <2> DEFINE list == instruments[d]
             k == Len(list)
  <2>1. list \in Seq(Instruments) /\ k \in 0 .. MaxInstruments
    BY ObjectsType
  <2>2. DOMAIN list = 1 .. k /\ \A m \in 1 .. k : list[m] \in Instruments
    BY <2>1
  <2>3. Config(d) \in [1 .. k -> Settings]
    BY <2>2, ObjectsType
  <2>4. BoundedSeq(Settings, MaxInstruments) =
            UNION {[1 .. l -> Settings] : l \in 0 .. MaxInstruments}
    BY DEF BoundedSeq, SeqOf
  <2> QED
    BY <2>1, <2>3, <2>4 DEF DashboardConfigs
<1> HIDE DEF Config
<1>2. /\ dashboards \in Seq(Dashboards) /\ n \in 0 .. MaxDashboards
      /\ \A m \in 1 .. n : dashboards[m] \in Dashboards
  BY ObjectsType, DialogAssumption
<1>3. DOMAIN dashboards = 1 .. n
  BY <1>2
<1>4. GenerateJSONConfig = [m \in 1 .. n |-> Config(dashboards[m])]
  BY <1>3 DEF GenerateJSONConfig, Config
<1>5. GenerateJSONConfig \in [1 .. n -> DashboardConfigs]
  BY <1>1, <1>2, <1>4
<1>6. BoundedSeq(DashboardConfigs, MaxDashboards) =
        UNION {[1 .. l -> DashboardConfigs] : l \in 0 .. MaxDashboards}
  BY DEF BoundedSeq, SeqOf
<1> QED
  BY <1>2, <1>5, <1>6 DEF Configs

LEMMA ReadObjects ==
    ASSUME NEW config \in Configs, ReadConfig(config)
    PROVE  AreObjects(dashboards', instruments', setting')
<1> DEFINE n == Len(config)
<1>1. /\ config \in Seq(DashboardConfigs) /\ n \in Nat /\ n <= MaxDashboards
      /\ DOMAIN config = 1 .. n
      /\ \A d \in 1 .. n : config[d] \in DashboardConfigs
  BY ConfigType
<1>2. \A d \in 1 .. n : d \in Dashboards
  BY <1>1, DialogAssumption DEF Dashboards
<1>3. dashboards' = [d \in 1 .. n |-> d]
  BY <1>1 DEF ReadConfig
<1>4. dashboards' \in [1 .. n -> Dashboards]
  BY <1>2, <1>3
<1>5. dashboards' \in Seq(Dashboards)
  BY <1>1, <1>4, SeqDef
<1>6. Len(dashboards') <= MaxDashboards
  BY <1>1, <1>4, <1>5, LenProperties
<1>7. instruments' = [d \in Dashboards |->
            IF d \in 1 .. n THEN Created(d, config[d]) ELSE <<>>]
  BY <1>1 DEF ReadConfig
<1>8. ASSUME NEW d \in Dashboards
      PROVE  IsList(d, instruments'[d])
  BY <1>1, <1>7, CreatedIsList, EmptyIsList
<1>9. instruments' \in [Dashboards -> Seq(Instruments)]
  BY <1>7, <1>8 DEF IsList
<1>10. ASSUME NEW i \in Instruments
       PROVE  (IF i[1] \in DOMAIN config /\ i[2] \in DOMAIN config[i[1]]
               THEN config[i[1]][i[2]] ELSE Default) \in Settings
  BY <1>1, ConfigType, DialogAssumption
<1>11. setting' \in [Instruments -> Settings]
  BY <1>10 DEF ReadConfig
<1> QED
  BY <1>5, <1>6, <1>8, <1>9, <1>11 DEF AreObjects

-----------------------------------------------------------------------------
(* The steps.                                                              *)

LEMMA InitInvariant == Init => IInv
<1> SUFFICES ASSUME Init PROVE IInv
  OBVIOUS
<1>1. MaxDashboards \in Nat /\ MaxInstruments \in Nat
  BY DialogAssumption
<1>2. /\ dashboards \in Seq(Dashboards) /\ Len(dashboards) <= MaxDashboards
      /\ dashboards \in BoundedSeq(Dashboards, MaxDashboards)
  <2>1. dashboards \in Seq(Dashboards) /\ Len(dashboards) <= MaxDashboards
    BY <1>1 DEF Init
  <2> QED
    BY <1>1, <2>1, Bounded
<1>3. /\ instruments \in [Dashboards -> BoundedSeq(Instruments, MaxInstruments)]
      /\ instruments \in [Dashboards -> Seq(Instruments)]
      /\ \A d \in Dashboards : IsList(d, instruments[d])
  BY EmptyList, EmptyIsList DEF Init, IsList
<1>4. setting \in [Instruments -> Settings]
  BY DialogAssumption DEF Init
<1>5. ui \in Dialogs /\ ui.form.of = ui.instrument
  BY EmptyDialogType DEF Init
<1>6. TypeOK
  BY <1>2, <1>3, <1>4, <1>5 DEF TypeOK, Init
<1>7. ObjectsOK
  BY <1>2, <1>3, <1>4 DEF ObjectsOK, AreObjects
<1> QED
  BY <1>5, <1>6, <1>7
     DEF IInv, DialogConsistent, Editing, ControlsShowEdited, Init

LEMMA OpenInvariant ==
    ASSUME IInv, OpenPreferences
    PROVE  IInv' /\ Coherent(ui', instruments')
<1>1. AreObjects(dashboards, instruments, setting)
  BY DEF IInv, ObjectsOK
<1>2. dashboards # <<>> => 1 \in 1 .. Len(dashboards)
  BY <1>1, ObjectsType
<1> DEFINE u == FillForm(EmptyDialog, 1, dashboards, instruments, setting)
<1>3. Consistent(u, dashboards, instruments) /\ Coherent(u, instruments)
  BY <1>1, <1>2, EmptyDialogType, FilledForm
<1>4. /\ dashboards' = dashboards /\ instruments' = instruments
      /\ setting' = setting /\ orig_config' = GenerateJSONConfig
      /\ ui' = FillForm(EmptyDialog, 1, dashboards, instruments, setting)
  BY DEF OpenPreferences, objectVars
<1>5. orig_config' \in Configs
  BY <1>1, <1>4, GeneratedType
<1> QED
  BY <1>1, <1>3, <1>4, <1>5, StaysOpen

LEMMA SelectInstrumentInvariant ==
    ASSUME IInv, NEW n, NEW m, SelectInstrument(n, m)
    PROVE  IInv' /\ Coherent(ui', instruments')
<1> DEFINE u == FillForm(EmptyDialog, 1, dashboards, instruments, setting)
           c == [u EXCEPT !.combo = n, !.dashboard = dashboards[n]]
           v == FillInstrumentList(c, instruments)
           e == [v EXCEPT !.instrument = instruments[dashboards[n]][m],
                          !.sel = m]
           w == FillInstrumentDetails(e, setting)
           x == EnableItemsForSelectedDashboard(w, dashboards, instruments,
                                                setting)
<1>1. AreObjects(dashboards, instruments, setting)
  BY DEF IInv, ObjectsOK
<1>2. /\ n \in 1 .. Len(dashboards) /\ m \in 1 .. Len(instruments[dashboards[n]])
      /\ dashboards[n] \in Dashboards
      /\ dashboards[n] # NoObject
  <2>1. n \in DOMAIN dashboards /\ m \in DOMAIN instruments[dashboards[n]]
    BY DEF SelectInstrument
  <2>2. DOMAIN dashboards = 1 .. Len(dashboards)
    BY <1>1, ObjectsType
  <2>3. dashboards[n] \in Dashboards /\ dashboards[n] # NoObject
    BY <1>1, <2>1, <2>2, ObjectsType
  <2>4. DOMAIN instruments[dashboards[n]] = 1 .. Len(instruments[dashboards[n]])
    BY <1>1, <2>3, ObjectsType
  <2> QED
    BY <2>1, <2>2, <2>3, <2>4
<1>3. /\ dashboards' = dashboards /\ instruments' = instruments
      /\ setting' = setting /\ orig_config' = GenerateJSONConfig
      /\ ui' = EnableInstrumentListButtons(x)
  BY DEF SelectInstrument, objectVars
<1>4. orig_config' \in Configs
  BY <1>1, <1>3, GeneratedType
<1>5. u \in Dialogs
  <2>1. dashboards # <<>> => 1 \in 1 .. Len(dashboards)
    BY <1>1, ObjectsType
  <2> QED
    BY <1>1, <2>1, EmptyDialogType, FilledForm DEF Consistent
<1> HIDE DEF u
<1>6. /\ c \in Dialogs /\ c.combo = n /\ c.dashboard = dashboards[n]
  <2>1. n \in 0 .. MaxDashboards
    BY <1>1, <1>2, ObjectsType, DialogAssumption
  <2> QED
    BY <1>2, <1>5, <2>1 DEF Dialogs
<1> HIDE DEF c
<1>7. /\ v \in Dialogs /\ v.combo = n /\ v.dashboard = dashboards[n]
      /\ v.list = instruments[dashboards[n]]
  BY <1>1, <1>2, <1>6, FilledList DEF ListOf
<1> HIDE DEF v
<1> DEFINE list == instruments[dashboards[n]]
<1>8. /\ list \in Seq(Instruments) /\ Len(list) \in 0 .. MaxInstruments
      /\ m \in 0 .. MaxInstruments /\ m \in 0 .. Len(list)
      /\ list[m] \in Instruments /\ list[m] \in ToSet(list)
  <2>1. list \in Seq(Instruments) /\ Len(list) \in 0 .. MaxInstruments
    BY <1>1, <1>2, ObjectsType
  <2> HIDE DEF list
  <2>2. m \in 1 .. Len(list)
    BY <1>2 DEF list
  <2>3. m \in 0 .. MaxInstruments /\ m \in 0 .. Len(list)
    BY <2>1, <2>2, DialogAssumption
  <2>4. list[m] \in Instruments
    BY <2>1, <2>2
  <2>5. list[m] \in ToSet(list)
    BY <2>1, <2>2, InToSet
  <2> QED
    BY <2>1, <2>3, <2>4, <2>5
<1>9. /\ e \in Dialogs /\ e.combo = n /\ e.dashboard = dashboards[n]
      /\ e.list = list /\ e.sel = m /\ e.instrument = list[m]
  BY <1>7, <1>8 DEF Dialogs
<1> HIDE DEF e
<1>10. /\ w \in Dialogs /\ w.combo = n /\ w.dashboard = dashboards[n]
       /\ w.list = list /\ w.sel = m /\ w.instrument = list[m]
       /\ Shown(w)
  BY <1>1, <1>9, FilledDetails
<1> HIDE DEF w
<1>11. Pointed(w, dashboards)
  <2>1. n \in 0 .. Len(dashboards) /\ ElementAt(dashboards, n) = dashboards[n]
    BY <1>1, <1>2, ObjectsType
  <2> QED
    BY <1>10, <2>1 DEF Pointed
<1>12. Edits(w, instruments)
  BY <1>2, <1>8, <1>10 DEF Edits
<1>13. w.list = ListOf(w, instruments)
  BY <1>2, <1>10 DEF ListOf
<1>14. w.sel \in 0 .. Len(w.list)
  BY <1>8, <1>10
<1>15. Consistent(x, dashboards, instruments) /\ Coherent(x, instruments)
  <2>1. ElementAt(w.list, w.sel) = w.instrument
    BY <1>1, <1>2, <1>10, ObjectsType, ElementAtType
  <2> QED
    BY <1>1, <1>10, <1>11, <1>12, <1>13, <1>14, <2>1, EnabledForDashboard
<1>16. x \in Dialogs
  BY <1>15 DEF Consistent
<1> HIDE DEF x
<1>17. Consistent(ui', dashboards', instruments') /\ Coherent(ui', instruments')
  BY <1>3, <1>15, <1>16, EnabledListButtons, ButtonsDontMatter
<1> QED
  BY <1>1, <1>3, <1>4, <1>17, StaysOpen

LEMMA AcceptInvariant == ASSUME IInv, AcceptPreferences PROVE IInv'
<1>1. /\ dashboards' = dashboards /\ instruments' = instruments
      /\ setting' = Updated /\ Editing
      /\ ui' = EmptyDialog /\ orig_config' = Closed
  BY DEF AcceptPreferences
<1> QED
  BY <1>1, UpdatedType, Closes

LEMMA CancelInvariant == ASSUME IInv, CancelPreferences PROVE IInv'
<1>1. /\ Editing /\ ReadConfig(orig_config)
      /\ ui' = EmptyDialog /\ orig_config' = Closed
  BY DEF CancelPreferences
<1> QED
  BY <1>1, WhileEditing, ReadObjects, Closes

LEMMA EditorInvariant ==
    ASSUME IInv, NEW config \in EditorConfigs, AcceptEditor(config)
    PROVE  IInv' /\ Coherent(ui', instruments')
<1>1. config \in Configs
  BY DialogAssumption
<1>2. AreObjects(dashboards', instruments', setting')
  BY <1>1, ReadObjects DEF AcceptEditor
<1>3. Editing /\ orig_config' = orig_config
  BY DEF AcceptEditor
<1>4. /\ WithoutEdited(ui) \in Dialogs
      /\ WithoutEdited(ui).dashboard = NoObject
      /\ WithoutEdited(ui).instrument = NoObject
  BY <1>3, WhileEditing DEF WithoutEdited, Dialogs
<1>5. dashboards' # <<>> => 1 \in 1 .. Len(dashboards')
  BY <1>2, ObjectsType
<1> DEFINE u == FillForm(WithoutEdited(ui), 1, dashboards', instruments',
                        setting')
<1>6. Consistent(u, dashboards', instruments') /\ Coherent(u, instruments')
  BY <1>2, <1>4, <1>5, FilledForm
<1>7. ui' = u
  BY DEF AcceptEditor
<1> HIDE DEF u
<1> QED
  BY <1>2, <1>3, <1>6, <1>7, WhileEditing, StaysOpen

(* A dashboard is added behind the others, with its own instruments.       *)
LEMMA AddsDashboardInvariant ==
    ASSUME IInv, Editing, NEW d \in Dashboards,
           NEW config \in DashboardConfigs, NEW set \in [Instruments -> Settings],
           AddsDashboard(d, config, set)
    PROVE  IInv' /\ Coherent(ui', instruments')
<1>1. /\ AreObjects(dashboards, instruments, setting)
      /\ Consistent(ui, dashboards, instruments)
      /\ ui \in Dialogs /\ orig_config \in Configs
  BY WhileEditing
<1>2. /\ Len(dashboards) < MaxDashboards
      /\ dashboards' = Append(dashboards, d)
      /\ instruments' = [instruments EXCEPT ![d] = Created(d, config)]
      /\ setting' = [i \in Instruments |->
            IF i \in ToSet(Created(d, config)) THEN config[i[2]] ELSE set[i]]
      /\ ui' = FillForm([ui EXCEPT !.instrument = NoObject], Len(dashboards'),
                        dashboards', instruments', setting')
      /\ orig_config' = orig_config
  BY DEF AddsDashboard
<1>3. /\ dashboards' \in Seq(Dashboards)
      /\ Len(dashboards') = Len(dashboards) + 1
      /\ Len(dashboards') <= MaxDashboards
      /\ Len(dashboards') \in 1 .. Len(dashboards') /\ dashboards' # <<>>
  <2>1. dashboards \in Seq(Dashboards) /\ Len(dashboards) \in Nat
    BY <1>1, ObjectsType
  <2>2. /\ dashboards' \in Seq(Dashboards)
        /\ Len(dashboards') = Len(dashboards) + 1
    BY <1>2, <2>1
  <2> QED
    BY <1>2, <2>1, <2>2, DialogAssumption
<1>4. instruments' \in [Dashboards -> Seq(Instruments)]
  BY <1>1, <1>2, CreatedIsList DEF AreObjects, IsList
<1>5. \A e \in Dashboards : IsList(e, instruments'[e])
  BY <1>1, <1>2, CreatedIsList DEF AreObjects
<1>6. setting' \in [Instruments -> Settings]
  <2>1. ASSUME NEW i \in Instruments, i \in ToSet(Created(d, config))
        PROVE  config[i[2]] \in Settings
    BY <2>1, CreatedIsList, ConfigType
  <2> QED
    BY <1>2, <2>1
<1>7. AreObjects(dashboards', instruments', setting')
  BY <1>3, <1>4, <1>5, <1>6 DEF AreObjects
<1>8. /\ [ui EXCEPT !.instrument = NoObject] \in Dialogs
      /\ [ui EXCEPT !.instrument = NoObject].instrument = NoObject
  BY <1>1 DEF Dialogs
<1>9. Consistent(ui', dashboards', instruments') /\ Coherent(ui', instruments')
  BY <1>2, <1>3, <1>7, <1>8, FilledForm
<1> QED
  BY <1>1, <1>2, <1>7, <1>9, StaysOpen

LEMMA NewDashboardInvariant ==
    ASSUME IInv, NEW d \in Dashboards, NewDashboard(d)
    PROVE  IInv' /\ Coherent(ui', instruments')
<1>1. Editing /\ AddsDashboard(d, <<>>, Updated)
  BY DEF NewDashboard
<1>2. <<>> \in DashboardConfigs
  <2>1. MaxInstruments \in Nat
    BY DialogAssumption
  <2>2. <<>> \in Seq(Settings) /\ Len(<<>>) <= MaxInstruments
    BY <2>1
  <2> QED
    BY <2>1, <2>2, Bounded DEF DashboardConfigs
<1> QED
  BY <1>1, <1>2, UpdatedType, AddsDashboardInvariant

LEMMA ImportDashboardInvariant ==
    ASSUME IInv, NEW d \in Dashboards, NEW config \in DashboardFiles,
           ImportDashboard(d, config)
    PROVE  IInv' /\ Coherent(ui', instruments')
<1>1. Editing /\ AddsDashboard(d, config, setting)
  BY DEF ImportDashboard
<1>2. config \in DashboardConfigs
  BY DialogAssumption
<1>3. setting \in [Instruments -> Settings]
  BY DEF IInv, TypeOK
<1> QED
  BY <1>1, <1>2, <1>3, AddsDashboardInvariant

(* The dashboard and all its instruments are deleted; the one that takes   *)
(* its place is selected, or the last one.                                 *)
LEMMA RemoveDashboardInvariant ==
    ASSUME IInv, RemoveDashboard
    PROVE  IInv' /\ Coherent(ui', instruments')
<1> DEFINE d == dashboards[ui.combo]
           combo == Min2(ui.combo, Len(dashboards'))
           u == [WithoutEdited(ui) EXCEPT !.combo = combo]
           l == FillInstrumentList(u, instruments')
           v == FillInstrumentDetails(l, setting')
           w == [v EXCEPT !.dashboard = dashboards'[combo]]
           x == FillInstrumentList(w, instruments')
           y == IF combo = 0 THEN v ELSE x
<1>1. /\ Editing /\ ui.combo # 0
      /\ dashboards' = RemoveAt(dashboards, ui.combo)
      /\ instruments' = [instruments EXCEPT ![d] = <<>>]
      /\ setting' = [i \in Instruments |->
            IF i[1] = d THEN Default ELSE setting[i]]
      /\ ui' = EnableItemsForSelectedDashboard(y, dashboards', instruments',
                                               setting')
      /\ orig_config' = orig_config
  BY DEF RemoveDashboard
<1>2. /\ AreObjects(dashboards, instruments, setting)
      /\ ui \in Dialogs /\ orig_config \in Configs
      /\ ui.combo \in 1 .. Len(dashboards)
      /\ dashboards \in Seq(Dashboards) /\ Len(dashboards) \in Nat
      /\ Len(dashboards) <= MaxDashboards
      /\ d \in Dashboards
  <2>1. ui.combo \in 0 .. Len(dashboards)
    BY <1>1, WhileEditing DEF Consistent, Pointed
  <2>2. AreObjects(dashboards, instruments, setting)
    BY <1>1, WhileEditing
  <2>3. Len(dashboards) \in Nat
    BY <2>2, ObjectsType
  <2>4. ui.combo \in 1 .. Len(dashboards)
    BY <1>1, <2>1, <2>3
  <2> QED
    BY <1>1, <2>2, <2>4, WhileEditing, ObjectsType
<1>3. /\ dashboards' \in Seq(Dashboards)
      /\ Len(dashboards') = Len(dashboards) - 1
      /\ Len(dashboards') <= MaxDashboards
  <2>1. /\ dashboards' \in Seq(Dashboards)
        /\ Len(dashboards') = Len(dashboards) - 1
    BY <1>1, <1>2, RemoveAtType
  <2> QED
    BY <1>2, <2>1, DialogAssumption
<1>4. instruments' \in [Dashboards -> Seq(Instruments)]
  BY <1>1, <1>2, EmptyIsList DEF AreObjects, IsList
<1>5. \A e \in Dashboards : IsList(e, instruments'[e])
  BY <1>1, <1>2, EmptyIsList DEF AreObjects
<1>6. setting' \in [Instruments -> Settings]
  BY <1>1, <1>2, DialogAssumption DEF AreObjects
<1>7. AreObjects(dashboards', instruments', setting')
  BY <1>3, <1>4, <1>5, <1>6 DEF AreObjects
<1>8. /\ combo \in 0 .. Len(dashboards') /\ combo \in 0 .. MaxDashboards
      /\ combo # 0 => combo \in 1 .. Len(dashboards')
  BY <1>2, <1>3, DialogAssumption DEF Min2
<1> HIDE DEF combo
<1>9. /\ u \in Dialogs /\ u.dashboard = NoObject /\ u.instrument = NoObject
      /\ u.combo = combo
  BY <1>2, <1>8 DEF WithoutEdited, Dialogs
<1> HIDE DEF u
<1>10. /\ l \in Dialogs /\ l.dashboard = NoObject /\ l.instrument = NoObject
       /\ l.combo = combo /\ l.list = <<>> /\ l.sel = 0
  BY <1>7, <1>9, FilledList DEF ListOf
<1> HIDE DEF l
<1>11. /\ v \in Dialogs /\ v.dashboard = NoObject /\ v.instrument = NoObject
       /\ v.combo = combo /\ v.list = <<>> /\ v.sel = 0 /\ Shown(v)
  BY <1>7, <1>10, FilledDetails
<1> HIDE DEF v
<1>12. /\ y \in Dialogs /\ Pointed(y, dashboards') /\ Edits(y, instruments')
       /\ Shown(y) /\ y.list = ListOf(y, instruments') /\ y.sel = 0
       /\ y.instrument = NoObject
  <2>1. CASE combo = 0
    <3>1. y = v
      BY <2>1
    <3> HIDE DEF y
    <3>2. ElementAt(dashboards', 0) = NoObject
      BY <1>7, ObjectsType
    <3> QED
      BY <1>8, <1>11, <2>1, <3>1, <3>2 DEF Pointed, Edits, ListOf
  <2>2. CASE combo # 0
    <3>1. y = x
      BY <2>2
    <3>2. /\ dashboards'[combo] \in Dashboards
          /\ ElementAt(dashboards', combo) = dashboards'[combo]
      BY <1>7, <1>8, <2>2, ObjectsType
    <3>3. /\ w \in Dialogs /\ w.dashboard = dashboards'[combo]
          /\ w.instrument = NoObject /\ w.combo = combo /\ w.form = v.form
      BY <1>11, <3>2 DEF Dialogs
    <3> HIDE DEF w
    <3>4. /\ x \in Dialogs /\ x.dashboard = dashboards'[combo]
          /\ x.instrument = NoObject /\ x.combo = combo
          /\ x.list = ListOf(w, instruments') /\ x.sel = 0
          /\ x.form = v.form
      BY <1>7, <3>3, FilledList
    <3> HIDE DEF x, y
    <3>5. x.list = ListOf(x, instruments')
      BY <3>3, <3>4 DEF ListOf
    <3>6. Pointed(x, dashboards')
      BY <1>8, <3>2, <3>4 DEF Pointed
    <3>7. Edits(x, instruments') /\ Shown(x)
      BY <1>11, <3>4 DEF Edits, Shown
    <3> QED
      BY <3>1, <3>4, <3>5, <3>6, <3>7
  <2> QED
    BY <2>1, <2>2
<1> HIDE DEF y
<1>13. y.sel \in 0 .. Len(y.list)
  BY <1>7, <1>12, ListOfType
<1>14. Consistent(ui', dashboards', instruments') /\ Coherent(ui', instruments')
  <2>1. ElementAt(y.list, 0) = NoObject
    BY <1>7, <1>12, NothingAtZero, ListOfType
  <2> QED
    BY <1>1, <1>7, <1>12, <1>13, <2>1, EnabledForDashboard
<1> QED
  BY <1>1, <1>2, <1>7, <1>14, StaysOpen

LEMMA ChooseDashboardInvariant ==
    ASSUME IInv, NEW n, ChooseDashboard(n)
    PROVE  IInv' /\ Coherent(ui', instruments')
<1> DEFINE c == [ui EXCEPT !.combo = n, !.dashboard = dashboards[n],
                           !.instrument = NoObject]
           u == FillInstrumentList(c, instruments)
           v == FillInstrumentDetails(u, setting')
<1>1. /\ Editing /\ n \in DOMAIN dashboards
      /\ setting' = Updated
      /\ dashboards' = dashboards /\ instruments' = instruments
      /\ orig_config' = orig_config
      /\ ui' = EnableItemsForSelectedDashboard(v, dashboards, instruments,
                                               setting')
  BY DEF ChooseDashboard
<1>2. /\ AreObjects(dashboards, instruments, setting')
      /\ ui \in Dialogs /\ orig_config \in Configs
  BY <1>1, UpdatedType, WhileEditing
<1>3. /\ n \in 1 .. Len(dashboards) /\ n \in 0 .. MaxDashboards
      /\ n \in 0 .. Len(dashboards)
      /\ dashboards[n] \in Dashboards
      /\ ElementAt(dashboards, n) = dashboards[n]
  <2>1. n \in 1 .. Len(dashboards)
    BY <1>1, <1>2, ObjectsType
  <2> QED
    BY <1>2, <2>1, ObjectsType, DialogAssumption
<1>4. /\ c \in Dialogs /\ c.combo = n /\ c.dashboard = dashboards[n]
      /\ c.instrument = NoObject
  BY <1>2, <1>3 DEF Dialogs
<1> HIDE DEF c
<1>5. /\ u \in Dialogs /\ u.combo = n /\ u.dashboard = dashboards[n]
      /\ u.instrument = NoObject /\ u.list = ListOf(c, instruments)
      /\ u.sel = 0
  BY <1>2, <1>4, FilledList
<1> HIDE DEF u
<1>6. /\ v \in Dialogs /\ v.combo = n /\ v.dashboard = dashboards[n]
      /\ v.instrument = NoObject /\ v.list = ListOf(c, instruments)
      /\ v.sel = 0 /\ Shown(v)
  BY <1>2, <1>5, FilledDetails
<1> HIDE DEF v
<1>7. v.list = ListOf(v, instruments)
  BY <1>4, <1>6 DEF ListOf
<1>8. Pointed(v, dashboards) /\ Edits(v, instruments)
  BY <1>3, <1>6 DEF Pointed, Edits
<1>9. v.sel \in 0 .. Len(v.list)
  BY <1>2, <1>6, <1>7, ListOfType
<1>10. Consistent(ui', dashboards, instruments) /\ Coherent(ui', instruments)
  <2>1. ElementAt(v.list, 0) = NoObject
    BY <1>2, <1>6, <1>7, NothingAtZero, ListOfType
  <2> QED
    BY <1>1, <1>2, <1>6, <1>7, <1>8, <1>9, <2>1, EnabledForDashboard
<1> QED
  BY <1>1, <1>2, <1>10, StaysOpen

LEMMA TypeInvariant ==
    ASSUME IInv, NEW value \in Typed, Type(value)
    PROVE  IInv'
<1>1. /\ Editing /\ ui' = [ui EXCEPT !.form.value = value]
      /\ dashboards' = dashboards /\ instruments' = instruments
      /\ setting' = setting /\ orig_config' = orig_config
  BY DEF Type, objectVars
<1>2. /\ AreObjects(dashboards, instruments, setting)
      /\ Consistent(ui, dashboards, instruments)
      /\ ui \in Dialogs /\ orig_config \in Configs
  BY <1>1, WhileEditing
<1>3. value \in Settings
  BY DialogAssumption
<1>4. /\ ui' \in Dialogs
      /\ ui'.dashboard = ui.dashboard /\ ui'.instrument = ui.instrument
      /\ ui'.combo = ui.combo /\ ui'.list = ui.list /\ ui'.sel = ui.sel
      /\ ui'.form.of = ui.form.of /\ ui'.form.value = value
  BY <1>1, <1>2, <1>3 DEF Dialogs, Forms
<1>5. Consistent(ui', dashboards, instruments)
  BY <1>2, <1>3, <1>4
     DEF Consistent, Pointed, Edits, Listed, Selects, Shown
<1> QED
  BY <1>1, <1>2, <1>5, StaysOpen

IsLast(i, list) == list # <<>> /\ ElementAt(list, Len(list)) = i

LEMMA AppendedIsLast ==
    ASSUME NEW list \in Seq(Instruments), NEW i \in Instruments
    PROVE  IsLast(i, Append(list, i))
<1> DEFINE longer == Append(list, i)
           n == Len(list) + 1
<1>1. /\ longer \in Seq(Instruments) /\ Len(longer) = n
      /\ longer[n] = i /\ n \in Nat /\ n # 0
  OBVIOUS
<1> HIDE DEF longer, n
<1>2. n \in 1 .. Len(longer) /\ longer # <<>>
  BY <1>1
<1>3. ElementAt(longer, n) = i
  BY <1>1, <1>2, ElementAtType
<1> QED
  BY <1>1, <1>2, <1>3 DEF IsLast, longer

(* The instrument is added to the dashboard that is selected.              *)
LEMMA AddedObjects ==
    ASSUME IInv, Editing, NEW i \in Instruments, NEW value \in Settings,
           NEW set \in [Instruments -> Settings], AddsInstrument(i, value, set)
    PROVE  /\ AreObjects(dashboards', instruments', setting')
           /\ dashboards' = dashboards /\ orig_config' = orig_config
           /\ ui.dashboard \in Dashboards
           /\ i \notin ToSet(instruments[ui.dashboard])
           /\ \A d \in Dashboards :
                ToSet(instruments'[d]) =
                    IF d = ui.dashboard THEN ToSet(instruments[d]) \cup {i}
                    ELSE ToSet(instruments[d])
           /\ setting' = [set EXCEPT ![i] = value]
           /\ IsLast(i, instruments'[ui.dashboard])
<1>1. /\ i[1] = ui.dashboard /\ Len(instruments[i[1]]) < MaxInstruments
      /\ i \notin ToSet(instruments[i[1]])
      /\ instruments' = [instruments EXCEPT ![i[1]] = Append(@, i)]
      /\ setting' = [set EXCEPT ![i] = value]
      /\ dashboards' = dashboards /\ orig_config' = orig_config
  BY DEF AddsInstrument
<1>2. i[1] \in Dashboards
  BY DEF Instruments
<1>3. AreObjects(dashboards, instruments, setting)
  BY WhileEditing
<1>4. /\ IsList(i[1], Append(instruments[i[1]], i))
      /\ ToSet(Append(instruments[i[1]], i)) =
            ToSet(instruments[i[1]]) \cup {i}
  BY <1>1, <1>2, <1>3, AppendIsList DEF AreObjects
<1>5. \A d \in Dashboards :
        instruments'[d] = IF d = i[1] THEN Append(instruments[i[1]], i)
                          ELSE instruments[d]
  BY <1>1, <1>2, <1>3 DEF AreObjects
<1>6. \A d \in Dashboards : IsList(d, instruments'[d])
  BY <1>3, <1>4, <1>5 DEF AreObjects
<1>7. instruments' \in [Dashboards -> Seq(Instruments)]
  BY <1>1, <1>2, <1>3, <1>4 DEF AreObjects, IsList
<1>8. setting' \in [Instruments -> Settings]
  BY <1>1
<1>9. AreObjects(dashboards', instruments', setting')
  BY <1>1, <1>3, <1>6, <1>7, <1>8 DEF AreObjects
<1>10. \A d \in Dashboards :
        ToSet(instruments'[d]) =
            IF d = i[1] THEN ToSet(instruments[d]) \cup {i}
            ELSE ToSet(instruments[d])
  BY <1>4, <1>5
<1>11. IsLast(i, instruments'[ui.dashboard])
  <2>1. instruments[i[1]] \in Seq(Instruments)
    BY <1>2, <1>3, ObjectsType
  <2>2. IsLast(i, Append(instruments[i[1]], i))
    BY <2>1, AppendedIsLast
  <2> QED
    BY <1>1, <1>2, <1>5, <2>2
<1> QED
  BY <1>1, <1>2, <1>9, <1>10, <1>11

(* The list is filled, and its last entry selected.                        *)
LEMMA LastSelected ==
    ASSUME NEW dbs, NEW insts, NEW set, AreObjects(dbs, insts, set),
           NEW u \in Dialogs, Pointed(u, dbs), Edits(u, insts)
    PROVE  /\ SelectLast(u, insts, set) \in Dialogs
           /\ Consistent(SelectLast(u, insts, set), dbs, insts)
           /\ IsLast(u.instrument, ListOf(u, insts)) =>
                Coherent(SelectLast(u, insts, set), insts)
<1> DEFINE v == FillInstrumentList(u, insts)
           last == Len(v.list)
           w == [v EXCEPT !.sel = last]
           r == FillInstrumentDetails(w, set)
<1>1. /\ v \in Dialogs /\ v.dashboard = u.dashboard
      /\ v.instrument = u.instrument /\ v.combo = u.combo
      /\ v.list = ListOf(u, insts)
  BY FilledList
<1>2. last \in 0 .. MaxInstruments
  BY <1>1, ListOfType
<1>3. SelectLast(u, insts, set) = r
  BY DEF SelectLast
<1> HIDE DEF v
<1>4. /\ w \in Dialogs /\ w.dashboard = u.dashboard
      /\ w.instrument = u.instrument /\ w.combo = u.combo
      /\ w.list = ListOf(u, insts) /\ w.sel = last
  BY <1>1, <1>2 DEF Dialogs
<1> HIDE DEF w
<1>5. /\ r \in Dialogs /\ r.dashboard = u.dashboard
      /\ r.instrument = u.instrument /\ r.combo = u.combo
      /\ r.list = ListOf(u, insts) /\ r.sel = last /\ Shown(r)
  BY <1>4, FilledDetails
<1> HIDE DEF r
<1>6. r.list = ListOf(r, insts)
  BY <1>5 DEF ListOf
<1>7. r.sel \in 0 .. Len(r.list)
  BY <1>1, <1>2, <1>5
<1>8. Listed(r, insts) /\ Selects(r, insts)
  BY <1>5, <1>6, <1>7, FilledIsListed
<1>9. Pointed(r, dbs) /\ Edits(r, insts)
  BY <1>5 DEF Pointed, Edits
<1>10. ASSUME IsLast(u.instrument, ListOf(u, insts))
       PROVE  Coherent(r, insts)
  <2>1. last # 0
    BY <1>1, <1>10, ListOfType DEF IsLast
  <2> QED
    BY <1>1, <1>5, <1>6, <1>10, <2>1 DEF IsLast, Coherent
<1> QED
  BY <1>3, <1>5, <1>8, <1>9, <1>10 DEF Consistent

LEMMA AddInstrumentInvariant ==
    ASSUME IInv, NEW i \in Instruments, AddInstrument(i)
    PROVE  IInv' /\ Coherent(ui', instruments')
<1> DEFINE u == [ui EXCEPT !.instrument = i]
           v == SelectLast(u, instruments', setting')
           w == EnableItems(v, TRUE)
<1>1. /\ Editing /\ AddsInstrument(i, Default, Updated)
      /\ ui' = EnableInstrumentListButtons(w)
  BY DEF AddInstrument
<1>2. /\ AreObjects(dashboards', instruments', setting')
      /\ dashboards' = dashboards /\ orig_config' = orig_config
      /\ ui.dashboard \in Dashboards
      /\ i \in ToSet(instruments'[ui.dashboard])
      /\ IsLast(i, instruments'[ui.dashboard])
  BY <1>1, UpdatedType, AddedObjects, DialogAssumption
<1>3. /\ ui \in Dialogs /\ orig_config \in Configs
      /\ Pointed(ui, dashboards)
  BY <1>1, WhileEditing DEF Consistent
<1>4. /\ u \in Dialogs /\ u.dashboard = ui.dashboard /\ u.combo = ui.combo
      /\ u.instrument = i
  BY <1>3 DEF Dialogs
<1> HIDE DEF u
<1>5. Pointed(u, dashboards') /\ Edits(u, instruments')
  BY <1>2, <1>3, <1>4, DialogAssumption DEF Pointed, Edits
<1>6. /\ v \in Dialogs /\ Consistent(v, dashboards', instruments')
      /\ Coherent(v, instruments')
  <2>1. IsLast(u.instrument, ListOf(u, instruments'))
    BY <1>2, <1>4, DialogAssumption DEF ListOf
  <2> QED
    BY <1>2, <1>4, <1>5, <2>1, LastSelected
<1> HIDE DEF v
<1>7. /\ w \in Dialogs /\ Consistent(w, dashboards', instruments')
      /\ Coherent(w, instruments')
  BY <1>6, EnabledItems, ButtonsDontMatter
<1> HIDE DEF w
<1>8. Consistent(ui', dashboards', instruments') /\ Coherent(ui', instruments')
  BY <1>1, <1>7, EnabledListButtons, ButtonsDontMatter
<1> QED
  BY <1>2, <1>3, <1>8, StaysOpen

LEMMA ImportInstrumentInvariant ==
    ASSUME IInv, NEW i \in Instruments, NEW value \in InstrumentFiles,
           ImportInstrument(i, value)
    PROVE  IInv' /\ Coherent(ui', instruments')
<1> DEFINE u == [ui EXCEPT !.instrument = i]
           v == SelectLast(u, instruments', setting')
<1>1. /\ Editing /\ AddsInstrument(i, value, setting)
      /\ ui' = EnableInstrumentListButtons(v)
  BY DEF ImportInstrument
<1>2. value \in Settings /\ setting \in [Instruments -> Settings]
  BY DialogAssumption DEF IInv, TypeOK
<1>3. /\ AreObjects(dashboards', instruments', setting')
      /\ dashboards' = dashboards /\ orig_config' = orig_config
      /\ ui.dashboard \in Dashboards
      /\ i \in ToSet(instruments'[ui.dashboard])
      /\ IsLast(i, instruments'[ui.dashboard])
  BY <1>1, <1>2, AddedObjects
<1>4. /\ ui \in Dialogs /\ orig_config \in Configs
      /\ Pointed(ui, dashboards)
  BY <1>1, WhileEditing DEF Consistent
<1>5. /\ u \in Dialogs /\ u.dashboard = ui.dashboard /\ u.combo = ui.combo
      /\ u.instrument = i
  BY <1>4 DEF Dialogs
<1> HIDE DEF u
<1>6. Pointed(u, dashboards') /\ Edits(u, instruments')
  BY <1>3, <1>4, <1>5, DialogAssumption DEF Pointed, Edits
<1>7. /\ v \in Dialogs /\ Consistent(v, dashboards', instruments')
      /\ Coherent(v, instruments')
  <2>1. IsLast(u.instrument, ListOf(u, instruments'))
    BY <1>3, <1>5, DialogAssumption DEF ListOf
  <2> QED
    BY <1>3, <1>5, <1>6, <2>1, LastSelected
<1> HIDE DEF v
<1>8. Consistent(ui', dashboards', instruments') /\ Coherent(ui', instruments')
  BY <1>1, <1>7, EnabledListButtons, ButtonsDontMatter
<1> QED
  BY <1>3, <1>4, <1>8, StaysOpen

LEMMA ImportNothingInvariant == ASSUME IInv, ImportNothing PROVE IInv'
<1> DEFINE v == SelectLast(ui, instruments, setting)
<1>1. /\ Editing /\ ui' = EnableInstrumentListButtons(v)
      /\ dashboards' = dashboards /\ instruments' = instruments
      /\ setting' = setting /\ orig_config' = orig_config
  BY DEF ImportNothing, objectVars
<1>2. /\ AreObjects(dashboards, instruments, setting)
      /\ ui \in Dialogs /\ orig_config \in Configs
      /\ Pointed(ui, dashboards) /\ Edits(ui, instruments)
  BY <1>1, WhileEditing DEF Consistent
<1>3. v \in Dialogs /\ Consistent(v, dashboards, instruments)
  BY <1>2, LastSelected
<1> HIDE DEF v
<1>4. Consistent(ui', dashboards', instruments')
  BY <1>1, <1>3, EnabledListButtons, ButtonsDontMatter
<1> QED
  BY <1>1, <1>2, <1>4, StaysOpen

(* As long as the list has entries, a dashboard is selected.               *)
LEMMA ListHasDashboard ==
    ASSUME IInv, Editing, NEW n \in 1 .. Len(ui.list)
    PROVE  /\ ui.dashboard \in Dashboards
           /\ ui.dashboard # NoObject
           /\ n \in 1 .. Len(instruments[ui.dashboard])
           /\ ui.list \in Seq(Instruments)
           /\ Len(ui.list) \in 1 .. MaxInstruments
           /\ Len(ui.list) <= Len(instruments[ui.dashboard])
<1>1. /\ AreObjects(dashboards, instruments, setting)
      /\ Listed(ui, instruments) /\ ui \in Dialogs
  BY WhileEditing DEF Consistent
<1>2. /\ ui.list \in Seq(Instruments) /\ Len(ui.list) <= MaxInstruments
      /\ Len(ui.list) \in Nat
  <2>1. ui.list \in BoundedSeq(Instruments, MaxInstruments)
    BY <1>1 DEF Dialogs
  <2>2. ui.list \in Seq(Instruments) /\ Len(ui.list) <= MaxInstruments
    BY <2>1, Bounded, DialogAssumption
  <2> QED
    BY <2>2
<1>3. Len(ui.list) # 0 /\ Len(ui.list) \in 1 .. MaxInstruments
  BY <1>2, DialogAssumption
<1>4. ui.dashboard # NoObject /\ ui.dashboard \in Dashboards
  <2>1. ui.dashboard # NoObject
    BY <1>1, <1>3 DEF Listed
  <2> QED
    BY <1>1, <2>1 DEF Dialogs
<1>5. Len(ui.list) <= Len(instruments[ui.dashboard])
  BY <1>1, <1>4 DEF Listed
<1>6. Len(instruments[ui.dashboard]) \in Nat
  BY <1>1, <1>4, ObjectsType
<1> QED
  BY <1>2, <1>3, <1>4, <1>5, <1>6

LEMMA SelectInListInvariant ==
    ASSUME IInv, NEW n \in Nat, SelectInList(n)
    PROVE  IInv' /\ Coherent(ui', instruments')
<1> DEFINE l == FillInstrumentList(ui, instruments)
           chosen == ElementAt(instruments[ui.dashboard], n)
           u == [l EXCEPT !.sel = n, !.instrument = chosen]
           v == FillInstrumentDetails(u, setting')
           w == EnableItems(v, TRUE)
<1>1. /\ Editing /\ n \in DOMAIN ui.list
      /\ setting' = Updated
      /\ dashboards' = dashboards /\ instruments' = instruments
      /\ orig_config' = orig_config
      /\ ui' = EnableInstrumentListButtons(w)
  BY DEF SelectInList
<1>2. /\ AreObjects(dashboards, instruments, setting')
      /\ ui \in Dialogs /\ orig_config \in Configs
      /\ Pointed(ui, dashboards)
  BY <1>1, UpdatedType, WhileEditing DEF Consistent
<1> DEFINE list == instruments[ui.dashboard]
<1>3. /\ ui.dashboard \in Dashboards /\ ui.dashboard # NoObject
      /\ n \in 1 .. Len(list)
      /\ list \in Seq(Instruments) /\ Len(list) \in 0 .. MaxInstruments
  <2>1. ui.list \in Seq(Instruments)
    <3>1. ui.list \in BoundedSeq(Instruments, MaxInstruments)
      BY <1>2 DEF Dialogs
    <3> QED
      BY <3>1, Bounded, DialogAssumption
  <2>2. n \in 1 .. Len(ui.list)
    BY <1>1, <2>1
  <2> QED
    BY <1>1, <1>2, <2>2, ListHasDashboard, ObjectsType
<1>4. /\ chosen = list[n] /\ chosen \in Instruments
      /\ chosen \in ToSet(list)
      /\ n \in 0 .. MaxInstruments /\ n \in 0 .. Len(list)
  <2> HIDE DEF list
  <2>1. chosen = list[n] /\ chosen \in Instruments
    BY <1>3, ElementAtType DEF list
  <2>2. list[n] \in ToSet(list)
    BY <1>3, InToSet
  <2> QED
    BY <1>3, <2>1, <2>2, DialogAssumption
<1>5. /\ l \in Dialogs /\ l.dashboard = ui.dashboard /\ l.combo = ui.combo
      /\ l.list = list
  BY <1>2, <1>3, FilledList DEF ListOf
<1> HIDE DEF l, chosen
<1>6. /\ u \in Dialogs /\ u.dashboard = ui.dashboard /\ u.combo = ui.combo
      /\ u.list = list /\ u.sel = n /\ u.instrument = chosen
  BY <1>4, <1>5 DEF Dialogs
<1> HIDE DEF u
<1>7. /\ v \in Dialogs /\ v.dashboard = ui.dashboard /\ v.combo = ui.combo
      /\ v.list = list /\ v.sel = n /\ v.instrument = chosen /\ Shown(v)
  BY <1>2, <1>6, FilledDetails
<1> HIDE DEF v
<1>8. Pointed(v, dashboards) /\ Edits(v, instruments)
  BY <1>2, <1>3, <1>4, <1>7 DEF Pointed, Edits
<1>9. v.list = ListOf(v, instruments)
  BY <1>3, <1>7 DEF ListOf
<1>10. v.sel \in 0 .. Len(v.list)
  BY <1>4, <1>7
<1>11. Consistent(v, dashboards, instruments) /\ Coherent(v, instruments)
  <2>1. chosen = ElementAt(list, n) /\ n # 0
    BY <1>3, <1>4, ElementAtType
  <2>2. Coherent(v, instruments)
    BY <1>7, <1>9, <2>1 DEF Coherent
  <2> QED
    BY <1>2, <1>7, <1>8, <1>9, <1>10, <2>2, FilledIsListed DEF Consistent
<1>12. /\ w \in Dialogs /\ Consistent(w, dashboards, instruments)
       /\ Coherent(w, instruments)
  BY <1>7, <1>11, EnabledItems, ButtonsDontMatter
<1> HIDE DEF w
<1>13. Consistent(ui', dashboards, instruments) /\ Coherent(ui', instruments)
  BY <1>1, <1>12, EnabledListButtons, ButtonsDontMatter
<1> QED
  BY <1>1, <1>2, <1>13, StaysOpen

(* The instrument that is removed is the one selected in the list, which   *)
(* is the list of the dashboard then.                                      *)
LEMMA RemovedObjects ==
    ASSUME IInv, RemoveInstrument
    PROVE  /\ Editing
           /\ ui.dashboard \in Dashboards /\ ui.dashboard # NoObject
           /\ ui.sel \in 1 .. Len(ui.list)
           /\ ui.list = instruments[ui.dashboard]
           /\ instruments' = [instruments EXCEPT
                    ![ui.dashboard] = RemoveAt(ui.list, ui.sel)]
           /\ RemoveAt(ui.list, ui.sel) \in Seq(Instruments)
           /\ Len(RemoveAt(ui.list, ui.sel)) \in 0 .. MaxInstruments
           /\ ui.list[ui.sel] \notin ToSet(RemoveAt(ui.list, ui.sel))
           /\ setting' = [setting EXCEPT ![ui.list[ui.sel]] = Default]
           /\ dashboards' = dashboards
           /\ orig_config' = orig_config
           /\ AreObjects(dashboards', instruments', setting')
<1>1. /\ Editing /\ ui.sel # 0
      /\ dashboards' = dashboards /\ orig_config' = orig_config
      /\ instruments' = [instruments EXCEPT ![ui.dashboard] =
                            RemoveAt(instruments[ui.dashboard], ui.sel)]
      /\ setting' = [setting EXCEPT
                        ![instruments[ui.dashboard][ui.sel]] = Default]
  BY DEF RemoveInstrument, SelectAfterRemoval
<1>2. /\ AreObjects(dashboards, instruments, setting)
      /\ ui \in Dialogs
      /\ ui.sel \in 0 .. Len(ui.list)
      /\ ui.list = instruments[ui.dashboard]
  BY <1>1, WhileEditing DEF Consistent, Selects
<1>3. ui.sel \in 1 .. Len(ui.list)
  <2>1. ui.list \in BoundedSeq(Instruments, MaxInstruments)
    BY <1>2 DEF Dialogs
  <2>2. ui.list \in Seq(Instruments)
    BY <2>1, Bounded, DialogAssumption
  <2>3. Len(ui.list) \in Nat
    BY <2>2
  <2> QED
    BY <1>1, <1>2, <2>3
<1>4. ui.dashboard \in Dashboards /\ ui.dashboard # NoObject
  BY <1>1, <1>3, ListHasDashboard
<1>5. IsList(ui.dashboard, ui.list)
  BY <1>2, <1>4 DEF AreObjects
<1> DEFINE rest == RemoveAt(ui.list, ui.sel)
<1>6. /\ IsList(ui.dashboard, rest)
      /\ ui.list[ui.sel] \notin ToSet(rest)
  BY <1>3, <1>5, RemoveIsList
<1> HIDE DEF rest
<1>7. instruments' = [instruments EXCEPT ![ui.dashboard] = rest]
  BY <1>1, <1>2 DEF rest
<1>8. rest \in Seq(Instruments) /\ Len(rest) \in 0 .. MaxInstruments
  <2>1. rest \in Seq(Instruments) /\ Len(rest) <= MaxInstruments
    BY <1>6 DEF IsList
  <2> QED
    BY <2>1, DialogAssumption
<1>9. instruments' \in [Dashboards -> Seq(Instruments)]
  BY <1>2, <1>7, <1>8 DEF AreObjects
<1>10. \A d \in Dashboards : IsList(d, instruments'[d])
  BY <1>2, <1>4, <1>6, <1>7 DEF AreObjects
<1>11. setting' \in [Instruments -> Settings]
  BY <1>1, <1>2, DialogAssumption DEF AreObjects
<1>12. AreObjects(dashboards', instruments', setting')
  BY <1>1, <1>2, <1>9, <1>10, <1>11 DEF AreObjects
<1> QED
  BY <1>1, <1>2, <1>3, <1>4, <1>6, <1>7, <1>8, <1>12 DEF rest

LEMMA RemoveInstrumentInvariant ==
    ASSUME IInv, RemoveInstrument
    PROVE  IInv' /\ Coherent(ui', instruments')
<1> DEFINE list == RemoveAt(instruments[ui.dashboard], ui.sel)
           sel == NextSelected(list, ui.sel)
           chosen == ElementAt(list, sel)
           u == [ui EXCEPT !.list = list, !.sel = sel, !.instrument = chosen]
           v == FillInstrumentDetails(u, setting')
           x == EnableItemsForSelectedDashboard(v, dashboards, instruments',
                                                setting')
<1>1. ui' = EnableInstrumentListButtons(x)
  BY DEF RemoveInstrument, SelectAfterRemoval
<1>2. /\ Editing
      /\ ui.dashboard \in Dashboards /\ ui.dashboard # NoObject
      /\ ui.sel \in 1 .. Len(ui.list)
      /\ instruments' = [instruments EXCEPT ![ui.dashboard] = list]
      /\ list \in Seq(Instruments) /\ Len(list) \in 0 .. MaxInstruments
      /\ dashboards' = dashboards /\ orig_config' = orig_config
      /\ AreObjects(dashboards', instruments', setting')
  BY RemovedObjects
<1>3. /\ ui \in Dialogs /\ orig_config \in Configs
      /\ Pointed(ui, dashboards)
      /\ AreObjects(dashboards, instruments, setting)
  BY <1>2, WhileEditing DEF Consistent
<1>4. instruments'[ui.dashboard] = list
  BY <1>2, <1>3 DEF AreObjects
<1> HIDE DEF list
<1>5. Len(ui.list) \in Nat /\ Len(list) \in Nat /\ ui.sel \in Nat
  <2>1. Len(ui.list) \in 1 .. MaxInstruments
    BY <1>2, ListHasDashboard
  <2> QED
    BY <1>2, <2>1
<1>6. sel \in 0 .. Len(list) /\ sel \in 0 .. MaxInstruments
  <2>1. Len(list) \in 0 .. MaxInstruments /\ MaxInstruments \in Nat
    BY <1>2, DialogAssumption
  <2>2. Min2(ui.sel - 1, Len(list)) =
            IF ui.sel - 1 < Len(list) THEN ui.sel - 1 ELSE Len(list)
    BY DEF Min2
  <2>3. sel \in 0 .. Len(list)
    BY <1>5, <2>2 DEF NextSelected
  <2> QED
    BY <2>1, <2>3
<1> HIDE DEF sel
<1>7. /\ chosen \in Instruments \cup {NoObject}
      /\ chosen # NoObject => chosen \in ToSet(list)
  <2>1. CASE sel \in 1 .. Len(list)
    <3>1. chosen = list[sel] /\ list[sel] \in Instruments
      BY <1>2, <2>1, ElementAtType
    <3> QED
      BY <1>2, <2>1, <3>1, InToSet
  <2>2. CASE sel \notin 1 .. Len(list)
    BY <1>2, <2>2, ElementAtType
  <2> QED
    BY <2>1, <2>2
<1> HIDE DEF chosen
<1>8. list \in BoundedSeq(Instruments, MaxInstruments)
  BY <1>2, Bounded, DialogAssumption
<1>9. /\ u \in Dialogs /\ u.dashboard = ui.dashboard /\ u.combo = ui.combo
      /\ u.list = list /\ u.sel = sel /\ u.instrument = chosen
  BY <1>3, <1>6, <1>7, <1>8 DEF Dialogs
<1> HIDE DEF u
<1>10. /\ v \in Dialogs /\ v.dashboard = ui.dashboard /\ v.combo = ui.combo
       /\ v.list = list /\ v.sel = sel /\ v.instrument = chosen /\ Shown(v)
  BY <1>2, <1>9, FilledDetails
<1> HIDE DEF v
<1>11. Pointed(v, dashboards) /\ Edits(v, instruments')
  BY <1>2, <1>3, <1>4, <1>7, <1>10 DEF Pointed, Edits
<1>12. v.list = ListOf(v, instruments')
  BY <1>2, <1>4, <1>10 DEF ListOf
<1>13. v.sel \in 0 .. Len(v.list)
  BY <1>6, <1>10
<1>14. AreObjects(dashboards, instruments', setting')
  BY <1>2
<1>15. Consistent(x, dashboards, instruments') /\ Coherent(x, instruments')
  <2>1. v.instrument = ElementAt(v.list, v.sel)
    BY <1>10 DEF chosen
  <2> QED
    BY <1>10, <1>11, <1>12, <1>13, <1>14, <2>1, EnabledForDashboard
<1>16. x \in Dialogs
  BY <1>15 DEF Consistent
<1> HIDE DEF x
<1>17. Consistent(ui', dashboards', instruments') /\ Coherent(ui', instruments')
  BY <1>1, <1>2, <1>15, <1>16, EnabledListButtons, ButtonsDontMatter
<1> QED
  BY <1>2, <1>3, <1>17, StaysOpen

(* The list follows the instruments when one is moved, or nothing is       *)
(* selected in it any more.                                                *)
LEMMA MoveInvariant ==
    ASSUME IInv, Editing, NEW m \in Nat, ui.sel # 0,
           m = ui.sel - 1 \/ m = ui.sel + 1,
           Move(ui.sel, m)
    PROVE  /\ IInv'
           /\ \A d \in Dashboards : ToSet(instruments'[d]) = ToSet(instruments[d])
           /\ m \in 1 .. Len(ui.list) /\ Coherent(ui, instruments) =>
                Coherent(ui', instruments')
<1> DEFINE n == ui.sel
           d == ui.dashboard
           other == Swapped(instruments[d], n, m)
           rest == RemoveAt(ui.list, n)
           sel == IF m \in DOMAIN ui.list THEN m ELSE 0
<1>1. /\ setting' = Updated
      /\ instruments' = [instruments EXCEPT ![d] = other]
      /\ dashboards' = dashboards /\ orig_config' = orig_config
  BY DEF Move
<1>2. PICK list \in Moved(ui.list, n, m) :
        ui' = EnableInstrumentListButtons([ui EXCEPT !.list = list, !.sel = sel])
  BY DEF Move
<1>3. /\ AreObjects(dashboards, instruments, Updated)
      /\ Consistent(ui, dashboards, instruments)
      /\ ui \in Dialogs /\ orig_config \in Configs
      /\ ui.list = instruments[d] /\ n \in 0 .. Len(ui.list)
  BY UpdatedType, WhileEditing DEF Consistent, Selects
<1>4. ui.list \in Seq(Instruments) /\ Len(ui.list) \in Nat
      /\ Len(ui.list) <= MaxInstruments
  <2>1. ui.list \in BoundedSeq(Instruments, MaxInstruments)
    BY <1>3 DEF Dialogs
  <2>2. ui.list \in Seq(Instruments) /\ Len(ui.list) <= MaxInstruments
    BY <2>1, Bounded, DialogAssumption
  <2> QED
    BY <2>2
<1>5. n \in 1 .. Len(ui.list) /\ n \in Nat /\ n # m
  BY <1>3, <1>4
<1>6. d \in Dashboards /\ d # NoObject
  BY <1>5, ListHasDashboard
<1>7. /\ IsList(d, other) /\ Len(other) = Len(ui.list)
      /\ ToSet(other) = ToSet(instruments[d])
  <2>1. IsList(d, ui.list)
    BY <1>3, <1>6 DEF AreObjects
  <2> QED
    BY <1>3, <1>5, <2>1, SwappedIsList
<1>8. other = Swapped(ui.list, n, m)
  BY <1>3
<1> HIDE DEF other
<1>9. \A e \in Dashboards :
        instruments'[e] = IF e = d THEN other ELSE instruments[e]
  BY <1>1, <1>3 DEF AreObjects
<1>10. AreObjects(dashboards', instruments', setting')
  <2>1. instruments' \in [Dashboards -> Seq(Instruments)]
    BY <1>1, <1>3, <1>7 DEF AreObjects, IsList
  <2>2. \A e \in Dashboards : IsList(e, instruments'[e])
    BY <1>3, <1>7, <1>9 DEF AreObjects
  <2> QED
    BY <1>1, <1>3, <2>1, <2>2 DEF AreObjects
<1>11. /\ rest \in Seq(Instruments) /\ Len(rest) = Len(ui.list) - 1
       /\ ui.list[n] \in Instruments
  BY <1>4, <1>5, RemoveAtType
<1>12. DOMAIN ui.list = 1 .. Len(ui.list)
  BY <1>4
<1>13. /\ list \in Seq(Instruments) /\ Len(list) <= Len(ui.list)
       /\ sel \in 0 .. Len(list)
       /\ sel # 0 => list = other
  <2>1. CASE m \in DOMAIN ui.list
    <3>1. list = InsertAt(rest, m, ui.list[n]) /\ sel = m
      BY <2>1 DEF Moved
    <3>2. m \in 1 .. Len(ui.list)
      BY <1>12, <2>1
    <3>3. list = other
      BY <1>4, <1>5, <1>8, <3>1, <3>2, InsertedIsSwapped
    <3>4. other \in Seq(Instruments)
      BY <1>7 DEF IsList
    <3> QED
      BY <1>4, <1>7, <3>1, <3>2, <3>3, <3>4
  <2>2. CASE m \notin DOMAIN ui.list
    <3>1. list = rest \/ list = Append(rest, ui.list[n])
      BY <2>2 DEF Moved
    <3> HIDE DEF rest
    <3>2. /\ list \in Seq(Instruments)
          /\ Len(list) = Len(rest) \/ Len(list) = Len(rest) + 1
      BY <1>11, <3>1
    <3>3. Len(list) \in Nat /\ Len(list) <= Len(ui.list)
      BY <1>4, <1>11, <3>2
    <3>4. sel = 0
      BY <2>2
    <3> QED
      BY <3>2, <3>3, <3>4
  <2> QED
    BY <2>1, <2>2
<1> HIDE DEF sel
<1> DEFINE u == [ui EXCEPT !.list = list, !.sel = sel]
<1>14. Len(list) \in 0 .. MaxInstruments /\ sel \in 0 .. MaxInstruments
       /\ list \in BoundedSeq(Instruments, MaxInstruments)
  <2>1. Len(list) \in Nat /\ Len(list) <= MaxInstruments
    BY <1>4, <1>13, DialogAssumption
  <2> QED
    BY <1>13, <2>1, Bounded, DialogAssumption
<1>15. /\ u \in Dialogs /\ u.dashboard = d /\ u.combo = ui.combo
       /\ u.instrument = ui.instrument /\ u.form = ui.form
       /\ u.list = list /\ u.sel = sel
  BY <1>3, <1>14 DEF Dialogs
<1>16. ui' = EnableInstrumentListButtons(u)
  BY <1>2
<1> HIDE DEF u
<1>17. Pointed(u, dashboards) /\ Shown(u)
  BY <1>3, <1>15 DEF Consistent, Pointed, Shown
<1>18. Edits(u, instruments')
  BY <1>3, <1>6, <1>7, <1>9, <1>15 DEF Consistent, Edits
<1>19. Listed(u, instruments')
  BY <1>6, <1>7, <1>9, <1>13, <1>15 DEF Listed
<1>20. Selects(u, instruments')
  BY <1>6, <1>9, <1>13, <1>15 DEF Selects
<1>21. Consistent(u, dashboards', instruments')
  BY <1>1, <1>15, <1>17, <1>18, <1>19, <1>20 DEF Consistent
<1>22. Consistent(ui', dashboards', instruments')
  BY <1>15, <1>16, <1>21, EnabledListButtons, ButtonsDontMatter
<1>23. IInv'
  BY <1>1, <1>3, <1>10, <1>22, StaysOpen
<1>24. ASSUME m \in 1 .. Len(ui.list), Coherent(ui, instruments)
       PROVE  Coherent(ui', instruments')
  <2>1. sel = m /\ m # 0 /\ list = other
    BY <1>12, <1>13, <1>24 DEF sel
  <2>2. u.list = ListOf(u, instruments')
    BY <1>6, <1>9, <1>15, <2>1 DEF ListOf
  <2>3. ui.instrument = ui.list[n]
    BY <1>4, <1>5, <1>24, ElementAtType DEF Coherent
  <2>4. list[m] = ui.list[n]
    BY <1>4, <1>5, <1>8, <1>24, <2>1, SwappedType
  <2>5. ElementAt(list, m) = list[m]
    BY <1>7, <1>13, <1>24, <2>1, ElementAtType
  <2>6. Coherent(u, instruments')
    BY <1>15, <2>1, <2>2, <2>3, <2>4, <2>5 DEF Coherent
  <2> QED
    BY <1>15, <1>16, <1>21, <2>6, EnabledListButtons, ButtonsDontMatter
<1> QED
  BY <1>7, <1>9, <1>23, <1>24

LEMMA SelectionIsNat ==
    ASSUME IInv, Editing
    PROVE  ui.sel \in Nat
BY WhileEditing, DialogAssumption DEF Dialogs

LEMMA MoveUpInvariant == ASSUME IInv, MoveUp PROVE IInv'
<1>1. Editing /\ ui.sel # 0 /\ Move(ui.sel, ui.sel - 1)
  BY DEF MoveUp
<1>2. ui.sel - 1 \in Nat
  BY <1>1, SelectionIsNat
<1> QED
  BY <1>1, <1>2, MoveInvariant

LEMMA MoveDownInvariant == ASSUME IInv, MoveDown PROVE IInv'
<1>1. Editing /\ ui.sel # 0 /\ Move(ui.sel, ui.sel + 1)
  BY DEF MoveDown
<1>2. ui.sel + 1 \in Nat
  BY <1>1, SelectionIsNat
<1> QED
  BY <1>1, <1>2, MoveInvariant

LEMMA WritesInvariant ==
    ASSUME IInv, MoveNothing \/ CancelNew
    PROVE  IInv'
<1>1. /\ Editing /\ setting' = Updated
      /\ dashboards' = dashboards /\ instruments' = instruments
      /\ ui' = ui /\ orig_config' = orig_config
  BY DEF MoveNothing, CancelNew
<1> QED
  BY <1>1, UpdatedType, WhileEditing, StaysOpen

LEMMA NextInvariant == ASSUME IInv, [Next]_vars PROVE IInv'
<1>1. CASE OpenPreferences
  BY <1>1, OpenInvariant
<1>2. ASSUME NEW n \in 1 .. MaxDashboards, NEW m \in 1 .. MaxInstruments,
             SelectInstrument(n, m)
      PROVE  IInv'
  BY <1>2, SelectInstrumentInvariant
<1>3. CASE AcceptPreferences
  BY <1>3, AcceptInvariant
<1>4. CASE CancelPreferences
  BY <1>4, CancelInvariant
<1>5. ASSUME NEW config \in EditorConfigs, AcceptEditor(config)
      PROVE  IInv'
  BY <1>5, EditorInvariant
<1>6. CASE RemoveDashboard
  BY <1>6, RemoveDashboardInvariant
<1>7. ASSUME NEW n \in 1 .. MaxDashboards, ChooseDashboard(n)
      PROVE  IInv'
  BY <1>7, ChooseDashboardInvariant
<1>8. ASSUME NEW d \in Dashboards, NewDashboard(d) PROVE IInv'
  BY <1>8, NewDashboardInvariant
<1>9. ASSUME NEW d \in Dashboards, NEW config \in DashboardFiles,
             ImportDashboard(d, config)
      PROVE  IInv'
  BY <1>9, ImportDashboardInvariant
<1>10. ASSUME NEW i \in Instruments, AddInstrument(i) PROVE IInv'
  BY <1>10, AddInstrumentInvariant
<1>11. ASSUME NEW i \in Instruments, NEW value \in InstrumentFiles,
              ImportInstrument(i, value)
       PROVE  IInv'
  BY <1>11, ImportInstrumentInvariant
<1>12. ASSUME NEW value \in Typed, Type(value) PROVE IInv'
  BY <1>12, TypeInvariant
<1>13. ASSUME NEW n \in 1 .. MaxInstruments, SelectInList(n) PROVE IInv'
  <2>1. n \in Nat
    OBVIOUS
  <2> QED
    BY <1>13, <2>1, SelectInListInvariant
<1>14. CASE ImportNothing
  BY <1>14, ImportNothingInvariant
<1>15. CASE RemoveInstrument
  BY <1>15, RemoveInstrumentInvariant
<1>16. CASE MoveUp
  BY <1>16, MoveUpInvariant
<1>17. CASE MoveDown
  BY <1>17, MoveDownInvariant
<1>18. CASE MoveNothing \/ CancelNew
  BY <1>18, WritesInvariant
<1>19. CASE UNCHANGED vars
  BY <1>19 DEF IInv, TypeOK, ObjectsOK, DialogConsistent, Editing,
               ControlsShowEdited, vars
<1> QED
  BY <1>1, <1>2, <1>3, <1>4, <1>5, <1>6, <1>7, <1>8, <1>9, <1>10, <1>11,
     <1>12, <1>13, <1>14, <1>15, <1>16, <1>17, <1>18, <1>19 DEF Next

LEMMA Invariant == Spec => []IInv
<1>1. Init => IInv
  BY InitInvariant
<1>2. IInv /\ [Next]_vars => IInv'
  BY NextInvariant
<1> QED
  BY <1>1, <1>2, PTL DEF Spec

(* The handlers keep the types of the objects and of the dialog.           *)
THEOREM TypeCorrect == Spec => []TypeOK
<1>1. IInv => TypeOK
  BY DEF IInv
<1> QED
  BY <1>1, Invariant, PTL

(* No handler of the dialog leaves m_edited_dashboard or                   *)
(* m_edited_instrument pointing to an object that was deleted, or to an    *)
(* instrument of another dashboard than the selected one.                  *)
THEOREM PointersCorrect == Spec => []EditedAlive
<1>1. IInv => EditedAlive
  BY DEF IInv, DialogConsistent, Consistent, Pointed, Edits, EditedAlive
<1> QED
  BY <1>1, Invariant, PTL

(* The controls always are those of m_edited_instrument, which             *)
(* UpdateEditedInstrument writes them to.                                  *)
THEOREM ControlsCorrect == Spec => []ControlsShowEdited
<1>1. IInv => ControlsShowEdited
  BY DEF IInv
<1> QED
  BY <1>1, Invariant, PTL

-----------------------------------------------------------------------------
(* What was entered is kept.                                               *)

(* The instrument that is edited is an own one of the selected dashboard.  *)
EditedIsOwn ==
    /\ ui.dashboard \in Dashboards
    /\ ui.dashboard \in ToSet(dashboards)
    /\ ui.instrument \in Instruments
    /\ ui.instrument[1] = ui.dashboard
    /\ ui.instrument \in ToSet(instruments[ui.dashboard])
    /\ Updated[ui.instrument] = Named[ui.form.value]

(* A dashboard only has its own instruments.                               *)
LEMMA InstrumentsOwn ==
    ASSUME NEW dbs, NEW insts, NEW set, AreObjects(dbs, insts, set),
           NEW d \in Dashboards, NEW i \in ToSet(insts[d])
    PROVE  i \in Instruments /\ i[1] = d
<1>1. insts[d] \in Seq(Instruments) /\ OwnOnly(d, insts[d])
  BY DEF AreObjects, IsList
<1>2. PICK n \in 1 .. Len(insts[d]) : insts[d][n] = i
  BY <1>1, InToSet
<1> QED
  BY <1>1, <1>2 DEF OwnOnly

LEMMA EditedLive ==
    ASSUME IInv, Editing, ui.instrument # NoObject
    PROVE  EditedIsOwn
<1>1. /\ AreObjects(dashboards, instruments, setting)
      /\ Pointed(ui, dashboards) /\ ui \in Dialogs
      /\ ui.dashboard # NoObject
      /\ ui.instrument \in ToSet(instruments[ui.dashboard])
  BY WhileEditing DEF Consistent, Edits
<1>2. ui.dashboard \in Dashboards
  BY <1>1 DEF Dialogs
<1>3. dashboards \in Seq(Dashboards) /\ Len(dashboards) \in Nat
  BY <1>1, ObjectsType
<1>4. ui.combo \in 1 .. Len(dashboards) /\ ui.dashboard = dashboards[ui.combo]
  <2>1. ui.combo # 0
    BY <1>1, ObjectsType DEF Pointed
  <2>2. ui.combo \in 1 .. Len(dashboards)
    BY <1>1, <1>3, <2>1 DEF Pointed
  <2> QED
    BY <1>1, <2>2, ObjectsType DEF Pointed
<1>5. ui.dashboard \in ToSet(dashboards)
  BY <1>3, <1>4, InToSet
<1>6. ui.instrument \in Instruments /\ ui.instrument[1] = ui.dashboard
  BY <1>1, <1>2, InstrumentsOwn
<1>7. Updated[ui.instrument] = Named[ui.form.value]
  BY UpdatedType
<1> QED
  BY <1>1, <1>2, <1>5, <1>6, <1>7 DEF EditedIsOwn

(* What EditsKept says of the instrument that was edited.                  *)
Kept ==
    /\ ui.instrument \in Live'
    /\ setting'[ui.instrument] = Named[ui.form.value]

(* Most handlers write the controls to the instrument and keep all lists.  *)
LEMMA WrittenIsKept ==
    ASSUME EditedIsOwn, setting' = Updated, dashboards' = dashboards,
           \A d \in Dashboards :
                ToSet(instruments[d]) \subseteq ToSet(instruments'[d])
    PROVE  Kept
<1>1. ui.instrument \in ToSet(instruments'[ui.dashboard])
  BY DEF EditedIsOwn
<1>2. ui.instrument \in Live'
  BY <1>1 DEF EditedIsOwn, Live
<1> QED
  BY <1>2 DEF EditedIsOwn, Kept

LEMMA NewDashboardKeeps ==
    ASSUME IInv, EditedIsOwn, NEW d \in Dashboards, NewDashboard(d)
    PROVE  Kept
<1>1. /\ Editing
      /\ d \notin ToSet(dashboards)
      /\ dashboards' = Append(dashboards, d)
      /\ instruments' = [instruments EXCEPT ![d] = Created(d, <<>>)]
      /\ setting' = [i \in Instruments |->
            IF i \in ToSet(Created(d, <<>>)) THEN <<>>[i[2]] ELSE Updated[i]]
  BY DEF NewDashboard, AddsDashboard
<1>2. AreObjects(dashboards, instruments, setting)
  BY <1>1, WhileEditing
<1>3. dashboards \in Seq(Dashboards) /\ Len(dashboards) \in Nat
  BY <1>2, ObjectsType
<1>4. ui.dashboard \in ToSet(dashboards')
  <2>1. PICK n \in 1 .. Len(dashboards) : dashboards[n] = ui.dashboard
    BY <1>3, InToSet DEF EditedIsOwn
  <2>2. /\ dashboards' \in Seq(Dashboards)
        /\ n \in 1 .. Len(dashboards') /\ dashboards'[n] = dashboards[n]
    BY <1>1, <1>3
  <2> QED
    BY <2>1, <2>2, InToSet
<1>5. instruments'[ui.dashboard] = instruments[ui.dashboard]
  BY <1>1, <1>2 DEF EditedIsOwn, AreObjects
<1>6. ui.instrument \in Live'
  BY <1>4, <1>5 DEF EditedIsOwn, Live
<1>7. ToSet(Created(d, <<>>)) = {}
  BY DEF Created, ToSet
<1>8. setting'[ui.instrument] = Named[ui.form.value]
  BY <1>1, <1>7 DEF EditedIsOwn
<1> QED
  BY <1>6, <1>8 DEF Kept

LEMMA AddInstrumentKeeps ==
    ASSUME IInv, EditedIsOwn, NEW i \in Instruments, AddInstrument(i)
    PROVE  Kept
<1>1. Editing /\ AddsInstrument(i, Default, Updated)
  BY DEF AddInstrument
<1>2. /\ Updated \in [Instruments -> Settings] /\ Default \in Settings
  BY <1>1, UpdatedType, DialogAssumption
<1>3. /\ dashboards' = dashboards
      /\ i \notin ToSet(instruments[ui.dashboard])
      /\ \A d \in Dashboards :
            ToSet(instruments'[d]) =
                IF d = ui.dashboard THEN ToSet(instruments[d]) \cup {i}
                ELSE ToSet(instruments[d])
      /\ setting' = [Updated EXCEPT ![i] = Default]
  BY <1>1, <1>2, AddedObjects
<1>4. ui.instrument # i
  BY <1>3 DEF EditedIsOwn
<1>5. setting'[ui.instrument] = Named[ui.form.value]
  BY <1>2, <1>3, <1>4 DEF EditedIsOwn
<1>6. ui.instrument \in ToSet(instruments'[ui.dashboard])
  BY <1>3 DEF EditedIsOwn
<1>7. ui.instrument \in Live'
  BY <1>3, <1>6 DEF EditedIsOwn, Live
<1> QED
  BY <1>5, <1>7 DEF Kept

(* The instruments of a dashboard are deleted with it.                     *)
LEMMA RemoveDashboardDeletes ==
    ASSUME IInv, EditedIsOwn, RemoveDashboard
    PROVE  ui.instrument \notin Live'
<1>1. /\ Editing /\ ui.combo # 0
      /\ dashboards' = RemoveAt(dashboards, ui.combo)
      /\ instruments' = [instruments EXCEPT ![dashboards[ui.combo]] = <<>>]
  BY DEF RemoveDashboard
<1>2. /\ AreObjects(dashboards, instruments, setting)
      /\ Pointed(ui, dashboards)
  BY <1>1, WhileEditing DEF Consistent
<1>3. /\ dashboards \in Seq(Dashboards) /\ Len(dashboards) \in Nat
      /\ ui.combo \in 1 .. Len(dashboards)
      /\ dashboards[ui.combo] = ui.dashboard
  <2>1. dashboards \in Seq(Dashboards) /\ Len(dashboards) \in Nat
    BY <1>2, ObjectsType
  <2>2. ui.combo \in 1 .. Len(dashboards)
    BY <1>1, <1>2, <2>1 DEF Pointed
  <2> QED
    BY <1>2, <2>1, <2>2, ObjectsType DEF Pointed
<1>4. dashboards' \in Seq(Dashboards)
  BY <1>1, <1>3, RemoveAtType
<1>5. \A d \in Dashboards :
        instruments'[d] = IF d = ui.dashboard THEN <<>> ELSE instruments[d]
  BY <1>1, <1>2, <1>3 DEF AreObjects
<1> SUFFICES ASSUME NEW d \in ToSet(dashboards'),
                    ui.instrument \in ToSet(instruments'[d])
             PROVE  FALSE
  BY DEF Live
<1>6. d \in Dashboards
  BY <1>4, InToSet
<1>7. CASE d = ui.dashboard
  <2>1. instruments'[d] = <<>>
    BY <1>5, <1>6, <1>7
  <2> QED
    BY <2>1 DEF ToSet
<1>8. CASE d # ui.dashboard
  <2>1. ui.instrument \in ToSet(instruments[d])
    BY <1>5, <1>6, <1>8
  <2>2. ui.instrument[1] = d
    BY <1>2, <1>6, <2>1, InstrumentsOwn
  <2> QED
    BY <1>8, <2>2 DEF EditedIsOwn
<1> QED
  BY <1>7, <1>8

(* The selected instrument is the one that is removed.                     *)
LEMMA RemoveInstrumentDeletes ==
    ASSUME IInv, EditedIsOwn, Selected, RemoveInstrument
    PROVE  ui.instrument \notin Live'
<1> DEFINE rest == RemoveAt(ui.list, ui.sel)
<1>1. /\ Editing
      /\ ui.sel \in 1 .. Len(ui.list)
      /\ ui.list = instruments[ui.dashboard]
      /\ instruments' = [instruments EXCEPT ![ui.dashboard] = rest]
      /\ ui.list[ui.sel] \notin ToSet(rest)
      /\ dashboards' = dashboards
  BY RemovedObjects
<1> HIDE DEF rest
<1>2. AreObjects(dashboards, instruments, setting)
  BY <1>1, WhileEditing
<1>3. dashboards \in Seq(Dashboards)
  BY <1>2, ObjectsType
<1>4. ui.instrument = ui.list[ui.sel]
  <2>1. ui.list \in Seq(Instruments)
    BY <1>1, ListHasDashboard
  <2> QED
    BY <1>1, <2>1, ElementAtType DEF Selected
<1>5. \A d \in Dashboards :
        instruments'[d] = IF d = ui.dashboard THEN rest ELSE instruments[d]
  BY <1>1, <1>2 DEF AreObjects
<1> SUFFICES ASSUME NEW d \in ToSet(dashboards'),
                    ui.instrument \in ToSet(instruments'[d])
             PROVE  FALSE
  BY DEF Live
<1>6. d \in Dashboards
  BY <1>1, <1>3, InToSet
<1>7. CASE d = ui.dashboard
  BY <1>1, <1>4, <1>5, <1>6, <1>7
<1>8. CASE d # ui.dashboard
  <2>1. ui.instrument \in ToSet(instruments[d])
    BY <1>5, <1>6, <1>8
  <2>2. ui.instrument[1] = d
    BY <1>2, <1>6, <2>1, InstrumentsOwn
  <2> QED
    BY <1>8, <2>2 DEF EditedIsOwn
<1> QED
  BY <1>7, <1>8

LEMMA MoveKeeps ==
    ASSUME IInv, EditedIsOwn, MoveUp \/ MoveDown \/ MoveNothing \/ CancelNew
    PROVE  Kept
<1>1. CASE MoveNothing \/ CancelNew
  <2>1. /\ setting' = Updated
        /\ dashboards' = dashboards /\ instruments' = instruments
    BY <1>1 DEF MoveNothing, CancelNew
  <2> QED
    BY <2>1, WrittenIsKept
<1>2. ASSUME NEW m \in Nat, Editing, ui.sel # 0,
             m = ui.sel - 1 \/ m = ui.sel + 1, Move(ui.sel, m)
      PROVE  Kept
  <2>1. setting' = Updated /\ dashboards' = dashboards
    BY <1>2 DEF Move
  <2>2. \A d \in Dashboards :
            ToSet(instruments'[d]) = ToSet(instruments[d])
    BY <1>2, MoveInvariant
  <2> QED
    BY <2>1, <2>2, WrittenIsKept
<1>3. CASE MoveUp
  <2>1. Editing /\ ui.sel # 0 /\ Move(ui.sel, ui.sel - 1)
    BY <1>3 DEF MoveUp
  <2>2. ui.sel - 1 \in Nat
    BY <2>1, SelectionIsNat
  <2> QED
    BY <1>2, <2>1, <2>2
<1>4. CASE MoveDown
  <2>1. Editing /\ ui.sel # 0 /\ Move(ui.sel, ui.sel + 1)
    BY <1>4 DEF MoveDown
  <2>2. ui.sel + 1 \in Nat
    BY <2>1, SelectionIsNat
  <2> QED
    BY <1>2, <2>1, <2>2
<1> QED
  BY <1>1, <1>3, <1>4

(* Whatever the user does next: the selected instrument has the settings   *)
(* of the controls, or the controls are as they were or typed in, or the   *)
(* instrument is deleted, or one of the exceptions is met.                 *)
Excepted ==
    \/ CancelPreferences \/ Imports
    \/ \E value \in Typed : Type(value)
    \/ \E config \in EditorConfigs : AcceptEditor(config)

LEMMA StepKeeps ==
    ASSUME IInv, [Next]_vars, Editing, ui.instrument # NoObject, Selected
    PROVE  Kept \/ ui'.form = ui.form \/ ui.instrument \notin Live' \/ Excepted
<1>1. EditedIsOwn
  BY EditedLive
<1>2. ~OpenPreferences
  BY DEF OpenPreferences
<1>3. \A n, m : ~SelectInstrument(n, m)
  BY DEF SelectInstrument
<1>4. CASE AcceptPreferences
  <2>1. /\ setting' = Updated
        /\ dashboards' = dashboards /\ instruments' = instruments
    BY <1>4 DEF AcceptPreferences
  <2> QED
    BY <1>1, <2>1, WrittenIsKept
<1>5. ASSUME NEW n, ChooseDashboard(n) PROVE Kept
  <2>1. /\ setting' = Updated
        /\ dashboards' = dashboards /\ instruments' = instruments
    BY <1>5 DEF ChooseDashboard
  <2> QED
    BY <1>1, <2>1, WrittenIsKept
<1>6. ASSUME NEW n, SelectInList(n) PROVE Kept
  <2>1. /\ setting' = Updated
        /\ dashboards' = dashboards /\ instruments' = instruments
    BY <1>6 DEF SelectInList
  <2> QED
    BY <1>1, <2>1, WrittenIsKept
<1>7. ASSUME NEW d \in Dashboards, NewDashboard(d) PROVE Kept
  BY <1>1, <1>7, NewDashboardKeeps
<1>8. ASSUME NEW i \in Instruments, AddInstrument(i) PROVE Kept
  BY <1>1, <1>8, AddInstrumentKeeps
<1>9. CASE RemoveDashboard
  BY <1>1, <1>9, RemoveDashboardDeletes
<1>10. CASE RemoveInstrument
  BY <1>1, <1>10, RemoveInstrumentDeletes
<1>11. CASE MoveUp \/ MoveDown \/ MoveNothing \/ CancelNew
  BY <1>1, <1>11, MoveKeeps
<1>12. CASE Excepted
  BY <1>12
<1>13. CASE UNCHANGED vars
  BY <1>13 DEF vars
<1> QED
  BY <1>2, <1>3, <1>4, <1>5, <1>6, <1>7, <1>8, <1>9, <1>10, <1>11, <1>12,
     <1>13 DEF Next, Excepted, Imports

(* UpdateEditedInstrument runs in every handler that leaves the selected   *)
(* instrument, before the controls are filled with another one, except     *)
(* after an import and where the instrument itself is deleted or replaced. *)
THEOREM EditsCorrect == Spec => EditsKept
<1> DEFINE Step ==
        LET i == ui.instrument
        IN  Editing /\ i # NoObject /\ Selected =>
               \/ i \in Live' /\ setting'[i] = Named[ui.form.value]
               \/ ui'.form = ui.form
               \/ \E value \in Typed : Type(value)
               \/ i \notin Live'
               \/ CancelPreferences \/ Imports
               \/ \E config \in EditorConfigs : AcceptEditor(config)
<1>1. IInv /\ [Next]_vars => [Step]_vars
  BY StepKeeps DEF Kept, Excepted
<1>2. Spec => [][Step]_vars
  BY <1>1, Invariant, PTL DEF Spec
<1> QED
  BY <1>2 DEF EditsKept

-----------------------------------------------------------------------------
(* The selection and the edited instrument.                                *)

LEMMA MoveFollows ==
    ASSUME IInv, Coherent(ui, instruments), MoveUp \/ MoveDown,
           ~MovesBeyondEnd
    PROVE  Coherent(ui', instruments')
<1>1. Editing /\ ui.sel # 0
  BY DEF MoveUp, MoveDown
<1>2. ui.sel \in 1 .. Len(ui.list) /\ Len(ui.list) \in Nat
  <2>1. ui.sel \in 0 .. Len(ui.list) /\ ui \in Dialogs
    BY <1>1, WhileEditing DEF Consistent, Selects
  <2>2. ui.list \in BoundedSeq(Instruments, MaxInstruments)
    BY <2>1 DEF Dialogs
  <2>3. ui.list \in Seq(Instruments)
    BY <2>2, Bounded, DialogAssumption
  <2>4. Len(ui.list) \in Nat
    BY <2>3
  <2> QED
    BY <1>1, <2>1, <2>4
<1>3. ASSUME NEW m \in 1 .. Len(ui.list), m = ui.sel - 1 \/ m = ui.sel + 1,
             Move(ui.sel, m)
      PROVE  Coherent(ui', instruments')
  <2>1. m \in Nat
    OBVIOUS
  <2> QED
    BY <1>1, <1>3, <2>1, MoveInvariant
<1>4. CASE MoveUp
  <2>1. Move(ui.sel, ui.sel - 1) /\ ui.sel # 1
    BY <1>4 DEF MoveUp, MovesBeyondEnd
  <2>2. ui.sel - 1 \in 1 .. Len(ui.list)
    BY <1>2, <2>1
  <2> QED
    BY <1>3, <2>1, <2>2
<1>5. CASE MoveDown
  <2>1. Move(ui.sel, ui.sel + 1) /\ ui.sel # Len(ui.list)
    BY <1>5 DEF MoveDown, MovesBeyondEnd
  <2>2. ui.sel + 1 \in 1 .. Len(ui.list)
    BY <1>2, <2>1
  <2> QED
    BY <1>3, <2>1, <2>2
<1> QED
  BY <1>4, <1>5

(* What SelectionFollows says of the dialog after a step.                  *)
Follows ==
    \/ Coherent(ui', instruments')
    \/ ImportNothing \/ MovesBeyondEnd
    \/ ~Coherent(ui, instruments) /\ Keeps

LEMMA StepFollows ==
    ASSUME IInv, Next, Editing'
    PROVE  Follows
<1>1. CASE OpenPreferences
  BY <1>1, OpenInvariant DEF Follows
<1>2. ASSUME NEW n \in 1 .. MaxDashboards, NEW m \in 1 .. MaxInstruments,
             SelectInstrument(n, m)
      PROVE  Follows
  BY <1>2, SelectInstrumentInvariant DEF Follows
<1>3. ~AcceptPreferences /\ ~CancelPreferences
  BY DEF AcceptPreferences, CancelPreferences, Editing
<1>4. ASSUME NEW config \in EditorConfigs, AcceptEditor(config)
      PROVE  Follows
  BY <1>4, EditorInvariant DEF Follows
<1>5. CASE RemoveDashboard
  BY <1>5, RemoveDashboardInvariant DEF Follows
<1>6. ASSUME NEW n \in 1 .. MaxDashboards, ChooseDashboard(n)
      PROVE  Follows
  BY <1>6, ChooseDashboardInvariant DEF Follows
<1>7. ASSUME NEW d \in Dashboards, NewDashboard(d) PROVE Follows
  BY <1>7, NewDashboardInvariant DEF Follows
<1>8. ASSUME NEW d \in Dashboards, NEW config \in DashboardFiles,
             ImportDashboard(d, config)
      PROVE  Follows
  BY <1>8, ImportDashboardInvariant DEF Follows
<1>9. ASSUME NEW i \in Instruments, AddInstrument(i) PROVE Follows
  BY <1>9, AddInstrumentInvariant DEF Follows
<1>10. ASSUME NEW i \in Instruments, NEW value \in InstrumentFiles,
              ImportInstrument(i, value)
       PROVE  Follows
  BY <1>10, ImportInstrumentInvariant DEF Follows
<1>11. ASSUME NEW value \in Typed, Type(value) PROVE Follows
  <2>1. /\ ui' = [ui EXCEPT !.form.value = value]
        /\ instruments' = instruments /\ Editing
    BY <1>11 DEF Type, objectVars
  <2>2. ui \in Dialogs
    BY <2>1, WhileEditing
  <2>3. /\ ui'.dashboard = ui.dashboard /\ ui'.instrument = ui.instrument
        /\ ui'.list = ui.list /\ ui'.sel = ui.sel
    BY <2>1, <2>2 DEF Dialogs
  <2>4. Coherent(ui, instruments) => Coherent(ui', instruments')
    BY <2>1, <2>3 DEF Coherent, ListOf
  <2> QED
    BY <1>11, <2>4 DEF Follows, Keeps, Types
<1>12. ASSUME NEW n \in 1 .. MaxInstruments, SelectInList(n) PROVE Follows
  <2>1. n \in Nat
    OBVIOUS
  <2> QED
    BY <1>12, <2>1, SelectInListInvariant DEF Follows
<1>13. CASE ImportNothing
  BY <1>13 DEF Follows
<1>14. CASE RemoveInstrument
  BY <1>14, RemoveInstrumentInvariant DEF Follows
<1>15. CASE MoveUp \/ MoveDown
  BY <1>15, MoveFollows DEF Follows, Keeps
<1>16. CASE MoveNothing \/ CancelNew
  <2>1. ui' = ui /\ instruments' = instruments
    BY <1>16 DEF MoveNothing, CancelNew
  <2> QED
    BY <1>16, <2>1 DEF Follows, Keeps
<1> QED
  BY <1>1, <1>2, <1>3, <1>4, <1>5, <1>6, <1>7, <1>8, <1>9, <1>10, <1>11,
     <1>12, <1>13, <1>14, <1>15, <1>16 DEF Next

(* The entry that is selected, which "remove", "up" and "down" take from   *)
(* the dashboard by its index, is m_edited_instrument after every handler, *)
(* but for an import of nothing and a move beyond an end.                  *)
THEOREM SelectionCorrect == Spec => SelectionFollows
<1>1. IInv /\ [Next]_vars => [Editing' => Follows]_vars
  BY StepFollows
<1>2. Spec => [][Editing' => Follows]_vars
  BY <1>1, Invariant, PTL DEF Spec
<1> QED
  BY <1>2 DEF SelectionFollows, Follows
=============================================================================
