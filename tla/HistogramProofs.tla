--------------------------- MODULE HistogramProofs ---------------------------
(***************************************************************************)
(* Theorems about Histogram, for buffers of every size and grain, every    *)
(* time-out and every time without data after which frames redraw; and     *)
(* about Settings, for every choice of classes and any number of edits.    *)
(***************************************************************************)
EXTENDS Histogram, Settings, WellFoundedInduction, TLAPS

(* Times do not lie ahead.                                                 *)
ClockAhead ==
    /\ last_change <= now
    /\ bmp_time <= now
    /\ \A t \in log : t <= now

(* A picture that needs no redraw shows the last data there was.           *)
PictureShowsLast == ~needs_redraw => last_change <= bmp_time

(* A bucket is known by its first sample, and none of its samples is       *)
(* younger than the grain allows.                                          *)
IsBucket(bucket, level, past) ==
    /\ bucket.ts \in bucket.samples
    /\ \A t \in bucket.samples :
        t \in past /\ bucket.ts <= t /\ t <= bucket.ts + Grains[level]

(* A buffer has all samples since its first bucket, in buckets that are    *)
(* apart.  Each bucket has its own first sample: without it, dropping the  *)
(* oldest bucket might also drop a younger sample.                         *)
Holds(buffer, level, past) ==
    /\ \A t \in past : t >= buffer[1].ts =>
        \E i \in 1 .. Len(buffer) : t \in buffer[i].samples
    /\ \A i \in 1 .. Len(buffer) : IsBucket(buffer[i], level, past)
    /\ \A i \in 1 .. Len(buffer) : \A t \in buffer[i].samples :
        \A j \in i + 1 .. Len(buffer) : t < buffer[j].ts

(* And unless it is full, its first bucket is the first one there was.     *)
HoldsAll(buffer, level, past) ==
    \A t \in past : t >= buffer[1].ts \/ Len(buffer) = Sizes[level]

Recent(buffer, level, past) ==
    /\ Len(buffer) <= Sizes[level]
    /\ HoldsAll(buffer, level, past)
    /\ Holds(buffer, level, past)

BuffersRecent ==
    \A level \in Levels :
        IF history[level] = <<>> THEN log = {}
        ELSE Recent(history[level], level, log)

IInv ==
    /\ TypeOK
    /\ ClockAhead
    /\ PictureShowsLast
    /\ BuffersRecent
    /\ GraphKeepsMoving

-----------------------------------------------------------------------------
(* Lemmas about the buffers: a sample taken now goes into a bucket of its  *)
(* own, or into the last one, and at most the oldest bucket is dropped.    *)

LEMMA BoundsType ==
    ASSUME NEW level \in Levels
    PROVE  /\ Sizes[level] \in Nat /\ Sizes[level] >= 1
           /\ Grains[level] \in Nat /\ Grains[level] >= 1
BY HistogramAssumption

LEMMA TimesNat == Times \subseteq Nat
BY HistogramAssumption DEF Times

LEMMA FirstSample ==
    ASSUME NEW level \in Levels, now \in Times
    PROVE  /\ AddTo(<<>>, level) \in Seq(Buckets)
           /\ AddTo(<<>>, level) # <<>>
           /\ Recent(AddTo(<<>>, level), level, {now})
<1> DEFINE bucket == [ts |-> now, samples |-> {now}]
<1>1. bucket \in Buckets /\ now \in Nat
  BY TimesNat DEF Buckets
<1>2. Append(<<>>, bucket) = <<bucket>>
  OBVIOUS
<1>3. AddTo(<<>>, level) = PopFront(<<bucket>>, level)
  BY <1>2 DEF AddTo, StartsBucket
<1>4. AddTo(<<>>, level) = <<bucket>>
  BY <1>3, BoundsType DEF PopFront
<1>5. IsBucket(bucket, level, {now})
  BY <1>1, BoundsType DEF IsBucket
<1>6. Len(<<bucket>>) = 1 /\ <<bucket>>[1] = bucket
  OBVIOUS
<1>7. /\ \A t \in {now} : t >= <<bucket>>[1].ts
      /\ \A t \in {now} : t \in <<bucket>>[1].samples
  BY <1>1, <1>6
<1> HIDE DEF bucket
<1>8. Recent(<<bucket>>, level, {now})
  BY <1>5, <1>6, <1>7, BoundsType DEF Recent, Holds, HoldsAll
<1>9. <<bucket>> \in Seq(Buckets) /\ <<bucket>> # <<>>
  BY <1>1
<1> QED
  BY <1>4, <1>8, <1>9

(* The sample goes into the last bucket.                                   *)
LEMMA SampleInLast ==
    ASSUME NEW level \in Levels, NEW buffer \in Seq(Buckets), buffer # <<>>,
           NEW past \in SUBSET Times, now \in Times,
           \A t \in past : t <= now,
           Recent(buffer, level, past),
           now <= buffer[Len(buffer)].ts + Grains[level],
           NEW grown,
           grown = [buffer EXCEPT ![Len(buffer)].samples = @ \cup {now}]
    PROVE  /\ grown \in Seq(Buckets)
           /\ Len(grown) = Len(buffer)
           /\ Recent(grown, level, past \cup {now})
<1> DEFINE n == Len(buffer)
<1>1. n \in Nat /\ n >= 1 /\ now \in Nat /\ past \subseteq Nat
  BY TimesNat
<1>2. \A i \in 1 .. n : buffer[i] \in Buckets
  OBVIOUS
<1>3. /\ Len(grown) = n
      /\ \A i \in 1 .. n : i # n => grown[i] = buffer[i]
      /\ grown[n] = [buffer[n] EXCEPT !.samples = buffer[n].samples \cup {now}]
  <2> DEFINE bucket == [buffer[n] EXCEPT !.samples = buffer[n].samples \cup {now}]
  <2>1. grown = [buffer EXCEPT ![n] = bucket]
    OBVIOUS
  <2>2. buffer \in [1 .. n -> Buckets] /\ n \in 1 .. n
    BY <1>1
  <2> HIDE DEF bucket
  <2>3. grown = [i \in 1 .. n |-> IF i = n THEN bucket ELSE buffer[i]]
    BY <2>1, <2>2
  <2>4. Len(grown) = n
    BY <1>1, <2>3
  <2> QED
    BY <2>2, <2>3, <2>4 DEF bucket
<1>4. /\ grown[n].ts = buffer[n].ts
      /\ grown[n].samples = buffer[n].samples \cup {now}
      /\ grown[n] \in Buckets
  BY <1>1, <1>2, <1>3 DEF Buckets
<1>5. grown \in Seq(Buckets)
  BY <1>1, <1>2, <1>3, <1>4
<1>6. \A i \in 1 .. n : /\ grown[i].ts = buffer[i].ts
                        /\ buffer[i].samples \subseteq grown[i].samples
                        /\ buffer[i].ts \in Nat
  BY <1>1, <1>2, <1>3, <1>4, TimesNat DEF Buckets
<1>7. \A i \in 1 .. n : IsBucket(buffer[i], level, past)
  BY DEF Recent, Holds, HoldsAll
<1>8. \A i \in 1 .. n : IsBucket(grown[i], level, past \cup {now})
  <2> SUFFICES ASSUME NEW i \in 1 .. n
               PROVE  IsBucket(grown[i], level, past \cup {now})
    OBVIOUS
  <2>1. buffer[n].ts <= now
    BY <1>1, <1>7 DEF IsBucket
  <2>2. CASE i = n
    BY <1>4, <1>7, <2>1, <2>2 DEF IsBucket
  <2>3. CASE i # n
    BY <1>3, <1>7, <2>3 DEF IsBucket
  <2> QED
    BY <2>2, <2>3
<1>9. \A i \in 1 .. n : \A t \in grown[i].samples :
        \A j \in i + 1 .. n : t < grown[j].ts
  <2> SUFFICES ASSUME NEW i \in 1 .. n, NEW t \in grown[i].samples,
                      NEW j \in i + 1 .. n
               PROVE  t < grown[j].ts
    OBVIOUS
  <2>1. i # n /\ j \in 1 .. n
    BY <1>1
  <2>2. t \in buffer[i].samples
    BY <1>3, <2>1
  <2>3. t < buffer[j].ts
    BY <2>2 DEF Recent, Holds, HoldsAll
  <2> QED
    BY <1>6, <2>1, <2>3
<1>10. 1 \in 1 .. n /\ n \in 1 .. n
  BY <1>1
<1>11. ASSUME NEW t \in past \cup {now}
       PROVE  /\ t >= grown[1].ts \/ Len(grown) = Sizes[level]
              /\ t >= grown[1].ts =>
                    \E i \in 1 .. Len(grown) : t \in grown[i].samples
  <2>1. CASE t \in past
    <3>1. /\ t >= buffer[1].ts \/ n = Sizes[level]
          /\ t >= buffer[1].ts => \E i \in 1 .. n : t \in buffer[i].samples
      BY <2>1 DEF Recent, Holds, HoldsAll
    <3> QED
      BY <1>3, <1>6, <1>10, <3>1
  <2>2. CASE t = now
    <3>1. buffer[1].ts \in past
      BY <1>7, <1>10 DEF IsBucket
    <3>2. grown[1].ts <= now
      BY <1>6, <1>10, <3>1
    <3>3. now \in grown[n].samples
      BY <1>4
    <3>4. grown[1].ts \in Nat
      BY <1>6, <1>10
    <3> QED
      BY <1>1, <1>3, <1>10, <2>2, <3>2, <3>3, <3>4
  <2> QED
    BY <2>1, <2>2
<1> QED
  BY <1>3, <1>5, <1>8, <1>9, <1>11 DEF Recent, Holds, HoldsAll

(* The sample opens a bucket, of which there may be one too many then.     *)
LEMMA SampleOpens ==
    ASSUME NEW level \in Levels, NEW buffer \in Seq(Buckets), buffer # <<>>,
           NEW past \in SUBSET Times, now \in Times,
           \A t \in past : t <= now,
           Recent(buffer, level, past),
           buffer[Len(buffer)].ts + Grains[level] < now,
           NEW longer,
           longer = Append(buffer, [ts |-> now, samples |-> {now}])
    PROVE  /\ longer \in Seq(Buckets)
           /\ Len(longer) = Len(buffer) + 1
           /\ Holds(longer, level, past \cup {now})
           /\ Len(buffer) # Sizes[level] =>
                HoldsAll(longer, level, past \cup {now})
<1> DEFINE n == Len(buffer)
           bucket == [ts |-> now, samples |-> {now}]
<1>1. n \in Nat /\ n >= 1 /\ now \in Nat /\ past \subseteq Nat
  BY TimesNat
<1>2. bucket \in Buckets /\ bucket.ts = now /\ bucket.samples = {now}
  BY DEF Buckets
<1>3. \A i \in 1 .. n : buffer[i] \in Buckets
  OBVIOUS
<1> HIDE DEF bucket
<1>4. /\ longer \in Seq(Buckets)
      /\ Len(longer) = n + 1
      /\ \A i \in 1 .. n : longer[i] = buffer[i]
      /\ longer[n + 1] = bucket
  BY <1>1, <1>2 DEF bucket
<1>5. \A i \in 1 .. n + 1 : i \in 1 .. n \/ i = n + 1
  BY <1>1
<1>6. 1 \in 1 .. n /\ n \in 1 .. n
  BY <1>1
<1>7. \A i \in 1 .. n : IsBucket(buffer[i], level, past)
  BY DEF Recent, Holds, HoldsAll
<1>8. IsBucket(bucket, level, past \cup {now})
  BY <1>1, <1>2, BoundsType DEF IsBucket
<1>9. \A i \in 1 .. n + 1 : IsBucket(longer[i], level, past \cup {now})
  <2>1. \A i \in 1 .. n : IsBucket(longer[i], level, past \cup {now})
    BY <1>4, <1>7 DEF IsBucket
  <2> QED
    BY <1>4, <1>5, <1>8, <2>1
<1>10. \A i \in 1 .. n : buffer[i].ts \in Nat /\ buffer[i].samples \subseteq Nat
  BY <1>3, TimesNat DEF Buckets
(* Whatever the buffer holds was taken before.                             *)
<1>11. ASSUME NEW i \in 1 .. n, NEW t \in buffer[i].samples
       PROVE  t < now
  <2>1. CASE i = n
    <3>1. t <= buffer[n].ts + Grains[level]
      BY <1>7, <2>1 DEF IsBucket
    <3> QED
      BY <1>1, <1>6, <1>10, <3>1, BoundsType
  <2>2. CASE i # n
    <3>1. n \in i + 1 .. n
      BY <1>1, <2>2
    <3>2. t < buffer[n].ts
      BY <3>1 DEF Recent, Holds, HoldsAll
    <3>3. t \in Nat
      BY <1>10
    <3> QED
      BY <1>1, <1>6, <1>10, <3>2, <3>3, BoundsType
  <2> QED
    BY <2>1, <2>2
<1>12. \A i \in 1 .. n + 1 : \A t \in longer[i].samples :
        \A j \in i + 1 .. n + 1 : t < longer[j].ts
  <2> SUFFICES ASSUME NEW i \in 1 .. n + 1, NEW t \in longer[i].samples,
                      NEW j \in i + 1 .. n + 1
               PROVE  t < longer[j].ts
    OBVIOUS
  <2>1. i \in 1 .. n /\ t \in buffer[i].samples
    BY <1>1, <1>4
  <2>2. CASE j = n + 1
    BY <1>2, <1>4, <1>11, <2>1, <2>2
  <2>3. CASE j # n + 1
    <3>1. j \in i + 1 .. n /\ j \in 1 .. n
      BY <1>1, <2>3
    <3> QED
      BY <1>4, <2>1, <3>1 DEF Recent, Holds, HoldsAll
  <2> QED
    BY <2>2, <2>3
<1>13. longer[1] = buffer[1]
  BY <1>4, <1>6
<1>14. ASSUME NEW t \in past \cup {now}
       PROVE  /\ t >= longer[1].ts \/ n = Sizes[level]
              /\ t >= longer[1].ts =>
                    \E i \in 1 .. n + 1 : t \in longer[i].samples
  <2>1. CASE t \in past
    <3>1. /\ t >= buffer[1].ts \/ n = Sizes[level]
          /\ t >= buffer[1].ts => \E i \in 1 .. n : t \in buffer[i].samples
      BY <2>1 DEF Recent, Holds, HoldsAll
    <3>2. \A i \in 1 .. n : i \in 1 .. n + 1
      BY <1>1
    <3> QED
      BY <1>4, <1>13, <3>1, <3>2
  <2>2. CASE t = now
    <3>1. buffer[1].ts \in past
      BY <1>6, <1>7 DEF IsBucket
    <3>2. buffer[1].ts <= now /\ buffer[1].ts \in Nat
      BY <1>6, <1>10, <3>1
    <3>3. now \in longer[n + 1].samples /\ n + 1 \in 1 .. n + 1
      BY <1>1, <1>2, <1>4
    <3> QED
      BY <1>1, <1>13, <2>2, <3>2, <3>3
  <2> QED
    BY <2>1, <2>2
<1> QED
  BY <1>4, <1>9, <1>12, <1>14 DEF Holds, HoldsAll

(* Every further sample.                                                   *)
LEMMA NextSample ==
    ASSUME NEW level \in Levels, NEW buffer \in Seq(Buckets), buffer # <<>>,
           NEW past \in SUBSET Times, now \in Times,
           \A t \in past : t <= now,
           Recent(buffer, level, past)
    PROVE  /\ AddTo(buffer, level) \in Seq(Buckets)
           /\ AddTo(buffer, level) # <<>>
           /\ Recent(AddTo(buffer, level), level, past \cup {now})
<1> DEFINE n == Len(buffer)
           longer == Append(buffer, [ts |-> now, samples |-> {now}])
           grown == [buffer EXCEPT ![Len(buffer)].samples = @ \cup {now}]
<1>1. n \in Nat /\ n >= 1 /\ now \in Nat
  BY TimesNat
<1>2. n <= Sizes[level]
  BY DEF Recent, Holds, HoldsAll
<1>3. Last(buffer) = buffer[n]
  BY DEF Last
<1>4. buffer[n].ts \in Nat
  <2>1. buffer[n] \in Buckets
    BY <1>1
  <2> QED
    BY <2>1, TimesNat DEF Buckets
<1>5. CASE ~StartsBucket(buffer, level)
  <2>1. now <= buffer[n].ts + Grains[level]
    BY <1>1, <1>3, <1>4, <1>5, BoundsType DEF StartsBucket, OlderThan
  <2>2. /\ grown \in Seq(Buckets) /\ Len(grown) = n
        /\ Recent(grown, level, past \cup {now})
    BY <2>1, SampleInLast
  <2>3. AddTo(buffer, level) = PopFront(grown, level)
    BY <1>5 DEF AddTo
  <2> HIDE DEF grown
  <2>4. AddTo(buffer, level) = grown
    BY <1>1, <1>2, <2>2, <2>3, BoundsType DEF PopFront
  <2>5. grown # <<>>
    BY <1>1, <2>2
  <2> QED
    BY <2>2, <2>4, <2>5
<1>6. CASE StartsBucket(buffer, level)
  <2>1. buffer[n].ts + Grains[level] < now
    BY <1>3, <1>6 DEF StartsBucket, OlderThan
  <2>2. /\ longer \in Seq(Buckets)
        /\ Len(longer) = n + 1
        /\ Holds(longer, level, past \cup {now})
        /\ n # Sizes[level] => HoldsAll(longer, level, past \cup {now})
    <3>1. longer = Append(buffer, [ts |-> now, samples |-> {now}])
      OBVIOUS
    <3> HIDE DEF longer
    <3> QED
      BY <2>1, <3>1, SampleOpens
  <2>3. AddTo(buffer, level) = PopFront(longer, level)
    BY <1>6 DEF AddTo
  <2> HIDE DEF longer
  <2>4. CASE n < Sizes[level]
    <3>1. AddTo(buffer, level) = longer
      BY <1>1, <2>2, <2>3, <2>4, BoundsType DEF PopFront
    <3>2. Len(longer) <= Sizes[level] /\ n # Sizes[level]
      BY <1>1, <2>2, <2>4, BoundsType
    <3>3. Recent(longer, level, past \cup {now})
      BY <2>2, <3>2 DEF Recent, Holds, HoldsAll
    <3>4. longer # <<>>
      BY <1>1, <2>2
    <3> QED
      BY <2>2, <3>1, <3>3, <3>4
  <2>5. CASE n = Sizes[level]
    <3> DEFINE rest == Tail(longer)
    <3>1. AddTo(buffer, level) = rest
      BY <1>1, <2>2, <2>3, <2>5 DEF PopFront
    <3>2. /\ rest \in Seq(Buckets)
          /\ Len(rest) = n
          /\ \A i \in 1 .. n : rest[i] = longer[i + 1]
      BY <1>1, <2>2
    <3> HIDE DEF rest
    <3>3. \A i \in 1 .. n : i + 1 \in 1 .. n + 1
      BY <1>1
    <3>4. 1 \in 1 .. n /\ 1 \in 1 .. n + 1 /\ 2 \in 1 + 1 .. n + 1
      BY <1>1
    <3>5. rest[1] = longer[2]
      BY <3>2, <3>4
    <3>6. /\ longer[1].ts \in Nat /\ longer[2].ts \in Nat
          /\ longer[1].ts < longer[2].ts
      <4>1. longer[1] \in Buckets /\ longer[2] \in Buckets
        BY <1>1, <2>2
      <4>2. longer[1].ts \in longer[1].samples
        BY <2>2, <3>4 DEF Holds, IsBucket
      <4> QED
        BY <2>2, <3>4, <4>1, <4>2, TimesNat DEF Buckets, Holds
    <3>7. ASSUME NEW t \in past \cup {now}, t >= rest[1].ts
          PROVE  \E i \in 1 .. n : t \in rest[i].samples
      <4>1. t \in Nat
        BY <1>1, TimesNat
      <4>2. t >= longer[1].ts
        BY <3>5, <3>6, <3>7, <4>1
      <4>3. PICK i \in 1 .. n + 1 : t \in longer[i].samples
        BY <2>2, <4>2 DEF Holds
      <4>4. i # 1
        BY <2>2, <3>4, <3>5, <3>6, <3>7, <4>1, <4>3 DEF Holds
      <4>5. i - 1 \in 1 .. n /\ (i - 1) + 1 = i
        BY <1>1, <4>4
      <4>6. t \in rest[i - 1].samples
        BY <3>2, <4>3, <4>5
      <4> QED
        BY <4>5, <4>6
    <3>8. \A i \in 1 .. n : IsBucket(rest[i], level, past \cup {now})
      BY <2>2, <3>2, <3>3 DEF Holds
    <3>9. ASSUME NEW i \in 1 .. n, NEW t \in rest[i].samples,
                 NEW j \in i + 1 .. n
          PROVE  t < rest[j].ts
      <4>1. /\ i + 1 \in 1 .. n + 1
            /\ j + 1 \in (i + 1) + 1 .. n + 1
            /\ j \in 1 .. n
        BY <1>1
      <4>2. rest[i] = longer[i + 1] /\ rest[j] = longer[j + 1]
        BY <3>2, <4>1
      <4> QED
        BY <2>2, <4>1, <4>2 DEF Holds
    <3>10. Recent(rest, level, past \cup {now})
      BY <1>2, <2>5, <3>2, <3>7, <3>8, <3>9 DEF Recent, Holds, HoldsAll
    <3>11. rest # <<>>
      BY <1>1, <3>2
    <3> QED
      BY <3>1, <3>2, <3>10, <3>11
  <2> QED
    BY <1>1, <1>2, <2>4, <2>5, BoundsType
<1> QED
  BY <1>5, <1>6

-----------------------------------------------------------------------------
(* A sample goes into all buffers.                                         *)
LEMMA AddInvariant ==
    ASSUME TypeOK, ClockAhead, BuffersRecent, Add
    PROVE  /\ history' \in [Levels -> Seq(Buckets)]
           /\ log' \in SUBSET Times
           /\ \A t \in log' : t <= now
           /\ BuffersRecent'
<1>1. /\ now \in Times /\ log \in SUBSET Times
      /\ history \in [Levels -> Seq(Buckets)]
      /\ \A t \in log : t <= now
  BY DEF TypeOK, ClockAhead
<1>2. log' = log \cup {now}
  BY DEF Add
<1>3. ASSUME NEW level \in Levels
      PROVE  /\ AddTo(history[level], level) \in Seq(Buckets)
             /\ AddTo(history[level], level) # <<>>
             /\ Recent(AddTo(history[level], level), level, log')
  <2>1. CASE history[level] = <<>>
    <3>1. log' = {now}
      BY <1>2, <2>1 DEF BuffersRecent
    <3> QED
      BY <1>1, <2>1, <3>1, FirstSample
  <2>2. CASE history[level] # <<>>
    <3>1. Recent(history[level], level, log) /\ history[level] \in Seq(Buckets)
      BY <1>1, <2>2 DEF BuffersRecent
    <3> QED
      BY <1>1, <1>2, <2>2, <3>1, NextSample
  <2> QED
    BY <2>1, <2>2
<1>4. history' = [level \in Levels |-> AddTo(history[level], level)]
  BY DEF Add
<1>5. \A level \in Levels : history'[level] = AddTo(history[level], level)
  BY <1>4
<1>6. history' \in [Levels -> Seq(Buckets)]
  BY <1>3, <1>4
<1>7. BuffersRecent'
  <2> SUFFICES ASSUME NEW level \in Levels
               PROVE  IF history'[level] = <<>> THEN log' = {}
                      ELSE Recent(history'[level], level, log')
    BY DEF BuffersRecent, Recent, Holds, HoldsAll, IsBucket
  <2> QED
    BY <1>3, <1>5
<1>8. now <= now
  BY <1>1, TimesNat
<1> QED
  BY <1>1, <1>2, <1>6, <1>7, <1>8

(* What every frame that looks for data preserves.                         *)
LEMMA LookInvariant ==
    ASSUME TypeOK, ClockAhead, BuffersRecent, Look
    PROVE  /\ new_data' \in BOOLEAN
           /\ timed_out' \in BOOLEAN
           /\ last_change' = IF new_data THEN now ELSE last_change
           /\ history' \in [Levels -> Seq(Buckets)]
           /\ log' \in SUBSET Times
           /\ \A t \in log' : t <= now
           /\ BuffersRecent'
<1>1. new_data' \in BOOLEAN /\ timed_out' \in BOOLEAN
  BY DEF Look
<1>2. last_change' = IF new_data THEN now ELSE last_change
  BY DEF Look
<1>3. CASE Add
  BY <1>1, <1>2, <1>3, AddInvariant
<1>4. CASE history' = history /\ log' = log
  <2>1. BuffersRecent'
    BY <1>4 DEF BuffersRecent, Recent, Holds, HoldsAll, IsBucket
  <2> QED
    BY <1>1, <1>2, <1>4, <2>1 DEF TypeOK, ClockAhead
<1> QED
  BY <1>3, <1>4 DEF Look

-----------------------------------------------------------------------------
LEMMA InitInvariant == Init => IInv
<1> SUFFICES ASSUME Init PROVE IInv
  OBVIOUS
<1>1. 0 \in Times
  BY HistogramAssumption DEF Times
<1>2. <<>> \in Seq(Buckets)
  OBVIOUS
<1>3. history \in [Levels -> Seq(Buckets)]
  BY <1>2 DEF Init
<1>4. /\ known \in BOOLEAN /\ new_data \in BOOLEAN /\ timed_out \in BOOLEAN
      /\ needs_redraw \in BOOLEAN /\ visible \in BOOLEAN /\ drawn \in BOOLEAN
  BY DEF Init
<1>5. TypeOK
  BY <1>1, <1>3, <1>4 DEF Init, TypeOK
<1>6. BuffersRecent
  BY DEF Init, BuffersRecent
<1>7. ClockAhead /\ PictureShowsLast /\ GraphKeepsMoving
  BY DEF Init, ClockAhead, PictureShowsLast, GraphKeepsMoving
<1> QED
  BY <1>5, <1>6, <1>7 DEF IInv

(* Steps that leave the buffers alone.                                     *)
LEMMA BuffersUnchanged ==
    ASSUME BuffersRecent, history' = history, log' = log
    PROVE  BuffersRecent'
BY DEF BuffersRecent, Recent, Holds, HoldsAll, IsBucket

LEMMA TickInvariant == ASSUME IInv, Tick PROVE IInv'
<1>1. now \in Nat /\ now' \in Times /\ now' = now + 1
  BY HistogramAssumption DEF IInv, TypeOK, Tick, Times
<1>2. TypeOK'
  BY <1>1 DEF IInv, TypeOK, Tick, flags
<1>3. last_change \in Nat /\ bmp_time \in Nat /\ log \subseteq Nat
  BY TimesNat DEF IInv, TypeOK
<1>4. ClockAhead'
  BY <1>1, <1>3 DEF IInv, ClockAhead, Tick, flags
<1>5. BuffersRecent'
  BY BuffersUnchanged DEF IInv, Tick
<1>6. PictureShowsLast' /\ GraphKeepsMoving'
  BY DEF IInv, PictureShowsLast, GraphKeepsMoving, Tick, flags
<1> QED
  BY <1>2, <1>4, <1>5, <1>6 DEF IInv

(* Neither the time nor the picture changes.                               *)
LEMMA NotifyInvariant ==
    ASSUME IInv, NEW own \in BOOLEAN, NotifyNewData(own)
    PROVE  IInv'
<1>1. TypeOK'
  BY DEF IInv, TypeOK, NotifyNewData, view
<1>2. BuffersRecent'
  BY BuffersUnchanged DEF IInv, NotifyNewData
<1>3. ClockAhead' /\ PictureShowsLast' /\ GraphKeepsMoving'
  BY DEF IInv, ClockAhead, PictureShowsLast, GraphKeepsMoving, NotifyNewData,
         view
<1> QED
  BY <1>1, <1>2, <1>3 DEF IInv

LEMMA TurnInvariant == ASSUME IInv, Turn PROVE IInv'
<1>1. TypeOK'
  BY DEF IInv, TypeOK, Turn, flags
<1>2. BuffersRecent'
  BY BuffersUnchanged DEF IInv, Turn
<1>3. ClockAhead' /\ PictureShowsLast' /\ GraphKeepsMoving'
  BY DEF IInv, ClockAhead, PictureShowsLast, GraphKeepsMoving, Turn, flags
<1> QED
  BY <1>1, <1>2, <1>3 DEF IInv

LEMMA ForceRedrawInvariant == ASSUME IInv, ForceRedraw PROVE IInv'
<1>1. TypeOK'
  BY DEF IInv, TypeOK, ForceRedraw, view
<1>2. BuffersRecent'
  BY BuffersUnchanged DEF IInv, ForceRedraw
<1>3. ClockAhead' /\ PictureShowsLast' /\ GraphKeepsMoving'
  BY DEF IInv, ClockAhead, PictureShowsLast, GraphKeepsMoving, ForceRedraw,
         view
<1> QED
  BY <1>1, <1>2, <1>3 DEF IInv

LEMMA ProcessDataInvariant == ASSUME IInv, ProcessData PROVE IInv'
<1>1. TypeOK /\ ClockAhead /\ BuffersRecent /\ Look
  BY DEF IInv, ProcessData
<1>2. /\ new_data' \in BOOLEAN
      /\ timed_out' \in BOOLEAN
      /\ last_change' = IF new_data THEN now ELSE last_change
      /\ history' \in [Levels -> Seq(Buckets)]
      /\ log' \in SUBSET Times
      /\ \A t \in log' : t <= now
      /\ BuffersRecent'
  BY <1>1, LookInvariant
<1>3. /\ now \in Times /\ last_change \in Times /\ bmp_time \in Times
      /\ now \in Nat /\ last_change \in Nat /\ bmp_time \in Nat
  BY <1>1, TimesNat DEF TypeOK
<1>4. /\ now' = now /\ allowed_age' = allowed_age /\ known' = known
      /\ bmp_time' = bmp_time /\ visible' = visible /\ drawn' = drawn
      /\ needs_redraw' = AsksRedraw
  BY DEF ProcessData, view
<1>5. AsksRedraw \in BOOLEAN
  BY <1>1 DEF AsksRedraw, Expires, Idles, TypeOK
<1>6. TypeOK'
  BY <1>1, <1>2, <1>3, <1>4, <1>5 DEF TypeOK
<1>7. ClockAhead'
  BY <1>1, <1>2, <1>3, <1>4 DEF ClockAhead
<1>8. PictureShowsLast'
  BY <1>2, <1>4 DEF IInv, PictureShowsLast, AsksRedraw
<1>9. GraphKeepsMoving'
  BY <1>4 DEF IInv, GraphKeepsMoving
<1> QED
  BY <1>2, <1>6, <1>7, <1>8, <1>9 DEF IInv

(* A frame draws when there was data, or none for a while: the picture is  *)
(* then new, or it shows the last data, and they are not old.              *)
LEMMA RenderInvariant == ASSUME IInv, Render PROVE IInv'
<1>1. TypeOK /\ ClockAhead /\ BuffersRecent /\ Look
  BY DEF IInv, Render
<1>2. /\ new_data' \in BOOLEAN
      /\ timed_out' \in BOOLEAN
      /\ last_change' = IF new_data THEN now ELSE last_change
      /\ history' \in [Levels -> Seq(Buckets)]
      /\ log' \in SUBSET Times
      /\ \A t \in log' : t <= now
      /\ BuffersRecent'
  BY <1>1, LookInvariant
<1>3. /\ now \in Times /\ last_change \in Times /\ bmp_time \in Times
      /\ now \in Nat /\ last_change \in Nat /\ bmp_time \in Nat
  BY <1>1, TimesNat DEF TypeOK
<1>4. /\ now' = now /\ allowed_age' = allowed_age /\ known' = known
      /\ visible' = visible /\ drawn' = TRUE /\ needs_redraw' = FALSE
      /\ bmp_time' = IF AsksRedraw THEN now ELSE bmp_time
  BY DEF Render
<1>5. TypeOK'
  BY <1>1, <1>2, <1>3, <1>4 DEF TypeOK
<1>6. /\ last_change <= now /\ bmp_time <= now
      /\ ~needs_redraw => last_change <= bmp_time
  BY DEF IInv, ClockAhead, PictureShowsLast
<1>7. ClockAhead'
  BY <1>2, <1>3, <1>4, <1>6 DEF ClockAhead
<1>8. CASE AsksRedraw
  <2>1. bmp_time' = now /\ last_change' <= now
    BY <1>2, <1>3, <1>4, <1>6, <1>8
  <2> QED
    BY <1>2, <1>3, <1>4, <1>5, <1>7, <2>1, HistogramAssumption
       DEF IInv, PictureShowsLast, GraphKeepsMoving
<1>9. CASE ~AsksRedraw
  <2>1. /\ ~needs_redraw /\ ~new_data
        /\ ~(now - last_change > IdleRedraw)
    BY <1>9 DEF AsksRedraw, Idles
  <2>2. bmp_time' = bmp_time /\ last_change' = last_change
    BY <1>2, <1>4, <1>9, <2>1
  <2>3. last_change <= bmp_time /\ now - bmp_time <= IdleRedraw
    BY <1>3, <1>6, <2>1, HistogramAssumption
  <2> QED
    BY <1>2, <1>4, <1>5, <1>7, <2>2, <2>3
       DEF IInv, PictureShowsLast, GraphKeepsMoving
<1> QED
  BY <1>8, <1>9

LEMMA NextInvariant == ASSUME IInv, [Next]_vars PROVE IInv'
<1>1. CASE Tick
  BY <1>1, TickInvariant
<1>2. ASSUME NEW own \in BOOLEAN, NotifyNewData(own) PROVE IInv'
  BY <1>2, NotifyInvariant
<1>3. CASE Turn
  BY <1>3, TurnInvariant
<1>4. CASE ForceRedraw
  BY <1>4, ForceRedrawInvariant
<1>5. CASE ProcessData
  BY <1>5, ProcessDataInvariant
<1>6. CASE Render
  BY <1>6, RenderInvariant
<1>7. CASE UNCHANGED vars
  <2>1. BuffersRecent'
    BY <1>7, BuffersUnchanged DEF IInv, vars
  <2>2. TypeOK' /\ ClockAhead' /\ PictureShowsLast' /\ GraphKeepsMoving'
    BY <1>7 DEF IInv, TypeOK, ClockAhead, PictureShowsLast, GraphKeepsMoving,
                vars, flags, view
  <2> QED
    BY <2>1, <2>2 DEF IInv
<1> QED
  BY <1>1, <1>2, <1>3, <1>4, <1>5, <1>6, <1>7 DEF Next

LEMMA Invariant == Spec => []IInv
<1>1. Init => IInv
  BY InitInvariant
<1>2. IInv /\ [Next]_vars => IInv'
  BY NextInvariant
<1> QED
  BY <1>1, <1>2, PTL DEF Spec

-----------------------------------------------------------------------------
(* The buckets of a buffer are apart by more than the grain, so a full     *)
(* buffer spans its longest graph.                                         *)
Spread(buffer, level) ==
    \A i \in 1 .. Len(buffer) :
        buffer[i].ts + (Len(buffer) - i) * (Grains[level] + 1)
            <= buffer[Len(buffer)].ts
BuffersSpread ==
    \A level \in Levels :
        history[level] # <<>> => Spread(history[level], level)

(* Dropping the oldest bucket leaves the others where they are.            *)
LEMMA PopSpreads ==
    ASSUME NEW level \in Levels, NEW buffer \in Seq(Buckets), buffer # <<>>,
           Spread(buffer, level), PopFront(buffer, level) # <<>>
    PROVE  Spread(PopFront(buffer, level), level)
<1> DEFINE n == Len(buffer)
           rest == Tail(buffer)
<1>1. n \in Nat /\ n >= 1
  OBVIOUS
<1>2. CASE PopFront(buffer, level) = buffer
  BY <1>2
<1>3. CASE PopFront(buffer, level) = rest
  <2>1. /\ Len(rest) = n - 1
        /\ \A i \in 1 .. n - 1 : rest[i] = buffer[i + 1]
    BY <1>1
  <2>2. n # 1
    <3> SUFFICES ASSUME n = 1 PROVE FALSE
      OBVIOUS
    <3>1. Len(rest) = 0 /\ rest \in Seq(Buckets)
      BY <1>1, <2>1
    <3> QED
      BY <1>3, <3>1
  <2> HIDE DEF rest
  <2>3. rest[n - 1] = buffer[n]
    BY <1>1, <2>1, <2>2
  <2>4. ASSUME NEW i \in 1 .. n - 1
        PROVE  rest[i].ts + ((n - 1) - i) * (Grains[level] + 1)
                  <= rest[n - 1].ts
    <3>1. i + 1 \in 1 .. n /\ n - (i + 1) = (n - 1) - i
      BY <1>1
    <3>2. buffer[i + 1].ts + (n - (i + 1)) * (Grains[level] + 1)
            <= buffer[n].ts
      BY <3>1 DEF Spread
    <3> QED
      BY <2>1, <2>3, <3>1, <3>2
  <2> QED
    BY <1>3, <2>1, <2>4 DEF Spread
<1> QED
  BY <1>2, <1>3 DEF PopFront

LEMMA SampleSpreads ==
    ASSUME NEW level \in Levels, NEW buffer \in Seq(Buckets), now \in Times,
           buffer # <<>> => Spread(buffer, level),
           AddTo(buffer, level) # <<>>
    PROVE  Spread(AddTo(buffer, level), level)
<1> DEFINE n == Len(buffer)
           bucket == [ts |-> now, samples |-> {now}]
           longer == Append(buffer, bucket)
           grown == [buffer EXCEPT ![n].samples = @ \cup {now}]
<1>1. n \in Nat /\ now \in Nat /\ Grains[level] \in Nat
  BY TimesNat, BoundsType
<1>2. bucket \in Buckets /\ bucket.ts = now
  BY DEF Buckets
<1>3. \A i \in 1 .. n : buffer[i] \in Buckets /\ buffer[i].ts \in Nat
  <2>1. \A i \in 1 .. n : buffer[i] \in Buckets
    OBVIOUS
  <2> QED
    BY <2>1, TimesNat DEF Buckets
<1>4. CASE ~StartsBucket(buffer, level)
  <2>1. buffer # <<>> /\ n >= 1 /\ n \in 1 .. n
    BY <1>1, <1>4 DEF StartsBucket
  <2>2. /\ grown \in Seq(Buckets)
        /\ Len(grown) = n
        /\ \A i \in 1 .. n : grown[i].ts = buffer[i].ts
    <3> DEFINE last == [buffer[n] EXCEPT !.samples = buffer[n].samples \cup {now}]
    <3>1. last \in Buckets /\ last.ts = buffer[n].ts
      BY <1>3, <2>1 DEF Buckets
    <3>2. grown = [buffer EXCEPT ![n] = last]
      OBVIOUS
    <3>3. buffer \in [1 .. n -> Buckets]
      BY <1>1
    <3> HIDE DEF last
    <3>4. grown = [i \in 1 .. n |-> IF i = n THEN last ELSE buffer[i]]
      BY <3>2, <3>3
    <3> HIDE DEF grown
    <3>5. Len(grown) = n
      BY <1>1, <3>4
    <3>6. \A i \in 1 .. n : grown[i] = IF i = n THEN last ELSE buffer[i]
      BY <3>4
    <3>7. \A i \in 1 .. n : grown[i] \in Buckets /\ grown[i].ts = buffer[i].ts
      BY <1>3, <3>1, <3>6
    <3>8. grown \in Seq(Buckets)
      BY <1>1, <3>4, <3>7
    <3> QED
      BY <3>5, <3>7, <3>8
  <2>3. AddTo(buffer, level) = PopFront(grown, level)
    BY <1>4 DEF AddTo
  <2> HIDE DEF grown
  <2>4. Spread(grown, level)
    BY <1>1, <2>1, <2>2 DEF Spread
  <2>5. grown # <<>>
    BY <1>1, <2>1, <2>2
  <2> QED
    BY <2>2, <2>3, <2>4, <2>5, PopSpreads
<1>5. CASE StartsBucket(buffer, level)
  <2> HIDE DEF bucket
  <2>1. /\ longer \in Seq(Buckets)
        /\ Len(longer) = n + 1
        /\ \A i \in 1 .. n : longer[i] = buffer[i]
        /\ longer[n + 1] = bucket
    BY <1>1, <1>2
  <2>2. AddTo(buffer, level) = PopFront(longer, level)
    BY <1>5 DEF AddTo, bucket
  <2> HIDE DEF longer
  <2>3. ASSUME NEW i \in 1 .. n
        PROVE  buffer[i].ts + ((n + 1) - i) * (Grains[level] + 1) <= now
    <3> DEFINE until == (n - i) * (Grains[level] + 1)
               after == ((n + 1) - i) * (Grains[level] + 1)
    <3>1. buffer # <<>> /\ n \in 1 .. n
      BY <1>1
    <3>2. buffer[n].ts + Grains[level] < now
      BY <1>5, <3>1 DEF StartsBucket, OlderThan, Last
    <3>3. buffer[i].ts + until <= buffer[n].ts
      BY <3>1 DEF Spread
    <3>4. after = until + (Grains[level] + 1) /\ until \in Int
      BY <1>1
    <3>5. buffer[n].ts \in Nat /\ buffer[i].ts \in Nat
      BY <1>3, <3>1
    <3> HIDE DEF until, after
    <3> DEFINE first == buffer[i].ts
               last == buffer[n].ts
               grain == Grains[level]
    <3>6. /\ first \in Int /\ last \in Int /\ grain \in Int /\ now \in Int
          /\ until \in Int /\ after = until + (grain + 1)
          /\ first + until <= last /\ last + grain < now
      BY <1>1, <3>2, <3>3, <3>4, <3>5
    <3> HIDE DEF first, last, grain
    <3>7. first + after <= now
      BY <3>6
    <3> QED
      BY <3>7 DEF after, first
  <2>4. ASSUME NEW i \in 1 .. n + 1
        PROVE  longer[i].ts + ((n + 1) - i) * (Grains[level] + 1)
                  <= longer[n + 1].ts
    <3>1. CASE i \in 1 .. n
      BY <1>2, <2>1, <2>3, <3>1
    <3>2. CASE i = n + 1
      <4>1. (n + 1) - i = 0
        BY <1>1, <3>2
      <4>2. ((n + 1) - i) * (Grains[level] + 1) = 0
        BY <1>1, <4>1
      <4> QED
        BY <1>1, <1>2, <2>1, <3>2, <4>2
    <3> QED
      BY <1>1, <3>1, <3>2
  <2>5. Spread(longer, level)
    BY <2>1, <2>4 DEF Spread
  <2>6. longer # <<>>
    BY <1>1, <2>1
  <2> QED
    BY <2>1, <2>2, <2>5, <2>6, PopSpreads
<1> QED
  BY <1>4, <1>5

(* Only frames that look for data add to the buffers.                      *)
LEMMA SpreadStep ==
    ASSUME IInv, BuffersSpread, [Next]_vars
    PROVE  BuffersSpread'
<1>1. CASE history' = history
  BY <1>1 DEF BuffersSpread, Spread
<1>2. CASE Add
  <2> SUFFICES ASSUME NEW level \in Levels, history'[level] # <<>>
               PROVE  Spread(history'[level], level)
    BY DEF BuffersSpread, Spread
  <2>1. history'[level] = AddTo(history[level], level)
    BY <1>2 DEF Add
  <2>2. history[level] \in Seq(Buckets) /\ now \in Times
    BY DEF IInv, TypeOK
  <2>3. history[level] # <<>> => Spread(history[level], level)
    BY DEF BuffersSpread
  <2> QED
    BY <2>1, <2>2, <2>3, SampleSpreads
<1>3. Look => Add \/ history' = history
  BY DEF Look
<1> QED
  BY <1>1, <1>2, <1>3
     DEF Next, vars, Tick, NotifyNewData, Turn, ForceRedraw, ProcessData,
         Render

LEMMA SpreadInvariant == Spec => []BuffersSpread
<1>1. Init => BuffersSpread
  BY DEF Init, BuffersSpread
<1>2. IInv /\ BuffersSpread /\ [Next]_vars => BuffersSpread'
  BY SpreadStep
<1> QED
  BY <1>1, <1>2, Invariant, PTL DEF Spec

-----------------------------------------------------------------------------
(* The graph: what a part of it takes of a buffer, and how parts join.     *)

LEMMA LeastExists ==
    ASSUME NEW S, S \subseteq Nat, S # {}
    PROVE  \E p \in S : \A q \in S : p <= q
<1> DEFINE Less == {pair \in Nat \X Nat : pair[1] < pair[2]}
<1>1. IsWellFoundedOn(Less, Nat)
  BY NatLessThanWellFounded, Zenon DEF OpToRel
<1>2. PICK p \in S : \A q \in S : <<q, p>> \notin Less
  BY <1>1, WFMin, Zenon
<1>3. \A q \in Nat : q < p => <<q, p>> \in Less
  OBVIOUS
<1> HIDE DEF Less
<1>4. \A q \in S : ~(q < p)
  BY <1>2, <1>3
<1> QED
  BY <1>4

LEMMA MinMax ==
    ASSUME NEW n \in Nat, NEW S \in SUBSET (1 .. n), S # {}
    PROVE  /\ Min(S) \in S /\ Max(S) \in S
           /\ \A i \in S : Min(S) <= i /\ i <= Max(S)
<1>0. S \subseteq Nat /\ \A i \in S : i \in Nat /\ n - i \in Nat
  OBVIOUS
<1>1. \E p \in S : \A q \in S : p <= q
  BY <1>0, LeastExists
<1>2. \E p \in S : \A q \in S : p >= q
  <2> DEFINE mirrored == {k \in Nat : n - k \in S}
  <2>1. \A i \in S : n - i \in mirrored
    BY <1>0
  <2>2. mirrored \subseteq Nat /\ mirrored # {}
    BY <2>1
  <2>3. PICK m \in mirrored : \A q \in mirrored : m <= q
    BY <2>2, LeastExists
  <2>4. n - m \in S
    OBVIOUS
  <2>5. \A i \in S : m <= n - i
    BY <2>1, <2>3
  <2>6. \A i \in S : n - m >= i
    BY <1>0, <2>5
  <2> QED
    BY <2>4, <2>6
<1>3. Min(S) \in S /\ \A i \in S : Min(S) <= i
  BY <1>1 DEF Min
<1>4. Max(S) \in S /\ \A i \in S : Max(S) >= i
  BY <1>2 DEF Max
<1> QED
  BY <1>3, <1>4

Ordered(buffer) ==
    \A i, j \in 1 .. Len(buffer) : i <= j => buffer[i].ts <= buffer[j].ts
GoesBack(vals) ==
    \A i \in 1 .. Len(vals) - 1 : vals[i].ts >= vals[i + 1].ts
Has(vals, bucket) == \E i \in 1 .. Len(vals) : vals[i] = bucket

(* What a part of the graph takes of a buffer: it goes back from one of    *)
(* the buckets taken to the oldest one, and has them all.                  *)
IsPart(part, buffer, taken) ==
    /\ part \in Seq(Buckets)
    /\ GoesBack(part)
    /\ \A i \in taken : Has(part, buffer[i])
    /\ part # <<>> =>
        \E i, j \in taken :
            /\ part[1] = buffer[i]
            /\ part[Len(part)] = buffer[j]
            /\ \A k \in taken : j <= k

LEMMA PartTakes ==
    ASSUME NEW level \in Levels, NEW vals, NEW length,
           history[level] \in Seq(Buckets), Ordered(history[level])
    PROVE  IsPart(Part(vals, level, length), history[level],
                  Taken(vals, level, length))
<1> DEFINE buffer == history[level]
           n == Len(buffer)
           taken == Taken(vals, level, length)
           part == Part(vals, level, length)
<1>1. n \in Nat /\ taken \in SUBSET (1 .. n)
  BY DEF Taken
<1>2. CASE taken = {}
  <2>1. part = <<>>
    BY <1>2 DEF Part
  <2>2. part \in Seq(Buckets) /\ Len(part) = 0
    BY <2>1
  <2> HIDE DEF taken, part
  <2>3. GoesBack(part)
    BY <2>2 DEF GoesBack
  <2>4. IsPart(part, buffer, taken)
    BY <1>2, <2>1, <2>2, <2>3 DEF IsPart
  <2> QED
    BY <2>4 DEF part, taken
<1>3. CASE taken # {}
  <2> DEFINE first == Max(taken)
             last == Min(taken)
             m == first - last + 1
  <2>1. /\ first \in taken /\ last \in taken
        /\ \A i \in taken : last <= i /\ i <= first
    BY <1>1, <1>3, MinMax
  <2>2. part = [i \in 1 .. m |-> buffer[first + 1 - i]]
    BY <1>3 DEF Part
  <2> HIDE DEF taken, part, first, last
  <2>3. /\ first \in 1 .. n /\ last \in 1 .. n /\ last <= first
        /\ m \in Nat /\ m >= 1
    BY <1>1, <2>1
  <2>4. \A i \in 1 .. m : first + 1 - i \in 1 .. n
    BY <1>1, <2>3
  <2>5. \A i \in 1 .. n : buffer[i] \in Buckets
    OBVIOUS
  <2> HIDE DEF m
  <2>6. /\ Len(part) = m
        /\ \A i \in 1 .. m : part[i] = buffer[first + 1 - i]
    BY <2>2, <2>3
  <2>7. part \in Seq(Buckets)
    BY <2>2, <2>3, <2>4, <2>5
  <2>8. GoesBack(part)
    <3> SUFFICES ASSUME NEW i \in 1 .. m - 1
                 PROVE  part[i].ts >= part[i + 1].ts
      BY <2>6 DEF GoesBack
    <3>1. /\ i \in 1 .. m /\ i + 1 \in 1 .. m
          /\ first + 1 - (i + 1) <= first + 1 - i
      BY <2>3
    <3>2. part[i] = buffer[first + 1 - i] /\ part[i + 1] = buffer[first + 1 - (i + 1)]
      BY <2>6, <3>1
    <3>3. buffer[first + 1 - (i + 1)].ts <= buffer[first + 1 - i].ts
      BY <2>4, <3>1 DEF Ordered
    <3>4. /\ buffer[first + 1 - (i + 1)].ts \in Nat
          /\ buffer[first + 1 - i].ts \in Nat
      BY <2>4, <2>5, <3>1, TimesNat DEF Buckets
    <3> QED
      BY <3>2, <3>3, <3>4
  <2>9. ASSUME NEW i \in taken PROVE Has(part, buffer[i])
    <3>1. /\ first + 1 - i \in 1 .. m
          /\ first + 1 - (first + 1 - i) = i
      BY <1>1, <2>1, <2>3, <2>9 DEF m
    <3> QED
      BY <2>6, <3>1 DEF Has
  <2>10. part[1] = buffer[first] /\ part[Len(part)] = buffer[last]
    <3>1. /\ 1 \in 1 .. m /\ m \in 1 .. m
          /\ first + 1 - 1 = first /\ first + 1 - m = last
      BY <2>3 DEF m
    <3> QED
      BY <2>6, <3>1
  <2> HIDE DEF buffer
  <2>11. IsPart(part, buffer, taken)
    BY <2>1, <2>7, <2>8, <2>9, <2>10 DEF IsPart
  <2> QED
    BY <2>11 DEF part, buffer, taken
<1> QED
  BY <1>2, <1>3

(* Two parts make one that goes back when the second one goes on from the  *)
(* end of the first.                                                       *)
Fits(vals, part) ==
    vals # <<>> /\ part # <<>> => part[1].ts <= vals[Len(vals)].ts
Joins(graph, vals, part) ==
    /\ graph \in Seq(Buckets)
    /\ GoesBack(graph)
    /\ \A bucket : Has(vals, bucket) \/ Has(part, bucket) => Has(graph, bucket)
    /\ graph[Len(graph)] =
         IF part = <<>> THEN vals[Len(vals)] ELSE part[Len(part)]

LEMMA Join ==
    ASSUME NEW vals \in Seq(Buckets), NEW part \in Seq(Buckets),
           GoesBack(vals), GoesBack(part), Fits(vals, part)
    PROVE  Joins(vals \o part, vals, part)
<1> DEFINE m == Len(vals)
           n == Len(part)
           joined == vals \o part
<1>1. m \in Nat /\ n \in Nat /\ joined \in Seq(Buckets)
  OBVIOUS
<1>2. Len(joined) = m + n
  OBVIOUS
<1>3. \A i \in 1 .. m : joined[i] = vals[i]
  OBVIOUS
<1>4. \A i \in 1 .. n : joined[m + i] = part[i]
  OBVIOUS
<1>5. /\ \A i \in 1 .. m : vals[i] \in Buckets /\ vals[i].ts \in Nat
      /\ \A i \in 1 .. n : part[i] \in Buckets /\ part[i].ts \in Nat
  <2>1. /\ \A i \in 1 .. m : vals[i] \in Buckets
        /\ \A i \in 1 .. n : part[i] \in Buckets
    OBVIOUS
  <2> QED
    BY <2>1, TimesNat DEF Buckets
<1> HIDE DEF joined
<1>6. ASSUME NEW i \in 1 .. (m + n) - 1
      PROVE  joined[i].ts >= joined[i + 1].ts
  <2>1. CASE i < m
    <3>1. i \in 1 .. m - 1 /\ i \in 1 .. m /\ i + 1 \in 1 .. m
      BY <1>1, <2>1
    <3>2. vals[i].ts >= vals[i + 1].ts
      BY <3>1 DEF GoesBack
    <3> QED
      BY <1>3, <3>1, <3>2
  <2>2. CASE i = m
    <3>1. 1 \in 1 .. n /\ m \in 1 .. m /\ vals # <<>> /\ part # <<>>
      BY <1>1, <2>2
    <3>2. joined[m] = vals[m] /\ joined[m + 1] = part[1]
      BY <1>3, <1>4, <3>1
    <3> QED
      BY <1>5, <2>2, <3>1, <3>2 DEF Fits
  <2>3. CASE i > m
    <3>1. /\ i - m \in 1 .. n - 1 /\ i - m \in 1 .. n /\ (i - m) + 1 \in 1 .. n
          /\ m + (i - m) = i /\ m + ((i - m) + 1) = i + 1
      BY <1>1, <2>3
    <3>2. part[i - m].ts >= part[(i - m) + 1].ts
      BY <3>1 DEF GoesBack
    <3>3. joined[i] = part[i - m] /\ joined[i + 1] = part[(i - m) + 1]
      BY <1>4, <3>1
    <3> QED
      BY <3>2, <3>3
  <2> QED
    BY <1>1, <2>1, <2>2, <2>3
<1>7. GoesBack(joined)
  BY <1>2, <1>6 DEF GoesBack
<1>8. ASSUME NEW bucket, Has(vals, bucket) PROVE Has(joined, bucket)
  <2>1. PICK i \in 1 .. m : vals[i] = bucket
    BY <1>8 DEF Has
  <2>2. i \in 1 .. m + n
    BY <1>1
  <2> QED
    BY <1>2, <1>3, <2>1, <2>2 DEF Has
<1>9. ASSUME NEW bucket, Has(part, bucket) PROVE Has(joined, bucket)
  <2>1. PICK i \in 1 .. n : part[i] = bucket
    BY <1>9 DEF Has
  <2>2. m + i \in 1 .. m + n
    BY <1>1
  <2> QED
    BY <1>2, <1>4, <2>1, <2>2 DEF Has
<1>10. joined[Len(joined)] =
          IF part = <<>> THEN vals[Len(vals)] ELSE part[Len(part)]
  <2>1. CASE part = <<>>
    <3>1. n = 0
      BY <2>1
    <3>2. joined = vals
      BY <2>1 DEF joined
    <3> QED
      BY <2>1, <3>2
  <2>2. CASE part # <<>>
    <3>1. n \in 1 .. n
      BY <1>1, <2>2
    <3> QED
      BY <1>2, <1>4, <2>2, <3>1
  <2> QED
    BY <2>1, <2>2
<1>11. /\ joined \in Seq(Buckets)
       /\ \A bucket : Has(vals, bucket) \/ Has(part, bucket)
                        => Has(joined, bucket)
  BY <1>1, <1>8, <1>9
<1>12. Joins(joined, vals, part)
  BY <1>7, <1>10, <1>11 DEF Joins
<1> QED
  BY <1>12 DEF joined

-----------------------------------------------------------------------------
(* The graph and the buffers.                                              *)

LEMMA BufferOrdered ==
    ASSUME IInv, NEW level \in Levels
    PROVE  /\ history[level] \in Seq(Buckets)
           /\ Ordered(history[level])
           /\ \A i \in 1 .. Len(history[level]) :
                history[level][i].ts \in Nat /\ history[level][i].ts <= now
<1> DEFINE buffer == history[level]
           n == Len(buffer)
<1>1. buffer \in Seq(Buckets) /\ n \in Nat
  BY DEF IInv, TypeOK
<1>2. \A i \in 1 .. n : buffer[i] \in Buckets
  BY <1>1
<1>3. \A i \in 1 .. n : buffer[i].ts \in Nat
  BY <1>2, TimesNat DEF Buckets
<1>4. CASE buffer = <<>>
  BY <1>1, <1>4 DEF Ordered
<1>5. CASE buffer # <<>>
  <2>1. Holds(buffer, level, log)
    BY <1>5 DEF IInv, BuffersRecent, Recent
  <2>2. \A i \in 1 .. n : buffer[i].ts \in buffer[i].samples /\ buffer[i].ts \in log
    BY <2>1 DEF Holds, IsBucket
  <2>3. \A i \in 1 .. n : buffer[i].ts <= now
    BY <2>2 DEF IInv, ClockAhead
  <2>4. ASSUME NEW i \in 1 .. n, NEW j \in 1 .. n, i <= j
        PROVE  buffer[i].ts <= buffer[j].ts
    <3>1. CASE i = j
      BY <1>3, <3>1
    <3>2. CASE i # j
      <4>1. j \in i + 1 .. n
        BY <1>1, <2>4, <3>2
      <4>2. buffer[i].ts < buffer[j].ts
        BY <2>1, <2>2, <4>1 DEF Holds
      <4> QED
        BY <1>3, <4>2
    <3> QED
      BY <3>1, <3>2
  <2> QED
    BY <1>1, <1>3, <2>3, <2>4 DEF Ordered
<1> QED
  BY <1>4, <1>5

(* A sample that is not older than a buffer is in one of its buckets.      *)
LEMMA SampleInBucket ==
    ASSUME IInv, NEW level \in Levels, NEW t \in log,
           t >= history[level][1].ts
    PROVE  \E i \in DOMAIN history[level] :
            /\ t \in history[level][i].samples
            /\ history[level][i].ts <= t
            /\ t <= history[level][i].ts + Grains[level]
<1>1. Holds(history[level], level, log) /\ history[level] \in Seq(Buckets)
  BY DEF IInv, TypeOK, BuffersRecent, Recent
<1>2. DOMAIN history[level] = 1 .. Len(history[level])
  BY <1>1
<1> QED
  BY <1>1, <1>2 DEF Holds, IsBucket

(* Where a sample is older than a buffer, that is full, and no graph that  *)
(* ends with it has a place for the sample.                                *)
LEMMA SampleTooOld ==
    ASSUME IInv, BuffersSpread, NEW level \in Levels, NEW t \in log,
           ~(t >= history[level][1].ts)
    PROVE  /\ Full(level)
           /\ \A span \in Nat : span <= Sizes[level] * Grains[level] =>
                t + span < now + Grains[level]
<1> DEFINE buffer == history[level]
           n == Len(buffer)
<1>1. buffer # <<>>
  BY DEF IInv, BuffersRecent
<1>2. Recent(buffer, level, log)
  BY <1>1 DEF IInv, BuffersRecent
<1>3. n = Sizes[level]
  BY <1>2 DEF Recent, HoldsAll
<1>4. n \in Nat /\ n >= 1
  BY <1>3, BoundsType
<1>5. Spread(buffer, level)
  BY <1>1 DEF BuffersSpread
<1>6. 1 \in 1 .. n /\ n \in 1 .. n
  BY <1>4
<1> DEFINE first == buffer[1].ts
           last == buffer[n].ts
           grain == Grains[level]
           apart == (n - 1) * (grain + 1)
           spans == (n - 1) * grain
<1>7. first \in Nat /\ last \in Nat /\ last <= now
  BY <1>6, BufferOrdered
<1>8. first + apart <= last
  BY <1>5, <1>6 DEF Spread
<1>9. grain \in Nat /\ now \in Nat /\ t \in Nat
  BY BoundsType, TimesNat DEF IInv, TypeOK
<1>10. /\ spans \in Nat /\ apart \in Nat /\ spans <= apart
       /\ Sizes[level] * Grains[level] = spans + grain
  <2>1. n - 1 \in Nat /\ apart = spans + (n - 1)
    BY <1>4, <1>9
  <2>2. spans \in Nat
    BY <1>4, <1>9
  <2>3. n * grain = spans + grain
    BY <1>4, <1>9
  <2> HIDE DEF spans, apart
  <2>4. apart \in Nat /\ spans <= apart
    BY <1>4, <2>1, <2>2
  <2> QED
    BY <1>3, <2>2, <2>3, <2>4
<1>11. t < first
  BY <1>7, <1>9
<1> HIDE DEF first, last, apart, spans
<1>12. ASSUME NEW span \in Nat, span <= Sizes[level] * Grains[level]
       PROVE  t + span < now + grain
  BY <1>7, <1>8, <1>9, <1>10, <1>11, <1>12
<1> QED
  BY <1>3, <1>12 DEF Full

(* What a buffer adds to the graph, if it continues it.                    *)
LEMMA ContinuedGraph ==
    ASSUME IInv, NEW level \in {2, 3}, NEW length \in Lengths,
           NEW vals \in Seq(Buckets), GoesBack(vals),
           NEW graph, graph = Continued(vals, level, length)
    PROVE  /\ graph \in Seq(Buckets)
           /\ GoesBack(graph)
           /\ \A bucket : Has(vals, bucket) => Has(graph, bucket)
           /\ length.level >= level /\ Full(level - 1) =>
                /\ \A i \in Taken(vals, level, length) :
                    Has(graph, history[level][i])
                /\ graph[Len(graph)] = vals[Len(vals)]
                    \/ \E i \in Taken(vals, level, length) :
                        graph[Len(graph)] = history[level][i]
<1> DEFINE part == Part(vals, level, length)
           taken == Taken(vals, level, length)
           buffer == history[level]
<1>1. level \in Levels
  BY DEF Levels
<1>2. buffer \in Seq(Buckets) /\ IsPart(part, buffer, taken)
  BY <1>1, BufferOrdered, PartTakes
<1>3. ASSUME vals # <<>>, part # <<>>
      PROVE  part[1].ts <= vals[Len(vals)].ts
  <2>1. PICK i \in taken : part[1] = buffer[i]
    BY <1>2, <1>3 DEF IsPart
  <2>2. i \in 1 .. Len(buffer) /\ ~Skips(vals, buffer[i])
    BY <1>2 DEF Taken
  <2>3. buffer[i].ts \in Nat
    BY <1>1, <2>2, BufferOrdered
  <2>4. vals[Len(vals)].ts \in Nat
    <3>1. vals[Len(vals)] \in Buckets
      BY <1>3
    <3> QED
      BY <3>1, TimesNat DEF Buckets
  <2>5. ~(buffer[i].ts > vals[Len(vals)].ts)
    BY <1>3, <2>2 DEF Skips, Last
  <2> QED
    BY <2>1, <2>3, <2>4, <2>5
<1>4. part \in Seq(Buckets) /\ GoesBack(part)
  BY <1>2 DEF IsPart
<1>5. CASE length.level >= level /\ Full(level - 1)
  <2>1. graph = vals \o part
    BY <1>5 DEF Continued
  <2> HIDE DEF part, taken
  <2>2. /\ graph \in Seq(Buckets)
        /\ GoesBack(graph)
        /\ \A bucket : Has(vals, bucket) \/ Has(part, bucket)
                         => Has(graph, bucket)
        /\ graph[Len(graph)] =
             IF part = <<>> THEN vals[Len(vals)] ELSE part[Len(part)]
    <3>1. Fits(vals, part)
      BY <1>3 DEF Fits
    <3>2. Joins(vals \o part, vals, part)
      BY <1>4, <3>1, Join
    <3> QED
      BY <2>1, <3>2 DEF Joins
  <2>3. \A i \in taken : Has(graph, buffer[i])
    BY <1>2, <2>2 DEF IsPart
  <2>4. \/ graph[Len(graph)] = vals[Len(vals)]
        \/ \E i \in taken : graph[Len(graph)] = buffer[i]
    BY <1>2, <2>2 DEF IsPart
  <2> QED
    BY <2>2, <2>3, <2>4 DEF taken
<1>6. CASE ~(length.level >= level /\ Full(level - 1))
  <2>1. graph = vals
    BY <1>6 DEF Continued
  <2> QED
    BY <1>6, <2>1
<1> QED
  BY <1>5, <1>6

(* The finest part of the graph, after the dummy of a value that timed     *)
(* out; it ends with the oldest bucket if it is not cut off.               *)
LEMMA MinuteGraph ==
    ASSUME IInv, NEW length \in Lengths,
           NEW graph, graph = Minute(length)
    PROVE  /\ graph \in Seq(Buckets)
           /\ GoesBack(graph)
           /\ \A i \in Taken(<<>>, 1, length) : Has(graph, history[1][i])
           /\ length.level # 1 /\ history[1] # <<>> =>
                graph # <<>> /\ graph[Len(graph)] = history[1][1]
<1> DEFINE part == Part(<<>>, 1, length)
           taken == Taken(<<>>, 1, length)
           buffer == history[1]
           dummy == [ts |-> now, samples |-> {}]
<1>1. 1 \in Levels
  BY DEF Levels
<1>2. /\ buffer \in Seq(Buckets) /\ IsPart(part, buffer, taken)
      /\ \A i \in 1 .. Len(buffer) : buffer[i].ts <= now
  BY <1>1, BufferOrdered, PartTakes
<1>3. Dummy \in Seq(Buckets) /\ GoesBack(Dummy)
  <2>1. dummy \in Buckets
    BY DEF Buckets, IInv, TypeOK
  <2> HIDE DEF dummy
  <2>2. /\ <<dummy>> \in Seq(Buckets) /\ Len(<<dummy>>) = 1
        /\ <<>> \in Seq(Buckets) /\ Len(<<>>) = 0
    BY <2>1
  <2>3. GoesBack(<<dummy>>) /\ GoesBack(<<>>)
    BY <2>2 DEF GoesBack
  <2>4. Dummy = <<dummy>> \/ Dummy = <<>>
    BY DEF Dummy, dummy
  <2> QED
    BY <2>2, <2>3, <2>4
<1>4. ASSUME Dummy # <<>>, part # <<>>
      PROVE  part[1].ts <= Dummy[Len(Dummy)].ts
  <2>1. Dummy = <<dummy>>
    BY <1>4 DEF Dummy
  <2>2. Dummy[Len(Dummy)].ts = now
    BY <2>1
  <2>3. PICK i \in taken : part[1] = buffer[i]
    BY <1>2, <1>4 DEF IsPart
  <2>4. i \in 1 .. Len(buffer)
    BY <1>2 DEF Taken
  <2> QED
    BY <1>2, <2>2, <2>3, <2>4
<1>5. part \in Seq(Buckets) /\ GoesBack(part)
  BY <1>2 DEF IsPart
<1>6. graph = Dummy \o part
  BY DEF Minute
<1>7. ASSUME length.level # 1, buffer # <<>>
      PROVE  \A i \in 1 .. Len(buffer) : i \in taken
  BY <1>2, <1>7 DEF Taken, Skips, InLength
<1> HIDE DEF part, taken
<1>8. /\ graph \in Seq(Buckets)
      /\ GoesBack(graph)
      /\ \A bucket : Has(Dummy, bucket) \/ Has(part, bucket)
                       => Has(graph, bucket)
      /\ graph[Len(graph)] =
           IF part = <<>> THEN Dummy[Len(Dummy)] ELSE part[Len(part)]
  <2>1. Fits(Dummy, part)
    BY <1>4 DEF Fits
  <2>2. Joins(Dummy \o part, Dummy, part)
    BY <1>3, <1>5, <2>1, Join
  <2> QED
    BY <1>6, <2>2 DEF Joins
<1>9. \A i \in taken : Has(graph, buffer[i])
  BY <1>2, <1>8 DEF IsPart
<1>10. ASSUME length.level # 1, buffer # <<>>
       PROVE  graph # <<>> /\ graph[Len(graph)] = buffer[1]
  <2>1. 1 \in 1 .. Len(buffer) /\ 1 \in taken
    BY <1>2, <1>7, <1>10
  <2>2. Has(graph, buffer[1]) /\ Has(part, buffer[1])
    BY <1>2, <1>9, <2>1 DEF IsPart
  <2>3. graph # <<>> /\ part # <<>>
    BY <2>2 DEF Has
  <2>4. PICK j \in taken : part[Len(part)] = buffer[j] /\ \A k \in taken : j <= k
    BY <1>2, <2>3 DEF IsPart
  <2>5. j \in 1 .. Len(buffer) /\ j <= 1
    BY <1>2, <2>1, <2>4 DEF taken, Taken
  <2>6. j = 1
    BY <1>2, <2>5
  <2> QED
    BY <1>8, <2>3, <2>4, <2>6
<1> QED
  BY <1>8, <1>9, <1>10 DEF taken

(* A bucket with a sample the graph has a place for is not cut off.        *)
LEMMA YoungInLength ==
    ASSUME IInv, NEW length \in Lengths, NEW level \in Levels,
           NEW i \in 1 .. Len(history[level]), NEW t \in log,
           t + length.span >= now + Grains[length.level],
           t <= history[level][i].ts + Grains[level]
    PROVE  InLength(history[level][i], level, length)
<1>1. /\ t \in Nat /\ now \in Nat /\ Grains[level] \in Nat
      /\ length.span \in Nat
  BY BoundsType, TimesNat, HistogramAssumption DEF IInv, TypeOK
<1>2. history[level][i].ts \in Nat
  BY BufferOrdered
<1> QED
  BY <1>1, <1>2 DEF InLength, OlderThan

(* The sample is in the finest buffer that is not too young for it, and    *)
(* that buffer is in the graph: each finer one is full and ends later.     *)
LEMMA SampleInGraph ==
    ASSUME IInv, BuffersSpread, NEW length \in Lengths, NEW t \in log,
           t + length.span >= now + Grains[length.level]
    PROVE  \E bucket \in Buckets : t \in bucket.samples /\ Has(Graph(length), bucket)
<1> DEFINE minute == Minute(length)
           hour == Hour(length)
           graph == Graph(length)
<1>1. length.level \in Levels /\ length.span \in Nat
  BY HistogramAssumption
<1>2. /\ t \in Nat /\ now \in Nat /\ log # {}
      /\ \A level \in Levels : /\ Grains[level] \in Nat
                               /\ history[level] # <<>>
                               /\ history[level] \in Seq(Buckets)
  BY TimesNat, BoundsType DEF IInv, TypeOK, BuffersRecent
<1>3. 1 \in Levels /\ 2 \in Levels /\ 3 \in Levels
  BY DEF Levels
<1>4. \A level \in Levels :
        1 \in 1 .. Len(history[level]) /\ history[level][1].ts \in Nat
  BY <1>2, BufferOrdered
<1>5. \A level \in Levels : length.level = level => t >= history[level][1].ts
  <2> SUFFICES ASSUME ~(t >= history[length.level][1].ts) PROVE FALSE
    OBVIOUS
  <2>1. t + length.span < now + Grains[length.level]
    BY <1>1, SampleTooOld, HistogramAssumption
  <2> QED
    BY <1>1, <1>2, <2>1
<1>6. \A level \in Levels : \A i \in 1 .. Len(history[level]) :
        history[level][i] \in Buckets
  BY <1>2
<1>7. /\ minute \in Seq(Buckets)
      /\ GoesBack(minute)
      /\ \A i \in Taken(<<>>, 1, length) : Has(minute, history[1][i])
      /\ length.level # 1 => minute # <<>> /\ minute[Len(minute)] = history[1][1]
  BY <1>2, <1>3, MinuteGraph
<1>8. /\ hour = Continued(minute, 2, length)
      /\ graph = Continued(hour, 3, length)
  BY DEF Hour, Graph
<1> HIDE DEF minute, hour, graph
<1>9. /\ hour \in Seq(Buckets)
      /\ GoesBack(hour)
      /\ \A bucket : Has(minute, bucket) => Has(hour, bucket)
      /\ length.level >= 2 /\ Full(1) =>
           /\ \A i \in Taken(minute, 2, length) : Has(hour, history[2][i])
           /\ hour[Len(hour)] = minute[Len(minute)]
               \/ \E i \in Taken(minute, 2, length) :
                   hour[Len(hour)] = history[2][i]
  <2>1. 2 \in {2, 3} /\ 2 - 1 = 1
    OBVIOUS
  <2> QED
    BY <1>7, <1>8, <2>1, ContinuedGraph
<1>10. /\ \A bucket : Has(hour, bucket) => Has(graph, bucket)
       /\ length.level >= 3 /\ Full(2) =>
            \A i \in Taken(hour, 3, length) : Has(graph, history[3][i])
  <2>1. 3 \in {2, 3} /\ 3 - 1 = 2
    OBVIOUS
  <2> QED
    BY <1>8, <1>9, <2>1, ContinuedGraph
<1>11. CASE t >= history[1][1].ts
  <2>1. PICK i \in DOMAIN history[1] :
            t \in history[1][i].samples /\ t <= history[1][i].ts + Grains[1]
    BY <1>3, <1>11, SampleInBucket
  <2>2. i \in 1 .. Len(history[1])
    BY <1>2, <1>3
  <2>3. i \in Taken(<<>>, 1, length)
    BY <1>3, <2>1, <2>2, YoungInLength DEF Taken, Skips
  <2>4. Has(graph, history[1][i])
    BY <1>7, <1>9, <1>10, <2>3
  <2> QED
    BY <1>3, <1>6, <2>1, <2>2, <2>4 DEF graph
<1>12. CASE ~(t >= history[1][1].ts)
  <2>1. length.level # 1 /\ length.level >= 2 /\ Full(1)
    BY <1>1, <1>3, <1>5, <1>12, SampleTooOld DEF Levels
  <2>2. minute # <<>> /\ minute[Len(minute)] = history[1][1]
    BY <1>7, <2>1
  <2>3. CASE t >= history[2][1].ts
    <3>1. PICK i \in DOMAIN history[2] :
            /\ t \in history[2][i].samples
            /\ history[2][i].ts <= t
            /\ t <= history[2][i].ts + Grains[2]
      BY <1>3, <2>3, SampleInBucket
    <3>2. i \in 1 .. Len(history[2])
      BY <1>2, <1>3
    <3>3. ~(history[2][i].ts > history[1][1].ts)
      <4>1. history[2][i].ts \in Nat /\ history[1][1].ts \in Nat
        BY <1>3, <1>4, <3>2, BufferOrdered
      <4> QED
        BY <1>2, <1>12, <3>1, <4>1
    <3>4. i \in Taken(minute, 2, length)
      BY <1>3, <2>2, <3>1, <3>2, <3>3, YoungInLength DEF Taken, Skips, Last
    <3>5. Has(graph, history[2][i])
      BY <1>9, <1>10, <2>1, <3>4
    <3> QED
      BY <1>3, <1>6, <3>1, <3>2, <3>5 DEF graph
  <2>4. CASE ~(t >= history[2][1].ts)
    <3>1. length.level >= 3 /\ Full(2)
      BY <1>1, <1>3, <1>5, <2>1, <2>4, SampleTooOld DEF Levels
    <3>2. t < hour[Len(hour)].ts /\ hour[Len(hour)].ts \in Nat
      <4>1. CASE hour[Len(hour)] = minute[Len(minute)]
        BY <1>2, <1>3, <1>4, <1>12, <2>2, <4>1
      <4>2. ASSUME NEW i \in Taken(minute, 2, length),
                   hour[Len(hour)] = history[2][i]
            PROVE  t < hour[Len(hour)].ts /\ hour[Len(hour)].ts \in Nat
        <5>1. i \in 1 .. Len(history[2])
          BY <1>2, <1>3 DEF Taken
        <5>2. Ordered(history[2]) /\ history[2][i].ts \in Nat
          BY <1>3, <5>1, BufferOrdered
        <5>3. history[2][1].ts <= history[2][i].ts
          BY <1>3, <1>4, <5>1, <5>2 DEF Ordered
        <5>4. t < history[2][1].ts /\ history[2][1].ts \in Nat
          BY <1>2, <1>3, <1>4, <2>4
        <5> QED
          BY <1>2, <4>2, <5>2, <5>3, <5>4
      <4> QED
        BY <1>9, <2>1, <4>1, <4>2
    <3>3. t >= history[3][1].ts
      BY <1>1, <1>3, <1>5, <3>1 DEF Levels
    <3>4. PICK i \in DOMAIN history[3] :
            /\ t \in history[3][i].samples
            /\ history[3][i].ts <= t
            /\ t <= history[3][i].ts + Grains[3]
      BY <1>3, <3>3, SampleInBucket
    <3>5. i \in 1 .. Len(history[3])
      BY <1>2, <1>3
    <3>6. ~(history[3][i].ts > hour[Len(hour)].ts)
      <4>1. history[3][i].ts \in Nat
        BY <1>3, <3>5, BufferOrdered
      <4> QED
        BY <1>2, <3>2, <3>4, <4>1
    <3>7. i \in Taken(hour, 3, length)
      BY <1>3, <3>4, <3>5, <3>6, YoungInLength DEF Taken, Skips, Last
    <3>8. Has(graph, history[3][i])
      BY <1>10, <3>1, <3>7
    <3> QED
      BY <1>3, <1>6, <3>4, <3>5, <3>8 DEF graph
  <2> QED
    BY <2>3, <2>4
<1> QED
  BY <1>11, <1>12

LEMMA GraphGoesBack ==
    ASSUME IInv, NEW length \in Lengths
    PROVE  Graph(length) \in Seq(Buckets) /\ GoesBack(Graph(length))
<1>1. Minute(length) \in Seq(Buckets) /\ GoesBack(Minute(length))
  BY MinuteGraph
<1>2. Hour(length) \in Seq(Buckets) /\ GoesBack(Hour(length))
  BY <1>1, ContinuedGraph DEF Hour
<1> QED
  BY <1>2, ContinuedGraph DEF Graph

-----------------------------------------------------------------------------
(* The buffers only hold buckets of samples of the past.                   *)
THEOREM TypeCorrect == Spec => []TypeOK
<1>1. IInv => TypeOK
  BY DEF IInv
<1> QED
  BY <1>1, Invariant, PTL

(* Every buffer keeps the latest samples, each in one bucket no wider than *)
(* the grain, whatever their times (History::Add).     *)
THEOREM KeepsLog == Spec => []HistoryKeepsLog
<1>1. IInv => HistoryKeepsLog
  <2> SUFFICES ASSUME IInv, NEW level \in Levels, history[level] # <<>>
               PROVE  IsRecentLog(history[level], level)
    BY DEF HistoryKeepsLog, IInv, BuffersRecent
  <2>1. Recent(history[level], level, log)
    BY DEF IInv, BuffersRecent
  <2>2. DOMAIN history[level] = 1 .. Len(history[level])
    BY DEF IInv, TypeOK
  <2> QED
    BY <2>1, <2>2 DEF IsRecentLog, Recent, Holds, HoldsAll, IsBucket
<1> QED
  BY <1>1, Invariant, PTL

(* Of the chosen length nothing is missing in the graph, whichever buffers *)
(* its parts come from, and it never goes back in time                     *)
(* (SimpleHistogramInstrument::Render).                                    *)
THEOREM CompleteGraph == Spec => []GraphComplete
<1>1. IInv /\ BuffersSpread => GraphComplete
  <2> SUFFICES ASSUME IInv, BuffersSpread, NEW length \in Lengths
               PROVE  /\ \A t \in log :
                        t + length.span >= now + Grains[length.level] =>
                            \E i \in DOMAIN Graph(length) :
                                t \in Graph(length)[i].samples
                      /\ GoesBack(Graph(length))
    BY DEF GraphComplete, GoesBack
  <2>1. Graph(length) \in Seq(Buckets) /\ GoesBack(Graph(length))
    BY GraphGoesBack
  <2>2. ASSUME NEW t \in log,
               t + length.span >= now + Grains[length.level]
        PROVE  \E i \in DOMAIN Graph(length) : t \in Graph(length)[i].samples
    <3>1. PICK bucket \in Buckets :
            t \in bucket.samples /\ Has(Graph(length), bucket)
      BY <2>2, SampleInGraph
    <3> QED
      BY <2>1, <3>1 DEF Has
  <2> QED
    BY <2>1, <2>2
<1> QED
  BY <1>1, Invariant, SpreadInvariant, PTL

(* The picture on the screen is never older than the time without data     *)
(* after which frames redraw, timed out or not.                            *)
THEOREM KeepsMoving == Spec => []GraphKeepsMoving
<1>1. IInv => GraphKeepsMoving
  BY DEF IInv
<1> QED
  BY <1>1, Invariant, PTL

-----------------------------------------------------------------------------
(* The settings.                                                           *)

(* What is kept and drawn of a setting of which all that counts is its     *)
(* text.                                                                   *)
Meant(c, s, v) ==
    [text |-> v,
     drawn |-> IF Control(c, s) = "key" THEN KeyMeant(c, v) ELSE v]

(* The list of a class has its integers, and none of its keys.             *)
Sound(table, converted) ==
    \A s \in DOMAIN table :
        /\ s \in converted => table[s].control # "key"
        /\ table[s].control \in {"choice", "spin"} =>
              s \in converted \cup Unconverted

LEMMA Controls ==
    /\ \A n : Choice(n).control = "choice"
    /\ \A min, max, value : Spin(min, max, value).control = "spin"
    /\ \A size : FontSize(size).control = "spin"
    /\ Key.control = "key"
    /\ Text.control = "text"
    /\ Colour.control = "colour"
    /\ ValueFormats.control = "choice"
    /\ Transformations.control = "choice"
    /\ LaylinesShown.control = "choice"
  BY DEF Choice, Spin, FontSize, Key, Text, Colour, ValueFormats,
     Transformations, LaylinesShown

LEMMA ListsSound ==
    ASSUME NEW c \in DOMAIN Tables
    PROVE  Sound(Tables[c], Converted[c])
<1>1. Sound(NumberTable, NumberConverted)
  BY Controls DEF Sound, NumberTable, NumberConverted
<1>2. Sound(GaugeTable, GaugeConverted)
  BY Controls DEF Sound, GaugeTable, GaugeConverted
<1>3. Sound(CombinedTable, CombinedConverted)
  BY Controls DEF Sound, CombinedTable, CombinedConverted, GaugeConverted
<1>4. Sound(TextTable, TextConverted)
  BY Controls DEF Sound, TextTable, TextConverted
<1>5. Sound(PositionTable, PositionConverted)
  BY Controls DEF Sound, PositionTable, PositionConverted, TextConverted
<1>6. Sound(HistogramTable, HistogramConverted)
  BY Controls DEF Sound, HistogramTable, HistogramConverted
<1>7. Sound(WindTable, WindConverted)
  BY Controls DEF Sound, WindTable, WindConverted, Unconverted
<1>8. Sound(DividerTable, DividerConverted)
  BY Controls DEF Sound, DividerTable, DividerConverted
<1>9. Sound(SpacerTable, SpacerConverted)
  BY Controls DEF Sound, SpacerTable, SpacerConverted
<1>10. c \in {"number", "gauge", "combined", "text", "position",
              "histogram", "wind", "divider", "spacer"}
  BY DEF Tables
<1> QED
  BY <1>1, <1>2, <1>3, <1>4, <1>5, <1>6, <1>7, <1>8, <1>9, <1>10
     DEF Tables, Converted

(* However a text got there, its setting is drawn as the text means.       *)
LEMMA SetTextMeant ==
    ASSUME NEW c \in DOMAIN Tables, NEW s \in Names(c), NEW old, NEW v
    PROVE  SetText(c, s, old, v) = Meant(c, s, v)
<1>1. /\ s \in Converted[c] => Control(c, s) # "key"
      /\ IsInteger(c, s) => s \in Converted[c] \cup Unconverted
  BY ListsSound DEF Sound, Names, Control, IsInteger
<1>2. CASE s \in Converted[c]
  BY <1>1, <1>2 DEF SetText, SetInteger, Meant
<1>3. CASE s \notin Converted[c] /\ Control(c, s) = "key"
  BY <1>3 DEF SetText, Meant, IsInteger
<1>4. CASE s \notin Converted[c] /\ Control(c, s) # "key"
  <2>1. ~(IsInteger(c, s) /\ s \notin Unconverted)
    BY <1>1, <1>4
  <2> QED
    BY <1>4, <2>1 DEF SetText, Meant
<1> QED
  BY <1>2, <1>3, <1>4

LEMMA SetIntegerMeant ==
    ASSUME NEW c, NEW s, NEW v, IsInteger(c, s)
    PROVE  SetInteger(v) = Meant(c, s, v)
  BY DEF IsInteger, SetInteger, Meant

LEMMA LoadedMeant ==
    ASSUME NEW c \in DOMAIN Tables, NEW config
    PROVE  Loaded(c, config) = [s \in Names(c) |-> Meant(c, s, config[s])]
<1>1. ASSUME NEW s \in Names(c)
      PROVE  (IF IsInteger(c, s) THEN SetInteger(config[s])
              ELSE SetText(c, s, New(c)[s], config[s]))
             = Meant(c, s, config[s])
  <2>1. SetText(c, s, New(c)[s], config[s]) = Meant(c, s, config[s])
    BY SetTextMeant
  <2> QED
    BY <2>1, SetIntegerMeant
<1> QED
  BY <1>1 DEF Loaded

LEMMA NewMeant ==
    ASSUME NEW c \in DOMAIN Tables
    PROVE  New(c) = [s \in Names(c) |-> Meant(c, s, Tables[c][s].default)]
<1>1. ASSUME NEW s \in Names(c), NEW v
      PROVE  (IF IsInteger(c, s) THEN SetInteger(v)
              ELSE SetText(c, s, SetInteger(v), v)) = Meant(c, s, v)
  <2>1. SetText(c, s, SetInteger(v), v) = Meant(c, s, v)
    BY SetTextMeant
  <2> QED
    BY <2>1, SetIntegerMeant
<1> QED
  BY <1>1 DEF New

LEMMA UpdatedMeant ==
    ASSUME NEW c \in DOMAIN Tables, NEW i, NEW f
    PROVE  UpdateEditedInstrument(c, i, f) =
             [s \in Names(c) |-> Meant(c, s, f[s])]
  BY SetTextMeant DEF UpdateEditedInstrument

-----------------------------------------------------------------------------

(* Every setting is drawn as its text means.                               *)
DrawnAsMeant == inst = [s \in Names(class) |-> Meant(class, s, inst[s].text)]

(* The form shows what the user entered, and of the rest what its controls *)
(* can show.                                                               *)
FormShows ==
    IF form = Nothing THEN entered = {}
    ELSE \A s \in Names(class) \ entered :
            form[s] = Shown(Tables[class][s], inst[s].text)

SettingsInv == SettingsTypeOK /\ DrawnAsMeant /\ FormShows

LEMMA MeantText ==
    ASSUME NEW c, NEW f,
           NEW i, i = [s \in Names(c) |-> Meant(c, s, f[s])]
    PROVE  /\ DOMAIN i = Names(c)
           /\ \A s \in Names(c) : i[s] = Meant(c, s, f[s]) /\ i[s].text = f[s]
           /\ i = [s \in Names(c) |-> Meant(c, s, i[s].text)]
<1>1. \A s \in Names(c) : i[s] = Meant(c, s, f[s])
  OBVIOUS
<1>2. \A s \in Names(c) : i[s].text = f[s]
  BY <1>1 DEF Meant
<1> QED
  BY <1>1, <1>2

LEMMA SomeNames ==
    ASSUME NEW c \in DOMAIN Tables, NEW f, DOMAIN f = Names(c)
    PROVE  f # Nothing
<1>1. Names(c) # {}
  BY DEF Names, Tables, NumberTable, GaugeTable, CombinedTable, TextTable,
     PositionTable, HistogramTable, WindTable, DividerTable, SpacerTable
<1> QED
  BY <1>1 DEF Nothing

LEMMA KnownClass ==
    ASSUME SettingsTypeOK
    PROVE  class \in DOMAIN Tables
  BY SettingsAssumption DEF SettingsTypeOK

(* What is written back.                                                   *)
LEMMA CommittedMeant ==
    ASSUME SettingsInv
    PROVE  /\ DOMAIN Committed = Names(class)
           /\ Committed = [s \in Names(class) |->
                             Meant(class, s, Committed[s].text)]
           /\ form # Nothing => \A s \in Names(class) :
                Committed[s] = Meant(class, s, form[s])
<1>1. class \in DOMAIN Tables
  BY KnownClass DEF SettingsInv
<1>2. CASE form = Nothing
  BY <1>2 DEF Committed, SettingsInv, SettingsTypeOK, DrawnAsMeant
<1>3. CASE form # Nothing
  <2>1. Committed = [s \in Names(class) |-> Meant(class, s, form[s])]
    BY <1>1, <1>3, UpdatedMeant DEF Committed
  <2> QED
    BY <2>1, MeantText
<1> QED
  BY <1>2, <1>3

LEMMA SettingsInitial == SettingsInit => SettingsInv
<1> SUFFICES ASSUME SettingsInit
             PROVE  SettingsInv
  OBVIOUS
<1>1. class \in DOMAIN Tables
  BY SettingsAssumption DEF SettingsInit
<1> DEFINE default == [s \in Names(class) |-> Tables[class][s].default]
<1>2. inst = [s \in Names(class) |-> Meant(class, s, default[s])]
  BY <1>1, NewMeant DEF SettingsInit
<1> HIDE DEF default
<1>3. DOMAIN inst = Names(class) /\ DrawnAsMeant
  BY <1>2, MeantText DEF DrawnAsMeant
<1>4. SettingsTypeOK
  BY <1>3, SettingsAssumption DEF SettingsInit, SettingsTypeOK, Written, Nothing
<1>5. FormShows
  BY DEF SettingsInit, FormShows
<1> QED
  BY <1>3, <1>4, <1>5 DEF SettingsInv

LEMMA SettingsStep == SettingsInv /\ [SettingsNext]_settingVars => SettingsInv'
<1> SUFFICES ASSUME SettingsInv, [SettingsNext]_settingVars
             PROVE  SettingsInv'
  OBVIOUS
<1>1. class \in DOMAIN Tables
  BY KnownClass DEF SettingsInv
<1>2. CASE UNCHANGED settingVars
  BY <1>2 DEF settingVars, SettingsInv, SettingsTypeOK, DrawnAsMeant,
     FormShows
<1>3. CASE OpenPreferences
  <2>1. form' = [s \in Names(class) |-> Shown(Tables[class][s], inst[s].text)]
    BY <1>3 DEF OpenPreferences, FillInstrumentDetails
  <2>2. DOMAIN form' = Names(class)
    BY <2>1
  <2>3. form' # Nothing
    BY <1>1, <2>2, SomeNames
  <2>4. SettingsTypeOK' /\ DrawnAsMeant'
    BY <1>3, <2>2 DEF OpenPreferences, SettingsInv, SettingsTypeOK,
       DrawnAsMeant, Written
  <2>5. FormShows'
    BY <1>3, <2>1, <2>3 DEF OpenPreferences, FormShows
  <2> QED
    BY <2>4, <2>5 DEF SettingsInv
<1>4. CASE \E s \in Names(class) : \E v \in Limits(s) : Enter(s, v)
  <2>1. PICK s \in Names(class) : \E v \in Limits(s) : Enter(s, v)
    BY <1>4
  <2>2. PICK v \in Limits(s) : Enter(s, v)
    BY <2>1
  <2>3. /\ form # Nothing
        /\ DOMAIN form = Names(class)
        /\ form' = [form EXCEPT ![s] = v]
        /\ entered' = entered \cup {s}
        /\ UNCHANGED <<class, inst, orig, file>>
    BY <2>2 DEF Enter, SettingsInv, SettingsTypeOK
  <2>4. DOMAIN form' = Names(class)
    BY <2>3
  <2>5. form' # Nothing
    BY <1>1, <2>4, SomeNames
  <2>6. edits' \in 0 .. MaxEdits
    BY <2>2, SettingsAssumption DEF Enter, SettingsInv, SettingsTypeOK
  <2>7. SettingsTypeOK'
    BY <2>3, <2>4, <2>6 DEF SettingsInv, SettingsTypeOK
  <2>8. FormShows'
    BY <2>3, <2>5 DEF SettingsInv, FormShows
  <2> QED
    BY <2>3, <2>7, <2>8 DEF SettingsInv, DrawnAsMeant
<1>5. CASE SelectInList
  <2>1. /\ DOMAIN inst' = Names(class)
        /\ inst' = [s \in Names(class) |-> Meant(class, s, inst'[s].text)]
    BY <1>5, CommittedMeant DEF SelectInList
  <2>2. form' = [s \in Names(class) |-> Shown(Tables[class][s], inst'[s].text)]
    BY <1>5 DEF SelectInList, FillInstrumentDetails
  <2>3. DOMAIN form' = Names(class)
    BY <2>2
  <2>4. form' # Nothing
    BY <1>1, <2>3, SomeNames
  <2>5. SettingsTypeOK'
    BY <1>5, <2>1, <2>3 DEF SelectInList, SettingsInv, SettingsTypeOK
  <2>6. DrawnAsMeant'
    BY <1>5, <2>1 DEF SelectInList, DrawnAsMeant
  <2>7. FormShows'
    BY <1>5, <2>2, <2>4 DEF SelectInList, FormShows
  <2> QED
    BY <2>5, <2>6, <2>7 DEF SettingsInv
<1>6. CASE AcceptPreferences
  <2>1. /\ DOMAIN inst' = Names(class)
        /\ inst' = [s \in Names(class) |-> Meant(class, s, inst'[s].text)]
    BY <1>6, CommittedMeant DEF AcceptPreferences
  <2>2. DOMAIN file' = Names(class)
    BY <1>6, <2>1 DEF AcceptPreferences, Written
  <2> QED
    BY <1>6, <2>1, <2>2 DEF AcceptPreferences, Close, SettingsInv,
       SettingsTypeOK, DrawnAsMeant, FormShows
<1>7. ASSUME NEW config, inst' = Loaded(class, config)
      PROVE  /\ DOMAIN inst' = Names(class)
             /\ inst' = [s \in Names(class) |-> Meant(class, s, inst'[s].text)]
  <2>1. inst' = [s \in Names(class) |-> Meant(class, s, config[s])]
    BY <1>1, <1>7, LoadedMeant
  <2> QED
    BY <2>1, MeantText
<1>8. CASE CancelPreferences
  <2>1. /\ DOMAIN inst' = Names(class)
        /\ inst' = [s \in Names(class) |-> Meant(class, s, inst'[s].text)]
    BY <1>7, <1>8 DEF CancelPreferences
  <2> QED
    BY <1>8, <2>1 DEF CancelPreferences, Close, SettingsInv,
       SettingsTypeOK, DrawnAsMeant, FormShows
<1>9. CASE \E s \in Names(class) :
             \E v \in Limits(s) \cup Beyond(s) : AcceptEditor(s, v)
  <2>1. PICK s \in Names(class) :
             \E v \in Limits(s) \cup Beyond(s) : AcceptEditor(s, v)
    BY <1>9
  <2>2. PICK v \in Limits(s) \cup Beyond(s) : AcceptEditor(s, v)
    BY <2>1
  <2>3. /\ DOMAIN inst' = Names(class)
        /\ inst' = [t \in Names(class) |-> Meant(class, t, inst'[t].text)]
    BY <1>7, <2>2 DEF AcceptEditor
  <2>4. edits' \in 0 .. MaxEdits
    BY <2>2, SettingsAssumption DEF AcceptEditor, SettingsInv, SettingsTypeOK
  <2> QED
    BY <2>2, <2>3, <2>4 DEF AcceptEditor, SettingsInv, SettingsTypeOK,
       DrawnAsMeant, FormShows
<1>10. CASE Restart
  <2>1. /\ DOMAIN inst' = Names(class)
        /\ inst' = [s \in Names(class) |-> Meant(class, s, inst'[s].text)]
    BY <1>7, <1>10 DEF Restart
  <2> QED
    BY <1>10, <2>1 DEF Restart, Close, SettingsInv, SettingsTypeOK,
       DrawnAsMeant, FormShows
<1> QED
  BY <1>2, <1>3, <1>4, <1>5, <1>6, <1>8, <1>9, <1>10 DEF SettingsNext

LEMMA SettingsInvariant == SettingsSpec => []SettingsInv
  BY SettingsInitial, SettingsStep, PTL DEF SettingsSpec

LEMMA Reloads == SettingsInv => ReloadsSame
<1> SUFFICES ASSUME SettingsInv
             PROVE  ReloadsSame
  OBVIOUS
<1>1. class \in DOMAIN Tables /\ DOMAIN inst = Names(class)
  BY KnownClass DEF SettingsInv, SettingsTypeOK
<1>2. Loaded(class, Written(inst)) =
        [s \in Names(class) |-> Meant(class, s, Written(inst)[s])]
  BY <1>1, LoadedMeant
<1>3. \A s \in Names(class) : Written(inst)[s] = inst[s].text
  BY <1>1 DEF Written
<1>4. Loaded(class, Written(inst)) =
        [s \in Names(class) |-> Meant(class, s, inst[s].text)]
  BY <1>2, <1>3
<1> QED
  BY <1>4 DEF ReloadsSame, SettingsInv, DrawnAsMeant

(* Whatever is entered, edited and loaded, and in whatever order, what is  *)
(* drawn is what reading the written configuration would give.             *)
THEOREM SettingsReload == SettingsSpec => []ReloadsSame
  BY SettingsInvariant, Reloads, PTL

LEMMA CommitChangesEntered ==
    ASSUME SettingsInv, inst' = Committed, class' = class,
           NEW s \in Names(class)
    PROVE  IF s \in entered
           THEN inst'[s] = [text |-> form[s],
                            drawn |-> IF Control(class, s) = "key"
                                      THEN KeyMeant(class, form[s])
                                      ELSE form[s]]
           ELSE CanShow(class, s, inst[s].text) => inst'[s] = inst[s]
<1>1. CASE form = Nothing
  BY <1>1 DEF Committed, SettingsInv, FormShows
<1>2. CASE form # Nothing
  <2>1. inst'[s] = Meant(class, s, form[s])
    BY <1>2, CommittedMeant
  <2>2. CASE s \in entered
    BY <2>1, <2>2 DEF Meant
  <2>3. CASE s \notin entered
    <3> SUFFICES ASSUME CanShow(class, s, inst[s].text)
                 PROVE  inst'[s] = inst[s]
      BY <2>3
    <3>1. form[s] = inst[s].text
      BY <1>2, <2>3 DEF SettingsInv, FormShows, CanShow
    <3>2. inst[s] = Meant(class, s, inst[s].text)
      BY DEF SettingsInv, DrawnAsMeant
    <3> QED
      BY <2>1, <3>1, <3>2
  <2> QED
    BY <2>2, <2>3
<1> QED
  BY <1>1, <1>2

(* When the form is written back, what was entered is drawn, and nothing   *)
(* else changes that its control could show.                               *)
THEOREM FormChangesEntered == SettingsSpec => OnlyEnteredChanges
<1> DEFINE A ==
      SelectInList \/ AcceptPreferences =>
        \A s \in Names(class) :
            IF s \in entered
            THEN inst'[s] = [text |-> form[s],
                             drawn |-> IF Control(class, s) = "key"
                                       THEN KeyMeant(class, form[s])
                                       ELSE form[s]]
            ELSE CanShow(class, s, inst[s].text) => inst'[s] = inst[s]
<1>1. SettingsInv /\ [SettingsNext]_settingVars => [A]_settingVars
  <2> SUFFICES ASSUME SettingsInv, SelectInList \/ AcceptPreferences
               PROVE  A
    OBVIOUS
  <2>1. inst' = Committed /\ class' = class
    BY DEF SelectInList, AcceptPreferences
  <2> QED
    BY <2>1, CommitChangesEntered
<1> QED
  BY <1>1, SettingsInvariant, PTL DEF SettingsSpec, OnlyEnteredChanges

=============================================================================
