------------------------------ MODULE Histogram ------------------------------
(***************************************************************************)
(* The history an histogram instrument keeps of its value, and the graph   *)
(* it makes of it.  The history has three buffers of buckets: one with     *)
(* fine, one with coarser, one with the coarsest grain.  Every value goes  *)
(* into all three; when a buffer is full its oldest bucket is dropped.     *)
(* The graph takes the finest data it has for each part of its length.     *)
(*                                                                         *)
(* A value is taken when a frame finds the flag a delta has set; a sample  *)
(* is known here by the time it was taken.                                 *)
(***************************************************************************)
EXTENDS Integers, Sequences, SequencesExt

CONSTANTS
    Sizes,        \* of each buffer: 60, 360, 864 buckets
    Grains,       \* of each buffer: 1, 10, 300 seconds
    Lengths,      \* of the graph: the coarsest buffer it uses and its span
    AllowedAges,  \* the time-outs that can be set
    IdleRedraw,   \* the seconds without data after which frames redraw: 5
    MaxTime       \* bounds the time

Levels == 1 .. 3

(* A buffer spans its longest graph, and the graph of a finer buffer is    *)
(* never longer than that of a coarser one.                                *)
ASSUME HistogramAssumption ==
    /\ Sizes \in [Levels -> Nat \ {0}]
    /\ Grains \in [Levels -> Nat \ {0}]
    /\ Lengths \subseteq [level : Levels, span : Nat]
    /\ \A length \in Lengths :
        length.span <= Sizes[length.level] * Grains[length.level]
    /\ AllowedAges \subseteq Nat
    /\ IdleRedraw \in Nat
    /\ MaxTime \in Nat

VARIABLES
    now,           \* system_clock
    allowed_age,   \* m_allowed_age_sec
    history,       \* m_history: a sequence of buckets on each level
    log,           \* the times all samples were ever taken
    known,         \* the key leads to a value
    new_data,      \* m_new_data
    timed_out,     \* m_timed_out
    needs_redraw,  \* m_needs_redraw
    last_change,   \* m_last_change
    bmp_time,      \* when m_bmp was drawn
    visible,       \* the canvas shows the page of the instrument
    drawn          \* it was drawn since the second began

view == <<visible, drawn>>
flags == <<new_data, timed_out, needs_redraw, last_change>>
vars == <<now, allowed_age, history, log, known, flags, bmp_time, view>>

Times == 0 .. MaxTime
Buckets == [ts : Times, samples : SUBSET Times]

Init ==
    /\ now = 0
    /\ allowed_age \in AllowedAges
    /\ history = [level \in Levels |-> <<>>]
    /\ log = {}
    /\ known = FALSE
    /\ new_data = FALSE
    /\ timed_out = FALSE
    /\ needs_redraw = TRUE
    /\ last_change = 0
    /\ bmp_time = 0
    /\ visible \in BOOLEAN
    /\ drawn = FALSE

-----------------------------------------------------------------------------
(* Time, data and the view.                                                *)

Tick ==
    /\ now < MaxTime
    /\ visible => drawn
    /\ now' = now + 1
    /\ drawn' = FALSE
    /\ UNCHANGED <<allowed_age, history, log, known, flags, bmp_time, visible>>

(* A delta of the source of the key, or of another one of its path, which  *)
(* is notified all the same.                                               *)
NotifyNewData(own) ==
    /\ new_data' = TRUE
    /\ known' = (known \/ own)
    /\ UNCHANGED <<now, allowed_age, history, log, timed_out, needs_redraw,
                   last_change, bmp_time, view>>

Turn ==
    /\ visible' = ~visible
    /\ drawn' = FALSE
    /\ UNCHANGED <<now, allowed_age, history, log, known, flags, bmp_time>>

(* A setting or the colour scheme was changed.                             *)
ForceRedraw ==
    /\ needs_redraw' = TRUE
    /\ UNCHANGED <<now, allowed_age, history, log, known, new_data, timed_out,
                   last_change, bmp_time, view>>

-----------------------------------------------------------------------------
(* The history.                                                            *)

OlderThan(bucket, duration) == bucket.ts + duration < now

(* Mutant: the age of a bucket is that of its last sample.                 *)
StartsBucketAfterPause(buffer, level) ==
    \/ buffer = <<>>
    \/ \A t \in Last(buffer).samples : now - t > Grains[level]
StartsBucket(buffer, level) ==
    buffer = <<>> \/ OlderThan(Last(buffer), Grains[level])

(* Mutant: the oldest bucket goes when the buffer gets full.               *)
PopFrontEarly(buffer, level) ==
    IF Len(buffer) = Sizes[level] THEN Tail(buffer) ELSE buffer
PopFront(buffer, level) ==
    IF Len(buffer) > Sizes[level] THEN Tail(buffer) ELSE buffer

AddTo(buffer, level) ==
    PopFront(
        IF StartsBucket(buffer, level)
        THEN Append(buffer, [ts |-> now, samples |-> {now}])
        ELSE [buffer EXCEPT ![Len(buffer)].samples = @ \cup {now}],
        level)

Add ==
    /\ history' = [level \in Levels |-> AddTo(history[level], level)]
    /\ log' = log \cup {now}

-----------------------------------------------------------------------------
(* Frames.                                                                 *)

Expires ==
    /\ ~new_data /\ ~timed_out
    /\ allowed_age > 0 /\ now - last_change > allowed_age
(* Mutant: once timed out, the graph stands still.                         *)
IdlesUntilTimeout == ~timed_out /\ now - last_change > IdleRedraw
Idles == now - last_change > IdleRedraw
AsksRedraw == needs_redraw \/ new_data \/ Expires \/ Idles

(* Taking notice of new data or of its absence.                            *)
Look ==
    /\ new_data' = FALSE
    /\ timed_out' = (~new_data /\ (timed_out \/ Expires))
    /\ last_change' = IF new_data THEN now ELSE last_change
    /\ \/ new_data /\ known /\ Add
       \/ ~(new_data /\ known) /\ UNCHANGED <<history, log>>

(* A frame that does not draw the instrument.                              *)
ProcessData ==
    /\ Look
    /\ needs_redraw' = AsksRedraw
    /\ UNCHANGED <<now, allowed_age, known, bmp_time, view>>

(* A frame that does.                                                      *)
Render ==
    /\ visible
    /\ drawn' = TRUE
    /\ Look
    /\ needs_redraw' = FALSE
    /\ bmp_time' = IF AsksRedraw THEN now ELSE bmp_time
    /\ UNCHANGED <<now, allowed_age, known, visible>>

-----------------------------------------------------------------------------
(* The graph, from the newest to the oldest bucket.                        *)

Full(level) == Len(history[level]) = Sizes[level]

(* Of a buffer, the graph takes those buckets that are not newer than what  *)
(* it has with a better precision, up to the first one that is too old.    *)
(* Only the coarsest buffer of a graph is cut off.                         *)
InLength(bucket, level, length) ==
    length.level = level => ~OlderThan(bucket, length.span)
Skips(vals, bucket) == vals # <<>> /\ bucket.ts > Last(vals).ts
Taken(vals, level, length) ==
    {i \in DOMAIN history[level] :
        /\ ~Skips(vals, history[level][i])
        /\ InLength(history[level][i], level, length)}

(* They are in the order of their times, and the graph goes back.          *)
Part(vals, level, length) ==
    LET taken == Taken(vals, level, length)
    IN  IF taken = {} THEN <<>>
        ELSE [i \in 1 .. Max(taken) - Min(taken) + 1 |->
                history[level][Max(taken) + 1 - i]]

(* A buffer continues the graph if the finer one is full.                  *)
Continued(vals, level, length) ==
    IF length.level >= level /\ Full(level - 1)
    THEN vals \o Part(vals, level, length)
    ELSE vals

(* Of a value that timed out, the graph goes on to the present.            *)
Dummy == IF timed_out THEN <<[ts |-> now, samples |-> {}]>> ELSE <<>>

Minute(length) == Dummy \o Part(<<>>, 1, length)
Hour(length) == Continued(Minute(length), 2, length)
Graph(length) == Continued(Hour(length), 3, length)

-----------------------------------------------------------------------------
Next ==
    \/ Tick
    \/ \E own \in BOOLEAN : NotifyNewData(own)
    \/ Turn \/ ForceRedraw
    \/ ProcessData \/ Render

Spec == Init /\ [][Next]_vars

-----------------------------------------------------------------------------
(* Properties.                                                             *)

TypeOK ==
    /\ now \in Times
    /\ allowed_age \in AllowedAges
    /\ history \in [Levels -> Seq(Buckets)]
    /\ log \in SUBSET Times
    /\ {known, new_data, timed_out, needs_redraw, visible, drawn} \subseteq BOOLEAN
    /\ last_change \in Times
    /\ bmp_time \in Times

(* What a buffer should be: the latest samples, each in one bucket, the    *)
(* buckets in order and none wider than the grain, and all samples as long *)
(* as the buffer is not full.                                              *)
IsRecentLog(buffer, level) ==
    LET first == buffer[1].ts
    IN  /\ Len(buffer) <= Sizes[level]
        /\ \A t \in log : t >= first \/ Len(buffer) = Sizes[level]
        /\ \A t \in log : t >= first =>
            \E i \in DOMAIN buffer : t \in buffer[i].samples
        /\ \A i \in DOMAIN buffer : \A t \in buffer[i].samples :
            /\ t \in log
            /\ buffer[i].ts <= t /\ t <= buffer[i].ts + Grains[level]
            /\ \A j \in i + 1 .. Len(buffer) : t < buffer[j].ts
HistoryKeepsLog ==
    \A level \in Levels :
        IF history[level] = <<>> THEN log = {}
        ELSE IsRecentLog(history[level], level)

(* "Length of the history shown by the instrument": of the chosen length   *)
(* nothing is missing.  Every sample younger than that, up to the grain of *)
(* the coarsest buffer used, is in the graph, in whichever buffers the     *)
(* parts of it are found, and the graph never goes back in time.           *)
GraphComplete ==
    \A length \in Lengths :
        LET vals == Graph(length)
        IN  /\ \A t \in log :
                t + length.span >= now + Grains[length.level] =>
                    \E i \in DOMAIN vals : t \in vals[i].samples
            /\ \A i \in 1 .. Len(vals) - 1 : vals[i].ts >= vals[i + 1].ts

(* "Even timed out we want to redraw from time to time to shift the        *)
(* graph": the picture on the screen is never older than that.             *)
GraphKeepsMoving ==
    visible /\ drawn => now - bmp_time <= IdleRedraw

(* And nothing that is older is in it.  The code refutes this: the finest  *)
(* buffer is cut off in the shortest graph only.                           *)
GraphWithinLength ==
    \A length \in Lengths : \A i \in DOMAIN Graph(length) :
        ~OlderThan(Graph(length)[i], length.span)
=============================================================================
