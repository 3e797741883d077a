-------------------------- MODULE ValueDisplayProofs --------------------------
(***************************************************************************)
(* Theorems about ValueDisplay, for every time-out and every bound on the  *)
(* ages.                                                                   *)
(***************************************************************************)
EXTENDS ValueDisplay, TLAPS

(***************************************************************************)
(* What the properties need to be inductive.  A readout that timed out     *)
(* with a value still on the screen has a redraw coming.                   *)
(***************************************************************************)
ExpiryPending ==
    class \in Readouts /\ timed_out /\ bmp = "value" => needs_redraw

(* A value on the screen is the latest one, or it is about to be replaced: *)
(* the flag is still set, or a frame elsewhere took it from a readout and  *)
(* asked for a redraw.                                                     *)
OvertakenPending ==
    bmp = "value" =>
        /\ known
        /\ \/ bmp_age = data_age
           \/ new_data
           \/ class \in Readouts /\ needs_redraw

(* An instrument in sight since its key was updated looks at the value in  *)
(* the next second, and from then on counts a second less than its age.    *)
Watched == known /\ disturbed \subseteq {"redrawn"}
WatchedCounts ==
    Watched =>
        /\ visible
        /\ new_data => data_age <= 1 /\ (drawn => data_age = 0)
        /\ ~new_data => data_age <= quiet + 1

(* One that was not redrawn either counts no more than its age, and keeps  *)
(* the value until it expires.                                             *)
Undisturbed == known /\ disturbed \subseteq {"other_source"}
UndisturbedCounts ==
    Undisturbed /\ ~new_data =>
        /\ quiet <= data_age
        /\ Fresh => /\ bmp = "value" /\ ~timed_out
                    /\ class \in Readouts => ~needs_redraw

IInv ==
    /\ TypeOK
    /\ ExpiryPending
    /\ ValueTimesOut
    /\ OvertakenPending
    /\ WatchedCounts
    /\ UndisturbedCounts

-----------------------------------------------------------------------------
(* Lemmas about the operators.                                             *)

LEMMA OlderType ==
    ASSUME NEW age \in Ages
    PROVE  /\ Older(age) \in Ages
           /\ age <= Older(age)
           /\ Older(age) <= age + 1
BY AgesAssumption DEF Older, Ages

(* Ages keep their order and their distance.                               *)
LEMMA OlderMonotone ==
    ASSUME NEW age \in Ages, NEW other \in Ages
    PROVE  /\ age <= other => Older(age) <= Older(other)
           /\ age <= other + 1 => Older(age) <= Older(other) + 1
BY AgesAssumption DEF Older, Ages

LEMMA TimeoutType ==
    ASSUME TypeOK
    PROVE  allowed_age \in Nat
BY AgesAssumption DEF TypeOK

-----------------------------------------------------------------------------
(* The types of the variables.                                             *)

LEMMA InitType == Init => TypeOK
<1>1. 0 \in Ages
  BY AgesAssumption DEF Ages
<1> QED
  BY <1>1 DEF Init, TypeOK, Pictures

LEMMA TypeStep == TypeOK /\ [Next]_vars => TypeOK'
<1> SUFFICES ASSUME TypeOK, [Next]_vars PROVE TypeOK'
  OBVIOUS
<1> USE DEF TypeOK, settings, dataVars
<1>0. 0 \in Ages
  BY AgesAssumption DEF Ages
<1>1. CASE Tick
  BY <1>1, OlderType DEF Tick
<1>2. CASE Deliver
  BY <1>2, <1>0 DEF Deliver, Disturbances
<1>3. CASE DeliverOther
  BY <1>3 DEF DeliverOther, Disturbances
<1>4. CASE Turn
  BY <1>4 DEF Turn, Disturbances
<1>5. CASE ForceRedraw
  BY <1>5 DEF ForceRedraw, Disturbances
<1>6. ASSUME Look PROVE timed_out' \in BOOLEAN /\ quiet' \in Ages
  BY <1>0, <1>6 DEF Look
<1>7. CASE ProcessData
  BY <1>6, <1>7 DEF ProcessData, AsksRedraw, Expires, Disturbances
<1>8. CASE Render
  <2>1. /\ Look
        /\ needs_redraw' \in BOOLEAN
        /\ bmp' \in Pictures
        /\ bmp_age' \in Ages
    <3>1. CASE RenderNumber
      BY <3>1 DEF RenderNumber, Readout, Show, Read, Pictures
    <3>2. CASE RenderText
      BY <3>2 DEF RenderText, Readout, Show, Read, Pictures
    <3>3. CASE RenderPosition
      BY <3>3 DEF RenderPosition, Readout, Show, Read, Pictures
    <3>4. CASE RenderDial
      BY <3>4 DEF RenderDial, Gauge, Show, Read, Pictures, AsksRedraw, Expires
    <3>5. CASE RenderScale
      BY <3>5 DEF RenderScale, Gauge, Show, Read, Pictures, AsksRedraw, Expires
    <3> QED
      BY <1>8, <3>1, <3>2, <3>3, <3>4, <3>5 DEF Render
  <2> QED
    BY <1>6, <1>8, <2>1 DEF Render
<1>9. CASE UNCHANGED vars
  BY <1>9 DEF vars
<1> QED
  BY <1>1, <1>2, <1>3, <1>4, <1>5, <1>7, <1>8, <1>9 DEF Next

(* The variables of an instrument have their types.                        *)
THEOREM TypeCorrect == Spec => []TypeOK
BY InitType, TypeStep, PTL DEF Spec

-----------------------------------------------------------------------------
(* What a frame shows.                                                     *)

LEMMA RenderShows ==
    ASSUME TypeOK, Render
    PROVE  /\ Look
           /\ class \in Readouts => ~needs_redraw'
           /\ new_data =>
                 /\ bmp_age' = data_age
                 /\ bmp' = "value" <=> known
           /\ ~new_data =>
                 /\ bmp' = "value" <=>
                       /\ bmp = "value" /\ ~Expires
                       /\ class \in Readouts => ~needs_redraw
                       /\ class \in Gauges => ~timed_out
                 /\ bmp' = "value" => bmp_age' = bmp_age
<1> USE DEF TypeOK, Read, Show, Readouts, Gauges
<1>1. CASE RenderNumber
  BY <1>1 DEF RenderNumber, Readout, AsksRedraw
<1>2. CASE RenderText
  BY <1>2 DEF RenderText, Readout, AsksRedraw
<1>3. CASE RenderPosition
  BY <1>3 DEF RenderPosition, Readout, AsksRedraw
<1>4. CASE RenderDial
  BY <1>4 DEF RenderDial, Gauge
<1>5. CASE RenderScale
  BY <1>5 DEF RenderScale, Gauge
<1> QED
  BY <1>1, <1>2, <1>3, <1>4, <1>5 DEF Render

-----------------------------------------------------------------------------
(* The invariant: every action keeps it.                                   *)

LEMMA InitInv == Init => IInv
<1>1. Init => /\ ExpiryPending /\ ValueTimesOut /\ OvertakenPending
              /\ WatchedCounts /\ UndisturbedCounts
  BY DEF Init, ExpiryPending, ValueTimesOut, OvertakenPending, WatchedCounts,
         Watched, UndisturbedCounts, Undisturbed
<1> QED
  BY <1>1, InitType DEF IInv

LEMMA TickStep == IInv /\ Tick => IInv'
<1> SUFFICES ASSUME IInv, Tick PROVE IInv'
  OBVIOUS
<1> USE DEF IInv, Tick, settings
<1>1. TypeOK'
  BY TypeStep DEF Next
<1>2. /\ allowed_age \in Nat
      /\ quiet \in Ages /\ bmp_age \in Ages /\ data_age \in Ages
      /\ Ages \subseteq Nat
  BY TimeoutType DEF TypeOK, Ages
<1>3. ExpiryPending' /\ OvertakenPending'
  BY DEF ExpiryPending, OvertakenPending
<1>4. ValueTimesOut'
  BY DEF ValueTimesOut, OnScreen
<1>5. WatchedCounts'
  <2> SUFFICES ASSUME Watched
               PROVE  /\ visible
                      /\ new_data => data_age' <= 1
                      /\ ~new_data => data_age' <= quiet' + 1
    BY DEF WatchedCounts, Watched
  <2>1. visible /\ drawn
    BY DEF WatchedCounts
  <2>2. new_data => data_age' <= 1
    BY <1>2, <2>1, OlderType DEF WatchedCounts
  <2>3. ~new_data => data_age' <= quiet' + 1
    BY <1>2, OlderMonotone DEF WatchedCounts
  <2> QED
    BY <2>1, <2>2, <2>3
<1>6. UndisturbedCounts'
  <2> SUFFICES ASSUME Undisturbed, ~new_data
               PROVE  /\ quiet' <= data_age'
                      /\ Fresh' => /\ bmp = "value" /\ ~timed_out
                                   /\ class \in Readouts => ~needs_redraw
    BY DEF UndisturbedCounts, Undisturbed
  <2>1. quiet' <= data_age'
    BY <1>2, OlderMonotone DEF UndisturbedCounts
  <2>2. Fresh' => Fresh
    <3>1. data_age <= data_age' /\ data_age' \in Nat /\ data_age \in Nat
      BY <1>2, OlderType
    <3>2. known' = known /\ allowed_age' = allowed_age
      OBVIOUS
    <3> HIDE DEF Tick, IInv
    <3> QED
      BY <1>2, <3>1, <3>2 DEF Fresh
  <2> QED
    BY <2>1, <2>2 DEF UndisturbedCounts
<1> QED
  BY <1>1, <1>3, <1>4, <1>5, <1>6

(* Deltas, the user and forced redraws only set flags.                     *)
LEMMA FlagStep ==
    IInv /\ (Deliver \/ DeliverOther \/ Turn \/ ForceRedraw) => IInv'
<1> USE DEF IInv, settings, dataVars
<1>1. ASSUME IInv, Deliver PROVE IInv'
  <2>1. TypeOK'
    BY <1>1, TypeStep DEF Next
  <2> QED
    BY <1>1, <2>1
       DEF Deliver, ExpiryPending, ValueTimesOut, OnScreen, OvertakenPending,
           WatchedCounts, Watched, UndisturbedCounts
<1>2. ASSUME IInv, DeliverOther PROVE IInv'
  <2>1. TypeOK'
    BY <1>2, TypeStep DEF Next
  <2> QED
    BY <1>2, <2>1
       DEF DeliverOther, ExpiryPending, ValueTimesOut, OnScreen,
           OvertakenPending, WatchedCounts, Watched, UndisturbedCounts
<1>3. ASSUME IInv, Turn PROVE IInv'
  <2>1. TypeOK'
    BY <1>3, TypeStep DEF Next
  <2> QED
    BY <1>3, <2>1
       DEF Turn, ExpiryPending, ValueTimesOut, OnScreen, OvertakenPending,
           WatchedCounts, Watched, UndisturbedCounts, Undisturbed
<1>4. ASSUME IInv, ForceRedraw PROVE IInv'
  <2>1. TypeOK'
    BY <1>4, TypeStep DEF Next
  <2> QED
    BY <1>4, <2>1
       DEF ForceRedraw, ExpiryPending, ValueTimesOut, OnScreen,
           OvertakenPending, WatchedCounts, Watched, UndisturbedCounts,
           Undisturbed
<1> QED
  BY <1>1, <1>2, <1>3, <1>4

(* A frame elsewhere hands what it took on to the redraw flag.             *)
LEMMA ProcessDataStep == IInv /\ ProcessData => IInv'
<1> SUFFICES ASSUME IInv, ProcessData PROVE IInv'
  OBVIOUS
<1> USE DEF IInv, ProcessData, Look, settings, dataVars
<1>1. TypeOK'
  BY TypeStep DEF Next
<1>2. allowed_age \in Nat /\ quiet \in Nat
  BY TimeoutType DEF TypeOK, Ages
<1>3. ExpiryPending' /\ OvertakenPending'
  BY AgesAssumption DEF ExpiryPending, OvertakenPending, AsksRedraw, TypeOK
<1>4. ValueTimesOut'
  BY <1>2 DEF ValueTimesOut, OnScreen
<1>5. WatchedCounts' /\ UndisturbedCounts'
  BY DEF WatchedCounts, Watched, UndisturbedCounts, Undisturbed
<1> QED
  BY <1>1, <1>3, <1>4, <1>5

LEMMA RenderStep == IInv /\ Render => IInv'
<1> SUFFICES ASSUME IInv, Render PROVE IInv'
  OBVIOUS
<1> USE DEF IInv, Look
<1>1. TypeOK'
  BY TypeStep DEF Next
<1>2. /\ UNCHANGED <<class, allowed_age, visible, known, data_age, disturbed>>
      /\ visible /\ ~new_data'
  BY DEF Render, settings, dataVars
<1>3. /\ allowed_age \in Nat
      /\ quiet \in Nat /\ data_age \in Nat
      /\ class \in Readouts \cup Gauges
  BY TimeoutType, AgesAssumption DEF TypeOK, Ages
<1>4. ExpiryPending'
  BY <1>2, RenderShows DEF ExpiryPending
<1>5. ValueTimesOut'
  <2> SUFFICES ASSUME bmp' = "value", allowed_age > 0
               PROVE  quiet' <= allowed_age
    BY <1>2 DEF ValueTimesOut
  <2>1. CASE new_data
    BY <1>3, <2>1, RenderShows
  <2>2. CASE ~new_data
    <3>1. /\ bmp = "value" /\ ~Expires /\ quiet' = quiet
          /\ class \in Readouts => ~needs_redraw
          /\ class \in Gauges => ~timed_out
      BY <2>2, RenderShows
    <3>2. ~timed_out
      BY <1>3, <3>1 DEF ExpiryPending
    <3> QED
      BY <1>3, <3>1, <3>2 DEF Expires
  <2> QED
    BY <2>1, <2>2
<1>6. OvertakenPending'
  BY <1>2, RenderShows DEF OvertakenPending
<1>7. WatchedCounts'
  BY <1>2, <1>3, RenderShows DEF WatchedCounts, Watched
<1>8. UndisturbedCounts'
  <2> SUFFICES ASSUME Undisturbed
               PROVE  /\ quiet' <= data_age
                      /\ Fresh => /\ bmp' = "value" /\ ~timed_out'
                                  /\ class \in Readouts => ~needs_redraw'
    BY <1>2 DEF UndisturbedCounts, Undisturbed, Fresh
  <2>1. CASE new_data
    <3>1. bmp' = "value" /\ (class \in Readouts => ~needs_redraw')
      BY <2>1, RenderShows DEF Undisturbed
    <3>2. quiet' = 0 /\ ~timed_out'
      BY <2>1, RenderShows
    <3> QED
      BY <1>3, <3>1, <3>2
  <2>2. CASE ~new_data
    <3>1. quiet' <= data_age
      BY <2>2, RenderShows DEF UndisturbedCounts
    <3>2. Fresh => ~Expires
      BY <1>3, <2>2 DEF UndisturbedCounts, Fresh, Expires
    <3> QED
      BY <2>2, <3>1, <3>2, RenderShows DEF UndisturbedCounts
  <2> QED
    BY <2>1, <2>2
<1> QED
  BY <1>1, <1>4, <1>5, <1>6, <1>7, <1>8

LEMMA InvStep == IInv /\ [Next]_vars => IInv'
<1>1. IInv /\ UNCHANGED vars => IInv'
  BY DEF IInv, TypeOK, ExpiryPending, ValueTimesOut, OnScreen,
         OvertakenPending, WatchedCounts, Watched, UndisturbedCounts,
         Undisturbed, Fresh, vars
<1> QED
  BY <1>1, TickStep, FlagStep, ProcessDataStep, RenderStep DEF Next

LEMMA Invariant == Spec => []IInv
BY InitInv, InvStep, PTL DEF Spec

-----------------------------------------------------------------------------
(* The properties.                                                         *)

(* A value never stays on the screen longer than the time-out, however     *)
(* frames of this canvas, frames of others and forced redraws interleave.  *)
THEOREM TimesOut == Spec => []ValueTimesOut
<1>1. IInv => ValueTimesOut
  BY DEF IInv
<1> QED
  BY <1>1, Invariant, PTL

(* No frame shows a value that was overtaken out of sight.                 *)
THEOREM ShowsLatest == Spec => LatestShown
<1>1. ASSUME IInv, Render, bmp' = "value"
      PROVE  known /\ bmp_age' = data_age
  <2>1. TypeOK /\ OvertakenPending
    BY <1>1 DEF IInv
  <2>2. CASE new_data
    BY <1>1, <2>1, <2>2, RenderShows
  <2>3. CASE ~new_data
    BY <1>1, <2>1, <2>3, RenderShows DEF OvertakenPending
  <2> QED
    BY <2>2, <2>3
<1>2. IInv /\ [Next]_vars =>
        [Render /\ bmp' = "value" => known /\ bmp_age' = data_age]_vars
  BY <1>1
<1> QED
  BY <1>2, Invariant, PTL DEF Spec, LatestShown

(* An instrument in sight since its key was updated has no value on the    *)
(* screen once the time-out and a second have passed, even if redraws were *)
(* forced in between.                                                      *)
THEOREM WatchedTimesOut == Spec => []WatchedStaleDashed
<1>1. ASSUME IInv, OnScreen, Stale, disturbed \subseteq {"redrawn"}
      PROVE  bmp # "value"
  <2>1. /\ allowed_age \in Nat /\ data_age \in Nat /\ quiet \in Nat
        /\ allowed_age > 0 /\ data_age > allowed_age + 1
    BY <1>1, TimeoutType DEF IInv, TypeOK, Ages, Stale
  <2>2. Watched /\ drawn
    BY <1>1 DEF Watched, Stale, OnScreen
  <2>3. ~new_data
    BY <1>1, <2>1, <2>2 DEF IInv, WatchedCounts
  <2>4. quiet > allowed_age
    BY <1>1, <2>1, <2>2, <2>3 DEF IInv, WatchedCounts
  <2> QED
    BY <1>1, <2>1, <2>4 DEF IInv, ValueTimesOut
<1>2. IInv => WatchedStaleDashed
  BY <1>1 DEF WatchedStaleDashed
<1> QED
  BY <1>2, Invariant, PTL

(* Without a forced redraw, and without a look out of sight, dashes do not *)
(* come before the time-out.                                               *)
THEOREM WatchedKeepsValue == Spec => []WatchedFreshShown
<1>1. IInv => WatchedFreshShown
  BY DEF IInv, UndisturbedCounts, Undisturbed, WatchedFreshShown, Fresh
<1> QED
  BY <1>1, Invariant, PTL

=============================================================================
