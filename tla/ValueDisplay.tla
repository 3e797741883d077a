---------------------------- MODULE ValueDisplay ----------------------------
(***************************************************************************)
(* What an instrument with one key has on the screen, and how old it is.   *)
(* A delta sets a flag; the flag is taken by Render, when a frame draws    *)
(* the instrument, or by ProcessData, when a frame does not, because the   *)
(* canvas shows another page, because it is the frame of another canvas,   *)
(* or because the dashboards are frozen or hidden.  Either measures the    *)
(* age of the value from the moment it ran.                                *)
(*                                                                         *)
(* A second passes with each Tick; ages are counted up to MaxAge.  While   *)
(* the instrument is visible it is drawn at least once a second.           *)
(***************************************************************************)
EXTENDS Naturals

CONSTANTS
    Classes,      \* the classes of instruments that are modelled
    AllowedAges,  \* the time-outs that can be set
    MaxAge        \* bounds the ages: from it on they are the same

(* Gauges are of two kinds.  One with a dial (an angle, a direction or a   *)
(* percentage) always draws its needle, one with a scale (ranged, adaptive *)
(* or fixed) draws it for a value only.                                    *)
Readouts == {"number", "text", "position"}
Gauges == {"dial", "scale"}

ASSUME AgesAssumption ==
    /\ Classes \subseteq Readouts \cup Gauges
    /\ AllowedAges \subseteq Nat
    /\ MaxAge \in Nat
    /\ \A age \in AllowedAges : age + 2 <= MaxAge

(* What is on the screen: nothing yet, dashes, dashes with a needle at     *)
(* rest, a value, or "Error!", in place of which a gauge shows the number  *)
(* it was initialised with.                                                *)
Pictures == {"nothing", "dashes", "resting", "value", "error"}

(* What happened to the instrument since its key was last updated: a       *)
(* redraw was forced, a frame did not draw it, or another source delivered *)
(* for its path.                                                           *)
Disturbances == {"redrawn", "away", "other_source"}

VARIABLES
    class,         \* the class of the instrument
    allowed_age,   \* m_allowed_age_sec
    visible,       \* the canvas shows the page of the instrument
    drawn,         \* it was drawn since the second began
    new_data,      \* m_new_data
    timed_out,     \* m_timed_out
    needs_redraw,  \* m_needs_redraw
    quiet,         \* the seconds since m_last_change
    bmp,           \* m_bmp
    bmp_age,       \* the age of the value in m_bmp
    known,         \* the key leads to a value in the tree
    data_age,      \* the age of that value
    disturbed      \* the disturbances since it was delivered

vars == <<class, allowed_age, visible, drawn, new_data, timed_out, needs_redraw,
          quiet, bmp, bmp_age, known, data_age, disturbed>>
dataVars == <<known, data_age>>
settings == <<class, allowed_age>>

Ages == 0 .. MaxAge

TypeOK ==
    /\ class \in Classes
    /\ allowed_age \in AllowedAges
    /\ visible \in BOOLEAN
    /\ drawn \in BOOLEAN
    /\ new_data \in BOOLEAN
    /\ timed_out \in BOOLEAN
    /\ needs_redraw \in BOOLEAN
    /\ quiet \in Ages
    /\ bmp \in Pictures
    /\ bmp_age \in Ages
    /\ known \in BOOLEAN
    /\ data_age \in Ages
    /\ disturbed \in SUBSET Disturbances

Init ==
    /\ class \in Classes
    /\ allowed_age \in AllowedAges
    /\ visible \in BOOLEAN
    /\ drawn = FALSE
    /\ new_data = FALSE
    /\ timed_out = FALSE
    /\ needs_redraw = TRUE
    /\ quiet = 0
    /\ bmp = "nothing"
    /\ bmp_age = 0
    /\ known = FALSE
    /\ data_age = 0
    /\ disturbed = {}

-----------------------------------------------------------------------------
(* Time, data and the view.                                                *)

Older(age) == IF age < MaxAge THEN age + 1 ELSE age
Tick ==
    /\ visible => drawn
    /\ drawn' = FALSE
    /\ quiet' = Older(quiet)
    /\ bmp_age' = Older(bmp_age)
    /\ data_age' = Older(data_age)
    /\ UNCHANGED <<settings, visible, new_data, timed_out, needs_redraw, bmp,
                   known, disturbed>>

(* NotifyNewData for a delta of the source the key names or is locked to.  *)
(* What happens out of sight is noted as such from the start.              *)
Deliver ==
    /\ new_data' = TRUE
    /\ known' = TRUE
    /\ data_age' = 0
    /\ disturbed' = IF visible THEN {} ELSE {"away"}
    /\ UNCHANGED <<settings, visible, drawn, timed_out, needs_redraw, quiet,
                   bmp, bmp_age>>

(* And for a delta of another source: subscriptions are by path alone.     *)
DeliverOther ==
    /\ new_data' = TRUE
    /\ disturbed' = disturbed \cup {"other_source"}
    /\ UNCHANGED <<settings, visible, drawn, timed_out, needs_redraw, quiet,
                   bmp, bmp_age, dataVars>>

(* The user turns the page, hides the dashboards, or comes back.           *)
Turn ==
    /\ visible' = ~visible
    /\ drawn' = FALSE
    /\ disturbed' = disturbed \cup {"away"}
    /\ UNCHANGED <<settings, new_data, timed_out, needs_redraw, quiet, bmp,
                   bmp_age, dataVars>>

(* Another colour scheme, another magnetic variation, a changed setting or *)
(* OK in the preferences.                                                  *)
ForceRedraw ==
    /\ needs_redraw' = TRUE
    /\ disturbed' = disturbed \cup {"redrawn"}
    /\ UNCHANGED <<settings, visible, drawn, new_data, timed_out, quiet, bmp,
                   bmp_age, dataVars>>

-----------------------------------------------------------------------------
(* Taking notice of new data or of its absence, common to all classes.     *)

(* Mutants: the time-out comes a second early, or late.                    *)
ExpiresEarly == ~timed_out /\ allowed_age > 0 /\ quiet >= allowed_age
ExpiresLate == ~timed_out /\ allowed_age > 0 /\ quiet > allowed_age + 1
Expires == ~timed_out /\ allowed_age > 0 /\ quiet > allowed_age

(* Mutants: no redraw is asked for when a value expires, or when new data  *)
(* was taken.                                                              *)
AsksRedrawForData == needs_redraw \/ new_data
AsksRedrawForTimeout == needs_redraw \/ (~new_data /\ Expires)
AsksRedraw == needs_redraw \/ new_data \/ Expires

Look ==
    /\ timed_out' = (~new_data /\ (timed_out \/ Expires))
    /\ quiet' = IF new_data THEN 0 ELSE quiet

(* A frame that does not draw the instrument.  A gauge leaves the flag to  *)
(* the frame that does.                                                    *)
ProcessData ==
    /\ Look
    /\ needs_redraw' = AsksRedraw
    /\ new_data' = (class \in Gauges /\ new_data)
    /\ disturbed' = disturbed \cup {"away"}
    /\ UNCHANGED <<settings, visible, drawn, bmp, bmp_age, dataVars>>

-----------------------------------------------------------------------------
(* Render.                                                                 *)

Show(picture) ==
    /\ bmp' = picture
    /\ bmp_age' = data_age

(* What is made of data just read.                                         *)
Read(otherwise) == IF known THEN "value" ELSE otherwise

(* A redraw without new data has no value at hand and makes dashes.        *)
Readout(picture) ==
    /\ Look
    /\ needs_redraw' = FALSE
    /\ \/ AsksRedraw /\ Show(IF new_data THEN picture ELSE "dashes")
       \/ ~AsksRedraw /\ UNCHANGED <<bmp, bmp_age>>
RenderNumber == class = "number" /\ Readout(Read("error"))
RenderText == class = "text" /\ Readout(Read("dashes"))
RenderPosition == class = "position" /\ Readout(Read("dashes"))

(* A gauge goes by new data and the time-out; its redraw flag is set when  *)
(* it is created and never cleared.                                        *)
Gauge(blank) ==
    /\ Look
    /\ needs_redraw' = AsksRedraw
    /\ \/ new_data /\ Show(Read("error"))
       \/ /\ ~new_data
          /\ timed_out \/ Expires \/ bmp = "nothing"
          /\ Show(blank)
       \/ /\ ~new_data
          /\ ~timed_out /\ ~Expires /\ bmp # "nothing"
          /\ UNCHANGED <<bmp, bmp_age>>
RenderDial == class = "dial" /\ Gauge("resting")
RenderScale == class = "scale" /\ Gauge("dashes")

Render ==
    /\ visible
    /\ \/ RenderNumber \/ RenderText \/ RenderPosition
       \/ RenderDial \/ RenderScale
    /\ new_data' = FALSE
    /\ drawn' = TRUE
    /\ UNCHANGED <<settings, visible, dataVars, disturbed>>

-----------------------------------------------------------------------------
Next ==
    \/ Tick
    \/ Deliver \/ DeliverOther
    \/ Turn \/ ForceRedraw
    \/ ProcessData \/ Render

Spec == Init /\ [][Next]_vars

-----------------------------------------------------------------------------
(* Properties.                                                             *)

OnScreen == visible /\ drawn

(* A value never stays on the screen longer than the time-out after the    *)
(* instrument last took new data, in whatever order frames that draw it    *)
(* and frames that do not come, and however often a redraw is forced.      *)
ValueTimesOut ==
    OnScreen /\ bmp = "value" /\ allowed_age > 0 => quiet <= allowed_age

(* What a frame shows is the latest value of the key, or no value: never   *)
(* one that was overtaken while the instrument was out of sight.           *)
LatestShown ==
    [][Render /\ bmp' = "value" => known /\ bmp_age' = data_age]_vars

(* "If the set number of seconds passes since the last update for the      *)
(* Signal K key displayed, the value is replaced by dashes": it is, a      *)
(* second late at most, if the instrument was in sight since that update   *)
(* and no other source delivered.                                          *)
Stale == known /\ allowed_age > 0 /\ data_age > allowed_age + 1
WatchedStaleDashed ==
    OnScreen /\ Stale /\ disturbed \subseteq {"redrawn"} => bmp # "value"

(* And not before, if no redraw was forced.                                *)
Fresh == known /\ (allowed_age = 0 \/ data_age <= allowed_age)
WatchedFreshShown ==
    OnScreen /\ Fresh /\ disturbed \subseteq {"other_source"} =>
        bmp = "value" \/ new_data

(* The manual makes no such exceptions: dashes mean a time-out and a       *)
(* time-out means dashes.  The code refutes either half.                   *)
DashedWhenTimedOut ==
    OnScreen => /\ Stale => bmp # "value"
                /\ Fresh /\ ~new_data => bmp \notin {"dashes", "resting"}
=============================================================================
