----------------------------- MODULE SlotValues -----------------------------
(***************************************************************************)
(* The instruments with several keys: the composite wind instrument and    *)
(* the SVG skin.  Each of their slots has a key, the value last read for   *)
(* it and the time of its last notification, and times out on its own; the *)
(* instrument as a whole has one flag for new data, one for a redraw and   *)
(* one picture.                                                            *)
(*                                                                         *)
(* The wind instrument shows what OpenCPN knows of the own ship in some    *)
(* slots (heading and course over ground) when their key has nothing.      *)
(*                                                                         *)
(* A second passes with each Tick; while the instrument is visible it is   *)
(* drawn at least once a second.                                           *)
(***************************************************************************)
EXTENDS Naturals

CONSTANTS
    Classes,      \* of "wind" and "svg"
    Slots,        \* the inputs of the instrument
    OwnShipSlots, \* those the wind instrument has the own ship for
    Sensors,      \* pairs of a path and a source that delivers values for it
    Values,       \* numbers
    NoValue,      \* no number: nothing, or data of another type
    NoKey,        \* the key of an unused slot
    Choices,      \* the keys a user may give each slot
    AllowedAges,  \* the time-outs that can be set
    MaxAge        \* bounds the ages: from it on they are the same

ASSUME SlotsAssumption ==
    /\ Classes \subseteq {"wind", "svg"}
    /\ OwnShipSlots \subseteq Slots
    /\ NoValue \notin Values
    /\ NoKey \notin Sensors
    /\ Choices \in [Slots -> SUBSET (Sensors \cup {NoKey})]
    /\ MaxAge \in Nat
    /\ AllowedAges \subseteq 0 .. MaxAge - 1

Keys == Sensors \cup {NoKey}
Readings == Values \cup {NoValue}
Ages == 0 .. MaxAge
Unheard == MaxAge + 1

(* What a slot remembers: the value last read, the time since its last     *)
(* notification, and, of the wind instrument, whether there was one.       *)
Data == [value : Readings, age : Ages, received : BOOLEAN]

VARIABLES
    class,         \* the class of the instrument
    allowed_age,   \* m_allowed_age_sec
    key,           \* m_keys
    data,          \* m_data
    new_data,      \* m_new_data
    needs_redraw,  \* m_needs_redraw
    bmp,           \* m_bmp: the reading drawn in each slot
    visible,       \* the canvas shows the page of the instrument
    drawn,         \* it was drawn since the second began
    tree,          \* what the tree holds of each sensor
    own_ship,      \* what OpenCPN knows of the own ship
    heard          \* the seconds since the path of a slot last delivered

settings == <<class, allowed_age>>
world == <<tree, own_ship>>
vars == <<settings, key, data, new_data, needs_redraw, bmp, visible, drawn,
          world, heard>>

Blank == [slot \in Slots |-> NoValue]

(* The wind instrument never remembers a value it has no time for.         *)
TypeOK ==
    /\ class \in Classes
    /\ allowed_age \in AllowedAges
    /\ key \in [Slots -> Keys]
    /\ data \in [Slots -> Data]
    /\ \A slot \in Slots :
            class = "wind" /\ data[slot].value # NoValue => data[slot].received
    /\ new_data \in BOOLEAN
    /\ needs_redraw \in BOOLEAN
    /\ bmp \in [Slots -> Readings]
    /\ visible \in BOOLEAN
    /\ drawn \in BOOLEAN
    /\ tree \in [Sensors -> Readings]
    /\ own_ship \in [OwnShipSlots -> Readings]
    /\ heard \in [Slots -> Ages \cup {Unheard}]

(* The slots of a wind instrument start now, those of a skin in 1970.      *)
NewDatum ==
    [value |-> NoValue, received |-> FALSE,
     age |-> IF class = "wind" THEN 0 ELSE MaxAge]

Init ==
    /\ class \in Classes
    /\ allowed_age \in AllowedAges
    /\ key = [slot \in Slots |-> NoKey]
    /\ data = [slot \in Slots |-> NewDatum]
    /\ new_data = FALSE
    /\ needs_redraw = TRUE
    /\ bmp = Blank
    /\ visible = TRUE
    /\ drawn = FALSE
    /\ tree = [sensor \in Sensors |-> NoValue]
    /\ own_ship = [slot \in OwnShipSlots |-> NoValue]
    /\ heard = [slot \in Slots |-> Unheard]

-----------------------------------------------------------------------------
(* Time, data and the view.                                                *)

Older(age) == IF age < MaxAge THEN age + 1 ELSE age
Tick ==
    /\ visible => drawn
    /\ drawn' = FALSE
    /\ data' = [slot \in Slots |-> [data[slot] EXCEPT !.age = Older(@)]]
    /\ heard' = [slot \in Slots |->
                    IF heard[slot] = Unheard THEN Unheard
                    ELSE Older(heard[slot])]
    /\ UNCHANGED <<settings, key, new_data, needs_redraw, bmp, visible, world>>

(* Mutant: a slot is told from another by the whole key.                   *)
FollowsSensor(slot, sensor) == key[slot] = sensor
(* The path of a key, without the source, is what deltas are told by.      *)
Follows(slot, sensor) == key[slot] # NoKey /\ key[slot][1] = sensor[1]

(* A delta is stored, and the instrument hears of it if a key of its has   *)
(* the path: subscriptions are by path.                                    *)
Subscribed(sensor) ==
    \E slot \in Slots : key[slot] # NoKey /\ key[slot][1] = sensor[1]
NotifyNewData(sensor) ==
    /\ data' = [slot \in Slots |->
                    IF Follows(slot, sensor)
                    THEN [data[slot] EXCEPT !.age = 0, !.received = TRUE]
                    ELSE data[slot]]
    /\ new_data' = TRUE
    /\ needs_redraw' = TRUE
Deliver(sensor, reading) ==
    /\ tree' = [tree EXCEPT ![sensor] = reading]
    /\ heard' = [slot \in Slots |->
                    IF key[slot] # NoKey /\ key[slot][1] = sensor[1]
                    THEN 0 ELSE heard[slot]]
    /\ \/ Subscribed(sensor) /\ NotifyNewData(sensor)
       \/ ~Subscribed(sensor) /\ UNCHANGED <<data, new_data, needs_redraw>>
    /\ UNCHANGED <<settings, key, bmp, visible, drawn, own_ship>>

(* SetPositionFixEx: nobody is told.                                       *)
PositionFix(slot, reading) ==
    /\ class = "wind"
    /\ own_ship' = [own_ship EXCEPT ![slot] = reading]
    /\ UNCHANGED <<settings, key, data, new_data, needs_redraw, bmp, visible,
                   drawn, tree, heard>>

(* SetSetting of a key: the slot keeps what it remembers.                  *)
SetKey(slot, new_key) ==
    /\ key' = [key EXCEPT ![slot] = new_key]
    /\ needs_redraw' = TRUE
    /\ heard' = [heard EXCEPT ![slot] =
                    IF new_key = key[slot] THEN @ ELSE Unheard]
    /\ UNCHANGED <<settings, data, new_data, bmp, visible, drawn, world>>

(* A setting, the colour scheme or the magnetic variation was changed.     *)
ForceRedraw ==
    /\ needs_redraw' = TRUE
    /\ UNCHANGED <<settings, key, data, new_data, bmp, visible, drawn, world,
                   heard>>

Turn ==
    /\ visible' = ~visible
    /\ drawn' = FALSE
    /\ UNCHANGED <<settings, key, data, new_data, needs_redraw, bmp, world,
                   heard>>

-----------------------------------------------------------------------------
(* Reading the slots.                                                      *)

Read(slot) == IF key[slot] = NoKey THEN NoValue ELSE tree[key[slot]]

(* All slots are read again.  A value that was there before the wind       *)
(* instrument heard of its path counts from now.                           *)
Refreshed(slot) ==
    IF class = "wind" /\ Read(slot) # NoValue /\ ~data[slot].received
    THEN [value |-> Read(slot), age |-> 0, received |-> TRUE]
    ELSE [data[slot] EXCEPT !.value = Read(slot)]

InTime(datum) == allowed_age = 0 \/ datum.age <= allowed_age
Usable(datum) ==
    /\ datum.value # NoValue
    /\ class = "wind" => datum.received
    /\ InTime(datum)

(* What a slot stands for now.                                             *)
Current(slot, datum) ==
    IF Usable(datum) THEN datum.value
    ELSE IF class = "wind" /\ slot \in OwnShipSlots THEN own_ship[slot]
    ELSE NoValue

(* Mutant: a value that expires does not make the picture be drawn again.  *)
ExpiresUnseen(looked) == {}
(* The slots whose value expired.                                          *)
Expired(looked) ==
    {slot \in Slots : /\ looked[slot].value # NoValue
                      /\ Current(slot, looked[slot]) = NoValue}

(* A skin forgets an expired value, the wind instrument asks for a redraw  *)
(* in every frame.                                                         *)
Looked == IF new_data THEN [slot \in Slots |-> Refreshed(slot)] ELSE data
Kept(looked) ==
    [slot \in Slots |->
        IF class = "svg" /\ slot \in Expired(looked)
        THEN [looked[slot] EXCEPT !.value = NoValue]
        ELSE looked[slot]]
AsksRedraw == needs_redraw \/ new_data \/ Expired(Looked) # {}

(* A frame that does not draw the instrument.                              *)
ProcessData ==
    /\ data' = Kept(Looked)
    /\ new_data' = FALSE
    /\ needs_redraw' = AsksRedraw
    /\ UNCHANGED <<settings, key, bmp, visible, drawn, world, heard>>

Picture(looked) == [slot \in Slots |-> Current(slot, looked[slot])]

(* A frame that does.                                                      *)
Render ==
    /\ visible
    /\ drawn' = TRUE
    /\ data' = Kept(Looked)
    /\ new_data' = FALSE
    /\ needs_redraw' = FALSE
    /\ bmp' = IF AsksRedraw THEN Picture(Kept(Looked)) ELSE bmp
    /\ UNCHANGED <<settings, key, visible, world, heard>>

-----------------------------------------------------------------------------
Next ==
    \/ Tick
    \/ \E sensor \in Sensors, reading \in Readings : Deliver(sensor, reading)
    \/ \E slot \in OwnShipSlots, reading \in Readings :
            PositionFix(slot, reading)
    \/ \E slot \in Slots : \E new_key \in Choices[slot] :
            SetKey(slot, new_key)
    \/ ForceRedraw \/ Turn
    \/ ProcessData \/ Render

Spec == Init /\ [][Next]_vars

-----------------------------------------------------------------------------
(* Properties.                                                             *)

OnScreen == visible /\ drawn
Heard(slot) == heard[slot] # Unheard
InTimeHeard(slot) == Heard(slot) /\ (allowed_age = 0 \/ heard[slot] <= allowed_age)
FallsBack(slot) == class = "wind" /\ slot \in OwnShipSlots

(* A slot is blank on the screen once its path has been silent for longer  *)
(* than the time-out, whatever the other slots received meanwhile and      *)
(* whichever frames drew the instrument: a delta for one key never renews  *)
(* the value of another.  (Where the own ship stands in, see               *)
(* StaleFallsBack.)                                                        *)
SlotTimesOut ==
    \A slot \in Slots :
        OnScreen /\ Heard(slot) /\ ~InTimeHeard(slot) /\ ~FallsBack(slot) =>
            bmp[slot] = NoValue

(* And while its path delivers in time, a slot shows what the tree holds   *)
(* for its key now, even if what is delivered is for other slots or for    *)
(* another source of the path.                                             *)
SlotShowsLatest ==
    \A slot \in Slots :
        OnScreen /\ ~needs_redraw /\ InTimeHeard(slot) =>
            \/ bmp[slot] = Read(slot)
            \/ FallsBack(slot) /\ Read(slot) = NoValue

(* "Fall back to the values OpenCPN core fuses for own ship when the       *)
(* Signal K key is unset or its data is stale": the picture does not, as   *)
(* neither the expiry of a value that has a stand-in nor a new position    *)
(* fix asks for a redraw.                                                  *)
StaleFallsBack ==
    \A slot \in OwnShipSlots :
        OnScreen /\ FallsBack(slot) /\ Heard(slot) /\ ~InTimeHeard(slot) =>
            bmp[slot] = own_ship[slot]
=============================================================================
