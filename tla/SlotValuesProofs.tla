--------------------------- MODULE SlotValuesProofs ---------------------------
(***************************************************************************)
(* Theorems about SlotValues, for every set of slots, of sensors and of    *)
(* values, every choice of keys and every time-out.                        *)
(***************************************************************************)
EXTENDS SlotValues, TLAPS

(***************************************************************************)
(* What the properties need to be inductive.  Since its path delivered, a  *)
(* slot counts the seconds: no other slot and no redraw start them again.  *)
(***************************************************************************)
HeardCounted ==
    \A slot \in Slots :
        Heard(slot) =>
            /\ key[slot] # NoKey
            /\ data[slot].received
            /\ data[slot].age = heard[slot]

(* New data always comes with a redraw.                                    *)
DataAsksRedraw == new_data => needs_redraw

(* What was read in time is what the tree holds.                           *)
ReadCurrent ==
    \A slot \in Slots :
        ~new_data /\ InTimeHeard(slot) => data[slot].value = Read(slot)

(* The picture has no value for a slot that remembers none, and the value  *)
(* of a slot in time, wherever the instrument was processed last.          *)
PictureBlank ==
    \A slot \in Slots :
        ~needs_redraw /\ data[slot].value = NoValue /\ ~FallsBack(slot) =>
            bmp[slot] = NoValue
PictureCurrent ==
    \A slot \in Slots :
        ~needs_redraw /\ InTimeHeard(slot) =>
            \/ bmp[slot] = Read(slot)
            \/ FallsBack(slot) /\ Read(slot) = NoValue

IInv ==
    /\ TypeOK
    /\ HeardCounted
    /\ DataAsksRedraw
    /\ ReadCurrent
    /\ PictureBlank
    /\ PictureCurrent
    /\ SlotTimesOut

-----------------------------------------------------------------------------
(* Lemmas about the operators.                                             *)

LEMMA OlderType ==
    ASSUME NEW age \in Ages
    PROVE  /\ Older(age) \in Ages
           /\ age <= Older(age)
BY SlotsAssumption DEF Older, Ages

LEMMA UnheardApart == Unheard \notin Ages /\ Ages \subseteq Nat /\ 0 \in Ages
BY SlotsAssumption DEF Unheard, Ages

LEMMA TimeoutType == TypeOK => allowed_age \in Nat
BY SlotsAssumption DEF TypeOK

LEMMA ReadType ==
    ASSUME TypeOK, NEW slot \in Slots
    PROVE  Read(slot) \in Readings
BY DEF TypeOK, Read, Keys, Readings

LEMMA CurrentType ==
    ASSUME TypeOK, NEW slot \in Slots, NEW datum \in Data
    PROVE  Current(slot, datum) \in Readings
BY DEF TypeOK, Current, Data, Readings

LEMMA RefreshedType ==
    ASSUME TypeOK, NEW slot \in Slots
    PROVE  /\ Refreshed(slot) \in Data
           /\ Refreshed(slot).value = Read(slot)
           /\ data[slot].received => /\ Refreshed(slot).received
                                     /\ Refreshed(slot).age = data[slot].age
           /\ class = "wind" /\ Read(slot) # NoValue =>
                 Refreshed(slot).received
<1>1. data[slot] \in Data /\ Read(slot) \in Readings /\ 0 \in Ages
  BY ReadType, UnheardApart DEF TypeOK
<1> QED
  BY <1>1 DEF Refreshed, Data

(* What an instrument remembers of one slot after a look.                  *)
LEMMA LookedType ==
    ASSUME TypeOK, NEW slot \in Slots
    PROVE  /\ Looked[slot] =
                 IF new_data THEN Refreshed(slot) ELSE data[slot]
           /\ Looked[slot] \in Data
           /\ class = "wind" /\ Looked[slot].value # NoValue =>
                 Looked[slot].received
<1>1. Looked[slot] = IF new_data THEN Refreshed(slot) ELSE data[slot]
  BY DEF Looked
<1>2. /\ data[slot] \in Data
      /\ class = "wind" /\ data[slot].value # NoValue => data[slot].received
  BY DEF TypeOK
<1> QED
  BY <1>1, <1>2, RefreshedType

LEMMA KeptType ==
    ASSUME TypeOK, NEW slot \in Slots
    PROVE  /\ Kept(Looked)[slot] \in Data
           /\ Kept(Looked)[slot].received = Looked[slot].received
           /\ Kept(Looked)[slot].age = Looked[slot].age
           /\ \/ Kept(Looked)[slot] = Looked[slot]
              \/ /\ class = "svg" /\ slot \in Expired(Looked)
                 /\ Kept(Looked)[slot].value = NoValue
<1>1. Looked[slot] \in Data
  BY LookedType
<1>2. Kept(Looked)[slot] =
        IF class = "svg" /\ slot \in Expired(Looked)
        THEN [Looked[slot] EXCEPT !.value = NoValue]
        ELSE Looked[slot]
  BY DEF Kept
<1> QED
  BY <1>1, <1>2 DEF Data, Readings

-----------------------------------------------------------------------------
(* The types of the variables.                                             *)

LEMMA InitType == Init => TypeOK
<1> SUFFICES ASSUME Init PROVE TypeOK
  OBVIOUS
<1>1. 0 \in Ages /\ MaxAge \in Ages
  BY SlotsAssumption DEF Ages
<1>2. NewDatum \in Data /\ NewDatum.value = NoValue
  BY <1>1 DEF NewDatum, Data, Readings
<1> QED
  BY <1>2 DEF Init, TypeOK, Blank, Keys, Readings

LEMMA LookType ==
    ASSUME TypeOK, data' = Kept(Looked), class' = class
    PROVE  /\ data' \in [Slots -> Data]
           /\ \A slot \in Slots :
                 class' = "wind" /\ data'[slot].value # NoValue =>
                    data'[slot].received
<1>1. Kept(Looked) \in [Slots -> Data]
  <2>1. \A slot \in Slots : Kept(Looked)[slot] \in Data
    BY KeptType
  <2>2. Kept(Looked) = [slot \in Slots |-> Kept(Looked)[slot]]
    BY DEF Kept
  <2> QED
    BY <2>1, <2>2
<1>2. ASSUME NEW slot \in Slots,
             class' = "wind", data'[slot].value # NoValue
      PROVE  data'[slot].received
  BY <1>2, LookedType, KeptType
<1> QED
  BY <1>1, <1>2

LEMMA TypeStep == TypeOK /\ [Next]_vars => TypeOK'
<1> SUFFICES ASSUME TypeOK, [Next]_vars PROVE TypeOK'
  OBVIOUS
<1> USE DEF settings, world
<1>1. CASE Tick
  <2>1. data' \in [Slots -> Data]
    BY <1>1, OlderType DEF Tick, TypeOK, Data
  <2>2. heard' \in [Slots -> Ages \cup {Unheard}]
    BY <1>1, OlderType DEF Tick, TypeOK
  <2>3. ASSUME NEW slot \in Slots
        PROVE  /\ data'[slot].value = data[slot].value
               /\ data'[slot].received = data[slot].received
    BY <1>1 DEF Tick, TypeOK, Data
  <2> QED
    BY <1>1, <2>1, <2>2, <2>3 DEF Tick, TypeOK
<1>2. ASSUME NEW sensor \in Sensors, NEW reading \in Readings,
             Deliver(sensor, reading)
      PROVE  TypeOK'
  <2>1. ASSUME NotifyNewData(sensor)
        PROVE  /\ data' \in [Slots -> Data]
               /\ \A slot \in Slots :
                     class = "wind" /\ data'[slot].value # NoValue =>
                        data'[slot].received
    <3>1. ASSUME NEW slot \in Slots
          PROVE  /\ data'[slot] \in Data
                 /\ data'[slot].value = data[slot].value
                 /\ data[slot].received => data'[slot].received
      BY <2>1, UnheardApart DEF NotifyNewData, TypeOK, Data
    <3>2. data' = [slot \in Slots |-> data'[slot]]
      BY <2>1 DEF NotifyNewData
    <3> QED
      BY <3>1, <3>2 DEF TypeOK
  <2>2. heard' \in [Slots -> Ages \cup {Unheard}]
    BY <1>2, UnheardApart DEF Deliver, TypeOK
  <2>3. tree' \in [Sensors -> Readings]
    BY <1>2 DEF Deliver, TypeOK
  <2>4. CASE Subscribed(sensor)
    BY <1>2, <2>1, <2>2, <2>3, <2>4 DEF Deliver, NotifyNewData, TypeOK
  <2>5. CASE ~Subscribed(sensor)
    BY <1>2, <2>2, <2>3, <2>5 DEF Deliver, TypeOK
  <2> QED
    BY <2>4, <2>5
<1>3. ASSUME NEW slot \in OwnShipSlots, NEW reading \in Readings,
             PositionFix(slot, reading)
      PROVE  TypeOK'
  BY <1>3 DEF PositionFix, TypeOK
<1>4. ASSUME NEW slot \in Slots, NEW new_key \in Choices[slot],
             SetKey(slot, new_key)
      PROVE  TypeOK'
  <2>1. new_key \in Keys
    BY SlotsAssumption DEF Keys
  <2> QED
    BY <1>4, <2>1 DEF SetKey, TypeOK
<1>5. CASE ForceRedraw
  BY <1>5 DEF ForceRedraw, TypeOK
<1>6. CASE Turn
  BY <1>6 DEF Turn, TypeOK
<1>7. AsksRedraw \in BOOLEAN
  BY DEF AsksRedraw, TypeOK
<1>8. CASE ProcessData
  <2>1. data' = Kept(Looked) /\ class' = class
    BY <1>8 DEF ProcessData
  <2> QED
    BY <1>7, <1>8, <2>1, LookType DEF ProcessData, TypeOK
<1>9. CASE Render
  <2>1. data' = Kept(Looked) /\ class' = class
    BY <1>9 DEF Render
  <2>2. Picture(Kept(Looked)) \in [Slots -> Readings]
    BY KeptType, CurrentType DEF Picture
  <2> QED
    BY <1>9, <2>1, <2>2, LookType DEF Render, TypeOK
<1>10. CASE UNCHANGED vars
  BY <1>10 DEF vars, TypeOK
<1> QED
  BY <1>1, <1>2, <1>3, <1>4, <1>5, <1>6, <1>8, <1>9, <1>10 DEF Next

(* The variables have their types, and a wind instrument never remembers   *)
(* a value it has no time for.                                             *)
THEOREM TypeCorrect == Spec => []TypeOK
BY InitType, TypeStep, PTL DEF Spec

-----------------------------------------------------------------------------
(* The invariant: every action keeps it.                                   *)

LEMMA InitInv == Init => IInv
<1>1. Init => /\ HeardCounted /\ DataAsksRedraw /\ ReadCurrent
              /\ PictureBlank /\ PictureCurrent /\ SlotTimesOut
  BY DEF Init, HeardCounted, DataAsksRedraw, ReadCurrent, PictureBlank,
         PictureCurrent, SlotTimesOut, OnScreen, Heard, InTimeHeard
<1> QED
  BY <1>1, InitType DEF IInv

LEMMA TickStep == IInv /\ Tick => IInv'
<1> SUFFICES ASSUME IInv, Tick PROVE IInv'
  OBVIOUS
<1> USE DEF settings, world
<1>1. TypeOK /\ TypeOK' /\ allowed_age \in Nat
  BY TypeStep, TimeoutType DEF Next, IInv
<1>2. ASSUME NEW slot \in Slots
      PROVE  /\ data'[slot].value = data[slot].value
             /\ data'[slot].received = data[slot].received
             /\ data'[slot].age = Older(data[slot].age)
             /\ Heard(slot)' <=> Heard(slot)
             /\ Heard(slot) => heard'[slot] = Older(heard[slot])
             /\ InTimeHeard(slot)' => InTimeHeard(slot)
             /\ Read(slot)' = Read(slot)
             /\ FallsBack(slot)' <=> FallsBack(slot)
  <2>1. /\ data[slot] \in Data
        /\ heard[slot] \in Ages \cup {Unheard}
        /\ data'[slot] = [data[slot] EXCEPT !.age = Older(@)]
        /\ heard'[slot] = IF heard[slot] = Unheard THEN Unheard
                          ELSE Older(heard[slot])
    BY <1>1 DEF Tick, TypeOK
  <2>2. /\ Heard(slot)' <=> Heard(slot)
        /\ Heard(slot) => /\ heard'[slot] = Older(heard[slot])
                          /\ heard[slot] \in Nat /\ heard'[slot] \in Nat
                          /\ heard[slot] <= heard'[slot]
    BY <2>1, OlderType, UnheardApart DEF Heard
  <2>3. allowed_age' = allowed_age
    BY DEF Tick
  <2>4. InTimeHeard(slot)' => InTimeHeard(slot)
    <3>1. allowed_age \in Nat
      BY <1>1
    <3> HIDE DEF settings
    <3> QED
      BY <2>2, <2>3, <3>1 DEF InTimeHeard
  <2> QED
    BY <2>1, <2>2, <2>4 DEF Data, Tick, Read, FallsBack
<1>3. HeardCounted' /\ DataAsksRedraw'
  BY <1>2 DEF IInv, HeardCounted, DataAsksRedraw, Tick
<1>4. ReadCurrent' /\ PictureBlank' /\ PictureCurrent'
  BY <1>2 DEF IInv, ReadCurrent, PictureBlank, PictureCurrent, Tick
<1>5. SlotTimesOut'
  BY DEF SlotTimesOut, OnScreen, Tick
<1> QED
  BY <1>1, <1>3, <1>4, <1>5 DEF IInv

LEMMA DeliverStep ==
    ASSUME IInv, NEW sensor \in Sensors, NEW reading \in Readings,
           Deliver(sensor, reading)
    PROVE  IInv'
<1> USE DEF settings, world
<1>1. TypeOK /\ TypeOK' /\ allowed_age \in Nat
  BY TypeStep, TimeoutType DEF Next, IInv
<1>2. ASSUME NEW slot \in Slots, Follows(slot, sensor)
      PROVE  /\ Subscribed(sensor)
             /\ key'[slot] # NoKey
             /\ data'[slot].received /\ data'[slot].age = 0
             /\ heard'[slot] = 0 /\ InTimeHeard(slot)'
  <2>1. /\ Subscribed(sensor) /\ heard'[slot] = 0
        /\ allowed_age' = allowed_age /\ key' = key
    BY <1>1, <1>2 DEF Follows, Subscribed, Deliver, TypeOK
  <2>2. data[slot] \in Data
        /\ data'[slot] = [data[slot] EXCEPT !.age = 0, !.received = TRUE]
    BY <1>1, <1>2, <2>1 DEF Deliver, NotifyNewData, TypeOK
  <2> QED
    BY <1>1, <1>2, <2>1, <2>2, UnheardApart
       DEF Follows, Data, InTimeHeard, Heard
<1>3. ASSUME NEW slot \in Slots, ~Follows(slot, sensor)
      PROVE  /\ data'[slot] = data[slot]
             /\ heard'[slot] = heard[slot]
             /\ Heard(slot)' <=> Heard(slot)
             /\ InTimeHeard(slot)' <=> InTimeHeard(slot)
             /\ Read(slot)' = Read(slot)
  <2>1. data'[slot] = data[slot] /\ heard'[slot] = heard[slot]
    BY <1>1, <1>3 DEF Deliver, NotifyNewData, Follows, TypeOK
  <2>2. Read(slot)' = Read(slot)
    BY <1>1, <1>3 DEF Deliver, Read, Follows, TypeOK, Keys
  <2> QED
    BY <2>1, <2>2 DEF Deliver, Heard, InTimeHeard
<1>4. Subscribed(sensor) => new_data' /\ needs_redraw'
  BY DEF Deliver, NotifyNewData
<1>5. ~Subscribed(sensor) => UNCHANGED <<data, new_data, needs_redraw>>
  BY DEF Deliver
<1>6. UNCHANGED <<class, allowed_age, key, bmp, visible, drawn, own_ship>>
  BY DEF Deliver
<1>7. ASSUME NEW slot \in Slots PROVE FallsBack(slot)' <=> FallsBack(slot)
  BY <1>6 DEF FallsBack
<1>8. HeardCounted'
  BY <1>2, <1>3, <1>6 DEF IInv, HeardCounted
<1>9. DataAsksRedraw'
  BY <1>4, <1>5 DEF IInv, DataAsksRedraw
<1>10. ReadCurrent' /\ PictureBlank' /\ PictureCurrent'
  <2>1. CASE Subscribed(sensor)
    BY <1>4, <2>1 DEF ReadCurrent, PictureBlank, PictureCurrent
  <2>2. CASE ~Subscribed(sensor)
    BY <1>2, <1>3, <1>5, <1>6, <1>7, <2>2
       DEF IInv, ReadCurrent, PictureBlank, PictureCurrent
  <2> QED
    BY <2>1, <2>2
<1>11. SlotTimesOut'
  BY <1>2, <1>3, <1>6, <1>7 DEF IInv, SlotTimesOut, OnScreen
<1> QED
  BY <1>1, <1>8, <1>9, <1>10, <1>11 DEF IInv

(* Nobody is told of a position fix; the picture of a slot the own ship    *)
(* stands in for is the one thing it could disturb.                        *)
LEMMA PositionFixStep ==
    ASSUME IInv, NEW slot \in OwnShipSlots, NEW reading \in Readings,
           PositionFix(slot, reading)
    PROVE  IInv'
<1>1. TypeOK'
  BY TypeStep DEF Next, IInv
<1> QED
  BY <1>1 DEF IInv, PositionFix, settings, HeardCounted, DataAsksRedraw,
     ReadCurrent, PictureBlank, PictureCurrent, SlotTimesOut, OnScreen, Heard,
     InTimeHeard, FallsBack, Read

LEMMA SetKeyStep ==
    ASSUME IInv, NEW slot \in Slots, NEW new_key \in Choices[slot],
           SetKey(slot, new_key)
    PROVE  IInv'
<1> USE DEF settings, world
<1>1. TypeOK /\ TypeOK'
  BY TypeStep DEF Next, IInv
<1>2. ASSUME NEW other \in Slots, key'[other] = key[other]
      PROVE  /\ heard'[other] = heard[other]
             /\ Read(other)' = Read(other)
  BY <1>1, <1>2 DEF SetKey, TypeOK, Read
<1>3. ASSUME NEW other \in Slots, key'[other] # key[other]
      PROVE  heard'[other] = Unheard
  BY <1>1, <1>3 DEF SetKey, TypeOK
<1>4. UNCHANGED <<class, allowed_age, data, new_data, bmp, visible, drawn>>
      /\ needs_redraw'
  BY DEF SetKey
<1>5. HeardCounted'
  BY <1>2, <1>3, <1>4 DEF IInv, HeardCounted, Heard
<1>6. ReadCurrent'
  BY <1>2, <1>3, <1>4 DEF IInv, ReadCurrent, InTimeHeard, Heard
<1>7. SlotTimesOut'
  BY <1>2, <1>3, <1>4
     DEF IInv, SlotTimesOut, OnScreen, InTimeHeard, Heard, FallsBack
<1>8. DataAsksRedraw' /\ PictureBlank' /\ PictureCurrent'
  BY <1>4 DEF DataAsksRedraw, PictureBlank, PictureCurrent
<1> QED
  BY <1>1, <1>5, <1>6, <1>7, <1>8 DEF IInv

LEMMA FlagStep == IInv /\ (ForceRedraw \/ Turn) => IInv'
<1> SUFFICES ASSUME IInv, ForceRedraw \/ Turn PROVE IInv'
  OBVIOUS
<1>1. TypeOK'
  BY TypeStep DEF Next, IInv
<1> QED
  BY <1>1 DEF IInv, ForceRedraw, Turn, settings, world, HeardCounted,
     DataAsksRedraw, ReadCurrent, PictureBlank, PictureCurrent, SlotTimesOut,
     OnScreen, Heard, InTimeHeard, FallsBack, Read

-----------------------------------------------------------------------------
(* A look at one slot: it keeps counting the seconds, it remembers what    *)
(* the tree holds if its path delivered in time, and what it stands for is *)
(* no value when it remembers none.                                        *)
LEMMA LookedAt ==
    ASSUME IInv, NEW slot \in Slots
    PROVE  LET datum == Kept(Looked)[slot] IN
           /\ Heard(slot) => datum.received /\ datum.age = heard[slot]
           /\ InTimeHeard(slot) => datum.value = Read(slot)
           /\ datum.value = NoValue /\ ~FallsBack(slot) =>
                 Current(slot, datum) = NoValue
           /\ Heard(slot) /\ ~InTimeHeard(slot) /\ ~FallsBack(slot) =>
                 Current(slot, datum) = NoValue
           /\ InTimeHeard(slot) =>
                 \/ Current(slot, datum) = Read(slot)
                 \/ FallsBack(slot) /\ Read(slot) = NoValue
<1> DEFINE looked == Looked[slot]
           datum == Kept(Looked)[slot]
<1>1. TypeOK
  BY DEF IInv
<1>2. Heard(slot) => looked.received /\ looked.age = heard[slot]
  BY <1>1, LookedType, RefreshedType DEF IInv, HeardCounted
<1>3. InTimeHeard(slot) => looked.value = Read(slot)
  BY <1>1, LookedType, RefreshedType DEF IInv, ReadCurrent
<1>4. Heard(slot) => datum.received /\ datum.age = heard[slot]
  BY <1>1, <1>2, KeptType
<1>5. ASSUME InTimeHeard(slot)
      PROVE  /\ Heard(slot)
             /\ InTime(looked) /\ InTime(datum)
             /\ datum = looked
  <2>1. Heard(slot) /\ InTime(looked) /\ InTime(datum)
    BY <1>2, <1>4, <1>5 DEF InTimeHeard, InTime
  <2>2. looked.value # NoValue => Usable(looked)
    BY <1>2, <2>1 DEF Usable
  <2>3. slot \notin Expired(Looked)
    BY <2>2 DEF Expired, Current
  <2> QED
    BY <1>1, <2>1, <2>3, KeptType
<1>6. InTimeHeard(slot) => datum.value = Read(slot)
  BY <1>3, <1>5
<1>7. datum.value = NoValue /\ ~FallsBack(slot) =>
        Current(slot, datum) = NoValue
  BY DEF Current, Usable, FallsBack
<1>8. Heard(slot) /\ ~InTimeHeard(slot) /\ ~FallsBack(slot) =>
        Current(slot, datum) = NoValue
  BY <1>4 DEF Current, Usable, InTime, InTimeHeard, FallsBack
<1>9. ASSUME InTimeHeard(slot)
      PROVE  \/ Current(slot, datum) = Read(slot)
             \/ FallsBack(slot) /\ Read(slot) = NoValue
  <2>1. CASE Read(slot) # NoValue
    BY <1>4, <1>5, <1>6, <1>9, <2>1 DEF Current, Usable
  <2>2. CASE Read(slot) = NoValue
    BY <1>6, <1>7, <1>9, <2>2
  <2> QED
    BY <2>1, <2>2
<1> QED
  BY <1>4, <1>6, <1>7, <1>8, <1>9

(* When no redraw is asked for there was nothing to take notice of.        *)
LEMMA NothingAsked ==
    ASSUME TypeOK, ~AsksRedraw
    PROVE  /\ ~needs_redraw /\ ~new_data
           /\ \A slot \in Slots :
                 /\ Kept(Looked)[slot] = data[slot]
                 /\ data[slot].value # NoValue =>
                       Current(slot, data[slot]) # NoValue
<1>1. ~needs_redraw /\ ~new_data /\ Expired(Looked) = {}
  BY DEF AsksRedraw, TypeOK
<1>2. ASSUME NEW slot \in Slots
      PROVE  /\ Kept(Looked)[slot] = data[slot]
             /\ data[slot].value # NoValue =>
                   Current(slot, data[slot]) # NoValue
  <2>1. slot \notin Expired(Looked) /\ Looked[slot] = data[slot]
    BY <1>1, LookedType
  <2> QED
    BY <2>1, KeptType DEF Expired
<1> QED
  BY <1>1, <1>2

LEMMA ProcessDataStep == IInv /\ ProcessData => IInv'
<1> SUFFICES ASSUME IInv, ProcessData PROVE IInv'
  OBVIOUS
<1> USE DEF settings, world
<1>1. TypeOK /\ TypeOK'
  BY TypeStep DEF Next, IInv
<1>2. /\ data' = Kept(Looked) /\ ~new_data' /\ needs_redraw' = AsksRedraw
      /\ UNCHANGED <<class, allowed_age, key, bmp, visible, drawn, tree, heard>>
  BY DEF ProcessData
<1>3. HeardCounted'
  BY <1>2, LookedAt DEF IInv, HeardCounted, Heard
<1>4. DataAsksRedraw'
  BY <1>2 DEF DataAsksRedraw
<1>5. ReadCurrent'
  BY <1>2, LookedAt DEF ReadCurrent, InTimeHeard, Heard, Read
<1>6. PictureBlank'
  BY <1>1, <1>2, NothingAsked DEF IInv, PictureBlank, FallsBack
<1>7. PictureCurrent'
  BY <1>1, <1>2, NothingAsked
     DEF IInv, PictureCurrent, FallsBack, InTimeHeard, Heard, Read
<1>8. SlotTimesOut'
  BY <1>2 DEF IInv, SlotTimesOut, OnScreen, FallsBack, InTimeHeard, Heard
<1> QED
  BY <1>1, <1>3, <1>4, <1>5, <1>6, <1>7, <1>8 DEF IInv

LEMMA RenderStep == IInv /\ Render => IInv'
<1> SUFFICES ASSUME IInv, Render PROVE IInv'
  OBVIOUS
<1> USE DEF settings, world
<1>1. TypeOK /\ TypeOK'
  BY TypeStep DEF Next, IInv
<1>2. /\ data' = Kept(Looked) /\ ~new_data' /\ ~needs_redraw'
      /\ UNCHANGED <<class, allowed_age, key, tree, heard>>
  BY DEF Render
<1>3. ASSUME NEW slot \in Slots
      PROVE  \/ AsksRedraw /\ bmp'[slot] = Current(slot, data'[slot])
             \/ ~AsksRedraw /\ bmp'[slot] = bmp[slot]
  BY <1>2 DEF Render, Picture
<1>4. HeardCounted'
  BY <1>2, LookedAt DEF IInv, HeardCounted, Heard
<1>5. DataAsksRedraw'
  BY <1>2 DEF DataAsksRedraw
<1>6. ReadCurrent'
  BY <1>2, LookedAt DEF ReadCurrent, InTimeHeard, Heard, Read
<1>7. PictureBlank'
  <2> SUFFICES ASSUME NEW slot \in Slots,
                      data'[slot].value = NoValue, ~FallsBack(slot)
               PROVE  bmp'[slot] = NoValue
    BY <1>2 DEF PictureBlank, FallsBack
  <2>1. CASE AsksRedraw
    BY <1>2, <1>3, <2>1, LookedAt
  <2>2. CASE ~AsksRedraw
    BY <1>1, <1>2, <1>3, <2>2, NothingAsked DEF IInv, PictureBlank
  <2> QED
    BY <2>1, <2>2
<1>8. PictureCurrent'
  <2> SUFFICES ASSUME NEW slot \in Slots, InTimeHeard(slot)
               PROVE  \/ bmp'[slot] = Read(slot)
                      \/ FallsBack(slot) /\ Read(slot) = NoValue
    BY <1>2 DEF PictureCurrent, FallsBack, InTimeHeard, Heard, Read
  <2>1. CASE AsksRedraw
    BY <1>2, <1>3, <2>1, LookedAt
  <2>2. CASE ~AsksRedraw
    BY <1>1, <1>3, <2>2, NothingAsked DEF IInv, PictureCurrent
  <2> QED
    BY <2>1, <2>2
<1>9. SlotTimesOut'
  <2> SUFFICES ASSUME NEW slot \in Slots,
                      Heard(slot), ~InTimeHeard(slot), ~FallsBack(slot)
               PROVE  bmp'[slot] = NoValue
    BY <1>2 DEF SlotTimesOut, FallsBack, InTimeHeard, Heard
  <2>1. Current(slot, data'[slot]) = NoValue
    BY <1>2, LookedAt
  <2>2. CASE AsksRedraw
    BY <1>3, <2>1, <2>2
  <2>3. CASE ~AsksRedraw
    <3>1. data'[slot] = data[slot] /\ data[slot].value = NoValue
      BY <1>1, <1>2, <2>1, <2>3, NothingAsked
    <3> QED
      BY <1>1, <1>3, <2>3, <3>1, NothingAsked DEF IInv, PictureBlank
  <2> QED
    BY <2>2, <2>3
<1> QED
  BY <1>1, <1>4, <1>5, <1>6, <1>7, <1>8, <1>9 DEF IInv

LEMMA InvStep == IInv /\ [Next]_vars => IInv'
<1>1. IInv /\ UNCHANGED vars => IInv'
  BY DEF IInv, vars, settings, world, TypeOK, HeardCounted, DataAsksRedraw,
     ReadCurrent, PictureBlank, PictureCurrent, SlotTimesOut, OnScreen, Heard,
     InTimeHeard, FallsBack, Read
<1> QED
  BY <1>1, TickStep, DeliverStep, PositionFixStep, SetKeyStep, FlagStep,
     ProcessDataStep, RenderStep DEF Next

LEMMA Invariant == Spec => []IInv
BY InitInv, InvStep, PTL DEF Spec

-----------------------------------------------------------------------------
(* The properties.                                                         *)

(* A slot is blank once its path was silent for longer than the time-out,  *)
(* whatever the other slots receive.                                       *)
THEOREM TimesOut == Spec => []SlotTimesOut
<1>1. IInv => SlotTimesOut
  BY DEF IInv
<1> QED
  BY <1>1, Invariant, PTL

(* A slot whose path delivers in time shows what the tree holds for its    *)
(* key, whoever delivered last.                                            *)
THEOREM ShowsLatest == Spec => []SlotShowsLatest
<1>1. IInv => SlotShowsLatest
  BY DEF IInv, PictureCurrent, SlotShowsLatest
<1> QED
  BY <1>1, Invariant, PTL

=============================================================================
