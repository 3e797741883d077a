------------------------------ MODULE Settings ------------------------------
(***************************************************************************)
(* The settings of an instrument.  Each class lists its settings once, in  *)
(* a macro, with a control, the limits of the control and a default; every *)
(* value is kept as a text, and what the drawing code reads of some of     *)
(* them is a member beside it, brought up to date by a list of keys in     *)
(* SetSetting that is maintained by hand.  The form of the preferences     *)
(* dialog shows the texts and writes all of them back, the configuration   *)
(* is written from the texts and read into both.                           *)
(*                                                                         *)
(* A text is the number it reads as, or one that stands for a string or    *)
(* colour; the colours of a class are one setting, and the keys of the     *)
(* wind instrument too.  Name, title, time-out and zones are kept by the   *)
(* base class without a copy and are left out.                             *)
(***************************************************************************)
EXTENDS Integers

CONSTANTS
    Classes,   \* classes of instruments
    MaxEdits   \* bounds the changes the user makes

VARIABLES
    class,    \* class of the instrument
    inst,     \* its texts and members
    form,     \* what the controls show
    entered,  \* settings the user changed since the form was filled
    orig,     \* m_orig_config, what Cancel restores
    file,     \* the configuration file
    edits     \* changes made so far

settingVars == <<class, inst, form, entered, orig, file, edits>>

-----------------------------------------------------------------------------
(* The tables.                                                             *)

(* "named": values whose number reads like the label of another one.       *)
Choice(n) ==
    [control |-> "choice", lo |-> 0, hi |-> n - 1, default |-> 0,
     named |-> [v \in {} |-> v]]
Spin(min, max, value) ==
    [control |-> "spin", lo |-> min, hi |-> max, default |-> value]
(* Empty, a path, and a path of a member of the position.                  *)
Key == [control |-> "key", lo |-> 0, hi |-> 2, default |-> 0]
Text == [control |-> "text", lo |-> 0, hi |-> 1, default |-> 0]
Colour == [control |-> "colour", lo |-> 0, hi |-> 1, default |-> 0]

(* The fourth format is called "9", and the tenth is number 9.             *)
ValueFormats == [Choice(18) EXCEPT !.named = [v \in {9} |-> 3]]
Transformations == Choice(23)
FontSize(size) == Spin(5, 40, size)
LaylinesShown == [Choice(2) EXCEPT !.default = 1]

NumberTable ==
    [sk_key |-> Key, format |-> ValueFormats, value_suffix |-> Text,
     transformation |-> Transformations, smoothing |-> Spin(0, 9, 0),
     title_font |-> FontSize(15), body_font |-> FontSize(30),
     suffix_font |-> FontSize(30), colours |-> Colour]
GaugeTable ==
    [sk_key |-> Key, gauge_type |-> Choice(5), format |-> ValueFormats,
     value_suffix |-> Text, transformation |-> Transformations,
     smoothing |-> Spin(0, 9, 0), instrument_size |-> Spin(50, 500, 200),
     colours |-> Colour]
(* The settings of its base class and those of the value in the middle.    *)
CombinedTable ==
    [sk_key |-> Key, gauge_type |-> Choice(5), format |-> ValueFormats,
     value_suffix |-> Text, transformation |-> Transformations,
     smoothing |-> Spin(0, 9, 0), instrument_size |-> Spin(50, 500, 200),
     center_sk_key |-> Key, center_transformation |-> Transformations,
     colours |-> Colour]
TextTable ==
    [sk_key |-> Key, title_font |-> FontSize(10), body_font |-> FontSize(15),
     colours |-> Colour]
PositionTable ==
    [sk_key |-> Key, title_font |-> FontSize(10), body_font |-> FontSize(15),
     format |-> Choice(7), colours |-> Colour]
HistogramTable ==
    [sk_key |-> Key, format |-> ValueFormats,
     transformation |-> Transformations, instrument_order |-> Choice(2),
     history_length |-> Choice(7), instrument_width |-> Spin(50, 500, 200),
     instrument_height |-> Spin(50, 500, 100), colours |-> Colour]
WindTable ==
    [keys |-> Key, show_laylines |-> LaylinesShown,
     layline_ref |-> Choice(2), beat_angle |-> Spin(20, 90, 45),
     gybe_angle |-> Spin(90, 180, 150), orientation |-> Choice(2),
     instrument_size |-> Spin(50, 500, 200),
     ring_opacity |-> Spin(0, 255, 128), colours |-> Colour]
DividerTable ==
    [orientation |-> Choice(3), length |-> Spin(10, 1000, 100),
     line_width |-> Spin(1, 50, 2), line_style |-> Choice(4),
     colours |-> Colour]
SpacerTable ==
    [instrument_width |-> Spin(1, 500, 20),
     instrument_height |-> Spin(1, 500, 20)]

Tables ==
    [number |-> NumberTable, gauge |-> GaugeTable, combined |-> CombinedTable,
     text |-> TextTable, position |-> PositionTable,
     histogram |-> HistogramTable, wind |-> WindTable,
     divider |-> DividerTable, spacer |-> SpacerTable]

ASSUME SettingsAssumption == Classes \subseteq DOMAIN Tables /\ MaxEdits \in Nat

Names(c) == DOMAIN Tables[c]
Control(c, s) == Tables[c][s].control
(* Those kept as an integer in the configuration.                          *)
IsInteger(c, s) == Control(c, s) \in {"choice", "spin"}

-----------------------------------------------------------------------------
(* SetSetting.  Setting the text of a key on the list of its class calls   *)
(* the overload for integers, which sets the member.                       *)

NumberConverted ==
    {"format", "transformation", "smoothing", "title_font", "body_font",
     "suffix_font"}
GaugeConverted ==
    {"format", "transformation", "smoothing", "instrument_size", "gauge_type"}
CombinedConverted == GaugeConverted \cup {"center_transformation"}
TextConverted == {"title_font", "body_font"}
PositionConverted == TextConverted \cup {"format"}
(* A mutant: the list is one setting behind the macro.                     *)
HistogramConvertedButHeight ==
    {"format", "transformation", "instrument_order", "history_length",
     "instrument_width"}
HistogramConverted ==
    {"format", "transformation", "instrument_order", "history_length",
     "instrument_width", "instrument_height"}
WindConverted ==
    {"orientation", "instrument_size", "show_laylines", "beat_angle",
     "gybe_angle", "ring_opacity", "layline_ref"}
DividerConverted == {"orientation", "length", "line_width", "line_style"}
SpacerConverted == {"instrument_width", "instrument_height"}

Converted ==
    [number |-> NumberConverted, gauge |-> GaugeConverted,
     combined |-> CombinedConverted, text |-> TextConverted,
     position |-> PositionConverted, histogram |-> HistogramConverted,
     wind |-> WindConverted, divider |-> DividerConverted,
     spacer |-> SpacerConverted]

(* What a class makes of the text of a key: the position instrument drops  *)
(* the last part of a path that names a member of the position.            *)
KeyMeant(c, v) == IF c = "position" /\ v = 2 THEN 1 ELSE v

(* Settings of integers the drawing code reads from the text.              *)
Unconverted == {"ring_opacity", "layline_ref"}

SetInteger(v) == [text |-> v, drawn |-> v]

SetText(c, s, old, v) ==
    IF s \in Converted[c] THEN SetInteger(v)
    ELSE [text |-> v,
          drawn |-> CASE Control(c, s) = "key" -> KeyMeant(c, v)
                      [] IsInteger(c, s) /\ s \notin Unconverted -> old.drawn
                      [] OTHER -> v]

(* A new instrument takes the defaults.                                    *)
New(c) ==
    [s \in Names(c) |->
        LET v == Tables[c][s].default IN
        IF IsInteger(c, s) THEN SetInteger(v)
        ELSE SetText(c, s, SetInteger(v), v)]

(* GenerateJSONConfig and ReadConfig.  Reading always starts from a new    *)
(* instrument.                                                             *)
Written(i) == [s \in DOMAIN i |-> i[s].text]
Loaded(c, config) ==
    [s \in Names(c) |->
        IF IsInteger(c, s) THEN SetInteger(config[s])
        ELSE SetText(c, s, New(c)[s], config[s])]

-----------------------------------------------------------------------------
(* The form.                                                               *)

(* What a control can show of a value: a spin control moves it between the *)
(* limits; a choice selects the entry the text is the label of, or else    *)
(* the one with its number, and beyond the last one nothing.               *)
Clamped(t, v) == IF v < t.lo THEN t.lo ELSE IF v > t.hi THEN t.hi ELSE v
Shown(t, v) ==
    CASE t.control = "spin" -> Clamped(t, v)
      [] t.control = "choice" /\ v \in DOMAIN t.named -> t.named[v]
      [] t.control = "choice" /\ v \notin DOMAIN t.named ->
            IF v \in t.lo .. t.hi THEN v ELSE -1
      [] OTHER -> v
CanShow(c, s, v) == Shown(Tables[c][s], v) = v

FillInstrumentDetails(c, i) ==
    [s \in Names(c) |-> Shown(Tables[c][s], i[s].text)]

(* A mutant: the class of the key control is not known by its own name,    *)
(* and what is read of it is empty.                                        *)
UpdateFromKnownControls(c, i, f) ==
    [s \in Names(c) |->
        SetText(c, s, i[s], IF Control(c, s) = "key" THEN 0 ELSE f[s])]
UpdateEditedInstrument(c, i, f) ==
    [s \in Names(c) |-> SetText(c, s, i[s], f[s])]

Nothing == << >>

-----------------------------------------------------------------------------

SettingsInit ==
    /\ class \in Classes
    /\ inst = New(class)
    /\ form = Nothing /\ entered = {} /\ orig = Nothing
    /\ file = Written(inst)
    /\ edits = 0

IsOpen == orig # Nothing

(* The dialog opens with the instrument selected.                          *)
OpenPreferences ==
    /\ ~IsOpen
    /\ orig' = Written(inst)
    /\ form' = FillInstrumentDetails(class, inst)
    /\ UNCHANGED <<class, inst, entered, file, edits>>

(* The user works a control.                                               *)
Enter(s, v) ==
    /\ form # Nothing /\ edits < MaxEdits
    /\ v # form[s]
    /\ form' = [form EXCEPT ![s] = v]
    /\ entered' = entered \cup {s}
    /\ edits' = edits + 1
    /\ UNCHANGED <<class, inst, orig, file>>

Committed ==
    IF form = Nothing THEN inst ELSE UpdateEditedInstrument(class, inst, form)

(* The user selects an entry of the list.  What was shown is written back  *)
(* and the form filled again.                                              *)
SelectInList ==
    /\ IsOpen
    /\ inst' = Committed
    /\ form' = FillInstrumentDetails(class, inst')
    /\ entered' = {}
    /\ UNCHANGED <<class, orig, file, edits>>

Close == form' = Nothing /\ entered' = {} /\ orig' = Nothing

AcceptPreferences ==
    /\ IsOpen
    /\ inst' = Committed
    /\ file' = Written(inst')
    /\ Close
    /\ UNCHANGED <<class, edits>>

CancelPreferences ==
    /\ IsOpen
    /\ inst' = Loaded(class, orig)
    /\ Close
    /\ UNCHANGED <<class, file, edits>>

(* The JSON editor takes any integer for an integer; it reads the result,  *)
(* and no instrument is selected afterwards.                               *)
AcceptEditor(s, v) ==
    /\ IsOpen /\ edits < MaxEdits
    /\ inst' = Loaded(class, [Written(inst) EXCEPT ![s] = v])
    /\ form' = Nothing /\ entered' = {}
    /\ edits' = edits + 1
    /\ UNCHANGED <<class, orig, file>>

(* OpenCPN ends, without what was not saved, and starts again.             *)
Restart ==
    /\ inst' = Loaded(class, file)
    /\ Close
    /\ UNCHANGED <<class, file, edits>>

(* The limits of a control, the values a choice mistakes for another, and  *)
(* for the editor a value beyond them.                                     *)
Limits(s) ==
    LET t == Tables[class][s]
    IN  {t.lo, t.hi} \cup (IF t.control = "choice" THEN DOMAIN t.named ELSE {})
Beyond(s) == IF IsInteger(class, s) THEN {Tables[class][s].hi + 1} ELSE {}

SettingsNext ==
    \/ OpenPreferences
    \/ \E s \in Names(class) : \E v \in Limits(s) : Enter(s, v)
    \/ SelectInList
    \/ AcceptPreferences
    \/ CancelPreferences
    \/ \E s \in Names(class) :
          \E v \in Limits(s) \cup Beyond(s) : AcceptEditor(s, v)
    \/ Restart

SettingsSpec == SettingsInit /\ [][SettingsNext]_settingVars

-----------------------------------------------------------------------------

SettingsTypeOK ==
    /\ class \in Classes
    /\ DOMAIN inst = Names(class)
    /\ form # Nothing => DOMAIN form = Names(class)
    /\ entered \subseteq Names(class)
    /\ orig # Nothing => DOMAIN orig = Names(class)
    /\ DOMAIN file = Names(class)
    /\ edits \in 0 .. MaxEdits

(* Writing the configuration and reading it gives the same instrument,     *)
(* whatever was entered, edited and loaded before: what is drawn never     *)
(* depends on how a setting got its value.  The lists in SetSetting would  *)
(* break it for a setting that is on the macro's list and not on theirs.   *)
ReloadsSame == Loaded(class, Written(inst)) = inst

(* When the form is written back, each setting the user changed is drawn   *)
(* as entered, and no other changes unless its control could not show it:  *)
(* a number beyond the limits, and the format of number 9, which is shown  *)
(* as the one called "9" and becomes that.                                 *)
(* UpdateEditedInstrument writes every control, entered or not.            *)
OnlyEnteredChanges ==
    [][SelectInList \/ AcceptPreferences =>
        \A s \in Names(class) :
            IF s \in entered
            THEN inst'[s] = [text |-> form[s],
                             drawn |-> IF Control(class, s) = "key"
                                       THEN KeyMeant(class, form[s]) ELSE form[s]]
            ELSE CanShow(class, s, inst[s].text) => inst'[s] = inst[s]]_settingVars
=============================================================================
