------------------------------ MODULE SvgSkin ------------------------------
(***************************************************************************)
(* The settings of an SVG instrument.  Its skin decides which of them are  *)
(* offered, and suggests keys, zones and a scale where none are set; the   *)
(* settings are written one by one, first the skin, by the preferences     *)
(* dialog and when a configuration is loaded, and each write may complete  *)
(* others.  Skins are files: bundled, imported by the user, replaced or    *)
(* removed.                                                                *)
(***************************************************************************)
EXTENDS Naturals

CONSTANTS
    Slots,        \* v0 to v3
    Paths,        \* Signal K keys
    NoPath,       \* the empty one
    ZoneTexts,    \* values of the zones setting
    NoZones,      \* the empty one
    Numbers,      \* limits of scales
    NoScale,      \* of a skin that has none
    Names,        \* names of skins
    DefaultName,  \* the skin a new instrument has
    Bundled,      \* the design of each bundled skin
    Imports,      \* pairs of a name and a design the user may import
    Missing,      \* there is no file of that name
    Broken        \* or it is not a skin

(* A design: the key and zones it suggests, its scale, the slots and       *)
(* whether there is an element zones have an effect on.  A scale without   *)
(* any range is no scale.                                                  *)
Designs ==
    [path : [Slots -> Paths \cup {NoPath}], zones : ZoneTexts \cup {NoZones},
     scale : {range \in Numbers \X Numbers : range[1] < range[2]} \cup {NoScale},
     used : SUBSET Slots, coloured : BOOLEAN]

ASSUME SkinAssumption ==
    /\ NoPath \notin Paths /\ NoZones \notin ZoneTexts
    /\ 0 \in Numbers /\ Numbers \subseteq Nat
    /\ DefaultName \in Names
    /\ Bundled \in [Names -> Designs \cup {Missing}]
    /\ Imports \subseteq Names \X Designs

(* What an instrument without a usable skin has.                           *)
NoDesign ==
    [path |-> [slot \in Slots |-> NoPath], zones |-> NoZones, scale |-> NoScale,
     used |-> Slots, coloured |-> TRUE]

(* An instrument: the settings, and the design loaded for the file.        *)
Settings ==
    [file : Names, key : [Slots -> Paths \cup {NoPath}], min : Numbers,
     max : Numbers, zones : ZoneTexts \cup {NoZones}]

VARIABLES
    settings,  \* m_config_vals, m_keys, m_zones
    design,    \* m_doc, m_scale_slot, m_scale_default
    user,      \* the files in the user's directory
    entered    \* the keys the user typed and did not clear again

vars == <<settings, design, user, entered>>

TypeOK ==
    /\ settings \in Settings
    /\ design \in Designs
    /\ user \in [Names -> Designs \cup {Missing, Broken}]
    /\ entered \in [Slots -> Paths \cup {NoPath}]

-----------------------------------------------------------------------------
(* Single settings.                                                        *)

(* ResolveSkin, ParseSkin: imported skins win over bundled ones.           *)
LoadSvg(name) ==
    LET file == IF user[name] # Missing THEN user[name] ELSE Bundled[name]
    IN  IF file \in {Missing, Broken} THEN NoDesign ELSE file

(* Minimum and maximum are unset if they are equal.                        *)
ApplyScaleDefault(set, skin) ==
    IF skin.scale # NoScale /\ set.min = set.max
    THEN [set EXCEPT !.min = skin.scale[1], !.max = skin.scale[2]]
    ELSE set

(* Mutant: a skin's suggestion wins over what there is.                    *)
SuggestionWins(path, skin, slot) ==
    IF skin.path[slot] # NoPath THEN skin.path[slot] ELSE path
(* An empty slot takes the path the skin suggests, if any.                 *)
OrDefaultPath(path, skin, slot) ==
    IF path = NoPath THEN skin.path[slot] ELSE path

OrDefaultZones(text, skin) == IF text = NoZones THEN skin.zones ELSE text

SetMin(set, skin, number) ==
    ApplyScaleDefault([set EXCEPT !.min = number], skin)
SetMax(set, skin, number) ==
    ApplyScaleDefault([set EXCEPT !.max = number], skin)

(* Mutant: a new skin leaves the empty settings as they are.               *)
SetFileOnly(set, name) == [set EXCEPT !.file = name]
(* A new skin completes what is empty.                                     *)
SetFile(set, name) ==
    LET skin == LoadSvg(name)
        scaled == ApplyScaleDefault([set EXCEPT !.file = name], skin)
    IN  [scaled EXCEPT
            !.zones = OrDefaultZones(@, skin),
            !.key = [slot \in Slots |->
                        OrDefaultPath(set.key[slot], skin, slot)]]

-----------------------------------------------------------------------------
(* All settings at once, in the order they are listed in.                  *)

(* The controls a skin offers.                                             *)
Offered(skin) ==
    [slots |-> skin.used, scale |-> skin.scale # NoScale,
     zones |-> skin.coloured]
Everything == [slots |-> Slots, scale |-> TRUE, zones |-> TRUE]

WriteKeys(set, skin, form, offered) ==
    [set EXCEPT !.key = [slot \in Slots |->
        IF slot \in offered.slots THEN OrDefaultPath(form.key[slot], skin, slot)
        ELSE set.key[slot]]]
WriteScale(set, skin, form, offered) ==
    IF offered.scale
    THEN SetMax(SetMin(set, skin, form.min), skin, form.max)
    ELSE set
WriteZones(set, skin, form, offered) ==
    IF offered.zones
    THEN [set EXCEPT !.zones = OrDefaultZones(form.zones, skin)]
    ELSE set

(* Mutant: the skin is written after the settings it completes.            *)
WrittenBeforeFile(set, skin, form, offered) ==
    LET keyed == WriteKeys(set, skin, form, offered)
        scaled == WriteScale(keyed, skin, form, offered)
    IN  SetFile(WriteZones(scaled, skin, form, offered), form.file)
Written(set, skin, form, offered) ==
    LET filed == SetFile(set, form.file)
        new == LoadSvg(form.file)
        keyed == WriteKeys(filed, new, form, offered)
        scaled == WriteScale(keyed, new, form, offered)
    IN  WriteZones(scaled, new, form, offered)

Empty ==
    [file |-> DefaultName, key |-> [slot \in Slots |-> NoPath], min |-> 0,
     max |-> 0, zones |-> NoZones]

(* SvgInstrument::Init writes the defaults.                                *)
NewInstrument == Written(Empty, NoDesign, Empty, Everything)

(* Instrument::ReadConfig reads the zones before the skin is known.        *)
ReadConfig(config) ==
    Written([NewInstrument EXCEPT !.zones = config.zones],
            LoadSvg(DefaultName), config, Everything)

-----------------------------------------------------------------------------
(* The user and the files.                                                 *)

Init ==
    /\ user = [name \in Names |-> Missing]
    /\ settings = NewInstrument
    /\ design = LoadSvg(DefaultName)
    /\ entered = [slot \in Slots |-> NoPath]

(* What the user typed into the form.                                      *)
Typed(form) ==
    entered' = [slot \in Slots |->
                    IF slot \in Offered(design).slots
                        /\ form.key[slot] # settings.key[slot]
                    THEN form.key[slot] ELSE entered[slot]]

(* UpdateEditedInstrument: the form was made for the loaded design, but    *)
(* the first of its controls may load another one.                         *)
UpdateEditedInstrument(form) ==
    /\ user[form.file] # Missing \/ Bundled[form.file] # Missing
        \/ form.file = settings.file
    /\ settings' = Written(settings, design, form, Offered(design))
    /\ design' = LoadSvg(form.file)
    /\ Typed(form)
    /\ UNCHANGED user

(* OnImport copies the file and chooses it; the form is written then.      *)
OnImport(name, skin) ==
    /\ user' = [user EXCEPT ![name] = skin]
    /\ UNCHANGED <<settings, design, entered>>

(* Files come and go outside the program.                                  *)
ChangeFile(name, file) ==
    /\ user[name] # Missing
    /\ user' = [user EXCEPT ![name] = file]
    /\ UNCHANGED <<settings, design, entered>>

(* The configuration is written and read again.                            *)
Reload ==
    /\ settings' = ReadConfig(settings)
    /\ design' = LoadSvg(settings.file)
    /\ UNCHANGED <<user, entered>>

Next ==
    \/ \E form \in Settings : UpdateEditedInstrument(form)
    \/ \E import \in Imports : OnImport(import[1], import[2])
    \/ \E name \in Names, file \in {Missing, Broken} : ChangeFile(name, file)
    \/ Reload

Spec == Init /\ [][Next]_vars

-----------------------------------------------------------------------------
(* Properties.                                                             *)

(* "Slots without a path get the skin's suggested paths, while paths       *)
(* entered for the previous skin stay": however skins are changed, broken  *)
(* and loaded again, also in slots the skin does not offer.                *)
EnteredStays ==
    \A slot \in Slots :
        entered[slot] # NoPath => settings.key[slot] = entered[slot]

(* Nothing the loaded skin suggests is left empty, whichever setting was   *)
(* cleared and in which order they were written.                           *)
SuggestionsTaken ==
    /\ \A slot \in Slots : settings.key[slot] = NoPath => design.path[slot] = NoPath
    /\ settings.zones = NoZones => design.zones = NoZones
    /\ design.scale # NoScale => settings.min # settings.max

(* A configuration is read back as it was written, unless the file of the  *)
(* skin changed, or the minimum is the maximum a new instrument has with   *)
(* it, most often the skin's own: the minimum is written first, and then   *)
(* they are equal for a moment.                                            *)
RoundTrip ==
    LoadSvg(settings.file) = design =>
        LET read == ReadConfig(settings)
        IN  /\ read.file = settings.file
            /\ read.key = settings.key
            /\ read.zones = settings.zones
            /\ (design.scale = NoScale
                \/ settings.min # SetFile(NewInstrument, settings.file).max) =>
                read.min = settings.min /\ read.max = settings.max

(* The same happens to what a user enters, for the previous maximum as     *)
(* well: of a scale of 0 to 1 that is to be 1 to 2, a scale of 0 to 2      *)
(* remains.  The code refutes this.                                        *)
ScaleTaken ==
    [][\A form \in Settings :
        /\ UpdateEditedInstrument(form)
        /\ form.file = settings.file
        /\ design' = design /\ design.scale # NoScale
        /\ form.min # form.max
        => settings'.min = form.min /\ settings'.max = form.max]_vars
=============================================================================
