---------------------------- MODULE SvgSkinProofs ----------------------------
(***************************************************************************)
(* Theorems about SvgSkin, for every set of slots, of paths, of zones and  *)
(* of skins, bundled or imported, whatever they suggest; and about         *)
(* FormControls, for every tree and every text of zones.                   *)
(***************************************************************************)
EXTENDS SvgSkin, FormControls, SequenceTheorems, WellFoundedInduction, TLAPS

(* Nothing a skin suggests is left empty in the settings.                  *)
Completed(set, skin) ==
    /\ \A slot \in Slots : set.key[slot] = NoPath => skin.path[slot] = NoPath
    /\ set.zones = NoZones => skin.zones = NoZones
    /\ skin.scale # NoScale => set.min # set.max

(* The properties are inductive together.                                  *)
IInv ==
    /\ TypeOK
    /\ EnteredStays
    /\ SuggestionsTaken

Files == [Names -> Designs \cup {Missing, Broken}]
Offers == [slots : SUBSET Slots, scale : BOOLEAN, zones : BOOLEAN]

-----------------------------------------------------------------------------
(* Lemmas about the operators.                                             *)

LEMMA LoadSvgType ==
    ASSUME user \in Files, NEW name \in Names
    PROVE  LoadSvg(name) \in Designs
<1>1. NoDesign \in Designs
  BY DEF NoDesign, Designs
<1>2. /\ user[name] \in Designs \cup {Missing, Broken}
      /\ Bundled[name] \in Designs \cup {Missing}
  BY SkinAssumption DEF Files
<1> QED
  BY <1>1, <1>2 DEF LoadSvg

(* A skin with a scale never leaves equal limits.                          *)
LEMMA ScaleDefaultType ==
    ASSUME NEW set \in Settings, NEW skin \in Designs
    PROVE  /\ ApplyScaleDefault(set, skin) \in Settings
           /\ ApplyScaleDefault(set, skin).file = set.file
           /\ ApplyScaleDefault(set, skin).key = set.key
           /\ ApplyScaleDefault(set, skin).zones = set.zones
           /\ skin.scale # NoScale =>
                 ApplyScaleDefault(set, skin).min
                    # ApplyScaleDefault(set, skin).max
           /\ skin.scale = NoScale \/ set.min # set.max =>
                 ApplyScaleDefault(set, skin) = set
<1>1. CASE skin.scale # NoScale /\ set.min = set.max
  <2>1. /\ skin.scale[1] \in Numbers /\ skin.scale[2] \in Numbers
        /\ skin.scale[1] < skin.scale[2]
    BY <1>1 DEF Designs
  <2>2. skin.scale[1] # skin.scale[2]
    <3>1. \A low, high \in Nat : low < high => low # high
      OBVIOUS
    <3>2. skin.scale[1] \in Nat /\ skin.scale[2] \in Nat
      BY <2>1, SkinAssumption
    <3> QED
      BY <2>1, <3>1, <3>2
  <2>3. ApplyScaleDefault(set, skin) =
            [set EXCEPT !.min = skin.scale[1], !.max = skin.scale[2]]
    BY <1>1 DEF ApplyScaleDefault
  <2> QED
    BY <1>1, <2>1, <2>2, <2>3 DEF Settings
<1>2. CASE ~(skin.scale # NoScale /\ set.min = set.max)
  BY <1>2 DEF ApplyScaleDefault
<1> QED
  BY <1>1, <1>2

LEMMA OrDefaultPathType ==
    ASSUME NEW path \in Paths \cup {NoPath}, NEW skin \in Designs,
           NEW slot \in Slots
    PROVE  /\ OrDefaultPath(path, skin, slot) \in Paths \cup {NoPath}
           /\ path # NoPath => OrDefaultPath(path, skin, slot) = path
           /\ OrDefaultPath(path, skin, slot) = NoPath =>
                 skin.path[slot] = NoPath
BY DEF OrDefaultPath, Designs

LEMMA OrDefaultZonesType ==
    ASSUME NEW text \in ZoneTexts \cup {NoZones}, NEW skin \in Designs
    PROVE  /\ OrDefaultZones(text, skin) \in ZoneTexts \cup {NoZones}
           /\ text # NoZones => OrDefaultZones(text, skin) = text
           /\ OrDefaultZones(text, skin) = NoZones => skin.zones = NoZones
BY DEF OrDefaultZones, Designs

(* The file completes everything, and changes nothing that was set.        *)
LEMMA SetFileType ==
    ASSUME user \in Files, NEW set \in Settings, NEW name \in Names
    PROVE  /\ SetFile(set, name) \in Settings
           /\ SetFile(set, name).file = name
           /\ \A slot \in Slots :
                 SetFile(set, name).key[slot] =
                    OrDefaultPath(set.key[slot], LoadSvg(name), slot)
           /\ Completed(SetFile(set, name), LoadSvg(name))
<1> DEFINE skin == LoadSvg(name)
           filed == [set EXCEPT !.file = name]
           scaled == ApplyScaleDefault(filed, skin)
           keys == [slot \in Slots |->
                        OrDefaultPath(set.key[slot], skin, slot)]
<1>1. skin \in Designs
  BY LoadSvgType
<1>2. filed \in Settings /\ filed.file = name
  BY DEF Settings
<1> HIDE DEF filed, skin
<1>3. /\ scaled \in Settings /\ scaled.file = name
      /\ skin.scale # NoScale => scaled.min # scaled.max
  BY <1>1, <1>2, ScaleDefaultType
<1> HIDE DEF scaled
<1>4. \A slot \in Slots : set.key[slot] \in Paths \cup {NoPath}
  BY DEF Settings
<1>5. keys \in [Slots -> Paths \cup {NoPath}]
  BY <1>1, <1>4, OrDefaultPathType
<1>6. scaled.zones \in ZoneTexts \cup {NoZones}
  BY <1>3 DEF Settings
<1>7. /\ OrDefaultZones(scaled.zones, skin) \in ZoneTexts \cup {NoZones}
      /\ OrDefaultZones(scaled.zones, skin) = NoZones => skin.zones = NoZones
  BY <1>1, <1>6, OrDefaultZonesType
<1>8. \A slot \in Slots : keys[slot] = NoPath => skin.path[slot] = NoPath
  BY <1>1, <1>4, OrDefaultPathType
<1>9. SetFile(set, name) =
        [scaled EXCEPT !.zones = OrDefaultZones(scaled.zones, skin),
                       !.key = keys]
  BY DEF SetFile, filed, scaled, skin
<1>10. SetFile(set, name) =
        [file |-> name, key |-> keys, min |-> scaled.min, max |-> scaled.max,
         zones |-> OrDefaultZones(scaled.zones, skin)]
  BY <1>3, <1>9 DEF Settings
<1> HIDE DEF keys
<1>11. scaled.min \in Numbers /\ scaled.max \in Numbers
  BY <1>3 DEF Settings
<1>12. SetFile(set, name) \in Settings /\ SetFile(set, name).file = name
  BY <1>5, <1>7, <1>10, <1>11 DEF Settings
<1>13. Completed(SetFile(set, name), skin)
  BY <1>3, <1>7, <1>8, <1>10 DEF Completed
<1>14. \A slot \in Slots : keys[slot] = OrDefaultPath(set.key[slot], skin, slot)
  BY DEF keys
<1> QED
  BY <1>10, <1>12, <1>13, <1>14 DEF skin

LEMMA WriteKeysType ==
    ASSUME NEW set \in Settings, NEW skin \in Designs, NEW form \in Settings,
           NEW offered \in Offers, Completed(set, skin)
    PROVE  /\ WriteKeys(set, skin, form, offered) \in Settings
           /\ Completed(WriteKeys(set, skin, form, offered), skin)
           /\ \A slot \in Slots :
                 WriteKeys(set, skin, form, offered).key[slot] =
                    IF slot \in offered.slots
                    THEN OrDefaultPath(form.key[slot], skin, slot)
                    ELSE set.key[slot]
           /\ WriteKeys(set, skin, form, offered).file = set.file
           /\ WriteKeys(set, skin, form, offered).max = set.max
<1> DEFINE keys == [slot \in Slots |->
                        IF slot \in offered.slots
                        THEN OrDefaultPath(form.key[slot], skin, slot)
                        ELSE set.key[slot]]
<1>1. \A slot \in Slots : /\ form.key[slot] \in Paths \cup {NoPath}
                          /\ set.key[slot] \in Paths \cup {NoPath}
  BY DEF Settings
<1>2. keys \in [Slots -> Paths \cup {NoPath}]
  BY <1>1, OrDefaultPathType
<1>3. \A slot \in Slots : keys[slot] = NoPath => skin.path[slot] = NoPath
  BY <1>1, OrDefaultPathType DEF Completed
<1>4. WriteKeys(set, skin, form, offered) = [set EXCEPT !.key = keys]
  BY DEF WriteKeys
<1>5. \A slot \in Slots :
        keys[slot] = IF slot \in offered.slots
                     THEN OrDefaultPath(form.key[slot], skin, slot)
                     ELSE set.key[slot]
  OBVIOUS
<1> HIDE DEF keys
<1>6. /\ WriteKeys(set, skin, form, offered) \in Settings
      /\ WriteKeys(set, skin, form, offered).key = keys
      /\ WriteKeys(set, skin, form, offered).file = set.file
      /\ WriteKeys(set, skin, form, offered).max = set.max
  BY <1>2, <1>4 DEF Settings
<1>7. Completed(WriteKeys(set, skin, form, offered), skin)
  BY <1>3, <1>4, <1>6 DEF Completed, Settings
<1> QED
  BY <1>4, <1>5, <1>6, <1>7

LEMMA WriteScaleType ==
    ASSUME NEW set \in Settings, NEW skin \in Designs, NEW form \in Settings,
           NEW offered \in Offers, Completed(set, skin)
    PROVE  /\ WriteScale(set, skin, form, offered) \in Settings
           /\ Completed(WriteScale(set, skin, form, offered), skin)
           /\ WriteScale(set, skin, form, offered).file = set.file
           /\ WriteScale(set, skin, form, offered).key = set.key
           /\ WriteScale(set, skin, form, offered).zones = set.zones
           /\ /\ offered.scale
              /\ \/ skin.scale = NoScale
                 \/ form.min # form.max /\ form.min # set.max
              => /\ WriteScale(set, skin, form, offered).min = form.min
                 /\ WriteScale(set, skin, form, offered).max = form.max
<1> DEFINE low == [set EXCEPT !.min = form.min]
           lower == ApplyScaleDefault(low, skin)
           high == [lower EXCEPT !.max = form.max]
           higher == ApplyScaleDefault(high, skin)
<1>1. CASE ~offered.scale
  BY <1>1 DEF WriteScale
<1>2. CASE offered.scale
  <2>1. WriteScale(set, skin, form, offered) = higher
    BY <1>2 DEF WriteScale, SetMin, SetMax
  <2>2. /\ low \in Settings /\ low.min = form.min /\ low.max = set.max
        /\ low.file = set.file /\ low.key = set.key /\ low.zones = set.zones
    BY DEF Settings
  <2> HIDE DEF low
  <2>3. /\ lower \in Settings
        /\ lower.file = set.file /\ lower.key = set.key
        /\ lower.zones = set.zones
        /\ skin.scale = NoScale \/ form.min # set.max => lower = low
    BY <2>2, ScaleDefaultType
  <2> HIDE DEF lower
  <2>4. /\ high \in Settings /\ high.min = lower.min /\ high.max = form.max
        /\ high.file = set.file /\ high.key = set.key
        /\ high.zones = set.zones
    BY <2>3 DEF Settings
  <2> HIDE DEF high
  <2>5. /\ higher \in Settings
        /\ higher.file = set.file /\ higher.key = set.key
        /\ higher.zones = set.zones
        /\ skin.scale # NoScale => higher.min # higher.max
        /\ skin.scale = NoScale \/ high.min # high.max => higher = high
    BY <2>4, ScaleDefaultType
  <2> HIDE DEF higher
  <2>6. Completed(higher, skin)
    BY <2>5 DEF Completed
  <2>7. ASSUME \/ skin.scale = NoScale
               \/ form.min # form.max /\ form.min # set.max
        PROVE  higher.min = form.min /\ higher.max = form.max
    BY <2>2, <2>3, <2>4, <2>5, <2>7
  <2> QED
    BY <1>2, <2>1, <2>5, <2>6, <2>7
<1> QED
  BY <1>1, <1>2

LEMMA WriteZonesType ==
    ASSUME NEW set \in Settings, NEW skin \in Designs, NEW form \in Settings,
           NEW offered \in Offers, Completed(set, skin)
    PROVE  /\ WriteZones(set, skin, form, offered) \in Settings
           /\ Completed(WriteZones(set, skin, form, offered), skin)
           /\ WriteZones(set, skin, form, offered).file = set.file
           /\ WriteZones(set, skin, form, offered).key = set.key
           /\ WriteZones(set, skin, form, offered).min = set.min
           /\ WriteZones(set, skin, form, offered).max = set.max
           /\ offered.zones =>
                 WriteZones(set, skin, form, offered).zones =
                    OrDefaultZones(form.zones, skin)
<1>1. form.zones \in ZoneTexts \cup {NoZones}
  BY DEF Settings
<1>2. CASE offered.zones
  <2>1. WriteZones(set, skin, form, offered) =
            [set EXCEPT !.zones = OrDefaultZones(form.zones, skin)]
    BY <1>2 DEF WriteZones
  <2>2. /\ OrDefaultZones(form.zones, skin) \in ZoneTexts \cup {NoZones}
        /\ OrDefaultZones(form.zones, skin) = NoZones => skin.zones = NoZones
    BY <1>1, OrDefaultZonesType
  <2> QED
    BY <2>1, <2>2 DEF Settings, Completed
<1>3. CASE ~offered.zones
  BY <1>3 DEF WriteZones
<1> QED
  BY <1>2, <1>3

(* All settings are written: the keys that were offered come from the      *)
(* form, the others stay, and what remains empty is completed.             *)
LEMMA WrittenType ==
    ASSUME user \in Files, NEW set \in Settings, NEW skin,
           NEW form \in Settings, NEW offered \in Offers
    PROVE  /\ Written(set, skin, form, offered) \in Settings
           /\ Written(set, skin, form, offered).file = form.file
           /\ Completed(Written(set, skin, form, offered), LoadSvg(form.file))
           /\ \A slot \in Slots :
                 Written(set, skin, form, offered).key[slot] =
                    OrDefaultPath(IF slot \in offered.slots
                                  THEN form.key[slot] ELSE set.key[slot],
                                  LoadSvg(form.file), slot)
           /\ offered.zones =>
                 Written(set, skin, form, offered).zones =
                    OrDefaultZones(form.zones, LoadSvg(form.file))
           /\ /\ offered.scale
              /\ \/ LoadSvg(form.file).scale = NoScale
                 \/ /\ form.min # form.max
                    /\ form.min # SetFile(set, form.file).max
              => /\ Written(set, skin, form, offered).min = form.min
                 /\ Written(set, skin, form, offered).max = form.max
<1> DEFINE new == LoadSvg(form.file)
           filed == SetFile(set, form.file)
           keyed == WriteKeys(filed, new, form, offered)
           scaled == WriteScale(keyed, new, form, offered)
           zoned == WriteZones(scaled, new, form, offered)
<1>1. form.file \in Names
  BY DEF Settings
<1>2. new \in Designs
  BY <1>1, LoadSvgType
<1>3. /\ filed \in Settings /\ filed.file = form.file
      /\ Completed(filed, new)
      /\ \A slot \in Slots :
            filed.key[slot] = OrDefaultPath(set.key[slot], new, slot)
  BY <1>1, SetFileType
<1>4. Written(set, skin, form, offered) = zoned
  BY DEF Written
<1> HIDE DEF filed, new
<1>5. /\ keyed \in Settings
      /\ Completed(keyed, new)
      /\ \A slot \in Slots :
            keyed.key[slot] = IF slot \in offered.slots
                              THEN OrDefaultPath(form.key[slot], new, slot)
                              ELSE filed.key[slot]
      /\ keyed.file = form.file /\ keyed.max = filed.max
  BY <1>2, <1>3, WriteKeysType
<1> HIDE DEF keyed
<1>6. /\ scaled \in Settings
      /\ Completed(scaled, new)
      /\ scaled.file = keyed.file /\ scaled.key = keyed.key
  BY <1>2, <1>5, WriteScaleType
<1>7. ASSUME offered.scale,
             \/ new.scale = NoScale
             \/ form.min # form.max /\ form.min # keyed.max
      PROVE  scaled.min = form.min /\ scaled.max = form.max
  BY <1>2, <1>5, <1>7, WriteScaleType
<1> HIDE DEF scaled
<1>8. /\ zoned \in Settings
      /\ Completed(zoned, new)
      /\ zoned.file = scaled.file /\ zoned.key = scaled.key
      /\ zoned.min = scaled.min /\ zoned.max = scaled.max
      /\ offered.zones => zoned.zones = OrDefaultZones(form.zones, new)
  BY <1>2, <1>6, WriteZonesType
<1> HIDE DEF zoned
<1>9. \A slot \in Slots :
        zoned.key[slot] = OrDefaultPath(IF slot \in offered.slots
                                        THEN form.key[slot] ELSE set.key[slot],
                                        new, slot)
  BY <1>3, <1>5, <1>6, <1>8
<1>10. ASSUME offered.scale,
              \/ new.scale = NoScale
              \/ form.min # form.max /\ form.min # filed.max
       PROVE  zoned.min = form.min /\ zoned.max = form.max
  BY <1>5, <1>7, <1>8, <1>10
<1> QED
  BY <1>4, <1>5, <1>6, <1>8, <1>9, <1>10 DEF new, filed

LEMMA OffersType ==
    /\ Everything \in Offers
    /\ \A skin \in Designs : Offered(skin) \in Offers
BY DEF Everything, Offered, Offers, Designs

LEMMA NewInstrumentType ==
    ASSUME user \in Files
    PROVE  /\ NewInstrument \in Settings
           /\ Completed(NewInstrument, LoadSvg(DefaultName))
<1>1. Empty \in Settings /\ Empty.file = DefaultName
  BY SkinAssumption DEF Empty, Settings
<1> QED
  BY <1>1, OffersType, WrittenType DEF NewInstrument

-----------------------------------------------------------------------------
(* A configuration that lacks nothing its skin suggests is read as it is.  *)

LEMMA ReadConfigType ==
    ASSUME user \in Files, NEW config \in Settings
    PROVE  /\ ReadConfig(config) \in Settings
           /\ ReadConfig(config).file = config.file
           /\ Completed(ReadConfig(config), LoadSvg(config.file))
           /\ \A slot \in Slots :
                 ReadConfig(config).key[slot] =
                    OrDefaultPath(config.key[slot], LoadSvg(config.file), slot)
           /\ ReadConfig(config).zones =
                 OrDefaultZones(config.zones, LoadSvg(config.file))
           /\ \/ LoadSvg(config.file).scale = NoScale
              \/ /\ config.min # config.max
                 /\ config.min # SetFile(NewInstrument, config.file).max
              => /\ ReadConfig(config).min = config.min
                 /\ ReadConfig(config).max = config.max
<1> DEFINE base == [NewInstrument EXCEPT !.zones = config.zones]
           skin == LoadSvg(config.file)
<1>1. NewInstrument \in Settings
  BY NewInstrumentType
<1>2. base \in Settings /\ config.file \in Names
  BY <1>1 DEF Settings
<1>3. skin \in Designs
  BY <1>2, LoadSvgType
<1>4. SetFile(base, config.file).max = SetFile(NewInstrument, config.file).max
  BY <1>1, <1>3 DEF SetFile, ApplyScaleDefault, Settings
<1>5. ReadConfig(config) =
        Written(base, LoadSvg(DefaultName), config, Everything)
  BY DEF ReadConfig
<1>6. /\ Everything \in Offers /\ Everything.slots = Slots
      /\ Everything.scale = TRUE /\ Everything.zones = TRUE
  BY OffersType DEF Everything
<1> HIDE DEF base
<1>7. /\ ReadConfig(config) \in Settings
      /\ ReadConfig(config).file = config.file
      /\ Completed(ReadConfig(config), skin)
      /\ ReadConfig(config).zones = OrDefaultZones(config.zones, skin)
  BY <1>2, <1>5, <1>6, WrittenType
<1>8. \A slot \in Slots :
        ReadConfig(config).key[slot] =
            OrDefaultPath(config.key[slot], skin, slot)
  BY <1>2, <1>5, <1>6, WrittenType
<1>9. ASSUME \/ skin.scale = NoScale
             \/ /\ config.min # config.max
                /\ config.min # SetFile(NewInstrument, config.file).max
      PROVE  /\ ReadConfig(config).min = config.min
             /\ ReadConfig(config).max = config.max
  BY <1>2, <1>4, <1>5, <1>6, <1>9, WrittenType
<1> QED
  BY <1>7, <1>8, <1>9

-----------------------------------------------------------------------------
LEMMA InitInvariant == Init => IInv
<1> SUFFICES ASSUME Init PROVE IInv
  OBVIOUS
<1>1. user \in Files
  BY DEF Init, Files
<1>2. /\ settings \in Settings /\ Completed(settings, design)
      /\ design \in Designs
  BY <1>1, NewInstrumentType, LoadSvgType, SkinAssumption DEF Init
<1>3. /\ entered \in [Slots -> Paths \cup {NoPath}]
      /\ \A slot \in Slots : entered[slot] = NoPath
  BY DEF Init
<1> QED
  BY <1>1, <1>2, <1>3
     DEF IInv, TypeOK, Files, EnteredStays, SuggestionsTaken, Completed

LEMMA UpdateInvariant ==
    ASSUME IInv, NEW form \in Settings, UpdateEditedInstrument(form)
    PROVE  IInv'
<1>1. /\ user \in Files /\ settings \in Settings /\ design \in Designs
      /\ entered \in [Slots -> Paths \cup {NoPath}]
  BY DEF IInv, TypeOK, Files
<1>2. Offered(design) \in Offers
  BY <1>1, OffersType
<1>3. /\ settings' \in Settings
      /\ Completed(settings', design')
      /\ \A slot \in Slots :
            settings'.key[slot] =
                OrDefaultPath(IF slot \in Offered(design).slots
                              THEN form.key[slot] ELSE settings.key[slot],
                              design', slot)
  BY <1>1, <1>2, WrittenType DEF UpdateEditedInstrument
<1>4. design' \in Designs
  BY <1>1, LoadSvgType DEF UpdateEditedInstrument, Settings
<1>5. \A slot \in Slots : /\ form.key[slot] \in Paths \cup {NoPath}
                          /\ settings.key[slot] \in Paths \cup {NoPath}
                          /\ entered[slot] \in Paths \cup {NoPath}
  BY <1>1 DEF Settings
<1>6. \A slot \in Slots :
        entered'[slot] = IF slot \in Offered(design).slots
                             /\ form.key[slot] # settings.key[slot]
                         THEN form.key[slot] ELSE entered[slot]
  BY DEF UpdateEditedInstrument, Typed
<1>7. entered' \in [Slots -> Paths \cup {NoPath}]
  BY <1>5 DEF UpdateEditedInstrument, Typed
<1>8. ASSUME NEW slot \in Slots, entered'[slot] # NoPath
      PROVE  settings'.key[slot] = entered'[slot]
  <2>1. entered[slot] # NoPath => settings.key[slot] = entered[slot]
    BY DEF IInv, EnteredStays
  <2>2. (IF slot \in Offered(design).slots
         THEN form.key[slot] ELSE settings.key[slot]) = entered'[slot]
    BY <1>6, <1>8, <2>1
  <2> QED
    BY <1>3, <1>4, <1>5, <1>8, <2>2, OrDefaultPathType
<1>9. user' = user
  BY DEF UpdateEditedInstrument
<1>10. TypeOK'
  BY <1>1, <1>3, <1>4, <1>7, <1>9 DEF TypeOK, Files
<1>11. EnteredStays'
  BY <1>8 DEF EnteredStays
<1>12. SuggestionsTaken'
  BY <1>3 DEF SuggestionsTaken, Completed
<1> QED
  BY <1>10, <1>11, <1>12 DEF IInv

LEMMA ReloadInvariant ==
    ASSUME IInv, Reload
    PROVE  IInv'
<1>1. /\ user \in Files /\ settings \in Settings
      /\ entered \in [Slots -> Paths \cup {NoPath}]
  BY DEF IInv, TypeOK, Files
<1>2. /\ settings' \in Settings
      /\ Completed(settings', design')
      /\ \A slot \in Slots :
            settings'.key[slot] =
                OrDefaultPath(settings.key[slot], design', slot)
  BY <1>1, ReadConfigType DEF Reload
<1>3. design' \in Designs
  BY <1>1, LoadSvgType DEF Reload, Settings
<1>4. \A slot \in Slots : settings.key[slot] \in Paths \cup {NoPath}
  BY <1>1 DEF Settings
<1>5. user' = user /\ entered' = entered
  BY DEF Reload
<1>6. TypeOK'
  BY <1>1, <1>2, <1>3, <1>5 DEF TypeOK, Files
<1>7. EnteredStays'
  <2> SUFFICES ASSUME NEW slot \in Slots, entered[slot] # NoPath
               PROVE  settings'.key[slot] = entered[slot]
    BY <1>5 DEF EnteredStays
  <2>1. settings.key[slot] = entered[slot]
    BY DEF IInv, EnteredStays
  <2> QED
    BY <1>2, <1>3, <1>4, <2>1, OrDefaultPathType
<1>8. SuggestionsTaken'
  BY <1>2 DEF SuggestionsTaken, Completed
<1> QED
  BY <1>6, <1>7, <1>8 DEF IInv

(* Files change behind the back of the instrument, which keeps its design. *)
LEMMA FilesInvariant ==
    ASSUME IInv, user' \in Files, UNCHANGED <<settings, design, entered>>
    PROVE  IInv'
BY DEF IInv, TypeOK, Files, EnteredStays, SuggestionsTaken

LEMMA NextInvariant ==
    ASSUME IInv, [Next]_vars
    PROVE  IInv'
<1>1. user \in Files
  BY DEF IInv, TypeOK, Files
<1>2. ASSUME NEW form \in Settings, UpdateEditedInstrument(form)
      PROVE  IInv'
  BY <1>2, UpdateInvariant
<1>3. ASSUME NEW import \in Imports, OnImport(import[1], import[2])
      PROVE  IInv'
  <2>1. import[2] \in Designs
    BY SkinAssumption
  <2>2. user' \in Files
    BY <1>1, <1>3, <2>1 DEF OnImport, Files
  <2> QED
    BY <1>3, <2>2, FilesInvariant DEF OnImport
<1>4. ASSUME NEW name \in Names, NEW file \in {Missing, Broken},
             ChangeFile(name, file)
      PROVE  IInv'
  <2>1. user' \in Files
    BY <1>1, <1>4 DEF ChangeFile, Files
  <2> QED
    BY <1>4, <2>1, FilesInvariant DEF ChangeFile
<1>5. CASE Reload
  BY <1>5, ReloadInvariant
<1>6. CASE UNCHANGED vars
  BY <1>1, <1>6, FilesInvariant DEF vars
<1> QED
  BY <1>2, <1>3, <1>4, <1>5, <1>6 DEF Next

LEMMA Invariant == Spec => []IInv
<1>1. Init => IInv
  BY InitInvariant
<1>2. IInv /\ [Next]_vars => IInv'
  BY NextInvariant
<1> QED
  BY <1>1, <1>2, PTL DEF Spec

-----------------------------------------------------------------------------
(* The settings always have their types, whichever skin is loaded.         *)
THEOREM TypeCorrect == Spec => []TypeOK
<1>1. IInv => TypeOK
  BY DEF IInv
<1> QED
  BY <1>1, Invariant, PTL

(* A key the user entered stays, however skins are changed, broken and     *)
(* loaded again (SvgInstrument::SetSetting only fills empty slots).        *)
THEOREM EnteredKept == Spec => []EnteredStays
<1>1. IInv => EnteredStays
  BY DEF IInv
<1> QED
  BY <1>1, Invariant, PTL

(* Nothing the loaded skin suggests is left empty, in whichever order the  *)
(* settings were written, because each write completes the others.         *)
THEOREM Suggested == Spec => []SuggestionsTaken
<1>1. IInv => SuggestionsTaken
  BY DEF IInv
<1> QED
  BY <1>1, Invariant, PTL

(* A configuration is read back as it was written: what SuggestionsTaken   *)
(* says of the settings leaves nothing for the skin to complete.           *)
THEOREM ReadBack == Spec => []RoundTrip
<1>1. IInv => RoundTrip
  <2> SUFFICES ASSUME IInv, LoadSvg(settings.file) = design
               PROVE  /\ ReadConfig(settings).file = settings.file
                      /\ ReadConfig(settings).key = settings.key
                      /\ ReadConfig(settings).zones = settings.zones
                      /\ (design.scale = NoScale
                          \/ settings.min
                                # SetFile(NewInstrument, settings.file).max) =>
                            /\ ReadConfig(settings).min = settings.min
                            /\ ReadConfig(settings).max = settings.max
    BY DEF RoundTrip
  <2>1. user \in Files /\ settings \in Settings /\ design \in Designs
    BY DEF IInv, TypeOK, Files
  <2>2. Completed(settings, design)
    BY DEF IInv, SuggestionsTaken, Completed
  <2>3. ReadConfig(settings) \in Settings
    BY <2>1, ReadConfigType
  <2>4. ReadConfig(settings).key = settings.key
    <3>1. ASSUME NEW slot \in Slots
          PROVE  ReadConfig(settings).key[slot] = settings.key[slot]
      <4>1. ReadConfig(settings).key[slot] =
                OrDefaultPath(settings.key[slot], design, slot)
        BY <2>1, ReadConfigType
      <4>2. settings.key[slot] = NoPath => design.path[slot] = NoPath
        BY <2>2 DEF Completed
      <4> QED
        BY <4>1, <4>2 DEF OrDefaultPath
    <3>2. /\ ReadConfig(settings).key \in [Slots -> Paths \cup {NoPath}]
          /\ settings.key \in [Slots -> Paths \cup {NoPath}]
      BY <2>1, <2>3 DEF Settings
    <3> QED
      BY <3>1, <3>2
  <2>5. ReadConfig(settings).zones = settings.zones
    <3>1. ReadConfig(settings).zones = OrDefaultZones(settings.zones, design)
      BY <2>1, ReadConfigType
    <3> QED
      BY <2>2, <3>1 DEF OrDefaultZones, Completed
  <2>6. design.scale # NoScale => settings.min # settings.max
    BY <2>2 DEF Completed
  <2> QED
    BY <2>1, <2>4, <2>5, <2>6, ReadConfigType
<1> QED
  BY <1>1, Invariant, PTL

-----------------------------------------------------------------------------
(***************************************************************************)
(* What the properties of the form need to be inductive.  A tree holds     *)
(* with a node all nodes on the way to it, and is of finite depth.         *)
(***************************************************************************)
ClosedUpwards(nodes) ==
    \A path \in nodes : \A n \in 1 .. Len(path) : SubSeq(path, 1, n) \in nodes
NoDeeper(nodes, depth) == \A path \in nodes : Len(path) <= depth
IsTree(t) ==
    /\ t.nodes \subseteq Seq(Nat) /\ Root \notin t.nodes
    /\ t.sources \subseteq Seq(Nat) \X Sources
    /\ ClosedUpwards(t.nodes)
    /\ \E depth \in Nat : NoDeeper(t.nodes, depth)

Trees == [nodes : SUBSET Seq(Nat), sources : SUBSET (Seq(Nat) \X Sources)]

(* A mode other than a source leaves no source in a key.                   *)
KeyRecords == [path : Seq(Nat), mode : Modes, source : Sources \cup {Unsaid}]
KeyFits == key \in KeyRecords /\ (key.mode # "specific" => key.source = Unsaid)

(* The browser works on an earlier tree, and its list of sources is that   *)
(* of the node that is selected.                                           *)
Browsers ==
    [tree : Trees, selected : Seq(Nat) \cup {Unsaid}, choices : SUBSET Sources,
     choice : Sources \cup {Unsaid}, mode : Modes]
BrowserFits(at) ==
    /\ at \in Browsers
    /\ IsTree(at.tree)
    /\ at.selected \in at.tree.nodes \cup {Root, Unsaid}
    /\ at.choices = IF at.selected = Unsaid THEN {} ELSE Listed(at, at.selected)
    /\ at.choice \in at.choices \cup {Unsaid}
EarlierTree ==
    /\ browser.tree.nodes \subseteq tree.nodes
    /\ browser.tree.sources \subseteq tree.sources

(* The limits of a zone are in order; so the ranges of the controls have   *)
(* to be those of the zone that is edited.                                 *)
ZoneRecords == [lower : Int, upper : Int, state : States]
Zones ==
    {zones \in Seq(ZoneRecords) :
        \A i \in DOMAIN zones : zones[i].lower <= zones[i].upper}
Editors ==
    [zones : Zones, selection : Nat, edited : Nat, lower : Int, upper : Int,
     state : States, lower_max : Int, upper_min : Int]
EditorFits(at) ==
    /\ at \in Editors
    /\ at.edited = at.selection
    /\ at.edited <= Len(at.zones)
    /\ at.edited = 0 => at.zones = <<>>
    /\ at.edited # 0 =>
        /\ at.zones[at.edited] =
              [lower |-> at.lower, upper |-> at.upper, state |-> at.state]
        /\ at.lower_max = at.upper
        /\ at.upper_min = at.lower

FormInv ==
    /\ tree \in Trees /\ IsTree(tree)
    /\ KeyFits
    /\ BrowserFits(browser)
    /\ EarlierTree
    /\ zone_text \in Zones
    /\ EditorFits(editor)

-----------------------------------------------------------------------------
(* Lemmas about the operators.                                             *)

LEMMA LeastExists ==
    ASSUME NEW S, S \subseteq Nat, S # {}
    PROVE  \E s \in S : \A t \in S : s <= t
<1> DEFINE Less == {pair \in Nat \X Nat : pair[1] < pair[2]}
<1>1. IsWellFoundedOn(Less, Nat)
  BY NatLessThanWellFounded, Zenon DEF OpToRel
<1>2. PICK s \in S : \A t \in S : <<t, s>> \notin Less
  BY <1>1, WFMin, Zenon
<1>3. \A t \in Nat : t < s => <<t, s>> \in Less
  OBVIOUS
<1> HIDE DEF Less
<1>4. \A t \in S : ~(t < s)
  BY <1>2, <1>3
<1> QED
  BY <1>4

LEMMA LeastType ==
    ASSUME NEW S, S \subseteq Nat, S # {}
    PROVE  Least(S) \in S
BY LeastExists DEF Least

LEMMA GreatestExists ==
    ASSUME NEW S, S \subseteq Nat, S # {}, NEW bound \in Nat,
           \A s \in S : s <= bound
    PROVE  \E s \in S : \A t \in S : t <= s
<1> DEFINE Gaps == {bound - s : s \in S}
<1>1. Gaps \subseteq Nat /\ Gaps # {}
  <2>1. \A s \in S : bound - s \in Nat
    OBVIOUS
  <2> QED
    BY <2>1
<1>2. PICK gap \in Gaps : \A other \in Gaps : gap <= other
  BY <1>1, LeastExists
<1>3. PICK s \in S : gap = bound - s
  OBVIOUS
<1>4. \A t \in S : bound - s <= bound - t
  BY <1>2, <1>3
<1> QED
  BY <1>4

LEMMA GreatestType ==
    ASSUME NEW S, S \subseteq Nat, S # {}, NEW bound \in Nat,
           \A s \in S : s <= bound
    PROVE  Greatest(S) \in S /\ \A t \in S : t <= Greatest(S)
<1>1. \E s \in S : \A t \in S : t <= s
  BY GreatestExists
<1> QED
  BY <1>1 DEF Greatest

(* A prefix of a sequence, and of a prefix.                                *)
LEMMA PrefixFacts ==
    ASSUME NEW path \in Seq(Nat), NEW n \in 0 .. Len(path)
    PROVE  /\ SubSeq(path, 1, n) \in Seq(Nat)
           /\ Len(SubSeq(path, 1, n)) = n
           /\ \A m \in 0 .. n :
                SubSeq(SubSeq(path, 1, n), 1, m) = SubSeq(path, 1, m)
<1>1. /\ SubSeq(path, 1, n) \in Seq(Nat)
      /\ Len(SubSeq(path, 1, n)) = n
      /\ \A i \in 1 .. n : SubSeq(path, 1, n)[i] = path[i]
  OBVIOUS
<1> QED
  BY <1>1

(* The first branches below a node end in a leaf: of the nodes they lead   *)
(* to, the deepest has no children.                                        *)
FirstBranches(nodes, path, leaf) ==
    /\ IsPrefix(path, leaf)
    /\ \A n \in Len(path) .. Len(leaf) - 1 :
        leaf[n + 1] = Least({Last(c) : c \in Children(nodes, SubSeq(leaf, 1, n))})

LEMMA OneBranchMore ==
    ASSUME NEW nodes \in SUBSET Seq(Nat), NEW path \in Seq(Nat),
           NEW leaf \in Seq(Nat), FirstBranches(nodes, path, leaf),
           Children(nodes, leaf) # {}
    PROVE  \E child \in nodes :
               FirstBranches(nodes, path, child) /\ Len(child) = Len(leaf) + 1
<1> DEFINE lasts == {Last(c) : c \in Children(nodes, leaf)}
<1>1. lasts \subseteq Nat /\ lasts # {}
  <2>1. \A c \in Children(nodes, leaf) : c \in Seq(Nat) /\ Len(c) = Len(leaf) + 1
    BY DEF Children
  <2>2. \A c \in Seq(Nat) : Len(c) = Len(leaf) + 1 => c[Len(c)] \in Nat
    OBVIOUS
  <2> QED
    BY <2>1, <2>2 DEF Last
<1>2. PICK child \in Children(nodes, leaf) : Last(child) = Least(lasts)
  BY <1>1, LeastType
<1>3. /\ child \in nodes /\ child \in Seq(Nat)
      /\ Len(child) = Len(leaf) + 1
      /\ SubSeq(child, 1, Len(leaf)) = leaf
  <2>1. /\ child \in nodes /\ child \in Seq(Nat)
        /\ Len(child) = Len(leaf) + 1
        /\ SubSeq(child, 1, Len(child) - 1) = leaf
    BY DEF Children, Front
  <2> QED
    BY <2>1
<1>4. \A n \in 0 .. Len(leaf) : SubSeq(child, 1, n) = SubSeq(leaf, 1, n)
  BY <1>3, PrefixFacts
<1>5. \A n \in 1 .. Len(leaf) : child[n] = leaf[n]
  <2>1. \A n \in 1 .. Len(leaf) : child[n] = SubSeq(child, 1, Len(leaf))[n]
    BY <1>3
  <2> QED
    BY <2>1, <1>3
<1>6. Len(path) \in Nat /\ Len(leaf) \in Nat /\ Len(path) <= Len(leaf)
  BY DEF FirstBranches, IsPrefix
<1>7. IsPrefix(path, child)
  BY <1>3, <1>4, <1>6 DEF FirstBranches, IsPrefix
<1>8. ASSUME NEW n \in Len(path) .. Len(child) - 1
      PROVE  child[n + 1] =
                 Least({Last(c) : c \in Children(nodes, SubSeq(child, 1, n))})
  <2>1. CASE n = Len(leaf)
    <3>1. SubSeq(child, 1, n) = leaf
      BY <2>1, <1>3
    <3>2. child[n + 1] = Last(child)
      BY <2>1, <1>3 DEF Last
    <3> QED
      BY <3>1, <3>2, <1>2
  <2>2. CASE n < Len(leaf)
    <3>1. n \in Len(path) .. Len(leaf) - 1 /\ n \in 0 .. Len(leaf)
          /\ n + 1 \in 1 .. Len(leaf)
      BY <2>2, <1>6
    <3>2. child[n + 1] = leaf[n + 1] /\ SubSeq(child, 1, n) = SubSeq(leaf, 1, n)
      BY <3>1, <1>4, <1>5
    <3> QED
      BY <3>1, <3>2 DEF FirstBranches
  <2>3. n = Len(leaf) \/ n < Len(leaf)
    <3>1. n \in Len(path) .. Len(leaf)
      <4>1. Len(child) - 1 = Len(leaf)
        BY <1>3, <1>6
      <4> QED
        BY <4>1
    <3> QED
      BY <3>1, <1>6
  <2> QED
    BY <2>1, <2>2, <2>3, Zenon
<1> QED
  BY <1>3, <1>7, <1>8 DEF FirstBranches

LEMMA FirstLeafExists ==
    ASSUME NEW t, IsTree(t), NEW path \in t.nodes \cup {Root}
    PROVE  /\ FirstLeaf(t.nodes, path) \in t.nodes \cup {path}
           /\ IsPrefix(path, FirstLeaf(t.nodes, path))
<1> DEFINE nodes == t.nodes
           Reach == {leaf \in nodes \cup {path} : FirstBranches(nodes, path, leaf)}
           Depths == {Len(leaf) : leaf \in Reach}
<1>1. nodes \in SUBSET Seq(Nat) /\ path \in Seq(Nat)
  <2>1. t.nodes \subseteq Seq(Nat)
    BY DEF IsTree
  <2>2. <<>> \in Seq(Nat)
    OBVIOUS
  <2> QED
    BY <2>1, <2>2 DEF Root
<1>2. PICK depth \in Nat : \A n \in nodes : Len(n) <= depth
  BY DEF IsTree, NoDeeper
<1> HIDE DEF nodes
<1>3. path \in Reach
  BY <1>1 DEF FirstBranches, IsPrefix
<1>4. Depths \subseteq Nat /\ Depths # {}
  <2>1. Reach \subseteq Seq(Nat)
    BY <1>1
  <2>2. \A leaf \in Seq(Nat) : Len(leaf) \in Nat
    OBVIOUS
  <2> HIDE DEF Reach
  <2> QED
    BY <2>1, <2>2, <1>3
<1>5. \A d \in Depths : d <= depth + Len(path)
  BY <1>1, <1>2
<1>6. PICK deepest \in Depths : \A d \in Depths : d <= deepest
  <2>1. depth + Len(path) \in Nat
    BY <1>1
  <2> HIDE DEF Depths
  <2> QED
    BY <1>4, <1>5, <2>1, GreatestExists
<1>7. PICK leaf \in Reach : Len(leaf) = deepest
  OBVIOUS
<1>8. leaf \in Seq(Nat) /\ FirstBranches(nodes, path, leaf)
  BY <1>1
<1>9. Children(nodes, leaf) = {}
  <2>1. SUFFICES ASSUME Children(nodes, leaf) # {}  PROVE FALSE
    OBVIOUS
  <2>2. PICK child \in nodes :
            FirstBranches(nodes, path, child) /\ Len(child) = Len(leaf) + 1
    BY <1>1, <1>8, <2>1, OneBranchMore
  <2>3. Len(leaf) + 1 \in Depths
    BY <2>2
  <2>4. Len(leaf) + 1 <= Len(leaf) /\ Len(leaf) \in Nat
    BY <2>3, <1>6, <1>7, <1>8
  <2> QED
    BY <2>4
<1>10. /\ leaf \in nodes \cup {path}
       /\ IsPrefix(path, leaf)
       /\ Children(nodes, leaf) = {}
       /\ \A n \in Len(path) .. Len(leaf) - 1 :
            leaf[n + 1] = Least({Last(c) : c \in Children(nodes, SubSeq(leaf, 1, n))})
  BY <1>8, <1>9 DEF FirstBranches
<1>11. FirstLeaf(nodes, path) \in nodes \cup {path} /\ IsPrefix(path, FirstLeaf(nodes, path))
  BY <1>10, Zenon DEF FirstLeaf
<1> QED
  BY <1>11 DEF nodes

(* A leaf is its own first leaf.                                           *)
LEMMA FirstLeafOfLeaf ==
    ASSUME NEW t, IsTree(t), NEW path \in t.nodes, IsLeaf(t.nodes, path)
    PROVE  FirstLeaf(t.nodes, path) = path
<1> DEFINE leaf == FirstLeaf(t.nodes, path)
<1>1. leaf \in t.nodes /\ IsPrefix(path, leaf)
  BY FirstLeafExists
<1>2. path \in Seq(Nat) /\ leaf \in Seq(Nat) /\ t.nodes \subseteq Seq(Nat)
  BY <1>1 DEF IsTree
<1> HIDE DEF leaf
<1>3. Len(path) \in Nat /\ Len(leaf) \in Nat /\ Len(path) <= Len(leaf)
      /\ SubSeq(path, 1, Len(path)) = SubSeq(leaf, 1, Len(path))
  BY <1>1, <1>2 DEF IsPrefix
<1>4. SubSeq(path, 1, Len(path)) = path
  BY <1>2
<1>5. CASE Len(path) < Len(leaf)
  <2> DEFINE n == Len(path) + 1
             child == SubSeq(leaf, 1, n)
  <2>1. n \in 1 .. Len(leaf) /\ n \in 0 .. Len(leaf) /\ Len(path) \in 0 .. n
    BY <1>3, <1>5
  <2>2. child \in t.nodes
    BY <2>1, <1>1 DEF IsTree, ClosedUpwards
  <2>3. /\ Len(child) = n
        /\ SubSeq(child, 1, Len(path)) = SubSeq(leaf, 1, Len(path))
    BY <2>1, <1>2, PrefixFacts
  <2> HIDE DEF child
  <2>4. Front(child) = path
    <3>1. Len(child) - 1 = Len(path)
      BY <2>3, <1>3
    <3> QED
      BY <3>1, <2>3, <1>3, <1>4 DEF Front
  <2>5. child \in Children(t.nodes, path)
    BY <2>2, <2>3, <2>4 DEF Children
  <2> QED
    BY <2>5 DEF IsLeaf
<1>6. CASE Len(path) = Len(leaf)
  <2>1. leaf = SubSeq(leaf, 1, Len(leaf))
    BY <1>2
  <2>2. leaf = path
    BY <2>1, <1>6, <1>3, <1>4
  <2> QED
    BY <2>2 DEF leaf
<1> QED
  BY <1>3, <1>5, <1>6

(* The node a path leads to is in the tree, and is that of the path when   *)
(* there is one.                                                           *)
LEMMA ReachedType ==
    ASSUME NEW t, IsTree(t), NEW path \in Seq(Nat)
    PROVE  /\ Reached(t.nodes, path) \in t.nodes \cup {Root}
           /\ path \in t.nodes => Reached(t.nodes, path) = path
<1> DEFINE found == {n \in 1 .. Len(path) : SubSeq(path, 1, n) \in t.nodes}
<1>1. /\ found \subseteq Nat
      /\ Len(path) \in Nat
      /\ \A n \in found : n <= Len(path)
  OBVIOUS
<1>2. ASSUME found # {}
      PROVE  Greatest(found) \in found /\ \A n \in found : n <= Greatest(found)
  <2> HIDE DEF found
  <2> QED
    BY <1>1, <1>2, GreatestType
<1>3. Reached(t.nodes, path) =
          IF found = {} THEN Root ELSE SubSeq(path, 1, Greatest(found))
  BY DEF Reached
<1>4. Reached(t.nodes, path) \in t.nodes \cup {Root}
  BY <1>2, <1>3
<1>5. ASSUME path \in t.nodes
      PROVE  Reached(t.nodes, path) = path
  <2>1. path # <<>>
    BY <1>5 DEF IsTree, Root
  <2>2. SubSeq(path, 1, Len(path)) = path /\ Len(path) \in 1 .. Len(path)
    BY <2>1
  <2>3. Len(path) \in found
    BY <2>2, <1>5
  <2>4. Greatest(found) = Len(path)
    <3> DEFINE g == Greatest(found)
    <3>1. g \in found /\ Len(path) <= g
      BY <2>3, <1>2
    <3>2. g \in Nat /\ g <= Len(path)
      BY <3>1, <1>1
    <3> HIDE DEF g
    <3>3. g = Len(path)
      BY <3>1, <3>2, <1>1
    <3> QED
      BY <3>3 DEF g
  <2> QED
    BY <2>2, <2>3, <2>4, <1>3
<1> QED
  BY <1>4, <1>5

LEMMA ClosedFits == IsTree(Closed.tree) /\ BrowserFits(Closed)
<1>1. \A depth \in Nat : NoDeeper({}, depth)
  BY DEF NoDeeper
<1>2. ClosedUpwards({})
  BY DEF ClosedUpwards
<1>3. IsTree(Closed.tree)
  BY <1>1, <1>2 DEF IsTree, Closed
<1> QED
  BY <1>3 DEF BrowserFits, Closed, Browsers, Trees, Modes

(* Selecting a node of the tree the browser has.                           *)
LEMMA SelectedFits ==
    ASSUME NEW at \in Browsers, IsTree(at.tree),
           NEW path \in at.tree.nodes \cup {Root}
    PROVE  /\ BrowserFits(Selected(at, path))
           /\ Selected(at, path).tree = at.tree
           /\ Selected(at, path).mode = at.mode
           /\ Selected(at, path).selected = path
           /\ Selected(at, path).choices = Listed(at, path)
<1> DEFINE after == Selected(at, path)
           sources == Listed(at, path)
           first == IF sources = {} THEN Unsaid ELSE Least(sources)
<1>1. path \in Seq(Nat) /\ path # Unsaid
  <2>1. path \in Seq(Nat)
    <3>1. at.tree.nodes \subseteq Seq(Nat) /\ <<>> \in Seq(Nat)
      BY DEF IsTree
    <3> QED
      BY <3>1 DEF Root
  <2> QED
    BY <2>1, FormAssumption
<1>2. sources \in SUBSET Sources /\ sources \subseteq Nat
  BY FormAssumption DEF Listed
<1>3. first \in sources \cup {Unsaid}
  <2> HIDE DEF sources
  <2> QED
    BY <1>2, LeastType
<1>4. after = [at EXCEPT !.selected = path, !.choices = sources, !.choice = first]
  BY DEF Selected
<1> HIDE DEF first, sources
<1>5. after \in Browsers
  BY <1>1, <1>2, <1>3, <1>4 DEF Browsers
<1>6. /\ after.tree = at.tree /\ after.mode = at.mode /\ after.selected = path
      /\ after.choices = sources /\ after.choice = first
  BY <1>4 DEF Browsers
<1> HIDE DEF after
<1>7. Listed(after, path) = sources
  BY <1>6 DEF sources, Listed
<1>8. BrowserFits(after)
  BY <1>1, <1>3, <1>5, <1>6, <1>7 DEF BrowserFits
<1> QED
  BY <1>6, <1>8 DEF after, sources

(* The entry FindString finds is one of the list, or the choice stays; of  *)
(* the sources that differ only in case it is the first.                   *)
LEMMA PreselectedType ==
    ASSUME NEW at \in Browsers, at.choice \in at.choices \cup {Unsaid}, NEW source
    PROVE  Preselected(at, source) \in at.choices \cup {Unsaid}
<1> DEFINE found == {s \in at.choices : source # Unsaid /\ Folded[s] = Folded[source]}
<1>1. at.choices \subseteq Nat
  BY FormAssumption DEF Browsers
<1>2. found # {} => Least(found) \in found
  BY <1>1, LeastType
<1> QED
  BY <1>2 DEF Preselected

LEMMA PreselectedItself ==
    ASSUME NEW at \in Browsers, NEW source, source \in at.choices,
           \A s \in at.choices : Folded[s] = Folded[source] => source <= s
    PROVE  Preselected(at, source) = source
<1>1. at.choices \subseteq Sources
  BY DEF Browsers
<1>2. source \in Int /\ at.choices \subseteq Int
  <2>1. Sources \subseteq Nat
    BY FormAssumption
  <2>2. at.choices \subseteq Nat
    BY <1>1, <2>1, Zenon
  <2>3. Nat \subseteq Int
    OBVIOUS
  <2> QED
    BY <2>2, <2>3, Zenon
<1>3. source # Unsaid
  BY <1>2, FormAssumption
<1> DEFINE found == {s \in at.choices : source # Unsaid /\ Folded[s] = Folded[source]}
<1>4. source \in found /\ found \subseteq Int /\ \A s \in found : source <= s
  BY <1>2, <1>3
<1>5. Preselected(at, source) = Least(found)
  BY <1>4 DEF Preselected
<1> HIDE DEF found
<1>6. Least(found) \in found /\ \A s \in found : Least(found) <= s
  BY <1>4 DEF Least
<1>7. Least(found) <= source /\ source <= Least(found)
  BY <1>4, <1>6, Zenon
<1>8. Least(found) \in Int
  BY <1>4, <1>6, Zenon
<1>9. Least(found) = source
  BY <1>2, <1>7, <1>8
<1> QED
  BY <1>5, <1>9

(* Another choice or another mode fits as well.                            *)
LEMMA ChosenFits ==
    ASSUME NEW at, BrowserFits(at), NEW choice \in at.choices \cup {Unsaid},
           NEW mode \in Modes
    PROVE  BrowserFits([at EXCEPT !.choice = choice, !.mode = mode])
<1> DEFINE after == [at EXCEPT !.choice = choice, !.mode = mode]
<1>1. at \in Browsers
  BY DEF BrowserFits
<1>2. after \in Browsers
  BY <1>1 DEF Browsers
<1>3. /\ after.tree = at.tree /\ after.selected = at.selected
      /\ after.choices = at.choices /\ after.choice = choice
  BY <1>1 DEF Browsers
<1> HIDE DEF after
<1>4. \A path : Listed(after, path) = Listed(at, path)
  BY <1>3 DEF Listed
<1>5. BrowserFits(after)
  BY <1>2, <1>3, <1>4 DEF BrowserFits
<1> QED
  BY <1>5 DEF after

(* What the browser writes is a key.                                       *)
LEMMA PickedFits ==
    ASSUME NEW at, BrowserFits(at)
    PROVE  /\ GetSKPath(at) \in KeyRecords
           /\ GetSKPath(at).mode # "specific" => GetSKPath(at).source = Unsaid
<1>1. at \in Browsers /\ IsTree(at.tree)
      /\ at.selected \in at.tree.nodes \cup {Root, Unsaid}
  BY DEF BrowserFits
<1>2. PickedPath(at) \in Seq(Nat)
  <2> DEFINE leaf == FirstLeaf(at.tree.nodes, at.selected)
  <2>1. <<>> \in Seq(Nat) /\ \A s \in Seq(Nat) : <<0>> \o s \in Seq(Nat)
    OBVIOUS
  <2>2. ASSUME at.selected # Unsaid  PROVE leaf \in Seq(Nat)
    <3>1. at.selected \in at.tree.nodes \cup {Root}
      BY <1>1, <2>2
    <3>2. leaf \in at.tree.nodes \cup {at.selected}
      BY <1>1, <3>1, FirstLeafExists
    <3>3. at.tree.nodes \subseteq Seq(Nat)
      BY <1>1 DEF IsTree
    <3> QED
      BY <3>1, <3>2, <3>3, <2>1 DEF Root
  <2> HIDE DEF leaf
  <2>3. PickedPath(at) =
            IF at.selected = Unsaid THEN <<>>
            ELSE IF at.selected = Root /\ leaf # Root THEN <<0>> \o leaf ELSE leaf
    BY DEF PickedPath, leaf
  <2> QED
    BY <2>1, <2>2, <2>3
<1>3. at.mode \in Modes /\ at.choice \in Sources \cup {Unsaid}
  BY <1>1 DEF Browsers
<1> QED
  BY <1>2, <1>3 DEF GetSKPath, Key, KeyRecords

-----------------------------------------------------------------------------
(* Zones.                                                                  *)

LEMMA ZonesFacts ==
    ASSUME NEW zones \in Zones
    PROVE  /\ Len(zones) \in Nat /\ DOMAIN zones = 1 .. Len(zones)
           /\ \A i \in 1 .. Len(zones) :
                /\ zones[i] \in ZoneRecords
                /\ zones[i].lower \in Int /\ zones[i].upper \in Int
                /\ zones[i].state \in States
                /\ zones[i].lower <= zones[i].upper
                /\ zones[i] = [lower |-> zones[i].lower, upper |-> zones[i].upper,
                               state |-> zones[i].state]
<1>1. zones \in Seq(ZoneRecords)
  BY DEF Zones
<1>2. DOMAIN zones = 1 .. Len(zones) /\ Len(zones) \in Nat
  BY <1>1
<1>3. \A i \in 1 .. Len(zones) : zones[i] \in ZoneRecords
  BY <1>1
<1>4. \A i \in 1 .. Len(zones) : zones[i].lower <= zones[i].upper
  BY <1>2 DEF Zones
<1>5. \A zone \in ZoneRecords :
        /\ zone.lower \in Int /\ zone.upper \in Int /\ zone.state \in States
        /\ zone = [lower |-> zone.lower, upper |-> zone.upper, state |-> zone.state]
  BY DEF ZoneRecords
<1> QED
  BY <1>2, <1>3, <1>4, <1>5

LEMMA ZonesMade ==
    ASSUME NEW n \in Nat, NEW zones,
           zones = [i \in 1 .. n |-> zones[i]],
           \A i \in 1 .. n :
                /\ zones[i] \in ZoneRecords
                /\ zones[i].lower <= zones[i].upper
    PROVE  zones \in Zones /\ Len(zones) = n
<1>1. /\ zones \in Seq(ZoneRecords)
      /\ Len(zones) = n /\ DOMAIN zones = 1 .. n
  OBVIOUS
<1> QED
  BY <1>1 DEF Zones

(* What is written is rounded, and still in order.                         *)
LEMMA ZonesWrittenType ==
    ASSUME NEW zones \in Zones
    PROVE  ZonesWritten(zones) \in Zones
<1> DEFINE after == ZonesWritten(zones)
           n == Len(zones)
<1>1. \A i \in 1 .. n : zones[i] \in ZoneRecords
      /\ zones[i].lower <= zones[i].upper
  BY ZonesFacts
<1>2. \A a \in Int : Rounded(a) \in Int
  BY DEF Rounded
<1>3. \A a, b \in Int : a <= b => Rounded(a) <= Rounded(b)
  BY DEF Rounded
<1>4. after = [i \in 1 .. n |->
                 [zones[i] EXCEPT !.lower = Rounded(@), !.upper = Rounded(@)]]
      /\ n \in Nat
  BY ZonesFacts DEF ZonesWritten
<1>5. \A i \in 1 .. n :
        after[i] = [lower |-> Rounded(zones[i].lower),
                    upper |-> Rounded(zones[i].upper), state |-> zones[i].state]
  BY <1>1, <1>4 DEF ZoneRecords
<1>6. after = [i \in 1 .. n |-> after[i]]
  BY <1>4
<1> HIDE DEF after, n
<1>7. \A i \in 1 .. n :
        /\ after[i] \in ZoneRecords
        /\ after[i].lower <= after[i].upper
  <2>1. TAKE i \in 1 .. n
  <2>2. /\ zones[i].lower \in Int /\ zones[i].upper \in Int
        /\ zones[i].state \in States /\ zones[i].lower <= zones[i].upper
    BY ZonesFacts DEF n
  <2>3. /\ Rounded(zones[i].lower) \in Int /\ Rounded(zones[i].upper) \in Int
        /\ Rounded(zones[i].lower) <= Rounded(zones[i].upper)
    BY <2>2, <1>2, <1>3
  <2> DEFINE lower == Rounded(zones[i].lower)
             upper == Rounded(zones[i].upper)
  <2>4. after[i] = [lower |-> lower, upper |-> upper, state |-> zones[i].state]
    BY <1>5
  <2> HIDE DEF lower, upper
  <2>5. lower \in Int /\ upper \in Int /\ lower <= upper
    BY <2>3 DEF lower, upper
  <2>6. after[i].lower = lower /\ after[i].upper = upper
    BY <2>4
  <2>7. after[i] \in ZoneRecords
    BY <2>2, <2>4, <2>5 DEF ZoneRecords
  <2> QED
    BY <2>5, <2>6, <2>7
<1> QED
  BY <1>4, <1>6, <1>7, ZonesMade DEF after

(* Zones that were read are read again as they are.                        *)
LEMMA ParsedSame ==
    ASSUME NEW zones \in Zones
    PROVE  Parsed(zones) = zones
<1>1. Unsaid \notin Int /\ States \subseteq Int
  BY FormAssumption DEF States
<1>2. \A i \in 1 .. Len(zones) :
        [lower |-> Said(zones[i].lower), upper |-> Said(zones[i].upper),
         state |-> Said(zones[i].state)] = zones[i]
  BY <1>1, ZonesFacts DEF Said
<1>3. zones = [i \in 1 .. Len(zones) |-> zones[i]]
  BY DEF Zones
<1> QED
  BY <1>2, <1>3, ZonesFacts DEF Parsed

LEMMA ConfiguredType ==
    ASSUME NEW text \in ConfiguredZones
    PROVE  Parsed(text) \in Zones
<1> DEFINE after == Parsed(text)
           Limit == Int \cup {Unsaid}
           Tokens == [lower : Limit, upper : Limit, state : States \cup {Unsaid}]
<1>1. text \in Seq(Tokens)
  BY FormAssumption
<1>2. /\ Len(text) \in Nat /\ DOMAIN text = 1 .. Len(text)
      /\ \A i \in 1 .. Len(text) :
            /\ text[i].lower \in Limit /\ text[i].upper \in Limit
            /\ text[i].state \in States \cup {Unsaid}
  <2> HIDE DEF Tokens
  <2>1. /\ Len(text) \in Nat /\ DOMAIN text = 1 .. Len(text)
        /\ \A i \in 1 .. Len(text) : text[i] \in Tokens
    BY <1>1
  <2> QED
    BY <2>1 DEF Tokens
<1>3. \A token \in Limit : Said(token) \in Int
  BY DEF Said
<1>4. \A token \in States \cup {Unsaid} : Said(token) \in States
  BY DEF Said, States
<1> HIDE DEF Limit
<1>5. after = [i \in 1 .. Len(text) |->
                 [lower |-> Said(text[i].lower), upper |-> Said(text[i].upper),
                  state |-> Said(text[i].state)]]
  BY <1>2 DEF Parsed
<1>6. \A i \in 1 .. Len(text) : after[i].lower <= after[i].upper
  BY <1>2, ZonesAssumption
<1>7. \A i \in 1 .. Len(text) : after[i] \in ZoneRecords
  BY <1>2, <1>3, <1>4, <1>5 DEF ZoneRecords
<1>8. after = [i \in 1 .. Len(text) |-> after[i]]
  BY <1>5
<1> HIDE DEF after
<1> QED
  BY <1>2, <1>6, <1>7, <1>8, ZonesMade DEF after

(* A zone can be added, removed or replaced.                               *)
LEMMA AppendedType ==
    ASSUME NEW zones \in Zones
    PROVE  /\ Append(zones, [lower |-> 0, upper |-> 0, state |-> 1]) \in Zones
           /\ Len(Append(zones, [lower |-> 0, upper |-> 0, state |-> 1])) = Len(zones) + 1
<1> DEFINE zone == [lower |-> 0, upper |-> 0, state |-> 1]
           after == Append(zones, zone)
<1>1. zone \in ZoneRecords /\ zone.lower <= zone.upper
  BY DEF States, ZoneRecords
<1> HIDE DEF zone
<1>2. zones \in Seq(ZoneRecords)
  BY DEF Zones
<1>3. /\ after \in Seq(ZoneRecords)
      /\ Len(after) = Len(zones) + 1 /\ Len(zones) \in Nat
      /\ DOMAIN after = 1 .. Len(zones) + 1
      /\ \A i \in 1 .. Len(zones) : after[i] = zones[i]
      /\ after[Len(zones) + 1] = zone
  BY <1>1, <1>2
<1> HIDE DEF after
<1>4. \A i \in DOMAIN after : after[i].lower <= after[i].upper
  <2>1. \A i \in 1 .. Len(zones) : after[i].lower <= after[i].upper
    BY <1>3, ZonesFacts
  <2>2. after[Len(zones) + 1].lower <= after[Len(zones) + 1].upper
    BY <1>1, <1>3
  <2>3. \A i \in DOMAIN after : i \in 1 .. Len(zones) \/ i = Len(zones) + 1
    BY <1>3
  <2> QED
    BY <2>1, <2>2, <2>3, Zenon
<1> QED
  BY <1>3, <1>4 DEF Zones, after, zone

LEMMA RemovedType ==
    ASSUME NEW zones \in Zones, NEW sel \in 1 .. Len(zones)
    PROVE  /\ RemoveAt(zones, sel) \in Zones
           /\ Len(RemoveAt(zones, sel)) = Len(zones) - 1
<1> DEFINE before == SubSeq(zones, 1, sel - 1)
           behind == SubSeq(zones, sel + 1, Len(zones))
           after == before \o behind
           n == Len(zones)
<1>1. zones \in Seq(ZoneRecords) /\ n \in Nat /\ sel \in Nat /\ 1 <= sel /\ sel <= n
  BY DEF Zones
<1>2. /\ before \in Seq(ZoneRecords) /\ Len(before) = sel - 1
      /\ \A i \in 1 .. sel - 1 : before[i] = zones[i]
  BY <1>1
<1>3. /\ behind \in Seq(ZoneRecords) /\ Len(behind) = n - sel
      /\ \A i \in 1 .. n - sel : behind[i] = zones[sel + i]
  BY <1>1
<1> HIDE DEF before, behind
<1>4. /\ after \in Seq(ZoneRecords) /\ Len(after) = n - 1 /\ DOMAIN after = 1 .. n - 1
      /\ \A i \in 1 .. sel - 1 : after[i] = before[i]
      /\ \A i \in sel .. n - 1 : after[i] = behind[i - (sel - 1)]
  <2>1. Len(before) + Len(behind) = n - 1
    BY <1>1, <1>2, <1>3
  <2>2. after \in Seq(ZoneRecords) /\ Len(after) = n - 1
    <3>1. after \in Seq(ZoneRecords) /\ Len(after) = Len(before) + Len(behind)
      BY <1>2, <1>3, ConcatProperties
    <3> QED
      BY <3>1, <2>1
  <2>3. \A i \in 1 .. n - 1 :
            after[i] = IF i <= Len(before) THEN before[i] ELSE behind[i - Len(before)]
    BY <1>2, <1>3, <2>1, ConcatProperties
  <2>4. DOMAIN after = 1 .. n - 1
    BY <2>2
  <2> HIDE DEF after
  <2>5. \A i \in 1 .. sel - 1 : after[i] = before[i]
    BY <1>1, <1>2, <2>3
  <2>6. \A i \in sel .. n - 1 : after[i] = behind[i - (sel - 1)]
    BY <1>1, <1>2, <2>3
  <2> QED
    BY <2>2, <2>4, <2>5, <2>6
<1> HIDE DEF after
<1>5. \A i \in 1 .. n - 1 : \E j \in 1 .. n : after[i] = zones[j]
  <2>1. TAKE i \in 1 .. n - 1
  <2>2. CASE i < sel
    BY <2>2, <1>1, <1>2, <1>4
  <2>3. CASE i >= sel
    <3>1. i \in sel .. n - 1 /\ i - (sel - 1) \in 1 .. n - sel
          /\ i + 1 \in 1 .. n /\ sel + (i - (sel - 1)) = i + 1
      BY <2>3, <1>1
    <3>2. after[i] = zones[i + 1]
      BY <3>1, <1>3, <1>4
    <3> QED
      BY <3>1, <3>2
  <2> QED
    BY <2>2, <2>3, <1>1
<1>6. \A i \in DOMAIN after : after[i].lower <= after[i].upper
  BY <1>4, <1>5, ZonesFacts
<1> QED
  BY <1>4, <1>6 DEF Zones, RemoveAt, after, before, behind

LEMMA ReplacedType ==
    ASSUME NEW zones \in Zones, NEW sel \in 1 .. Len(zones),
           NEW zone \in ZoneRecords,
           zone.lower <= zone.upper
    PROVE  /\ [zones EXCEPT ![sel] = zone] \in Zones
           /\ Len([zones EXCEPT ![sel] = zone]) = Len(zones)
           /\ [zones EXCEPT ![sel] = zone][sel] = zone
<1> DEFINE n == Len(zones)
           after == [zones EXCEPT ![sel] = zone]
<1>1. zones = [i \in 1 .. n |-> zones[i]] /\ n \in Nat
  BY DEF Zones
<1>2. after = [i \in 1 .. n |-> IF i = sel THEN zone ELSE zones[i]]
  BY <1>1
<1> HIDE DEF after
<1>3. \A i \in 1 .. n :
        /\ after[i] \in ZoneRecords
        /\ after[i].lower <= after[i].upper
  BY <1>2, ZonesFacts
<1>4. after = [i \in 1 .. n |-> after[i]] /\ after[sel] = zone
  BY <1>2
<1> HIDE DEF n
<1>5. after \in Zones /\ Len(after) = n
  BY <1>1, <1>3, <1>4, ZonesMade
<1> QED
  BY <1>4, <1>5 DEF after, n

(* Filling the controls makes them and their ranges those of the zone that *)
(* is edited.                                                              *)
LEMMA FilledFits ==
    ASSUME NEW at \in Editors, at.edited = at.selection,
           at.edited <= Len(at.zones), at.edited = 0 => at.zones = <<>>
    PROVE  EditorFits(Filled(at))
<1> DEFINE after == Filled(at)
<1>1. /\ at.zones \in Zones /\ at.edited \in Nat
      /\ at.lower \in Int /\ at.upper \in Int
  BY DEF Editors
<1>2. CASE at.edited = 0
  <2> DEFINE low == IF 0 <= at.lower_max THEN 0 ELSE at.lower
             high == IF at.upper_min <= 0 THEN 0 ELSE at.upper
  <2>1. low \in Int /\ high \in Int /\ 0 \in States
    BY <1>1 DEF States
  <2>2. after = [at EXCEPT !.lower = low, !.upper = high, !.state = 0]
    BY <1>2 DEF Filled
  <2> HIDE DEF low, high, after
  <2>3. after \in Editors
    BY <2>1, <2>2 DEF Editors
  <2>4. after.edited = 0 /\ after.selection = 0 /\ after.zones = <<>>
    BY <2>2, <1>2 DEF Editors
  <2>5. after.edited <= Len(after.zones)
    BY <2>4
  <2> QED
    BY <2>3, <2>4, <2>5 DEF EditorFits, after
<1>3. CASE at.edited # 0
  <2> DEFINE zone == at.zones[at.edited]
  <2>1. at.edited \in 1 .. Len(at.zones)
    BY <1>1, <1>3, ZonesFacts
  <2>2. /\ zone.lower \in Int /\ zone.upper \in Int /\ zone.state \in States
        /\ zone = [lower |-> zone.lower, upper |-> zone.upper, state |-> zone.state]
    BY <1>1, <2>1, ZonesFacts
  <2>3. after = [at EXCEPT !.lower = zone.lower, !.upper = zone.upper,
                           !.lower_max = zone.upper, !.upper_min = zone.lower,
                           !.state = zone.state]
    BY <1>3 DEF Filled
  <2> HIDE DEF after
  <2>4. after \in Editors
    BY <2>2, <2>3 DEF Editors
  <2>5. /\ after.edited = at.edited /\ after.selection = at.selection
        /\ after.zones = at.zones /\ after.lower = zone.lower
        /\ after.upper = zone.upper /\ after.state = zone.state
        /\ after.lower_max = zone.upper /\ after.upper_min = zone.lower
    BY <2>3 DEF Editors
  <2>6. after.zones[after.edited] =
            [lower |-> after.lower, upper |-> after.upper, state |-> after.state]
    BY <2>2, <2>5
  <2> QED
    BY <1>3, <2>4, <2>5, <2>6 DEF EditorFits, after
<1> QED
  BY <1>2, <1>3

LEMMA EditFits ==
    ASSUME NEW at \in Editors, NEW zones \in Zones, NEW i \in 0 .. Len(zones),
           i = 0 => zones = <<>>
    PROVE  EditorFits(Filled(Edit([at EXCEPT !.zones = zones], i)))
<1> DEFINE after == Edit([at EXCEPT !.zones = zones], i)
<1>1. i \in Nat /\ i <= Len(zones)
  BY ZonesFacts
<1>2. after = [at EXCEPT !.zones = zones, !.selection = i, !.edited = i]
  BY DEF Edit, Editors
<1> HIDE DEF after
<1>3. after \in Editors /\ after.edited = i /\ after.selection = i /\ after.zones = zones
  BY <1>1, <1>2 DEF Editors
<1>4. EditorFits(Filled(after))
  BY <1>1, <1>3, FilledFits
<1> QED
  BY <1>4 DEF after

LEMMA EmptyFits == EmptyEditor \in Editors /\ EditorFits(EmptyEditor)
<1>1. <<>> \in Zones /\ Len(<<>>) = 0
  BY DEF Zones
<1>2. EmptyEditor \in Editors
  <2>1. Top \in Int /\ -Top \in Int /\ 0 \in States
    BY FormAssumption DEF States
  <2> QED
    BY <1>1, <2>1 DEF EmptyEditor, Editors
<1>3. EmptyEditor.edited = 0 /\ EmptyEditor.selection = 0 /\ EmptyEditor.zones = <<>>
  BY DEF EmptyEditor
<1> QED
  BY <1>1, <1>2, <1>3 DEF EditorFits

(* A handler of a control changes the zone that is edited, and no more.    *)
ChangedTo(at, after, lower, upper, state) ==
    /\ after.edited = at.edited /\ after.selection = at.selection
    /\ after.zones = [at.zones EXCEPT ![at.edited] =
                        [lower |-> lower, upper |-> upper, state |-> state]]
    /\ after.lower = lower /\ after.upper = upper /\ after.state = state
    /\ after.lower_max = upper /\ after.upper_min = lower

LEMMA ChangedFits ==
    ASSUME NEW at, EditorFits(at), at.edited # 0,
           NEW lower \in Int, NEW upper \in Int, NEW state \in States,
           lower <= upper,
           NEW after \in Editors, ChangedTo(at, after, lower, upper, state)
    PROVE  EditorFits(after)
<1>1. at.zones \in Zones /\ at.edited \in 1 .. Len(at.zones)
  <2>1. at.zones \in Zones /\ at.edited \in Nat /\ at.edited <= Len(at.zones)
    BY DEF EditorFits, Editors
  <2> QED
    BY <2>1, ZonesFacts
<1> DEFINE zone == [lower |-> lower, upper |-> upper, state |-> state]
<1>2. zone \in ZoneRecords /\ zone.lower <= zone.upper
  BY DEF ZoneRecords
<1> HIDE DEF zone
<1>3. Len(after.zones) = Len(at.zones) /\ after.zones[at.edited] = zone
  BY <1>1, <1>2, ReplacedType DEF zone, ChangedTo
<1>4. after.edited = at.edited /\ at.edited = at.selection
      /\ at.edited <= Len(at.zones)
  BY DEF EditorFits, ChangedTo
<1> QED
  BY <1>3, <1>4 DEF EditorFits, zone, ChangedTo

(* The zone that is edited, as its controls show it.                       *)
LEMMA EditedZone ==
    ASSUME NEW at, EditorFits(at), at.edited # 0
    PROVE  /\ at \in Editors /\ at.zones \in Zones
           /\ at.edited \in 1 .. Len(at.zones)
           /\ at.lower \in Int /\ at.upper \in Int /\ at.state \in States
           /\ at.lower <= at.upper
           /\ at.zones[at.edited] =
                 [lower |-> at.lower, upper |-> at.upper, state |-> at.state]
           /\ at.lower_max = at.upper /\ at.upper_min = at.lower
<1>1. at \in Editors /\ at.edited <= Len(at.zones)
      /\ at.zones[at.edited] =
            [lower |-> at.lower, upper |-> at.upper, state |-> at.state]
      /\ at.lower_max = at.upper /\ at.upper_min = at.lower
  BY DEF EditorFits
<1>2. at.zones \in Zones /\ at.edited \in Nat /\ at.lower \in Int /\ at.upper \in Int
      /\ at.state \in States
  BY <1>1 DEF Editors
<1>3. at.edited \in 1 .. Len(at.zones)
  BY <1>1, <1>2, ZonesFacts
<1>4. at.zones[at.edited].lower <= at.zones[at.edited].upper
  BY <1>2, <1>3, ZonesFacts
<1>5. at.zones[at.edited].lower = at.lower /\ at.zones[at.edited].upper = at.upper
  BY <1>1
<1> QED
  BY <1>1, <1>2, <1>3, <1>4, <1>5

LEMMA SetLowerFits ==
    ASSUME EditorFits(editor), NEW value \in Int, SetLower(value)
    PROVE  EditorFits(editor')
<1>1. editor.edited # 0 /\ value <= editor.lower_max
      /\ editor' = [editor EXCEPT !.lower = value, !.upper_min = value,
                                  !.zones[editor.edited].lower = value]
  BY DEF SetLower, EditZones
<1> DEFINE zone == [lower |-> value, upper |-> editor.upper, state |-> editor.state]
           zones == [editor.zones EXCEPT ![editor.edited] = zone]
<1>2. zone \in ZoneRecords /\ value <= editor.upper
  BY <1>1, EditedZone DEF ZoneRecords
<1>3. zone.lower <= zone.upper
  BY <1>2
<1>4. [editor.zones[editor.edited] EXCEPT !.lower = value] = zone
  <2>1. editor.zones[editor.edited] =
            [lower |-> editor.lower, upper |-> editor.upper, state |-> editor.state]
    BY <1>1, EditedZone
  <2> QED
    BY <2>1
<1>5. [editor.zones EXCEPT ![editor.edited].lower = value] = zones
  BY <1>4
<1>6. zones \in Zones
  <2> HIDE DEF zone
  <2> QED
    BY <1>1, <1>2, <1>3, EditedZone, ReplacedType
<1> HIDE DEF zones
<1>7. editor' = [editor EXCEPT !.lower = value, !.upper_min = value, !.zones = zones]
  BY <1>1, <1>5, EditedZone DEF Editors
<1>8. editor \in Editors
  BY DEF EditorFits
<1>9. editor' \in Editors
  BY <1>6, <1>7, <1>8 DEF Editors
<1>10. /\ editor'.edited = editor.edited /\ editor'.selection = editor.selection
       /\ editor'.zones = zones /\ editor'.lower = value
       /\ editor'.upper = editor.upper /\ editor'.state = editor.state
       /\ editor'.lower_max = editor.lower_max /\ editor'.upper_min = value
  BY <1>7, <1>8 DEF Editors
<1>11. editor.lower_max = editor.upper /\ editor.upper \in Int /\ editor.state \in States
  BY <1>1, EditedZone
<1>12. ChangedTo(editor, editor', value, editor.upper, editor.state)
  BY <1>10, <1>11 DEF ChangedTo, zones
<1> QED
  BY <1>1, <1>2, <1>9, <1>11, <1>12, ChangedFits

LEMMA SetUpperFits ==
    ASSUME EditorFits(editor), NEW value \in Int, SetUpper(value)
    PROVE  EditorFits(editor')
<1>1. editor.edited # 0 /\ editor.upper_min <= value
      /\ editor' = [editor EXCEPT !.upper = value, !.lower_max = value,
                                  !.zones[editor.edited].upper = value]
  BY DEF SetUpper, EditZones, RangeAfterUpper
<1> DEFINE zone == [lower |-> editor.lower, upper |-> value, state |-> editor.state]
           zones == [editor.zones EXCEPT ![editor.edited] = zone]
<1>2. zone \in ZoneRecords /\ editor.lower <= value
  BY <1>1, EditedZone DEF ZoneRecords
<1>3. zone.lower <= zone.upper
  BY <1>2
<1>4. [editor.zones[editor.edited] EXCEPT !.upper = value] = zone
  <2>1. editor.zones[editor.edited] =
            [lower |-> editor.lower, upper |-> editor.upper, state |-> editor.state]
    BY <1>1, EditedZone
  <2> QED
    BY <2>1
<1>5. [editor.zones EXCEPT ![editor.edited].upper = value] = zones
  BY <1>4
<1>6. zones \in Zones
  <2> HIDE DEF zone
  <2> QED
    BY <1>1, <1>2, <1>3, EditedZone, ReplacedType
<1> HIDE DEF zones
<1>7. editor' = [editor EXCEPT !.upper = value, !.lower_max = value, !.zones = zones]
  BY <1>1, <1>5, EditedZone DEF Editors
<1>8. editor \in Editors
  BY DEF EditorFits
<1>9. editor' \in Editors
  BY <1>6, <1>7, <1>8 DEF Editors
<1>10. /\ editor'.edited = editor.edited /\ editor'.selection = editor.selection
       /\ editor'.zones = zones /\ editor'.lower = editor.lower
       /\ editor'.upper = value /\ editor'.state = editor.state
       /\ editor'.lower_max = value /\ editor'.upper_min = editor.upper_min
  BY <1>7, <1>8 DEF Editors
<1>11. editor.upper_min = editor.lower /\ editor.lower \in Int /\ editor.state \in States
  BY <1>1, EditedZone
<1>12. ChangedTo(editor, editor', editor.lower, value, editor.state)
  BY <1>10, <1>11 DEF ChangedTo, zones
<1> QED
  BY <1>1, <1>2, <1>9, <1>11, <1>12, ChangedFits

LEMMA SetStateFits ==
    ASSUME EditorFits(editor), NEW state \in States, SetState(state)
    PROVE  EditorFits(editor')
<1>1. editor.edited # 0
      /\ editor' = [editor EXCEPT !.state = state, !.zones[editor.edited].state = state]
  BY DEF SetState, EditZones
<1> DEFINE zone == [lower |-> editor.lower, upper |-> editor.upper, state |-> state]
           zones == [editor.zones EXCEPT ![editor.edited] = zone]
<1>2. zone \in ZoneRecords /\ editor.lower <= editor.upper
  BY <1>1, EditedZone DEF ZoneRecords
<1>3. zone.lower <= zone.upper
  BY <1>2
<1>4. [editor.zones[editor.edited] EXCEPT !.state = state] = zone
  <2>1. editor.zones[editor.edited] =
            [lower |-> editor.lower, upper |-> editor.upper, state |-> editor.state]
    BY <1>1, EditedZone
  <2> QED
    BY <2>1
<1>5. [editor.zones EXCEPT ![editor.edited].state = state] = zones
  BY <1>4
<1>6. zones \in Zones
  <2> HIDE DEF zone
  <2> QED
    BY <1>1, <1>2, <1>3, EditedZone, ReplacedType
<1> HIDE DEF zones
<1>7. editor' = [editor EXCEPT !.state = state, !.zones = zones]
  BY <1>1, <1>5, EditedZone DEF Editors
<1>8. editor \in Editors
  BY DEF EditorFits
<1>9. editor' \in Editors
  BY <1>6, <1>7, <1>8 DEF Editors
<1>10. /\ editor'.edited = editor.edited /\ editor'.selection = editor.selection
       /\ editor'.zones = zones /\ editor'.lower = editor.lower
       /\ editor'.upper = editor.upper /\ editor'.state = state
       /\ editor'.lower_max = editor.lower_max /\ editor'.upper_min = editor.upper_min
  BY <1>7, <1>8 DEF Editors
<1>11. /\ editor.upper_min = editor.lower /\ editor.lower_max = editor.upper
       /\ editor.lower \in Int /\ editor.upper \in Int
  BY <1>1, EditedZone
<1>12. ChangedTo(editor, editor', editor.lower, editor.upper, state)
  BY <1>10, <1>11 DEF ChangedTo, zones
<1> QED
  BY <1>1, <1>2, <1>9, <1>11, <1>12, ChangedFits

-----------------------------------------------------------------------------
(* Every step keeps the invariant.                                         *)

LEMMA FormInitInv == FormInit => FormInv
<1> SUFFICES ASSUME FormInit  PROVE FormInv
  OBVIOUS
<1>1. tree = Closed.tree /\ browser = Closed /\ editor = EmptyEditor
  BY DEF FormInit, Closed
<1>2. tree \in Trees /\ IsTree(tree) /\ BrowserFits(browser)
  <2>1. tree \in Trees
    BY DEF FormInit, Trees
  <2> QED
    BY <1>1, <2>1, ClosedFits
<1>3. EarlierTree
  BY <1>1 DEF EarlierTree
<1>4. KeyFits
  BY FormAssumption DEF FormInit, KeyFits, KeyRecords
<1>5. zone_text \in Zones
  BY ConfiguredType, ZonesWrittenType DEF FormInit
<1>6. EditorFits(editor)
  BY <1>1, EmptyFits
<1> QED
  BY <1>2, <1>3, <1>4, <1>5, <1>6 DEF FormInv

LEMMA DeltaStep ==
    ASSUME FormInv, NEW path \in DataPaths, NEW source \in Sources \cup {Unsaid},
           Delta(path, source)
    PROVE  FormInv'
<1> DEFINE upto == {SubSeq(path, 1, n) : n \in 1 .. Len(path)}
           sent == IF source = Unsaid THEN tree.sources
                   ELSE tree.sources \cup {<<path, source>>}
<1>1. path \in Seq(Nat) /\ path # <<>>
  <2>1. path \in Seq(Nat \ {0}) /\ path # <<>>
    BY FormAssumption
  <2>2. Seq(Nat \ {0}) \subseteq Seq(Nat)
    OBVIOUS
  <2> QED
    BY <2>1, <2>2
<1>2. tree' = [nodes |-> tree.nodes \cup upto, sources |-> sent]
  BY DEF Delta
<1>3. /\ tree.nodes \subseteq Seq(Nat) /\ Root \notin tree.nodes
      /\ tree.sources \subseteq Seq(Nat) \X Sources
      /\ ClosedUpwards(tree.nodes)
  BY DEF FormInv, IsTree
<1>4. PICK depth \in Nat : NoDeeper(tree.nodes, depth)
  BY DEF FormInv, IsTree
<1>5. \A p \in upto : /\ p \in Seq(Nat) /\ p # <<>> /\ Len(p) \in 1 .. Len(path)
                      /\ \A n \in 1 .. Len(p) : SubSeq(p, 1, n) \in upto
  <2>1. TAKE p \in upto
  <2>2. PICK m \in 1 .. Len(path) : p = SubSeq(path, 1, m)
    OBVIOUS
  <2>3. m \in 0 .. Len(path) /\ \A n \in 1 .. m : n \in 0 .. m /\ n \in 1 .. Len(path)
    BY <1>1
  <2>4. /\ p \in Seq(Nat) /\ Len(p) = m
        /\ \A n \in 1 .. m : SubSeq(p, 1, n) = SubSeq(path, 1, n)
    BY <1>1, <2>2, <2>3, PrefixFacts
  <2>5. p # <<>>
    BY <2>2, <2>4
  <2>6. \A n \in 1 .. Len(p) : SubSeq(p, 1, n) \in upto
    BY <2>3, <2>4
  <2>7. Len(p) \in 1 .. Len(path)
    BY <2>2, <2>4
  <2> QED
    BY <2>4, <2>5, <2>6, <2>7
<1>6. sent \subseteq Seq(Nat) \X Sources /\ tree.sources \subseteq sent
  BY <1>1, <1>3
<1> HIDE DEF upto, sent
<1>7. IsTree(tree')
  <2>1. tree'.nodes = tree.nodes \cup upto /\ tree'.sources = sent
    BY <1>2
  <2>2. tree'.nodes \subseteq Seq(Nat) /\ Root \notin tree'.nodes
    BY <1>3, <1>5, <2>1 DEF Root
  <2>3. ClosedUpwards(tree'.nodes)
    BY <1>3, <1>5, <2>1 DEF ClosedUpwards
  <2>4. NoDeeper(tree'.nodes, depth + Len(path))
    <3>1. Len(path) \in Nat
      BY <1>1
    <3>2. \A p \in tree.nodes : Len(p) \in Nat /\ Len(p) <= depth
      <4>1. \A p \in tree.nodes : p \in Seq(Nat)
        BY <1>3
      <4>2. \A p \in Seq(Nat) : Len(p) \in Nat
        OBVIOUS
      <4> QED
        BY <1>4, <4>1, <4>2 DEF NoDeeper
    <3>3. \A p \in upto : Len(p) \in Nat /\ Len(p) <= Len(path)
      BY <1>5, <3>1
    <3>4. \A p \in tree.nodes \cup upto : Len(p) <= depth + Len(path)
      <4>1. \A p \in tree.nodes : Len(p) <= depth + Len(path)
        BY <3>1, <3>2
      <4>2. \A p \in upto : Len(p) <= depth + Len(path)
        BY <3>1, <3>3
      <4> QED
        BY <4>1, <4>2
    <3> QED
      BY <3>4, <2>1 DEF NoDeeper
  <2>5. depth + Len(path) \in Nat
    BY <1>1
  <2> QED
    BY <1>6, <2>1, <2>2, <2>3, <2>4, <2>5 DEF IsTree
<1>8. tree' \in Trees
  BY <1>2, <1>7 DEF IsTree, Trees
<1>9. EarlierTree'
  BY <1>2, <1>6 DEF FormInv, EarlierTree, Delta
<1>10. KeyFits' /\ zone_text' \in Zones
  BY DEF Delta, FormInv, KeyFits
<1>11. BrowserFits(browser') /\ EditorFits(editor')
  BY DEF Delta, FormInv
<1> QED
  BY <1>7, <1>8, <1>9, <1>10, <1>11 DEF FormInv

(* The steps of the browser leave the tree and the zones alone.            *)
LEMMA BrowserStep ==
    ASSUME FormInv, UNCHANGED <<tree, zone_text, editor>>,
           BrowserFits(browser'), KeyFits',
           browser'.tree \in {tree, browser.tree, Closed.tree}
    PROVE  FormInv'
<1>1. /\ browser'.tree.nodes \subseteq tree.nodes
      /\ browser'.tree.sources \subseteq tree.sources
  BY DEF FormInv, EarlierTree, Closed
<1> QED
  BY <1>1 DEF FormInv, EarlierTree

LEMMA OpenBrowserStep == FormInv /\ OpenBrowser => FormInv'
<1> SUFFICES ASSUME FormInv, OpenBrowser  PROVE FormInv'
  OBVIOUS
<1> DEFINE copied == [Closed EXCEPT !.tree = tree]
           at == IF key.path = <<>> THEN copied
                 ELSE Selected(copied, Reached(tree.nodes, key.path))
<1>1. browser' = IF key.mode # "specific" THEN [at EXCEPT !.mode = key.mode]
                 ELSE [at EXCEPT !.choice = Preselected(at, key.source)]
  BY DEF OpenBrowser
<1>2. copied \in Browsers /\ copied.tree = tree /\ IsTree(tree)
      /\ copied.selected = Unsaid /\ copied.choices = {} /\ copied.choice = Unsaid
  <2>1. Closed \in Browsers /\ Closed.selected = Unsaid /\ Closed.choices = {}
        /\ Closed.choice = Unsaid
    BY ClosedFits DEF BrowserFits, Closed
  <2>2. tree \in Trees /\ IsTree(tree)
    BY DEF FormInv
  <2> QED
    BY <2>1, <2>2 DEF Browsers
<1>3. BrowserFits(copied)
  BY <1>2 DEF BrowserFits
<1>4. key.path \in Seq(Nat) /\ key.mode \in Modes
  BY DEF FormInv, KeyFits, KeyRecords
<1>5. Reached(tree.nodes, key.path) \in tree.nodes \cup {Root}
  BY <1>2, <1>4, ReachedType
<1> HIDE DEF copied
<1>6. BrowserFits(at) /\ at.tree = tree
  BY <1>2, <1>3, <1>5, SelectedFits
<1> HIDE DEF at
<1>7. at \in Browsers /\ at.choice \in at.choices \cup {Unsaid}
  BY <1>6 DEF BrowserFits
<1>8. \A mode \in Modes : \A choice \in at.choices \cup {Unsaid} :
          /\ BrowserFits([at EXCEPT !.choice = choice, !.mode = mode])
          /\ [at EXCEPT !.choice = choice, !.mode = mode].tree = tree
  BY <1>6, <1>7, ChosenFits DEF Browsers
<1>9. \E mode \in Modes : \E choice \in at.choices \cup {Unsaid} :
          browser' = [at EXCEPT !.choice = choice, !.mode = mode]
  <2>1. Preselected(at, key.source) \in at.choices \cup {Unsaid}
    BY <1>7, PreselectedType
  <2>2. at.mode \in Modes
    BY <1>7 DEF Browsers
  <2>3. CASE key.mode # "specific"
    <3>1. browser' = [at EXCEPT !.choice = at.choice, !.mode = key.mode]
      BY <1>1, <1>7, <2>3 DEF Browsers
    <3> QED
      BY <3>1, <1>4, <1>7
  <2>4. CASE key.mode = "specific"
    <3>1. browser' = [at EXCEPT !.choice = Preselected(at, key.source), !.mode = at.mode]
      BY <1>1, <1>7, <2>4 DEF Browsers
    <3> QED
      BY <3>1, <2>1, <2>2
  <2> QED
    BY <2>3, <2>4
<1>10. BrowserFits(browser') /\ browser'.tree = tree
  <2>1. PICK mode \in Modes, choice \in at.choices \cup {Unsaid} :
            browser' = [at EXCEPT !.choice = choice, !.mode = mode]
    BY <1>9
  <2> DEFINE after == [at EXCEPT !.choice = choice, !.mode = mode]
  <2>2. BrowserFits(after) /\ after.tree = tree
    BY <1>8
  <2> HIDE DEF after
  <2>3. browser' = after
    BY <2>1 DEF after
  <2> QED
    BY <2>2, <2>3
<1>11. UNCHANGED <<tree, key, zone_text, editor>>
  BY DEF OpenBrowser
<1>12. KeyFits'
  BY <1>11 DEF FormInv, KeyFits
<1> QED
  BY <1>10, <1>11, <1>12, BrowserStep

LEMMA SelectNodeStep ==
    ASSUME FormInv, NEW path \in browser.tree.nodes \cup {Root}, SelectNode(path)
    PROVE  FormInv'
<1>1. browser' = Selected(browser, path) /\ UNCHANGED <<tree, key, zone_text, editor>>
  BY DEF SelectNode
<1>2. browser \in Browsers /\ IsTree(browser.tree)
  BY DEF FormInv, BrowserFits
<1>3. BrowserFits(browser') /\ browser'.tree = browser.tree
  BY <1>1, <1>2, SelectedFits
<1>4. KeyFits'
  BY <1>1 DEF FormInv, KeyFits
<1> QED
  BY <1>1, <1>3, <1>4, BrowserStep

LEMMA ChooseStep ==
    ASSUME FormInv,
           \/ \E source \in Sources : ChooseSource(source)
           \/ \E mode \in Modes : ChooseMode(mode)
    PROVE  FormInv'
<1>1. BrowserFits(browser) /\ browser \in Browsers
      /\ browser.choice \in browser.choices \cup {Unsaid} /\ browser.mode \in Modes
  BY DEF FormInv, BrowserFits, Browsers
<1>2. \E mode \in Modes : \E choice \in browser.choices \cup {Unsaid} :
          browser' = [browser EXCEPT !.choice = choice, !.mode = mode]
  <2>1. CASE \E source \in Sources : ChooseSource(source)
    <3>1. PICK source \in Sources : ChooseSource(source)
      BY <2>1
    <3>2. browser' = [browser EXCEPT !.choice = source, !.mode = browser.mode]
          /\ source \in browser.choices
      BY <1>1, <3>1 DEF ChooseSource, Browsers
    <3> QED
      BY <1>1, <3>2
  <2>2. CASE \E mode \in Modes : ChooseMode(mode)
    <3>1. PICK mode \in Modes : ChooseMode(mode)
      BY <2>2
    <3>2. browser' = [browser EXCEPT !.choice = browser.choice, !.mode = mode]
      BY <1>1, <3>1 DEF ChooseMode, Browsers
    <3> QED
      BY <1>1, <3>2
  <2> QED
    BY <2>1, <2>2
<1>3. UNCHANGED <<tree, key, zone_text, editor>>
  BY DEF ChooseSource, ChooseMode
<1>4. BrowserFits(browser') /\ browser'.tree = browser.tree
  <2>1. PICK mode \in Modes, choice \in browser.choices \cup {Unsaid} :
            browser' = [browser EXCEPT !.choice = choice, !.mode = mode]
    BY <1>2
  <2> DEFINE after == [browser EXCEPT !.choice = choice, !.mode = mode]
  <2>2. BrowserFits(after) /\ after.tree = browser.tree
    BY <1>1, ChosenFits DEF Browsers
  <2> HIDE DEF after
  <2>3. browser' = after
    BY <2>1 DEF after
  <2> QED
    BY <2>2, <2>3
<1>5. KeyFits'
  BY <1>3 DEF FormInv, KeyFits
<1> QED
  BY <1>3, <1>4, <1>5, BrowserStep

LEMMA AcceptKeyStep == FormInv /\ AcceptKey => FormInv'
<1> SUFFICES ASSUME FormInv, AcceptKey  PROVE FormInv'
  OBVIOUS
<1>1. browser' = Closed /\ key' = GetSKPath(browser)
      /\ UNCHANGED <<tree, zone_text, editor>>
  BY DEF AcceptKey
<1>2. KeyFits'
  BY <1>1, PickedFits DEF FormInv, KeyFits
<1> QED
  BY <1>1, <1>2, ClosedFits, BrowserStep

(* The steps of the zone editor leave the tree and the browser alone.      *)
LEMMA EditorStep ==
    ASSUME FormInv, UNCHANGED <<tree, key, browser>>, zone_text' \in Zones,
           EditorFits(editor')
    PROVE  FormInv'
BY DEF FormInv, KeyFits, EarlierTree

LEMMA OpenZonesStep == FormInv /\ OpenZones => FormInv'
<1> SUFFICES ASSUME FormInv, OpenZones  PROVE FormInv'
  OBVIOUS
<1> DEFINE parsed == [EmptyEditor EXCEPT !.zones = zone_text]
<1>1. zone_text \in Zones /\ Parsed(zone_text) = zone_text
  BY ParsedSame DEF FormInv
<1>2. editor' = Filled(IF zone_text = <<>> THEN parsed ELSE Edit(parsed, 1))
      /\ UNCHANGED <<tree, key, zone_text, browser>>
  BY <1>1 DEF OpenZones
<1>3. CASE zone_text = <<>>
  <2>1. parsed = EmptyEditor
    BY <1>3 DEF EmptyEditor
  <2>2. editor' = Filled(EmptyEditor)
    BY <1>2, <1>3, <2>1
  <2>3. /\ EmptyEditor.edited = EmptyEditor.selection
        /\ EmptyEditor.edited <= Len(EmptyEditor.zones)
        /\ EmptyEditor.zones = <<>>
    BY DEF EmptyEditor
  <2>4. EditorFits(editor')
    BY <2>2, <2>3, EmptyFits, FilledFits
  <2> QED
    BY <1>1, <1>2, <2>4, EditorStep
<1>4. CASE zone_text # <<>>
  <2>1. 1 \in 0 .. Len(zone_text)
    <3>1. zone_text \in Seq(ZoneRecords)
      BY <1>1 DEF Zones
    <3> QED
      BY <3>1, <1>4
  <2>2. EditorFits(Filled(Edit(parsed, 1)))
    BY <1>1, <2>1, EmptyFits, EditFits
  <2> QED
    BY <1>1, <1>2, <1>4, <2>2, EditorStep
<1> QED
  BY <1>3, <1>4

LEMMA SelectZoneStep ==
    ASSUME FormInv, NEW i \in DOMAIN editor.zones, SelectZone(i)
    PROVE  FormInv'
<1>1. editor \in Editors /\ editor.zones \in Zones
  BY DEF FormInv, EditorFits, Editors
<1>2. i \in 0 .. Len(editor.zones) /\ i # 0
  BY <1>1, ZonesFacts
<1>3. editor = [editor EXCEPT !.zones = editor.zones]
  BY <1>1 DEF Editors
<1>4. EditorFits(Filled(Edit(editor, i)))
  BY <1>1, <1>2, <1>3, EditFits
<1>5. editor' = Filled(Edit(editor, i)) /\ UNCHANGED <<tree, key, zone_text, browser>>
  BY DEF SelectZone, EditZones
<1>6. zone_text' \in Zones
  BY <1>5 DEF FormInv
<1> QED
  BY <1>4, <1>5, <1>6, EditorStep

LEMMA AddZoneStep == FormInv /\ AddZone => FormInv'
<1> SUFFICES ASSUME FormInv, AddZone  PROVE FormInv'
  OBVIOUS
<1> DEFINE zones == Append(editor.zones, [lower |-> 0, upper |-> 0, state |-> 1])
<1>1. editor \in Editors /\ editor.zones \in Zones
  BY DEF FormInv, EditorFits, Editors
<1>2. zones \in Zones /\ Len(zones) = Len(editor.zones) + 1
  BY <1>1, AppendedType
<1>3. editor' = Filled(Edit([editor EXCEPT !.zones = zones], Len(zones)))
      /\ UNCHANGED <<tree, key, zone_text, browser>>
  BY DEF AddZone, EditZones
<1> HIDE DEF zones
<1>4. Len(zones) \in 0 .. Len(zones) /\ Len(zones) # 0
  BY <1>1, <1>2, ZonesFacts
<1>5. EditorFits(editor')
  BY <1>1, <1>2, <1>3, <1>4, EditFits
<1>6. zone_text' \in Zones
  BY <1>3 DEF FormInv
<1> QED
  BY <1>3, <1>5, <1>6, EditorStep

LEMMA RemoveZoneStep == FormInv /\ RemoveZone => FormInv'
<1> SUFFICES ASSUME FormInv, RemoveZone  PROVE FormInv'
  OBVIOUS
<1> DEFINE zones == RemoveAt(editor.zones, editor.selection)
           sel == SelectionAfterRemoval(editor.selection, Len(zones))
<1>1. /\ editor \in Editors /\ editor.zones \in Zones
      /\ editor.edited = editor.selection /\ editor.edited <= Len(editor.zones)
      /\ editor.selection \in Nat
  BY DEF FormInv, EditorFits, Editors
<1>2. /\ editor.selection # 0
      /\ editor' = Filled(Edit([editor EXCEPT !.zones = zones], sel))
      /\ UNCHANGED <<tree, key, zone_text, browser>>
  BY DEF RemoveZone, EditZones
<1>3. editor.selection \in 1 .. Len(editor.zones) /\ Len(editor.zones) \in Nat
  BY <1>1, <1>2, ZonesFacts
<1>4. zones \in Zones /\ Len(zones) = Len(editor.zones) - 1
  BY <1>1, <1>3, RemovedType
<1> HIDE DEF zones
<1>5. sel \in 0 .. Len(zones) /\ (sel = 0 => Len(zones) = 0)
  BY <1>3, <1>4 DEF SelectionAfterRemoval
<1>6. sel = 0 => zones = <<>>
  <2>1. zones \in Seq(ZoneRecords)
    BY <1>4 DEF Zones
  <2> QED
    BY <1>5, <2>1
<1> HIDE DEF sel
<1>7. EditorFits(editor')
  BY <1>1, <1>2, <1>4, <1>5, <1>6, EditFits
<1>8. zone_text' \in Zones
  BY <1>2 DEF FormInv
<1> QED
  BY <1>2, <1>7, <1>8, EditorStep

LEMMA HandlerStep ==
    ASSUME FormInv,
           \/ \E value \in Limits : SetLower(value) \/ SetUpper(value)
           \/ \E state \in States : SetState(state)
    PROVE  FormInv'
<1>1. \A value \in Limits : value \in Int
  BY FormAssumption
<1>2. EditorFits(editor')
  BY <1>1, SetLowerFits, SetUpperFits, SetStateFits DEF FormInv
<1>3. UNCHANGED <<tree, key, zone_text, browser>>
  BY DEF SetLower, SetUpper, SetState, EditZones
<1>4. zone_text' \in Zones
  BY <1>3 DEF FormInv
<1> QED
  BY <1>2, <1>3, <1>4, EditorStep

LEMMA AcceptZonesStep == FormInv /\ AcceptZones => FormInv'
<1> SUFFICES ASSUME FormInv, AcceptZones  PROVE FormInv'
  OBVIOUS
<1>1. editor' = EmptyEditor /\ zone_text' = ZonesWritten(editor.zones)
      /\ UNCHANGED <<tree, key, browser>>
  BY DEF AcceptZones
<1>2. editor.zones \in Zones
  BY DEF FormInv, EditorFits, Editors
<1> QED
  BY <1>1, <1>2, ZonesWrittenType, EmptyFits, EditorStep

LEMMA CancelStep == FormInv /\ Cancel => FormInv'
<1> SUFFICES ASSUME FormInv, Cancel  PROVE FormInv'
  OBVIOUS
<1>1. editor' = EmptyEditor /\ browser' = Closed /\ UNCHANGED <<tree, key, zone_text>>
  BY DEF Cancel
<1>2. BrowserFits(browser') /\ EditorFits(editor')
  BY <1>1, ClosedFits, EmptyFits
<1>3. EarlierTree' /\ KeyFits'
  BY <1>1 DEF FormInv, KeyFits, EarlierTree, Closed
<1> QED
  BY <1>1, <1>2, <1>3 DEF FormInv

LEMMA FormStep == FormInv /\ [FormNext]_form_vars => FormInv'
<1> SUFFICES ASSUME FormInv, [FormNext]_form_vars  PROVE FormInv'
  OBVIOUS
<1>1. CASE \E path \in DataPaths, source \in Sources \cup {Unsaid} : Delta(path, source)
  BY <1>1, DeltaStep
<1>2. CASE \E k \in TypedKeys : TypeKey(k)
  <2>1. KeyFits' /\ UNCHANGED <<tree, zone_text, browser, editor>>
    BY <1>2, FormAssumption DEF TypeKey, KeyFits, KeyRecords
  <2> QED
    BY <2>1 DEF FormInv, EarlierTree
<1>3. CASE \E path \in browser.tree.nodes \cup {Root} : SelectNode(path)
  BY <1>3, SelectNodeStep
<1>4. CASE \/ \E source \in Sources : ChooseSource(source)
           \/ \E mode \in Modes : ChooseMode(mode)
  BY <1>4, ChooseStep
<1>5. CASE \E i \in DOMAIN editor.zones : SelectZone(i)
  BY <1>5, SelectZoneStep
<1>6. CASE \/ \E value \in Limits : SetLower(value) \/ SetUpper(value)
           \/ \E state \in States : SetState(state)
  BY <1>6, HandlerStep
<1>7. CASE UNCHANGED form_vars
  BY <1>7 DEF form_vars, FormInv, KeyFits, EarlierTree
<1> QED
  BY <1>1, <1>2, <1>3, <1>4, <1>5, <1>6, <1>7, OpenBrowserStep, AcceptKeyStep,
     OpenZonesStep, AddZoneStep, RemoveZoneStep, AcceptZonesStep, CancelStep
     DEF FormNext

LEMMA FormInvariant == FormSpec => []FormInv
BY FormInitInv, FormStep, PTL DEF FormSpec

-----------------------------------------------------------------------------
(* No edit takes a zone its effect, and the controls show the zone that is *)
(* selected: every interval of the editor stays in order, as the range of  *)
(* each limit ends at the other.                                           *)
LEMMA OrderedEffective ==
    ASSUME NEW zones \in Zones
    PROVE  Effective(zones)
<1> SUFFICES ASSUME NEW i \in DOMAIN zones,
                    NEW value \in {zones[i].lower, zones[i].upper}
             PROVE  StateOf(zones, value) >= zones[i].state
  BY DEF Effective
<1> DEFINE containing ==
               {j \in DOMAIN zones : zones[j].lower <= value /\ value <= zones[j].upper}
           states == {0} \cup {zones[j].state : j \in containing}
<1>1. \A j \in DOMAIN zones :
          /\ zones[j].lower \in Int /\ zones[j].upper \in Int
          /\ zones[j].state \in States /\ zones[j].lower <= zones[j].upper
  BY ZonesFacts
<1>2. i \in containing
  BY <1>1
<1>3. states \subseteq Nat /\ states # {} /\ \A s \in states : s <= 5
  BY <1>1 DEF States
<1>4. zones[i].state \in states
  BY <1>2
<1>5. StateOf(zones, value) = Greatest(states)
  BY DEF StateOf
<1> HIDE DEF states
<1>6. zones[i].state <= Greatest(states) /\ Greatest(states) \in Nat
      /\ zones[i].state \in Nat
  BY <1>3, <1>4, GreatestType
<1> QED
  BY <1>5, <1>6

THEOREM EveryZoneTakesEffect == FormSpec => []ZonesTakeEffect
<1>1. FormInv => ZonesTakeEffect
  <2> SUFFICES ASSUME FormInv  PROVE ZonesTakeEffect
    OBVIOUS
  <2>1. editor.zones \in Zones /\ zone_text \in Zones /\ EditorFits(editor)
    BY DEF FormInv, EditorFits, Editors
  <2>2. Effective(editor.zones) /\ Effective(Parsed(zone_text))
    BY <2>1, OrderedEffective, ParsedSame
  <2> QED
    BY <2>1, <2>2 DEF ZonesTakeEffect, EditorFits
<1> QED
  BY <1>1, FormInvariant, PTL

(* A picked key exists with its source: the browser's tree is an earlier   *)
(* one of a tree that only grows, its list of sources is that of the node  *)
(* selected, and the first branches below a node end in the tree.          *)
THEOREM PickedExists == FormSpec => PickedKeyExists
<1>1. FormInv /\ [FormNext]_form_vars =>
          [/\ AcceptKey
           /\ browser.selected \notin {Unsaid, Root}
           /\ IsLeaf(browser.tree.nodes, browser.selected) \/ browser.choices = {}
           => /\ key'.path \in tree.nodes
              /\ key'.source = Unsaid
                 \/ <<key'.path, key'.source>> \in tree.sources]_form_vars
  <2> SUFFICES ASSUME FormInv, AcceptKey,
                      browser.selected \notin {Unsaid, Root},
                      IsLeaf(browser.tree.nodes, browser.selected)
                        \/ browser.choices = {}
               PROVE  /\ key'.path \in tree.nodes
                      /\ key'.source = Unsaid
                         \/ <<key'.path, key'.source>> \in tree.sources
    OBVIOUS
  <2> DEFINE nodes == browser.tree.nodes
             leaf == FirstLeaf(nodes, browser.selected)
  <2>1. /\ IsTree(browser.tree) /\ browser.selected \in nodes
        /\ browser.choices = Listed(browser, browser.selected)
        /\ browser.choice \in browser.choices \cup {Unsaid}
        /\ nodes \subseteq tree.nodes
        /\ browser.tree.sources \subseteq tree.sources
    BY DEF FormInv, BrowserFits, EarlierTree
  <2>2. leaf \in nodes
    BY <2>1, FirstLeafExists
  <2>3. key' = Key(leaf, browser.mode,
                   IF browser.mode = "specific" THEN browser.choice ELSE Unsaid)
    BY DEF AcceptKey, GetSKPath, PickedPath
  <2>4. CASE IsLeaf(nodes, browser.selected)
    <3>1. leaf = browser.selected
      BY <2>1, <2>4, FirstLeafOfLeaf
    <3>2. \A source \in browser.choices : <<leaf, source>> \in tree.sources
      BY <2>1, <3>1 DEF Listed
    <3> QED
      BY <2>1, <2>2, <2>3, <3>2 DEF Key
  <2>5. CASE browser.choices = {}
    BY <2>1, <2>2, <2>3, <2>5 DEF Key
  <2> QED
    BY <2>4, <2>5
<1> QED
  BY <1>1, FormInvariant, PTL DEF FormSpec, PickedKeyExists

(* OK in a browser just opened keeps the key: the path leads to its own    *)
(* leaf, and its source is in the list of that leaf.                       *)
THEOREM KeyKeptByOK == FormSpec => KeyKept
<1>1. FormInv /\ [FormNext]_form_vars =>
          [/\ OpenBrowser
           /\ IsLeaf(tree.nodes, key.path)
           /\ \/ key.mode # "specific"
              \/ /\ <<key.path, key.source>> \in tree.sources
                 /\ \A s \in Sources :
                        <<key.path, s>> \in tree.sources /\ Folded[s] = Folded[key.source]
                        => key.source <= s
           => GetSKPath(browser') = key]_form_vars
  <2> SUFFICES ASSUME FormInv, OpenBrowser, IsLeaf(tree.nodes, key.path),
                      \/ key.mode # "specific"
                      \/ /\ <<key.path, key.source>> \in tree.sources
                         /\ \A s \in Sources :
                                <<key.path, s>> \in tree.sources /\ Folded[s] = Folded[key.source]
                                => key.source <= s
               PROVE  GetSKPath(browser') = key
    OBVIOUS
  <2> DEFINE copied == [Closed EXCEPT !.tree = tree]
             at == Selected(copied, key.path)
  <2>1. /\ tree \in Trees /\ IsTree(tree) /\ key \in KeyRecords
        /\ key.mode # "specific" => key.source = Unsaid
    BY DEF FormInv, KeyFits
  <2>2. key.path \in tree.nodes /\ key.path \in Seq(Nat) /\ key.path # Root
    BY <2>1 DEF IsLeaf, IsTree
  <2>3. key.path # Unsaid /\ key.path # <<>>
    BY <2>2, FormAssumption DEF Root
  <2>4. Reached(tree.nodes, key.path) = key.path
    BY <2>1, <2>2, ReachedType
  <2>5. browser' = IF key.mode # "specific" THEN [at EXCEPT !.mode = key.mode]
                   ELSE [at EXCEPT !.choice = Preselected(at, key.source)]
    BY <2>3, <2>4 DEF OpenBrowser
  <2>6. copied \in Browsers /\ copied.tree = tree /\ copied.mode = "specific"
    <3>1. Closed \in Browsers /\ Closed.mode = "specific"
      BY ClosedFits DEF BrowserFits, Closed
    <3> QED
      BY <3>1, <2>1 DEF Browsers
  <2> HIDE DEF copied
  <2>7. /\ BrowserFits(at) /\ at.tree = tree /\ at.mode = "specific"
        /\ at.selected = key.path /\ at.choices = Listed(copied, key.path)
    BY <2>1, <2>2, <2>6, SelectedFits
  <2> HIDE DEF at
  <2>8. at \in Browsers
    BY <2>7 DEF BrowserFits
  <2>9. /\ browser'.tree = tree /\ browser'.selected = key.path
        /\ browser'.mode = key.mode
        /\ key.mode = "specific" => browser'.choice = key.source
    <3>1. CASE key.mode # "specific"
      <4>1. browser' = [at EXCEPT !.mode = key.mode]
        BY <2>5, <3>1
      <4> QED
        BY <4>1, <3>1, <2>7, <2>8 DEF Browsers
    <3>2. CASE key.mode = "specific"
      <4>1. key.source \in at.choices
        <5>1. <<key.path, key.source>> \in tree.sources
          BY <3>2
        <5>2. key.source \in Sources
          BY <2>1, <5>1 DEF IsTree
        <5> QED
          BY <2>6, <2>7, <5>1, <5>2 DEF Listed
      <4>2. \A s \in at.choices :
                Folded[s] = Folded[key.source] => key.source <= s
        BY <3>2, <2>6, <2>7 DEF Listed
      <4>3. browser' = [at EXCEPT !.choice = key.source]
        BY <2>5, <2>8, <3>2, <4>1, <4>2, PreselectedItself
      <4> QED
        BY <4>3, <3>2, <2>7, <2>8 DEF Browsers
    <3> QED
      BY <3>1, <3>2
  <2>10. FirstLeaf(tree.nodes, key.path) = key.path
    BY <2>1, <2>2, FirstLeafOfLeaf
  <2>11. PickedPath(browser') = key.path
    BY <2>2, <2>3, <2>9, <2>10 DEF PickedPath
  <2>12. key = Key(key.path, key.mode, key.source)
    BY <2>1 DEF Key, KeyRecords
  <2> QED
    BY <2>1, <2>9, <2>11, <2>12 DEF GetSKPath
<1> QED
  BY <1>1, FormInvariant, PTL DEF FormSpec, KeyKept
=============================================================================
