---------------------------- MODULE ConfigDialog ----------------------------
(***************************************************************************)
(* The preferences dialog while dashboards and instruments are created,    *)
(* selected, edited, moved, deleted and imported.  The objects live in the *)
(* plugin; the dialog keeps pointers to two of them, a list of names with  *)
(* a selection, controls with the settings of one instrument, and buttons  *)
(* that are enabled or not, all filled by hand in each handler.            *)
(*                                                                         *)
(* The settings of an instrument are one value, and an entry of the list   *)
(* is the instrument whose name it is.                                     *)
(***************************************************************************)
EXTENDS Naturals, SequencesExt

CONSTANTS
    MaxDashboards,   \* bounds the dashboards there are at once
    MaxInstruments,  \* bounds the instruments on a dashboard
    Settings,        \* settings of an instrument
    Named,           \* the same with name and title taken from the key, if
                     \* there is a key and they are still the default ones
    Typed,           \* settings the user enters
    Default,         \* those of a new instrument
    NoObject,        \* nullptr
    Blank,           \* the controls show nothing
    Closed,          \* the dialog is not open
    EditorConfigs,   \* what the user makes of the configuration as JSON
    InstrumentFiles, \* what a file of an instrument may contain
    DashboardFiles   \* what a file of a dashboard may contain

Dashboards == 1 .. MaxDashboards
(* An instrument stays on its dashboard: its address is the place it takes *)
(* among those of the dashboard.                                           *)
Instruments == Dashboards \X (1 .. MaxInstruments)
DashboardConfigs == BoundedSeq(Settings, MaxInstruments)
Configs == BoundedSeq(DashboardConfigs, MaxDashboards)

ASSUME DialogAssumption ==
    /\ MaxDashboards \in Nat /\ MaxInstruments \in Nat \ {0}
    /\ Default \in Settings
    /\ Typed \subseteq Settings /\ InstrumentFiles \subseteq Settings
    /\ Named \in [Settings -> Settings]
    /\ Blank \notin Settings
    /\ NoObject \notin Dashboards \cup Instruments
    /\ Closed \notin Configs
    /\ EditorConfigs \subseteq Configs
    /\ DashboardFiles \subseteq DashboardConfigs

VARIABLES
    dashboards,   \* m_dashboards: addresses, in their order
    instruments,  \* m_instruments of each dashboard
    setting,      \* the settings of each instrument
    ui,           \* the dialog
    orig_config   \* m_orig_config

vars == <<dashboards, instruments, setting, ui, orig_config>>
objectVars == <<dashboards, instruments, setting>>

(* Button "remove", "up" and "down" of the instrument list; the others are *)
(* enabled as long as they can do something.                               *)
Buttons == {"remove", "up", "down"}

(* "of" is whose settings the controls were last filled with.              *)
Forms == [of : Instruments \cup {NoObject}, value : Settings \cup {Blank}]
BlankForm == [of |-> NoObject, value |-> Blank]

Dialogs ==
    [dashboard : Dashboards \cup {NoObject},      \* m_edited_dashboard
     instrument : Instruments \cup {NoObject},    \* m_edited_instrument
     combo : 0 .. MaxDashboards,                  \* its selection, 0 if none
     list : BoundedSeq(Instruments, MaxInstruments),
     sel : 0 .. MaxInstruments,                   \* that of the list
     form : Forms, buttons : SUBSET Buttons]
EmptyDialog ==
    [dashboard |-> NoObject, instrument |-> NoObject, combo |-> 0,
     list |-> <<>>, sel |-> 0, form |-> BlankForm, buttons |-> {}]

TypeOK ==
    /\ dashboards \in BoundedSeq(Dashboards, MaxDashboards)
    /\ instruments \in [Dashboards -> BoundedSeq(Instruments, MaxInstruments)]
    /\ setting \in [Instruments -> Settings]
    /\ ui \in Dialogs
    /\ orig_config \in Configs \cup {Closed}

Init ==
    /\ dashboards = <<>>
    /\ instruments = [d \in Dashboards |-> <<>>]
    /\ setting = [i \in Instruments |-> Default]
    /\ ui = EmptyDialog
    /\ orig_config = Closed

-----------------------------------------------------------------------------
(* The objects.                                                            *)

GenerateJSONConfig ==
    [n \in DOMAIN dashboards |->
        [m \in DOMAIN instruments[dashboards[n]] |->
            setting[instruments[dashboards[n]][m]]]]

(* The instruments a dashboard at d is given by its configuration.         *)
Created(d, config) == [m \in DOMAIN config |-> <<d, m>>]

(* All objects are deleted and others created.                             *)
ReadConfig(config) ==
    /\ dashboards' = [n \in DOMAIN config |-> n]
    /\ instruments' = [d \in Dashboards |->
          IF d \in DOMAIN config THEN Created(d, config[d]) ELSE <<>>]
    /\ setting' = [i \in Instruments |->
          IF i[1] \in DOMAIN config /\ i[2] \in DOMAIN config[i[1]]
          THEN config[i[1]][i[2]] ELSE Default]

-----------------------------------------------------------------------------
(* What the handlers fill the dialog u with, given the present objects.    *)

Min2(a, b) == IF a < b THEN a ELSE b
ElementAt(seq, n) == IF n \in DOMAIN seq THEN seq[n] ELSE NoObject

(* Both pointers are set to null before objects are deleted.               *)
(* Mutant: only that to the dashboard is.                                  *)
WithoutDashboard(u) == [u EXCEPT !.dashboard = NoObject]
WithoutEdited(u) == [u EXCEPT !.dashboard = NoObject, !.instrument = NoObject]

ListOf(u, insts) == IF u.dashboard = NoObject THEN <<>> ELSE insts[u.dashboard]
FillInstrumentList(u, insts) == [u EXCEPT !.list = ListOf(u, insts), !.sel = 0]

(* Mutant: controls of no instrument are left as they are.                 *)
FillDetailsIfAny(u, set) ==
    IF u.instrument = NoObject THEN u
    ELSE [u EXCEPT !.form = [of |-> u.instrument, value |-> set[u.instrument]]]
FillInstrumentDetails(u, set) ==
    [u EXCEPT !.form = IF u.instrument = NoObject THEN BlankForm
                       ELSE [of |-> u.instrument, value |-> set[u.instrument]]]

EnableItems(u, instr_list) ==
    [u EXCEPT !.buttons = IF instr_list THEN Buttons ELSE {}]

(* Without a selection "up" and "down" are left as they are.               *)
EnableInstrumentListButtons(u) ==
    [u EXCEPT !.buttons =
        IF u.sel = 0 THEN @ \ {"remove"}
        ELSE {"remove"} \cup {b \in {"up"} : u.sel > 1}
                        \cup {b \in {"down"} : u.sel < Len(u.list)}]

(* The first instrument is selected unless one is being edited.            *)
EnableItemsForSelectedDashboard(u, dbs, insts, set) ==
    LET v == [u EXCEPT !.dashboard = dbs[u.combo]]
        w == EnableItems(v, ListOf(v, insts) # <<>>)
    IN  IF u.combo = 0 THEN EnableItems(u, FALSE)
        ELSE IF ListOf(v, insts) # <<>> /\ u.instrument = NoObject
        THEN FillInstrumentDetails(
                [w EXCEPT !.sel = 1, !.instrument = ListOf(v, insts)[1]], set)
        ELSE w

FillForm(u, n, dbs, insts, set) ==
    LET v == IF dbs = <<>> THEN [u EXCEPT !.combo = 0]
             ELSE [u EXCEPT !.combo = n, !.dashboard = dbs[n]]
        w == FillInstrumentDetails(FillInstrumentList(v, insts), set)
    IN  EnableInstrumentListButtons(
            EnableItemsForSelectedDashboard(w, dbs, insts, set))

(* UpdateEditedInstrument: what is in the controls goes to the instrument, *)
(* which takes its name from its key then.                                 *)
Updated ==
    IF ui.instrument = NoObject THEN setting
    ELSE [setting EXCEPT ![ui.instrument] = Named[ui.form.value]]

-----------------------------------------------------------------------------
(* Opening and closing the dialog.                                         *)

Editing == orig_config # Closed

(* From the toolbox, and from the context menu of an instrument.           *)
OpenPreferences ==
    /\ ~Editing
    /\ orig_config' = GenerateJSONConfig
    /\ ui' = FillForm(EmptyDialog, 1, dashboards, instruments, setting)
    /\ UNCHANGED objectVars

SelectInstrument(n, m) ==
    /\ ~Editing
    /\ n \in DOMAIN dashboards /\ m \in DOMAIN instruments[dashboards[n]]
    /\ orig_config' = GenerateJSONConfig
    /\ LET u == FillForm(EmptyDialog, 1, dashboards, instruments, setting)
           v == FillInstrumentList(
                   [u EXCEPT !.combo = n, !.dashboard = dashboards[n]], instruments)
           w == FillInstrumentDetails(
                   [v EXCEPT !.instrument = instruments[dashboards[n]][m],
                             !.sel = m], setting)
       IN  ui' = EnableInstrumentListButtons(
                    EnableItemsForSelectedDashboard(w, dashboards, instruments,
                                                    setting))
    /\ UNCHANGED objectVars

(* Mutant: the instrument is not updated.                                  *)
AcceptUnread ==
    /\ Editing
    /\ UNCHANGED setting
    /\ ui' = EmptyDialog
    /\ orig_config' = Closed
    /\ UNCHANGED <<dashboards, instruments>>
AcceptPreferences ==
    /\ Editing
    /\ setting' = Updated
    /\ ui' = EmptyDialog
    /\ orig_config' = Closed
    /\ UNCHANGED <<dashboards, instruments>>

CancelPreferences ==
    /\ Editing
    /\ ReadConfig(orig_config)
    /\ ui' = EmptyDialog
    /\ orig_config' = Closed

AcceptEditor(config) ==
    /\ Editing
    /\ ReadConfig(config)
    /\ ui' = FillForm(WithoutEdited(ui), 1, dashboards', instruments', setting')
    /\ UNCHANGED orig_config

-----------------------------------------------------------------------------
(* Dashboards.                                                             *)

(* A dashboard with the instruments of the file, if it comes from one, is  *)
(* added behind the others and selected.                                   *)
AddsDashboard(d, config, set) ==
    /\ Len(dashboards) < MaxDashboards
    /\ d \notin ToSet(dashboards)
    /\ dashboards' = Append(dashboards, d)
    /\ instruments' = [instruments EXCEPT ![d] = Created(d, config)]
    /\ setting' = [i \in Instruments |->
          IF i \in ToSet(Created(d, config)) THEN config[i[2]] ELSE set[i]]
    /\ ui' = FillForm([ui EXCEPT !.instrument = NoObject], Len(dashboards'),
                      dashboards', instruments', setting')
    /\ UNCHANGED orig_config

NewDashboard(d) == Editing /\ AddsDashboard(d, <<>>, Updated)
(* A new dashboard or instrument is asked for, and then none is wanted.    *)
CancelNew ==
    /\ Editing
    /\ setting' = Updated
    /\ UNCHANGED <<dashboards, instruments, ui, orig_config>>
(* What was typed before is not written to the instrument.                 *)
ImportDashboard(d, config) == Editing /\ AddsDashboard(d, config, setting)

RemoveDashboard ==
    /\ Editing
    /\ ui.combo # 0
    /\ LET d == dashboards[ui.combo]
           combo == Min2(ui.combo, Len(dashboards'))
           u == [WithoutEdited(ui) EXCEPT !.combo = combo]
           v == FillInstrumentDetails(FillInstrumentList(u, instruments'), setting')
           w == [v EXCEPT !.dashboard = dashboards'[combo]]
       IN  /\ dashboards' = RemoveAt(dashboards, ui.combo)
           /\ instruments' = [instruments EXCEPT ![d] = <<>>]
           /\ setting' = [i \in Instruments |->
                 IF i[1] = d THEN Default ELSE setting[i]]
           /\ ui' = EnableItemsForSelectedDashboard(
                       IF combo = 0 THEN v ELSE FillInstrumentList(w, instruments'),
                       dashboards', instruments', setting')
    /\ UNCHANGED orig_config

(* The dashboard that is selected already can be selected again.           *)
ChooseDashboard(n) ==
    /\ Editing
    /\ n \in DOMAIN dashboards
    /\ setting' = Updated
    /\ LET u == FillInstrumentList(
                   [ui EXCEPT !.combo = n, !.dashboard = dashboards[n],
                              !.instrument = NoObject], instruments)
       IN  ui' = EnableItemsForSelectedDashboard(
                    FillInstrumentDetails(u, setting'),
                    dashboards, instruments, setting')
    /\ UNCHANGED <<dashboards, instruments, orig_config>>

-----------------------------------------------------------------------------
(* Instruments.                                                            *)

Type(value) ==
    /\ Editing
    /\ ui.instrument # NoObject
    /\ ui' = [ui EXCEPT !.form.value = value]
    /\ UNCHANGED <<objectVars, orig_config>>

(* An instrument with the given settings is added behind the others.       *)
AddsInstrument(i, value, set) ==
    /\ i[1] = ui.dashboard
    /\ Len(instruments[i[1]]) < MaxInstruments
    /\ i \notin ToSet(instruments[i[1]])
    /\ instruments' = [instruments EXCEPT ![i[1]] = Append(@, i)]
    /\ setting' = [set EXCEPT ![i] = value]
    /\ UNCHANGED <<dashboards, orig_config>>
SelectLast(u, insts, set) ==
    LET v == FillInstrumentList(u, insts)
    IN  FillInstrumentDetails([v EXCEPT !.sel = Len(v.list)], set)

AddInstrument(i) ==
    /\ Editing
    /\ AddsInstrument(i, Default, Updated)
    /\ ui' = EnableInstrumentListButtons(EnableItems(
                SelectLast([ui EXCEPT !.instrument = i], instruments', setting'),
                TRUE))

ImportInstrument(i, value) ==
    /\ Editing
    /\ AddsInstrument(i, value, setting)
    /\ ui' = EnableInstrumentListButtons(
                SelectLast([ui EXCEPT !.instrument = i], instruments', setting'))
(* No file matches the schema.  The list is filled and its last entry      *)
(* selected all the same.                                                  *)
ImportNothing ==
    /\ Editing
    /\ ui.dashboard # NoObject
    /\ ui' = EnableInstrumentListButtons(SelectLast(ui, instruments, setting))
    /\ UNCHANGED <<objectVars, orig_config>>

SelectInList(n) ==
    /\ Editing
    /\ n \in DOMAIN ui.list
    /\ setting' = Updated
    /\ LET u == [FillInstrumentList(ui, instruments) EXCEPT
                   !.sel = n, !.instrument = ElementAt(instruments[ui.dashboard], n)]
       IN  ui' = EnableInstrumentListButtons(EnableItems(
                    FillInstrumentDetails(u, setting'), TRUE))
    /\ UNCHANGED <<dashboards, instruments, orig_config>>

(* The one before is selected next: before the first one, after a          *)
(* comparison of -1 with an unsigned number, comes the last.               *)
NextSelected(list, sel) ==
    IF sel > 1 THEN Min2(sel - 1, Len(list)) ELSE Len(list)
(* Mutant: the next instrument is taken by its index before the removed    *)
(* one is gone.                                                            *)
SelectBeforeRemoval(u, list) ==
    LET rest == RemoveAt(list, u.sel)
        sel == NextSelected(rest, u.sel)
    IN  [u EXCEPT !.list = rest, !.sel = sel, !.instrument = ElementAt(list, sel)]
SelectAfterRemoval(u, list) ==
    LET rest == RemoveAt(list, u.sel)
        sel == NextSelected(rest, u.sel)
    IN  [u EXCEPT !.list = rest, !.sel = sel, !.instrument = ElementAt(rest, sel)]

RemoveInstrument ==
    /\ Editing
    /\ "remove" \in ui.buttons
    /\ ui.sel # 0
    /\ LET list == instruments[ui.dashboard]
           u == SelectAfterRemoval(ui, list)
       IN  /\ instruments' = [instruments EXCEPT ![ui.dashboard] = u.list]
           /\ setting' = [setting EXCEPT ![list[ui.sel]] = Default]
           /\ ui' = EnableInstrumentListButtons(EnableItemsForSelectedDashboard(
                       FillInstrumentDetails(u, setting'),
                       dashboards, instruments', setting'))
    /\ UNCHANGED <<dashboards, orig_config>>

(* MoveInstrument moves nothing beyond either end.  An entry of the list   *)
(* that is inserted beyond its end is put there or dropped, as the         *)
(* platform has it, and selecting no entry leaves none selected.           *)
Swapped(seq, n, m) ==
    IF {n, m} \subseteq DOMAIN seq
    THEN [seq EXCEPT ![n] = seq[m], ![m] = seq[n]] ELSE seq
(* Mutant: the list is not told.                                           *)
MovedInPlace(list, n, m) == {list}
Moved(list, n, m) ==
    LET rest == RemoveAt(list, n)
    IN  IF m \in DOMAIN list THEN {InsertAt(rest, m, list[n])}
        ELSE {rest, Append(rest, list[n])}

Move(n, m) ==
    /\ setting' = Updated
    /\ instruments' = [instruments EXCEPT ![ui.dashboard] = Swapped(@, n, m)]
    /\ \E list \in Moved(ui.list, n, m) :
          ui' = EnableInstrumentListButtons(
                   [ui EXCEPT !.list = list,
                              !.sel = IF m \in DOMAIN ui.list THEN m ELSE 0])
    /\ UNCHANGED <<dashboards, orig_config>>
MoveUp ==
    /\ Editing
    /\ "up" \in ui.buttons /\ ui.sel # 0
    /\ Move(ui.sel, ui.sel - 1)
MoveDown ==
    /\ Editing
    /\ "down" \in ui.buttons /\ ui.sel # 0
    /\ Move(ui.sel, ui.sel + 1)
(* Either button without a selection.                                      *)
MoveNothing ==
    /\ Editing
    /\ {"up", "down"} \cap ui.buttons # {} /\ ui.sel = 0
    /\ setting' = Updated
    /\ UNCHANGED <<dashboards, instruments, ui, orig_config>>

-----------------------------------------------------------------------------
Next ==
    \/ OpenPreferences
    \/ \E n \in 1 .. MaxDashboards, m \in 1 .. MaxInstruments :
          SelectInstrument(n, m)
    \/ AcceptPreferences \/ CancelPreferences
    \/ \E config \in EditorConfigs : AcceptEditor(config)
    \/ CancelNew \/ RemoveDashboard
    \/ \E n \in 1 .. MaxDashboards : ChooseDashboard(n)
    \/ \E d \in Dashboards :
          \/ NewDashboard(d)
          \/ \E config \in DashboardFiles : ImportDashboard(d, config)
    \/ \E i \in Instruments :
          \/ AddInstrument(i)
          \/ \E value \in InstrumentFiles : ImportInstrument(i, value)
    \/ \E value \in Typed : Type(value)
    \/ \E n \in 1 .. MaxInstruments : SelectInList(n)
    \/ ImportNothing \/ RemoveInstrument
    \/ MoveUp \/ MoveDown \/ MoveNothing

Spec == Init /\ [][Next]_vars

-----------------------------------------------------------------------------
(* Properties.                                                             *)

Live == UNION {ToSet(instruments[d]) : d \in ToSet(dashboards)}

(* The dialog never keeps a pointer to an object that was deleted, and the *)
(* instrument it edits is on the dashboard that is selected.               *)
EditedAlive ==
    Editing =>
        /\ ui.dashboard = ElementAt(dashboards, ui.combo)
        /\ ui.instrument = NoObject
           \/ /\ ui.dashboard # NoObject
              /\ ui.instrument \in ToSet(instruments[ui.dashboard])

(* The controls hold the settings of the instrument they are written to:   *)
(* no instrument is ever given those of another one.                       *)
ControlsShowEdited == ui.form.of = ui.instrument

(* "Changes in parameters are reflected in the displayed instrument as     *)
(* soon as an action out of this area is performed": an instrument that is *)
(* left while it is the selected one has the settings of the controls,     *)
(* unless it is deleted, the whole configuration is replaced or a file     *)
(* imported.                                                               *)
Selected == ui.instrument = ElementAt(ui.list, ui.sel)
Imports ==
    \/ ImportNothing
    \/ \E i \in Instruments, value \in InstrumentFiles : ImportInstrument(i, value)
    \/ \E d \in Dashboards, config \in DashboardFiles : ImportDashboard(d, config)
EditsKept ==
    [][LET i == ui.instrument
       IN  Editing /\ i # NoObject /\ Selected =>
               \/ i \in Live' /\ setting'[i] = Named[ui.form.value]
               \/ ui'.form = ui.form
               \/ \E value \in Typed : Type(value)
               \/ i \notin Live'
               \/ CancelPreferences \/ Imports
               \/ \E config \in EditorConfigs : AcceptEditor(config)]_vars

(* The buttons act on the selected entry of the list, the controls on the  *)
(* instrument that is edited.  After every handler these two are the same, *)
(* on the list the dashboard has then, and one is selected if there is     *)
(* any.  They come apart only when a file is imported that has no          *)
(* instrument and when an entry is moved beyond an end of the list, and    *)
(* stay apart only as long as entries are moved, settings are typed or a   *)
(* new object is asked for in vain.                                        *)
Coherent(u, insts) ==
    /\ u.list = ListOf(u, insts)
    /\ u.instrument = ElementAt(u.list, u.sel)
    /\ u.list # <<>> => u.sel # 0
Types == \E value \in Typed : Type(value)
Keeps == MoveUp \/ MoveDown \/ MoveNothing \/ CancelNew \/ Types
MovesBeyondEnd ==
    \/ MoveUp /\ ui.sel = 1
    \/ MoveDown /\ ui.sel = Len(ui.list)
SelectionFollows ==
    [][Editing' =>
          \/ Coherent(ui', instruments')
          \/ ImportNothing \/ MovesBeyondEnd
          \/ ~Coherent(ui, instruments) /\ Keeps]_vars

(* A claim of the manual that the code refutes: what the controls show is  *)
(* the "detailed configuration of the selected instrument".                *)
SelectedIsEdited == Editing => Selected
=============================================================================
