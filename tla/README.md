# DashboardSK, specified

DashboardSK is an OpenCPN plugin that draws instruments over the charts. It
receives Signal K delta messages from OpenCPN, keeps the last values in a JSON
tree, and draws one page of dashboards per chart canvas. This directory holds
TLA+ modules translated from its C++ source, the TLC configurations that check
them on small instances, and proofs that TLAPS checks for every value of the
constants.

Run a check with `tlc -workers 2 -config MCPages.cfg MCPages` (see
[What is checked](#what-is-checked) for the pairs), the proofs of a module with
`tlapm PagesProofs.tla` (see [What is proved](#what-is-proved)).

Source references below abbreviate: DSK = `src/dashboardsk.cpp` and its header
DSKH, INS = `src/instrument.cpp`, DB = `src/dashboard.cpp` and its header DBH, GUI =
`src/dashboardskguiimpl.cpp`, PI = `src/dashboardsk_pi.cpp`, PAG = `src/pager.cpp`,
NUM, TXT, POS, GA, HIST = `src/simple{number,text,position,gauge,histogram}instrument.cpp`,
CG = `src/combinedgaugeinstrument.cpp`, CW = `src/compositewindinstrument.cpp`,
SVG = `src/svginstrument.cpp`.

## The system

Everything runs in the GUI thread of OpenCPN. There are no threads and no locks;
what interleaves are callbacks: a frame of each canvas, a delta message, a mouse
event, a button of the preferences dialog, a timer. A handler therefore is one
step of a model, and the hard behaviours are those of state that several
handlers share.

| Component | State it keeps | Operations | Who calls it |
|---|---|---|---|
| Signal K data tree (DSK, DSKH) | `m_sk_data`, `m_self`, `m_self_ptr` | `SendSKDelta`, `GetSKData`, `SetSelf`, `NormalizeID` | OpenCPN messages; instruments; configuration |
| Subscriptions (DSKH, DB, instruments) | `m_path_subscriptions` (path to raw instrument addresses), the `m_new_data` flags | `Subscribe`, `Unsubscribe`, the notification in `SendSKDelta`; creation, re-keying and deletion of instruments and dashboards | instruments' setters and destructors; preferences; configuration |
| Source selection (INS) | `m_source_locks`, `m_locked_source`, `m_locked_source_path` | `GetSKDataResolved`, `ReadConfig`, `GenerateJSONConfig` | every read by an instrument; configuration |
| Values and time-outs (NUM, TXT, POS, GA, CG, HIST, CW, SVG) | `m_new_data`, `m_timed_out`, `m_last_change`, `m_needs_redraw`, `m_bmp`; per slot in CW and SVG; `m_history` in HIST | `NotifyNewData`, `ProcessData`, `Render`, `ForceRedraw` | deltas; frames |
| Settings (INS and each class) | `m_config_vals` and the members kept beside it; in SVG the loaded skin | `SetSetting`, `ReadConfig`, `GenerateJSONConfig`, `LoadSvg` | preferences; configuration |
| Pages and drawing (DSK, PAG, DB) | `m_displayed_pages`, each pager's pages and current page, canvas, page and anchor of each dashboard, `m_offsets`, the placement of each instrument, `m_frozen` | `Draw`, `ProcessMouseEvent`, `ResetPagers`, `AddPageToCanvas` | frames; mouse; preferences; configuration |
| Preferences dialog (GUI) | `m_orig_config`, `m_edited_dashboard`, `m_edited_instrument`; copies of the tree and of the zones in the dialogs it opens | New, Delete, Up, Down, Rename, the property controls, the path browser, the zone editor, JSON editor, import, export, OK, Cancel | the user |
| Plugin and configuration file (PI) | the configuration file | `Init`, `DeInit`, `LoadConfig`, `SaveConfig`, `SetPositionFixEx` | OpenCPN |
| Zones (`include/zone.h`, INS) | `m_zones` | parsing and writing of zone strings, matching | gauges, numbers, zone editor |
| Schema validation, display scales, generated dialogs, drawing context | none of interest | | |

How they interact: a delta is stored in the tree and the instruments subscribed
to its path get their flag set. A frame calls `DashboardSK::Draw` once per
canvas; dashboards on the current page of that canvas are rendered, all others
get `ProcessData`. Instruments read the tree through source selection. The
preferences dialog takes the configuration when it opens, changes the live
objects directly, and on Cancel deletes them all and reads the configuration
back; on OK it resets the pagers and saves.

What makes each component correct:

- **Tree and subscriptions.** No entry of the map outlives its instrument;
  subscriptions are those of the current keys; the pointer to the own vessel
  moves with its identifier; a change notifies those who follow it and nobody
  else; as a whole, a publish/subscribe service.
- **Source selection.** A lock is kept for as long as its mode promises; locks
  of several keys of one instrument do not disturb each other, in memory or in
  the file; a source that does not return is given up.
- **Values and time-outs.** A value is shown while it is fresh and no longer,
  and is the latest; slots of one instrument do not disturb each other; a history
  keeps every sample it has room for, and a graph shows it without holes.
- **Settings.** What is drawn does not depend on how a setting got its value; a
  change of one setting changes no other; nothing the user entered is lost to a skin.
- **Pages and drawing.** Every page with a dashboard can be reached; frames do not
  turn pages; the view survives Cancel, restart and crash; instruments do not
  overlap; a click reaches what is seen.
- **Preferences dialog.** No pointer to a deleted object is used; the settings in
  the controls belong to the instrument they are written to; buttons act on the
  instrument that is selected; what was typed is not lost; what was not touched is
  not changed.
- **Configuration file.** What was saved is what is read.

The hard behaviours are listed with their lines, and with the properties aimed at
them, in `PROJECT.json` under "hazards".

## Modules

| Module | Models | Extends / instantiates |
|---|---|---|
| `PubSub` | what subscriptions promise: a reader has a subject's change pending once it happened | – |
| `SignalKStore` | data tree, subscriptions, life cycle of the objects | `INSTANCE PubSub` (refinement) |
| `SourceLock` | source selection, locks in the configuration | – |
| `ValueDisplay` | an instrument with one key on the screen | – |
| `SlotValues` | an instrument with several keys on the screen | – |
| `Histogram` | the history of a value and its graph | – |
| `Settings` | the settings of every class, in form, memory and file | – |
| `SvgSkin` | the settings of the SVG instrument and the skin that completes them | – |
| `Pages` | pagers, placement, drawing, preferences, configuration file | – |
| `Layout` | where a frame puts the instruments, and what a click reaches | – |
| `ConfigDialog` | the preferences dialog and the objects it edits | – |
| `FormControls` | the path browser and the zone editor | – |
| `MC...` | the small instances | the module of that name |
| `SignalKStoreProofs`, `SourceLockProofs`, `ValueDisplayProofs`, `SlotValuesProofs`, `HistogramProofs`, `SvgSkinProofs`, `PagesProofs`, `ConfigDialogProofs` | theorems and their proofs | the module of that name, `TLAPS`, library theorems; `SvgSkinProofs` is also about `FormControls`, `HistogramProofs` about `Settings`, `PagesProofs` about `Layout` |

Operators marked "Mutant" are plausible bugs in the definition that follows
them: under its run, each property is violated once that definition is replaced
by its mutant. They take no part in any specification.

The modules are separate because the state they describe is: what a page shows does
not depend on the locks of an instrument, nor a placement on the age of a value. Where
two meet, one module has the other's effect as a free choice: the sensors of
`SlotValues` and `ValueDisplay` deliver anything at any time, and frames draw an
instrument or do not, whichever page `Pages` would have shown.

### SignalKStore

| Variable | Code |
|---|---|
| `self`, `self_ptr` | `m_self`; `m_self_ptr`, as the identifier it points below or `NullPtr` |
| `sk_data` | `m_sk_data`: for each node (vessel, path, source) the leaves it holds. Values and time stamps are left out |
| `subscriptions` | `m_path_subscriptions`, as a relation of topics and addresses |
| `dashboards`, `owner`, `class`, `sk_key` | which objects live at which addresses, and their keys |
| `new_data` | `m_new_data` of each instrument |
| `fault` | undefined behaviour or an uncaught exception was reached; terminal |

One action per handler: `SendSKDelta(m)` for one value of a delta, `SetSelf`,
`Poll` (an instrument takes its flag and reads), `SetKey`, `AddDashboard`,
`AddInstrument`, `DeleteInstrument`, `DeleteDashboard`, `ReadConfig`. A delta with
several values is several `SendSKDelta` steps: interleaving other steps between
them allows more than the code does, never less. `GetSKData` is an operator: the
kind of thing (scalar, object, missing) a key leads to.

Vessel identifiers are atoms and `NormalForm` is any idempotent function on
them: identifiers that contain a dot, which the tokenizer would split, are left
out. Instruments come in three classes, by how they subscribe and convert.

### SourceLock

One instrument with a set of keys, each a path and a mode (`any`, `lockfirst`,
`lockpersist`). `held` and `alive` are what the tree has and which sensors still
transmit. The four disjuncts of `Resolve` are the paths through
`GetSKDataResolved` (INS 426-520): no lock wanted, the locked source is there, it is
awaited, or the first one is locked. A lock's time is its age, counted up to the
allowed age, and only for persistent locks that name a source: no other lock is asked
for it. `Answer(k)` is what a key reads. `Generated`, `LoadedLocks` are what `GenerateJSONConfig` writes and
`ReadConfig` reads: the old form (`WritesPrimary`) and the new one. `OldFiles` are those of
older versions, in the old form only; their lock has the age 0 as well, since the
constructor sets `m_locked_source_time` to the present (`instrument.h` 399). `Start` is a
new session, from what the last one saved (`Restart`) or from the file
(`CrashAndRestart`). `SetLockedSource` is called by tests only and left out.

### Pages

`pagers` is `m_displayed_pages`, `placement` the canvas and page of each
dashboard, `orig_config` and `file` the configuration kept by the dialog and on
disk. `Draw(c)` is a frame of canvas `c`, with the correction of the current page
by `Pager::Render` and the reset when nothing was drawn. `ClickPager`,
`SelectPage` and `MoveMouse` are the mouse; `ChangeCanvases` the canvas layout of
OpenCPN; then the dialog, the JSON editor above it, and start, restart and crash.
`SaveConfig` truncates the file and writes it (PI 236-248); `CrashWhileSaving` is a crash
in between, and the next start finds the file `Unreadable`, keeps nothing, and saves
that at its end.
A canvas that appeared later has no pager until it is drawn, and dereferencing it
is the terminal fault `null_pager`. Dashboards are enabled, and hiding all of
them is a behaviour without `Draw` and `ClickPager` steps. On macOS the dialog is
window-modal and mouse events reach the canvases; modelled is the modal dialog of
the other platforms.

### ValueDisplay

One instrument with one key. `Readouts` (number, text, position) make dashes of any
redraw without new data; `Gauges` go by the time-out, and are of two kinds: a `dial`
(angle, direction, percentage) draws its needle even with no value (the picture
`resting`), a `scale` only with one. Each `Render...` is one class's; `Look` is
what `ProcessData` and `Render` have in common. Time is counted in
seconds: `quiet` since `m_last_change`, `data_age` since the key was last updated, both
up to `MaxAge`. `Tick` waits for a visible instrument to be drawn, so a frame comes at
least once a second. `disturbed` and `bmp_age` are history variables that
properties use and no guard reads. Smoothing and the format of the value are left out.

### SlotValues

The wind instrument and the SVG skin: `data` is `m_data`, a value, the age of its last
notification and whether there was one, for each slot; the flags and the picture are
shared. `Refreshed`, `Usable`, `Current`, `Expired` and `Kept` are the code's
`RefreshData`, `Current` and `ProcessData`, with the two classes side by side. In
`OwnShipSlots` the wind instrument falls back to what OpenCPN knows (CW 220-228).
`heard` is a history variable. Readings are a few values and `NoValue`; arithmetic on
wind angles and the drawing of laylines and sectors is left out.

### Histogram

`history` has a sequence of buckets for each of the three buffers of `History`. A bucket is its
time and the samples in it; `log`, the times of all samples, is a history
variable, so a property can ask where a sample went. `Graph(length)` is the list of
values `Render` collects. Its loops run back over a buffer, pass over buckets newer than
what the graph has, and stop at the first that is too old; as buckets are in the order of
their times, `Part` is the stretch in between. Mean, minimum and maximum of a bucket are functions of its
samples and are left out.

### Settings

`Tables` has the settings of each class as the macros list them, each with its control,
limits and default; `Converted` are the lists kept by hand in each `SetSetting`. A value
is a pair of the text in `m_config_vals` and what the drawing code reads: they are the
same only if every path that sets the one sets the other. `Shown` is what a control makes
of a text. The colours of a class are one setting, the keys of the wind instrument
another. The SVG instrument has a module of its own.

### SvgSkin

`settings` is an instrument's, `design` the skin that is loaded, `user` the files in the
user's directory, which win over the bundled ones. `Written` and `ReadConfig` write the
settings in the order of the code, `SetFile`, `OrDefaultPath`, `OrDefaultZones` and
`ApplyScaleDefault` are what each write completes. `entered` is a history variable.
Parsing of SVG, time stamps of files and the drawing are left out: a skin is what it
suggests and offers.

### Layout

`DrawFrame` is a frame (`DashboardSK::Draw`). `Offsets` is what `m_offsets` has for each edge
after each dashboard, and `AlongEdge` where the drawing of one dashboard has got to after
each instrument: the running variables of the two nested loops, as functions of how far the
loop is. `NextRow` and `NextColumn` begin a new row or column when an instrument does not fit
(`Fitted`), `RectAt` places it and `Past` goes past it; `RowWidth` and `AtShip` are the branch
for the own ship. `Extent` is what the next dashboard of the edge learns. `places` is what
`SetPlacement` stored in each instrument, `drawn` the instruments the last frame placed. The canvas, the page, the ship
and which dashboards are enabled change freely between frames. Sizes are those of the
opaque content of the bitmaps. `ProcessMouseEvent` is an operator: which instrument a
right click at a point reaches.

### FormControls

The browser (`browser`, on a copy of the tree) and the zone editor (`editor`, on a
copy of the zones) are modal, and deltas go on arriving while one is open.
`OpenBrowser`, `SelectNode`, `ChooseSource`, `ChooseMode`, `AcceptKey`;
`OpenZones`, `SelectZone`, `AddZone`, `RemoveZone`, `SetLower`, `SetUpper`, `SetState`,
`AcceptZones`; `Cancel` of either. `FindString` ignores case: `Folded` says which sources differ in
nothing else, and `Preselected` finds the first of them. Limits are in hundredths, and the text has one
decimal (`Rounded`). `StateOf` is the state of a value (INS 198-231), the highest of the zones that
contain it. The controls clamp what
they show to a range that the handlers move (`Filled`), and the range is part of the
state.

### ConfigDialog

`dashboards`, `instruments` and `setting` are the objects, `ui` is the dialog: the
two pointers, the selection of the combo box, the list with its selection, the
controls and the buttons. An address is a pair of the dashboard and a place, and is used
again after a deletion. The functions that fill the dialog (`FillForm`,
`FillInstrumentList`, `FillInstrumentDetails`, `EnableItems...`) are operators from
a dialog to a dialog, and a handler applies them in the order of its code, each to the
result of the one before. `form.of` is a history variable: the instrument the
controls were filled with. All settings of an instrument are one value, an entry of
the list is the instrument whose name it is, and `Named` is `ConfigureFromKey`, which
names a nameless instrument after its key.

What wxWidgets does with an index beyond the end of a list differs by platform: an
entry inserted there is appended or dropped (`Moved`), and a selection of it is none.
While a dialog of the dialog is open (file, name, JSON) the others cannot be used, so
the handler and its continuation are one action; `CancelNew` is one that was cancelled,
after the form had been written back. Left out: renaming and export; the
placement of dashboards is in Pages, the path browser and the zone editor in
FormControls, single settings in Settings and SvgSkin.

## What is checked

Every run explores all states of its instance.

| Run | Module, configuration | Question | States |
|---|---|---|---|
| Subscriptions | `MCSignalKStore`, `MCSubscriptions.cfg` | two instruments, created, keyed, deleted and reloaded under deltas of scalars and objects: `TypeOK`, `SubscribersAlive`, `SubscriptionsMatchKeys`, `SelfPointerCurrent`, `NormalDataNotifies`, `OnlyInterestedNotified`, `ImplementsPubSub` (refinement) | 30,244 with symmetry |
| Locks | `MCSourceLock`, `MCLocks.cfg` | four keys of three modes on two paths, from no configuration or an older version's: `MirrorAgrees`, `RoundTrip`, `SessionLockKept`, `PersistentLockKept`, `MissingSourceFallsBack` (liveness) | 164,760 |
| ValueDisplay | `ValueDisplay`, `MCValueDisplay.cfg` | five kinds of instruments under time, deltas, page turns and frames: `ValueTimesOut`, `LatestShown`, `WatchedStaleDashed`, `WatchedFreshShown` | 44,644 |
| SlotValues | `MCSlotValues`, `MCSlotValues.cfg` | two slots, one with a stand-in, three sensors on two paths: `SlotTimesOut`, `SlotShowsLatest` | 661,424 |
| Histogram | `MCHistogram`, `MCHistogram.cfg` | the buffers fill and wrap, samples come and pause, with and without a time-out: `HistoryKeepsLog`, `GraphComplete`, `GraphKeepsMoving` | 1,041,678 |
| Settings | `Settings`, `MCSettings.cfg` | every setting of nine classes entered at its limits, saved, cancelled, edited as JSON: `ReloadsSame`, `OnlyEnteredChanges` | 264,858 |
| SvgSkin | `MCSvgSkin`, `MCSvgSkin.cfg` | skins chosen, imported, broken and removed while every form is entered: `EnteredStays`, `SuggestionsTaken`, `RoundTrip` | 13,932 |
| Pages | `MCPages`, `MCPages.cfg` | two dashboards on two canvases and three pages, over frames, clicks, preferences, restarts and crashes, one of them while saving: `PagerOffersPages`, `SelectionKept`, `ViewRestored`, `ChangesSaved` | 686,147 with symmetry |
| Layout | `MCLayout`, `MCLayout.cfg` | two dashboards on one edge or at the ship, of all edges, offsets and spacings: `InstrumentsApart`, `TwoDashboardsApart`, `ClickHitsPicture` | 1,540,728 |
| ConfigDialog | `MCConfigDialog`, `MCConfigDialog.cfg` | every order of buttons over two dashboards with up to two instruments, three at once: `EditedAlive`, `ControlsShowEdited`, `SelectionFollows`, `EditsKept` | 217,332 |
| FormControls | `MCFormControls`, `MCFormControls.cfg` | keys picked while the tree grows, zones added, edited and removed: `PickedKeyExists`, `KeyKept`, `ZonesTakeEffect` | 284,918 |
| Numbers | `MCSignalKStore`, `MCNumbers.cfg` | refutes `NumbersAreScalars`, see below | |

The properties are stated in words next to their definitions. What each kind of them shows:

- *Relations of state changed by different handlers*: `SubscriptionsMatchKeys`,
  `SelfPointerCurrent`, `MirrorAgrees`, `PagerOffersPages`, `ChangesSaved`,
  `ControlsShowEdited`, `SuggestionsTaken`, `ReloadsSame`.
- *Time*: `ValueTimesOut`, `WatchedStaleDashed`, `WatchedFreshShown`, `SlotTimesOut`,
  `SlotShowsLatest`, `GraphKeepsMoving`. The first bounds the age of a picture by when
  data was looked at, whatever happened; the `Watched...` ones by when it arrived, for an
  instrument that stayed in sight. That they need such conditions is itself a result:
  without them the manual's sentence is refuted (`DashedWhenTimedOut`).
- *No loss over save, restart, Cancel*: `RoundTrip` of `SourceLock` and of `SvgSkin`,
  `ViewRestored`, `EditsKept`, `EnteredStays`, `HistoryKeepsLog`, `GraphComplete`.
- *After every handler*: `SelectionFollows`. The list, its selection and the edited
  instrument are coherent, and only the steps it names take them apart.
- *Nothing else changes*: `OnlyEnteredChanges`, `KeyKept`, `OnlyInterestedNotified`,
  `SessionLockKept`, `PersistentLockKept`.

### Claims that are refuted

The run `Numbers` checks a comment of the source that the code does not fulfil: values
that are no scalars are not converted (TXT 137). The number instrument converts an object
and throws (NUM 148, 200); the trace is the evidence.

Other claims of the manual or of comments are stated as properties in the modules, without
a run. Added to the configuration named here in place of its own properties (`OnlyPageShown`, with
`SPECIFICATION FairSpec` and without symmetry), each is violated:

| Property | Configuration | Claim | What the code does |
|---|---|---|---|
| `NothingBelowSelfWord` | `MCNumbers.cfg` | "vessels.self" is replaced by the identifier (DSK 340) | only one of its two levels is skipped; values land below a child "self" of the own vessel |
| `DashedWhenTimedOut` | `MCValueDisplay.cfg` | a value not updated for the time-out, and no other, turns to dashes (`simplenumberinstrument.adoc:22`) | age is counted from when the value was looked at, deltas of other sources renew it, and any redraw without new data draws dashes |
| `StaleFallsBack` | `MCSlotValues.cfg` | a stale key falls back to what OpenCPN knows (CW 218) | neither the expiry of a value that has a stand-in nor a position fix asks for a redraw |
| `GraphWithinLength` | `MCHistogram.cfg` | the chosen length of history is shown (`simplehistograminstrument.adoc`) | the finest buffer is cut off in the shortest graph only (HIST 241), the second one in its own: older values follow in longer graphs |
| `ScaleTaken` | `MCSvgSkin.cfg` | only equal limits bring the skin's scale back (`svginstrument.adoc:37`) | limits are written one by one, and while the new minimum equals the old maximum the default comes back (SVG 229) |
| `DashboardsApart` | `MCLayout.cfg` | offsets of an edge are cumulative (DBH 107) | the entry is cleared before each dashboard is drawn (DB 147), so only the last one's extent is passed on |
| `SelectedIsEdited` | `MCConfigDialog.cfg` | the settings area is that of the selected instrument (`configuration.adoc:67`) | an import of no valid file selects the last entry and goes on editing another instrument (GUI 966); "up" or "down" at an end of the list loses the selection |
| `SilentSourceFallsBack` | `MCLocks.cfg` | a persistent lock ends when its source becomes permanently unavailable (`skkeys.adoc:38`) | a source that ever delivered in the session is found for good |
| `OnlyPageShown` | `MCPages.cfg` | a dashboard is displayed on its canvas, and with one page no pager is needed (`configuration.adoc:81`) | a dashboard of another canvas keeps the canvas on a page that is empty there |

### Bounds

- Subscriptions: two instruments, two dashboards, two paths and two slots are the least
  with which one object's steps can disturb another's: address reuse, a topic shared by
  two instruments, two keys of one instrument on the same and on different topics.
  `canon` and `raw` are an identifier and another spelling of it. Its symmetry permutes
  the addresses of instruments and of dashboards, which the configurations treat alike;
  no property of it is a liveness property.
- `MaxLoads` 1 bounds how often SourceLock loads a configuration: all that a load
  leaves behind is that of one, by the dialog, a restart, a restart after a crash, or a
  first session that finds what an older version saved, a lock of the primary key in the
  old form alone. The locks it gives are reached without it, too. `AllowedAge` 1 is the least grace period that can be interrupted. `Sensors` are
  one source on both paths and the direct value on one.
- `MaxDashboards` 2 and `MaxInstruments` 2 in ConfigDialog: first, last and only entry
  of a list, and a second dashboard whose instruments and addresses can be taken
  for those of the first. Of the three settings one is changed by `Named`; what is
  typed, imported and left by the JSON editor is a part of them. The state constraint
  `ThreeInstruments` leaves out four instruments at once: either dashboard can have two.
- Three pages on two canvases: one page can be between two others, or be current on
  both canvases. `CanvasCounts` {1, 2} lets a canvas come and go. Dashboards are
  interchangeable (no definition or configuration tells them apart), hence the symmetry.
- `MaxAge` 4 in ValueDisplay is two more than the longest time-out: a second of delay and
  one beyond; the assumption `AgesAssumption` says so. In SlotValues it is one more than
  the time-out, the first age that is too old; ages beyond it count as that one.
- Histogram: buffers of 2, 3 and 2 buckets of 1, 2 and 4 seconds stand for 60, 360 and 864
  of 1, 10 and 300; what the code relies on, that a buffer spans its longest graph, is
  `HistogramAssumption`. `MaxTime` 11 is beyond the span of the coarsest buffer, by when it
  has wrapped once and the others several times. `IdleRedraw` 2 stands for 5 seconds, and
  `AllowedAges` 0 is no time-out.
- Settings: `MaxEdits` 3 lets a setting be changed, hidden by a second change and changed
  back, across any number of openings, saves and restarts. Values are the limits
  of each control, one beyond for the JSON editor, and those a choice mistakes.
- SvgSkin: a skin with and one without a scale and zones, and two of the user, one of
  which comes in the place of the default one and gives new instruments a scale (`OwnDefault`). Two slots and two
  paths; three numbers, so limits can be equal, in and out of order. A skin's scale has its lower limit below
  the upper one: `LoadSvg` takes no other.
- Layout: instruments of up to 3 by 2 on canvases of 4 by 4 and 3 by 6, at a scale of 1
  and of 2, so that one, two or no instrument fit in a row; two dashboards, since
  `DashboardsApart` says what happens with a third.
- FormControls: paths with and without values and children; three sources, two of them alike
  but for the case of their names; two zones, which may overlap, and limits that a control has to clamp. The state constraint
  `OneControl` uses one of the two controls at a time (they share nothing), edits zones from what was
  configured, takes three deltas in all, or two if one is the third source's, on one path only, and lets
  one of them arrive while a key is picked.
- `CHECK_DEADLOCK FALSE` is set for SignalKStore and Pages: a fault is terminal
  there. All other runs are checked for deadlock.

### Fairness

Only what OpenCPN's event loop gives: the clock ticks; a frame of each canvas it
shows is drawn again and again (`WF(Draw(c))`); and while data arrives an instrument
is processed by those frames (`WF(Resolve(k))`, whose guard `Notified` asks for a
live sensor). Nothing is assumed of the user, the sensors, crashes or the order of
the callbacks.

That something visible happens in time is stated without fairness where time is
modelled: `Tick` waits until a visible instrument was drawn, so "at most a second late"
is an invariant (`WatchedStaleDashed`, `SlotTimesOut`, `GraphKeepsMoving`).

## What is proved

The theorems hold for every value of the constants that satisfies the named assumptions
of the module, so for any number of instruments, pages or samples, not for those of a run
only. Each module of proofs has a theorem `TypeCorrect`, `Spec => []TypeOK`, and one
for each property in the table. (Types of `Layout`, `FormControls` and `Settings` are a
part of their invariants `LayoutInv`, `FormInv` and `SettingsInv`.)

| Module | Assumptions | Theorem: property |
|---|---|---|
| `SignalKStoreProofs` | `IdsAssumption`: identifiers differ from the reserved words, `NormalForm` is idempotent; `NamesAssumption`; `InputsAssumption`: a configuration gives instruments that exist a dashboard that exists, and keys to nobody else | `NoDanglingSubscriber`: `SubscribersAlive`; `SubscriptionsFollowKeys`: `SubscriptionsMatchKeys`; `SelfPointerFollowsSelf`: `SelfPointerCurrent`; `ChangesAreNotified`: `NormalDataNotifies`; `OthersAreNot`: `OnlyInterestedNotified`; `SignalKImplementsPubSub`: `ImplementsPubSub` |
| `SourceLockProofs` | `SourcesAssumption`, `KeysAssumption`: the words for no source, no entry and a value without source are not names of sources; `BoundsAssumption`: a configuration is loaded once at least | `MirrorCorrect`: `MirrorAgrees`; `RoundTripCorrect`: `RoundTrip`; `SessionCorrect`: `SessionLockKept`; `PersistentCorrect`: `PersistentLockKept` |
| `ValueDisplayProofs` | `AgesAssumption`: ages are counted to two seconds beyond each time-out | `TimesOut`: `ValueTimesOut`; `ShowsLatest`: `LatestShown`; `WatchedTimesOut`: `WatchedStaleDashed`; `WatchedKeepsValue`: `WatchedFreshShown` |
| `SlotValuesProofs` | `SlotsAssumption`: ages are counted beyond each time-out; each slot has its choice of keys | `TimesOut`: `SlotTimesOut`; `ShowsLatest`: `SlotShowsLatest` |
| `HistogramProofs` | `HistogramAssumption`: a buffer has room for a bucket at least and spans its longest graph | `KeepsLog`: `HistoryKeepsLog`; `CompleteGraph`: `GraphComplete`; `KeepsMoving`: `GraphKeepsMoving` |
| `HistogramProofs`, on Settings | `SettingsAssumption`: the classes are some of those of `Tables` | `SettingsReload`: `ReloadsSame`; `FormChangesEntered`: `OnlyEnteredChanges` |
| `SvgSkinProofs` | `SkinAssumption`: a skin's name has a bundled file or none; limits are natural numbers, 0 among them | `EnteredKept`: `EnteredStays`; `Suggested`: `SuggestionsTaken`; `ReadBack`: `RoundTrip` |
| `SvgSkinProofs`, on FormControls | `FormAssumption`: paths have a name at least; `Folded` takes sources to sources; a configured key without a source in its mode has none; configured limits are within the range of the controls; `Unsaid` is no number and no path; `ZonesAssumption`: a zone in the configuration begins before it ends | `EveryZoneTakesEffect`: `ZonesTakeEffect`; `PickedExists`: `PickedKeyExists`; `KeyKeptByOK`: `KeyKept` |
| `PagesProofs` | `LayoutAssumption`: canvas 0 and page 1 exist, pages are positive numbers, OpenCPN shows a canvas at least | `PagesOffered`: `PagerOffersPages`; `Saved`: `ChangesSaved`; `KeepsSelection`: `SelectionKept`; `RestoresView`: `ViewRestored` |
| `PagesProofs`, on Layout | `DashboardsAssumption`: offsets, spacings and sizes are natural numbers, the scale is a positive one; no size means no picture | `InstrumentsNeverOverlap`: `InstrumentsApart`; `FirstTwoNeverOverlap`: `TwoDashboardsApart`; `ClickedWasDrawn`: `ClickHitsPicture` |
| `ConfigDialogProofs` | `DialogAssumption`: a dashboard has room for an instrument; what is typed, imported or named are settings | `PointersCorrect`: `EditedAlive`; `ControlsCorrect`: `ControlsShowEdited`; `SelectionCorrect`: `SelectionFollows`; `EditsCorrect`: `EditsKept` |

Every proof has the same shape. `IInv` holds initially, is kept by each action (one
lemma for each), and implies the invariants; an action property follows from `IInv` and
the step. Few of the invariants are inductive as they stand. What `IInv` adds, and why
(TLC checked the additions on the runs' instances first):

- **SignalKStore.** `SubscriptionsMatchKeys` speaks of live instruments, and an instrument
  can be created at the address of a dead one. So `SubscriptionInv` adds that dead
  addresses have no keys and no entries (`DeadAreBare`, `SubscribersAlive`) and that only
  combined instruments use their second slot (`OneKeyUnlessCombined`: `SetKey` of any other
  class unsubscribes from everything and subscribes to one key). The refinement needs
  `PendingAlive` besides: a set flag belongs to a live instrument. `ChangesAreNotified`
  follows from `SelfPointerCurrent`: in a message about the own vessel the tree goes by the
  cached pointer and the notification by the identifier.
- **SourceLock.** A lock read from a configuration mirrors its single lock only if that
  configuration is consistent, so `ConfigsConsistent` says so of the file and of what the
  dialog keeps; `MirrorHasPath`, that without a key the single lock is empty, is what makes the
  one written consistent. `SessionLockHeld`: the source of a session lock has delivered, and
  nothing leaves the tree before the session ends; else an answer could come from another one.
- **ValueDisplay.** The picture is made in one frame and judged after others: `ExpiryPending`
  and `OvertakenPending` say that a picture that is no longer true has a redraw coming,
  also when it was a frame elsewhere that took the flag. `WatchedCounts` and
  `UndisturbedCounts` tie the time the instrument counts to the age of the data, from above
  and from below.
- **SlotValues.** `HeardCounted`: nothing but a delta of its path starts the time of a slot
  again. `ReadCurrent`, `PictureBlank`, `PictureCurrent`: what the slot remembers is what the tree holds, what
  the picture shows is what the slot remembers, and where they differ a redraw is pending
  (`DataAsksRedraw`).
- **Histogram.** `BuffersRecent` is `HistoryKeepsLog` with each bucket known by its first
  sample: without that, dropping the oldest bucket could drop a sample younger than the
  next. `ClockAhead` and `PictureShowsLast` bound the age of the picture by the age of the data. For the graph,
  `BuffersSpread`, proved on top of `IInv`: buckets are more than a grain apart, so a full
  buffer reaches back as far as its longest graph. A sample then is in the finest buffer
  that reaches it, every finer buffer is full, and none of them has it cut off
  (`SampleInGraph`).
- **SvgSkin.** The two invariants are inductive together. They are kept because each
  setting that is written completes those the loaded skin has something for
  (`Completed`); `RoundTrip` follows from them by replaying the writes in the order of the
  code. The attempt to prove it showed that its exception was named too narrowly: not only the
  scale of the skin but any maximum a new instrument gets with the skin is in the way, and the
  property and the run now say so.
- **Pages.** `KeptIsSaved`: the configuration kept for Cancel is that of the file, so
  cancelling leaves the file right. `NoPagerUnseen`: only canvases that OpenCPN may not have
  shown lack a pager. `FrozenWhileEditing`: the JSON editor is open above the dialog only.
- **ConfigDialog.** `ObjectsOK`: the list of a dashboard has its own instruments, none
  twice, and no more than fit. `DialogConsistent` is one relation between the dialog and the objects,
  and each function that fills a part of the dialog has a lemma that says which part of the relation it
  restores: a handler passes through dialogs that break it, and the order of its calls is
  what makes it whole. `SelectionFollows` is about steps: `Coherent` is shown of each
  handler's dialog after its last call.

- **Layout.** Since nothing changed, what is drawn is what a frame would draw (`LayoutInv`), and
  a click follows from that. That instruments do not overlap is an induction over the loop of
  `Dashboard::Draw`, by a least counterexample (`AllReached`), seen from the edge: `Cross` is how
  far from the start of the dashboard the present row is, `Main` how far along it the next
  instrument goes. Every instrument placed is `Behind` the loop: it ends before the present
  row, or before the next place in it. A new row, a new column and a step past an instrument
  each keep that (`MovesOn`), and what is placed is apart from all that is behind
  (`StepGoesPast`). The loops are recursive functions, whose equations hold because functions
  that satisfy them exist (`IterationExists`). Across dashboards, `OffsetKept` says which steps leave the
  offset of an edge alone, and `ExtentCovers` that the extent passed on covers the dashboard.
  The attempt to prove `TwoDashboardsApart` showed that it was stated wrongly: a dashboard that is
  shown but draws nothing resets the offset as well, and on the left the start can move before
  anything was placed. It now asks for the first two that are shown, and for one column at
  the offset of the dashboard.
- **FormControls.** `IsTree`: with a node the tree has all nodes above it, and it has a greatest
  depth; else the browser, which goes down along first branches until there are none, could
  leave the tree or not stop (`FirstLeaf`). `BrowserFits` and `EarlierTree`: the list of sources
  is that of the selected node in a tree that was there before. `KeyFits`: a mode other than a
  source leaves no source in a key. `EditorFits`: the limits of each zone are in order, and
  the ranges of the controls are those of the zone that is edited, so that no edit brings them out of order.
- **Settings.** `ReloadsSame` compares an instrument with what reading its configuration would
  give, and says nothing of a text on its own. `DrawnAsMeant` does: each setting is drawn as its
  text means, so it does not matter what was there before. It is kept because the list of each
  class has all its integers and none of its keys (`ListsSound`, class by class from the tables). `FormShows` is the
  other half: of a setting that was not entered, the form shows what its control makes of the text. The tables
  are those of the code, so what the theorems add to the run is any number of edits, in any order.

Only model-checked, and why: `MissingSourceFallsBack`, which is liveness under fairness and
out of the prover's reach.

## Known disagreements

Found while modelling, beside those of the table above. None has a run of its own.

Data tree and sources

- A key to a member of a complex value below a source
  (`...satellitesInView.SRC:gps.count`) never resolves: everything behind `SRC:`
  is the designation, its dots made dashes (DSK 284). The sample configuration of
  the tests has such keys.
- A key to a member of a complex value is subscribed to under its whole path, and
  the notification names the path without the member (DSKH 285, DSK 472): such an
  instrument is never told. In the model: a topic has a `member`, `NotifyTopic`'s is
  `Scalar`.
- A vessel whose identifier is not in normal form is stored under the
  spelling of the message and notified under the normal form (DSK 362, 368). This
  is why `NormalDataNotifies` is restricted to `Normal` identifiers.
- A key that starts with `vessels.self` reads nothing: `GetSKData` walks the tree
  from its root, which has no such vessel (DSK 206). Only an import replaces it.
- `SRC:any` looks for a `value` member to see whether a path has a value without
  source (DSK 225), so it misses complex values; and what it finds first
  in alphabetical order may be silent since long.
- A message without context that arrives before the own vessel was named is stored below
  `m_self_ptr`, which is still null (DSK 342). In SignalKStore this is the fault `null_self`.
- A persistent lock on "direct" never falls back while the path has any source,
  because the path itself is taken for the value (INS 458).
- Cancel recreates all instruments, so session locks are lost although nothing was
  changed (GUI 725).

Values

- Smoothing asks whether the last value is above `numeric_limits<double>::min()`,
  which is the smallest positive number (NUM 150, GA 806): after zero or a negative value
  nothing is smoothed. A gauge out of sight keeps its flag: in every frame it
  smooths the same value again and starts its time anew (GA 795), so it does not time out.
- The two keys of a combined gauge share one flag and one time (CG 114-127): while one of them
  delivers, the last value of the other stays, however old.
- A gauge with a dial draws its needle at rest next to the dashes (picture `resting`); a gauge is
  not drawn again when the colour scheme changes.
- The step of an adaptive scale is an integer (GA 366): for ranges below 0.1 the
  labels do not match the scale.

Settings

- The format of number 9 is shown as the one whose label is "9", and becomes that when the
  form is written back (GUI 529); `OnlyEnteredChanges` excludes it by `CanShow`.
- A number beyond the limits of a spin control is silently moved to the limit, a choice out of
  range becomes -1, and a number instrument then asks for that format.
- An instrument whose name starts with "New " is renamed after its key whenever the form
  is written back (INS 411-424).
- Zones are written with one decimal in the format of the locale, whose decimal comma the
  reader takes for a separator (`zone.h` 132, 205). A zone written by hand whose lower limit is above its upper one is moved by the
  editor; `ZonesAssumption` leaves it out.
- Cancel in the zone editor restores a text that was never set.

Pages and layout

- Drawing while the JSON editor is open draws nothing and so resets every canvas to
  its first page (DSK 72, `m_frozen`); `SelectionKept` excludes the time the dialog is open.
- A canvas opened after the start has no pager until it is drawn; a mouse event
  (DSK 565) or a configuration (DSK 548) dereferences the null pointer. In Pages
  this is the fault `null_pager`.
- A configuration that cannot be read is not kept: the plugin starts empty and writes that
  at its end, while a comment says a file is never discarded (PI 224). A crash while saving
  leaves such a file (PI 241; `CrashWhileSaving` in Pages), and all that was configured is lost.
- The horizontal spacing of a row is not scaled, all others are (DB 205). Offsets are
  passed on in physical pixels and scaled again (DB 143, 153); the offset from the edge is
  in what is passed on by a top or bottom edge only, and the left edge passes on its
  last column only. `TwoDashboardsApart` names the conditions.
- A dashboard on the current page that has nothing to draw still resets the offset of its edge
  (DB 146), as one that is disabled does not.
- An instrument never drawn has an empty placement in the corner of the canvas, and a click
  there reaches it; placements at the own ship stay when the ship leaves the canvas.

Preferences dialog

- What was typed into the controls is lost when an instrument or a dashboard is
  imported (GUI 912, 1002: no `UpdateEditedInstrument`) and when the JSON editor is
  accepted; `EditsKept` names these exceptions.
- After the first instrument was removed the last one is selected, not the first:
  -1 is compared with an unsigned number (GUI 668).
- After the first instrument of an empty dashboard was imported, its name, title and
  time-out cannot be edited: `EnableItems` is not called (GUI 965-968).
- "Up" and "down" are both enabled after a dashboard was chosen or deleted, at whichever
  end the selected entry is (GUI 191-192, 374, 332).
- In the browser, a key without source gets the first source of its path on OK, and a path or
  source that has not delivered yet is replaced by another; a node that has both
  values and children cannot be picked, and picking the root gives a key that begins with a
  dot. Of two sources that differ only in case the first is selected for either (GUI 1357).
  `KeyKept` and `PickedKeyExists` name these cases.
- A dashboard exported without instruments cannot be imported again: the import asks for
  the member (GUI 1029, 1037).

## Not modelled

- Units, formats, transformations and smoothing of values, and the drawing itself:
  arithmetic and bitmaps without state, or real numbers that TLC does not have.
- Time stamps and metadata of the tree, and zones imported from them: stored, and read by
  nothing that is modelled.
- The context menu, which runs after the click that asked for it, with the address of a
  dashboard: planned as a part of SignalKStore, which has the life cycle of the objects.
- Schema validation, display scales, the drawing context, and of the generated dialogs all but
  the ranges of their controls.
- `SetLockedSource`, which only tests call; renaming and export in the dialog.

`PROJECT.json` lists each component with its status.

## Plan

1. Done: all modules above, and their proofs; `PubSub` is proved as what `SignalKStore`
   implements.
2. Next: the delayed context menu in `SignalKStore`, with the proofs it touches.
3. An abstract specification of a timed value, that ValueDisplay and SlotValues both
   implement: a value, its age, and what may be shown of it.
