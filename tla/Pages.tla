-------------------------------- MODULE Pages --------------------------------
(***************************************************************************)
(* Which page of dashboards each chart canvas shows.  Three pieces of      *)
(* state have to agree and are changed by different callbacks: the         *)
(* placement of the dashboards (preferences, configuration), the pages a   *)
(* pager knows, and the page it shows (mouse, frames, configuration).      *)
(*                                                                         *)
(* While the dashboards are hidden no frame is drawn and no pager can be   *)
(* clicked; nothing else depends on it, so a hidden plugin is one whose    *)
(* Draw and Click steps do not happen.                                     *)
(***************************************************************************)
EXTENDS Naturals, FiniteSets

CONSTANTS
    Canvases,       \* the canvases a dashboard can be placed on, from 0
    CanvasCounts,   \* how many of them OpenCPN may show
    Pages,          \* page numbers
    Dashboards,     \* addresses a dashboard object can live at
    NoPlace,        \* the address holds no dashboard
    NoPager,        \* the canvas has no entry in m_displayed_pages
    NoPage,         \* a configuration without an entry for the canvas
    Closed,         \* no preferences dialog is open
    Unreadable,     \* no configuration file, or one that cannot be parsed
    EditorConfigs   \* what the user makes of the JSON text of the configuration

Placements == [canvas : Canvases, page : Pages]
Pagers == [pages : SUBSET Pages, current : Pages]
Config == [dashboards : [Dashboards -> Placements \cup {NoPlace}],
           current : [Canvases -> Pages \cup {NoPage}]]

ASSUME LayoutAssumption ==
    /\ Canvases \subseteq Nat
    /\ 0 \in Canvases
    /\ CanvasCounts \subseteq Nat \ {0} /\ CanvasCounts # {}
    /\ Pages \subseteq Nat \ {0} /\ 1 \in Pages
    /\ NoPlace \notin Placements
    /\ NoPager \notin Pagers
    /\ NoPage \notin Pages
    /\ Closed \notin Config /\ Unreadable \notin Config
    /\ EditorConfigs \subseteq Config

VARIABLES
    canvas_count,   \* GetCanvasCount()
    pagers,         \* m_displayed_pages
    placement,      \* canvas and page of each dashboard that exists
    frozen,         \* m_frozen: the JSON editor is open
    orig_config,    \* m_orig_config of the preferences dialog
    file,           \* the configuration file
    fault           \* undefined behaviour reached, if any

vars == <<canvas_count, pagers, placement, frozen, orig_config, file, fault>>

Shown == {c \in Canvases : c < canvas_count}
Existing == {d \in Dashboards : placement[d] # NoPlace}

(* The pages the dashboards of a configuration, or the present ones, have  *)
(* on a canvas.                                                            *)
PagesIn(dashboards, c) ==
    {p \in Pages : \E d \in Dashboards : dashboards[d] = [canvas |-> c, page |-> p]}
PagesOn(c) == PagesIn(placement, c)

TypeOK ==
    /\ canvas_count \in CanvasCounts
    /\ pagers \in [Canvases -> Pagers \cup {NoPager}]
    /\ placement \in [Dashboards -> Placements \cup {NoPlace}]
    /\ frozen \in BOOLEAN
    /\ orig_config \in Config \cup {Closed}
    /\ file \in Config \cup {Unreadable}
    /\ fault \in {"none", "null_pager"}

-----------------------------------------------------------------------------
(* Class Pager.                                                            *)

NewPager == [pages |-> {}, current |-> 1]

FirstPage(pager) ==
    IF pager.pages = {} THEN 1
    ELSE CHOOSE p \in pager.pages : \A q \in pager.pages : p <= q

SetCurrentPage(pager, p) ==
    [pager EXCEPT !.current = IF p \in pager.pages THEN p ELSE FirstPage(pager)]

(* Of a pager without pages this reads the end of an empty set; whatever   *)
(* is read there is no page, and page 1 results.                           *)
ResetCurrentPage(pager) == SetCurrentPage(pager, FirstPage(pager))

(* The control is drawn for two pages or more, and only then does drawing  *)
(* it correct a current page that is none of them.                         *)
IsDrawn(pager) == Cardinality(pager.pages) >= 2
Rendered(pager) ==
    IF IsDrawn(pager) THEN SetCurrentPage(pager, pager.current) ELSE pager

NextPage(pager) ==
    LET later == {p \in pager.pages : p > pager.current}
    IN  IF pager.current \in pager.pages /\ later # {}
        THEN CHOOSE p \in later : \A q \in later : p <= q
        ELSE FirstPage(pager)

-----------------------------------------------------------------------------
(* DashboardSK::Draw, called for every frame of every canvas.              *)

DrawnPager(c) == Rendered(IF pagers[c] = NoPager THEN NewPager ELSE pagers[c])

(* A dashboard counts as drawn if its page is the current one, whichever   *)
(* canvas it is on; Dashboard::Draw returns early on the wrong one.        *)
Draws(page) == ~frozen /\ \E d \in Existing : placement[d].page = page

(* Mutant: the page is reset whenever a frame is drawn.                    *)
DrawAndReset(c) ==
    /\ fault = "none"
    /\ c \in Shown
    /\ pagers' = [pagers EXCEPT ![c] = ResetCurrentPage(DrawnPager(c))]
    /\ UNCHANGED <<canvas_count, placement, frozen, orig_config, file, fault>>
Draw(c) ==
    /\ fault = "none"
    /\ c \in Shown
    /\ pagers' = [pagers EXCEPT ![c] =
                     IF Draws(DrawnPager(c).current) THEN DrawnPager(c)
                     ELSE ResetCurrentPage(DrawnPager(c))]
    /\ UNCHANGED <<canvas_count, placement, frozen, orig_config, file, fault>>

-----------------------------------------------------------------------------
(* The mouse.  A modal dialog keeps it away from the canvases.             *)

Turn(c, p) ==
    /\ fault = "none"
    /\ orig_config = Closed
    /\ c \in Shown
    /\ pagers[c] # NoPager
    /\ IsDrawn(pagers[c])
    /\ pagers' = [pagers EXCEPT ![c] = SetCurrentPage(pagers[c], p)]
    /\ UNCHANGED <<canvas_count, placement, frozen, orig_config, file, fault>>
ClickPager(c) == pagers[c] # NoPager /\ Turn(c, NextPage(pagers[c]))
SelectPage(c, p) ==
    /\ pagers[c] # NoPager
    /\ p \in pagers[c].pages
    /\ Turn(c, p)

(* Any mouse event over a canvas that has a dashboard reads the current    *)
(* page of its pager, which operator[] makes a null pointer if the canvas  *)
(* appeared after the configuration was read and was not drawn yet.        *)
MoveMouse(c) ==
    /\ fault = "none"
    /\ orig_config = Closed
    /\ c \in Shown
    /\ pagers[c] = NoPager /\ PagesOn(c) # {}
    /\ fault' = "null_pager"
    /\ UNCHANGED <<canvas_count, pagers, placement, frozen, orig_config, file>>

(* The user chooses another canvas layout in OpenCPN.                      *)
ChangeCanvases(n) ==
    /\ fault = "none"
    /\ orig_config = Closed
    /\ n # canvas_count
    /\ canvas_count' = n
    /\ UNCHANGED <<pagers, placement, frozen, orig_config, file, fault>>

-----------------------------------------------------------------------------
(* The configuration.                                                      *)

GenerateJSONConfig ==
    [dashboards |-> placement,
     current |-> [c \in Canvases |->
                     IF pagers[c] = NoPager THEN NoPage ELSE pagers[c].current]]

(* The pager of a canvas after a configuration was read: pages are added,  *)
(* none is removed, then the page of the "canvas" entry is selected.       *)
WithPages(pager, pages) ==
    IF pager = NoPager THEN [NewPager EXCEPT !.pages = pages]
    ELSE [pager EXCEPT !.pages = @ \cup pages]
(* Mutant: the page is selected before the pages are added.                *)
PagerAfterSelectFirst(pager, c, config) ==
    IF config.current[c] # NoPage
    THEN WithPages(SetCurrentPage(WithPages(pager, {}), config.current[c]),
                   PagesIn(config.dashboards, c))
    ELSE IF pager # NoPager \/ c \in Shown \/ PagesIn(config.dashboards, c) # {}
    THEN WithPages(pager, PagesIn(config.dashboards, c))
    ELSE NoPager
PagerAfter(pager, c, config) ==
    IF config.current[c] # NoPage
    THEN SetCurrentPage(WithPages(pager, PagesIn(config.dashboards, c)),
                        config.current[c])
    ELSE IF pager # NoPager \/ c \in Shown \/ PagesIn(config.dashboards, c) # {}
    THEN WithPages(pager, PagesIn(config.dashboards, c))
    ELSE NoPager

(* Dashboard::ReadConfig registers its page before DashboardSK::ReadConfig *)
(* creates a missing pager.                                                *)
MissesPager(config) ==
    \E c \in Shown : pagers[c] = NoPager /\ PagesIn(config.dashboards, c) # {}
ReadConfig(config) ==
    /\ placement' = config.dashboards
    /\ \/ /\ MissesPager(config)
          /\ fault' = "null_pager"
          /\ UNCHANGED pagers
       \/ /\ ~MissesPager(config)
          /\ pagers' = [c \in Canvases |-> PagerAfter(pagers[c], c, config)]
          /\ UNCHANGED fault

(* The constructor of DashboardSK makes the pagers of the visible canvases. *)
FreshPager(c) == IF c \in Shown THEN NewPager ELSE NoPager

(* LoadConfig gives up on a file it cannot read or parse: the plugin       *)
(* starts without dashboards, and the next save replaces the file.         *)
Empty == [dashboards |-> [d \in Dashboards |-> NoPlace],
          current |-> [c \in Canvases |-> NoPage]]
Start(text) ==
    LET config == IF text = Unreadable THEN Empty ELSE text
    IN  /\ fault = "none"
        /\ placement' = config.dashboards
        /\ pagers' = [c \in Canvases |-> PagerAfter(FreshPager(c), c, config)]
        /\ file' = text
        /\ frozen' = FALSE
        /\ orig_config' = Closed
        /\ UNCHANGED <<canvas_count, fault>>
Restart == orig_config = Closed /\ Start(GenerateJSONConfig)
CrashAndRestart == Start(file)
(* SaveConfig opens the file for writing, which truncates it, before it    *)
(* writes: on OK, or when the plugin is unloaded.                          *)
CrashWhileSaving == ~frozen /\ Start(Unreadable)

-----------------------------------------------------------------------------
(* The preferences dialog; its spin controls change a dashboard at once.   *)

Editing == fault = "none" /\ orig_config # Closed /\ ~frozen

OpenPreferences ==
    /\ fault = "none"
    /\ orig_config = Closed
    /\ orig_config' = GenerateJSONConfig
    /\ UNCHANGED <<canvas_count, pagers, placement, frozen, file, fault>>

Place(d, place) ==
    /\ placement' = [placement EXCEPT ![d] = place]
    /\ UNCHANGED <<canvas_count, pagers, frozen, orig_config, file, fault>>
AddDashboard(d) ==
    /\ Editing
    /\ d \notin Existing
    /\ Place(d, [canvas |-> 0, page |-> 1])
UpdateEditedDashboard(d, place) ==
    /\ Editing
    /\ d \in Existing
    /\ Place(d, place)
DeleteDashboard(d) ==
    /\ Editing
    /\ d \in Existing
    /\ Place(d, NoPlace)

(* Mutant: the pagers are emptied and not filled again.                    *)
ResetPagersToEmpty ==
    pagers' = [c \in Canvases |->
                  IF pagers[c] = NoPager THEN NoPager
                  ELSE [pagers[c] EXCEPT !.pages = {}]]
ResetPagers ==
    pagers' = [c \in Canvases |->
                  IF pagers[c] = NoPager THEN NoPager
                  ELSE [pagers[c] EXCEPT !.pages = PagesOn(c)]]
(* Mutant: the configuration is written when the plugin is unloaded only.  *)
AcceptPreferencesUnsaved ==
    /\ Editing
    /\ ResetPagers
    /\ orig_config' = Closed
    /\ UNCHANGED <<canvas_count, placement, frozen, file, fault>>
AcceptPreferences ==
    /\ Editing
    /\ ResetPagers
    /\ orig_config' = Closed
    /\ file' = GenerateJSONConfig
    /\ UNCHANGED <<canvas_count, placement, frozen, fault>>

CancelPreferences ==
    /\ Editing
    /\ ReadConfig(orig_config)
    /\ orig_config' = Closed
    /\ UNCHANGED <<canvas_count, frozen, file>>

(* The editor of the configuration as JSON, modal above the dialog.        *)
OpenEditor ==
    /\ Editing
    /\ frozen' = TRUE
    /\ UNCHANGED <<canvas_count, pagers, placement, orig_config, file, fault>>
CloseEditor ==
    /\ fault = "none"
    /\ frozen
    /\ frozen' = FALSE
    /\ UNCHANGED <<canvas_count, pagers, placement, orig_config, file, fault>>
AcceptEditor(config) ==
    /\ fault = "none"
    /\ frozen
    /\ ReadConfig(config)
    /\ frozen' = FALSE
    /\ UNCHANGED <<canvas_count, orig_config, file>>

-----------------------------------------------------------------------------
(* The first start, without a configuration file and without a sample.     *)
Init ==
    /\ canvas_count \in CanvasCounts
    /\ pagers = [c \in Canvases |-> FreshPager(c)]
    /\ placement = [d \in Dashboards |-> NoPlace]
    /\ frozen = FALSE
    /\ orig_config = Closed
    /\ file = Unreadable
    /\ fault = "none"

Next ==
    \/ \E c \in Canvases :
          \/ Draw(c) \/ ClickPager(c) \/ MoveMouse(c)
          \/ \E p \in Pages : SelectPage(c, p)
    \/ \E n \in CanvasCounts : ChangeCanvases(n)
    \/ OpenPreferences \/ AcceptPreferences \/ CancelPreferences
    \/ \E d \in Dashboards :
          \/ AddDashboard(d) \/ DeleteDashboard(d)
          \/ \E place \in Placements : UpdateEditedDashboard(d, place)
    \/ OpenEditor \/ CloseEditor
    \/ \E config \in EditorConfigs : AcceptEditor(config)
    \/ Restart \/ CrashAndRestart \/ CrashWhileSaving

Spec == Init /\ [][Next]_vars

(* OpenCPN keeps drawing the canvases it shows.                            *)
FairSpec == Spec /\ \A c \in Canvases : WF_vars(Draw(c))

-----------------------------------------------------------------------------
(* Properties.                                                             *)

(* Between two visits to the preferences a pager offers every page that    *)
(* has a dashboard on its canvas, or it is the pager of a canvas that was  *)
(* opened after the dashboards were placed and offers none: there is never *)
(* a page missing from the control that is drawn.                          *)
PagerOffersPages ==
    orig_config = Closed /\ fault = "none" =>
        \A c \in Canvases :
            \/ pagers[c] = NoPager
            \/ pagers[c].pages = {} /\ \E n \in CanvasCounts : n <= c
            \/ PagesOn(c) \subseteq pagers[c].pages

(* A frame never turns the page away from one that has a dashboard on the  *)
(* canvas: what the user selected stays until the user or the              *)
(* configuration changes it.                                               *)
SelectionKept ==
    [][\A c \in Canvases :
          orig_config = Closed /\ pagers[c] # NoPager /\ Draw(c) =>
              (pagers[c].current \in PagesOn(c) =>
                  pagers'[c].current = pagers[c].current)]_vars

(* The view is part of the configuration: a page that has a dashboard on   *)
(* its canvas is shown again after Cancel, after a restart, and after a    *)
(* crash as it was last saved, whatever the pagers knew before.            *)
ShowsAgain(config) ==
    \A c \in Canvases :
        config.current[c] \in PagesIn(config.dashboards, c) =>
            pagers'[c].current = config.current[c]
ViewRestored ==
    [][/\ CancelPreferences /\ fault' = "none" => ShowsAgain(orig_config)
       /\ Restart => ShowsAgain(GenerateJSONConfig)
       /\ CrashAndRestart /\ file # Unreadable => ShowsAgain(file)]_vars

(* Between two visits to the preferences the file holds every dashboard    *)
(* there is, so that a crash costs the selected pages at most.  Unless it  *)
(* comes in the middle of a save: then everything is gone, and the next    *)
(* save makes it final.                                                    *)
ChangesSaved ==
    orig_config = Closed /\ fault = "none" =>
        file = Unreadable \/ file.dashboards = placement

(* A claim of the manual that the code refutes: a dashboard is displayed   *)
(* on the canvas it is placed on, and no pager is needed to get to it      *)
(* while all dashboards of the canvas are on one page.                     *)
OnOnePage(c, p) ==
    /\ orig_config = Closed /\ fault = "none"
    /\ c \in Shown
    /\ PagesOn(c) = {p}
    /\ pagers[c] # NoPager /\ ~IsDrawn(pagers[c])
OnlyPageShown ==
    \A c \in Canvases, p \in Pages :
        OnOnePage(c, p) ~> (~OnOnePage(c, p) \/ pagers[c].current = p)
=============================================================================
