----------------------------- MODULE PagesProofs -----------------------------
(***************************************************************************)
(* Theorems about Pages, for every set of canvases, pages, dashboards and  *)
(* configurations a user may write; and about Layout, for every sequence   *)
(* of dashboards and every size of the canvas and of the instruments.      *)
(***************************************************************************)
EXTENDS Pages, Layout, WellFoundedInduction, FiniteSetTheorems, TLAPS

(***************************************************************************)
(* What the properties need to be inductive.  The editor of the text is    *)
(* open above the preferences only.                                        *)
(***************************************************************************)
FrozenWhileEditing == frozen => orig_config # Closed

(* A canvas has no pager only if OpenCPN may not have shown it.            *)
NoPagerUnseen ==
    \A c \in Canvases :
        pagers[c] = NoPager => \E n \in CanvasCounts : n <= c

(* The configuration that Cancel goes back to is the one in the file.      *)
KeptIsSaved ==
    orig_config # Closed /\ fault = "none" =>
        file = Unreadable \/ file.dashboards = orig_config.dashboards

IInv ==
    /\ TypeOK
    /\ FrozenWhileEditing
    /\ NoPagerUnseen
    /\ KeptIsSaved
    /\ PagerOffersPages
    /\ ChangesSaved

-----------------------------------------------------------------------------
(* Lemmas about the pagers.                                                *)

(* A set of numbers has a least one.                                       *)
LEMMA LeastExists ==
    ASSUME NEW S, S \subseteq Nat, S # {}
    PROVE  \E p \in S : \A q \in S : p <= q
<1> DEFINE Less == {pair \in Nat \X Nat : pair[1] < pair[2]}
<1>1. IsWellFoundedOn(Less, Nat)
  BY NatLessThanWellFounded, Zenon DEF OpToRel
<1>2. PICK p \in S : \A q \in S : <<q, p>> \notin Less
  BY <1>1, WFMin, Zenon
<1>3. \A q \in Nat : q < p => <<q, p>> \in Less
  OBVIOUS
<1> HIDE DEF Less
<1>4. \A q \in S : ~(q < p)
  BY <1>2, <1>3
<1> QED
  BY <1>4

LEMMA FirstPageType ==
    ASSUME NEW pager \in Pagers
    PROVE  /\ FirstPage(pager) \in Pages
           /\ pager.pages # {} => FirstPage(pager) \in pager.pages
<1>1. pager.pages \subseteq Pages
  BY DEF Pagers
<1>2. CASE pager.pages = {}
  BY <1>2, LayoutAssumption DEF FirstPage
<1>3. CASE pager.pages # {}
  <2>1. \E p \in pager.pages : \A q \in pager.pages : p <= q
    <3>1. pager.pages \subseteq Nat
      BY <1>1, LayoutAssumption
    <3> QED
      BY <1>3, <3>1, LeastExists
  <2>2. (CHOOSE p \in pager.pages : \A q \in pager.pages : p <= q)
            \in pager.pages
    BY <2>1
  <2> QED
    BY <1>1, <1>3, <2>2 DEF FirstPage
<1> QED
  BY <1>2, <1>3

(* Selecting a page leaves the pages alone and takes one that is known.    *)
LEMMA SetCurrentPageType ==
    ASSUME NEW pager \in Pagers, NEW p
    PROVE  /\ SetCurrentPage(pager, p) \in Pagers
           /\ SetCurrentPage(pager, p).pages = pager.pages
           /\ p \in pager.pages => SetCurrentPage(pager, p).current = p
<1>1. FirstPage(pager) \in Pages
  BY FirstPageType
<1> QED
  BY <1>1 DEF SetCurrentPage, Pagers

(* Drawing the control keeps a current page that is one of the pages.      *)
LEMMA RenderedType ==
    ASSUME NEW pager \in Pagers
    PROVE  /\ Rendered(pager) \in Pagers
           /\ Rendered(pager).pages = pager.pages
           /\ pager.current \in pager.pages \/ pager.pages = {} =>
                 Rendered(pager).current = pager.current
<1>1. CASE pager.pages = {}
  <2>1. ~IsDrawn(pager)
    BY <1>1, FS_EmptySet DEF IsDrawn
  <2> QED
    BY <2>1 DEF Rendered
<1>2. CASE pager.pages # {}
  BY <1>2, SetCurrentPageType DEF Rendered
<1> QED
  BY <1>1, <1>2

LEMMA NewPagerType ==
    NewPager \in Pagers /\ NewPager.pages = {} /\ NewPager # NoPager
BY LayoutAssumption DEF NewPager, Pagers

LEMMA DrawnPagerType ==
    ASSUME TypeOK, NEW c \in Canvases
    PROVE  /\ DrawnPager(c) \in Pagers
           /\ pagers[c] # NoPager => DrawnPager(c).pages = pagers[c].pages
           /\ pagers[c] = NoPager => DrawnPager(c).pages = {}
BY RenderedType, NewPagerType DEF TypeOK, DrawnPager

LEMMA WithPagesType ==
    ASSUME NEW pager \in Pagers \cup {NoPager}, NEW pages \in SUBSET Pages
    PROVE  /\ WithPages(pager, pages) \in Pagers
           /\ pages \subseteq WithPages(pager, pages).pages
BY NewPagerType DEF WithPages, Pagers

(* Reading a configuration leaves a pager that offers its pages and shows  *)
(* the page it selects; only a canvas that is not shown and has no pages   *)
(* stays without.                                                          *)
LEMMA PagerAfterType ==
    ASSUME NEW pager \in Pagers \cup {NoPager}, NEW c \in Canvases,
           NEW config \in Config
    PROVE  /\ PagerAfter(pager, c, config) \in Pagers \cup {NoPager}
           /\ PagerAfter(pager, c, config) = NoPager =>
                 pager = NoPager /\ c \notin Shown
           /\ PagerAfter(pager, c, config) # NoPager =>
                 PagesIn(config.dashboards, c) \subseteq
                    PagerAfter(pager, c, config).pages
           /\ config.current[c] \in PagesIn(config.dashboards, c) =>
                 PagerAfter(pager, c, config).current = config.current[c]
<1> DEFINE pages == PagesIn(config.dashboards, c)
<1>1. pages \in SUBSET Pages
  BY DEF PagesIn
<1>2. NoPager \notin Pagers
  BY LayoutAssumption
<1>3. CASE config.current[c] # NoPage
  BY <1>1, <1>2, <1>3, WithPagesType, SetCurrentPageType DEF PagerAfter
<1>4. CASE config.current[c] = NoPage
  <2>1. config.current[c] \notin pages
    BY <1>1, <1>4, LayoutAssumption
  <2> QED
    BY <1>1, <1>2, <1>4, <2>1, WithPagesType DEF PagerAfter
<1> QED
  BY <1>3, <1>4

-----------------------------------------------------------------------------
(* The types of the variables.                                             *)

LEMMA ConfigType ==
    /\ Empty \in Config
    /\ TypeOK => /\ GenerateJSONConfig \in Config
                 /\ GenerateJSONConfig.dashboards = placement
                 /\ GenerateJSONConfig # Closed
                 /\ GenerateJSONConfig # Unreadable
<1>1. Empty \in Config
  BY DEF Empty, Config
<1>2. ASSUME TypeOK PROVE GenerateJSONConfig \in Config
  <2>1. \A c \in Canvases :
          (IF pagers[c] = NoPager THEN NoPage ELSE pagers[c].current)
             \in Pages \cup {NoPage}
    BY <1>2 DEF TypeOK, Pagers
  <2> QED
    BY <1>2, <2>1 DEF TypeOK, GenerateJSONConfig, Config
<1>3. GenerateJSONConfig.dashboards = placement
  BY DEF GenerateJSONConfig
<1> QED
  BY <1>1, <1>2, <1>3, LayoutAssumption

LEMMA FreshPagerType ==
    ASSUME NEW c \in Canvases
    PROVE  /\ FreshPager(c) \in Pagers \cup {NoPager}
           /\ FreshPager(c) = NoPager => c \notin Shown
BY NewPagerType DEF FreshPager

LEMMA InitType == Init => TypeOK
BY FreshPagerType DEF Init, TypeOK

LEMMA ReadConfigType ==
    ASSUME TypeOK, NEW config \in Config, ReadConfig(config)
    PROVE  /\ placement' \in [Dashboards -> Placements \cup {NoPlace}]
           /\ pagers' \in [Canvases -> Pagers \cup {NoPager}]
           /\ fault' \in {"none", "null_pager"}
<1>1. placement' \in [Dashboards -> Placements \cup {NoPlace}]
  BY DEF ReadConfig, Config
<1>2. \A c \in Canvases : PagerAfter(pagers[c], c, config) \in Pagers \cup {NoPager}
  BY PagerAfterType DEF TypeOK
<1> QED
  BY <1>1, <1>2 DEF ReadConfig, TypeOK

LEMMA StartType ==
    ASSUME TypeOK, NEW text \in Config \cup {Unreadable}, Start(text)
    PROVE  TypeOK'
<1> DEFINE config == IF text = Unreadable THEN Empty ELSE text
<1>1. config \in Config
  BY ConfigType
<1>2. /\ placement' = config.dashboards
      /\ pagers' = [c \in Canvases |-> PagerAfter(FreshPager(c), c, config)]
  BY DEF Start
<1>3. \A c \in Canvases : PagerAfter(FreshPager(c), c, config) \in Pagers \cup {NoPager}
  BY <1>1, PagerAfterType, FreshPagerType
<1>4. config.dashboards \in [Dashboards -> Placements \cup {NoPlace}]
  BY <1>1 DEF Config
<1> HIDE DEF config
<1> QED
  BY <1>2, <1>3, <1>4 DEF Start, TypeOK

LEMMA TypeStep == TypeOK /\ [Next]_vars => TypeOK'
<1> SUFFICES ASSUME TypeOK, [Next]_vars PROVE TypeOK'
  OBVIOUS
<1>1. ASSUME NEW c \in Canvases, Draw(c) PROVE TypeOK'
  <2>1. pagers'[c] \in Pagers
    BY <1>1, DrawnPagerType, SetCurrentPageType
       DEF Draw, ResetCurrentPage, TypeOK
  <2> QED
    BY <1>1, <2>1 DEF Draw, TypeOK
<1>2. ASSUME NEW c \in Canvases, NEW p, Turn(c, p) PROVE TypeOK'
  <2>1. SetCurrentPage(pagers[c], p) \in Pagers
    BY <1>2, SetCurrentPageType DEF Turn, TypeOK
  <2> QED
    BY <1>2, <2>1 DEF Turn, TypeOK
<1>3. ASSUME NEW c \in Canvases,
             ClickPager(c) \/ \E p \in Pages : SelectPage(c, p)
      PROVE  TypeOK'
  BY <1>2, <1>3 DEF ClickPager, SelectPage
<1>4. ASSUME NEW c \in Canvases, MoveMouse(c) PROVE TypeOK'
  BY <1>4 DEF MoveMouse, TypeOK
<1>5. ASSUME NEW n \in CanvasCounts, ChangeCanvases(n) PROVE TypeOK'
  BY <1>5 DEF ChangeCanvases, TypeOK
<1>6. CASE OpenPreferences
  BY <1>6, ConfigType DEF OpenPreferences, TypeOK
<1>7. CASE AcceptPreferences
  <2>1. pagers' \in [Canvases -> Pagers \cup {NoPager}]
    BY <1>7 DEF AcceptPreferences, ResetPagers, TypeOK, Pagers, PagesOn, PagesIn
  <2> QED
    BY <1>7, <2>1, ConfigType DEF AcceptPreferences, TypeOK
<1>8. CASE CancelPreferences
  <2>1. orig_config \in Config /\ ReadConfig(orig_config)
    BY <1>8 DEF CancelPreferences, Editing, TypeOK
  <2> QED
    BY <1>8, <2>1, ReadConfigType DEF CancelPreferences, TypeOK
<1>9. ASSUME NEW d \in Dashboards, NEW place \in Placements \cup {NoPlace},
             Place(d, place)
      PROVE  TypeOK'
  BY <1>9 DEF Place, TypeOK
<1>10. [canvas |-> 0, page |-> 1] \in Placements
  BY LayoutAssumption DEF Placements
<1>11. ASSUME NEW d \in Dashboards,
              \/ AddDashboard(d) \/ DeleteDashboard(d)
              \/ \E place \in Placements : UpdateEditedDashboard(d, place)
       PROVE  TypeOK'
  BY <1>9, <1>10, <1>11 DEF AddDashboard, DeleteDashboard, UpdateEditedDashboard
<1>12. CASE OpenEditor \/ CloseEditor
  BY <1>12 DEF OpenEditor, CloseEditor, TypeOK
<1>13. ASSUME NEW config \in EditorConfigs, AcceptEditor(config) PROVE TypeOK'
  <2>1. config \in Config /\ ReadConfig(config)
    BY <1>13, LayoutAssumption DEF AcceptEditor
  <2> QED
    BY <1>13, <2>1, ReadConfigType DEF AcceptEditor, TypeOK
<1>14. CASE Restart \/ CrashAndRestart \/ CrashWhileSaving
  BY <1>14, StartType, ConfigType
     DEF Restart, CrashAndRestart, CrashWhileSaving, TypeOK
<1>15. CASE UNCHANGED vars
  BY <1>15 DEF vars, TypeOK
<1> QED
  BY <1>1, <1>3, <1>4, <1>5, <1>6, <1>7, <1>8, <1>11, <1>12, <1>13, <1>14,
     <1>15 DEF Next

(* The pagers, the dashboards and the configurations have their types.     *)
THEOREM TypeCorrect == Spec => []TypeOK
BY InitType, TypeStep, PTL DEF Spec

-----------------------------------------------------------------------------
(* Frames.                                                                 *)

LEMMA DrawEffect ==
    ASSUME TypeOK, NEW c \in Canvases, Draw(c)
    PROVE  /\ pagers'[c] \in Pagers
           /\ pagers'[c].pages =
                 IF pagers[c] = NoPager THEN {} ELSE pagers[c].pages
           /\ \A other \in Canvases \ {c} : pagers'[other] = pagers[other]
<1>1. pagers'[c] = DrawnPager(c) \/ pagers'[c] = ResetCurrentPage(DrawnPager(c))
  BY DEF Draw, TypeOK
<1>2. \A other \in Canvases \ {c} : pagers'[other] = pagers[other]
  BY DEF Draw, TypeOK
<1>3. /\ DrawnPager(c) \in Pagers
      /\ DrawnPager(c).pages =
            IF pagers[c] = NoPager THEN {} ELSE pagers[c].pages
  BY DrawnPagerType
<1>4. /\ ResetCurrentPage(DrawnPager(c)) \in Pagers
      /\ ResetCurrentPage(DrawnPager(c)).pages = DrawnPager(c).pages
  BY <1>3, SetCurrentPageType DEF ResetCurrentPage
<1> QED
  BY <1>1, <1>2, <1>3, <1>4

LEMMA TurnEffect ==
    ASSUME TypeOK, NEW c \in Canvases, NEW p, Turn(c, p)
    PROVE  /\ pagers'[c] \in Pagers
           /\ pagers'[c].pages = pagers[c].pages
           /\ \A other \in Canvases \ {c} : pagers'[other] = pagers[other]
<1>1. pagers'[c] = SetCurrentPage(pagers[c], p) /\ pagers[c] \in Pagers
  BY DEF Turn, TypeOK
<1>2. \A other \in Canvases \ {c} : pagers'[other] = pagers[other]
  BY DEF Turn, TypeOK
<1> QED
  BY <1>1, <1>2, SetCurrentPageType

(* A canvas that is not shown is one OpenCPN may leave out.                *)
LEMMA UnshownUnseen ==
    ASSUME TypeOK, NEW c \in Canvases, c \notin Shown
    PROVE  \E n \in CanvasCounts : n <= c
BY LayoutAssumption DEF TypeOK, Shown

-----------------------------------------------------------------------------
(* The invariant: every action keeps it.                                   *)

LEMMA InitInv == Init => IInv
<1> SUFFICES ASSUME Init PROVE IInv
  OBVIOUS
<1>1. TypeOK
  BY InitType
<1>2. NoPagerUnseen
  BY <1>1, FreshPagerType, UnshownUnseen DEF Init, NoPagerUnseen
<1>3. \A c \in Canvases : PagesOn(c) = {}
  BY LayoutAssumption DEF Init, PagesOn, PagesIn, Placements
<1>4. PagerOffersPages
  BY <1>3 DEF PagerOffersPages
<1> QED
  BY <1>1, <1>2, <1>4
     DEF Init, IInv, FrozenWhileEditing, KeptIsSaved, ChangesSaved

(* Frames and the mouse change the current page of one pager.              *)
LEMMA PagerStep ==
    ASSUME IInv, TypeOK', NEW c \in Canvases,
           Draw(c) \/ \E p : Turn(c, p)
    PROVE  IInv'
<1>1. TypeOK
  BY DEF IInv
<1>2. /\ pagers'[c] \in Pagers
      /\ pagers'[c].pages = IF pagers[c] = NoPager THEN {} ELSE pagers[c].pages
      /\ \A other \in Canvases \ {c} : pagers'[other] = pagers[other]
  BY <1>1, DrawEffect, TurnEffect DEF Turn
<1>3. UNCHANGED <<canvas_count, placement, frozen, orig_config, file, fault>>
  BY DEF Draw, Turn
<1>4. NoPagerUnseen'
  BY <1>2, LayoutAssumption DEF IInv, NoPagerUnseen
<1>5. PagerOffersPages'
  BY <1>2, <1>3, LayoutAssumption
     DEF IInv, NoPagerUnseen, PagerOffersPages, PagesOn
<1> QED
  BY <1>3, <1>4, <1>5
     DEF IInv, FrozenWhileEditing, KeptIsSaved, ChangesSaved

LEMMA ReadConfigEffect ==
    ASSUME IInv, TypeOK', NEW config \in Config, ReadConfig(config),
           UNCHANGED canvas_count
    PROVE  /\ NoPagerUnseen'
           /\ placement' = config.dashboards
           /\ fault' = "none" =>
                 \A c \in Canvases :
                    \/ pagers'[c] = NoPager
                    \/ PagesOn(c)' \subseteq pagers'[c].pages
<1>1. \A c \in Canvases : pagers[c] \in Pagers \cup {NoPager}
  BY DEF IInv, TypeOK
<1>2. placement' = config.dashboards
  BY DEF ReadConfig
<1>3. CASE UNCHANGED pagers /\ fault' = "null_pager"
  BY <1>2, <1>3 DEF IInv, NoPagerUnseen
<1>4. CASE pagers' = [c \in Canvases |-> PagerAfter(pagers[c], c, config)]
  <2>1. NoPagerUnseen'
    BY <1>1, <1>4, PagerAfterType, UnshownUnseen DEF IInv, NoPagerUnseen
  <2> QED
    BY <1>1, <1>2, <1>4, <2>1, PagerAfterType DEF PagesOn
<1> QED
  BY <1>3, <1>4 DEF ReadConfig

LEMMA StartStep ==
    ASSUME IInv, TypeOK', NEW text \in Config \cup {Unreadable}, Start(text)
    PROVE  IInv'
<1> DEFINE config == IF text = Unreadable THEN Empty ELSE text
<1>1. config \in Config
  BY ConfigType
<1>2. /\ placement' = config.dashboards
      /\ pagers' = [c \in Canvases |-> PagerAfter(FreshPager(c), c, config)]
      /\ file' = text /\ ~frozen' /\ orig_config' = Closed
  BY DEF Start
<1>3. TypeOK /\ UNCHANGED canvas_count
  BY DEF IInv, Start
<1>4. file' = Unreadable \/ file'.dashboards = placement'
  BY <1>2
<1> HIDE DEF config
<1>5. NoPagerUnseen'
  BY <1>1, <1>2, <1>3, PagerAfterType, FreshPagerType, UnshownUnseen
     DEF NoPagerUnseen
<1>6. PagerOffersPages'
  BY <1>1, <1>2, PagerAfterType, FreshPagerType DEF PagerOffersPages, PagesOn
<1> QED
  BY <1>2, <1>4, <1>5, <1>6
     DEF IInv, FrozenWhileEditing, KeptIsSaved, ChangesSaved

LEMMA PreferencesStep ==
    ASSUME IInv, TypeOK',
           OpenPreferences \/ AcceptPreferences \/ CancelPreferences
    PROVE  IInv'
<1>1. TypeOK
  BY DEF IInv
<1>2. CASE OpenPreferences
  BY <1>1, <1>2, ConfigType
     DEF OpenPreferences, IInv, FrozenWhileEditing, NoPagerUnseen, KeptIsSaved,
         PagerOffersPages, ChangesSaved
<1>3. CASE AcceptPreferences
  <2>1. ASSUME NEW c \in Canvases
        PROVE  /\ pagers[c] = NoPager <=> pagers'[c] = NoPager
               /\ pagers[c] # NoPager => pagers'[c].pages = PagesOn(c)
    <3>1. pagers[c] \in Pagers \cup {NoPager}
      BY <1>1 DEF TypeOK
    <3>2. pagers'[c] = IF pagers[c] = NoPager THEN NoPager
                       ELSE [pagers[c] EXCEPT !.pages = PagesOn(c)]
      BY <1>3 DEF AcceptPreferences, ResetPagers
    <3>3. PagesOn(c) \in SUBSET Pages
      BY DEF PagesOn, PagesIn
    <3> QED
      BY <3>1, <3>2, <3>3, LayoutAssumption DEF Pagers
  <2>2. NoPagerUnseen'
    BY <2>1 DEF IInv, NoPagerUnseen
  <2>3. PagerOffersPages'
    BY <1>3, <2>1 DEF AcceptPreferences, PagerOffersPages, PagesOn
  <2>4. ChangesSaved'
    BY <1>1, <1>3, ConfigType DEF AcceptPreferences, ChangesSaved
  <2> QED
    BY <1>3, <2>2, <2>3, <2>4
       DEF AcceptPreferences, Editing, IInv, FrozenWhileEditing, KeptIsSaved
<1>4. CASE CancelPreferences
  <2>1. /\ orig_config \in Config /\ ReadConfig(orig_config)
        /\ ~frozen' /\ orig_config' = Closed /\ fault = "none"
        /\ UNCHANGED <<canvas_count, file>>
    BY <1>1, <1>4 DEF CancelPreferences, Editing, TypeOK
  <2>2. NoPagerUnseen' /\ PagerOffersPages'
    BY <2>1, ReadConfigEffect DEF PagerOffersPages
  <2>3. ChangesSaved'
    BY <1>1, <1>4, <2>1, ReadConfigEffect
       DEF CancelPreferences, Editing, IInv, KeptIsSaved, ChangesSaved
  <2> QED
    BY <2>1, <2>2, <2>3 DEF IInv, FrozenWhileEditing, KeptIsSaved
<1> QED
  BY <1>2, <1>3, <1>4

(* While the preferences are open, dashboards move without the pagers.     *)
LEMMA EditingStep ==
    ASSUME IInv, TypeOK', orig_config # Closed,
           UNCHANGED <<pagers, orig_config, file, fault>>
    PROVE  IInv'
BY DEF IInv, FrozenWhileEditing, NoPagerUnseen, KeptIsSaved, PagerOffersPages,
       ChangesSaved

LEMMA AcceptEditorStep ==
    ASSUME IInv, TypeOK', NEW config \in EditorConfigs, AcceptEditor(config)
    PROVE  IInv'
<1>1. /\ orig_config # Closed /\ ~frozen' /\ fault = "none"
      /\ UNCHANGED <<canvas_count, orig_config, file>>
      /\ config \in Config /\ ReadConfig(config)
  BY LayoutAssumption DEF AcceptEditor, IInv, FrozenWhileEditing
<1>2. NoPagerUnseen'
  BY <1>1, ReadConfigEffect
<1> QED
  BY <1>1, <1>2
     DEF IInv, FrozenWhileEditing, KeptIsSaved, PagerOffersPages, ChangesSaved

(* Undefined behaviour, and another canvas layout.                         *)
LEMMA OutsideStep ==
    ASSUME IInv, TypeOK',
           \/ \E c \in Canvases : MoveMouse(c)
           \/ \E n \in CanvasCounts : ChangeCanvases(n)
    PROVE  IInv'
BY DEF MoveMouse, ChangeCanvases, IInv, FrozenWhileEditing, NoPagerUnseen,
       KeptIsSaved, PagerOffersPages, PagesOn, ChangesSaved

LEMMA InvStep == IInv /\ [Next]_vars => IInv'
<1> SUFFICES ASSUME IInv, [Next]_vars PROVE IInv'
  OBVIOUS
<1>1. TypeOK'
  BY TypeStep DEF IInv
<1>2. CASE UNCHANGED vars
  BY <1>1, <1>2 DEF vars, IInv, FrozenWhileEditing, NoPagerUnseen, KeptIsSaved,
     PagerOffersPages, PagesOn, ChangesSaved
<1>3. ASSUME NEW c \in Canvases,
             Draw(c) \/ ClickPager(c) \/ \E p \in Pages : SelectPage(c, p)
      PROVE  IInv'
  BY <1>1, <1>3, PagerStep DEF ClickPager, SelectPage
<1>4. ASSUME NEW d \in Dashboards,
             \/ AddDashboard(d) \/ DeleteDashboard(d)
             \/ \E place \in Placements : UpdateEditedDashboard(d, place)
      PROVE  IInv'
  BY <1>1, <1>4, EditingStep
     DEF AddDashboard, DeleteDashboard, UpdateEditedDashboard, Place, Editing
<1>5. CASE OpenEditor \/ CloseEditor
  BY <1>1, <1>5, EditingStep
     DEF OpenEditor, CloseEditor, Editing, IInv, FrozenWhileEditing
<1>6. CASE Restart \/ CrashAndRestart \/ CrashWhileSaving
  BY <1>1, <1>6, StartStep, ConfigType
     DEF Restart, CrashAndRestart, CrashWhileSaving, IInv, TypeOK
<1> QED
  BY <1>1, <1>2, <1>3, <1>4, <1>5, <1>6, PreferencesStep, AcceptEditorStep,
     OutsideStep DEF Next

LEMMA Invariant == Spec => []IInv
BY InitInv, InvStep, PTL DEF Spec

-----------------------------------------------------------------------------
(* The properties.                                                         *)

(* Between two visits to the preferences no page that has a dashboard is   *)
(* missing from a pager that offers any.                                   *)
THEOREM PagesOffered == Spec => []PagerOffersPages
<1>1. IInv => PagerOffersPages
  BY DEF IInv
<1> QED
  BY <1>1, Invariant, PTL

(* And the file holds every dashboard there is, unless a crash in the      *)
(* middle of a save emptied it.                                            *)
THEOREM Saved == Spec => []ChangesSaved
<1>1. IInv => ChangesSaved
  BY DEF IInv
<1> QED
  BY <1>1, Invariant, PTL

(* No frame turns the page away from one that has a dashboard.             *)
THEOREM KeepsSelection == Spec => SelectionKept
<1>1. ASSUME IInv, NEW c \in Canvases, orig_config = Closed,
             pagers[c] # NoPager, Draw(c), pagers[c].current \in PagesOn(c)
      PROVE  pagers'[c].current = pagers[c].current
  <2>1. /\ TypeOK /\ pagers[c] \in Pagers /\ ~frozen /\ fault = "none"
    BY <1>1 DEF IInv, TypeOK, FrozenWhileEditing, Draw
  <2>2. pagers[c].pages = {} \/ pagers[c].current \in pagers[c].pages
    BY <1>1, <2>1 DEF IInv, PagerOffersPages
  <2>3. DrawnPager(c).current = pagers[c].current
    BY <1>1, <2>1, <2>2, RenderedType DEF DrawnPager
  <2>4. PICK d \in Dashboards :
            placement[d] = [canvas |-> c, page |-> pagers[c].current]
    BY <1>1 DEF PagesOn, PagesIn
  <2>5. Draws(DrawnPager(c).current)
    <3>1. [canvas |-> c, page |-> pagers[c].current] \in Placements
      BY <2>1 DEF Placements, Pagers
    <3> QED
      BY <2>1, <2>3, <2>4, <3>1, LayoutAssumption DEF Draws, Existing
  <2> QED
    BY <1>1, <2>1, <2>3, <2>5 DEF Draw, TypeOK
<1>2. IInv /\ [Next]_vars =>
        [\A c \in Canvases :
            orig_config = Closed /\ pagers[c] # NoPager /\ Draw(c) =>
                (pagers[c].current \in PagesOn(c) =>
                    pagers'[c].current = pagers[c].current)]_vars
  BY <1>1
<1> QED
  BY <1>2, Invariant, PTL DEF Spec, SelectionKept

(* A page that has a dashboard is shown again after Cancel, after a        *)
(* restart and after a crash.                                              *)
THEOREM RestoresView == Spec => ViewRestored
<1>1. ASSUME TypeOK, NEW config \in Config, ReadConfig(config),
             fault' = "none"
      PROVE  ShowsAgain(config)
  <2>1. pagers' = [c \in Canvases |-> PagerAfter(pagers[c], c, config)]
    BY <1>1 DEF ReadConfig
  <2>2. \A c \in Canvases : pagers[c] \in Pagers \cup {NoPager}
    BY <1>1 DEF TypeOK
  <2> QED
    BY <2>1, <2>2, PagerAfterType DEF ShowsAgain
<1>2. ASSUME NEW config \in Config, Start(config)
      PROVE  ShowsAgain(config)
  <2>1. pagers' = [c \in Canvases |-> PagerAfter(FreshPager(c), c, config)]
    BY <1>2, LayoutAssumption DEF Start
  <2> QED
    BY <2>1, PagerAfterType, FreshPagerType DEF ShowsAgain
<1>3. ASSUME TypeOK
      PROVE  /\ CancelPreferences /\ fault' = "none" => ShowsAgain(orig_config)
             /\ Restart => ShowsAgain(GenerateJSONConfig)
             /\ CrashAndRestart /\ file # Unreadable => ShowsAgain(file)
  BY <1>1, <1>2, <1>3, ConfigType
     DEF CancelPreferences, Editing, Restart, CrashAndRestart, TypeOK
<1>4. TypeOK /\ [Next]_vars =>
        [/\ CancelPreferences /\ fault' = "none" => ShowsAgain(orig_config)
         /\ Restart => ShowsAgain(GenerateJSONConfig)
         /\ CrashAndRestart /\ file # Unreadable => ShowsAgain(file)]_vars
  BY <1>3
<1> QED
  BY <1>4, TypeCorrect, PTL DEF Spec, ViewRestored

-----------------------------------------------------------------------------
(***************************************************************************)
(* Layout: general lemmas first.                                           *)
(***************************************************************************)

(* A set that has zero, and with a number the next one.                    *)
LEMMA AllReached ==
    ASSUME NEW N \in Nat, NEW T, 0 \in T,
           \A i \in 1 .. N : i - 1 \in T => i \in T
    PROVE  \A i \in 0 .. N : i \in T
<1> DEFINE Missing == {i \in 0 .. N : i \notin T}
<1>1. SUFFICES ASSUME Missing # {}  PROVE FALSE
  OBVIOUS
<1>2. Missing \subseteq Nat
  OBVIOUS
<1>3. PICK m \in Missing : \A i \in Missing : m <= i
  <2> HIDE DEF Missing
  <2> QED
    BY <1>1, <1>2, LeastExists
<1>4. m \in 1 .. N /\ m - 1 \in 0 .. N
  OBVIOUS
<1>5. m - 1 \notin Missing
  BY <1>3, <1>4
<1> QED
  BY <1>4, <1>5

(* What a loop leaves after each of its N rounds.                          *)
IsIteration(f, n, start, step) ==
    f[0] = start /\ \A i \in 1 .. n : f[i] = step[i][f[i - 1]]

LEMMA IterationExists ==
    ASSUME NEW S, NEW start \in S, NEW N \in Nat, NEW step \in [1 .. N -> [S -> S]]
    PROVE  \E f \in [0 .. N -> S] : IsIteration(f, N, start, step)
<1> DEFINE T == {n \in 0 .. N : \E f \in [0 .. n -> S] : IsIteration(f, n, start, step)}
<1>1. 0 \in T
  <2>1. [i \in 0 .. 0 |-> start] \in [0 .. 0 -> S]
    OBVIOUS
  <2>2. IsIteration([i \in 0 .. 0 |-> start], 0, start, step)
    BY DEF IsIteration
  <2> QED
    BY <2>1, <2>2
<1>2. ASSUME NEW n \in 1 .. N, n - 1 \in T
      PROVE  n \in T
  <2>1. PICK f \in [0 .. n - 1 -> S] : IsIteration(f, n - 1, start, step)
    BY <1>2
  <2> DEFINE last == step[n][f[n - 1]]
             g == [i \in 0 .. n |-> IF i = n THEN last ELSE f[i]]
  <2>2. n - 1 \in 0 .. n - 1 /\ \A i \in 0 .. n : i = n \/ i \in 0 .. n - 1
    OBVIOUS
  <2>3. last \in S
    BY <2>1, <2>2
  <2>4. g \in [0 .. n -> S]
    BY <2>1, <2>2, <2>3
  <2>5. /\ g[n] = last
        /\ \A i \in 0 .. n - 1 : g[i] = f[i]
    BY <2>2
  <2> HIDE DEF g
  <2>6. g[0] = start
    BY <2>1, <2>5 DEF IsIteration
  <2>7. ASSUME NEW i \in 1 .. n  PROVE g[i] = step[i][g[i - 1]]
    <3>1. CASE i = n
      BY <3>1, <2>2, <2>5
    <3>2. CASE i # n
      <4>1. i \in 1 .. n - 1 /\ i \in 0 .. n - 1 /\ i - 1 \in 0 .. n - 1
        BY <3>2
      <4>2. f[i] = step[i][f[i - 1]]
        BY <2>1, <4>1 DEF IsIteration
      <4> QED
        BY <4>1, <4>2, <2>5
    <3> QED
      BY <3>1, <3>2
  <2>8. IsIteration(g, n, start, step)
    BY <2>6, <2>7 DEF IsIteration
  <2>9. n \in 0 .. N
    OBVIOUS
  <2> QED
    BY <2>4, <2>8, <2>9
<1> HIDE DEF T
<1>3. N \in T
  <2>1. \A n \in 0 .. N : n \in T
    BY <1>1, <1>2, AllReached
  <2> QED
    BY <2>1
<1> QED
  BY <1>3 DEF T

-----------------------------------------------------------------------------
(* Types.                                                                  *)

LayoutType ==
    /\ dashboards \in Seq(DashboardRecords)
    /\ scale \in Nat \ {0}
    /\ canvas \in Nat \X Nat
    /\ ship \in (Int \X Int) \cup {NoShip}

Sizes == Nat \X Nat
Rects == [x : Int, y : Int, w : Nat, h : Nat]
Positions == [x : Int, y : Int, start : Int, row_offset : Int, row_size : Int]

(* Pixels grow with the scale, in the order of the numbers.                *)
LEMMA ToPhysFacts ==
    ASSUME LayoutType
    PROVE  /\ \A n \in Nat : ToPhys(n) \in Nat /\ n <= ToPhys(n)
           /\ \A m, n \in Nat : m <= n => ToPhys(m) <= ToPhys(n)
           /\ \A m, n \in Nat : ToPhys(m + n) = ToPhys(m) + ToPhys(n)
           /\ ToPhys(0) = 0
<1>1. scale \in Nat /\ 1 <= scale
  BY DEF LayoutType
<1>2. \A n, s \in Nat : n * s \in Nat
  OBVIOUS
<1>3. \A n, s \in Nat : 1 <= s => n <= n * s
  OBVIOUS
<1>4. \A m, n, s \in Nat : m <= n => m * s <= n * s
  OBVIOUS
<1>5. \A m, n, s \in Nat : (m + n) * s = m * s + n * s
  OBVIOUS
<1> QED
  BY <1>1, <1>2, <1>3, <1>4, <1>5 DEF ToPhys

LEMMA SizeType ==
    ASSUME LayoutType, NEW size \in Sizes
    PROVE  Width(size) \in Nat /\ Height(size) \in Nat
<1>1. size[1] \in Nat /\ size[2] \in Nat /\ scale \in Nat
  BY DEF Sizes, LayoutType
<1>2. \A n, s \in Nat : n * s \in Nat
  OBVIOUS
<1> QED
  BY <1>1, <1>2 DEF Width, Height

LEMMA DashboardFacts ==
    ASSUME LayoutType, NEW dashboard \in DashboardRecords
    PROVE  /\ dashboard.anchor \in Edges \cup {"own_ship"}
           /\ dashboard.offset_x \in Nat /\ dashboard.spacing_h \in Nat
           /\ ToPhys(dashboard.offset_x) \in Nat /\ ToPhys(dashboard.offset_y) \in Nat
           /\ ToPhys(dashboard.spacing_h) \in Nat /\ ToPhys(dashboard.spacing_v) \in Nat
           /\ Len(dashboard.sizes) \in Nat
           /\ DOMAIN dashboard.sizes = 1 .. Len(dashboard.sizes)
           /\ \A i \in 1 .. Len(dashboard.sizes) :
                dashboard.sizes[i] \in Sizes \/ dashboard.sizes[i] = NoPicture
<1>1. /\ dashboard.anchor \in Edges \cup {"own_ship"}
      /\ dashboard.offset_x \in Nat /\ dashboard.offset_y \in Nat
      /\ dashboard.spacing_h \in Nat /\ dashboard.spacing_v \in Nat
      /\ dashboard.sizes \in Seq(Sizes \cup {NoPicture})
  BY DEF DashboardRecords, Sizes
<1>2. /\ Len(dashboard.sizes) \in Nat
      /\ DOMAIN dashboard.sizes = 1 .. Len(dashboard.sizes)
      /\ \A i \in 1 .. Len(dashboard.sizes) :
            dashboard.sizes[i] \in Sizes \cup {NoPicture}
  BY <1>1
<1> QED
  BY <1>1, <1>2, ToPhysFacts

LEMMA NoPictureApart == NoPicture \notin Sizes
BY DashboardsAssumption DEF Sizes

-----------------------------------------------------------------------------
(***************************************************************************)
(* One dashboard along an edge, seen from the edge: "first" is where it    *)
(* begins, Cross how far from there the present row or column is, Main how *)
(* far along it the next instrument goes.                                  *)
(***************************************************************************)
Cross(dashboard, first, at) ==
    IF dashboard.anchor = "left" THEN at.start - first ELSE at.row_offset
Main(dashboard, at) == IF AlongRows(dashboard) THEN at.x ELSE at.y
Depth(dashboard, size) ==
    IF AlongRows(dashboard) THEN Height(size) ELSE Width(size)
Breadth(dashboard, size) ==
    IF AlongRows(dashboard) THEN Width(size) ELSE Height(size)

Near(dashboard, first, r) ==
    IF dashboard.anchor = "top" THEN r.y - first
    ELSE IF dashboard.anchor = "bottom" THEN first - (r.y + r.h)
    ELSE IF dashboard.anchor = "left" THEN r.x - first
    ELSE first - (r.x + r.w)
Far(dashboard, first, r) ==
    IF dashboard.anchor = "top" THEN r.y + r.h - first
    ELSE IF dashboard.anchor = "bottom" THEN first - r.y
    ELSE IF dashboard.anchor = "left" THEN r.x + r.w - first
    ELSE first - r.x
Low(dashboard, r) == IF AlongRows(dashboard) THEN r.x ELSE r.y
High(dashboard, r) == IF AlongRows(dashboard) THEN r.x + r.w ELSE r.y + r.h

(* On the left the start moves away from the edge, elsewhere the offset    *)
(* grows.                                                                  *)
Steady(dashboard, first, at) ==
    /\ at \in Positions
    /\ 0 <= at.row_offset /\ 0 <= at.row_size
    /\ dashboard.anchor = "left" => at.row_offset = 0 /\ first <= at.start
    /\ dashboard.anchor # "left" => at.start = first

(* The next instrument goes clear of a rectangle, which is in an earlier   *)
(* row or, in this one, before it.                                         *)
Behind(dashboard, first, at, r) ==
    /\ Far(dashboard, first, r) <= Cross(dashboard, first, at) + at.row_size
    /\ \/ Far(dashboard, first, r) <= Cross(dashboard, first, at)
       \/ High(dashboard, r) <= Main(dashboard, at)

MovesOn(dashboard, first, at, p) ==
    /\ Steady(dashboard, first, p)
    /\ Cross(dashboard, first, at) <= Cross(dashboard, first, p)
    /\ \A r \in Rects : Behind(dashboard, first, at, r) => Behind(dashboard, first, p, r)

LEMMA DepthTypes ==
    ASSUME NEW dashboard, NEW first \in Int
    PROVE  /\ \A at \in Positions :
                /\ Cross(dashboard, first, at) \in Int
                /\ Main(dashboard, at) \in Int
                /\ at.row_size \in Int
           /\ \A r \in Rects :
                /\ Near(dashboard, first, r) \in Int /\ Far(dashboard, first, r) \in Int
                /\ Low(dashboard, r) \in Int /\ High(dashboard, r) \in Int
<1>1. \A at \in Positions :
          at.start \in Int /\ at.row_offset \in Int /\ at.x \in Int /\ at.y \in Int
          /\ at.row_size \in Int
  BY DEF Positions
<1>2. \A r \in Rects : r.x \in Int /\ r.y \in Int /\ r.w \in Nat /\ r.h \in Nat
  BY DEF Rects
<1> QED
  BY <1>1, <1>2 DEF Cross, Main, Near, Far, Low, High

LEMMA MovedOn ==
    ASSUME NEW dashboard, NEW first \in Int, NEW at, Steady(dashboard, first, at),
           NEW p \in Positions, NEW gap \in Nat, p.row_size = 0,
           dashboard.anchor = "left" =>
                /\ p.start = at.start + at.row_size + gap
                /\ p.row_offset = at.row_offset,
           dashboard.anchor # "left" =>
                /\ p.start = at.start
                /\ p.row_offset = at.row_offset + at.row_size + gap
    PROVE  MovesOn(dashboard, first, at, p)
<1>1. /\ at \in Positions
      /\ at.start \in Int /\ at.row_offset \in Int /\ at.row_size \in Int
      /\ 0 <= at.row_offset /\ 0 <= at.row_size
  BY DEF Steady, Positions
<1>2. Steady(dashboard, first, p)
  <2>1. CASE dashboard.anchor = "left"
    <3>1. p.start = at.start + at.row_size + gap /\ p.row_offset = 0
          /\ first <= at.start
      BY <2>1 DEF Steady
    <3>2. first <= p.start
      BY <1>1, <3>1
    <3> QED
      BY <2>1, <3>1, <3>2 DEF Steady
  <2>2. CASE dashboard.anchor # "left"
    <3>1. p.start = first /\ p.row_offset = at.row_offset + at.row_size + gap
      BY <2>2 DEF Steady
    <3>2. 0 <= p.row_offset
      BY <1>1, <3>1
    <3> QED
      BY <2>2, <3>1, <3>2 DEF Steady
  <2> QED
    BY <2>1, <2>2
<1>3. Cross(dashboard, first, at) + at.row_size <= Cross(dashboard, first, p)
  BY <1>1 DEF Cross, Steady
<1>4. /\ Cross(dashboard, first, at) \in Int /\ Cross(dashboard, first, p) \in Int
      /\ Main(dashboard, p) \in Int
      /\ \A r \in Rects : Far(dashboard, first, r) \in Int
  BY <1>1, DepthTypes
<1>5. Cross(dashboard, first, at) <= Cross(dashboard, first, p)
  BY <1>1, <1>3, <1>4
<1>6. ASSUME NEW r \in Rects, Behind(dashboard, first, at, r)
      PROVE  Behind(dashboard, first, p, r)
  <2>1. Far(dashboard, first, r) <= Cross(dashboard, first, at) + at.row_size
    BY <1>6 DEF Behind
  <2>2. Far(dashboard, first, r) <= Cross(dashboard, first, p)
    BY <1>1, <1>3, <1>4, <2>1
  <2>3. Far(dashboard, first, r) <= Cross(dashboard, first, p) + p.row_size
    BY <1>4, <2>2
  <2> QED
    BY <2>2, <2>3 DEF Behind
<1> QED
  BY <1>2, <1>5, <1>6 DEF MovesOn

LEMMA StaysOn ==
    ASSUME NEW dashboard, NEW first \in Int, NEW at, Steady(dashboard, first, at)
    PROVE  MovesOn(dashboard, first, at, at)
<1>1. Cross(dashboard, first, at) \in Int
  BY DepthTypes DEF Steady
<1> QED
  BY <1>1 DEF MovesOn

LEMMA FieldChanged ==
    ASSUME NEW at \in Positions, NEW v \in Int
    PROVE  /\ [at EXCEPT !.x = v] \in Positions
           /\ [at EXCEPT !.y = v] \in Positions
           /\ [at EXCEPT !.start = v] \in Positions
           /\ [at EXCEPT !.row_offset = v] \in Positions
           /\ [at EXCEPT !.row_size = v] \in Positions
BY DEF Positions

LEMMA Repositioned ==
    ASSUME NEW at \in Positions, NEW a \in Int, NEW b \in Int
    PROVE  /\ [at EXCEPT !.x = a, !.row_size = 0, !.row_offset = b] \in Positions
           /\ [at EXCEPT !.y = a, !.row_size = 0, !.row_offset = b] \in Positions
           /\ [at EXCEPT !.y = a, !.row_size = 0, !.start = b] \in Positions
           /\ [at EXCEPT !.row_size = b, !.x = a] \in Positions
           /\ [at EXCEPT !.row_size = b, !.y = a] \in Positions
<1> DEFINE in_x == [at EXCEPT !.x = a]
           in_y == [at EXCEPT !.y = a]
           sized == [at EXCEPT !.row_size = b]
           empty_x == [in_x EXCEPT !.row_size = 0]
           empty_y == [in_y EXCEPT !.row_size = 0]
<1>1. in_x \in Positions /\ in_y \in Positions /\ sized \in Positions
  BY FieldChanged
<1>2. /\ [sized EXCEPT !.x = a] \in Positions
      /\ [sized EXCEPT !.y = a] \in Positions
  <2> HIDE DEF sized
  <2> QED
    BY <1>1, FieldChanged
<1>3. empty_x \in Positions /\ empty_y \in Positions
  <2>1. 0 \in Int
    OBVIOUS
  <2> HIDE DEF in_x, in_y
  <2> QED
    BY <1>1, <2>1, FieldChanged, Zenon
<1>4. /\ [empty_x EXCEPT !.row_offset = b] \in Positions
      /\ [empty_y EXCEPT !.row_offset = b] \in Positions
      /\ [empty_y EXCEPT !.start = b] \in Positions
  <2> HIDE DEF empty_x, empty_y
  <2> QED
    BY <1>3, FieldChanged
<1> QED
  BY <1>2, <1>4, Zenon

(* To a new row or column, or not.                                         *)
LEMMA FittedMovesOn ==
    ASSUME LayoutType, NEW dashboard \in DashboardRecords, NEW first \in Int,
           NEW at, Steady(dashboard, first, at), NEW size \in Sizes
    PROVE  MovesOn(dashboard, first, at, Fitted(dashboard, at, size))
<1> DEFINE p == Fitted(dashboard, at, size)
           X == ToPhys(dashboard.offset_x)
           Y == ToPhys(dashboard.offset_y)
           h_gap == ToPhys(dashboard.spacing_h)
           v_gap == ToPhys(dashboard.spacing_v)
<1>1. X \in Nat /\ Y \in Nat /\ h_gap \in Nat /\ v_gap \in Nat
  BY DashboardFacts
<1>2. /\ at \in Positions
      /\ at.start \in Int /\ at.row_offset \in Int /\ at.row_size \in Int
  BY DEF Steady, Positions
<1>3. CASE p = at
  BY <1>3, StaysOn
<1>4. CASE AlongRows(dashboard) /\ p # at
  <2> DEFINE far == at.row_offset + at.row_size + v_gap
  <2>1. p = [at EXCEPT !.x = X, !.row_size = 0, !.row_offset = far]
    BY <1>4 DEF Fitted, NextRow
  <2>2. far \in Int /\ X \in Int
    BY <1>1, <1>2
  <2>3. dashboard.anchor # "left"
    BY <1>4 DEF AlongRows
  <2> HIDE DEF p, X
  <2>4. p.start = at.start /\ p.row_offset = far /\ p.row_size = 0
    BY <1>2, <2>1 DEF Positions
  <2> HIDE DEF far
  <2>5. p \in Positions
    BY <1>2, <2>1, <2>2, Repositioned
  <2>6. p.row_offset = at.row_offset + at.row_size + v_gap
    BY <2>4 DEF far
  <2> HIDE DEF v_gap
  <2>7. MovesOn(dashboard, first, at, p)
    BY <1>1, <2>3, <2>4, <2>5, <2>6, MovedOn
  <2> QED
    BY <2>7 DEF p
<1>5. CASE ~AlongRows(dashboard) /\ p # at /\ dashboard.anchor = "left"
  <2> DEFINE start == at.start + (at.row_size + h_gap)
  <2>1. p = [at EXCEPT !.y = Y, !.row_size = 0, !.start = start]
    BY <1>5 DEF Fitted, NextColumn
  <2>2. start \in Int /\ Y \in Int
    BY <1>1, <1>2
  <2> HIDE DEF p, Y
  <2>4. p.start = start /\ p.row_offset = at.row_offset /\ p.row_size = 0
    BY <1>2, <2>1 DEF Positions
  <2> HIDE DEF start
  <2>5. p \in Positions
    BY <1>2, <2>1, <2>2, Repositioned
  <2>6. p.start = at.start + at.row_size + h_gap
    BY <1>1, <1>2, <2>4 DEF start
  <2> HIDE DEF h_gap
  <2>7. MovesOn(dashboard, first, at, p)
    BY <1>1, <1>5, <2>4, <2>5, <2>6, MovedOn
  <2> QED
    BY <2>7 DEF p
<1>6. CASE ~AlongRows(dashboard) /\ p # at /\ dashboard.anchor # "left"
  <2> DEFINE far == at.row_offset + (at.row_size + h_gap)
  <2>1. p = [at EXCEPT !.y = Y, !.row_size = 0, !.row_offset = far]
    BY <1>6 DEF Fitted, NextColumn
  <2>2. far \in Int /\ Y \in Int
    BY <1>1, <1>2
  <2> HIDE DEF p, Y
  <2>4. p.start = at.start /\ p.row_offset = far /\ p.row_size = 0
    BY <1>2, <2>1 DEF Positions
  <2> HIDE DEF far
  <2>5. p \in Positions
    BY <1>2, <2>1, <2>2, Repositioned
  <2>6. p.row_offset = at.row_offset + at.row_size + h_gap
    BY <1>1, <1>2, <2>4 DEF far
  <2> HIDE DEF h_gap
  <2>7. MovesOn(dashboard, first, at, p)
    BY <1>1, <1>6, <2>4, <2>5, <2>6, MovedOn
  <2> QED
    BY <2>7 DEF p
<1> QED
  BY <1>3, <1>4, <1>5, <1>6

(* Where the instrument goes, seen from the edge.                          *)
LEMMA RectPlaced ==
    ASSUME LayoutType, NEW dashboard \in DashboardRecords, dashboard.anchor \in Edges,
           NEW first \in Int, NEW at, Steady(dashboard, first, at), NEW size \in Sizes
    PROVE  LET r == RectAt(dashboard, at, size)
           IN  /\ r \in Rects
               /\ Near(dashboard, first, r) = Cross(dashboard, first, at)
               /\ Far(dashboard, first, r)
                    = Cross(dashboard, first, at) + Depth(dashboard, size)
               /\ Low(dashboard, r) = Main(dashboard, at)
               /\ High(dashboard, r) = Main(dashboard, at) + Breadth(dashboard, size)
               /\ dashboard.anchor = "left" => r.x = at.start
<1> DEFINE w == Width(size)
           h == Height(size)
           r == RectAt(dashboard, at, size)
<1>1. w \in Nat /\ h \in Nat
  BY SizeType
<1>2. /\ at.x \in Int /\ at.y \in Int /\ at.start \in Int
      /\ at.row_offset \in Int /\ at.row_size \in Int
  BY DEF Steady, Positions
<1>3. ASSUME NEW x \in Int, NEW y \in Int
      PROVE  /\ Rect(x, y, w, h) \in Rects
             /\ Rect(x, y, w, h).x = x /\ Rect(x, y, w, h).y = y
             /\ Rect(x, y, w, h).w = w /\ Rect(x, y, w, h).h = h
  <2> HIDE DEF w, h
  <2> QED
    BY <1>1 DEF Rect, Rects
<1> SUFFICES /\ r \in Rects
             /\ Near(dashboard, first, r) = Cross(dashboard, first, at)
             /\ Far(dashboard, first, r)
                    = Cross(dashboard, first, at) + Depth(dashboard, size)
             /\ Low(dashboard, r) = Main(dashboard, at)
             /\ High(dashboard, r) = Main(dashboard, at) + Breadth(dashboard, size)
             /\ dashboard.anchor = "left" => r.x = at.start
  OBVIOUS
<1>4. CASE dashboard.anchor = "top"
  <2>1. r = Rect(at.x, at.start + at.row_offset, w, h)
    BY <1>4 DEF RectAt, AlongRows
  <2>2. at.start + at.row_offset \in Int /\ at.start = first
    BY <1>2, <1>4 DEF Steady
  <2> HIDE DEF r
  <2>3. r \in Rects /\ r.x = at.x /\ r.y = at.start + at.row_offset /\ r.w = w /\ r.h = h
    BY <1>2, <1>3, <2>1, <2>2
  <2> QED
    BY <1>1, <1>2, <1>4, <2>2, <2>3
       DEF Near, Far, Low, High, Cross, Main, Depth, Breadth, AlongRows
<1>5. CASE dashboard.anchor = "bottom"
  <2>1. r = Rect(at.x, at.start - at.row_offset - h, w, h)
    BY <1>5 DEF RectAt, AlongRows
  <2>2. at.start - at.row_offset - h \in Int /\ at.start = first
    BY <1>1, <1>2, <1>5 DEF Steady
  <2> HIDE DEF r
  <2>3. r \in Rects /\ r.x = at.x /\ r.y = at.start - at.row_offset - h /\ r.w = w /\ r.h = h
    BY <1>2, <1>3, <2>1, <2>2
  <2> QED
    BY <1>1, <1>2, <1>5, <2>2, <2>3
       DEF Near, Far, Low, High, Cross, Main, Depth, Breadth, AlongRows
<1>6. CASE dashboard.anchor = "left"
  <2>1. r = Rect(at.start - at.row_offset - 0, at.y, w, h)
    BY <1>6 DEF RectAt, AlongRows
  <2>2. at.start - at.row_offset - 0 \in Int /\ at.row_offset = 0
    BY <1>2, <1>6 DEF Steady
  <2> HIDE DEF r
  <2>3. r \in Rects /\ r.x = at.start - at.row_offset - 0 /\ r.y = at.y /\ r.w = w /\ r.h = h
    BY <1>2, <1>3, <2>1, <2>2
  <2>4. r.x = at.start
    BY <1>2, <2>2, <2>3
  <2> QED
    BY <1>1, <1>2, <1>6, <2>2, <2>3, <2>4
       DEF Near, Far, Low, High, Cross, Main, Depth, Breadth, AlongRows
<1>7. CASE dashboard.anchor = "right"
  <2>1. r = Rect(at.start - at.row_offset - w, at.y, w, h)
    BY <1>7 DEF RectAt, AlongRows
  <2>2. at.start - at.row_offset - w \in Int /\ at.start = first
    BY <1>1, <1>2, <1>7 DEF Steady
  <2> HIDE DEF r
  <2>3. r \in Rects /\ r.x = at.start - at.row_offset - w /\ r.y = at.y /\ r.w = w /\ r.h = h
    BY <1>2, <1>3, <2>1, <2>2
  <2> QED
    BY <1>1, <1>2, <1>7, <2>2, <2>3
       DEF Near, Far, Low, High, Cross, Main, Depth, Breadth, AlongRows
<1> QED
  BY <1>4, <1>5, <1>6, <1>7 DEF Edges

(* The next one goes past it.                                              *)
LEMMA PastFields ==
    ASSUME LayoutType, NEW dashboard \in DashboardRecords, NEW at \in Positions,
           NEW size \in Sizes
    PROVE  LET q == Past(dashboard, at, size)
           IN  /\ q \in Positions
               /\ q.start = at.start /\ q.row_offset = at.row_offset
               /\ at.row_size <= q.row_size /\ Depth(dashboard, size) <= q.row_size
               /\ Main(dashboard, at) + Breadth(dashboard, size) <= Main(dashboard, q)
<1> DEFINE w == Width(size)
           h == Height(size)
           h_gap == dashboard.spacing_h
           v_gap == ToPhys(dashboard.spacing_v)
           q == Past(dashboard, at, size)
<1>1. w \in Nat /\ h \in Nat
  BY SizeType
<1>2. h_gap \in Nat /\ v_gap \in Nat
  BY DashboardFacts
<1>3. at.x \in Int /\ at.y \in Int /\ at.row_size \in Int
  BY DEF Positions
<1>4. /\ at.row_size <= Larger(at.row_size, w) /\ w <= Larger(at.row_size, w)
      /\ at.row_size <= Larger(at.row_size, h) /\ h <= Larger(at.row_size, h)
      /\ Larger(at.row_size, w) \in Int /\ Larger(at.row_size, h) \in Int
  BY <1>1, <1>3 DEF Larger
<1>5. CASE AlongRows(dashboard)
  <2> DEFINE thick == Larger(at.row_size, h)
             further == at.x + w + h_gap
  <2>1. q = [at EXCEPT !.row_size = thick, !.x = further]
    BY <1>5 DEF Past
  <2>2. thick \in Int /\ further \in Int /\ at.x + w <= further
    BY <1>1, <1>2, <1>3, <1>4
  <2> HIDE DEF q, thick, further
  <2>3. /\ q.start = at.start /\ q.row_offset = at.row_offset
        /\ q.row_size = thick /\ q.x = further
    BY <2>1 DEF Positions
  <2>4. q \in Positions
    BY <2>1, <2>2, Repositioned
  <2>5. at.row_size <= thick /\ h <= thick
    BY <1>4 DEF thick
  <2>6. at.row_size <= q.row_size /\ Depth(dashboard, size) <= q.row_size
    BY <1>5, <2>3, <2>5 DEF Depth
  <2>7. Main(dashboard, at) + Breadth(dashboard, size) <= Main(dashboard, q)
    BY <1>5, <2>2, <2>3 DEF Main, Breadth
  <2> QED
    BY <2>3, <2>4, <2>6, <2>7 DEF q
<1>6. CASE ~AlongRows(dashboard)
  <2> DEFINE thick == Larger(at.row_size, w)
             further == at.y + h + v_gap
  <2>1. q = [at EXCEPT !.row_size = thick, !.y = further]
    BY <1>6 DEF Past, WidthOf
  <2>2. thick \in Int /\ further \in Int /\ at.y + h <= further
    BY <1>1, <1>2, <1>3, <1>4
  <2> HIDE DEF q, thick, further
  <2>3. /\ q.start = at.start /\ q.row_offset = at.row_offset
        /\ q.row_size = thick /\ q.y = further
    BY <2>1 DEF Positions
  <2>4. q \in Positions
    BY <2>1, <2>2, Repositioned
  <2>5. at.row_size <= thick /\ w <= thick
    BY <1>4 DEF thick
  <2>6. at.row_size <= q.row_size /\ Depth(dashboard, size) <= q.row_size
    BY <1>6, <2>3, <2>5 DEF Depth
  <2>7. Main(dashboard, at) + Breadth(dashboard, size) <= Main(dashboard, q)
    BY <1>6, <2>2, <2>3 DEF Main, Breadth
  <2> QED
    BY <2>3, <2>4, <2>6, <2>7 DEF q
<1> QED
  BY <1>5, <1>6

LEMMA PastMovesOn ==
    ASSUME LayoutType, NEW dashboard \in DashboardRecords, dashboard.anchor \in Edges,
           NEW first \in Int, NEW at, Steady(dashboard, first, at), NEW size \in Sizes
    PROVE  /\ MovesOn(dashboard, first, at, Past(dashboard, at, size))
           /\ Behind(dashboard, first, Past(dashboard, at, size),
                     RectAt(dashboard, at, size))
<1> DEFINE q == Past(dashboard, at, size)
           placed == RectAt(dashboard, at, size)
           depth == Depth(dashboard, size)
           breadth == Breadth(dashboard, size)
<1>1. /\ at \in Positions
      /\ at.row_size \in Int /\ 0 <= at.row_size
  BY DEF Steady, Positions
<1>2. /\ q \in Positions
      /\ q.start = at.start /\ q.row_offset = at.row_offset
      /\ at.row_size <= q.row_size /\ depth <= q.row_size
      /\ Main(dashboard, at) + breadth <= Main(dashboard, q)
  BY <1>1, PastFields
<1>3. depth \in Nat /\ breadth \in Nat
  BY SizeType DEF Depth, Breadth
<1>4. /\ placed \in Rects
      /\ Far(dashboard, first, placed) = Cross(dashboard, first, at) + depth
      /\ High(dashboard, placed) = Main(dashboard, at) + breadth
  BY RectPlaced
<1> HIDE DEF q, placed, depth, breadth
<1>5. Steady(dashboard, first, q)
  <2>1. 0 <= q.row_size
    <3>1. q.row_size \in Int
      BY <1>2 DEF Positions
    <3> QED
      BY <1>1, <1>2, <3>1
  <2> QED
    BY <1>2, <2>1 DEF Steady
<1>6. Cross(dashboard, first, q) = Cross(dashboard, first, at)
  BY <1>2 DEF Cross
<1>7. /\ Cross(dashboard, first, at) \in Int /\ Main(dashboard, at) \in Int
      /\ Main(dashboard, q) \in Int /\ q.row_size \in Int
      /\ \A r \in Rects : Far(dashboard, first, r) \in Int /\ High(dashboard, r) \in Int
  BY <1>1, <1>2, DepthTypes
<1>8. ASSUME NEW r \in Rects, Behind(dashboard, first, at, r)
      PROVE  Behind(dashboard, first, q, r)
  <2>1. /\ Far(dashboard, first, r) <= Cross(dashboard, first, at) + at.row_size
        /\ \/ Far(dashboard, first, r) <= Cross(dashboard, first, at)
           \/ High(dashboard, r) <= Main(dashboard, at)
    BY <1>8 DEF Behind
  <2>2. Far(dashboard, first, r) <= Cross(dashboard, first, at) + q.row_size
    BY <1>1, <1>2, <1>7, <2>1
  <2>3. Main(dashboard, at) <= Main(dashboard, q)
    BY <1>2, <1>3, <1>7
  <2>4. \/ Far(dashboard, first, r) <= Cross(dashboard, first, at)
        \/ High(dashboard, r) <= Main(dashboard, q)
    BY <1>7, <2>1, <2>3
  <2> QED
    BY <1>6, <2>2, <2>4 DEF Behind
<1>9. Behind(dashboard, first, q, placed)
  <2>1. Far(dashboard, first, placed) <= Cross(dashboard, first, at) + q.row_size
    BY <1>2, <1>3, <1>4, <1>7
  <2>2. High(dashboard, placed) <= Main(dashboard, q)
    BY <1>2, <1>4
  <2> QED
    BY <1>6, <2>1, <2>2 DEF Behind
<1>10. Cross(dashboard, first, at) <= Cross(dashboard, first, q)
  BY <1>6, <1>7
<1>11. MovesOn(dashboard, first, at, q)
  BY <1>5, <1>8, <1>10 DEF MovesOn
<1> QED
  BY <1>9, <1>11 DEF q, placed

LEMMA MovesFurther ==
    ASSUME NEW dashboard, NEW first \in Int, NEW at, NEW p, NEW q,
           Steady(dashboard, first, at),
           MovesOn(dashboard, first, at, p), MovesOn(dashboard, first, p, q)
    PROVE  MovesOn(dashboard, first, at, q)
<1>1. at \in Positions /\ p \in Positions /\ q \in Positions
  BY DEF MovesOn, Steady
<1>2. /\ Cross(dashboard, first, at) \in Int /\ Cross(dashboard, first, p) \in Int
      /\ Cross(dashboard, first, q) \in Int
  BY <1>1, DepthTypes
<1>3. Cross(dashboard, first, at) <= Cross(dashboard, first, q)
  BY <1>2 DEF MovesOn
<1> QED
  BY <1>3, Zenon DEF MovesOn

(* What is put there is clear of all that is behind.                       *)
LEMMA ClearOfBehind ==
    ASSUME LayoutType, NEW dashboard \in DashboardRecords, dashboard.anchor \in Edges,
           NEW first \in Int, NEW at, Steady(dashboard, first, at), NEW size \in Sizes,
           NEW s \in Rects, Behind(dashboard, first, at, s)
    PROVE  Apart(s, RectAt(dashboard, at, size))
<1> DEFINE r == RectAt(dashboard, at, size)
<1>1. /\ r \in Rects
      /\ Near(dashboard, first, r) = Cross(dashboard, first, at)
      /\ Low(dashboard, r) = Main(dashboard, at)
  BY RectPlaced
<1> SUFFICES Apart(s, r)
  OBVIOUS
<1> HIDE DEF r
<1>2. /\ r.x \in Int /\ r.y \in Int /\ r.w \in Int /\ r.h \in Int
      /\ s.x \in Int /\ s.y \in Int /\ s.w \in Int /\ s.h \in Int
  BY <1>1 DEF Rects
<1>3. \/ Far(dashboard, first, s) <= Near(dashboard, first, r)
      \/ High(dashboard, s) <= Low(dashboard, r)
  BY <1>1 DEF Behind
<1>4. CASE dashboard.anchor = "top"
  BY <1>2, <1>3, <1>4 DEF Far, Near, High, Low, Apart, AlongRows
<1>5. CASE dashboard.anchor = "bottom"
  BY <1>2, <1>3, <1>5 DEF Far, Near, High, Low, Apart, AlongRows
<1>6. CASE dashboard.anchor = "left"
  BY <1>2, <1>3, <1>6 DEF Far, Near, High, Low, Apart, AlongRows
<1>7. CASE dashboard.anchor = "right"
  BY <1>2, <1>3, <1>7 DEF Far, Near, High, Low, Apart, AlongRows
<1> QED
  BY <1>4, <1>5, <1>6, <1>7 DEF Edges

-----------------------------------------------------------------------------
(* All instruments of a dashboard along an edge.                           *)

StartOf(dashboard, offset) ==
    IF AlongRows(dashboard) THEN StartOfRows(dashboard, offset)
    ELSE StartOfColumns(dashboard, offset)
Step(dashboard, at, size) ==
    IF size = NoPicture THEN at
    ELSE Past(dashboard, Fitted(dashboard, at, size), size)

(* A step goes past the instrument, which is clear of those behind, and    *)
(* no nearer to the edge than the step began.                              *)
StepsPast(dashboard, first, at, p, r) ==
    /\ MovesOn(dashboard, first, at, p)
    /\ r \in Rects
    /\ Cross(dashboard, first, at) <= Near(dashboard, first, r)
    /\ Behind(dashboard, first, p, r)
    /\ \A s \in Rects : Behind(dashboard, first, at, s) => Apart(s, r)
    /\ dashboard.anchor = "left" => r.x = p.start

LEMMA StepGoesPast ==
    ASSUME LayoutType, NEW dashboard \in DashboardRecords, dashboard.anchor \in Edges,
           NEW first \in Int, NEW at, Steady(dashboard, first, at), NEW size \in Sizes
    PROVE  StepsPast(dashboard, first, at, Step(dashboard, at, size),
                     RectAt(dashboard, Fitted(dashboard, at, size), size))
<1> DEFINE p == Fitted(dashboard, at, size)
           q == Past(dashboard, p, size)
           r == RectAt(dashboard, p, size)
<1>1. Step(dashboard, at, size) = q
  BY NoPictureApart DEF Step
<1>2. MovesOn(dashboard, first, at, p)
  BY FittedMovesOn
<1>3. Steady(dashboard, first, p)
  BY <1>2 DEF MovesOn
<1> HIDE DEF p
<1>4. /\ MovesOn(dashboard, first, p, q) /\ Behind(dashboard, first, q, r)
  BY <1>3, PastMovesOn
<1>5. /\ r \in Rects
      /\ Near(dashboard, first, r) = Cross(dashboard, first, p)
      /\ dashboard.anchor = "left" => r.x = p.start
  BY <1>3, RectPlaced
<1>6. q.start = p.start
  <2>1. p \in Positions
    BY <1>3 DEF Steady
  <2> QED
    BY <2>1, PastFields
<1>7. \A s \in Rects : Behind(dashboard, first, p, s) => Apart(s, r)
  BY <1>3, ClearOfBehind
<1> HIDE DEF q, r
<1>8. MovesOn(dashboard, first, at, q)
  BY <1>2, <1>4, MovesFurther
<1>9. Cross(dashboard, first, at) <= Near(dashboard, first, r)
  BY <1>2, <1>5 DEF MovesOn
<1>10. \A s \in Rects : Behind(dashboard, first, at, s) => Apart(s, r)
  BY <1>2, <1>7 DEF MovesOn
<1>11. StepsPast(dashboard, first, at, q, r)
  BY <1>4, <1>5, <1>6, <1>8, <1>9, <1>10 DEF StepsPast
<1> QED
  BY <1>1, <1>11 DEF p, q, r

LEMMA StartSteady ==
    ASSUME LayoutType, NEW dashboard \in DashboardRecords, dashboard.anchor \in Edges,
           NEW offset \in Nat
    PROVE  LET at == StartOf(dashboard, offset)
           IN  /\ at.start \in Int
               /\ Steady(dashboard, at.start, at)
               /\ 0 <= Cross(dashboard, at.start, at)
<1> DEFINE at == StartOf(dashboard, offset)
           X == ToPhys(dashboard.offset_x)
           Y == ToPhys(dashboard.offset_y)
           used == ToPhys(offset)
           left == ToPhys(dashboard.offset_x + offset)
<1>1. X \in Nat /\ Y \in Nat /\ dashboard.offset_x \in Nat
  BY DashboardFacts
<1>2. used \in Nat
  BY ToPhysFacts
<1>3. left \in Nat
  <2>1. dashboard.offset_x + offset \in Nat
    BY <1>1
  <2> QED
    BY <2>1, ToPhysFacts
<1>4. canvas[1] \in Nat /\ canvas[2] \in Nat
  BY DEF LayoutType
<1>5. \A x, y, start, row_offset, row_size \in Int :
        [x |-> x, y |-> y, start |-> start, row_offset |-> row_offset,
         row_size |-> row_size] \in Positions
  BY DEF Positions
<1> SUFFICES /\ at.start \in Int
             /\ Steady(dashboard, at.start, at)
             /\ 0 <= Cross(dashboard, at.start, at)
  OBVIOUS
<1>6. CASE AlongRows(dashboard)
  <2> DEFINE start == IF dashboard.anchor = "top" THEN used ELSE canvas[2] - used
  <2>1. at = [x |-> X, y |-> 0, start |-> start, row_offset |-> Y, row_size |-> 0]
    BY <1>6 DEF StartOf, StartOfRows
  <2>2. start \in Int
    BY <1>2, <1>4
  <2>3. dashboard.anchor # "left"
    BY <1>6 DEF AlongRows
  <2> HIDE DEF at, start, X, Y
  <2>4. at \in Positions
    BY <1>1, <1>5, <2>1, <2>2
  <2>5. at.row_offset = Y /\ at.row_size = 0 /\ at.start = start
    BY <2>1
  <2>6. Steady(dashboard, at.start, at)
    BY <1>1, <2>3, <2>4, <2>5 DEF Steady
  <2>7. 0 <= Cross(dashboard, at.start, at)
    BY <1>1, <2>3, <2>5 DEF Cross
  <2> QED
    BY <2>2, <2>5, <2>6, <2>7
<1>7. CASE ~AlongRows(dashboard)
  <2> DEFINE start == IF dashboard.anchor = "left" THEN left ELSE canvas[1] - X - used
  <2>1. at = [x |-> 0, y |-> Y, start |-> start, row_offset |-> 0, row_size |-> 0]
    BY <1>7 DEF StartOf, StartOfColumns
  <2>2. start \in Int
    BY <1>1, <1>2, <1>3, <1>4
  <2> HIDE DEF at, start, X, Y
  <2>3. at \in Positions
    BY <1>1, <1>5, <2>1, <2>2
  <2>4. at.row_offset = 0 /\ at.row_size = 0 /\ at.start = start
    BY <2>1
  <2>5. Steady(dashboard, at.start, at)
    BY <2>2, <2>3, <2>4 DEF Steady
  <2>6. 0 <= Cross(dashboard, at.start, at)
    BY <2>2, <2>4 DEF Cross
  <2> QED
    BY <2>2, <2>4, <2>5, <2>6
<1> QED
  BY <1>6, <1>7

IsAlong(dashboard, offset, at) ==
    at = [i \in 0 .. Len(dashboard.sizes) |->
            IF i = 0 THEN StartOf(dashboard, offset)
            ELSE Step(dashboard, at[i - 1], dashboard.sizes[i])]
First(dashboard, offset) == StartOf(dashboard, offset).start

LEMMA AlongSteady ==
    ASSUME LayoutType, NEW dashboard \in DashboardRecords, dashboard.anchor \in Edges,
           NEW offset \in Nat
    PROVE  /\ AlongEdge(dashboard, offset)[0] = StartOf(dashboard, offset)
           /\ \A i \in 0 .. Len(dashboard.sizes) :
                Steady(dashboard, First(dashboard, offset), AlongEdge(dashboard, offset)[i])
           /\ \A i \in 1 .. Len(dashboard.sizes) :
                AlongEdge(dashboard, offset)[i]
                    = Step(dashboard, AlongEdge(dashboard, offset)[i - 1],
                           dashboard.sizes[i])
<1> DEFINE n == Len(dashboard.sizes)
           first == First(dashboard, offset)
           start == StartOf(dashboard, offset)
           S == {p \in Positions : Steady(dashboard, first, p)}
           step == [i \in 1 .. n |-> [p \in S |-> Step(dashboard, p, dashboard.sizes[i])]]
           at == AlongEdge(dashboard, offset)
<1>1. n \in Nat
      /\ \A i \in 1 .. n : dashboard.sizes[i] \in Sizes \/ dashboard.sizes[i] = NoPicture
  BY DashboardFacts
<1>2. first \in Int /\ start \in S
  <2>1. first \in Int /\ Steady(dashboard, first, start)
    BY StartSteady DEF First
  <2> QED
    BY <2>1 DEF Steady
<1>3. ASSUME NEW i \in 1 .. n, NEW p \in S
      PROVE  Step(dashboard, p, dashboard.sizes[i]) \in S
  <2>1. CASE dashboard.sizes[i] = NoPicture
    BY <2>1 DEF Step
  <2>2. CASE dashboard.sizes[i] \in Sizes
    <3>1. Steady(dashboard, first, p)
      OBVIOUS
    <3>2. MovesOn(dashboard, first, p, Step(dashboard, p, dashboard.sizes[i]))
      <4> HIDE DEF first
      <4> QED
        BY <1>2, <2>2, <3>1, StepGoesPast DEF StepsPast
    <3> QED
      BY <3>2 DEF MovesOn, Steady
  <2> QED
    BY <1>1, <2>1, <2>2
<1> HIDE DEF S, n, first, start
<1>4. step \in [1 .. n -> [S -> S]]
  BY <1>3
<1>5. \A i \in 1 .. n, p \in S : step[i][p] = Step(dashboard, p, dashboard.sizes[i])
  OBVIOUS
<1> HIDE DEF step
<1>6. PICK f \in [0 .. n -> S] : IsIteration(f, n, start, step)
  BY <1>1, <1>2, <1>4, IterationExists
<1>7. \A i \in 0 .. n : f[i] = IF i = 0 THEN start
                              ELSE Step(dashboard, f[i - 1], dashboard.sizes[i])
  <2> SUFFICES ASSUME NEW i \in 0 .. n, i # 0
               PROVE  f[i] = Step(dashboard, f[i - 1], dashboard.sizes[i])
    BY <1>6 DEF IsIteration
  <2>1. i \in 1 .. n /\ i - 1 \in 0 .. n
    BY <1>1
  <2>2. f[i - 1] \in S
    BY <2>1
  <2> QED
    BY <1>5, <1>6, <2>1, <2>2 DEF IsIteration
<1>8. IsAlong(dashboard, offset, f)
  BY <1>7 DEF IsAlong, n, start
<1>9. at = CHOOSE g : IsAlong(dashboard, offset, g)
  BY DEF AlongEdge, IsAlong, StartOf, Step
<1>10. IsAlong(dashboard, offset, at)
  <2> HIDE DEF at
  <2> QED
    BY <1>8, <1>9
<1> HIDE DEF at
<1>11. \A i \in 0 .. n : at[i] = IF i = 0 THEN start
                               ELSE Step(dashboard, at[i - 1], dashboard.sizes[i])
  BY <1>10, Zenon DEF IsAlong, n, start
<1>12. at[0] = start
  BY <1>1, <1>11
<1>13. \A i \in 1 .. n : at[i] = Step(dashboard, at[i - 1], dashboard.sizes[i])
  BY <1>1, <1>11
<1>14. \A i \in 0 .. n : i \in {j \in 0 .. n : at[j] \in S}
  <2> DEFINE T == {j \in 0 .. n : at[j] \in S}
  <2>1. 0 \in T
    BY <1>1, <1>2, <1>12
  <2>2. ASSUME NEW i \in 1 .. n, i - 1 \in T  PROVE i \in T
    BY <1>1, <1>3, <1>13, <2>2
  <2> HIDE DEF T
  <2>3. \A i \in 0 .. n : i \in T
    BY <1>1, <2>1, <2>2, AllReached
  <2> QED
    BY <2>3 DEF T
<1>15. \A i \in 0 .. n : Steady(dashboard, first, at[i])
  BY <1>14 DEF S
<1> QED
  BY <1>12, <1>13, <1>15 DEF n, first, start, at

LEMMA AlongMovesOn ==
    ASSUME LayoutType, NEW dashboard \in DashboardRecords, dashboard.anchor \in Edges,
           NEW offset \in Nat,
           NEW i \in 0 .. Len(dashboard.sizes), NEW j \in i .. Len(dashboard.sizes)
    PROVE  MovesOn(dashboard, First(dashboard, offset),
                   AlongEdge(dashboard, offset)[i], AlongEdge(dashboard, offset)[j])
<1> DEFINE n == Len(dashboard.sizes)
           first == First(dashboard, offset)
           at == AlongEdge(dashboard, offset)
           T == {k \in 0 .. n : i <= k => MovesOn(dashboard, first, at[i], at[k])}
<1>1. n \in Nat
      /\ \A k \in 1 .. n : dashboard.sizes[k] \in Sizes \/ dashboard.sizes[k] = NoPicture
  BY DashboardFacts
<1>2. /\ \A k \in 0 .. n : Steady(dashboard, first, at[k])
      /\ \A k \in 1 .. n : at[k] = Step(dashboard, at[k - 1], dashboard.sizes[k])
  BY AlongSteady
<1>3. first \in Int
  BY StartSteady DEF First
<1>4. \A k \in 0 .. n : MovesOn(dashboard, first, at[k], at[k])
  <2> HIDE DEF first, at, n
  <2> QED
    BY <1>2, <1>3, StaysOn
<1>5. ASSUME NEW k \in 1 .. n
      PROVE  MovesOn(dashboard, first, at[k - 1], at[k])
  <2>1. k - 1 \in 0 .. n /\ k \in 0 .. n
    BY <1>1
  <2>2. Steady(dashboard, first, at[k - 1]) /\ at[k] = Step(dashboard, at[k - 1], dashboard.sizes[k])
    BY <1>2, <2>1
  <2> HIDE DEF first, at
  <2>3. CASE dashboard.sizes[k] = NoPicture
    <3>1. at[k] = at[k - 1]
      BY <2>2, <2>3 DEF Step
    <3> QED
      BY <1>4, <2>1, <3>1
  <2>4. CASE dashboard.sizes[k] \in Sizes
    BY <1>3, <2>2, <2>4, StepGoesPast DEF StepsPast
  <2> QED
    BY <1>1, <2>3, <2>4
<1> HIDE DEF first, at, n
<1>6. 0 \in T
  <2>1. i <= 0 => i = 0
    BY <1>1 DEF n
  <2>2. 0 \in 0 .. n
    BY <1>1
  <2> QED
    BY <1>4, <2>1, <2>2
<1>7. ASSUME NEW k \in 1 .. n, k - 1 \in T
      PROVE  k \in T
  <2>1. k \in 0 .. n /\ k - 1 \in 0 .. n /\ i \in 0 .. n
    BY <1>1 DEF n
  <2>2. CASE i <= k - 1
    <3>1. MovesOn(dashboard, first, at[i], at[k - 1])
      BY <1>7, <2>2
    <3>2. Steady(dashboard, first, at[i])
      BY <1>2, <2>1
    <3>3. MovesOn(dashboard, first, at[i], at[k])
      BY <1>3, <1>5, <3>1, <3>2, MovesFurther
    <3> QED
      BY <2>1, <3>3
  <2>3. CASE i = k
    BY <1>4, <2>1, <2>3
  <2>4. CASE i > k
    BY <2>1, <2>4
  <2>5. i <= k - 1 \/ i = k \/ i > k
    BY <2>1
  <2> QED
    BY <2>2, <2>3, <2>4, <2>5
<1> HIDE DEF T
<1>8. \A k \in 0 .. n : k \in T
  BY <1>1, <1>6, <1>7, AllReached
<1>9. i <= j /\ j \in 0 .. n
  BY <1>1 DEF n
<1>10. j \in T
  BY <1>8, <1>9
<1> QED
  BY <1>9, <1>10 DEF T, first, at

(* An instrument's step, in the drawing of its dashboard.                  *)
LEMMA PlacedAlongEdge ==
    ASSUME LayoutType, NEW dashboard \in DashboardRecords, dashboard.anchor \in Edges,
           NEW offset \in Nat,
           NEW i \in 1 .. Len(dashboard.sizes), dashboard.sizes[i] # NoPicture
    PROVE  StepsPast(dashboard, First(dashboard, offset),
                     AlongEdge(dashboard, offset)[i - 1], AlongEdge(dashboard, offset)[i],
                     RectAlongEdge(dashboard, offset, i))
<1> DEFINE first == First(dashboard, offset)
           at == AlongEdge(dashboard, offset)
           size == dashboard.sizes[i]
<1>1. size \in Sizes
  BY DashboardFacts
<1>2. i - 1 \in 0 .. Len(dashboard.sizes) /\ i \in 0 .. Len(dashboard.sizes)
  BY DashboardFacts
<1>3. Steady(dashboard, first, at[i - 1]) /\ at[i] = Step(dashboard, at[i - 1], size)
  BY <1>2, AlongSteady
<1>4. first \in Int
  BY StartSteady DEF First
<1>5. RectAlongEdge(dashboard, offset, i)
        = RectAt(dashboard, Fitted(dashboard, at[i - 1], size), size)
  BY DEF RectAlongEdge
<1> HIDE DEF first, at, size
<1>6. StepsPast(dashboard, first, at[i - 1], at[i],
                RectAt(dashboard, Fitted(dashboard, at[i - 1], size), size))
  BY <1>1, <1>3, <1>4, StepGoesPast
<1> QED
  BY <1>5, <1>6 DEF first, at

(* However the rows or columns wrap, no instrument covers another.         *)
LEMMA ApartAlongEdge ==
    ASSUME LayoutType, NEW dashboard \in DashboardRecords, dashboard.anchor \in Edges,
           NEW offset \in Nat,
           NEW i \in 1 .. Len(dashboard.sizes), dashboard.sizes[i] # NoPicture,
           NEW j \in 1 .. Len(dashboard.sizes), dashboard.sizes[j] # NoPicture,
           i < j
    PROVE  Apart(RectAlongEdge(dashboard, offset, i), RectAlongEdge(dashboard, offset, j))
<1> DEFINE first == First(dashboard, offset)
           at == AlongEdge(dashboard, offset)
           r == RectAlongEdge(dashboard, offset, i)
           s == RectAlongEdge(dashboard, offset, j)
<1>1. StepsPast(dashboard, first, at[i - 1], at[i], r)
  BY PlacedAlongEdge
<1>2. StepsPast(dashboard, first, at[j - 1], at[j], s)
  BY PlacedAlongEdge
<1>3. i \in 0 .. Len(dashboard.sizes) /\ j - 1 \in i .. Len(dashboard.sizes)
  BY DashboardFacts
<1>4. MovesOn(dashboard, first, at[i], at[j - 1])
  BY <1>3, AlongMovesOn
<1> HIDE DEF first, at, r, s
<1>5. r \in Rects /\ Behind(dashboard, first, at[j - 1], r)
  BY <1>1, <1>4 DEF StepsPast, MovesOn
<1>6. Apart(r, s)
  BY <1>2, <1>5 DEF StepsPast
<1> QED
  BY <1>6 DEF r, s

(* A dashboard keeps to its side of the line where it begins, and what the *)
(* next one learns covers it; on the left if it takes one column.          *)
LEMMA ExtentCovers ==
    ASSUME LayoutType, NEW dashboard \in DashboardRecords, dashboard.anchor \in Edges,
           NEW offset \in Nat,
           NEW i \in 1 .. Len(dashboard.sizes), dashboard.sizes[i] # NoPicture
    PROVE  LET r == RectAlongEdge(dashboard, offset, i)
               first == First(dashboard, offset)
           IN  /\ r \in Rects
               /\ 0 <= Near(dashboard, first, r)
               /\ (dashboard.anchor = "left" =>
                    \A k \in 1 .. Len(dashboard.sizes) :
                        dashboard.sizes[k] # NoPicture =>
                            RectAlongEdge(dashboard, offset, k).x = first)
                    => Far(dashboard, first, r) <= Extent(dashboard, offset)
<1> DEFINE n == Len(dashboard.sizes)
           first == First(dashboard, offset)
           at == AlongEdge(dashboard, offset)
           r == RectAlongEdge(dashboard, offset, i)
           OneLine == \A k \in 1 .. n :
                        dashboard.sizes[k] # NoPicture =>
                            RectAlongEdge(dashboard, offset, k).x = first
<1>1. n \in Nat
  BY DashboardFacts
<1>2. i - 1 \in 0 .. n /\ i \in 0 .. n /\ n \in i .. n /\ n \in 0 .. n /\ 0 \in 0 .. n
      /\ i - 1 \in 0 .. n
  BY <1>1
<1>3. first \in Int
  BY StartSteady DEF First
<1>4. /\ at[0] = StartOf(dashboard, offset)
      /\ \A k \in 0 .. n : Steady(dashboard, first, at[k])
      /\ \A k \in 1 .. n : at[k] = Step(dashboard, at[k - 1], dashboard.sizes[k])
  BY AlongSteady
<1>5. StepsPast(dashboard, first, at[i - 1], at[i], r)
  BY PlacedAlongEdge
<1>6. MovesOn(dashboard, first, at[0], at[i - 1])
  BY <1>2, AlongMovesOn
<1>7. MovesOn(dashboard, first, at[i], at[n])
  BY <1>2, AlongMovesOn
<1>8. 0 <= Cross(dashboard, first, at[0])
  BY <1>4, StartSteady DEF First
<1>9. Extent(dashboard, offset) = at[n].row_offset + at[n].row_size
  BY DEF Extent
<1>10. at[0].start = first
  BY <1>4 DEF First
<1>11. ASSUME NEW k \in 1 .. n, dashboard.sizes[k] # NoPicture, dashboard.anchor = "left"
       PROVE  RectAlongEdge(dashboard, offset, k).x = at[k].start
  BY <1>11, PlacedAlongEdge DEF StepsPast
<1> HIDE DEF at, first, r, n
<1>12. r \in Rects
  BY <1>5 DEF StepsPast
<1>13. 0 <= Near(dashboard, first, r)
  <2>1. at[0] \in Positions /\ at[i - 1] \in Positions
    BY <1>2, <1>4 DEF Steady
  <2>2. /\ Cross(dashboard, first, at[0]) \in Int /\ Cross(dashboard, first, at[i - 1]) \in Int
        /\ Near(dashboard, first, r) \in Int
    BY <1>3, <1>12, <2>1, DepthTypes
  <2>3. /\ Cross(dashboard, first, at[0]) <= Cross(dashboard, first, at[i - 1])
        /\ Cross(dashboard, first, at[i - 1]) <= Near(dashboard, first, r)
    BY <1>5, <1>6 DEF StepsPast, MovesOn
  <2> QED
    BY <1>8, <2>2, <2>3
<1>14. Far(dashboard, first, r) <= Cross(dashboard, first, at[n]) + at[n].row_size
  <2>1. Behind(dashboard, first, at[n], r)
    BY <1>5, <1>7, <1>12 DEF StepsPast, MovesOn
  <2> QED
    BY <2>1 DEF Behind
<1>15. ASSUME dashboard.anchor = "left", OneLine
       PROVE  at[n].start = first
  <2> DEFINE T == {k \in 0 .. n : at[k].start = first}
  <2>1. 0 \in T
    BY <1>2, <1>10
  <2>2. ASSUME NEW k \in 1 .. n, k - 1 \in T
        PROVE  k \in T
    <3>1. k \in 0 .. n
      BY <1>1
    <3>2. CASE dashboard.sizes[k] = NoPicture
      <4>1. at[k] = at[k - 1]
        BY <1>4, <3>2 DEF Step
      <4> QED
        BY <2>2, <3>1, <4>1
    <3>3. CASE dashboard.sizes[k] # NoPicture
      <4>1. at[k].start = first
        BY <1>11, <1>15, <3>3
      <4> QED
        BY <3>1, <4>1
    <3> QED
      BY <3>2, <3>3
  <2> HIDE DEF T, OneLine
  <2>3. \A k \in 0 .. n : k \in T
    BY <1>1, <2>1, <2>2, AllReached
  <2>4. n \in T
    BY <1>2, <2>3
  <2> QED
    BY <2>4 DEF T
<1>16. ASSUME dashboard.anchor = "left" => OneLine
       PROVE  Far(dashboard, first, r) <= Extent(dashboard, offset)
  <2> HIDE DEF OneLine
  <2>1. at[n] \in Positions /\ Steady(dashboard, first, at[n])
    BY <1>2, <1>4 DEF Steady
  <2>2. /\ at[n].start \in Int /\ at[n].row_offset \in Int /\ at[n].row_size \in Int
    BY <2>1 DEF Positions
  <2>3. Cross(dashboard, first, at[n]) = at[n].row_offset
    <3>1. CASE dashboard.anchor = "left"
      <4>1. at[n].row_offset = 0 /\ at[n].start = first
        BY <1>15, <1>16, <2>1, <3>1 DEF Steady
      <4> QED
        BY <1>3, <3>1, <4>1 DEF Cross
    <3>2. CASE dashboard.anchor # "left"
      BY <3>2 DEF Cross
    <3> QED
      BY <3>1, <3>2
  <2> QED
    BY <1>9, <1>14, <2>3
<1> QED
  BY <1>12, <1>13, <1>16 DEF first, r, n

LEMMA ExtentType ==
    ASSUME LayoutType, NEW dashboard \in DashboardRecords, dashboard.anchor \in Edges,
           NEW offset \in Nat
    PROVE  Extent(dashboard, offset) \in Nat
<1> DEFINE last == AlongEdge(dashboard, offset)[Len(dashboard.sizes)]
<1>1. Len(dashboard.sizes) \in 0 .. Len(dashboard.sizes)
  BY DashboardFacts
<1>2. Steady(dashboard, First(dashboard, offset), last)
  BY <1>1, AlongSteady
<1>3. Extent(dashboard, offset) = last.row_offset + last.row_size
  BY DEF Extent
<1> HIDE DEF last
<1>4. /\ last.row_offset \in Int /\ last.row_size \in Int
      /\ 0 <= last.row_offset /\ 0 <= last.row_size
  BY <1>2 DEF Steady, Positions
<1> QED
  BY <1>3, <1>4

-----------------------------------------------------------------------------
(* The row at the own ship.                                                *)

Widened(dashboard, width, size) ==
    IF size = NoPicture THEN width
    ELSE Width(size)
            + (IF width > 0 THEN width + ToPhys(dashboard.spacing_h) ELSE 0)
IsRowWidth(dashboard, width) ==
    width = [i \in 0 .. Len(dashboard.sizes) |->
                IF i = 0 THEN 0
                ELSE Widened(dashboard, width[i - 1], dashboard.sizes[i])]

LEMMA RowWidthType ==
    ASSUME LayoutType, NEW dashboard \in DashboardRecords
    PROVE  RowWidth(dashboard) \in Int
<1> DEFINE n == Len(dashboard.sizes)
           gap == ToPhys(dashboard.spacing_h)
           step == [i \in 1 .. n |->
                        [w \in Int |-> Widened(dashboard, w, dashboard.sizes[i])]]
<1>1. n \in Nat /\ gap \in Nat
      /\ \A i \in 1 .. n : dashboard.sizes[i] \in Sizes \/ dashboard.sizes[i] = NoPicture
  BY DashboardFacts
<1>2. ASSUME NEW i \in 1 .. n, NEW w \in Int
      PROVE  Widened(dashboard, w, dashboard.sizes[i]) \in Int
  <2>1. CASE dashboard.sizes[i] = NoPicture
    BY <2>1 DEF Widened
  <2>2. CASE dashboard.sizes[i] # NoPicture
    <3> DEFINE own == Width(dashboard.sizes[i])
    <3>1. own \in Nat
      BY <1>1, <2>2, SizeType
    <3>2. Widened(dashboard, w, dashboard.sizes[i]) = own + (IF w > 0 THEN w + gap ELSE 0)
      BY <2>2 DEF Widened
    <3> HIDE DEF own, gap
    <3> QED
      BY <1>1, <3>1, <3>2
  <2> QED
    BY <2>1, <2>2
<1> HIDE DEF n
<1>3. step \in [1 .. n -> [Int -> Int]]
  BY <1>2
<1>4. \A i \in 1 .. n, w \in Int : step[i][w] = Widened(dashboard, w, dashboard.sizes[i])
  OBVIOUS
<1> HIDE DEF step
<1>5. PICK f \in [0 .. n -> Int] : IsIteration(f, n, 0, step)
  <2>1. 0 \in Int
    OBVIOUS
  <2> QED
    BY <1>1, <1>3, <2>1, IterationExists
<1>6. \A i \in 0 .. n : f[i] = IF i = 0 THEN 0
                              ELSE Widened(dashboard, f[i - 1], dashboard.sizes[i])
  <2> SUFFICES ASSUME NEW i \in 0 .. n, i # 0
               PROVE  f[i] = Widened(dashboard, f[i - 1], dashboard.sizes[i])
    BY <1>5 DEF IsIteration
  <2>1. i \in 1 .. n /\ i - 1 \in 0 .. n
    BY <1>1
  <2>2. f[i - 1] \in Int
    BY <2>1
  <2> QED
    BY <1>4, <1>5, <2>1, <2>2 DEF IsIteration
<1>7. IsRowWidth(dashboard, f)
  BY <1>6 DEF IsRowWidth, n
<1> DEFINE width == CHOOSE g : IsRowWidth(dashboard, g)
<1>8. RowWidth(dashboard) = width[n]
  BY DEF RowWidth, IsRowWidth, Widened, n
<1>9. IsRowWidth(dashboard, width)
  <2> SUFFICES \E g : IsRowWidth(dashboard, g)
    OBVIOUS
  <2> QED
    BY <1>7
<1> HIDE DEF width
<1>10. \A i \in 0 .. n : width[i] = IF i = 0 THEN 0
                              ELSE Widened(dashboard, width[i - 1], dashboard.sizes[i])
  BY <1>9, Zenon DEF IsRowWidth, n
<1> DEFINE T == {i \in 0 .. n : width[i] \in Int}
<1>11. 0 \in T
  BY <1>1, <1>10
<1>12. ASSUME NEW i \in 1 .. n, i - 1 \in T  PROVE i \in T
  <2>1. i \in 0 .. n /\ i # 0
    BY <1>1
  <2>2. width[i - 1] \in Int
    BY <1>12
  <2>3. width[i] = Widened(dashboard, width[i - 1], dashboard.sizes[i])
    BY <1>10, <2>1
  <2>4. width[i] \in Int
    BY <1>2, <2>2, <2>3
  <2> QED
    BY <2>1, <2>4
<1> HIDE DEF T
<1>13. \A i \in 0 .. n : i \in T
  BY <1>1, <1>11, <1>12, AllReached
<1>14. n \in T
  BY <1>1, <1>13
<1> QED
  BY <1>8, <1>14 DEF T

Beside(dashboard, x, size) ==
    IF size = NoPicture THEN x
    ELSE x + Width(size) + ToPhys(dashboard.spacing_h)
IsAtShip(dashboard, x) ==
    x = [i \in 0 .. Len(dashboard.sizes) |->
            IF i = 0 THEN ship[1] - RowWidth(dashboard) \div 2
            ELSE Beside(dashboard, x[i - 1], dashboard.sizes[i])]

LEMMA AtShipSteps ==
    ASSUME LayoutType, ship # NoShip, NEW dashboard \in DashboardRecords
    PROVE  /\ \A i \in 0 .. Len(dashboard.sizes) : AtShip(dashboard)[i] \in Int
           /\ \A i \in 1 .. Len(dashboard.sizes) :
                AtShip(dashboard)[i]
                    = Beside(dashboard, AtShip(dashboard)[i - 1], dashboard.sizes[i])
<1> DEFINE n == Len(dashboard.sizes)
           gap == ToPhys(dashboard.spacing_h)
           start == ship[1] - RowWidth(dashboard) \div 2
           step == [i \in 1 .. n |->
                        [x \in Int |-> Beside(dashboard, x, dashboard.sizes[i])]]
           at == AtShip(dashboard)
<1>1. n \in Nat /\ gap \in Nat
      /\ \A i \in 1 .. n : dashboard.sizes[i] \in Sizes \/ dashboard.sizes[i] = NoPicture
  BY DashboardFacts
<1>2. start \in Int
  <2>1. ship[1] \in Int
    BY DEF LayoutType
  <2>2. RowWidth(dashboard) \div 2 \in Int
    BY RowWidthType
  <2> QED
    BY <2>1, <2>2
<1>3. ASSUME NEW i \in 1 .. n, NEW x \in Int
      PROVE  Beside(dashboard, x, dashboard.sizes[i]) \in Int
  <2>1. CASE dashboard.sizes[i] = NoPicture
    BY <2>1 DEF Beside
  <2>2. CASE dashboard.sizes[i] # NoPicture
    <3> DEFINE own == Width(dashboard.sizes[i])
    <3>1. own \in Nat
      BY <1>1, <2>2, SizeType
    <3>2. Beside(dashboard, x, dashboard.sizes[i]) = x + own + gap
      BY <2>2 DEF Beside
    <3> HIDE DEF own, gap
    <3> QED
      BY <1>1, <3>1, <3>2
  <2> QED
    BY <2>1, <2>2
<1> HIDE DEF n, start
<1>4. step \in [1 .. n -> [Int -> Int]]
  BY <1>3
<1>5. \A i \in 1 .. n, x \in Int : step[i][x] = Beside(dashboard, x, dashboard.sizes[i])
  OBVIOUS
<1> HIDE DEF step
<1>6. PICK f \in [0 .. n -> Int] : IsIteration(f, n, start, step)
  BY <1>1, <1>2, <1>4, IterationExists
<1>7. \A i \in 0 .. n : f[i] = IF i = 0 THEN start
                              ELSE Beside(dashboard, f[i - 1], dashboard.sizes[i])
  <2> SUFFICES ASSUME NEW i \in 0 .. n, i # 0
               PROVE  f[i] = Beside(dashboard, f[i - 1], dashboard.sizes[i])
    BY <1>6 DEF IsIteration
  <2>1. i \in 1 .. n /\ i - 1 \in 0 .. n
    BY <1>1
  <2>2. f[i - 1] \in Int
    BY <2>1
  <2> QED
    BY <1>5, <1>6, <2>1, <2>2 DEF IsIteration
<1>8. IsAtShip(dashboard, f)
  BY <1>7 DEF IsAtShip, n, start
<1>9. at = CHOOSE g : IsAtShip(dashboard, g)
  BY DEF AtShip, IsAtShip, Beside
<1>10. IsAtShip(dashboard, at)
  <2> HIDE DEF at
  <2> QED
    BY <1>8, <1>9
<1> HIDE DEF at
<1>11. \A i \in 0 .. n : at[i] = IF i = 0 THEN start
                               ELSE Beside(dashboard, at[i - 1], dashboard.sizes[i])
  BY <1>10, Zenon DEF IsAtShip, n, start
<1>12. \A i \in 1 .. n : at[i] = Beside(dashboard, at[i - 1], dashboard.sizes[i])
  BY <1>1, <1>11
<1> DEFINE T == {i \in 0 .. n : at[i] \in Int}
<1>13. 0 \in T
  BY <1>1, <1>2, <1>11
<1>14. ASSUME NEW i \in 1 .. n, i - 1 \in T  PROVE i \in T
  <2>1. i \in 0 .. n
    BY <1>1
  <2>2. at[i - 1] \in Int
    BY <1>14
  <2>3. at[i] \in Int
    BY <1>3, <1>12, <2>2
  <2> QED
    BY <2>1, <2>3
<1> HIDE DEF T
<1>15. \A i \in 0 .. n : i \in T
  BY <1>1, <1>13, <1>14, AllReached
<1> QED
  BY <1>12, <1>15 DEF T, n, at

LEMMA ApartAtShip ==
    ASSUME LayoutType, ship # NoShip, NEW dashboard \in DashboardRecords,
           NEW i \in 1 .. Len(dashboard.sizes), dashboard.sizes[i] # NoPicture,
           NEW j \in 1 .. Len(dashboard.sizes), i < j
    PROVE  Apart(RectAtShip(dashboard, i), RectAtShip(dashboard, j))
<1> DEFINE n == Len(dashboard.sizes)
           x == AtShip(dashboard)
           gap == ToPhys(dashboard.spacing_h)
           T == {k \in 0 .. n : i <= k => x[i] <= x[k]}
<1>1. n \in Nat /\ gap \in Nat
      /\ \A k \in 1 .. n : dashboard.sizes[k] \in Sizes \/ dashboard.sizes[k] = NoPicture
  BY DashboardFacts
<1>2. /\ \A k \in 0 .. n : x[k] \in Int
      /\ \A k \in 1 .. n : x[k] = Beside(dashboard, x[k - 1], dashboard.sizes[k])
  BY AtShipSteps
<1>3. \A k \in 1 .. n : dashboard.sizes[k] # NoPicture => Width(dashboard.sizes[k]) \in Nat
  BY <1>1, SizeType
<1> HIDE DEF x, gap
<1>4. ASSUME NEW k \in 1 .. n, dashboard.sizes[k] # NoPicture
      PROVE  x[k - 1] + Width(dashboard.sizes[k]) <= x[k]
  <2>1. x[k] = x[k - 1] + Width(dashboard.sizes[k]) + gap
    BY <1>2, <1>4 DEF Beside, gap
  <2>2. x[k - 1] \in Int /\ Width(dashboard.sizes[k]) \in Nat
    BY <1>1, <1>2, <1>3, <1>4
  <2> QED
    BY <1>1, <2>1, <2>2
<1>5. ASSUME NEW k \in 1 .. n  PROVE x[k - 1] <= x[k]
  <2>1. x[k - 1] \in Int /\ x[k] \in Int
    BY <1>1, <1>2
  <2>2. CASE dashboard.sizes[k] = NoPicture
    <3>1. x[k] = x[k - 1]
      BY <1>2, <2>2 DEF Beside
    <3> QED
      BY <2>1, <3>1
  <2>3. CASE dashboard.sizes[k] # NoPicture
    <3>1. x[k - 1] + Width(dashboard.sizes[k]) <= x[k]
      BY <1>4, <2>3
    <3>2. Width(dashboard.sizes[k]) \in Nat
      BY <1>3, <2>3
    <3> QED
      BY <2>1, <3>1, <3>2
  <2> QED
    BY <2>2, <2>3
<1>6. j - 1 \in T
  <2>1. 0 \in T
    BY <1>1
  <2>2. ASSUME NEW k \in 1 .. n, k - 1 \in T  PROVE k \in T
    <3>1. k \in 0 .. n /\ k - 1 \in 0 .. n /\ i \in 0 .. n
      BY <1>1
    <3>2. x[k - 1] \in Int /\ x[k] \in Int /\ x[i] \in Int
      BY <1>2, <3>1
    <3>3. i <= k - 1 => x[i] <= x[k - 1]
      BY <2>2
    <3>4. i = k => x[i] <= x[k]
      BY <3>2
    <3>5. x[k - 1] <= x[k]
      BY <1>5
    <3>6. i <= k => x[i] <= x[k]
      BY <3>1, <3>2, <3>3, <3>4, <3>5
    <3> QED
      BY <3>1, <3>6
  <2> HIDE DEF T
  <2>3. \A k \in 0 .. n : k \in T
    BY <1>1, <2>1, <2>2, AllReached
  <2> QED
    BY <1>1, <2>3
<1>7. x[i] <= x[j - 1]
  BY <1>1, <1>6
<1>8. x[i - 1] + Width(dashboard.sizes[i]) <= x[i]
  BY <1>4
<1>9. /\ x[i - 1] \in Int /\ x[i] \in Int /\ x[j - 1] \in Int
      /\ Width(dashboard.sizes[i]) \in Nat
  BY <1>1, <1>2, <1>3
<1>10. x[i - 1] + Width(dashboard.sizes[i]) <= x[j - 1]
  BY <1>7, <1>8, <1>9
<1>11. /\ RectAtShip(dashboard, i).x = x[i - 1]
       /\ RectAtShip(dashboard, i).w = Width(dashboard.sizes[i])
       /\ RectAtShip(dashboard, j).x = x[j - 1]
  BY DEF RectAtShip, Rect, x
<1> QED
  BY <1>10, <1>11 DEF Apart

-----------------------------------------------------------------------------
(* All dashboards of a frame.                                              *)

LEMMA InstrumentFacts ==
    ASSUME LayoutType
    PROVE  /\ Len(dashboards) \in Nat /\ All = 1 .. Len(dashboards)
           /\ \A d \in All : dashboards[d] \in DashboardRecords
           /\ \A di \in Instruments :
                /\ di[1] \in All /\ di[2] \in 1 .. Len(dashboards[di[1]].sizes)
                /\ di = <<di[1], di[2]>>
           /\ \A d \in All : \A i \in 1 .. Len(dashboards[d].sizes) :
                <<d, i>> \in Instruments
<1>1. dashboards \in Seq(DashboardRecords)
  BY DEF LayoutType
<1>2. Len(dashboards) \in Nat /\ All = 1 .. Len(dashboards)
  BY <1>1 DEF All
<1>3. \A d \in All : dashboards[d] \in DashboardRecords
  BY <1>1, <1>2
<1>4. \A d \in All : DOMAIN dashboards[d].sizes = 1 .. Len(dashboards[d].sizes)
  BY <1>3, DashboardFacts
<1>5. ASSUME NEW di \in Instruments
      PROVE  /\ di[1] \in All /\ di[2] \in 1 .. Len(dashboards[di[1]].sizes)
             /\ di = <<di[1], di[2]>>
  <2>1. PICK d \in All : di \in {<<d, i>> : i \in DOMAIN dashboards[d].sizes}
    BY Zenon DEF Instruments
  <2>2. PICK i \in DOMAIN dashboards[d].sizes : di = <<d, i>>
    BY <2>1, Zenon
  <2> QED
    BY <1>4, <2>2
<1>6. ASSUME NEW d \in All, NEW i \in 1 .. Len(dashboards[d].sizes)
      PROVE  <<d, i>> \in Instruments
  <2>1. i \in DOMAIN dashboards[d].sizes
    BY <1>4, Zenon
  <2>2. <<d, i>> \in {<<d, k>> : k \in DOMAIN dashboards[d].sizes}
    BY <2>1, Zenon
  <2> QED
    BY <2>2, Zenon DEF Instruments
<1> QED
  BY <1>2, <1>3, <1>5, <1>6

OffsetStep(offsets, d) ==
    IF ~OnPage(d) \/ dashboards[d].anchor = "own_ship" THEN offsets
    ELSE PassedOn(offsets, dashboards[d].anchor,
                  Extent(dashboards[d], offsets[dashboards[d].anchor]))
IsOffsets(offsets) ==
    offsets = [d \in 0 .. Len(dashboards) |->
                IF d = 0 THEN [edge \in Edges |-> 0] ELSE OffsetStep(offsets[d - 1], d)]

LEMMA OffsetsSteps ==
    ASSUME LayoutType
    PROVE  /\ Offsets[0] = [edge \in Edges |-> 0]
           /\ \A d \in 0 .. Len(dashboards) : Offsets[d] \in [Edges -> Nat]
           /\ \A d \in 1 .. Len(dashboards) : Offsets[d] = OffsetStep(Offsets[d - 1], d)
<1> DEFINE n == Len(dashboards)
           S == [Edges -> Nat]
           start == [edge \in Edges |-> 0]
           step == [d \in 1 .. n |-> [offsets \in S |-> OffsetStep(offsets, d)]]
           of == Offsets
<1>1. n \in Nat /\ \A d \in 1 .. n : dashboards[d] \in DashboardRecords
  BY InstrumentFacts
<1>2. start \in S
  OBVIOUS
<1>3. ASSUME NEW d \in 1 .. n, NEW offsets \in S
      PROVE  OffsetStep(offsets, d) \in S
  <2> DEFINE anchor == dashboards[d].anchor
             extent == Extent(dashboards[d], offsets[anchor])
  <2>1. CASE ~OnPage(d) \/ anchor = "own_ship"
    BY <2>1 DEF OffsetStep
  <2>2. CASE ~(~OnPage(d) \/ anchor = "own_ship")
    <3>1. dashboards[d] \in DashboardRecords /\ anchor \in Edges
      BY <1>1, <2>2, DashboardFacts
    <3>2. offsets[anchor] \in Nat
      BY <3>1
    <3>3. extent \in Nat
      BY <3>1, <3>2, ExtentType
    <3>4. OffsetStep(offsets, d) = [offsets EXCEPT ![anchor] = extent]
      BY <2>2 DEF OffsetStep, PassedOn
    <3> HIDE DEF anchor, extent
    <3> QED
      BY <3>3, <3>4
  <2> QED
    BY <2>1, <2>2
<1> HIDE DEF n, S, start
<1>4. step \in [1 .. n -> [S -> S]]
  BY <1>3
<1>5. \A d \in 1 .. n, offsets \in S : step[d][offsets] = OffsetStep(offsets, d)
  OBVIOUS
<1> HIDE DEF step
<1>6. PICK f \in [0 .. n -> S] : IsIteration(f, n, start, step)
  BY <1>1, <1>2, <1>4, IterationExists
<1>7. \A d \in 0 .. n : f[d] = IF d = 0 THEN start ELSE OffsetStep(f[d - 1], d)
  <2> SUFFICES ASSUME NEW d \in 0 .. n, d # 0
               PROVE  f[d] = OffsetStep(f[d - 1], d)
    BY <1>6 DEF IsIteration
  <2>1. d \in 1 .. n /\ d - 1 \in 0 .. n
    BY <1>1
  <2>2. f[d - 1] \in S
    BY <2>1
  <2> QED
    BY <1>5, <1>6, <2>1, <2>2 DEF IsIteration
<1>8. IsOffsets(f)
  BY <1>7 DEF IsOffsets, n, start
<1>9. of = CHOOSE g : IsOffsets(g)
  BY DEF Offsets, IsOffsets, OffsetStep
<1>10. IsOffsets(of)
  <2> HIDE DEF of
  <2> QED
    BY <1>8, <1>9
<1> HIDE DEF of
<1>11. \A d \in 0 .. n : of[d] = IF d = 0 THEN start ELSE OffsetStep(of[d - 1], d)
  BY <1>10, Zenon DEF IsOffsets, n, start
<1>12. of[0] = start
  BY <1>1, <1>11
<1>13. \A d \in 1 .. n : of[d] = OffsetStep(of[d - 1], d)
  BY <1>1, <1>11
<1> DEFINE T == {d \in 0 .. n : of[d] \in S}
<1>14. 0 \in T
  BY <1>1, <1>2, <1>12
<1>15. ASSUME NEW d \in 1 .. n, d - 1 \in T  PROVE d \in T
  <2>1. d \in 0 .. n
    BY <1>1
  <2>2. of[d - 1] \in S
    BY <1>15
  <2>3. of[d] \in S
    BY <1>3, <1>13, <2>2
  <2> QED
    BY <2>1, <2>3
<1> HIDE DEF T
<1>16. \A d \in 0 .. n : d \in T
  BY <1>1, <1>14, <1>15, AllReached
<1> QED
  BY <1>12, <1>13, <1>16 DEF T, n, S, start, of

(* DashboardRecords that are not drawn, or elsewhere, leave an edge as it was.   *)
LEMMA OffsetKept ==
    ASSUME LayoutType, NEW edge \in Edges,
           NEW i \in 0 .. Len(dashboards), NEW j \in i .. Len(dashboards),
           \A k \in All : i < k /\ k <= j /\ OnPage(k) => dashboards[k].anchor # edge
    PROVE  Offsets[j][edge] = Offsets[i][edge]
<1> DEFINE n == Len(dashboards)
           T == {k \in 0 .. n : i <= k /\ k <= j => Offsets[k][edge] = Offsets[i][edge]}
<1>1. n \in Nat /\ All = 1 .. n
  BY InstrumentFacts
<1>2. /\ \A d \in 0 .. n : Offsets[d] \in [Edges -> Nat]
      /\ \A d \in 1 .. n : Offsets[d] = OffsetStep(Offsets[d - 1], d)
  BY OffsetsSteps
<1>3. 0 \in T
  BY <1>1
<1>4. ASSUME NEW k \in 1 .. n, k - 1 \in T  PROVE k \in T
  <2>1. k \in 0 .. n /\ k - 1 \in 0 .. n
    BY <1>1
  <2>2. SUFFICES ASSUME i <= k, k <= j  PROVE Offsets[k][edge] = Offsets[i][edge]
    BY <2>1
  <2>3. CASE i = k
    BY <2>3
  <2>4. CASE i # k
    <3>1. i <= k - 1 /\ k - 1 <= j /\ i < k
      BY <1>1, <2>1, <2>2, <2>4
    <3>2. Offsets[k - 1][edge] = Offsets[i][edge]
      BY <1>4, <3>1
    <3>3. OnPage(k) => dashboards[k].anchor # edge
      BY <1>1, <2>2, <3>1
    <3>4. Offsets[k][edge] = Offsets[k - 1][edge]
      <4>1. Offsets[k] = OffsetStep(Offsets[k - 1], k) /\ Offsets[k - 1] \in [Edges -> Nat]
        BY <1>2, <2>1
      <4>2. CASE ~OnPage(k) \/ dashboards[k].anchor = "own_ship"
        BY <4>1, <4>2 DEF OffsetStep
      <4>3. CASE ~(~OnPage(k) \/ dashboards[k].anchor = "own_ship")
        <5> DEFINE anchor == dashboards[k].anchor
                   extent == Extent(dashboards[k], Offsets[k - 1][anchor])
        <5>1. OffsetStep(Offsets[k - 1], k) = [Offsets[k - 1] EXCEPT ![anchor] = extent]
          BY <4>3 DEF OffsetStep, PassedOn
        <5>2. anchor # edge
          BY <3>3, <4>3
        <5> HIDE DEF anchor, extent
        <5> QED
          BY <4>1, <5>1, <5>2
      <4> QED
        BY <4>2, <4>3
    <3> QED
      BY <3>2, <3>4
  <2> QED
    BY <2>3, <2>4
<1> HIDE DEF T
<1>5. \A k \in 0 .. n : k \in T
  BY <1>1, <1>3, <1>4, AllReached
<1>6. j \in 0 .. n /\ i <= j
  BY <1>1
<1>7. j \in T
  BY <1>5, <1>6
<1> QED
  BY <1>6, <1>7 DEF T

(* Numbers on either side of a line, which the next dashboard moves away   *)
(* from the edge by at least what is taken.                                *)
LEMMA LaterLine ==
    \A near, far, taken, used \in Nat :
        near <= far /\ taken <= used =>
            /\ near \in Int /\ far + used \in Int
            /\ near + taken <= far + used
OBVIOUS

LEMMA EarlierLine ==
    \A edge, near, far, taken, used \in Nat :
        near <= far /\ taken <= used =>
            /\ edge - near - 0 \in Int /\ edge - far - used \in Int
            /\ (edge - far - used) + taken <= edge - near - 0
OBVIOUS

LEMMA BeyondLine ==
    \A first, second, end, begin, size \in Int, taken \in Nat :
        end + size - first <= taken /\ 0 <= begin - second /\ first + taken <= second
            => end + size <= begin
OBVIOUS

LEMMA ShortOfLine ==
    \A first, second, end, begin, size \in Int, taken \in Nat :
        first - begin <= taken /\ 0 <= second - (end + size) /\ second + taken <= first
            => end + size <= begin
OBVIOUS

(* The first two dashboards of an edge.                                    *)
LEMMA ApartOnEdge ==
    ASSUME LayoutType, NEW c \in DashboardRecords, NEW d \in DashboardRecords,
           c.anchor \in Edges, d.anchor = c.anchor,
           NEW i \in 1 .. Len(c.sizes), c.sizes[i] # NoPicture,
           NEW j \in 1 .. Len(d.sizes), d.sizes[j] # NoPicture,
           c.anchor = "left" =>
                \A k \in 1 .. Len(c.sizes) :
                    c.sizes[k] # NoPicture =>
                        RectAlongEdge(c, 0, k).x = ToPhys(c.offset_x),
           c.anchor \in {"left", "right"} => c.offset_x <= d.offset_x
    PROVE  Apart(RectAlongEdge(c, 0, i), RectAlongEdge(d, Extent(c, 0), j))
<1> DEFINE taken == Extent(c, 0)
           r == RectAlongEdge(c, 0, i)
           s == RectAlongEdge(d, taken, j)
           first == First(c, 0)
           second == First(d, taken)
           cX == ToPhys(c.offset_x)
           dX == ToPhys(d.offset_x)
           used == ToPhys(taken)
<1>1. 0 \in Nat /\ taken \in Nat
  BY ExtentType
<1>2. /\ c.offset_x \in Nat /\ d.offset_x \in Nat /\ cX \in Nat /\ dX \in Nat
  BY DashboardFacts
<1>3. used \in Nat /\ taken <= used /\ ToPhys(0) = 0
  <2> HIDE DEF taken
  <2> QED
    BY <1>1, ToPhysFacts
<1>4. c.anchor \in {"left", "right"} => cX <= dX
  BY <1>2, ToPhysFacts
<1>5. c.anchor = "left" => first = cX /\ second = dX + used
  <2>1. c.offset_x + 0 = c.offset_x
    BY <1>2
  <2>2. ToPhys(d.offset_x + taken) = dX + used
    <3> HIDE DEF taken
    <3> QED
      BY <1>1, <1>2, ToPhysFacts
  <2> QED
    BY <2>1, <2>2 DEF First, StartOf, StartOfColumns, AlongRows
<1>6. c.anchor = "right" =>
        first = canvas[1] - cX - ToPhys(0) /\ second = canvas[1] - dX - used
  BY DEF First, StartOf, StartOfColumns, AlongRows
<1>7. c.anchor = "top" => first = ToPhys(0) /\ second = used
  BY DEF First, StartOf, StartOfRows, AlongRows
<1>8. c.anchor = "bottom" => first = canvas[2] - ToPhys(0) /\ second = canvas[2] - used
  BY DEF First, StartOf, StartOfRows, AlongRows
<1>9. canvas[1] \in Nat /\ canvas[2] \in Nat
  BY DEF LayoutType
<1>10. r \in Rects /\ Far(c, first, r) <= taken
  <2>1. c.anchor = "left" =>
            \A k \in 1 .. Len(c.sizes) :
                c.sizes[k] # NoPicture => RectAlongEdge(c, 0, k).x = first
    BY <1>5
  <2> QED
    BY <1>1, <2>1, ExtentCovers
<1>11. s \in Rects /\ 0 <= Near(d, second, s)
  <2> HIDE DEF taken
  <2> QED
    BY <1>1, ExtentCovers
<1> SUFFICES Apart(r, s)
  OBVIOUS
<1> HIDE DEF r, s, first, second, taken, cX, dX, used
<1>12. /\ r.x \in Int /\ r.y \in Int /\ r.w \in Int /\ r.h \in Int
       /\ s.x \in Int /\ s.y \in Int /\ s.w \in Int /\ s.h \in Int
  BY <1>10, <1>11 DEF Rects
<1>13. CASE c.anchor = "top"
  <2>1. r.y + r.h - first <= taken /\ 0 <= s.y - second
    BY <1>10, <1>11, <1>13 DEF Far, Near
  <2>2. first = 0 /\ second = 0 + used
    BY <1>3, <1>7, <1>13
  <2>3. /\ first \in Int /\ second \in Int
        /\ first + taken <= second
    BY <1>1, <1>3, <2>2, LaterLine
  <2>4. r.y + r.h <= s.y
    BY <1>1, <1>12, <2>1, <2>3, BeyondLine
  <2> QED
    BY <2>4 DEF Apart
<1>14. CASE c.anchor = "bottom"
  <2>1. first - r.y <= taken /\ 0 <= second - (s.y + s.h)
    BY <1>10, <1>11, <1>14 DEF Far, Near
  <2>2. first = canvas[2] - 0 - 0 /\ second = canvas[2] - 0 - used
    BY <1>3, <1>8, <1>9, <1>14
  <2>3. /\ first \in Int /\ second \in Int
        /\ second + taken <= first
    BY <1>1, <1>3, <1>9, <2>2, EarlierLine
  <2>4. s.y + s.h <= r.y
    BY <1>1, <1>12, <2>1, <2>3, ShortOfLine
  <2> QED
    BY <2>4 DEF Apart
<1>15. CASE c.anchor = "left"
  <2>1. r.x + r.w - first <= taken /\ 0 <= s.x - second
    BY <1>10, <1>11, <1>15 DEF Far, Near
  <2>2. first = cX /\ second = dX + used /\ cX <= dX
    BY <1>4, <1>5, <1>15
  <2>3. /\ first \in Int /\ second \in Int
        /\ first + taken <= second
    BY <1>1, <1>2, <1>3, <2>2, LaterLine
  <2>4. r.x + r.w <= s.x
    BY <1>1, <1>12, <2>1, <2>3, BeyondLine
  <2> QED
    BY <2>4 DEF Apart
<1>16. CASE c.anchor = "right"
  <2>1. first - r.x <= taken /\ 0 <= second - (s.x + s.w)
    BY <1>10, <1>11, <1>16 DEF Far, Near
  <2>2. first = canvas[1] - cX - 0 /\ second = canvas[1] - dX - used /\ cX <= dX
    BY <1>3, <1>4, <1>6, <1>16
  <2>3. /\ first \in Int /\ second \in Int
        /\ second + taken <= first
    BY <1>1, <1>2, <1>3, <1>9, <2>2, EarlierLine
  <2>4. s.x + s.w <= r.x
    BY <1>1, <1>12, <2>1, <2>3, ShortOfLine
  <2> QED
    BY <2>4 DEF Apart
<1> QED
  BY <1>13, <1>14, <1>15, <1>16 DEF Edges

-----------------------------------------------------------------------------
(* What a frame draws.                                                     *)

FrameDrawn ==
    {di \in Instruments : Drawn(di[1]) /\ dashboards[di[1]].sizes[di[2]] # NoPicture}

LEMMA FrameInstrumentsApart ==
    ASSUME LayoutType, NEW di \in FrameDrawn, NEW ej \in FrameDrawn,
           di[1] = ej[1], di # ej
    PROVE  Apart(RectIn(Offsets, di), RectIn(Offsets, ej))
<1> DEFINE d == di[1]
           dashboard == dashboards[d]
           n == Len(dashboard.sizes)
           R(i) == RectIn(Offsets, <<d, i>>)
<1>1. /\ di \in Instruments /\ ej \in Instruments /\ Drawn(d)
      /\ dashboard.sizes[di[2]] # NoPicture /\ dashboard.sizes[ej[2]] # NoPicture
  BY DEF FrameDrawn
<1>2. /\ d \in All /\ dashboard \in DashboardRecords
      /\ di[2] \in 1 .. n /\ ej[2] \in 1 .. n
      /\ di = <<d, di[2]>> /\ ej = <<d, ej[2]>>
  BY <1>1, InstrumentFacts
<1>3. ASSUME NEW i \in 1 .. n, NEW j \in 1 .. n, i < j,
             dashboard.sizes[i] # NoPicture, dashboard.sizes[j] # NoPicture
      PROVE  Apart(R(i), R(j))
  <2>1. CASE dashboard.anchor = "own_ship"
    <3>1. ship # NoShip
      BY <1>1, <2>1 DEF Drawn, ShipOnCanvas
    <3>2. Apart(RectAtShip(dashboard, i), RectAtShip(dashboard, j))
      <4> HIDE DEF dashboard
      <4> QED
        BY <1>2, <1>3, <3>1, ApartAtShip DEF n
    <3>3. R(i) = RectAtShip(dashboard, i) /\ R(j) = RectAtShip(dashboard, j)
      BY <2>1 DEF RectIn
    <3> QED
      BY <3>2, <3>3
  <2>2. CASE dashboard.anchor # "own_ship"
    <3> DEFINE offset == Offsets[d - 1][dashboard.anchor]
    <3>1. dashboard.anchor \in Edges
      BY <1>2, <2>2, DashboardFacts
    <3>2. offset \in Nat
      <4>1. d - 1 \in 0 .. Len(dashboards)
        BY <1>2, InstrumentFacts
      <4>2. Offsets[d - 1] \in [Edges -> Nat]
        BY <4>1, OffsetsSteps
      <4> QED
        BY <3>1, <4>2
    <3>3. R(i) = RectAlongEdge(dashboard, offset, i) /\ R(j) = RectAlongEdge(dashboard, offset, j)
      BY <2>2 DEF RectIn
    <3> HIDE DEF offset, dashboard
    <3>4. Apart(RectAlongEdge(dashboard, offset, i), RectAlongEdge(dashboard, offset, j))
      BY <1>2, <1>3, <3>1, <3>2, ApartAlongEdge DEF n
    <3> QED
      BY <3>3, <3>4
  <2> QED
    BY <2>1, <2>2
<1>4. di[2] # ej[2]
  BY <1>2
<1>5. di[2] < ej[2] \/ ej[2] < di[2]
  BY <1>2, <1>4
<1>6. R(di[2]) = RectIn(Offsets, di) /\ R(ej[2]) = RectIn(Offsets, ej)
  BY <1>2
<1> HIDE DEF R, n, dashboard
<1>7. Apart(R(di[2]), R(ej[2])) \/ Apart(R(ej[2]), R(di[2]))
  BY <1>1, <1>2, <1>3, <1>5
<1>8. Apart(R(di[2]), R(ej[2]))
  BY <1>7, Zenon DEF Apart
<1> QED
  BY <1>6, <1>8

LEMMA FrameTwoApart ==
    ASSUME LayoutType, NEW di \in FrameDrawn, NEW ej \in FrameDrawn,
           dashboards[di[1]].anchor \in Edges, di[1] < ej[1],
           {f \in OnEdge(di[1]) : f <= ej[1]} = {di[1], ej[1]},
           dashboards[di[1]].anchor = "left" =>
                \A ck \in FrameDrawn :
                    ck[1] = di[1] =>
                        RectIn(Offsets, ck).x = ToPhys(dashboards[di[1]].offset_x),
           dashboards[di[1]].anchor \in {"left", "right"} =>
                dashboards[di[1]].offset_x <= dashboards[ej[1]].offset_x
    PROVE  Apart(RectIn(Offsets, di), RectIn(Offsets, ej))
<1> DEFINE d == di[1]
           e == ej[1]
           edge == dashboards[d].anchor
           c == dashboards[d]
           next == dashboards[e]
<1>1. /\ di \in Instruments /\ ej \in Instruments /\ Drawn(d) /\ Drawn(e)
      /\ c.sizes[di[2]] # NoPicture /\ next.sizes[ej[2]] # NoPicture
  BY DEF FrameDrawn
<1>2. /\ d \in All /\ e \in All /\ c \in DashboardRecords /\ next \in DashboardRecords
      /\ di[2] \in 1 .. Len(c.sizes) /\ ej[2] \in 1 .. Len(next.sizes)
      /\ di = <<d, di[2]>> /\ ej = <<e, ej[2]>>
      /\ Len(dashboards) \in Nat /\ All = 1 .. Len(dashboards)
  BY <1>1, InstrumentFacts
<1>3. d \in OnEdge(d) /\ e \in OnEdge(d)
  BY Zenon
<1>4. next.anchor = edge /\ edge # "own_ship" /\ next.anchor # "own_ship"
  BY <1>3 DEF OnEdge, Edges
<1>5. \A k \in All : OnPage(k) /\ k <= e /\ dashboards[k].anchor = edge => k = d \/ k = e
  BY DEF OnEdge
<1>6. \A k \in 0 .. Len(dashboards) : Offsets[k] \in [Edges -> Nat]
  BY OffsetsSteps
<1>7. /\ 0 \in 0 .. Len(dashboards) /\ d - 1 \in 0 .. Len(dashboards)
      /\ d \in 0 .. Len(dashboards) /\ d - 1 \in 0 .. Len(dashboards)
      /\ e - 1 \in d .. Len(dashboards)
  BY <1>2
<1>8. Offsets[d - 1][edge] = 0
  <2>1. \A k \in All : 0 < k /\ k <= d - 1 /\ OnPage(k) => dashboards[k].anchor # edge
    BY <1>2, <1>5
  <2>2. Offsets[d - 1][edge] = Offsets[0][edge]
    BY <1>7, <2>1, OffsetKept
  <2>3. Offsets[0] = [a \in Edges |-> 0]
    BY OffsetsSteps
  <2> QED
    BY <2>2, <2>3
<1>9. Offsets[d][edge] = Extent(c, 0)
  <2>1. Offsets[d] = OffsetStep(Offsets[d - 1], d)
    BY <1>2, OffsetsSteps
  <2>2. OffsetStep(Offsets[d - 1], d)
            = [Offsets[d - 1] EXCEPT ![edge] = Extent(c, Offsets[d - 1][edge])]
    BY <1>1, <1>4 DEF OffsetStep, PassedOn, Drawn
  <2>3. Offsets[d - 1] \in [Edges -> Nat]
    BY <1>6, <1>7
  <2> QED
    BY <1>8, <2>1, <2>2, <2>3
<1>10. Offsets[e - 1][edge] = Extent(c, 0)
  <2>1. \A k \in All : d < k /\ k <= e - 1 => k <= e /\ k # d /\ k # e
    BY <1>2
  <2>2. \A k \in All : d < k /\ k <= e - 1 /\ OnPage(k) => dashboards[k].anchor # edge
    BY <1>5, <2>1
  <2>3. Offsets[e - 1][edge] = Offsets[d][edge]
    BY <1>7, <2>2, OffsetKept
  <2> QED
    BY <1>9, <2>3
<1>11. \A i : RectIn(Offsets, <<d, i>>) = RectAlongEdge(c, 0, i)
  BY <1>4, <1>8 DEF RectIn
<1>12. RectIn(Offsets, ej) = RectAlongEdge(next, Extent(c, 0), ej[2])
  BY <1>2, <1>4, <1>10 DEF RectIn
<1>13. RectIn(Offsets, di) = RectAlongEdge(c, 0, di[2])
  BY <1>2, <1>11
<1>14. edge = "left" =>
        \A k \in 1 .. Len(c.sizes) :
            c.sizes[k] # NoPicture => RectAlongEdge(c, 0, k).x = ToPhys(c.offset_x)
  <2> SUFFICES ASSUME edge = "left", NEW k \in 1 .. Len(c.sizes), c.sizes[k] # NoPicture
               PROVE  RectAlongEdge(c, 0, k).x = ToPhys(c.offset_x)
    OBVIOUS
  <2>1. <<d, k>> \in Instruments
    BY <1>2, InstrumentFacts
  <2>2. <<d, k>> \in FrameDrawn
    BY <1>1, <2>1 DEF FrameDrawn
  <2>3. RectIn(Offsets, <<d, k>>).x = ToPhys(c.offset_x)
    BY <2>2
  <2> QED
    BY <1>11, <2>3
<1>15. c.anchor \in {"left", "right"} => c.offset_x <= next.offset_x
  OBVIOUS
<1>16. Apart(RectAlongEdge(c, 0, di[2]), RectAlongEdge(next, Extent(c, 0), ej[2]))
  <2>1. c.anchor \in Edges /\ next.anchor = c.anchor
    BY <1>4
  <2>2. c.anchor = "left" =>
            \A k \in 1 .. Len(c.sizes) :
                c.sizes[k] # NoPicture => RectAlongEdge(c, 0, k).x = ToPhys(c.offset_x)
    BY <1>14
  <2> HIDE DEF c, next, edge
  <2> QED
    BY <1>1, <1>2, <1>15, <2>1, <2>2, ApartOnEdge
<1> QED
  BY <1>12, <1>13, <1>16

-----------------------------------------------------------------------------
(***************************************************************************)
(* The invariant: since nothing changed the last frame drew what a frame   *)
(* would, without overlaps.                                                *)
(***************************************************************************)
LayoutInv ==
    /\ LayoutType
    /\ fresh => drawn = FrameDrawn
    /\ InstrumentsApart
    /\ TwoDashboardsApart

LEMMA TypeKept ==
    ASSUME LayoutType, LayoutNext  PROVE LayoutType'
<1>1. CASE DrawFrame
  BY <1>1 DEF DrawFrame, LayoutType
<1>2. CASE \E p \in PageNumbers : TurnTo(p)
  BY <1>2 DEF TurnTo, LayoutType
<1>3. ASSUME NEW size \in CanvasSizes, Resize(size)
      PROVE  LayoutType'
  <2>1. size \in Nat \X Nat
    BY DashboardsAssumption
  <2> QED
    BY <1>3, <2>1 DEF Resize, LayoutType
<1>4. ASSUME NEW position \in Ships \cup {NoShip}, MoveShip(position)
      PROVE  LayoutType'
  <2>1. position \in (Int \X Int) \cup {NoShip}
    BY DashboardsAssumption
  <2> QED
    BY <1>4, <2>1 DEF MoveShip, LayoutType
<1>5. CASE \E d \in All : Enable(d)
  BY <1>5 DEF Enable, LayoutType
<1> QED
  BY <1>1, <1>2, <1>3, <1>4, <1>5, Zenon DEF LayoutNext

(* A frame, with what it needs of the state it leaves.                     *)
LEMMA FrameKeeps ==
    ASSUME LayoutInv, DrawFrame  PROVE LayoutInv'
<1>1. LayoutType
  BY DEF LayoutInv
<1>2. /\ drawn' = FrameDrawn
      /\ places' = [di \in Instruments |->
                        IF di \in drawn' THEN RectIn(Offsets, di) ELSE places[di]]
      /\ fresh' = TRUE
      /\ UNCHANGED <<dashboards, enabled, scale, canvas, page, ship>>
  BY Zenon DEF DrawFrame, FrameDrawn
<1>3. \A di \in FrameDrawn : places'[di] = RectIn(Offsets, di)
  BY <1>2 DEF FrameDrawn
<1>4. LayoutType'
  BY <1>1, TypeKept DEF LayoutNext
<1>5. FrameDrawn' = FrameDrawn
  BY <1>2 DEF FrameDrawn, Instruments, All, Drawn, OnPage, ShipOnCanvas
<1>6. InstrumentsApart'
  <2>1. ASSUME NEW di \in FrameDrawn, NEW ej \in FrameDrawn, di[1] = ej[1], di # ej
        PROVE  Apart(places'[di], places'[ej])
    BY <1>1, <1>3, <2>1, FrameInstrumentsApart
  <2> QED
    BY <1>2, <2>1 DEF InstrumentsApart, Apart
<1>7. TwoDashboardsApart'
  <2>1. \A d : OnEdge(d)' = OnEdge(d)
    BY <1>2 DEF OnEdge, All, OnPage
  <2>2. \A n : ToPhys(n)' = ToPhys(n)
    BY <1>2 DEF ToPhys
  <2>3. ASSUME NEW di \in FrameDrawn, NEW ej \in FrameDrawn,
               dashboards[di[1]].anchor \in Edges, di[1] < ej[1],
               {f \in OnEdge(di[1]) : f <= ej[1]} = {di[1], ej[1]},
               dashboards[di[1]].anchor = "left" =>
                    \A ck \in FrameDrawn :
                        ck[1] = di[1] => places'[ck].x = ToPhys(dashboards[di[1]].offset_x),
               dashboards[di[1]].anchor \in {"left", "right"} =>
                    dashboards[di[1]].offset_x <= dashboards[ej[1]].offset_x
        PROVE  Apart(places'[di], places'[ej])
    <3>1. dashboards[di[1]].anchor = "left" =>
            \A ck \in FrameDrawn :
                ck[1] = di[1] =>
                    RectIn(Offsets, ck).x = ToPhys(dashboards[di[1]].offset_x)
      BY <1>3, <2>3
    <3>2. Apart(RectIn(Offsets, di), RectIn(Offsets, ej))
      BY <1>1, <2>3, <3>1, FrameTwoApart
    <3> QED
      BY <1>3, <3>2
  <2> QED
    BY <1>2, <2>1, <2>2, <2>3 DEF TwoDashboardsApart, OneColumn, Apart
<1> QED
  BY <1>2, <1>4, <1>5, <1>6, <1>7 DEF LayoutInv

LEMMA LayoutInvariant == LayoutSpec => []LayoutInv
<1>1. LayoutInit => LayoutInv
  <2> SUFFICES ASSUME LayoutInit  PROVE LayoutInv
    OBVIOUS
  <2>1. LayoutType
    BY DashboardsAssumption DEF LayoutInit, LayoutType
  <2>2. fresh = FALSE
    BY DEF LayoutInit
  <2> QED
    BY <2>1, <2>2 DEF LayoutInv, InstrumentsApart, TwoDashboardsApart
<1>2. LayoutInv /\ [LayoutNext]_layout_vars => LayoutInv'
  <2> SUFFICES ASSUME LayoutInv, [LayoutNext]_layout_vars  PROVE LayoutInv'
    OBVIOUS
  <2>1. CASE UNCHANGED layout_vars
    BY <2>1 DEF layout_vars, LayoutInv, LayoutType, FrameDrawn, InstrumentsApart,
                TwoDashboardsApart, Instruments, All, Drawn, OnPage, ShipOnCanvas,
                OnEdge, OneColumn, ToPhys, Apart
  <2>2. CASE DrawFrame
    BY <2>2, FrameKeeps
  <2>3. CASE LayoutNext /\ fresh' = FALSE
    <3>1. LayoutType'
      BY <2>3, TypeKept DEF LayoutInv
    <3> QED
      BY <2>3, <3>1 DEF LayoutInv, InstrumentsApart, TwoDashboardsApart
  <2> QED
    BY <2>1, <2>2, <2>3, Zenon DEF LayoutNext
<1> QED
  BY <1>1, <1>2, PTL DEF LayoutSpec

(* Instruments of one dashboard, as Dashboard::Draw wraps them along an    *)
(* edge or in the row at the own ship, never overlap, for every size of    *)
(* canvas and instruments, spacing, offset and scale.                      *)
THEOREM InstrumentsNeverOverlap == LayoutSpec => []InstrumentsApart
<1>1. LayoutInv => InstrumentsApart
  BY DEF LayoutInv
<1> QED
  BY <1>1, LayoutInvariant, PTL

(* Nor do those of the first two dashboards of an edge, as the second      *)
(* begins after what Dashboard::Draw made of the first one's offset; on    *)
(* the left and the right within the limits that the property names.       *)
THEOREM FirstTwoNeverOverlap == LayoutSpec => []TwoDashboardsApart
<1>1. LayoutInv => TwoDashboardsApart
  BY DEF LayoutInv
<1> QED
  BY <1>1, LayoutInvariant, PTL

(* A click finds the first instrument of the first dashboard there.        *)
LEMMA HitIsClickable ==
    ASSUME LayoutType, NEW point, Clickable(point) # {}
    PROVE  ProcessMouseEvent(point) \in Clickable(point)
<1> DEFINE C == Clickable(point)
           Indices == {di[1] : di \in C}
           Precedes(di, ej) == di[1] < ej[1] \/ (di[1] = ej[1] /\ di[2] <= ej[2])
<1>1. C \subseteq Instruments
  BY DEF Clickable
<1>2. \A di \in C : di[1] \in Nat /\ di[2] \in Nat
  <2>1. \A d \in All : Len(dashboards[d].sizes) \in Nat /\ d \in Nat
    BY InstrumentFacts, DashboardFacts
  <2> QED
    BY <1>1, <2>1, InstrumentFacts
<1> HIDE DEF C
<1>3. PICK d \in Indices : \A e \in Indices : d <= e
  <2>1. Indices \subseteq Nat /\ Indices # {}
    BY <1>2 DEF C
  <2> HIDE DEF Indices
  <2> QED
    BY <2>1, LeastExists
<1> DEFINE Within == {di[2] : di \in {ck \in C : ck[1] = d}}
<1>4. PICK i \in Within : \A j \in Within : i <= j
  <2>1. Within \subseteq Nat /\ Within # {}
    BY <1>2, <1>3
  <2> HIDE DEF Within
  <2> QED
    BY <2>1, LeastExists
<1>5. PICK di \in C : di[1] = d /\ di[2] = i
  BY <1>4
<1>6. ASSUME NEW ej \in C  PROVE Precedes(di, ej)
  <2>1. d <= ej[1] /\ d \in Nat /\ ej[1] \in Nat
    BY <1>2, <1>3, <1>5
  <2>2. ej[1] = d => i <= ej[2]
    BY <1>4
  <2>3. d < ej[1] \/ d = ej[1]
    BY <2>1
  <2> QED
    BY <1>5, <2>2, <2>3
<1>7. \E ck \in C : \A ej \in C : Precedes(ck, ej)
  BY <1>6
<1>8. ProcessMouseEvent(point) = CHOOSE ck \in C : \A ej \in C : Precedes(ck, ej)
  BY DEF ProcessMouseEvent, C
<1> HIDE DEF Precedes
<1>9. ProcessMouseEvent(point) \in C
  BY <1>7, <1>8
<1> QED
  BY <1>9 DEF C

(* Canvas::ProcessMouseEvent reaches an instrument only where the last     *)
(* frame drew it, or one that frame left where it was: at the own ship     *)
(* when that is off the canvas, or with a bitmap that is not valid.        *)
THEOREM ClickedWasDrawn == LayoutSpec => []ClickHitsPicture
<1>1. LayoutInv => ClickHitsPicture
  <2> SUFFICES ASSUME LayoutInv, fresh, NEW point \in Points
               PROVE  LET hit == ProcessMouseEvent(point)
                      IN  \/ hit = Nobody
                          \/ hit \in drawn
                          \/ dashboards[hit[1]].anchor = "own_ship" /\ ~ShipOnCanvas
                          \/ dashboards[hit[1]].sizes[hit[2]] = NoPicture
    BY Zenon DEF ClickHitsPicture
  <2> DEFINE hit == ProcessMouseEvent(point)
  <2>1. CASE Clickable(point) = {}
    BY <2>1 DEF ProcessMouseEvent
  <2>2. CASE Clickable(point) # {}
    <3>1. hit \in Clickable(point)
      BY <2>2, HitIsClickable DEF LayoutInv
    <3> HIDE DEF hit
    <3>2. hit \in Instruments /\ OnPage(hit[1])
      BY <3>1 DEF Clickable, Listens, OnPage
    <3>3. hit \in drawn \/ ~Drawn(hit[1]) \/ dashboards[hit[1]].sizes[hit[2]] = NoPicture
      BY <3>2 DEF LayoutInv, FrameDrawn
    <3>4. ~Drawn(hit[1]) => dashboards[hit[1]].anchor = "own_ship" /\ ~ShipOnCanvas
      BY <3>2, Zenon DEF Drawn
    <3>5. \/ hit \in drawn
          \/ dashboards[hit[1]].anchor = "own_ship" /\ ~ShipOnCanvas
          \/ dashboards[hit[1]].sizes[hit[2]] = NoPicture
      BY <3>3, <3>4, Zenon
    <3> QED
      BY <3>5, Zenon DEF hit
  <2> QED
    BY <2>1, <2>2, Zenon
<1> QED
  BY <1>1, LayoutInvariant, PTL
=============================================================================
