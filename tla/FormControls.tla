---------------------------- MODULE FormControls ----------------------------
(***************************************************************************)
(* Two controls of the settings form and the dialogs they open: the        *)
(* browser in which a key is picked from the Signal K tree, and the editor *)
(* of zones.  A dialog is modal: it works on copies of the tree and of the *)
(* text while deltas go on arriving, and OK writes its result back.        *)
(*                                                                         *)
(* Names and sources are numbered in alphabetical order, the order in      *)
(* which members of a JSON object are listed.  Name 0 is the empty token   *)
(* of a key that begins with a dot.  Limits of zones are in hundredths,    *)
(* and what cannot be read as a limit or as a state is Unsaid.             *)
(***************************************************************************)
EXTENDS Integers, Sequences, FiniteSets, SequencesExt

CONSTANTS
    DataPaths,  \* the paths that deltas bring values for, below the root
    Sources,    \* the devices that send them
    Folded,     \* of the sources whose names differ only in case, one
    TypedKeys,  \* keys that were configured or typed, not picked
    ConfiguredZones,  \* zones as configured, a lower and an upper limit and a state each
    Limits,     \* values a limit can be set to
    Top,        \* 99999, the end of the range of the controls
    MaxZones,   \* bound on the zones of an instrument
    Unsaid      \* no source in a key, nothing selected in a control

Modes == {"specific", "any", "lockfirst", "lockpersist"}
States == 0 .. 5  \* Zone::state, from nominal to emergency

ASSUME FormAssumption ==
    /\ DataPaths \subseteq Seq(Nat \ {0}) \ {<<>>}
    /\ Sources \subseteq Nat
    /\ Folded \in [Sources -> Sources]
    /\ TypedKeys \subseteq [path : Seq(Nat), mode : Modes, source : Sources \cup {Unsaid}]
    /\ \A k \in TypedKeys : k.mode # "specific" => k.source = Unsaid
    /\ Top \in Nat
    /\ Limits \subseteq -Top .. Top
    /\ ConfiguredZones \subseteq Seq([lower : Int \cup {Unsaid},
                                     upper : Int \cup {Unsaid},
                                     state : States \cup {Unsaid}])
    /\ \A text \in ConfiguredZones : \A i \in DOMAIN text :
        {text[i].lower, text[i].upper} \ {Unsaid} \subseteq -Top .. Top
    /\ Unsaid \notin Int /\ Unsaid \notin Seq(Nat)

VARIABLES
    tree,      \* m_sk_data: its nodes without the root, and the sources of each
    key,       \* SKKeyCtrlImpl::m_tSKKey, a path and what follows SRC:
    zone_text, \* SKZonesCtrlImpl::m_tZones
    dialog,    \* the dialog that is open
    browser,   \* the state of SKPathBrowserImpl
    editor     \* the state of ZonesConfigDialogImpl

form_vars == <<tree, key, zone_text, dialog, browser, editor>>

Key(path, mode, source) == [path |-> path, mode |-> mode, source |-> source]
Closed == [tree |-> [nodes |-> {}, sources |-> {}], selected |-> Unsaid,
           choices |-> {}, choice |-> Unsaid, mode |-> "specific"]
EmptyEditor ==
    [zones |-> <<>>, selection |-> 0, edited |-> 0, lower |-> 0, upper |-> 0,
     state |-> 0, lower_max |-> Top, upper_min |-> -Top]

(* ParseZonesFromString: a limit that is no number is zero, and a state     *)
(* that is not known is nominal.                                           *)
Said(token) == IF token = Unsaid THEN 0 ELSE token
Parsed(text) ==
    [i \in DOMAIN text |-> [lower |-> Said(text[i].lower),
                            upper |-> Said(text[i].upper),
                            state |-> Said(text[i].state)]]

ASSUME ZonesAssumption ==
    \A text \in ConfiguredZones : \A i \in DOMAIN text :
        Parsed(text)[i].lower <= Parsed(text)[i].upper

(* Zone::ToString writes one decimal.                                      *)
Rounded(limit) == 10 * ((limit + 5) \div 10)
ZonesWritten(zones) ==
    [i \in DOMAIN zones |-> [zones[i] EXCEPT !.lower = Rounded(@), !.upper = Rounded(@)]]

(* AdjustColorForZone: the state whose colour a value is drawn in, the     *)
(* highest of the zones that contain it.                                   *)
Least(S) == CHOOSE x \in S : \A y \in S : x <= y
Greatest(S) == CHOOSE x \in S : \A y \in S : y <= x
StateOf(zones, value) ==
    LET containing ==
            {i \in DOMAIN zones : zones[i].lower <= value /\ value <= zones[i].upper}
    IN  Greatest({0} \cup {zones[i].state : i \in containing})

(* The control is filled with what the instrument made of its settings.    *)
FormInit ==
    /\ tree = [nodes |-> {}, sources |-> {}]
    /\ key \in TypedKeys
    /\ \E text \in ConfiguredZones : zone_text = ZonesWritten(Parsed(text))
    /\ dialog = "none"
    /\ browser = Closed
    /\ editor = EmptyEditor

-----------------------------------------------------------------------------
(* The tree grows with each delta; nodes are never removed.  A value       *)
(* without a source, and a null, leave a node without sources.             *)
Delta(path, source) ==
    /\ tree' = [nodes |-> tree.nodes \cup {SubSeq(path, 1, n) : n \in 1 .. Len(path)},
                sources |-> IF source = Unsaid THEN tree.sources
                            ELSE tree.sources \cup {<<path, source>>}]
    /\ UNCHANGED <<key, zone_text, dialog, browser, editor>>

(* The text of the key can be edited as well.                              *)
TypeKey(k) ==
    /\ dialog = "none"
    /\ key' = k
    /\ UNCHANGED <<tree, zone_text, dialog, browser, editor>>

-----------------------------------------------------------------------------
(* The browser.                                                            *)

Root == <<>>
Children(nodes, path) == {n \in nodes : Len(n) = Len(path) + 1 /\ Front(n) = path}
IsLeaf(nodes, path) == path \in nodes /\ Children(nodes, path) = {}

(* The node that the tokens of a path lead to, as far as they are found.   *)
Reached(nodes, path) ==
    LET found == {n \in 1 .. Len(path) : SubSeq(path, 1, n) \in nodes}
    IN  IF found = {} THEN Root
        ELSE SubSeq(path, 1, Greatest(found))

(* Mutant: the sources of the node selected before stay in the list.       *)
ListedWithEarlier(at, path) ==
    at.choices \cup {s \in Sources : <<path, s>> \in at.tree.sources}
(* What m_choiceSources offers for a node.                                 *)
Listed(at, path) == {s \in Sources : <<path, s>> \in at.tree.sources}

(* m_treePathOnTreeSelChanged: the first source is selected.               *)
Selected(at, path) ==
    LET sources == Listed(at, path)
    IN  [at EXCEPT !.selected = path, !.choices = sources,
                   !.choice = IF sources = {} THEN Unsaid ELSE Least(sources)]

(* Mutant: the source of the key is not looked up in the list.             *)
PreselectedFirst(at, source) == at.choice
(* wxChoice::FindString finds the first entry that is the source but for   *)
(* the case of its letters.                                                *)
Preselected(at, source) ==
    LET found == {s \in at.choices : source # Unsaid /\ Folded[s] = Folded[source]}
    IN  IF found = {} THEN at.choice ELSE Least(found)

(* m_btnSelectOnButtonClick: SetSKTree takes a copy of the tree, and       *)
(* SetInitialPath selects the node of the key, its mode and its source.    *)
OpenBrowser ==
    LET copied == [Closed EXCEPT !.tree = tree]
        at == IF key.path = <<>> THEN copied
              ELSE Selected(copied, Reached(tree.nodes, key.path))
    IN  /\ dialog = "none"
        /\ dialog' = "path"
        /\ browser' = IF key.mode # "specific" THEN [at EXCEPT !.mode = key.mode]
                      ELSE [at EXCEPT !.choice = Preselected(at, key.source)]
        /\ UNCHANGED <<tree, key, zone_text, editor>>

SelectNode(path) ==
    /\ dialog = "path"
    /\ browser.selected # path
    /\ browser' = Selected(browser, path)
    /\ UNCHANGED <<tree, key, zone_text, dialog, editor>>

(* The list of sources is enabled in this mode only, and the mode is not   *)
(* once a node without sources, or the root, was selected.                 *)
ChooseSource(source) ==
    /\ dialog = "path"
    /\ browser.mode = "specific"
    /\ source \in browser.choices
    /\ browser' = [browser EXCEPT !.choice = source]
    /\ UNCHANGED <<tree, key, zone_text, dialog, editor>>
ChooseMode(mode) ==
    /\ dialog = "path"
    /\ mode = "specific" => browser.choices # {} \/ browser.selected = Unsaid
    /\ browser' = [browser EXCEPT !.mode = mode]
    /\ UNCHANGED <<tree, key, zone_text, dialog, editor>>

(* GetSKPath: below a node that is no leaf the first branches are taken,   *)
(* which puts a dot before the path when the root is selected.             *)
FirstLeaf(nodes, path) ==
    CHOOSE leaf \in nodes \cup {path} :
        /\ IsPrefix(path, leaf)
        /\ Children(nodes, leaf) = {}
        /\ \A n \in Len(path) .. Len(leaf) - 1 :
            leaf[n + 1] = Least({Last(c) : c \in Children(nodes, SubSeq(leaf, 1, n))})
PickedPath(at) ==
    IF at.selected = Unsaid THEN <<>>
    ELSE LET leaf == FirstLeaf(at.tree.nodes, at.selected)
         IN  IF at.selected = Root /\ leaf # Root THEN <<0>> \o leaf ELSE leaf
GetSKPath(at) ==
    Key(PickedPath(at), at.mode, IF at.mode = "specific" THEN at.choice ELSE Unsaid)

AcceptKey ==
    /\ dialog = "path"
    /\ key' = GetSKPath(browser)
    /\ dialog' = "none"
    /\ browser' = Closed
    /\ UNCHANGED <<tree, zone_text, editor>>

-----------------------------------------------------------------------------
(* The editor of zones.                                                    *)

(* FillZoneControls: the range of each limit ends at the other one.  A     *)
(* value that is out of the range of its control is not taken.             *)
Filled(at) ==
    IF at.edited = 0
    THEN [at EXCEPT !.lower = IF 0 <= at.lower_max THEN 0 ELSE @,
                    !.upper = IF at.upper_min <= 0 THEN 0 ELSE @, !.state = 0]
    ELSE LET zone == at.zones[at.edited]
         IN  [at EXCEPT !.lower = zone.lower, !.upper = zone.upper,
                        !.lower_max = zone.upper, !.upper_min = zone.lower,
                        !.state = zone.state]
Edit(at, i) == [at EXCEPT !.selection = i, !.edited = i]

OpenZones ==
    LET parsed == [EmptyEditor EXCEPT !.zones = Parsed(zone_text)]
    IN  /\ dialog = "none"
        /\ dialog' = "zones"
        /\ editor' = Filled(IF zone_text = <<>> THEN parsed ELSE Edit(parsed, 1))
        /\ UNCHANGED <<tree, key, zone_text, browser>>

EditZones(after) ==
    /\ dialog = "zones"
    /\ editor' = after
    /\ UNCHANGED <<tree, key, zone_text, dialog, browser>>

SelectZone(i) == EditZones(Filled(Edit(editor, i)))

(* A new zone reaches from zero to zero and is normal.                     *)
AddZone ==
    /\ Len(editor.zones) < MaxZones
    /\ LET zones == Append(editor.zones, [lower |-> 0, upper |-> 0, state |-> 1])
       IN  EditZones(Filled(Edit([editor EXCEPT !.zones = zones], Len(zones))))

(* The zone that moved up is selected, or the last.                        *)
SelectionAfterRemoval(sel, count) == IF sel <= count THEN sel ELSE count
RemoveZone ==
    /\ editor.selection # 0
    /\ LET zones == RemoveAt(editor.zones, editor.selection)
           sel == SelectionAfterRemoval(editor.selection, Len(zones))
       IN  EditZones(Filled(Edit([editor EXCEPT !.zones = zones], sel)))

(* The handlers write the value of their control to the edited zone, and   *)
(* move the end of the other control's range.                              *)
SetLower(value) ==
    /\ editor.edited # 0 /\ value <= editor.lower_max
    /\ EditZones([editor EXCEPT !.lower = value, !.upper_min = value,
                                !.zones[editor.edited].lower = value])

(* Mutant: the range of the lower limit is left as it was.                 *)
RangeKept(at, value) == at.lower_max
RangeAfterUpper(at, value) == value
SetUpper(value) ==
    /\ editor.edited # 0 /\ editor.upper_min <= value
    /\ EditZones([editor EXCEPT !.upper = value,
                                !.lower_max = RangeAfterUpper(editor, value),
                                !.zones[editor.edited].upper = value])
SetState(state) ==
    /\ editor.edited # 0
    /\ EditZones([editor EXCEPT !.state = state, !.zones[editor.edited].state = state])

AcceptZones ==
    /\ dialog = "zones"
    /\ zone_text' = ZonesWritten(editor.zones)
    /\ dialog' = "none"
    /\ editor' = EmptyEditor
    /\ UNCHANGED <<tree, key, browser>>

Cancel ==
    /\ dialog # "none"
    /\ dialog' = "none"
    /\ browser' = Closed
    /\ editor' = EmptyEditor
    /\ UNCHANGED <<tree, key, zone_text>>

-----------------------------------------------------------------------------
FormNext ==
    \/ \E path \in DataPaths, source \in Sources \cup {Unsaid} : Delta(path, source)
    \/ \E k \in TypedKeys : TypeKey(k)
    \/ OpenBrowser
    \/ \E path \in browser.tree.nodes \cup {Root} : SelectNode(path)
    \/ \E source \in Sources : ChooseSource(source)
    \/ \E mode \in Modes : ChooseMode(mode)
    \/ AcceptKey
    \/ OpenZones
    \/ \E i \in DOMAIN editor.zones : SelectZone(i)
    \/ AddZone
    \/ RemoveZone
    \/ \E value \in Limits : SetLower(value) \/ SetUpper(value)
    \/ \E state \in States : SetState(state)
    \/ AcceptZones
    \/ Cancel

FormSpec == FormInit /\ [][FormNext]_form_vars

-----------------------------------------------------------------------------
(* Properties.                                                             *)

(* A key that OK writes is in the tree, and the source it names has sent   *)
(* values for it, whatever was selected on the way.  Not for the root,     *)
(* whose keys begin with a dot, nor for a node that has both sources and   *)
(* children: it cannot be picked, and its source goes to a child of it.    *)
PickedKeyExists ==
    [][/\ AcceptKey
       /\ browser.selected \notin {Unsaid, Root}
       /\ IsLeaf(browser.tree.nodes, browser.selected) \/ browser.choices = {}
       => /\ key'.path \in tree.nodes
          /\ key'.source = Unsaid \/ <<key'.path, key'.source>> \in tree.sources]_form_vars

(* OK in a browser just opened keeps the key, as long as the key has what  *)
(* the dialog can show: a leaf of the tree with a mode or with a source    *)
(* that has sent values.  A key without a source gets the first one, a     *)
(* path or a source that is not there yet is replaced by another, and so   *)
(* is a source that follows one whose name differs only in case.           *)
KeyKept ==
    [][/\ OpenBrowser
       /\ IsLeaf(tree.nodes, key.path)
       /\ \/ key.mode # "specific"
          \/ /\ <<key.path, key.source>> \in tree.sources
             /\ \A s \in Sources :
                    <<key.path, s>> \in tree.sources /\ Folded[s] = Folded[key.source]
                    => key.source <= s
       => GetSKPath(browser') = key]_form_vars

(* The controls show the zone that is selected in the list, and whatever   *)
(* edits, of one zone or of several, preceded, every zone there is keeps   *)
(* its effect: a value at one of its limits has its state or a worse one,  *)
(* in the editor as in the text the instrument reads after OK.             *)
Effective(zones) ==
    \A i \in DOMAIN zones : \A value \in {zones[i].lower, zones[i].upper} :
        StateOf(zones, value) >= zones[i].state
ZonesTakeEffect ==
    /\ dialog = "zones" => Effective(editor.zones)
    /\ Effective(Parsed(zone_text))
    /\ editor.edited = editor.selection
    /\ editor.edited # 0 =>
        editor.zones[editor.edited] =
            [lower |-> editor.lower, upper |-> editor.upper, state |-> editor.state]
    /\ editor.edited = 0 => editor.zones = <<>>
=============================================================================
