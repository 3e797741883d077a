---------------------------- MODULE SignalKStore ----------------------------
(***************************************************************************)
(* The Signal K data tree of DashboardSK and the subscriptions of the      *)
(* instruments to it: ingestion of delta messages, the own vessel          *)
(* identifier, notification, and the life cycle of the instruments whose   *)
(* addresses the subscription map holds.                                   *)
(*                                                                         *)
(* Everything runs in the GUI thread of OpenCPN, so one handler is one     *)
(* step.  A delta that carries several values is as many consecutive       *)
(* SendSKDelta steps with the same context: the code handles its values    *)
(* one after the other and nothing but the context survives from one to    *)
(* the next.                                                               *)
(***************************************************************************)
EXTENDS Naturals, FiniteSets

CONSTANTS
    Ids,          \* vessel identifiers, as deltas and preferences spell them
    NoId,         \* the empty identifier; also "the message has no context"
    SelfWord,     \* the literal token "self" of "vessels.self"
    NormalForm,   \* what NormalizeID makes of each non-empty identifier
    Paths,        \* paths below a vessel, such as navigation.speedOverGround
    Sources,      \* data sources, numbered in their alphabetical order
    NoSource,     \* a value, or a key, that names no source
    AnySource,    \* the magic designation "SRC:any"
    Members,      \* member names of complex values (latitude, count, ...)
    Scalar,       \* the "value" leaf of a scalar
    Instruments,  \* addresses an instrument object can live at
    Dashboards,   \* addresses a dashboard object can live at
    NoDashboard,  \* the address holds no instrument
    Messages,     \* the delta messages that arrive
    Configs,      \* configurations that can be read back
    Keys,         \* the keys the user configures
    NoKey,        \* the empty key
    Absent        \* a configuration without an own vessel identifier

Fields == Members \cup {Scalar}

(***************************************************************************)
(* A context is the first two levels of a path.  "nested" says that one    *)
(* more level named "self" follows the identifier.                         *)
(***************************************************************************)
Contexts == [id : Ids \cup {NoId}, nested : BOOLEAN]
Nodes == [context : Contexts, path : Paths, source : Sources \cup {NoSource}]

(***************************************************************************)
(* A key names a node, optionally a source and, as its last token, a       *)
(* member of a complex value.  A topic is the part of a key in front of    *)
(* the source: what the subscription map is indexed by.                    *)
(***************************************************************************)
KeyContexts == Contexts \cup [id : {SelfWord}, nested : {FALSE}]
Topics == [context : KeyContexts, path : Paths, member : Fields]
KeyForms == [context : KeyContexts, path : Paths, member : Fields,
             source : Sources \cup {NoSource, AnySource}]

(***************************************************************************)
(* An instrument is of one of three classes: a number instrument converts  *)
(* whatever it reads to a number, the other instruments with one key check *)
(* the type first, and the combined ones follow several keys.              *)
(***************************************************************************)
Classes == {"number", "guarded", "combined"}
Slots == {1, 2}
NoKeys == [s \in Slots |-> NoKey]

(***************************************************************************)
(* A delta message.  "fields" lists the leaves of the value: {Scalar}, the *)
(* members of a complex value, or nothing for a JSON null.  A message that *)
(* carries only metadata stores nothing instruments read, and is a null.   *)
(***************************************************************************)
Contents == {{}, {Scalar}} \cup (SUBSET Members)
Deltas == [self : Ids \cup {NoId}, context : Ids \cup {NoId, SelfWord},
           path : Paths, source : Sources \cup {NoSource}, fields : Contents]

ASSUME IdsAssumption ==
    /\ NoId \notin Ids
    /\ SelfWord \notin Ids \cup {NoId}
    /\ Absent \notin Ids \cup {NoId}
    /\ NormalForm \in [Ids -> Ids]
    /\ \A id \in Ids : NormalForm[NormalForm[id]] = NormalForm[id]

ASSUME NamesAssumption ==
    /\ Sources \subseteq Nat
    /\ NoSource \notin Sources \cup {AnySource}
    /\ AnySource \notin Sources
    /\ Scalar \notin Members
    /\ Keys \subseteq KeyForms
    /\ NoKey \notin KeyForms \cup Topics
    /\ NoDashboard \notin Dashboards

(***************************************************************************)
(* A configuration file: the own vessel identifier and, for each address   *)
(* the objects it describes will be created at, the dashboard, the class   *)
(* and the keys of the instrument.                                         *)
(***************************************************************************)
ConfigForms ==
    [self : Ids \cup {NoId, Absent}, dashboards : SUBSET Dashboards,
     owner : [Instruments -> Dashboards \cup {NoDashboard}],
     class : [Instruments -> Classes],
     sk_key : [Instruments -> [Slots -> Keys \cup {NoKey}]]]

ASSUME InputsAssumption ==
    /\ Messages \subseteq Deltas
    /\ Configs \subseteq ConfigForms
    /\ \A c \in Configs : \A i \in Instruments :
         /\ c.owner[i] \in c.dashboards \cup {NoDashboard}
         /\ c.owner[i] = NoDashboard => c.sk_key[i] = NoKeys
         /\ c.class[i] # "combined" => c.sk_key[i][2] = NoKey

VARIABLES
    self,           \* m_self
    self_ptr,       \* m_self_ptr: the identifier it points below, or null
    sk_data,        \* m_sk_data: the leaves stored at each node
    subscriptions,  \* m_path_subscriptions, as a relation
    dashboards,     \* the dashboards that exist
    owner,          \* the dashboard each live instrument belongs to
    class,          \* the class of each live instrument
    sk_key,         \* the keys of each live instrument
    new_data,       \* the instruments whose m_new_data flag is set
    fault           \* undefined behaviour reached, if any

vars == <<self, self_ptr, sk_data, subscriptions, dashboards, owner, class,
          sk_key, new_data, fault>>
storeVars == <<self, self_ptr, sk_data>>
objectVars == <<dashboards, owner, class, sk_key>>

NullPtr == SelfWord    \* not an identifier: m_self_ptr is still nullptr

Live == {i \in Instruments : owner[i] # NoDashboard}

TypeOK ==
    /\ self \in Ids \cup {NoId}
    /\ self_ptr \in Ids \cup {NoId, NullPtr}
    /\ sk_data \in [Nodes -> SUBSET Fields]
    /\ subscriptions \in SUBSET ((Topics \cup {NoKey}) \X Instruments)
    /\ dashboards \in SUBSET Dashboards
    /\ owner \in [Instruments -> Dashboards \cup {NoDashboard}]
    /\ class \in [Instruments -> Classes]
    /\ sk_key \in [Instruments -> [Slots -> Keys \cup {NoKey}]]
    /\ new_data \in SUBSET Instruments
    /\ fault \in {"none", "null_self", "not_a_number"}

Init ==
    /\ self = NoId
    /\ self_ptr = NullPtr
    /\ sk_data = [n \in Nodes |-> {}]
    /\ subscriptions = {}
    /\ dashboards = {}
    /\ owner = [i \in Instruments |-> NoDashboard]
    /\ class = [i \in Instruments |-> "guarded"]
    /\ sk_key = [i \in Instruments |-> NoKeys]
    /\ new_data = {}
    /\ fault = "none"

-----------------------------------------------------------------------------
(* The own vessel identifier.                                              *)

(* Mutant: an empty identifier is read as the token "self".                *)
NormalizeIDToSelfWord(id) == IF id = NoId THEN SelfWord ELSE NormalForm[id]
NormalizeID(id) == IF id = NoId THEN self ELSE NormalForm[id]

SetSelf(id) ==
    /\ fault = "none"
    /\ self' = NormalizeID(id)
    /\ self_ptr' = NormalizeID(id)
    /\ UNCHANGED <<sk_data, subscriptions, objectVars, new_data, fault>>

-----------------------------------------------------------------------------
(* Delta messages.                                                         *)

(* The identifier a message brings is taken only while none is known.      *)
AcceptsSelf(m) == self = NoId /\ m.self # NoId
SelfAfter(m) == IF AcceptsSelf(m) THEN NormalForm[m.self] ELSE self
(* Mutant: the identifier is taken over, the cached pointer is not.        *)
SelfPtrKept(m) == self_ptr
SelfPtrAfter(m) == IF AcceptsSelf(m) THEN NormalForm[m.self] ELSE self_ptr

AddressesSelf(m) == m.context \in {NoId, SelfWord}

(* Where the values go.  The identifier of another vessel is a token of    *)
(* the tree as it stands.  For an explicit "vessels.self" the tokenizer    *)
(* loop starts below m_self_ptr, but it counts skip_tokens down while it   *)
(* compares, so the second token, "self", is descended into.               *)
StoreContext(m) ==
    [id |-> IF AddressesSelf(m) THEN SelfPtrAfter(m) ELSE m.context,
     nested |-> m.context = SelfWord]

(* Mutant: "vessels.self" is not replaced by the identifier.               *)
NotifyContextAsSpelled(m) ==
    [id |-> IF AddressesSelf(m) THEN SelfWord ELSE NormalForm[m.context],
     nested |-> FALSE]

(* The key the subscribers are looked up under: the second token of the    *)
(* context of another vessel is normalized here, unlike in the tree.       *)
NotifyContext(m) ==
    [id |-> IF AddressesSelf(m) THEN SelfAfter(m) ELSE NormalForm[m.context],
     nested |-> m.context = SelfWord]

NotifyTopic(m) ==
    [context |-> NotifyContext(m), path |-> m.path, member |-> Scalar]
StoreNode(m) ==
    [context |-> StoreContext(m), path |-> m.path, source |-> m.source]

(* A node of a source is emptied and filled again; a value without source  *)
(* is written over what the base node holds.                               *)
StoredFields(m) ==
    IF m.source = NoSource THEN sk_data[StoreNode(m)] \cup m.fields
    ELSE m.fields

(* Mutant: the path is left out of the lookup.                             *)
SubscribersOfVessel(topic) ==
    {i \in Instruments : \E e \in subscriptions :
        e[1] # NoKey /\ e[1].context = topic.context /\ e[2] = i}
Subscribers(topic) == {i \in Instruments : <<topic, i>> \in subscriptions}

(* The message is about the own vessel and m_self_ptr was never set.       *)
DereferencesNull(m) == AddressesSelf(m) /\ SelfPtrAfter(m) = NullPtr

SendSKDelta(m) ==
    /\ fault = "none"
    /\ self' = SelfAfter(m)
    /\ self_ptr' = SelfPtrAfter(m)
    /\ \/ /\ DereferencesNull(m)
          /\ fault' = "null_self"
          /\ UNCHANGED <<sk_data, new_data>>
       \/ /\ ~DereferencesNull(m)
          /\ m.fields = {}
          /\ UNCHANGED <<sk_data, new_data, fault>>
       \/ /\ ~DereferencesNull(m)
          /\ m.fields # {}
          /\ sk_data' = [sk_data EXCEPT ![StoreNode(m)] = StoredFields(m)]
          /\ new_data' = new_data \cup Subscribers(NotifyTopic(m))
          /\ UNCHANGED fault
    /\ UNCHANGED <<subscriptions, objectVars>>

-----------------------------------------------------------------------------
(* Reading the tree: what GetSKData returns for a key.                     *)

Held(key, source) ==
    IF key.context \in Contexts
    THEN sk_data[[context |-> key.context, path |-> key.path,
                  source |-> source]]
    ELSE {}

Form(fields) ==
    IF Scalar \in fields THEN "scalar"
    ELSE IF fields = {} THEN "missing" ELSE "object"

SourcesHeld(key) == {s \in Sources : Held(key, s) # {}}
FirstSource(key) ==
    CHOOSE s \in SourcesHeld(key) : \A t \in SourcesHeld(key) : s <= t

(* Without a source the base node is returned, an object as soon as        *)
(* anything is below it.  Everything behind "SRC:" is the designation, its *)
(* dots made dashes, so no member below a source can be addressed.         *)
GetSKData(key) ==
    CASE key = NoKey -> "object"
      [] key # NoKey /\ key.source = NoSource /\ key.member = Scalar ->
            IF SourcesHeld(key) # {} /\ Scalar \notin Held(key, NoSource)
            THEN "object" ELSE Form(Held(key, NoSource))
      [] key # NoKey /\ key.source = NoSource /\ key.member # Scalar ->
            IF key.member \in Held(key, NoSource) THEN "scalar" ELSE "missing"
      [] key # NoKey /\ key.source = AnySource /\ key.member = Scalar ->
            IF Scalar \in Held(key, NoSource) THEN "scalar"
            ELSE IF SourcesHeld(key) = {} THEN "missing"
            ELSE Form(Held(key, FirstSource(key)))
      [] key # NoKey /\ key.source \in Sources /\ key.member = Scalar ->
            Form(Held(key, key.source))
      [] OTHER -> "missing"

(* An instrument reads its keys when it finds the flag set, in ProcessData *)
(* or in Render.  The number instrument converts what is not a double with *)
(* asInt64(), which throws on an object; nothing above it catches.         *)
Poll(i) ==
    /\ fault = "none"
    /\ i \in Live \cap new_data
    /\ new_data' = new_data \ {i}
    /\ fault' = IF class[i] = "number" /\ GetSKData(sk_key[i][1]) = "object"
                THEN "not_a_number" ELSE "none"
    /\ UNCHANGED <<storeVars, subscriptions, objectVars>>

-----------------------------------------------------------------------------
(* Instruments and dashboards come and go.                                 *)

(* The topic of a key: what is left of it in front of "SRC:".              *)
Topic(key) ==
    IF key = NoKey THEN NoKey
    ELSE [context |-> key.context, path |-> key.path,
          member |-> IF key.source = NoSource THEN key.member ELSE Scalar]

Followed(i) == {Topic(sk_key[i][s]) : s \in {t \in Slots : sk_key[i][t] # NoKey}}

Unsubscribed(I) == {e \in subscriptions : e[2] \notin I}
(* Mutant: only the primary key is subscribed to.                          *)
PrimaryEntry(i, keys) ==
    {<<Topic(keys[s]), i>> : s \in {t \in Slots : t = 1 /\ keys[t] # NoKey}}
Entries(i, keys) ==
    {<<Topic(keys[s]), i>> : s \in {t \in Slots : keys[t] # NoKey}}

(* A changed key: the instruments with one key subscribe to it even when   *)
(* it is empty, the combined ones to all their non-empty keys.             *)
SetKey(i, s, key) ==
    /\ fault = "none"
    /\ i \in Live
    /\ s = 1 \/ class[i] = "combined"
    /\ key # sk_key[i][s]
    /\ sk_key' = [sk_key EXCEPT ![i][s] = key]
    /\ \/ /\ class[i] = "combined"
          /\ subscriptions' = Unsubscribed({i}) \cup Entries(i, sk_key'[i])
       \/ /\ class[i] # "combined"
          /\ subscriptions' = Unsubscribed({i}) \cup {<<Topic(key), i>>}
    /\ UNCHANGED <<storeVars, dashboards, owner, class, new_data, fault>>

AddDashboard(d) ==
    /\ fault = "none"
    /\ d \notin dashboards
    /\ dashboards' = dashboards \cup {d}
    /\ UNCHANGED <<storeVars, subscriptions, owner, class, sk_key, new_data,
                   fault>>

AddInstrument(i, d, c) ==
    /\ fault = "none"
    /\ d \in dashboards
    /\ i \notin Live
    /\ owner' = [owner EXCEPT ![i] = d]
    /\ class' = [class EXCEPT ![i] = c]
    /\ UNCHANGED <<storeVars, subscriptions, dashboards, sk_key, new_data,
                   fault>>

(* Mutant: it does not.                                                    *)
DestroySubscribed(I) ==
    /\ subscriptions' = subscriptions
    /\ owner' = [i \in Instruments |-> IF i \in I THEN NoDashboard ELSE owner[i]]
    /\ class' = [i \in Instruments |-> IF i \in I THEN "guarded" ELSE class[i]]
    /\ sk_key' = [i \in Instruments |-> IF i \in I THEN NoKeys ELSE sk_key[i]]
    /\ new_data' = new_data \ I

(* The destructor of an instrument unsubscribes it from every path.        *)
Destroy(I) ==
    /\ subscriptions' = Unsubscribed(I)
    /\ owner' = [i \in Instruments |-> IF i \in I THEN NoDashboard ELSE owner[i]]
    /\ class' = [i \in Instruments |-> IF i \in I THEN "guarded" ELSE class[i]]
    /\ sk_key' = [i \in Instruments |-> IF i \in I THEN NoKeys ELSE sk_key[i]]
    /\ new_data' = new_data \ I

DeleteInstrument(i) ==
    /\ fault = "none"
    /\ i \in Live
    /\ Destroy({i})
    /\ UNCHANGED <<storeVars, dashboards, fault>>

DeleteDashboard(d) ==
    /\ fault = "none"
    /\ d \in dashboards
    /\ dashboards' = dashboards \ {d}
    /\ Destroy({i \in Instruments : owner[i] = d})
    /\ UNCHANGED <<storeVars, fault>>

(* All dashboards are deleted, then the configured ones are created.  The  *)
(* data tree survives.                                                     *)
ReadConfig(c) ==
    /\ fault = "none"
    /\ \/ /\ c.self = Absent
          /\ UNCHANGED <<self, self_ptr>>
       \/ /\ c.self # Absent
          /\ self' = NormalizeID(c.self)
          /\ self_ptr' = NormalizeID(c.self)
    /\ dashboards' = c.dashboards
    /\ owner' = c.owner
    /\ class' = c.class
    /\ sk_key' = c.sk_key
    /\ subscriptions' =
          Unsubscribed(Live) \cup UNION {Entries(i, c.sk_key[i]) : i \in Instruments}
    /\ new_data' = new_data \ Live
    /\ UNCHANGED <<sk_data, fault>>

-----------------------------------------------------------------------------
Next ==
    \/ \E m \in Messages : SendSKDelta(m)
    \/ \E id \in Ids \cup {NoId} : SetSelf(id)
    \/ \E i \in Instruments :
          \/ Poll(i)
          \/ DeleteInstrument(i)
          \/ \E s \in Slots, key \in Keys \cup {NoKey} : SetKey(i, s, key)
          \/ \E d \in Dashboards, c \in Classes : AddInstrument(i, d, c)
    \/ \E d \in Dashboards : AddDashboard(d) \/ DeleteDashboard(d)
    \/ \E c \in Configs : ReadConfig(c)

Spec == Init /\ [][Next]_vars

-----------------------------------------------------------------------------
(* Properties.                                                             *)

(* The subscription map holds raw instrument addresses that every          *)
(* notification calls through: none of them is the address of an           *)
(* instrument that was deleted, whatever deleted it.                       *)
SubscribersAlive == \A e \in subscriptions : e[2] \in Live

(* An instrument is subscribed to the topics of its current keys and to    *)
(* nothing else: not to a key it had before, nor to one of the previous    *)
(* object at its address, and no key of a combined instrument is lost when *)
(* another one of its keys is set.                                         *)
SubscriptionsMatchKeys ==
    \A i \in Live : {t \in Topics : <<t, i>> \in subscriptions} = Followed(i)

(* The cached pointer to the own vessel is null only while the own vessel  *)
(* was never named, and otherwise points where the identifier says, in the *)
(* normal form the keys use.                                               *)
SelfPointerCurrent ==
    /\ self_ptr \in {NullPtr, self}
    /\ self # NoId => /\ self_ptr = self
                      /\ NormalForm[self] = self
    /\ fault = "null_self" => self = NoId

NodeTopic(n) == [context |-> n.context, path |-> n.path, member |-> Scalar]
Normal(id) == id = NoId \/ NormalForm[id] = id

(* "Only instruments interested in changed data are notified and poll them *)
(* on next update": an instrument that follows a node is flagged by every  *)
(* step that changes what the node holds, for the vessels whose            *)
(* identifiers are in the normal form the configuration uses.              *)
NotifiedOf(n) ==
    sk_data'[n] # sk_data[n] =>
        \A i \in Live : NodeTopic(n) \in Followed(i) => i \in new_data'
NormalDataNotifies ==
    [][\A n \in Nodes : Normal(n.context.id) => NotifiedOf(n)]_vars

(* And no other instrument is: one that gets flagged follows the node the  *)
(* message is stored at, or one of its sources.                            *)
OnlyInterestedNotified ==
    [][\A m \in Messages : \A i \in new_data' \ new_data :
          SendSKDelta(m) /\ (AddressesSelf(m) \/ Normal(m.context)) =>
              i \in Live /\ NodeTopic(StoreNode(m)) \in Followed(i)]_vars

(* The subscription map, the addresses and the objects implement plain     *)
(* publish and subscribe, with the topics of its keys as the subjects an   *)
(* instrument is interested in and the set flags as the pending marks.     *)
Board == INSTANCE PubSub WITH
    Readers <- Instruments, Subjects <- Topics,
    interest <- [i \in Instruments |-> Followed(i)], pending <- new_data
ImplementsPubSub == Board!Spec

(* Claims of the documentation and of comments that the code refutes.      *)

(* "vessels.self" is an alias of the own vessel: no data goes to a vessel  *)
(* or a subtree named "self".                                              *)
NothingBelowSelfWord == \A n \in Nodes : sk_data[n] # {} => ~n.context.nested

(* Reading a value that is no scalar never throws.                         *)
NumbersAreScalars == fault # "not_a_number"
=============================================================================
