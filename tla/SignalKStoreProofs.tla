------------------------- MODULE SignalKStoreProofs -------------------------
(***************************************************************************)
(* Theorems about SignalKStore, for every set of vessels, paths, sources,  *)
(* messages, instruments and configurations.                               *)
(***************************************************************************)
EXTENDS SignalKStore, TLAPS

(***************************************************************************)
(* The facts about the objects that make SubscriptionsMatchKeys inductive: *)
(* an address without an instrument holds no keys, and only combined       *)
(* instruments have a second one.                                          *)
(***************************************************************************)
DeadAreBare == \A i \in Instruments \ Live : sk_key[i] = NoKeys
OneKeyUnlessCombined ==
    \A i \in Instruments : class[i] # "combined" => sk_key[i][2] = NoKey

SubscriptionInv ==
    /\ SubscribersAlive
    /\ DeadAreBare
    /\ OneKeyUnlessCombined
    /\ SubscriptionsMatchKeys

IInv == TypeOK /\ SelfPointerCurrent /\ SubscriptionInv

-----------------------------------------------------------------------------
(* Lemmas about the operators.                                             *)

LEMMA TopicType ==
    ASSUME NEW key \in Keys
    PROVE  Topic(key) \in Topics
BY NamesAssumption DEF Topic, Topics, KeyForms, Fields

LEMMA NoTopic == Topic(NoKey) = NoKey /\ NoKey \notin Topics
BY NamesAssumption DEF Topic

LEMMA EntriesType ==
    ASSUME NEW i \in Instruments, NEW keys \in [Slots -> Keys \cup {NoKey}]
    PROVE  Entries(i, keys) \subseteq Topics \X Instruments
BY TopicType DEF Entries

(* An own vessel identifier of a message is stored in normal form.         *)
LEMMA SelfAfterType ==
    ASSUME NEW m \in Deltas, TypeOK
    PROVE  /\ SelfAfter(m) \in Ids \cup {NoId}
           /\ SelfPtrAfter(m) \in Ids \cup {NoId, NullPtr}
BY IdsAssumption DEF TypeOK, SelfAfter, SelfPtrAfter, AcceptsSelf, Deltas

LEMMA NormalizeIDType ==
    ASSUME NEW id \in Ids \cup {NoId}, TypeOK
    PROVE  NormalizeID(id) \in Ids \cup {NoId}
BY IdsAssumption DEF TypeOK, NormalizeID

LEMMA StoreNodeType ==
    ASSUME NEW m \in Deltas, TypeOK, ~DereferencesNull(m)
    PROVE  StoreNode(m) \in Nodes
<1>1. StoreContext(m) \in Contexts
  BY SelfAfterType
     DEF StoreContext, Contexts, DereferencesNull, AddressesSelf, Deltas
<1> QED
  BY <1>1 DEF StoreNode, Nodes, Deltas

LEMMA StoredFieldsType ==
    ASSUME NEW m \in Deltas, TypeOK, ~DereferencesNull(m)
    PROVE  StoredFields(m) \in SUBSET Fields
<1>1. m.fields \subseteq Fields
  BY DEF Deltas, Contents, Fields
<1>2. sk_data[StoreNode(m)] \subseteq Fields
  BY StoreNodeType DEF TypeOK
<1> QED
  BY <1>1, <1>2 DEF StoredFields

-----------------------------------------------------------------------------
(* The types of the variables.                                             *)

LEMMA TypeStep == TypeOK /\ [Next]_vars => TypeOK'
<1> SUFFICES ASSUME TypeOK, [Next]_vars PROVE TypeOK'
  OBVIOUS
<1> USE DEF storeVars, objectVars
<1>1. ASSUME NEW m \in Messages, SendSKDelta(m) PROVE TypeOK'
  <2>1. m \in Deltas
    BY InputsAssumption
  <2>2. self' \in Ids \cup {NoId} /\ self_ptr' \in Ids \cup {NoId, NullPtr}
    BY <1>1, <2>1, SelfAfterType DEF SendSKDelta
  <2>3. sk_data' \in [Nodes -> SUBSET Fields]
    BY <1>1, <2>1, StoredFieldsType DEF SendSKDelta, TypeOK
  <2>4. new_data' \in SUBSET Instruments
    BY <1>1 DEF SendSKDelta, TypeOK, Subscribers
  <2>5. fault' \in {"none", "null_self", "not_a_number"}
    BY <1>1 DEF SendSKDelta, TypeOK
  <2> QED
    BY <1>1, <2>2, <2>3, <2>4, <2>5 DEF SendSKDelta, TypeOK
<1>2. ASSUME NEW id \in Ids \cup {NoId}, SetSelf(id) PROVE TypeOK'
  BY <1>2, NormalizeIDType DEF SetSelf, TypeOK
<1>3. ASSUME NEW i \in Instruments, Poll(i) PROVE TypeOK'
  BY <1>3 DEF Poll, TypeOK
<1>4. ASSUME NEW i \in Instruments, DeleteInstrument(i) PROVE TypeOK'
  BY <1>4 DEF DeleteInstrument, Destroy, Unsubscribed, NoKeys, Classes, TypeOK
<1>5. ASSUME NEW i \in Instruments, NEW s \in Slots,
             NEW key \in Keys \cup {NoKey}, SetKey(i, s, key)
      PROVE  TypeOK'
  <2>1. sk_key' \in [Instruments -> [Slots -> Keys \cup {NoKey}]]
    BY <1>5 DEF SetKey, TypeOK
  <2>2. Topic(key) \in Topics \cup {NoKey}
    BY TopicType, NoTopic
  <2>3. Entries(i, sk_key'[i]) \subseteq Topics \X Instruments
    BY <2>1, EntriesType
  <2>4. Unsubscribed({i}) \subseteq (Topics \cup {NoKey}) \X Instruments
    BY DEF TypeOK, Unsubscribed
  <2>5. <<Topic(key), i>> \in (Topics \cup {NoKey}) \X Instruments
    BY <2>2
  <2>6. subscriptions' \in SUBSET ((Topics \cup {NoKey}) \X Instruments)
    <3>1. CASE class[i] = "combined"
      BY <1>5, <2>3, <2>4, <3>1 DEF SetKey
    <3>2. CASE class[i] # "combined"
      BY <1>5, <2>4, <2>5, <3>2 DEF SetKey
    <3> QED
      BY <3>1, <3>2
  <2> QED
    BY <1>5, <2>1, <2>6 DEF SetKey, TypeOK
<1>6. ASSUME NEW i \in Instruments, NEW d \in Dashboards, NEW c \in Classes,
             AddInstrument(i, d, c)
      PROVE  TypeOK'
  BY <1>6 DEF AddInstrument, TypeOK
<1>7. ASSUME NEW d \in Dashboards, AddDashboard(d) PROVE TypeOK'
  BY <1>7 DEF AddDashboard, TypeOK
<1>8. ASSUME NEW d \in Dashboards, DeleteDashboard(d) PROVE TypeOK'
  BY <1>8 DEF DeleteDashboard, Destroy, Unsubscribed, NoKeys, Classes, TypeOK
<1>9. ASSUME NEW c \in Configs, ReadConfig(c) PROVE TypeOK'
  <2>1. c \in ConfigForms
    BY InputsAssumption
  <2>2. self' \in Ids \cup {NoId} /\ self_ptr' \in Ids \cup {NoId, NullPtr}
    BY <1>9, <2>1, NormalizeIDType DEF ReadConfig, ConfigForms, TypeOK
  <2>3. \A i \in Instruments :
            Entries(i, c.sk_key[i]) \subseteq Topics \X Instruments
    BY <2>1, EntriesType DEF ConfigForms
  <2>4. subscriptions' \in SUBSET ((Topics \cup {NoKey}) \X Instruments)
    BY <1>9, <2>3 DEF ReadConfig, TypeOK, Unsubscribed
  <2> QED
    BY <1>9, <2>1, <2>2, <2>4 DEF ReadConfig, ConfigForms, TypeOK
<1>10. CASE UNCHANGED vars
  BY <1>10 DEF vars, TypeOK
<1> QED
  BY <1>1, <1>2, <1>3, <1>4, <1>5, <1>6, <1>7, <1>8, <1>9, <1>10 DEF Next

(* TypeOK holds in every state of every behaviour.                         *)
THEOREM TypeCorrect == Spec => []TypeOK
<1>1. Init => TypeOK
  BY DEF Init, TypeOK, NoKeys, Classes, Fields
<1> QED
  BY <1>1, TypeStep, PTL DEF Spec

-----------------------------------------------------------------------------
(* The pointer to the own vessel.                                          *)

LEMMA SelfPointerStep ==
    TypeOK /\ SelfPointerCurrent /\ [Next]_vars => SelfPointerCurrent'
<1> SUFFICES ASSUME TypeOK, SelfPointerCurrent, [Next]_vars
             PROVE  SelfPointerCurrent'
  OBVIOUS
<1> USE IdsAssumption DEF storeVars, objectVars, NullPtr
<1>1. ASSUME NEW m \in Messages, SendSKDelta(m) PROVE SelfPointerCurrent'
  <2>1. m \in Deltas
    BY InputsAssumption
  <2>2. CASE AcceptsSelf(m)
    <3>1. self' = NormalForm[m.self] /\ self_ptr' = self' /\ m.self \in Ids
      BY <1>1, <2>1, <2>2
         DEF SendSKDelta, SelfAfter, SelfPtrAfter, AcceptsSelf, Deltas
    <3>2. ~DereferencesNull(m) /\ fault' = "none"
      BY <1>1, <3>1 DEF SendSKDelta, DereferencesNull
    <3> QED
      BY <3>1, <3>2 DEF SelfPointerCurrent
  <2>3. CASE ~AcceptsSelf(m)
    <3>1. self' = self /\ self_ptr' = self_ptr
      BY <1>1, <2>3 DEF SendSKDelta, SelfAfter, SelfPtrAfter
    <3>2. fault' = "null_self" => self_ptr = NullPtr
      BY <1>1, <3>1 DEF SendSKDelta, DereferencesNull
    <3> QED
      BY <3>1, <3>2 DEF SelfPointerCurrent, TypeOK
  <2> QED
    BY <2>2, <2>3
<1>2. ASSUME NEW id \in Ids \cup {NoId}, SetSelf(id) PROVE SelfPointerCurrent'
  BY <1>2 DEF SetSelf, NormalizeID, SelfPointerCurrent, TypeOK
<1>3. ASSUME NEW i \in Instruments, Poll(i) PROVE SelfPointerCurrent'
  BY <1>3 DEF Poll, SelfPointerCurrent
<1>4. ASSUME NEW i \in Instruments, DeleteInstrument(i)
      PROVE  SelfPointerCurrent'
  BY <1>4 DEF DeleteInstrument, SelfPointerCurrent
<1>5. ASSUME NEW i \in Instruments, NEW s \in Slots,
             NEW key \in Keys \cup {NoKey}, SetKey(i, s, key)
      PROVE  SelfPointerCurrent'
  BY <1>5 DEF SetKey, SelfPointerCurrent
<1>6. ASSUME NEW i \in Instruments, NEW d \in Dashboards, NEW c \in Classes,
             AddInstrument(i, d, c)
      PROVE  SelfPointerCurrent'
  BY <1>6 DEF AddInstrument, SelfPointerCurrent
<1>7. ASSUME NEW d \in Dashboards, AddDashboard(d) PROVE SelfPointerCurrent'
  BY <1>7 DEF AddDashboard, SelfPointerCurrent
<1>8. ASSUME NEW d \in Dashboards, DeleteDashboard(d)
      PROVE  SelfPointerCurrent'
  BY <1>8 DEF DeleteDashboard, SelfPointerCurrent
<1>9. ASSUME NEW c \in Configs, ReadConfig(c) PROVE SelfPointerCurrent'
  <2>1. c.self \in Ids \cup {NoId, Absent}
    BY InputsAssumption DEF ConfigForms
  <2>2. CASE c.self = Absent
    BY <1>9, <2>2 DEF ReadConfig, SelfPointerCurrent
  <2>3. CASE c.self # Absent
    BY <1>9, <2>1, <2>3
       DEF ReadConfig, NormalizeID, SelfPointerCurrent, TypeOK
  <2> QED
    BY <2>2, <2>3
<1>10. CASE UNCHANGED vars
  BY <1>10 DEF vars, SelfPointerCurrent
<1> QED
  BY <1>1, <1>2, <1>3, <1>4, <1>5, <1>6, <1>7, <1>8, <1>9, <1>10 DEF Next

-----------------------------------------------------------------------------
(* The subscriptions.                                                      *)

(* The deletion of any set of instruments keeps the subscriptions right.   *)
LEMMA DestroyKeeps ==
    ASSUME NEW I \in SUBSET Instruments, TypeOK, SubscriptionInv, Destroy(I)
    PROVE  SubscriptionInv'
<1>1. Live' = Live \ I
  BY DEF Destroy, Live, TypeOK
<1>2. \A i \in Instruments : sk_key'[i] = IF i \in I THEN NoKeys ELSE sk_key[i]
  BY DEF Destroy
<1>3. SubscribersAlive'
  BY <1>1 DEF Destroy, Unsubscribed, SubscriptionInv, SubscribersAlive
<1>4. DeadAreBare'
  BY <1>1, <1>2 DEF SubscriptionInv, DeadAreBare
<1>5. OneKeyUnlessCombined'
  <2> SUFFICES ASSUME NEW i \in Instruments, class'[i] # "combined"
               PROVE  sk_key'[i][2] = NoKey
    BY DEF OneKeyUnlessCombined
  <2>1. CASE i \in I
    BY <1>2, <2>1 DEF NoKeys, Slots
  <2>2. CASE i \notin I
    BY <1>2, <2>2 DEF Destroy, SubscriptionInv, OneKeyUnlessCombined
  <2> QED
    BY <2>1, <2>2
<1>6. SubscriptionsMatchKeys'
  <2> SUFFICES ASSUME NEW i \in Live'
               PROVE  {t \in Topics : <<t, i>> \in subscriptions'} = Followed(i)'
    BY DEF SubscriptionsMatchKeys
  <2>1. i \in Live /\ i \notin I /\ i \in Instruments
    BY <1>1 DEF Live
  <2>2. \A t \in Topics : <<t, i>> \in subscriptions' <=> <<t, i>> \in subscriptions
    BY <2>1 DEF Destroy, Unsubscribed
  <2>3. Followed(i)' = Followed(i)
    BY <1>2, <2>1 DEF Followed
  <2> QED
    BY <2>1, <2>2, <2>3 DEF SubscriptionInv, SubscriptionsMatchKeys
<1> QED
  BY <1>3, <1>4, <1>5, <1>6 DEF SubscriptionInv

LEMMA SetKeyKeeps ==
    ASSUME NEW i \in Instruments, NEW s \in Slots, NEW key \in Keys \cup {NoKey},
           TypeOK, SubscriptionInv, SetKey(i, s, key)
    PROVE  SubscriptionInv'
<1>1. Live' = Live /\ i \in Live
  BY DEF SetKey, Live
<1>2. /\ sk_key'[i] = [sk_key[i] EXCEPT ![s] = key]
      /\ \A j \in Instruments \ {i} : sk_key'[j] = sk_key[j]
      /\ sk_key' \in [Instruments -> [Slots -> Keys \cup {NoKey}]]
  BY DEF SetKey, TypeOK
<1>3. \A e \in subscriptions' : e \in Unsubscribed({i}) \/ e[2] = i
  BY DEF SetKey, Entries
<1>4. SubscribersAlive'
  BY <1>1, <1>3 DEF Unsubscribed, SubscriptionInv, SubscribersAlive
<1>5. DeadAreBare'
  BY <1>1, <1>2 DEF SubscriptionInv, DeadAreBare
<1>6. OneKeyUnlessCombined'
  <2> SUFFICES ASSUME NEW j \in Instruments, class'[j] # "combined"
               PROVE  sk_key'[j][2] = NoKey
    BY DEF OneKeyUnlessCombined
  <2>1. class[j] # "combined" /\ sk_key[j][2] = NoKey
    BY DEF SetKey, SubscriptionInv, OneKeyUnlessCombined
  <2>2. CASE j = i
    BY <1>2, <2>1, <2>2 DEF SetKey, Slots, TypeOK
  <2>3. CASE j # i
    BY <1>2, <2>1, <2>3
  <2> QED
    BY <2>2, <2>3
<1>7. SubscriptionsMatchKeys'
  <2> SUFFICES ASSUME NEW j \in Live'
               PROVE  {t \in Topics : <<t, j>> \in subscriptions'} = Followed(j)'
    BY DEF SubscriptionsMatchKeys
  <2>1. j \in Live /\ j \in Instruments
    BY <1>1 DEF Live
  <2>2. CASE j # i
    <3>1. \A t \in Topics :
              <<t, j>> \in subscriptions' <=> <<t, j>> \in subscriptions
      BY <1>3, <2>2 DEF SetKey, Unsubscribed
    <3>2. Followed(j)' = Followed(j)
      BY <1>2, <2>1, <2>2 DEF Followed
    <3> QED
      BY <2>1, <3>1, <3>2 DEF SubscriptionInv, SubscriptionsMatchKeys
  <2>3. CASE j = i /\ class[i] = "combined"
    <3>1. subscriptions' = Unsubscribed({i}) \cup Entries(i, sk_key'[i])
      BY <2>3 DEF SetKey
    <3>2. \A t \in Topics :
              <<t, i>> \in subscriptions' <=> <<t, i>> \in Entries(i, sk_key'[i])
      BY <3>1 DEF Unsubscribed
    <3>3. \A t \in Topics : <<t, i>> \in Entries(i, sk_key'[i]) <=> t \in Followed(i)'
      BY DEF Entries, Followed
    <3>4. Followed(i)' \subseteq Topics
      BY <1>2, TopicType DEF Followed
    <3> QED
      BY <2>3, <3>2, <3>3, <3>4
  <2>4. CASE j = i /\ class[i] # "combined"
    <3>1. s = 1 /\ subscriptions' = Unsubscribed({i}) \cup {<<Topic(key), i>>}
      BY <2>4 DEF SetKey
    <3>2. sk_key'[i][1] = key /\ sk_key'[i][2] = NoKey
      BY <1>2, <1>6, <2>4, <3>1 DEF SetKey, OneKeyUnlessCombined, Slots, TypeOK
    <3>3. \A t \in Topics : <<t, i>> \in subscriptions' <=> t = Topic(key)
      BY <3>1 DEF Unsubscribed
    <3>4. Followed(i)' = IF key = NoKey THEN {} ELSE {Topic(key)}
      BY <3>2 DEF Followed, Slots
    <3> QED
      BY <2>4, <3>3, <3>4, TopicType, NoTopic
  <2> QED
    BY <2>2, <2>3, <2>4
<1> QED
  BY <1>4, <1>5, <1>6, <1>7 DEF SubscriptionInv

LEMMA ReadConfigKeeps ==
    ASSUME NEW c \in Configs, TypeOK, SubscriptionInv, ReadConfig(c)
    PROVE  SubscriptionInv'
<1>1. /\ c \in ConfigForms
      /\ \A i \in Instruments :
            /\ c.owner[i] = NoDashboard => c.sk_key[i] = NoKeys
            /\ c.class[i] # "combined" => c.sk_key[i][2] = NoKey
  BY InputsAssumption
<1>2. owner' = c.owner /\ class' = c.class /\ sk_key' = c.sk_key
  BY DEF ReadConfig
<1>3. Unsubscribed(Live) = {}
  BY DEF Unsubscribed, SubscriptionInv, SubscribersAlive
<1>4. subscriptions' = UNION {Entries(i, sk_key'[i]) : i \in Instruments}
  BY <1>2, <1>3 DEF ReadConfig
<1>5. \A e \in subscriptions' : \E i \in Instruments : e \in Entries(i, sk_key'[i])
  BY <1>4
<1>6. DeadAreBare' /\ OneKeyUnlessCombined'
  BY <1>1, <1>2 DEF DeadAreBare, OneKeyUnlessCombined, Live
<1>7. SubscribersAlive'
  <2> SUFFICES ASSUME NEW e \in subscriptions' PROVE e[2] \in Live'
    BY DEF SubscribersAlive
  <2>1. PICK i \in Instruments : e \in Entries(i, sk_key'[i])
    BY <1>5
  <2>2. e[2] = i /\ sk_key'[i] # NoKeys
    BY <2>1 DEF Entries, NoKeys
  <2> QED
    BY <1>6, <2>2 DEF DeadAreBare
<1>8. SubscriptionsMatchKeys'
  <2> SUFFICES ASSUME NEW i \in Live'
               PROVE  {t \in Topics : <<t, i>> \in subscriptions'} = Followed(i)'
    BY DEF SubscriptionsMatchKeys
  <2>1. i \in Instruments
    BY DEF Live
  <2>2. \A t \in Topics :
            <<t, i>> \in subscriptions' <=> <<t, i>> \in Entries(i, sk_key'[i])
    BY <1>4, <2>1 DEF Entries
  <2>3. \A t \in Topics : <<t, i>> \in Entries(i, sk_key'[i]) <=> t \in Followed(i)'
    BY DEF Entries, Followed
  <2>4. Followed(i)' \subseteq Topics
    BY <1>1, <1>2, <2>1, TopicType DEF Followed, ConfigForms
  <2> QED
    BY <2>2, <2>3, <2>4
<1> QED
  BY <1>6, <1>7, <1>8 DEF SubscriptionInv

LEMMA AddInstrumentKeeps ==
    ASSUME NEW i \in Instruments, NEW d \in Dashboards, NEW c \in Classes,
           TypeOK, SubscriptionInv, AddInstrument(i, d, c)
    PROVE  SubscriptionInv'
<1>1. Live' = Live \cup {i} /\ i \notin Live
  BY NamesAssumption DEF AddInstrument, Live, TypeOK
<1>2. subscriptions' = subscriptions /\ sk_key' = sk_key /\ sk_key[i] = NoKeys
  BY <1>1 DEF AddInstrument, SubscriptionInv, DeadAreBare
<1>3. SubscribersAlive' /\ DeadAreBare'
  BY <1>1, <1>2 DEF SubscriptionInv, SubscribersAlive, DeadAreBare
<1>4. OneKeyUnlessCombined'
  <2> SUFFICES ASSUME NEW j \in Instruments, class'[j] # "combined"
               PROVE  sk_key'[j][2] = NoKey
    BY DEF OneKeyUnlessCombined
  <2>1. CASE j = i
    BY <1>2, <2>1 DEF NoKeys, Slots
  <2>2. CASE j # i
    BY <1>2, <2>2
       DEF AddInstrument, TypeOK, SubscriptionInv, OneKeyUnlessCombined
  <2> QED
    BY <2>1, <2>2
<1>5. SubscriptionsMatchKeys'
  <2> SUFFICES ASSUME NEW j \in Live'
               PROVE  {t \in Topics : <<t, j>> \in subscriptions'} = Followed(j)'
    BY DEF SubscriptionsMatchKeys
  <2>1. Followed(j)' = Followed(j)
    BY <1>2 DEF Followed
  <2>2. CASE j = i
    <3>1. Followed(i) = {}
      BY <1>2 DEF Followed, NoKeys
    <3>2. \A t \in Topics : <<t, i>> \notin subscriptions
      BY <1>1 DEF SubscriptionInv, SubscribersAlive
    <3> QED
      BY <1>2, <2>1, <2>2, <3>1, <3>2
  <2>3. CASE j # i
    BY <1>1, <1>2, <2>1, <2>3 DEF SubscriptionInv, SubscriptionsMatchKeys
  <2> QED
    BY <2>2, <2>3
<1> QED
  BY <1>3, <1>4, <1>5 DEF SubscriptionInv

LEMMA SubscriptionStep == TypeOK /\ SubscriptionInv /\ [Next]_vars => SubscriptionInv'
<1> SUFFICES ASSUME TypeOK, SubscriptionInv, [Next]_vars
             PROVE  SubscriptionInv'
  OBVIOUS
<1>1. ASSUME UNCHANGED <<subscriptions, owner, class, sk_key>>
      PROVE  SubscriptionInv'
  BY <1>1 DEF SubscriptionInv, SubscribersAlive, DeadAreBare,
              OneKeyUnlessCombined, SubscriptionsMatchKeys, Live, Followed
<1>2. ASSUME NEW m \in Messages, SendSKDelta(m) PROVE SubscriptionInv'
  BY <1>1, <1>2 DEF SendSKDelta, objectVars
<1>3. ASSUME NEW id \in Ids \cup {NoId}, SetSelf(id) PROVE SubscriptionInv'
  BY <1>1, <1>3 DEF SetSelf, objectVars
<1>4. ASSUME NEW i \in Instruments, Poll(i) PROVE SubscriptionInv'
  BY <1>1, <1>4 DEF Poll, objectVars
<1>5. ASSUME NEW d \in Dashboards, AddDashboard(d) PROVE SubscriptionInv'
  BY <1>1, <1>5 DEF AddDashboard
<1>6. ASSUME NEW i \in Instruments, DeleteInstrument(i) PROVE SubscriptionInv'
  BY <1>6, DestroyKeeps DEF DeleteInstrument
<1>7. ASSUME NEW d \in Dashboards, DeleteDashboard(d) PROVE SubscriptionInv'
  BY <1>7, DestroyKeeps DEF DeleteDashboard
<1>8. ASSUME NEW i \in Instruments, NEW s \in Slots,
             NEW key \in Keys \cup {NoKey}, SetKey(i, s, key)
      PROVE  SubscriptionInv'
  BY <1>8, SetKeyKeeps
<1>9. ASSUME NEW i \in Instruments, NEW d \in Dashboards, NEW c \in Classes,
             AddInstrument(i, d, c)
      PROVE  SubscriptionInv'
  BY <1>9, AddInstrumentKeeps
<1>10. ASSUME NEW c \in Configs, ReadConfig(c) PROVE SubscriptionInv'
  BY <1>10, ReadConfigKeeps
<1>11. CASE UNCHANGED vars
  BY <1>1, <1>11 DEF vars
<1> QED
  BY <1>2, <1>3, <1>4, <1>5, <1>6, <1>7, <1>8, <1>9, <1>10, <1>11 DEF Next

-----------------------------------------------------------------------------
(* The theorems.                                                           *)

LEMMA InductiveInvariant == Spec => []IInv
<1>1. Init => IInv
  <2> SUFFICES ASSUME Init PROVE IInv
    OBVIOUS
  <2>1. TypeOK
    BY DEF Init, TypeOK, NoKeys, Classes, Fields
  <2>2. SelfPointerCurrent
    BY DEF Init, SelfPointerCurrent
  <2>3. Live = {}
    BY DEF Init, Live
  <2>4. SubscriptionInv
    BY <2>3 DEF Init, SubscriptionInv, SubscribersAlive, DeadAreBare,
                OneKeyUnlessCombined, SubscriptionsMatchKeys, NoKeys, Slots
  <2> QED
    BY <2>1, <2>2, <2>4 DEF IInv
<1>2. IInv /\ [Next]_vars => IInv'
  BY TypeStep, SelfPointerStep, SubscriptionStep DEF IInv
<1> QED
  BY <1>1, <1>2, PTL DEF Spec

(* No subscription refers to a deleted instrument: no notification ever    *)
(* calls through a dangling pointer.                                       *)
THEOREM NoDanglingSubscriber == Spec => []SubscribersAlive
<1>1. IInv => SubscribersAlive
  BY DEF IInv, SubscriptionInv
<1> QED
  BY <1>1, InductiveInvariant, PTL

(* The subscriptions of every instrument are those of its current keys.    *)
THEOREM SubscriptionsFollowKeys == Spec => []SubscriptionsMatchKeys
<1>1. IInv => SubscriptionsMatchKeys
  BY DEF IInv, SubscriptionInv
<1> QED
  BY <1>1, InductiveInvariant, PTL

(* The cached pointer to the own vessel agrees with its identifier.        *)
THEOREM SelfPointerFollowsSelf == Spec => []SelfPointerCurrent
<1>1. IInv => SelfPointerCurrent
  BY DEF IInv
<1> QED
  BY <1>1, InductiveInvariant, PTL

(* A message about the own vessel, or one whose identifier is in normal    *)
(* form, is announced under the topic of the node it is stored at.         *)
LEMMA StoredWhereAnnounced ==
    ASSUME NEW m \in Deltas, TypeOK, SelfPointerCurrent, ~DereferencesNull(m),
           AddressesSelf(m) \/ Normal(m.context)
    PROVE  NodeTopic(StoreNode(m)) = NotifyTopic(m)
<1>1. CASE AddressesSelf(m)
  <2>1. SelfPtrAfter(m) = SelfAfter(m)
    BY <1>1 DEF DereferencesNull, SelfPtrAfter, SelfAfter, SelfPointerCurrent
  <2> QED
    BY <1>1, <2>1
       DEF NodeTopic, StoreNode, NotifyTopic, StoreContext, NotifyContext
<1>2. CASE ~AddressesSelf(m)
  <2>1. NormalForm[m.context] = m.context
    BY <1>2 DEF AddressesSelf, Normal
  <2> QED
    BY <1>2, <2>1
       DEF NodeTopic, StoreNode, NotifyTopic, StoreContext, NotifyContext
<1> QED
  BY <1>1, <1>2

(* Whoever follows a node of a vessel named in normal form is notified of  *)
(* every change of it.                                                     *)
THEOREM ChangesAreNotified == Spec => NormalDataNotifies
<1> DEFINE A == \A n \in Nodes : Normal(n.context.id) => NotifiedOf(n)
<1>1. ASSUME IInv, [Next]_vars PROVE [A]_vars
  <2> SUFFICES ASSUME NEW n \in Nodes, Normal(n.context.id),
                      sk_data'[n] # sk_data[n],
                      NEW i \in Live, NodeTopic(n) \in Followed(i)
               PROVE  i \in new_data'
    BY DEF NotifiedOf
  <2>1. PICK m \in Messages : SendSKDelta(m)
    BY <1>1 DEF Next, vars, storeVars, SetSelf, Poll, DeleteInstrument, SetKey,
                AddInstrument, AddDashboard, DeleteDashboard, ReadConfig
  <2>2. m \in Deltas /\ TypeOK /\ SelfPointerCurrent
    BY <1>1, InputsAssumption DEF IInv
  <2>3. /\ ~DereferencesNull(m)
        /\ sk_data' = [sk_data EXCEPT ![StoreNode(m)] = StoredFields(m)]
        /\ new_data' = new_data \cup Subscribers(NotifyTopic(m))
    BY <2>1 DEF SendSKDelta
  <2>4. n = StoreNode(m)
    BY <2>2, <2>3 DEF TypeOK
  <2>5. AddressesSelf(m) \/ Normal(m.context)
    BY <2>4 DEF StoreNode, StoreContext
  <2>6. NotifyTopic(m) \in Followed(i)
    BY <2>2, <2>3, <2>4, <2>5, StoredWhereAnnounced
  <2>7. i \in Subscribers(NotifyTopic(m))
    BY <1>1, <2>6
       DEF IInv, SubscriptionInv, SubscriptionsMatchKeys, Subscribers, Live
  <2> QED
    BY <2>3, <2>7
<1>2. IInv /\ [Next]_vars => [A]_vars
  BY <1>1
<1>3. Spec => [][A]_vars
  BY <1>2, InductiveInvariant, PTL DEF Spec
<1> QED
  BY <1>3 DEF NormalDataNotifies

(* Nobody else is notified.                                                *)
THEOREM OthersAreNot == Spec => OnlyInterestedNotified
<1> DEFINE A == \A m \in Messages : \A i \in new_data' \ new_data :
                   SendSKDelta(m) /\ (AddressesSelf(m) \/ Normal(m.context)) =>
                       i \in Live /\ NodeTopic(StoreNode(m)) \in Followed(i)
<1>1. IInv => A
  <2> SUFFICES ASSUME IInv, NEW m \in Messages, NEW i \in new_data' \ new_data,
                      SendSKDelta(m), AddressesSelf(m) \/ Normal(m.context)
               PROVE  i \in Live /\ NodeTopic(StoreNode(m)) \in Followed(i)
    OBVIOUS
  <2>1. m \in Deltas /\ TypeOK /\ SelfPointerCurrent
    BY InputsAssumption DEF IInv
  <2>2. ~DereferencesNull(m) /\ <<NotifyTopic(m), i>> \in subscriptions
    BY DEF SendSKDelta, Subscribers
  <2>3. NodeTopic(StoreNode(m)) = NotifyTopic(m)
    BY <2>1, <2>2, StoredWhereAnnounced
  <2>4. i \in Live
    BY <2>2 DEF IInv, SubscriptionInv, SubscribersAlive
  <2>5. NotifyTopic(m) \in Topics
    <3>1. StoreNode(m) \in Nodes
      BY <2>1, <2>2, StoreNodeType
    <3>2. NodeTopic(StoreNode(m)) \in Topics
      BY <3>1 DEF NodeTopic, Nodes, Topics, KeyContexts, Fields
    <3> QED
      BY <2>3, <3>2
  <2> QED
    BY <2>2, <2>3, <2>4, <2>5 DEF IInv, SubscriptionInv, SubscriptionsMatchKeys
<1>2. IInv /\ [Next]_vars => [A]_vars
  BY <1>1
<1>3. Spec => [][A]_vars
  BY <1>2, InductiveInvariant, PTL DEF Spec
<1> QED
  BY <1>3 DEF OnlyInterestedNotified

-----------------------------------------------------------------------------
(* The refinement of PubSub.                                               *)

Interest == [i \in Instruments |-> Followed(i)]

(* The flag of a deleted instrument is gone with it.                       *)
PendingAlive == new_data \subseteq Live

LEMMA PendingStep == IInv /\ PendingAlive /\ [Next]_vars => PendingAlive'
<1> SUFFICES ASSUME IInv, PendingAlive, [Next]_vars PROVE PendingAlive'
  OBVIOUS
<1> USE DEF PendingAlive, Live
<1>1. ASSUME NEW m \in Messages, SendSKDelta(m) PROVE PendingAlive'
  <2>1. owner' = owner
    BY <1>1 DEF SendSKDelta, objectVars
  <2>2. \A t : Subscribers(t) \subseteq Live
    BY DEF Subscribers, IInv, SubscriptionInv, SubscribersAlive
  <2> QED
    BY <1>1, <2>1, <2>2 DEF SendSKDelta
<1>2. ASSUME NEW id \in Ids \cup {NoId}, SetSelf(id) PROVE PendingAlive'
  BY <1>2 DEF SetSelf, objectVars
<1>3. ASSUME NEW i \in Instruments, Poll(i) PROVE PendingAlive'
  BY <1>3 DEF Poll, objectVars
<1>4. ASSUME NEW I \in SUBSET Instruments, Destroy(I) PROVE PendingAlive'
  BY <1>4 DEF Destroy
<1>5. ASSUME NEW i \in Instruments, NEW s \in Slots,
             NEW key \in Keys \cup {NoKey}, SetKey(i, s, key)
      PROVE  PendingAlive'
  BY <1>5 DEF SetKey
<1>6. ASSUME NEW i \in Instruments, NEW d \in Dashboards, NEW c \in Classes,
             AddInstrument(i, d, c)
      PROVE  PendingAlive'
  BY <1>6, NamesAssumption DEF AddInstrument, IInv, TypeOK
<1>7. ASSUME NEW d \in Dashboards, AddDashboard(d) PROVE PendingAlive'
  BY <1>7 DEF AddDashboard
<1>8. ASSUME NEW c \in Configs, ReadConfig(c) PROVE PendingAlive'
  BY <1>8 DEF ReadConfig
<1>9. CASE UNCHANGED vars
  BY <1>9 DEF vars
<1> QED
  BY <1>1, <1>2, <1>3, <1>4, <1>5, <1>6, <1>7, <1>8, <1>9
     DEF Next, DeleteInstrument, DeleteDashboard

LEMMA InterestTypeNext ==
    ASSUME TypeOK' PROVE Interest' \in [Instruments -> SUBSET Topics]
<1>1. \A i \in Instruments : Followed(i)' \subseteq Topics
  <2> SUFFICES ASSUME NEW i \in Instruments, NEW t \in Followed(i)'
               PROVE  t \in Topics
    OBVIOUS
  <2>1. sk_key' \in [Instruments -> [Slots -> Keys \cup {NoKey}]]
    BY DEF TypeOK
  <2> QED
    BY <2>1, TopicType DEF Followed
<1> QED
  BY <1>1 DEF Interest

LEMMA SameInterest ==
    ASSUME UNCHANGED sk_key PROVE UNCHANGED Interest
BY DEF Interest, Followed

(* A delta message is a publication on one topic, or nothing.              *)
LEMMA SendImplementsPublish ==
    ASSUME NEW m \in Messages, IInv, SendSKDelta(m)
    PROVE  [Board!Next]_(Board!vars)
<1>1. m \in Deltas /\ TypeOK /\ UNCHANGED Interest
  BY SameInterest, InputsAssumption DEF SendSKDelta, objectVars, IInv
<1>2. CASE UNCHANGED new_data
  BY <1>1, <1>2 DEF Board!vars, Interest
<1>3. CASE /\ ~DereferencesNull(m)
           /\ new_data' = new_data \cup Subscribers(NotifyTopic(m))
  <2>1. NotifyTopic(m) \in Topics
    <3>1. NotifyContext(m) \in KeyContexts
      BY <1>1, SelfAfterType, IdsAssumption
         DEF NotifyContext, KeyContexts, Contexts, AddressesSelf, Deltas
    <3> QED
      BY <1>1, <3>1 DEF NotifyTopic, Topics, Fields, Deltas
  <2>2. SubscribersAlive /\ SubscriptionsMatchKeys /\ DeadAreBare
    BY DEF IInv, SubscriptionInv
  <2>3. \A i \in Instruments :
            <<NotifyTopic(m), i>> \in subscriptions <=> NotifyTopic(m) \in Followed(i)
    <3> SUFFICES ASSUME NEW i \in Instruments
                 PROVE  <<NotifyTopic(m), i>> \in subscriptions
                            <=> NotifyTopic(m) \in Followed(i)
      OBVIOUS
    <3>1. CASE i \in Live
      BY <2>1, <2>2, <3>1 DEF SubscriptionsMatchKeys
    <3>2. CASE i \notin Live
      <4>1. Followed(i) = {}
        BY <2>2, <3>2 DEF DeadAreBare, Followed, NoKeys
      <4>2. <<NotifyTopic(m), i>> \notin subscriptions
        BY <2>2, <3>2 DEF SubscribersAlive
      <4> QED
        BY <4>1, <4>2
    <3> QED
      BY <3>1, <3>2
  <2>4. Subscribers(NotifyTopic(m))
            = {r \in Instruments : NotifyTopic(m) \in Interest[r]}
    BY <2>3 DEF Subscribers, Interest
  <2>5. Board!Publish(NotifyTopic(m))
    BY <1>1, <1>3, <2>4 DEF Board!Publish, Interest
  <2> QED
    BY <2>1, <2>5 DEF Board!Next
<1> QED
  BY <1>2, <1>3 DEF SendSKDelta

LEMMA DestroyImplementsLeave ==
    ASSUME NEW I \in SUBSET Instruments, IInv, Destroy(I)
    PROVE  Board!Next
<1>1. \A i \in Instruments : Followed(i)' = IF i \in I THEN {} ELSE Followed(i)
  <2> SUFFICES ASSUME NEW i \in Instruments
               PROVE  Followed(i)' = IF i \in I THEN {} ELSE Followed(i)
    OBVIOUS
  <2>1. sk_key'[i] = IF i \in I THEN NoKeys ELSE sk_key[i]
    BY DEF Destroy
  <2> QED
    BY <2>1 DEF Followed, NoKeys
<1>2. Board!Leave(I)
  BY <1>1 DEF Board!Leave, Destroy
<1> QED
  BY <1>2 DEF Board!Next

LEMMA StepImplementsBoard ==
    IInv /\ IInv' /\ PendingAlive /\ [Next]_vars => [Board!Next]_(Board!vars)
<1> SUFFICES ASSUME IInv, IInv', PendingAlive, [Next]_vars
             PROVE  [Board!Next]_(Board!vars)
  OBVIOUS
<1> USE DEF storeVars, objectVars
<1>1. ASSUME UNCHANGED <<sk_key, new_data>> PROVE [Board!Next]_(Board!vars)
  BY <1>1, SameInterest DEF Board!vars, Interest
<1>2. ASSUME NEW m \in Messages, SendSKDelta(m)
      PROVE  [Board!Next]_(Board!vars)
  BY <1>2, SendImplementsPublish
<1>3. ASSUME NEW id \in Ids \cup {NoId}, SetSelf(id)
      PROVE  [Board!Next]_(Board!vars)
  BY <1>1, <1>3 DEF SetSelf
<1>4. ASSUME NEW i \in Instruments, Poll(i) PROVE [Board!Next]_(Board!vars)
  <2>1. Board!Take(i)
    BY <1>4, SameInterest DEF Poll, Board!Take, Interest
  <2> QED
    BY <2>1 DEF Board!Next
<1>5. ASSUME NEW I \in SUBSET Instruments, Destroy(I)
      PROVE  [Board!Next]_(Board!vars)
  BY <1>5, DestroyImplementsLeave
<1>6. ASSUME NEW i \in Instruments, NEW s \in Slots,
             NEW key \in Keys \cup {NoKey}, SetKey(i, s, key)
      PROVE  [Board!Next]_(Board!vars)
  <2>1. \A j \in Instruments \ {i} : Followed(j)' = Followed(j)
    <3>1. \A j \in Instruments \ {i} : sk_key'[j] = sk_key[j]
      BY <1>6 DEF SetKey, IInv, TypeOK
    <3> QED
      BY <3>1 DEF Followed
  <2>2. Interest' \in [Instruments -> SUBSET Topics]
    BY InterestTypeNext DEF IInv
  <2>3. Board!Rekey(i)
    BY <1>6, <2>1, <2>2 DEF Board!Rekey, SetKey, Interest
  <2> QED
    BY <2>3 DEF Board!Next
<1>7. ASSUME NEW i \in Instruments, NEW d \in Dashboards, NEW c \in Classes,
             AddInstrument(i, d, c)
      PROVE  [Board!Next]_(Board!vars)
  BY <1>1, <1>7 DEF AddInstrument
<1>8. ASSUME NEW d \in Dashboards, AddDashboard(d)
      PROVE  [Board!Next]_(Board!vars)
  BY <1>1, <1>8 DEF AddDashboard
<1>9. ASSUME NEW c \in Configs, ReadConfig(c) PROVE [Board!Next]_(Board!vars)
  <2>1. new_data' = {}
    BY <1>9 DEF ReadConfig, PendingAlive
  <2>2. Interest' \in [Instruments -> SUBSET Topics]
    BY InterestTypeNext DEF IInv
  <2>3. Board!Reload
    BY <2>1, <2>2 DEF Board!Reload, Interest
  <2> QED
    BY <2>3 DEF Board!Next
<1>10. CASE UNCHANGED vars
  BY <1>1, <1>10 DEF vars
<1> QED
  BY <1>2, <1>3, <1>4, <1>5, <1>6, <1>7, <1>8, <1>9, <1>10
     DEF Next, DeleteInstrument, DeleteDashboard

(* The code implements publish and subscribe.                              *)
THEOREM SignalKImplementsPubSub == Spec => ImplementsPubSub
<1>1. Init => Board!Init /\ PendingAlive
  BY DEF Init, Board!Init, Followed, NoKeys, PendingAlive
<1>2. Spec => []PendingAlive
  BY <1>1, PendingStep, InductiveInvariant, PTL DEF Spec
<1> QED
  BY <1>1, <1>2, StepImplementsBoard, InductiveInvariant, PTL
     DEF Spec, ImplementsPubSub, Board!Spec
=============================================================================
