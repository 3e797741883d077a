--------------------------- MODULE SourceLockProofs ---------------------------
(***************************************************************************)
(* Theorems about SourceLock, for every set of paths, sources and keys and *)
(* every time-out.                                                         *)
(***************************************************************************)
EXTENDS SourceLock, WellFoundedInduction, TLAPS

(***************************************************************************)
(* What the properties need to be inductive.  Without a path the single    *)
(* lock is empty, and what a configuration holds is consistent: it has a   *)
(* single lock if it names the key of it, that is a persistent one and its *)
(* entry agrees, or there are no entries as in older versions, and it has  *)
(* no entries for the locks of a session.                                  *)
(***************************************************************************)
MirrorHasPath == locked_source_path = NoKey => locked_source = NoSource

Consistent(c) ==
    /\ c.locked_source_path = NoKey => c.locked_source = NoSource
    /\ c.locked_source_path # NoKey =>
          /\ c.locked_source # NoSource
          /\ c.locked_source_path.mode = "lockpersist"
          /\ \/ c.locked_sources[c.locked_source_path] = c.locked_source
             \/ \A k \in Keys : c.locked_sources[k] = NoSource
    /\ \A k \in Keys :
          k.mode # "lockpersist" => c.locked_sources[k] = NoSource
ConfigsConsistent ==
    /\ Consistent(file)
    /\ orig_config # Closed => Consistent(orig_config)

(* A lock for the session is made on a source that has delivered, and what *)
(* was delivered stays in the tree until the session ends.                 *)
SessionLockHeld ==
    \A k \in Keys :
        k.mode # "lockpersist" /\ Locked(k) => Entry(k).source \in held[k.base]

IInv ==
    /\ TypeOK
    /\ MirrorAgrees
    /\ MirrorHasPath
    /\ ConfigsConsistent
    /\ SessionLockHeld

-----------------------------------------------------------------------------
(* Lemmas about the operators.                                             *)

(* A set of numbers has a least one.                                       *)
LEMMA LeastExists ==
    ASSUME NEW S, S \subseteq Nat, S # {}
    PROVE  \E s \in S : \A t \in S : s <= t
<1> DEFINE Less == {pair \in Nat \X Nat : pair[1] < pair[2]}
<1>1. IsWellFoundedOn(Less, Nat)
  BY NatLessThanWellFounded, Zenon DEF OpToRel
<1>2. PICK s \in S : \A t \in S : <<t, s>> \notin Less
  BY <1>1, WFMin, Zenon
<1>3. \A t \in Nat : t < s => <<t, s>> \in Less
  OBVIOUS
<1> HIDE DEF Less
<1>4. \A t \in S : ~(t < s)
  BY <1>2, <1>3
<1> QED
  BY <1>4

(* The first candidate that delivered is one of those that did.            *)
LEMMA FirstHeldType ==
    ASSUME TypeOK, NEW b \in Bases
    PROVE  \/ FirstHeld(b) \in held[b] /\ FirstHeld(b) \in Candidates
           \/ FirstHeld(b) = NoSource /\ held[b] = {}
<1>1. held[b] \subseteq Candidates
  BY DEF TypeOK
<1>2. CASE Direct \notin held[b] /\ held[b] # {}
  <2>1. held[b] \subseteq Nat
    BY <1>1, <1>2, SourcesAssumption DEF Candidates
  <2>2. \E s \in held[b] : \A t \in held[b] : s <= t
    BY <1>2, <2>1, LeastExists
  <2>3. (CHOOSE s \in held[b] : \A t \in held[b] : s <= t) \in held[b]
    BY <2>2
  <2> QED
    BY <1>1, <1>2, <2>3 DEF FirstHeld
<1> QED
  BY <1>1, <1>2 DEF FirstHeld, Candidates

LEMMA KeyType ==
    ASSUME NEW k \in Keys
    PROVE  k.base \in Bases /\ k.mode \in Modes /\ k # NoKey
BY KeysAssumption

LEMMA NoLockApart == NoLock \notin Locks
BY SourcesAssumption DEF NoLock, Locks

LEMMA EntryType ==
    ASSUME TypeOK, NEW k \in Keys
    PROVE  /\ Entry(k) \in Locks
           /\ source_locks[k] # NoLock => Entry(k) = source_locks[k]
           /\ source_locks[k] = NoLock => ~Locked(k)
<1>1. source_locks[k] \in Locks \cup {NoLock}
  BY DEF TypeOK
<1>2. [source |-> NoSource, age |-> 0] \in Locks
  BY BoundsAssumption DEF Locks
<1> QED
  BY <1>1, <1>2 DEF Entry, Locked

(* What a key reads is what is locked, or nothing, if that has delivered.  *)
LEMMA ReadType ==
    ASSUME NEW b \in Bases, NEW s \in Candidates
    PROVE  /\ s \in held[b] => Read(b, s) = s
           /\ Read(b, s) = NoSource => s \notin held[b]
BY SourcesAssumption DEF Read

LEMMA SetLockEffect ==
    ASSUME TypeOK, NEW k \in Keys, NEW lock \in Locks, SetLock(k, lock)
    PROVE  /\ source_locks' \in [Keys -> Locks \cup {NoLock}]
           /\ source_locks'[k] = lock /\ Entry(k)' = lock
           /\ \A other \in Keys \ {k} :
                 /\ source_locks'[other] = source_locks[other]
                 /\ Entry(other)' = Entry(other)
           /\ locked_source' = lock.source /\ locked_source_path' = k
<1>1. /\ source_locks' \in [Keys -> Locks \cup {NoLock}]
      /\ source_locks'[k] = lock
      /\ \A other \in Keys \ {k} : source_locks'[other] = source_locks[other]
      /\ locked_source' = lock.source /\ locked_source_path' = k
  BY DEF SetLock, TypeOK
<1> QED
  BY <1>1, NoLockApart DEF Entry

-----------------------------------------------------------------------------
(* What a step of an instrument does to the lock of a key: nothing, or     *)
(* this.  The cases are those of GetSKDataResolved.                        *)
LEMMA ResolveEffect ==
    ASSUME TypeOK, NEW k \in Keys, Resolve(k)
    PROVE  \/ k.mode = "any" /\ UNCHANGED lockVars
           \/ \E lock \in Locks :
                 /\ k.mode # "any"
                 /\ SetLock(k, lock)
                 /\ \/ Locked(k) /\ lock.source = Entry(k).source
                    \/ /\ Locked(k) => /\ k.mode # "lockfirst"
                                       /\ Entry(k).source \notin held[k.base]
                       /\ lock.source = FirstHeld(k.base)
<1>1. /\ Entry(k) \in Locks
      /\ k.base \in Bases
      /\ Locked(k) => Entry(k).source \in Candidates
  BY EntryType, KeyType DEF Locks, Locked
<1>2. CASE ReadAny(k)
  BY <1>2 DEF ReadAny
<1>3. CASE ReadLocked(k)
  <2> DEFINE lock == [Entry(k) EXCEPT !.age = 0]
  <2>1. lock \in Locks /\ lock.source = Entry(k).source
    BY <1>1, BoundsAssumption DEF Locks
  <2>2. k.mode # "any" /\ Locked(k) /\ SetLock(k, lock)
    BY <1>3 DEF ReadLocked
  <2> HIDE DEF lock
  <2> QED
    BY <2>1, <2>2
<1>4. CASE AwaitLocked(k)
  BY <1>1, <1>4 DEF AwaitLocked
<1>5. CASE LockFirstHeld(k)
  <2> DEFINE lock == [source |-> FirstHeld(k.base),
                      age |-> IF FirstHeld(k.base) = NoSource
                              THEN Entry(k).age ELSE 0]
  <2>1. lock \in Locks /\ lock.source = FirstHeld(k.base)
    BY <1>1, FirstHeldType, BoundsAssumption DEF Locks
  <2>2. k.mode # "any" /\ SetLock(k, lock)
    BY <1>5 DEF LockFirstHeld
  <2>3. Locked(k) => /\ k.mode # "lockfirst"
                     /\ Entry(k).source \notin held[k.base]
    BY <1>1, <1>5, ReadType DEF LockFirstHeld, Waits
  <2> HIDE DEF lock
  <2> QED
    BY <2>1, <2>2, <2>3
<1> QED
  BY <1>2, <1>3, <1>4, <1>5 DEF Resolve

-----------------------------------------------------------------------------
(* The types of the variables.                                             *)

LEMMA FilesType ==
    /\ {EmptyFile} \cup OldFiles \subseteq Files
    /\ Closed \notin Files
    /\ TypeOK => Generated \in Files
<1>1. {EmptyFile} \cup OldFiles \subseteq Files
  <2>1. EmptyFile \in Files
    BY DEF EmptyFile, OldFile, Files
  <2>2. ASSUME NEW s \in Candidates, NEW k \in Persistent \cap {Primary}
        PROVE  OldFile(s, k) \in Files
    BY DEF Persistent, OldFile, Files
  <2> QED
    BY <2>1, <2>2 DEF OldFiles
<1>2. Closed \notin Files
  BY SourcesAssumption DEF Closed, Files
<1>3. ASSUME TypeOK PROVE Generated \in Files
  <2>1. \A k \in Keys : Entry(k).source \in Candidates \cup {NoSource}
    BY <1>3, EntryType DEF Locks
  <2> QED
    BY <1>3, <2>1, KeysAssumption DEF TypeOK, Generated, WritesPrimary, Files
<1> QED
  BY <1>1, <1>2, <1>3

LEMMA LoadedType ==
    ASSUME NEW c \in Files
    PROVE  LoadedLocks(c) \in [Keys -> Locks \cup {NoLock}]
<1>1. /\ c.locked_source \in Candidates \cup {NoSource}
      /\ \A k \in Keys : c.locked_sources[k] \in Candidates \cup {NoSource}
  BY DEF Files
<1>2. \A s \in Candidates \cup {NoSource} : [source |-> s, age |-> 0] \in Locks
  BY BoundsAssumption DEF Locks
<1> QED
  BY <1>1, <1>2 DEF LoadedLocks

LEMMA LoadType ==
    ASSUME TypeOK, NEW c \in Files, Load(c)
    PROVE  /\ source_locks' \in [Keys -> Locks \cup {NoLock}]
           /\ locked_source' \in Candidates \cup {NoSource}
           /\ locked_source_path' \in Keys \cup {NoKey}
           /\ loads' \in 0 .. MaxLoads /\ loads' # loads
<1>1. loads' \in 0 .. MaxLoads /\ loads' # loads
  BY BoundsAssumption DEF TypeOK, Load
<1> QED
  BY <1>1, LoadedType DEF Load, Files

LEMMA InitType == Init => TypeOK
<1> SUFFICES ASSUME Init PROVE TypeOK
  OBVIOUS
<1>1. 0 \in 0 .. MaxLoads /\ 1 \in 0 .. MaxLoads
  BY BoundsAssumption
<1>2. file \in Files
  BY FilesType DEF Init
<1>3. source_locks \in [Keys -> Locks \cup {NoLock}]
  BY <1>2, LoadedType DEF Init
<1>4. /\ locked_source \in Candidates \cup {NoSource}
      /\ locked_source_path \in Keys \cup {NoKey}
  BY <1>2 DEF Init, Files
<1> QED
  BY <1>1, <1>2, <1>3, <1>4 DEF Init, TypeOK

LEMMA TypeStep == TypeOK /\ [Next]_vars => TypeOK'
<1> SUFFICES ASSUME TypeOK, [Next]_vars PROVE TypeOK'
  OBVIOUS
<1> USE DEF treeVars, lockVars, configVars
<1>1. ASSUME NEW e \in Sensors, Deliver(e[1], e[2]) PROVE TypeOK'
  <2>1. e[1] \in Bases /\ e[2] \in Candidates
    BY SourcesAssumption
  <2> QED
    BY <1>1, <2>1 DEF Deliver, TypeOK
<1>2. ASSUME NEW e \in Sensors, FallSilent(e[1], e[2]) PROVE TypeOK'
  <2>1. e[1] \in Bases /\ e[2] \in Candidates
    BY SourcesAssumption
  <2> QED
    BY <1>2, <2>1 DEF FallSilent, TypeOK
<1>3. CASE Tick
  <2>1. ASSUME NEW k \in Keys, NEW lock \in Locks \cup {NoLock}
        PROVE  Aged(k, lock) \in Locks \cup {NoLock}
    BY BoundsAssumption, SourcesAssumption DEF Aged, Locks, NoLock
  <2> QED
    BY <1>3, <2>1 DEF Tick, TypeOK
<1>4. ASSUME NEW k \in Keys, Resolve(k) PROVE TypeOK'
  <2>1. CASE UNCHANGED lockVars
    BY <1>4, <2>1 DEF Resolve, TypeOK
  <2>2. ASSUME NEW lock \in Locks, SetLock(k, lock) PROVE TypeOK'
    BY <1>4, <2>2, SetLockEffect DEF Resolve, TypeOK, Locks
  <2> QED
    BY <1>4, <2>1, <2>2, ResolveEffect
<1>5. CASE OpenPreferences
  BY <1>5, FilesType DEF OpenPreferences, TypeOK
<1>6. CASE AcceptPreferences
  BY <1>6, FilesType DEF AcceptPreferences, TypeOK
<1>7. CASE CancelPreferences
  <2>1. orig_config \in Files /\ Load(orig_config)
    BY <1>7 DEF CancelPreferences, TypeOK
  <2> QED
    BY <1>7, <2>1, LoadType DEF CancelPreferences, TypeOK
<1>8. ASSUME NEW c \in Files, Start(c) PROVE TypeOK'
  BY <1>8, LoadType DEF Start, TypeOK
<1>9. CASE Restart \/ CrashAndRestart
  BY <1>8, <1>9, FilesType DEF Restart, CrashAndRestart, TypeOK
<1>10. CASE UNCHANGED vars
  BY <1>10 DEF vars, TypeOK
<1> QED
  BY <1>1, <1>2, <1>3, <1>4, <1>5, <1>6, <1>7, <1>9, <1>10 DEF Next

(* The locks, the tree and the configurations have their types.            *)
THEOREM TypeCorrect == Spec => []TypeOK
BY InitType, TypeStep, PTL DEF Spec

-----------------------------------------------------------------------------
(* Configurations: what is generated is consistent, what is loaded from a  *)
(* consistent one has no lock for the session and a single lock that       *)
(* agrees with the entry of its key.                                       *)

LEMMA GeneratedConsistent ==
    ASSUME IInv
    PROVE  /\ Consistent(Generated)
           /\ Generated.locked_source # NoSource =>
                 Generated.locked_sources[Primary] # NoSource /\ Primary \in Keys
<1>1. CASE WritesPrimary
  <2>1. /\ locked_source # NoSource /\ Primary \in Keys
        /\ Primary.mode = "lockpersist" /\ locked_source_path = Primary
        /\ Primary # NoKey
    BY <1>1, KeysAssumption DEF WritesPrimary, IInv, MirrorHasPath
  <2>2. Entry(Primary).source = locked_source
    BY <2>1 DEF IInv, MirrorAgrees, Entry
  <2> QED
    BY <1>1, <2>1, <2>2 DEF Generated, Consistent
<1>2. CASE ~WritesPrimary
  BY <1>2 DEF Generated, Consistent
<1> QED
  BY <1>1, <1>2

LEMMA LoadedAgrees ==
    ASSUME NEW c \in Files, Consistent(c)
    PROVE  /\ c.locked_source_path = NoKey => c.locked_source = NoSource
           /\ c.locked_source_path # NoKey =>
                 /\ LoadedLocks(c)[c.locked_source_path] # NoLock
                 /\ LoadedLocks(c)[c.locked_source_path].source = c.locked_source
           /\ \A k \in Keys :
                 k.mode # "lockpersist" => LoadedLocks(c)[k] = NoLock
<1>1. /\ c.locked_source_path \in Keys \cup {NoKey}
      /\ [source |-> c.locked_source, age |-> 0] \in Locks
  BY BoundsAssumption DEF Files, Locks
<1>2. ASSUME c.locked_source_path # NoKey
      PROVE  LoadedLocks(c)[c.locked_source_path] =
                [source |-> c.locked_source, age |-> 0]
  BY <1>1, <1>2 DEF Consistent, LoadedLocks
<1>3. ASSUME NEW k \in Keys, k.mode # "lockpersist"
      PROVE  LoadedLocks(c)[k] = NoLock
  BY <1>3, KeyType DEF Consistent, LoadedLocks
<1> QED
  BY <1>1, <1>2, <1>3, NoLockApart DEF Consistent

LEMMA LoadStep ==
    ASSUME TypeOK, NEW c \in Files, Consistent(c), Load(c)
    PROVE  MirrorAgrees' /\ MirrorHasPath' /\ SessionLockHeld'
<1>1. /\ source_locks' = LoadedLocks(c)
      /\ locked_source' = c.locked_source
      /\ locked_source_path' = c.locked_source_path
  BY DEF Load
<1>2. MirrorAgrees' /\ MirrorHasPath'
  BY <1>1, LoadedAgrees DEF MirrorAgrees, MirrorHasPath
<1>3. SessionLockHeld'
  BY <1>1, LoadedAgrees DEF SessionLockHeld, Locked, Entry
<1> QED
  BY <1>2, <1>3

-----------------------------------------------------------------------------
(* The invariant: every action keeps it.                                   *)

LEMMA InitInv == Init => IInv
<1> SUFFICES ASSUME Init PROVE IInv
  OBVIOUS
<1>1. file \in Files /\ Consistent(file)
  <2>1. Consistent(EmptyFile)
    BY DEF Consistent, EmptyFile, OldFile
  <2>2. ASSUME NEW s \in Candidates, NEW k \in Persistent \cap {Primary}
        PROVE  Consistent(OldFile(s, k))
    <3>1. s # NoSource /\ k \in Keys /\ k # NoKey /\ k.mode = "lockpersist"
      BY SourcesAssumption, KeysAssumption DEF Persistent
    <3> QED
      BY <3>1 DEF Consistent, OldFile
  <2> QED
    BY <2>1, <2>2, FilesType DEF Init, OldFiles
<1>2. ConfigsConsistent
  BY <1>1 DEF Init, ConfigsConsistent
<1>3. MirrorAgrees /\ MirrorHasPath
  BY <1>1, LoadedAgrees DEF Init, MirrorAgrees, MirrorHasPath
<1>4. SessionLockHeld
  BY <1>1, LoadedAgrees DEF Init, SessionLockHeld, Locked, Entry
<1> QED
  BY <1>2, <1>3, <1>4, InitType DEF IInv

LEMMA SensorStep ==
    ASSUME IInv, NEW b \in Bases, NEW s \in Candidates,
           Deliver(b, s) \/ FallSilent(b, s), TypeOK'
    PROVE  IInv'
<1>1. UNCHANGED <<lockVars, configVars>>
  BY DEF Deliver, FallSilent
<1>2. \A base \in Bases : held[base] \subseteq held'[base]
  BY DEF Deliver, FallSilent, IInv, TypeOK
<1>3. SessionLockHeld'
  BY <1>1, <1>2, KeyType DEF lockVars, IInv, SessionLockHeld, Locked, Entry
<1> QED
  BY <1>1, <1>3 DEF lockVars, configVars, IInv, MirrorAgrees, MirrorHasPath,
     ConfigsConsistent, Consistent

LEMMA TickStep == IInv /\ Tick => IInv'
<1> SUFFICES ASSUME IInv, Tick PROVE IInv'
  OBVIOUS
<1>1. TypeOK'
  BY TypeStep DEF Next, IInv
<1>2. ASSUME NEW k \in Keys
      PROVE  /\ source_locks'[k] = NoLock <=> source_locks[k] = NoLock
             /\ source_locks'[k].source = source_locks[k].source
  <2>1. source_locks[k] \in Locks \cup {NoLock}
    BY DEF IInv, TypeOK
  <2>2. source_locks'[k] = Aged(k, source_locks[k])
    BY DEF Tick
  <2> QED
    BY <2>1, <2>2, SourcesAssumption, NoLockApart DEF Aged, Locks, NoLock
<1>3. ASSUME NEW k \in Keys
      PROVE  /\ Locked(k)' <=> Locked(k)
             /\ Entry(k)'.source = Entry(k).source
  BY <1>2 DEF Locked, Entry
<1>4. MirrorAgrees'
  <2>1. locked_source_path \in Keys \cup {NoKey}
    BY DEF IInv, TypeOK
  <2> QED
    BY <1>2, <2>1 DEF Tick, IInv, MirrorAgrees
<1>5. MirrorHasPath' /\ ConfigsConsistent'
  BY DEF Tick, configVars, IInv, MirrorHasPath, ConfigsConsistent, Consistent
<1>6. SessionLockHeld'
  BY <1>3 DEF Tick, treeVars, IInv, SessionLockHeld
<1> QED
  BY <1>1, <1>4, <1>5, <1>6 DEF IInv

LEMMA ResolveStep ==
    ASSUME IInv, NEW k \in Keys, Resolve(k)
    PROVE  IInv'
<1>1. TypeOK /\ TypeOK'
  BY TypeStep DEF Next, IInv
<1>2. UNCHANGED <<treeVars, configVars>>
  BY DEF Resolve
<1>3. ConfigsConsistent'
  BY <1>2 DEF configVars, IInv, ConfigsConsistent, Consistent
<1>4. CASE UNCHANGED lockVars
  BY <1>1, <1>2, <1>3, <1>4 DEF lockVars, treeVars, IInv, MirrorAgrees,
     MirrorHasPath, SessionLockHeld, Locked, Entry
<1>5. ASSUME NEW lock \in Locks, SetLock(k, lock),
             \/ Locked(k) /\ lock.source = Entry(k).source
             \/ lock.source = FirstHeld(k.base)
      PROVE  IInv'
  <2>1. MirrorAgrees' /\ MirrorHasPath'
    BY <1>1, <1>5, SetLockEffect, NoLockApart, KeyType
       DEF MirrorAgrees, MirrorHasPath
  <2>2. ASSUME NEW other \in Keys, other.mode # "lockpersist", Locked(other)'
        PROVE  Entry(other)'.source \in held[other.base]
    <3>1. CASE other = k
      <4>1. Entry(k)' = lock /\ lock.source # NoSource
        BY <1>1, <1>5, <2>2, <3>1, SetLockEffect DEF Locked
      <4> QED
        BY <1>1, <1>5, <2>2, <3>1, <4>1, FirstHeldType, KeyType
           DEF IInv, SessionLockHeld
    <3>2. CASE other # k
      BY <1>1, <1>5, <2>2, <3>2, SetLockEffect
         DEF IInv, SessionLockHeld, Locked
    <3> QED
      BY <3>1, <3>2
  <2>3. SessionLockHeld'
    BY <1>2, <2>2 DEF treeVars, SessionLockHeld
  <2> QED
    BY <1>1, <1>3, <2>1, <2>3 DEF IInv
<1> QED
  BY <1>1, <1>4, <1>5, ResolveEffect

LEMMA ConfigStep ==
    ASSUME IInv, TypeOK',
           \/ OpenPreferences \/ AcceptPreferences \/ CancelPreferences
           \/ Restart \/ CrashAndRestart
    PROVE  IInv'
<1> USE DEF treeVars, lockVars
<1>1. TypeOK /\ Consistent(Generated) /\ Generated \in Files
  BY GeneratedConsistent, FilesType DEF IInv
<1>2. ASSUME UNCHANGED <<treeVars, lockVars>>
      PROVE  MirrorAgrees' /\ MirrorHasPath' /\ SessionLockHeld'
  BY <1>2 DEF IInv, MirrorAgrees, MirrorHasPath, SessionLockHeld, Locked, Entry
<1>3. CASE OpenPreferences
  <2>1. ConfigsConsistent'
    BY <1>1, <1>3 DEF OpenPreferences, IInv, ConfigsConsistent, Consistent
  <2> QED
    BY <1>2, <1>3, <2>1 DEF OpenPreferences, IInv
<1>4. CASE AcceptPreferences
  <2>1. ConfigsConsistent'
    BY <1>1, <1>4 DEF AcceptPreferences, ConfigsConsistent, Consistent
  <2> QED
    BY <1>2, <1>4, <2>1 DEF AcceptPreferences, IInv
<1>5. CASE CancelPreferences
  <2>1. /\ orig_config \in Files /\ Consistent(orig_config)
        /\ Load(orig_config)
    BY <1>5 DEF CancelPreferences, IInv, TypeOK, ConfigsConsistent
  <2>2. ConfigsConsistent'
    BY <1>5 DEF CancelPreferences, IInv, ConfigsConsistent, Consistent
  <2> QED
    BY <1>1, <2>1, <2>2, LoadStep DEF IInv
<1>6. ASSUME NEW c \in Files, Consistent(c), Start(c)
      PROVE  IInv'
  <2>1. ConfigsConsistent'
    BY <1>6 DEF Start, ConfigsConsistent, Consistent
  <2> QED
    BY <1>1, <1>6, <2>1, LoadStep DEF Start, IInv
<1>7. CASE Restart \/ CrashAndRestart
  BY <1>1, <1>6, <1>7
     DEF Restart, CrashAndRestart, IInv, TypeOK, ConfigsConsistent
<1> QED
  BY <1>3, <1>4, <1>5, <1>7

LEMMA InvStep == IInv /\ [Next]_vars => IInv'
<1> SUFFICES ASSUME IInv, [Next]_vars PROVE IInv'
  OBVIOUS
<1>1. TypeOK'
  BY TypeStep DEF IInv
<1>2. CASE UNCHANGED vars
  BY <1>1, <1>2 DEF vars, IInv, MirrorAgrees, MirrorHasPath,
     ConfigsConsistent, Consistent, SessionLockHeld, Locked, Entry
<1>3. ASSUME NEW e \in Sensors, Deliver(e[1], e[2]) \/ FallSilent(e[1], e[2])
      PROVE  IInv'
  BY <1>1, <1>3, SourcesAssumption, SensorStep
<1> QED
  BY <1>1, <1>2, <1>3, TickStep, ResolveStep, ConfigStep DEF Next

LEMMA Invariant == Spec => []IInv
BY InitInv, InvStep, PTL DEF Spec

-----------------------------------------------------------------------------
(* The properties.                                                         *)

(* The single lock of older configurations always agrees with the lock of  *)
(* the key it claims to be of.                                             *)
THEOREM MirrorCorrect == Spec => []MirrorAgrees
<1>1. IInv => MirrorAgrees
  BY DEF IInv
<1> QED
  BY <1>1, Invariant, PTL

(* Reading back what is written gives exactly the persistent locks.        *)
THEOREM RoundTripCorrect == Spec => []RoundTrip
<1>1. ASSUME IInv PROVE RoundTrip
  <2>1. ASSUME NEW k \in Keys
        PROVE  Generated.locked_sources[k] =
                 IF k.mode = "lockpersist" /\ Locked(k)
                 THEN Entry(k).source ELSE NoSource
    BY DEF Generated, Locked
  <2>2. CASE \E k \in Keys : Generated.locked_sources[k] # NoSource
    BY <2>1, <2>2 DEF RoundTrip, LoadedLocks, Locked
  <2>3. CASE \A k \in Keys : Generated.locked_sources[k] = NoSource
    <3>1. Generated.locked_source = NoSource
      BY <1>1, <2>3, GeneratedConsistent
    <3>2. \A k \in Keys : LoadedLocks(Generated)[k] = NoLock
      BY <2>3, <3>1 DEF LoadedLocks
    <3> QED
      BY <2>1, <2>3, <3>2 DEF RoundTrip, Locked
  <2> QED
    BY <2>2, <2>3
<1>2. IInv => RoundTrip
  BY <1>1
<1> QED
  BY <1>2, Invariant, PTL

(* What a step that loads no configuration does to the lock of a key.      *)
LEMMA LockStep ==
    ASSUME TypeOK, [Next]_vars, loads' = loads, NEW k \in Keys, Locked(k)
    PROVE  \/ Entry(k)'.source = Entry(k).source
           \/ /\ k.mode = "lockpersist"
              /\ Entry(k).source \notin held[k.base]
              /\ Entry(k)'.source = FirstHeld(k.base)
<1> USE DEF treeVars, lockVars, configVars
<1>1. CASE UNCHANGED source_locks
  BY <1>1 DEF Entry
<1>2. CASE Tick
  <2>1. /\ source_locks[k] \in Locks \cup {NoLock}
        /\ source_locks'[k] = Aged(k, source_locks[k])
    BY <1>2 DEF Tick, TypeOK
  <2>2. /\ source_locks'[k] = NoLock <=> source_locks[k] = NoLock
        /\ source_locks'[k].source = source_locks[k].source
    BY <2>1, SourcesAssumption, NoLockApart DEF Aged, Locks, NoLock
  <2> QED
    BY <2>2 DEF Entry
<1>3. ASSUME NEW other \in Keys, Resolve(other), ~UNCHANGED source_locks
      PROVE  \/ Entry(k)'.source = Entry(k).source
             \/ /\ k.mode = "lockpersist"
                /\ Entry(k).source \notin held[k.base]
                /\ Entry(k)'.source = FirstHeld(k.base)
  <2>1. PICK lock \in Locks :
            /\ other.mode # "any" /\ SetLock(other, lock)
            /\ \/ Locked(other) /\ lock.source = Entry(other).source
               \/ /\ Locked(other) =>
                        /\ other.mode # "lockfirst"
                        /\ Entry(other).source \notin held[other.base]
                  /\ lock.source = FirstHeld(other.base)
    BY <1>3, ResolveEffect
  <2>2. CASE other = k
    BY <2>1, <2>2, SetLockEffect, KeyType DEF Modes
  <2>3. CASE other # k
    BY <2>1, <2>3, SetLockEffect
  <2> QED
    BY <2>2, <2>3
<1>4. ~\E c \in Files : Load(c)
  BY BoundsAssumption DEF Load, TypeOK
<1>5. ~CancelPreferences
  BY <1>4 DEF CancelPreferences, TypeOK
<1>6. ~Restart /\ ~CrashAndRestart
  BY <1>4, FilesType DEF Restart, CrashAndRestart, Start, TypeOK
<1>7. \/ Tick \/ \E other \in Keys : Resolve(other)
      \/ UNCHANGED source_locks
  BY <1>5, <1>6
     DEF Next, vars, Deliver, FallSilent, OpenPreferences, AcceptPreferences
<1> QED
  BY <1>1, <1>2, <1>3, <1>7

(* A session lock keeps its source as long as the instrument lives, and    *)
(* reads nothing else.                                                     *)
THEOREM SessionCorrect == Spec => SessionLockKept
<1>1. ASSUME IInv, IInv', [Next]_vars,
             NEW k \in Keys, k.mode = "lockfirst", Locked(k), loads' = loads
      PROVE  /\ Entry(k)'.source = Entry(k).source
             /\ Answer(k)' \in {Entry(k).source, NoSource}
  <2>1. Entry(k)'.source = Entry(k).source
    BY <1>1, LockStep DEF IInv
  <2>2. Locked(k)' /\ Waits(k)'
    BY <1>1, <2>1 DEF Locked, Waits
  <2>3. Entry(k)'.source \in held'[k.base]
    BY <1>1, <2>2 DEF IInv, SessionLockHeld
  <2>4. Answer(k)' = Entry(k)'.source
    BY <1>1, <2>2, <2>3 DEF Answer, Read
  <2> QED
    BY <2>1, <2>4
<1>2. IInv /\ IInv' /\ [Next]_vars =>
        [\A k \in Keys : k.mode = "lockfirst" /\ Locked(k) /\ loads' = loads =>
            /\ Entry(k)'.source = Entry(k).source
            /\ Answer(k)' \in {Entry(k).source, NoSource}]_vars
  BY <1>1
<1> QED
  BY <1>2, Invariant, PTL DEF Spec, SessionLockKept

(* A persistent lock leaves a source only if that has not delivered in the *)
(* whole session, for one that has.                                        *)
THEOREM PersistentCorrect == Spec => PersistentLockKept
<1>1. ASSUME TypeOK, [Next]_vars,
             NEW k \in Keys, k.mode = "lockpersist", Locked(k), loads' = loads
      PROVE  \/ Entry(k)'.source = Entry(k).source
             \/ /\ Entry(k).source \notin held[k.base]
                /\ Entry(k)'.source \in held[k.base] \cup {NoSource}
  BY <1>1, LockStep, FirstHeldType, KeyType
<1>2. TypeOK /\ [Next]_vars =>
        [\A k \in Keys : k.mode = "lockpersist" /\ Locked(k) /\ loads' = loads =>
            \/ Entry(k)'.source = Entry(k).source
            \/ /\ Entry(k).source \notin held[k.base]
               /\ Entry(k)'.source \in held[k.base] \cup {NoSource}]_vars
  BY <1>1
<1> QED
  BY <1>2, TypeCorrect, PTL DEF Spec, PersistentLockKept

=============================================================================
