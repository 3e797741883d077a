----------------------------- MODULE SourceLock -----------------------------
(***************************************************************************)
(* Which source an instrument reads when its key ends in SRC:any,          *)
(* SRC:lockfirst or SRC:lockpersist: Instrument::GetSKDataResolved, the    *)
(* locks it keeps for each key, and what of them goes through the          *)
(* configuration when it is saved, reloaded or read by the next session.   *)
(*                                                                         *)
(* The time of a lock is modelled as its age in seconds, counted up to     *)
(* the allowed age: nothing else is asked of it.  A path exists in the     *)
(* tree once a value was stored at it.                                     *)
(***************************************************************************)
EXTENDS Naturals, FiniteSets

CONSTANTS
    Bases,       \* the paths below which sources deliver
    Sources,     \* named sources, numbered in alphabetical order
    Sensors,     \* who may deliver where: pairs of a path and a source
    Direct,      \* "direct": the value without a source
    NoSource,    \* the empty source; nullptr as an answer
    Container,   \* the answer is the node of a path, not a value
    Keys,        \* the keys of the instrument
    NoKey,       \* the empty key
    Primary,     \* what GetPrimarySKKey returns
    AllowedAge,  \* m_allowed_age_sec
    MaxLoads     \* bounds how often a configuration is loaded

Modes == {"any", "lockfirst", "lockpersist"}
Candidates == Sources \cup {Direct}
Persistent == {k \in Keys : k.mode = "lockpersist"}

ASSUME SourcesAssumption ==
    /\ Sources \subseteq Nat
    /\ Direct \notin Sources
    /\ Sensors \subseteq Bases \X Candidates
    /\ NoSource \notin Candidates
    /\ Container \notin Candidates \cup {NoSource}

ASSUME KeysAssumption ==
    /\ Keys \subseteq [base : Bases, mode : Modes]
    /\ NoKey \notin Keys
    /\ Primary \in Keys \cup {NoKey}

ASSUME BoundsAssumption == AllowedAge \in Nat /\ MaxLoads \in Nat \ {0}

NoLock == [source |-> Container, age |-> 0]    \* the map has no entry
Locks == [source : Candidates \cup {NoSource}, age : 0 .. AllowedAge]
Files == [locked_source : Candidates \cup {NoSource},
          locked_source_path : Keys \cup {NoKey},
          locked_sources : [Keys -> Candidates \cup {NoSource}]]
(* What older versions saved: one lock, if its key has a persistent one.   *)
OldFile(source, k) ==
    [locked_source |-> source, locked_source_path |-> k,
     locked_sources |-> [key \in Keys |-> NoSource]]
OldFiles == {OldFile(s, k) : s \in Candidates, k \in Persistent \cap {Primary}}
EmptyFile == OldFile(NoSource, NoKey)
Closed == [locked_source |-> Container]    \* no preferences dialog is open

VARIABLES
    held,                \* the candidates stored below each path
    alive,               \* those whose sensor still transmits
    source_locks,        \* m_source_locks
    locked_source,       \* m_locked_source
    locked_source_path,  \* m_locked_source_path
    file,                \* the configuration file
    orig_config,         \* m_orig_config of the preferences dialog
    loads                \* configurations loaded so far

vars == <<held, alive, source_locks, locked_source, locked_source_path,
          file, orig_config, loads>>
treeVars == <<held, alive>>
lockVars == <<source_locks, locked_source, locked_source_path>>
configVars == <<file, orig_config, loads>>

TypeOK ==
    /\ held \in [Bases -> SUBSET Candidates]
    /\ alive \in [Bases -> SUBSET Candidates]
    /\ source_locks \in [Keys -> Locks \cup {NoLock}]
    /\ locked_source \in Candidates \cup {NoSource}
    /\ locked_source_path \in Keys \cup {NoKey}
    /\ file \in Files
    /\ orig_config \in Files \cup {Closed}
    /\ loads \in 0 .. MaxLoads

-----------------------------------------------------------------------------
(* The sensors, the tree and the clock.                                    *)

(* A delta stores its value; nothing removes a node from the tree.         *)
Deliver(b, s) ==
    /\ s \notin held[b] \cap alive[b]
    /\ held' = [held EXCEPT ![b] = @ \cup {s}]
    /\ alive' = [alive EXCEPT ![b] = @ \cup {s}]
    /\ UNCHANGED <<lockVars, configVars>>

FallSilent(b, s) ==
    /\ s \in alive[b]
    /\ alive' = [alive EXCEPT ![b] = @ \ {s}]
    /\ UNCHANGED <<held, lockVars, configVars>>

(* Only persistent locks that name a source are ever asked for their age.  *)
Aged(k, lock) ==
    IF k.mode = "lockpersist" /\ lock.source \in Candidates /\ lock.age < AllowedAge
    THEN [lock EXCEPT !.age = @ + 1] ELSE lock
Tick ==
    /\ source_locks' = [k \in Keys |-> Aged(k, source_locks[k])]
    /\ UNCHANGED <<treeVars, locked_source, locked_source_path, configVars>>

-----------------------------------------------------------------------------
(* Instrument::GetSKDataResolved.                                          *)

(* The direct value is preferred, then the sources in alphabetical order.  *)
FirstHeld(b) ==
    IF Direct \in held[b] THEN Direct
    ELSE IF held[b] = {} THEN NoSource
    ELSE CHOOSE s \in held[b] : \A t \in held[b] : s <= t

(* What a locked source reads.  The lock "direct" reads the path itself,   *)
(* which is there as soon as any source has delivered below it.            *)
Read(b, s) ==
    IF s \in held[b] THEN s
    ELSE IF s = Direct /\ held[b] # {} THEN Container ELSE NoSource

Entry(k) ==
    IF source_locks[k] = NoLock THEN [source |-> NoSource, age |-> 0]
    ELSE source_locks[k]
Locked(k) == Entry(k).source # NoSource

(* An instrument reads all its keys when one of them got new data.         *)
Notified == \E k \in Keys : alive[k.base] # {}

(* Mutant: the copy of the source is not updated with the lock.            *)
SetLockOnly(k, lock) ==
    /\ source_locks' = [source_locks EXCEPT ![k] = lock]
    /\ locked_source' = locked_source
    /\ locked_source_path' = k
SetLock(k, lock) ==
    /\ source_locks' = [source_locks EXCEPT ![k] = lock]
    /\ locked_source' = lock.source
    /\ locked_source_path' = k

(* What a key reads: what its lock reads, or else the first there is.      *)
Waits(k) == k.mode = "lockfirst" \/ Entry(k).age < AllowedAge
Answer(k) ==
    IF /\ k.mode # "any" /\ Locked(k)
       /\ Read(k.base, Entry(k).source) # NoSource \/ Waits(k)
    THEN Read(k.base, Entry(k).source)
    ELSE FirstHeld(k.base)

(* SRC:any remembers nothing.                                              *)
ReadAny(k) ==
    /\ k.mode = "any"
    /\ UNCHANGED lockVars

ReadLocked(k) ==
    /\ k.mode # "any" /\ Locked(k)
    /\ Read(k.base, Entry(k).source) # NoSource
    /\ SetLock(k, [Entry(k) EXCEPT !.age = 0])

(* The locked source is missing: a session lock waits for it forever, a    *)
(* persistent one for the allowed age.                                     *)
AwaitLocked(k) ==
    /\ k.mode # "any" /\ Locked(k)
    /\ Read(k.base, Entry(k).source) = NoSource
    /\ Waits(k)
    /\ SetLock(k, Entry(k))

(* Mutant: an established lock is not looked at.                           *)
LockFirstHeldAnew(k) ==
    /\ k.mode # "any"
    /\ SetLock(k, [source |-> FirstHeld(k.base), age |-> 0])
(* Mutant: no lock is ever given up.                                       *)
LockFirstHeldOnce(k) ==
    /\ k.mode # "any"
    /\ ~Locked(k)
    /\ SetLock(k, [source |-> FirstHeld(k.base), age |-> 0])

(* No lock, or one given up: the first source there is, if there is one.   *)
LockFirstHeld(k) ==
    /\ k.mode # "any"
    /\ Locked(k) =>
         /\ Read(k.base, Entry(k).source) = NoSource
         /\ ~Waits(k)
    /\ SetLock(k, [source |-> FirstHeld(k.base),
                   age |-> IF FirstHeld(k.base) = NoSource THEN Entry(k).age
                           ELSE 0])

Resolve(k) ==
    /\ Notified
    /\ ReadAny(k) \/ ReadLocked(k) \/ AwaitLocked(k) \/ LockFirstHeld(k)
    /\ UNCHANGED <<treeVars, configVars>>

-----------------------------------------------------------------------------
(* The configuration.                                                      *)

(* Mutant: the single lock is written without asking whose it is.          *)
WritesPrimaryOfAny ==
    /\ locked_source # NoSource
    /\ Primary # NoKey
    /\ Primary.mode = "lockpersist"

(* Instrument::GenerateJSONConfig: the lock of the primary key on its own, *)
(* as older versions wrote it, and all persistent locks by their keys.     *)
WritesPrimary ==
    /\ locked_source # NoSource
    /\ Primary # NoKey
    /\ Primary.mode = "lockpersist"
    /\ locked_source_path \in {NoKey, Primary}
Generated ==
    [locked_source |-> IF WritesPrimary THEN locked_source ELSE NoSource,
     locked_source_path |-> IF WritesPrimary THEN Primary ELSE NoKey,
     locked_sources |-> [k \in Keys |->
        IF k.mode = "lockpersist" THEN Entry(k).source ELSE NoSource]]

(* Instrument::ReadConfig of a new instrument.  A lock in either form has  *)
(* the age 0: the constructor has set the time of the single one.          *)
LoadedLocks(c) ==
    IF \E k \in Keys : c.locked_sources[k] # NoSource
    THEN [k \in Keys |-> IF c.locked_sources[k] = NoSource THEN NoLock
                         ELSE [source |-> c.locked_sources[k], age |-> 0]]
    ELSE [k \in Keys |-> IF c.locked_source = NoSource \/ c.locked_source_path # k
                         THEN NoLock
                         ELSE [source |-> c.locked_source, age |-> 0]]
Load(c) ==
    /\ loads < MaxLoads
    /\ loads' = loads + 1
    /\ source_locks' = LoadedLocks(c)
    /\ locked_source' = c.locked_source
    /\ locked_source_path' = c.locked_source_path

(* The preferences dialog: its constructor keeps the configuration, OK     *)
(* saves the present one, Cancel deletes all instruments and creates those *)
(* of the kept configuration again.                                        *)
OpenPreferences ==
    /\ orig_config = Closed
    /\ orig_config' = Generated
    /\ UNCHANGED <<treeVars, lockVars, file, loads>>

AcceptPreferences ==
    /\ orig_config # Closed
    /\ orig_config' = Closed
    /\ file' = Generated
    /\ UNCHANGED <<treeVars, lockVars, loads>>

CancelPreferences ==
    /\ orig_config # Closed
    /\ orig_config' = Closed
    /\ Load(orig_config)
    /\ UNCHANGED <<treeVars, file>>

(* A session starts with an empty tree and what the last one saved, which  *)
(* it does when the plugin is unloaded and not when the program crashes.   *)
Start(c) ==
    /\ Load(c)
    /\ file' = c
    /\ held' = [b \in Bases |-> {}]
    /\ alive' = [b \in Bases |-> {}]
    /\ orig_config' = Closed
Restart == Start(Generated)
CrashAndRestart == Start(file)

-----------------------------------------------------------------------------
(* The first session of this version: nothing is configured yet, or what   *)
(* an older version saved is read.                                         *)
Init ==
    /\ held = [b \in Bases |-> {}]
    /\ alive = [b \in Bases |-> {}]
    /\ file \in {EmptyFile} \cup OldFiles
    /\ source_locks = LoadedLocks(file)
    /\ locked_source = file.locked_source
    /\ locked_source_path = file.locked_source_path
    /\ orig_config = Closed
    /\ loads = IF file = EmptyFile THEN 0 ELSE 1

Next ==
    \/ \E e \in Sensors : Deliver(e[1], e[2]) \/ FallSilent(e[1], e[2])
    \/ Tick
    \/ \E k \in Keys : Resolve(k)
    \/ OpenPreferences \/ AcceptPreferences \/ CancelPreferences
    \/ Restart \/ CrashAndRestart

Spec == Init /\ [][Next]_vars

(* The clock runs, and an instrument that keeps getting data is processed  *)
(* by every frame that is drawn.  Only of keys with a persistent lock is   *)
(* anything ever awaited.                                                  *)
Fairness == WF_vars(Tick) /\ \A k \in Persistent : WF_vars(Resolve(k))
FairSpec == Spec /\ Fairness

-----------------------------------------------------------------------------
(* Properties.                                                             *)

(* The single lock that older versions of the configuration know is always *)
(* the lock of the key it claims to be of.                                 *)
MirrorAgrees ==
    locked_source_path # NoKey =>
        /\ source_locks[locked_source_path] # NoLock
        /\ locked_source = source_locks[locked_source_path].source

(* Whenever the configuration is written, reading it back gives exactly    *)
(* the persistent locks: none is lost, none moves to another key, and no   *)
(* session lock gets into the next session.                                *)
RoundTrip ==
    \A k \in Keys : LoadedLocks(Generated)[k] =
        IF k.mode = "lockpersist" /\ Locked(k)
        THEN [source |-> Entry(k).source, age |-> 0] ELSE NoLock

(* While an instrument lives, a session lock never changes its source, and *)
(* what the instrument reads comes from that source.                       *)
SessionLockKept ==
    [][\A k \in Keys : k.mode = "lockfirst" /\ Locked(k) /\ loads' = loads =>
          /\ Entry(k)'.source = Entry(k).source
          /\ Answer(k)' \in {Entry(k).source, NoSource}]_vars

(* A persistent lock changes its source only if that source has delivered  *)
(* nothing in the whole session, and never to one that has not either.     *)
PersistentLockKept ==
    [][\A k \in Keys : k.mode = "lockpersist" /\ Locked(k) /\ loads' = loads =>
          \/ Entry(k)'.source = Entry(k).source
          \/ /\ Entry(k).source \notin held[k.base]
             /\ Entry(k)'.source \in held[k.base] \cup {NoSource}]_vars

(* Keys with several sensors on their path: others have nothing to fall    *)
(* back to.                                                                *)
Contested == {k \in Persistent : \E s, t \in Candidates :
                 s # t /\ {<<k.base, s>>, <<k.base, t>>} \subseteq Sensors}

(* A persistent lock on a named source that does not come back is given up *)
(* for one that delivers.                                                  *)
MissingSourceFallsBack ==
    \A k \in Contested :
        (/\ Entry(k).source \in Sources \ held[k.base]
         /\ alive[k.base] # {})
        ~> (Entry(k).source \in held[k.base] \/ alive[k.base] = {})

(* A claim of the manual that the code refutes.                            *)

(* A persistent lock is kept "unless the source becomes permanently        *)
(* unavailable": a source that fell silent for good is given up while      *)
(* another one delivers.                                                   *)
SilentSourceFallsBack ==
    \A k \in Persistent :
        (/\ Locked(k)
         /\ Entry(k).source \notin alive[k.base]
         /\ alive[k.base] # {})
        ~> (Entry(k).source \in alive[k.base] \/ alive[k.base] = {})
=============================================================================
