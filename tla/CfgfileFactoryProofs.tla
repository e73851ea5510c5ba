---- MODULE CfgfileFactoryProofs ----
(***************************************************************************)
(* The directory of the cfgfile factory agrees with its cache, for any     *)
(* configurations and any number of failed operations and crashes.         *)
(*                                                                         *)
(* The three properties are inductive with one addition: a process that is *)
(* not running has no cache and executes no call, so that the constructor  *)
(* starts from the directory alone.                                        *)
(***************************************************************************)
EXTENDS CfgfileFactory, TLAPS

DeadIsEmpty == ~up => cache = {} /\ call = Idle

FInv == FTypeOK /\ CacheOnDisk /\ NothingLeftBehind /\ ForeignKept /\ DeadIsEmpty

LEMMA FInitially == FInit => FInv
BY CfgfileAssumption
   DEF FInit, FInv, FTypeOK, CacheOnDisk, NothingLeftBehind, ForeignKept, DeadIsEmpty,
       File, OnDisk, Whole, Idle, Calls

LEMMA BootStep == FInv /\ Boot => FInv'
<1> SUFFICES ASSUME FInv, Boot PROVE FInv'
  OBVIOUS
<1> USE DEF FInv, FTypeOK
<1>1. PICK stuck \in SUBSET (OnDisk \cap Config) :
        /\ disk' = [f \in File |-> IF f \in Cleaned(OnDisk) \ stuck THEN "absent" ELSE disk[f]]
        /\ faults' = stuck
  BY DEF Boot
<1>2. up' = TRUE /\ cache' = {} /\ call' = Idle /\ running' = running
  BY DEF Boot, DeadIsEmpty
<1>3. \A f \in File : disk'[f] = IF f \in (OnDisk \cap Config) \ stuck THEN "absent" ELSE disk[f]
  BY <1>1 DEF Cleaned
<1>4. FTypeOK'
  BY <1>1, <1>2 DEF OnDisk
<1>5. CacheOnDisk'
  BY <1>2 DEF CacheOnDisk
<1>6. NothingLeftBehind'
  BY <1>1, <1>3 DEF NothingLeftBehind, OnDisk, File
<1>7. ForeignKept'
  BY <1>3, CfgfileAssumption DEF ForeignKept, Whole, OnDisk, File
<1> QED BY <1>2, <1>4, <1>5, <1>6, <1>7 DEF DeadIsEmpty

LEMMA CrashStep == FInv /\ Crash => FInv'
BY DEF FInv, FTypeOK, CacheOnDisk, NothingLeftBehind, ForeignKept, DeadIsEmpty, Crash, Whole

LEMMA OpenStep == FInv /\ Open => FInv'
<1> SUFFICES ASSUME FInv, Open PROVE FInv'
  OBVIOUS
<1> USE DEF FInv, FTypeOK
<1> DEFINE c == call.config
<1>1. call \in Calls /\ c \in Config /\ c \notin cache /\ c \notin Foreign /\ up
  BY CfgfileAssumption DEF Open, Idle, Calls, DeadIsEmpty
<1>2. CASE /\ disk' = [disk EXCEPT ![c] = "partial"]
           /\ call' = [call EXCEPT !.op = "write"] /\ UNCHANGED faults
  <2>1. call' = [op |-> "write", config |-> c]
    BY <1>1, <1>2 DEF Calls
  <2>2. \A f \in File \ {c} : disk'[f] = disk[f]
    BY <1>2
  <2>3. UNCHANGED <<up, cache, running>>
    BY DEF Open
  <2>4. FTypeOK'
    BY <1>1, <1>2, <2>1, <2>3 DEF Calls
  <2>5. CacheOnDisk' /\ ForeignKept'
    BY <1>1, <2>2, <2>3 DEF CacheOnDisk, ForeignKept, Whole, File
  <2>6. NothingLeftBehind'
    BY <1>1, <1>2, <2>1, <2>2, <2>3
       DEF NothingLeftBehind, OnDisk, File, Calls, Open
  <2> QED BY <1>1, <2>3, <2>4, <2>5, <2>6 DEF DeadIsEmpty
<1>3. CASE faults' = faults \cup {c} /\ call' = Idle /\ UNCHANGED disk
  <2>1. UNCHANGED <<up, cache, running>>
    BY DEF Open
  <2>2. NothingLeftBehind'
    BY <1>1, <1>3, <2>1 DEF NothingLeftBehind, OnDisk, Open, Calls
  <2> QED BY <1>1, <1>3, <2>1, <2>2
          DEF CacheOnDisk, ForeignKept, Whole, DeadIsEmpty, Idle
<1> QED BY <1>2, <1>3 DEF Open

LEMMA WriteStep == FInv /\ Write => FInv'
<1> SUFFICES ASSUME FInv, Write PROVE FInv'
  OBVIOUS
<1> USE DEF FInv, FTypeOK
<1> DEFINE c == call.config
<1>1. call = [op |-> "write", config |-> c] /\ c \in Config /\ c \notin Foreign /\ up
  BY CfgfileAssumption DEF Write, Idle, Calls, DeadIsEmpty
<1>2. UNCHANGED <<up, running>> /\ call' = Idle
  BY DEF Write
<1>3. CASE /\ disk' = [disk EXCEPT ![c] = "full"]
           /\ cache' = cache \cup {c} /\ faults' = faults \ {c}
  <2>1. \A f \in File : disk'[f] = IF f = c THEN "full" ELSE disk[f]
    BY <1>3
  <2>2. FTypeOK'
    BY <1>1, <1>2, <1>3
  <2>3. CacheOnDisk' /\ ForeignKept'
    BY <1>1, <1>3, <2>1 DEF CacheOnDisk, ForeignKept, Whole, File
  <2>4. NothingLeftBehind'
    BY <1>1, <1>2, <1>3, <2>1 DEF NothingLeftBehind, OnDisk, File
  <2> QED BY <1>1, <1>2, <2>2, <2>3, <2>4 DEF DeadIsEmpty
<1>4. CASE faults' = faults \cup {c} /\ UNCHANGED <<disk, cache>>
  <2>1. NothingLeftBehind'
    BY <1>1, <1>2, <1>4 DEF NothingLeftBehind, OnDisk
  <2> QED BY <1>1, <1>2, <1>4, <2>1 DEF CacheOnDisk, ForeignKept, Whole, DeadIsEmpty
<1> QED BY <1>3, <1>4 DEF Write

LEMMA StopStep ==
    ASSUME NEW old \in Config, NEW next \in Calls \cup {Idle}
    PROVE  FInv /\ StopThen(old, next) => FInv'
<1> SUFFICES ASSUME FInv, StopThen(old, next) PROVE FInv'
  OBVIOUS
<1> USE DEF FInv, FTypeOK
<1>1. up /\ call = Idle /\ UNCHANGED <<up, running>> /\ old \notin Foreign
  BY CfgfileAssumption DEF StopThen
<1>2. CASE call' = next /\ UNCHANGED <<cache, disk, faults>>
  BY <1>1, <1>2
     DEF CacheOnDisk, NothingLeftBehind, ForeignKept, DeadIsEmpty, Whole, OnDisk, Idle
<1>3. CASE /\ disk' = Removed(old) /\ cache' = cache \ {old} /\ faults' = faults \ {old}
           /\ call' = next
  <2>1. \A f \in File : disk'[f] = IF f = old THEN "absent" ELSE disk[f]
    BY <1>3 DEF Removed
  <2>2. FTypeOK'
    BY <1>1, <1>3 DEF Removed
  <2>3. CacheOnDisk' /\ ForeignKept'
    BY <1>1, <1>3, <2>1 DEF CacheOnDisk, ForeignKept, Whole, File
  <2>4. NothingLeftBehind'
    BY <1>1, <1>3, <2>1 DEF NothingLeftBehind, OnDisk, File, Idle
  <2> QED BY <1>1, <2>2, <2>3, <2>4 DEF DeadIsEmpty
<1>4. CASE faults' = faults \cup {old} /\ UNCHANGED <<cache, disk, call>>
  BY <1>1, <1>4 DEF CacheOnDisk, NothingLeftBehind, ForeignKept, DeadIsEmpty, Whole, OnDisk
<1> QED BY <1>2, <1>3, <1>4 DEF StopThen

LEMMA FInductive == FInv /\ [FNext]_fvars => FInv'
<1> SUFFICES ASSUME FInv, [FNext]_fvars PROVE FInv'
  OBVIOUS
<1>1. CASE Cached
  BY <1>1 DEF Cached, FInv, FTypeOK, CacheOnDisk, NothingLeftBehind, ForeignKept, DeadIsEmpty,
              Whole, OnDisk, Idle
<1>2. CASE Reload
  <2>1. running' \subseteq File \X {"partial", "full"}
    BY <1>2 DEF Reload, Whole, OnDisk
  <2> QED BY <1>2, <2>1 DEF Reload, FInv, FTypeOK, CacheOnDisk, NothingLeftBehind, ForeignKept,
                            DeadIsEmpty, Whole, OnDisk
<1>3. ASSUME NEW c \in Config, Start(c) PROVE FInv'
  BY <1>3 DEF Start, FInv, FTypeOK, CacheOnDisk, NothingLeftBehind, ForeignKept, DeadIsEmpty,
              Whole, OnDisk, Idle, Calls
<1>4. ASSUME NEW c \in Config, Stop(c) PROVE FInv'
  BY <1>4, StopStep DEF Stop
<1>5. ASSUME NEW old \in Config, NEW new \in Config, Restart(old, new) PROVE FInv'
  <2>1. [op |-> "start", config |-> new] \in Calls
    BY DEF Calls
  <2> QED BY <1>5, <2>1, StopStep DEF Restart
<1>6. CASE UNCHANGED fvars
  BY <1>6 DEF fvars, FInv, FTypeOK, CacheOnDisk, NothingLeftBehind, ForeignKept, DeadIsEmpty,
              Whole, OnDisk
<1> QED BY <1>1, <1>2, <1>3, <1>4, <1>5, <1>6, BootStep, CrashStep, OpenStep, WriteStep
        DEF FNext

LEMMA FInvariant == FSpec => []FInv
<1> QED BY FInitially, FInductive, PTL DEF FSpec

\* The factory's state is well typed.
THEOREM FTypeCorrect == FSpec => []FTypeOK
<1>1. FInv => FTypeOK
  BY DEF FInv
<1> QED BY <1>1, FInvariant, PTL

\* Whatever operations fail and whenever the process dies, a configuration that counts as
\* deployed is on disk in full (cfgfile.go:118-139, 174-180).
THEOREM CachedIsDeployed == FSpec => []CacheOnDisk
<1>1. FInv => CacheOnDisk
  BY DEF FInv
<1> QED BY <1>1, FInvariant, PTL

\* A running factory knows of each of its files in the directory, those of earlier
\* processes included, or an operation on the file failed (cfgfile.go:88-91, 96-183).
THEOREM NoLeftovers == FSpec => []NothingLeftBehind
<1>1. FInv => NothingLeftBehind
  BY DEF FInv
<1> QED BY <1>1, FInvariant, PTL

\* The files that are not the factory's are never touched (cfgfile.go:195-199).
THEOREM ForeignUntouched == FSpec => []ForeignKept
<1>1. FInv => ForeignKept
  BY DEF FInv
<1> QED BY <1>1, FInvariant, PTL
----
(* What a scan of the reloader finds, at any moment of a call *)

\* Every deployed and static configuration, in full; of anything else, only what is just
\* being written or had an operation fail.
Scanned(r) ==
    /\ (cache \cup Foreign) \X {"full"} \subseteq r
    /\ \A x \in r : \/ x[1] \in cache \cup Foreign /\ x[2] = "full"
                    \/ x[1] \in faults
                    \/ call = [op |-> "write", config |-> x[1]]

ScansFindTheDeployed ==
    [][Reload => /\ Scanned(running')
                 /\ faults = {} /\ call.op # "write" => InSync']_fvars

LEMMA ScanFinds == FInv /\ Reload => Scanned(running')
<1> SUFFICES ASSUME FInv, Reload PROVE Scanned(running')
  OBVIOUS
<1>1. PICK some \in SUBSET (OnDisk \ Whole) :
        running' = (Whole \X {"full"}) \cup (some \X {"partial"})
  BY DEF Reload
<1>2. cache \cup Foreign \subseteq Whole /\ up
  BY DEF FInv, CacheOnDisk, ForeignKept, Reload
<1>3. ASSUME NEW x \in running'
      PROVE  \/ x[1] \in cache \cup Foreign /\ x[2] = "full"
             \/ x[1] \in faults
             \/ call = [op |-> "write", config |-> x[1]]
  <2>1. x[1] \in OnDisk /\ (x[1] \in Whole => x[2] = "full")
    BY <1>1, <1>3 DEF Whole, OnDisk
  <2>2. CASE x[1] \in Foreign
    BY <1>2, <2>1, <2>2
  <2>3. CASE x[1] \notin Foreign
    <3>1. x[1] \in OnDisk \cap Config
      BY <2>1, <2>3 DEF OnDisk, File
    <3>2. x[1] \in cache => x[2] = "full"
      BY <1>2, <2>1
    <3> QED BY <1>2, <3>1, <3>2 DEF FInv, NothingLeftBehind
  <2> QED BY <2>2, <2>3
<1> QED BY <1>1, <1>2, <1>3 DEF Scanned

\* Whenever the reloader scans, also in the middle of a call, it finds every deployed
\* configuration in full, and what it finds beyond them is being written or was logged as
\* failed; with neither, it runs just what is deployed (cfgfile.go:96-183).
THEOREM ScansAreFaithful == FSpec => ScansFindTheDeployed
<1>1. FInv /\ [FNext]_fvars =>
        [Reload => /\ Scanned(running')
                   /\ faults = {} /\ call.op # "write" => InSync']_fvars
  <2> SUFFICES ASSUME FInv, Reload
               PROVE  /\ Scanned(running')
                      /\ faults = {} /\ call.op # "write" => InSync'
    OBVIOUS
  <2>1. Scanned(running')
    BY ScanFinds
  <2>2. ASSUME faults = {}, call.op # "write" PROVE InSync'
    <3>1. \A x \in running' : x[1] \in cache \cup Foreign /\ x[2] = "full"
      BY <2>1, <2>2 DEF Scanned
    <3>2. \A x \in running' : x = <<x[1], x[2]>>
      BY DEF Reload
    <3>3. running' = (cache \cup Foreign) \X {"full"}
      BY <2>1, <3>1, <3>2 DEF Scanned
    <3>4. cache' = cache
      BY DEF Reload
    <3> QED BY <3>3, <3>4 DEF InSync
  <2> QED BY <2>1, <2>2
<1> QED BY <1>1, FInvariant, PTL DEF FSpec, ScansFindTheDeployed
----
(* CfgfileFactory implements Factory. *)

Owed == IF call = Idle THEN {} ELSE {call.config}

\* A call of Start takes effect in Cached or at the end of Write; opening the file is not
\* visible in the promise, unless it fails.
LEMMA CallMaps == FInv /\ (Cached \/ Open \/ Write) => [Promise!PNext]_(Promise!pvars)
<1> SUFFICES ASSUME FInv, Cached \/ Open \/ Write
             PROVE  Promise!PNext \/ UNCHANGED Promise!pvars
  OBVIOUS
<1> USE DEF FInv, FTypeOK
<1> DEFINE c == call.config
<1>1. call \in Calls /\ c \in Config /\ Owed = {c} /\ up
  BY DEF Cached, Open, Write, Idle, Calls, DeadIsEmpty, Owed
<1>2. ASSUME call' = Idle PROVE Owed' = {}
  BY <1>2 DEF Owed
<1>3. CASE Cached
  <2>1. Promise!Deploy(c)
    BY <1>1, <1>2, <1>3 DEF Cached, Promise!Deploy, Owed
  <2> QED BY <1>1, <2>1 DEF Promise!PNext
<1>4. CASE Open
  <2>1. CASE call' = [call EXCEPT !.op = "write"] /\ UNCHANGED faults
    <3>1. Owed' = Owed
      BY <1>1, <2>1 DEF Owed, Calls, Idle
    <3> QED BY <1>4, <2>1, <3>1 DEF Open, Promise!pvars, Owed
  <2>2. CASE faults' = faults \cup {c} /\ call' = Idle
    <3>1. Promise!GiveUp
      BY <1>1, <1>2, <1>4, <2>2 DEF Open, Promise!GiveUp, Owed
    <3> QED BY <3>1 DEF Promise!PNext
  <2> QED BY <1>4, <2>1, <2>2 DEF Open
<1>5. CASE Write
  <2>1. call' = Idle /\ UNCHANGED up
    BY <1>5 DEF Write
  <2>2. CASE cache' = cache \cup {c} /\ faults' = faults \ {c}
    <3>1. Promise!Deploy(c)
      BY <1>1, <1>2, <2>1, <2>2 DEF Promise!Deploy, Owed
    <3> QED BY <1>1, <3>1 DEF Promise!PNext
  <2>3. CASE faults' = faults \cup {c} /\ UNCHANGED cache
    <3>1. Promise!GiveUp
      BY <1>1, <1>2, <2>1, <2>3 DEF Promise!GiveUp, Owed
    <3> QED BY <3>1 DEF Promise!PNext
  <2> QED BY <1>5, <2>2, <2>3 DEF Write
<1> QED BY <1>3, <1>4, <1>5

\* Stop, and the part of Restart that stops: with an error, the old configuration stays and
\* the new one is not owed.
LEMMA StopMaps ==
    ASSUME NEW old \in Config, NEW next \in Calls \cup {Idle}
    PROVE  FInv /\ StopThen(old, next) => [Promise!PNext]_(Promise!pvars)
<1> SUFFICES ASSUME FInv, StopThen(old, next)
             PROVE  Promise!PNext \/ UNCHANGED Promise!pvars
  OBVIOUS
<1>1. up /\ call = Idle /\ UNCHANGED up /\ Owed = {}
  BY DEF StopThen, Owed
<1>2. CASE call' = next /\ cache' = cache \ {old} /\ faults' \in {faults, faults \ {old}}
  <2>1. CASE next = Idle
    <3>1. Owed' = {}
      BY <1>2, <2>1 DEF Owed
    <3>2. Promise!Withdraw(old, {})
      BY <1>1, <1>2, <3>1 DEF Promise!Withdraw, Owed
    <3> QED BY <3>2 DEF Promise!PNext
  <2>2. CASE next # Idle
    <3>1. next.config \in Config /\ Owed' = {next.config}
      BY <1>2, <2>2 DEF Owed, Calls
    <3>2. Promise!Withdraw(old, {next.config})
      BY <1>1, <1>2, <3>1 DEF Promise!Withdraw, Owed
    <3> QED BY <3>1, <3>2 DEF Promise!PNext
  <2> QED BY <2>1, <2>2
<1>3. CASE old \in cache /\ faults' = faults \cup {old} /\ UNCHANGED <<cache, call>>
  <2>1. Owed' = {}
    BY <1>1, <1>3 DEF Owed
  <2>2. Promise!Refuse(old)
    BY <1>1, <1>3, <2>1 DEF Promise!Refuse, Owed
  <2> QED BY <2>2 DEF Promise!PNext
<1>4. CASE old \notin cache /\ call' = next /\ UNCHANGED <<cache, faults>>
  <2>1. cache' = cache \ {old}
    BY <1>4
  <2> QED BY <1>2, <1>4, <2>1
<1> QED BY <1>2, <1>3, <1>4 DEF StopThen

LEMMA StepMaps == FInv /\ [FNext]_fvars => [Promise!PNext]_(Promise!pvars)
<1> SUFFICES ASSUME FInv, [FNext]_fvars
             PROVE  Promise!PNext \/ UNCHANGED Promise!pvars
  OBVIOUS
<1>1. CASE Boot
  <2>1. cache = {} /\ Owed = {} /\ Owed' = {}
    BY <1>1 DEF Boot, FInv, DeadIsEmpty, Owed
  <2>2. PICK stuck \in SUBSET (OnDisk \cap Config) : faults' = stuck
    BY <1>1 DEF Boot
  <2>3. Promise!StartOver
    BY <1>1, <2>1, <2>2 DEF Boot, Promise!StartOver, Owed
  <2> QED BY <2>3 DEF Promise!PNext
<1>2. CASE Crash
  <2>1. Promise!Die
    BY <1>2 DEF Crash, Promise!Die
  <2> QED BY <2>1 DEF Promise!PNext
<1>3. ASSUME NEW c \in Config, Start(c) PROVE Promise!PNext
  <2>1. Owed = {} /\ Owed' = {c} /\ {c} \in SUBSET Config
    BY <1>3 DEF Start, Owed, Idle
  <2>2. Promise!Ask({c})
    BY <1>3, <2>1 DEF Start, Promise!Ask, Owed
  <2> QED BY <2>1, <2>2 DEF Promise!PNext
<1>4. ASSUME NEW c \in Config, Stop(c) PROVE Promise!PNext \/ UNCHANGED Promise!pvars
  BY <1>4, StopMaps DEF Stop
<1>5. ASSUME NEW old \in Config, NEW new \in Config, Restart(old, new)
      PROVE  Promise!PNext \/ UNCHANGED Promise!pvars
  <2>1. [op |-> "start", config |-> new] \in Calls
    BY DEF Calls
  <2> QED BY <1>5, <2>1, StopMaps DEF Restart
<1>6. CASE Reload
  BY <1>6 DEF Reload, Promise!pvars
<1>7. CASE UNCHANGED fvars
  BY <1>7 DEF fvars, Promise!pvars
<1> QED BY <1>1, <1>2, <1>3, <1>4, <1>5, <1>6, <1>7, CallMaps DEF FNext

\* Through any failures and crashes the factory does for its callers what Factory promises:
\* nothing is deployed unasked, a replacement is not deployed beside what it replaces, and
\* what was not done is reported (cfgfile.go:96-193).
THEOREM CfgfileImplementsFactory == FSpec => KeepsFactoryPromise
<1>1. FInit => Promise!PInit
  BY DEF FInit, Promise!PInit
<1> QED BY <1>1, StepMaps, FInvariant, PTL DEF FSpec, KeepsFactoryPromise, Promise!PSpec
====
