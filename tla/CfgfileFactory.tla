---- MODULE CfgfileFactory ----
(***************************************************************************)
(* The cfgfile factory (discoverer/common/factory/cfgfile): it turns       *)
(* configurations into files of a directory that the beat's reloader       *)
(* watches, and remembers in memory which ones it deployed.  The worker of *)
(* the pod watcher makes one call at a time; the reloader reads the        *)
(* directory at any moment, also while a file is being written; the        *)
(* process may die at any moment and leaves the directory as it is.        *)
(*                                                                         *)
(* A file is known by the hash of its configuration, which is taken to be  *)
(* injective, so configurations stand for their own files.                 *)
(***************************************************************************)
EXTENDS Naturals, FiniteSets

CONSTANTS
    Config,     \* configurations the builders may give, each with its own file
    Foreign,    \* files of the directory without the factory's prefix or suffix
    MaxFaults   \* bound on the files whose last operation failed

File == Config \cup Foreign

ASSUME CfgfileAssumption == Config \cap Foreign = {} /\ MaxFaults \in Nat

VARIABLES
    up,       \* is the process running?
    cache,    \* cfgfileCache.cfgfiles
    call,     \* the call being executed: Idle, "start" or "write" of a configuration
    disk,     \* [File -> {"absent", "partial", "full"}]
    faults,   \* the configurations whose last file operation failed
    running   \* the reloader's registry: files, with how much of each was there

fvars == <<up, cache, call, disk, faults, running>>

Idle == [op |-> "idle"]
Calls == [op : {"start", "write"}, config : Config]

OnDisk == {f \in File : disk[f] # "absent"}
Whole == {f \in File : disk[f] = "full"}

MayFault(c) == Cardinality(faults \cup {c}) <= MaxFaults
----
(* The process *)

\* What newCfgfileFactory deletes of the directory: its own files.  Mutants: nothing;
\* everything.
CleanedNothing(ds) == {}
CleanedAll(ds) == ds
Cleaned(ds) == ds \cap Config

\* newCfgfileFactory, before the beater starts the reloader.  The errors of deleteFile
\* are dropped there.
Boot ==
    /\ ~up
    /\ up' = TRUE
    /\ \E stuck \in SUBSET (OnDisk \cap Config) :
          /\ Cardinality(stuck) <= MaxFaults
          /\ disk' = [f \in File |-> IF f \in Cleaned(OnDisk) \ stuck THEN "absent" ELSE disk[f]]
          /\ faults' = stuck
    /\ UNCHANGED <<cache, call, running>>

\* The process dies; memory is gone.
Crash ==
    /\ up
    /\ up' = FALSE /\ cache' = {} /\ call' = Idle /\ running' = {}
    /\ UNCHANGED <<disk, faults>>
----
(* Start, Stop and Restart *)

\* Start's entry: nothing to do for a cached configuration.
Start(c) ==
    /\ up /\ call = Idle
    /\ call' = [op |-> "start", config |-> c]
    /\ UNCHANGED <<up, cache, disk, faults, running>>

Cached ==
    /\ call.op = "start" /\ call.config \in cache
    /\ call' = Idle
    /\ UNCHANGED <<up, cache, disk, faults, running>>

\* ioutil.WriteFile truncates or creates the file first, or cannot.
Open ==
    /\ call.op = "start" /\ call.config \notin cache
    /\ \/ /\ disk' = [disk EXCEPT ![call.config] = "partial"]
          /\ call' = [call EXCEPT !.op = "write"]
          /\ UNCHANGED faults
       \/ /\ MayFault(call.config)
          /\ faults' = faults \cup {call.config}
          /\ call' = Idle
          /\ UNCHANGED disk
    /\ UNCHANGED <<up, cache, running>>

\* Mutants of Write: a short write counts as a success; the cache is filled before the
\* write is known to succeed.
WriteShort ==
    /\ call.op = "write" /\ call' = Idle
    /\ \/ disk' = [disk EXCEPT ![call.config] = "full"]
       \/ UNCHANGED disk
    /\ cache' = cache \cup {call.config}
    /\ UNCHANGED <<up, running, faults>>
WriteCachedFirst ==
    /\ call.op = "write" /\ call' = Idle
    /\ \/ disk' = [disk EXCEPT ![call.config] = "full"] /\ UNCHANGED faults
       \/ MayFault(call.config) /\ faults' = faults \cup {call.config} /\ UNCHANGED disk
    /\ cache' = cache \cup {call.config}
    /\ UNCHANGED <<up, running>>

\* The write is done, and only then is the configuration cached; or it fails and leaves a
\* part of the file behind.
Write ==
    /\ call.op = "write"
    /\ call' = Idle
    /\ \/ /\ disk' = [disk EXCEPT ![call.config] = "full"]
          /\ cache' = cache \cup {call.config}
          /\ faults' = faults \ {call.config}
       \/ /\ MayFault(call.config)
          /\ faults' = faults \cup {call.config}
          /\ UNCHANGED <<disk, cache>>
    /\ UNCHANGED <<up, running>>

\* Mutant of Removed: the name is dropped from the directory's map.
RemovedEntry(c) == [f \in File \ {c} |-> disk[f]]
Removed(c) == [disk EXCEPT ![c] = "absent"]

\* Mutant of StopThen: an error of Stop does not keep the rest from happening.
StopThenRegardless(c, next) ==
    /\ up /\ call = Idle
    /\ call' = next
    /\ \/ c \notin cache /\ UNCHANGED <<cache, disk, faults>>
       \/ c \in cache /\ disk' = Removed(c) /\ cache' = cache \ {c} /\ faults' = faults \ {c}
       \/ c \in cache /\ MayFault(c) /\ faults' = faults \cup {c} /\ UNCHANGED <<cache, disk>>
    /\ UNCHANGED <<up, running>>

\* Stop of c, going on with next: nothing for a configuration that is not cached; the
\* cache entry stays when the file cannot be removed.
StopThen(c, next) ==
    /\ up /\ call = Idle
    /\ \/ c \notin cache /\ call' = next /\ UNCHANGED <<cache, disk, faults>>
       \/ /\ c \in cache
          /\ disk' = Removed(c) /\ cache' = cache \ {c} /\ faults' = faults \ {c}
          /\ call' = next
       \/ /\ c \in cache /\ MayFault(c)
          /\ faults' = faults \cup {c}
          /\ UNCHANGED <<cache, disk, call>>
    /\ UNCHANGED <<up, running>>

Stop(c) == StopThen(c, Idle)

\* Restart: Start of the new configuration only when Stop of the old one gave no error.
Restart(old, new) == StopThen(old, [op |-> "start", config |-> new])
----
(* The reloader, external: at each period it runs what the directory holds.  A part of a *)
(* YAML file may not parse, or may parse as a smaller configuration.                     *)
Reload ==
    /\ up
    /\ \E some \in SUBSET (OnDisk \ Whole) :
          running' = (Whole \X {"full"}) \cup (some \X {"partial"})
    /\ UNCHANGED <<up, cache, call, disk, faults>>

FInit ==
    /\ up = FALSE /\ cache = {} /\ call = Idle /\ faults = {} /\ running = {}
    /\ disk = [f \in File |-> IF f \in Foreign THEN "full" ELSE "absent"]

Go == Cached \/ Open \/ Write

FNext ==
    \/ Boot \/ Crash \/ Cached \/ Open \/ Write \/ Reload
    \/ \E c \in Config : Start(c) \/ Stop(c)
    \/ \E old, new \in Config : Restart(old, new)

\* The worker finishes its call; the reloader scans again every period.
FSpec == FInit /\ [][FNext]_fvars /\ WF_fvars(Go) /\ WF_fvars(Reload)
----
(* Properties *)

FTypeOK ==
    /\ up \in BOOLEAN /\ cache \subseteq Config /\ faults \subseteq Config
    /\ call \in Calls \cup {Idle}
    /\ disk \in [File -> {"absent", "partial", "full"}]
    /\ running \subseteq File \X {"partial", "full"}

\* A configuration that counts as deployed, so that Start will never write it again, is
\* on disk in full, also after failed writes and removals (cfgfile.go:118-139, 174-180).
CacheOnDisk == cache \subseteq Whole

\* Once the factory is constructed, its directory holds no file of its own that it does
\* not know of: those of an earlier process are gone, and those of this one are cached,
\* being written, or had an operation fail (cfgfile.go:88-91, 96-183).
NothingLeftBehind ==
    up => \A c \in OnDisk \cap Config :
              c \in cache \/ c \in faults \/ call = [op |-> "write", config |-> c]

\* The static module files of the directory are never touched (cfgfile.go:195-199).
ForeignKept == Foreign \subseteq Whole

\* When the process runs on and no call changes the directory any more, the reloader ends
\* up running exactly the deployed configurations and the static ones, unless an error
\* was logged.
InSync == up /\ faults = {} => running = (cache \cup Foreign) \X {"full"}

ReloaderCatchesUp == <>[][FALSE]_<<up, cache, disk, faults>> => <>[]InSync

\* The factory keeps its promise to the builders through failing file operations and
\* crashes: an old configuration that cannot be removed is not joined by the new one, and
\* nothing fails in silence (cfgfile.go:96-193).
Promise == INSTANCE Factory WITH
    alive <- up,
    deployed <- cache,
    owed <- IF call = Idle THEN {} ELSE {call.config},
    reported <- faults

KeepsFactoryPromise == Promise!PSpec
====
