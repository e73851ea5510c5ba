---- MODULE RunnerFactory ----
(***************************************************************************)
(* The runner factory (discoverer/common/factory/runner): it creates and   *)
(* runs a module for each configuration in the process itself, and         *)
(* remembers the runners by the hash of their configurations under a       *)
(* mutex.  Its caller is the worker of the pod watcher, through Builders:  *)
(* Start and Stop with the configurations of a pod, Restart with the       *)
(* configurations of the graphite server before and after a change.  The   *)
(* builders remember none of them: what to stop is built again, and comes  *)
(* out in another order when it lists a Go map (default metric sets, the   *)
(* templates of the server), which is another configuration to the factory.*)
(*                                                                         *)
(* A step is what a call does between two points where the mutex is free,  *)
(* and is disabled while the mutex is held.  Hashes are taken to be        *)
(* injective.                                                              *)
(***************************************************************************)
EXTENDS Naturals, Sequences, SequencesExt

CONSTANTS
    Pod,        \* pods, as a poller builder reads them
    Lists,      \* what it may give for each, a sequence of configurations
    Registry,   \* contents of the graphite builder's registry
    Built,      \* what ModuleConfig may give for each, a configuration of the server
    MaxRunning  \* bound on the runners of one server configuration

Of(p) == UNION {ToSet(l) : l \in Lists[p]}
Poller == UNION {Of(p) : p \in Pod}
Server == UNION {Built[k] : k \in Registry}
Config == Poller \cup Server

\* Every configuration carries its pod's metadata, and a pod's configurations differ; so
\* do the servers of two registries.
ASSUME RunnerAssumption ==
    /\ Poller \cap Server = {}
    /\ \A p \in Pod : \A l \in Lists[p] : l \in Seq(Poller) /\ l # <<>> /\ IsInjective(l)
    /\ \A p, q \in Pod : p # q => Of(p) \cap Of(q) = {}
    /\ \A j, k \in Registry : j # k => Built[j] \cap Built[k] = {}
    /\ MaxRunning \in Nat

VARIABLES
    runners,  \* runnerCache.runners: the configurations that have an entry
    locked,   \* runnerCache.Mutex
    running,  \* [Config -> Nat]: how many started runners each configuration has
    call,     \* the call being executed and the configurations it still has to handle
    failed,   \* the configurations whose latest start was given up with an error
    known,    \* the pods the caller has started
    asked     \* what the registry holds

rvars == <<runners, locked, running, call, failed, known, asked>>

Idle == [op |-> "idle", todo |-> <<>>]

\* What is left of a call c.  Mutant: it does not end.
RestUnended(c) == [c EXCEPT !.todo = Tail(@)]
Rest(c) == IF Len(c.todo) = 1 THEN Idle ELSE [c EXCEPT !.todo = Tail(@)]
----
(* The caller *)

StartPod(p) ==
    /\ call = Idle /\ p \notin known
    /\ known' = known \cup {p}
    /\ \E l \in Lists[p] : call' = [op |-> "start", todo |-> l]
    /\ UNCHANGED <<runners, locked, running, failed, asked>>

StopPod(p) ==
    /\ call = Idle /\ p \in known
    /\ known' = known \ {p}
    /\ \E l \in Lists[p] : call' = [op |-> "stop", todo |-> l]
    /\ UNCHANGED <<runners, locked, running, failed, asked>>

\* The registry comes to hold k, and ModuleConfig is asked before and after.
RestartServer(k) ==
    /\ call = Idle
    /\ \A s \in Server : running[s] <= MaxRunning
    /\ asked' = k
    /\ \E old \in Built[asked], new \in Built[k] :
          call' = [op |-> "compare", todo |-> <<old, new>>]
    /\ UNCHANGED <<runners, locked, running, failed, known>>
----
(* The factory *)

\* Mutant of StartOne: the runner is not remembered.
StartOneForgotten ==
    /\ call.op = "start" /\ ~locked
    /\ LET c == Head(call.todo) IN
          /\ running' = [running EXCEPT ![c] = @ + 1]
          /\ failed' = failed \ {c}
    /\ call' = Rest(call)
    /\ UNCHANGED <<runners, locked, known, asked>>

\* Start of one configuration, and the last part of Restart.
StartOne ==
    /\ call.op = "start" /\ ~locked
    /\ LET c == Head(call.todo) IN
          /\ running' = [running EXCEPT ![c] = @ + 1]
          /\ runners' = runners \cup {c}
          /\ failed' = failed \ {c}
    /\ call' = Rest(call)
    /\ UNCHANGED <<locked, known, asked>>

\* Mutant of CreateFails: the error is logged and not returned.
CreateFailsSilently ==
    /\ call.op = "start"
    /\ call' = Idle
    /\ UNCHANGED <<runners, locked, running, failed, known, asked>>

\* buildModuleRunner gives an error, outside the lock: the call is given up.
CreateFails ==
    /\ call.op = "start"
    /\ failed' = failed \cup ToSet(call.todo)
    /\ call' = Idle
    /\ UNCHANGED <<runners, locked, running, known, asked>>

Stopped(c) == [running EXCEPT ![c] = IF c \in runners THEN @ - 1 ELSE @]

\* Stop of one configuration.  The mutex is locked and never unlocked.
StopOne ==
    /\ call.op = "stop" /\ ~locked
    /\ locked' = TRUE
    /\ running' = Stopped(Head(call.todo))
    /\ runners' = runners \ {Head(call.todo)}
    /\ call' = Rest(call)
    /\ UNCHANGED <<failed, known, asked>>

\* Mutants of Compare and Swap: an unchanged configuration is restarted; the old runner
\* is forgotten without being stopped.
CompareNothing ==
    /\ call.op = "compare" /\ ~locked
    /\ call' = [call EXCEPT !.op = "swap"]
    /\ UNCHANGED <<runners, locked, running, failed, known, asked>>
SwapWithoutStop ==
    /\ call.op = "swap" /\ ~locked
    /\ runners' = runners \ {call.todo[1]}
    /\ call' = [op |-> "start", todo |-> <<call.todo[2]>>]
    /\ UNCHANGED <<locked, running, failed, known, asked>>

\* Restart: nothing to do when the configuration is the same and is running.
Compare ==
    /\ call.op = "compare" /\ ~locked
    /\ call' = IF call.todo[1] = call.todo[2] /\ call.todo[1] \in runners
               THEN Idle ELSE [call EXCEPT !.op = "swap"]
    /\ UNCHANGED <<runners, locked, running, failed, known, asked>>

\* Restart: stop the old runner if there is one, then start the new one.
Swap ==
    /\ call.op = "swap" /\ ~locked
    /\ running' = Stopped(call.todo[1])
    /\ runners' = runners \ {call.todo[1]}
    /\ call' = [op |-> "start", todo |-> <<call.todo[2]>>]
    /\ UNCHANGED <<locked, failed, known, asked>>
----
RInit ==
    /\ runners = {} /\ locked = FALSE /\ running = [c \in Config |-> 0]
    /\ call = Idle /\ failed = {} /\ known = {}
    /\ asked \in Registry

RNext ==
    \/ StartOne \/ CreateFails \/ StopOne \/ Compare \/ Swap
    \/ \E p \in Pod : StartPod(p) \/ StopPod(p)
    \/ \E k \in Registry : RestartServer(k)

\* The worker goes on with a call unless the mutex blocks it; nothing makes a creation fail.
RSpec == RInit /\ [][RNext]_rvars /\ WF_rvars(StartOne \/ StopOne \/ Compare \/ Swap)
----
(* Properties *)

RTypeOK ==
    /\ runners \subseteq Config /\ locked \in BOOLEAN
    /\ running \in [Config -> Nat] /\ failed \subseteq Config
    /\ call.op \in {"idle", "start", "stop", "compare", "swap"}
    /\ ToSet(call.todo) \subseteq Config /\ (call.todo = <<>>) = (call.op = "idle")
    /\ known \subseteq Pod /\ asked \in Registry

\* The configurations that are built alike each time.  With two templates in the registry
\* that of the server is not.
Steady(c) == \A k \in Registry : c \in Built[k] => Built[k] = {c}

\* Every started runner can be found again in order to be stopped: the map has exactly
\* the running ones, and none was overwritten while it ran (runner.go:61-65, 102-120).
\* Only a server of several templates can be lost so: the old one is not found in the
\* order it is rebuilt in, and the new one comes out in the order that runs.
NothingLeaks ==
    \A c \in Config : Steady(c) => running[c] = IF c \in runners THEN 1 ELSE 0

\* Two servers run side by side only when one of them has several templates and was not
\* found when it was to be replaced, never in the middle of a restart or after one that
\* failed: they would contend for the port (builders.go:67, runner.go:102-121).
OneServerRuns ==
    \A s, t \in Server :
        running[s] > 0 /\ running[t] > 0 => s = t \/ ~Steady(s) \/ ~Steady(t)

\* "Do not restart the module if there is no change" (runner.go:93): a server of at most
\* one template is stopped only when the registry asks for another.
NoNeedlessRestart ==
    [][\A s \in Server : Steady(s) /\ running[s] > 0 /\ running'[s] = 0
          => s \notin Built[asked]]_rvars

\* The factory keeps its promise to the builders: Restart has stopped the old runner by the
\* time it owes the new one, and what could not be created is reported (runner.go:45-124).
Promise == INSTANCE Factory WITH
    alive <- TRUE,
    deployed <- runners,
    owed <- IF call.op = "start" THEN ToSet(call.todo) ELSE {},
    reported <- failed

KeepsFactoryPromise == Promise!PSpec

\* README.md:120: "Once the Pod spec has been annotated and the Pod is deployed, we take
\* care of collecting metrics from the specified endpoint": what Start or Restart is
\* called with is run, or its error logged.
EveryStartIsServed ==
    \A c \in Config :
        call.op = "start" /\ c \in ToSet(call.todo) ~> running[c] > 0 \/ c \in failed
====
