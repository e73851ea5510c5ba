---- MODULE Collectbeat ----
(***************************************************************************)
(* The life of the process around its discoverers (beater/metricbeat,      *)
(* beater/filebeat): New constructs them, Run creates the factory, starts  *)
(* for each discoverer one goroutine that runs Start and one that waits    *)
(* for `done' to run Stop, and then runs the beat inside; Stop comes from  *)
(* a signal handler at any time after New.                                 *)
(*                                                                         *)
(* Every discoverer appends its builders and appenders to the lists of one *)
(* Builders, without its lock: an append reads a list and stores the       *)
(* longer one.  What the goroutines of a pod watcher do is PodWatcher's    *)
(* matter; of them only what can end the process is kept.                  *)
(***************************************************************************)
EXTENDS Plugins

CONSTANTS
    Discoverer,     \* the registered discoverer plug-ins; "kubernetes" in the repository
    Configs,        \* the configurations of the discoverers that may be given
    NoParts, NoItem

Item == {"builder", "appender"} \X (Plugin \cup {Nil})

ASSUME CollectbeatAssumption ==
    /\ Configs \subseteq [Discoverer -> Settings \cup {NoSettings}]
    /\ NoParts \notin Parts /\ NoItem \notin Item

VARIABLES
    beat,       \* which of the two beats is run
    reloading,  \* config.modules or config.prospectors: "absent", "on" or "off"
    config,     \* [Discoverer -> Settings or NoSettings]
    made,       \* [Discoverer -> Parts or NoParts]: the discoverers InitDiscoverers gave
    main,       \* New and Run: where the main goroutine is
    starter,    \* Start(d): "none", "adding", "run" (in PodWatcher.Run), "gaveup"
    todo,       \* what Start(d) has still to append
    item,       \* what it is appending, or NoItem
    base,       \* the list it has read to append it to
    list,       \* Builders.builders and Builders.appenders
    waiter,     \* the goroutine that stops d: "none", "waiting", "stopped"
    stop,       \* Stop of the beater: "idle", "inner" (the beat inside is told), "done"
    closed,     \* the discoverers whose podQueue is closed
    crashed     \* a goroutine panicked

cvars == <<beat, reloading, config, made, main, starter, todo, item, base, list, waiter,
           stop, closed, crashed>>

Active == {d \in Discoverer : made[d] # NoParts}

Alive == ~crashed /\ main \notin {"failed", "returned"}

Items(p) == ({"builder"} \X p.builders) \cup ({"appender"} \X p.appenders)

OfKind(l, x) == {y \in l : y[1] = x[1]}
----
(* The main goroutine *)

\* InitDiscoverers: a discoverer that is not configured, or disabled, is left out.
Wished == {d \in Discoverer : config[d] # NoSettings /\ config[d].enabled}

Initialised(d) == IF d \in Wished THEN Constructed(beat, config[d]) ELSE {NoParts}

\* New: it fails if the beat inside or a discoverer cannot be constructed, and panics if a
\* constructor does.
New ==
    /\ Alive /\ main = "new"
    /\ \/ main' = "failed" /\ UNCHANGED <<made, crashed>>
       \/ /\ \E d \in Wished : MayPanic(beat, config[d])
          /\ crashed' = TRUE /\ UNCHANGED <<made, main>>
       \/ /\ main' = "setup" /\ UNCHANGED crashed
          /\ \E m \in [Discoverer -> UNION {Initialised(d) : d \in Discoverer}] :
                (\A d \in Discoverer : m[d] \in Initialised(d)) /\ made' = m
    /\ UNCHANGED <<beat, reloading, config, starter, todo, item, base, list, waiter, stop,
                   closed>>

\* InitFactory("cfgfile") gives a factory only if reloading is on, which it is by default.
FactoryGiven == reloading # "off"

\* The factory is created when there is a discoverer; its directory may be out of reach.
Setup ==
    /\ Alive /\ main = "setup"
    /\ \/ main' = "failed" /\ Active # {}
       \/ main' = "spawn" /\ (Active = {} \/ FactoryGiven)
    /\ UNCHANGED <<beat, reloading, config, made, starter, todo, item, base, list, waiter,
                   stop, closed, crashed>>

\* go Start(builder), and the goroutine that waits for done.
Spawn(d) ==
    /\ Alive /\ main = "spawn" /\ d \in Active /\ starter[d] = "none"
    /\ starter' = [starter EXCEPT ![d] = "adding"]
    /\ todo' = [todo EXCEPT ![d] = Items(made[d])]
    /\ waiter' = [waiter EXCEPT ![d] = "waiting"]
    /\ UNCHANGED <<beat, reloading, config, made, main, item, base, list, stop, closed, crashed>>

RunInner ==
    /\ Alive /\ main = "spawn" /\ \A d \in Active : starter[d] # "none"
    /\ main' = "inner"
    /\ UNCHANGED <<beat, reloading, config, made, starter, todo, item, base, list, waiter,
                   stop, closed, crashed>>

\* Mutant of InnerReturns: wg.Wait is left out, as in filebeat.
InnerReturnsAtOnce ==
    /\ main = "inner" /\ main' = "returned"
    /\ UNCHANGED <<beat, reloading, config, made, starter, todo, item, base, list, waiter,
                   stop, closed, crashed>>

\* The beat inside returns; its error is dropped.  Only metricbeat waits for the others.
InnerReturns ==
    /\ main = "inner"
    /\ main' = IF beat = "metricbeat" THEN "wait" ELSE "returned"
    /\ UNCHANGED <<beat, reloading, config, made, starter, todo, item, base, list, waiter,
                   stop, closed, crashed>>

InnerStops == Alive /\ stop # "idle" /\ InnerReturns
InnerFails == Alive /\ stop = "idle" /\ InnerReturns

\* wg.Wait
Waited ==
    /\ Alive /\ main = "wait" /\ \A d \in Active : waiter[d] = "stopped"
    /\ main' = "returned"
    /\ UNCHANGED <<beat, reloading, config, made, starter, todo, item, base, list, waiter,
                   stop, closed, crashed>>
----
(* Stop, called once, from a signal handler *)

StopInner ==
    /\ Alive /\ main # "new" /\ stop = "idle"
    /\ stop' = "inner"
    /\ UNCHANGED <<beat, reloading, config, made, main, starter, todo, item, base, list, waiter,
                   closed, crashed>>

\* Mutant of CloseDone: what filebeat does.
CloseDoneNever == Alive /\ stop = "inner" /\ UNCHANGED cvars

\* close(bt.done): metricbeat only.
CloseDone ==
    /\ Alive /\ beat = "metricbeat" /\ stop = "inner"
    /\ stop' = "done"
    /\ UNCHANGED <<beat, reloading, config, made, main, starter, todo, item, base, list, waiter,
                   closed, crashed>>
----
(* The goroutines of a discoverer *)

\* AddBuilder or AddAppender: the list is read ...
Load(d, x) ==
    /\ Alive /\ starter[d] = "adding" /\ item[d] = NoItem /\ x \in todo[d]
    /\ x[1] = "builder" \/ \A y \in todo[d] : y[1] = "appender"
    /\ item' = [item EXCEPT ![d] = x]
    /\ base' = [base EXCEPT ![d] = OfKind(list, x)]
    /\ UNCHANGED <<beat, reloading, config, made, main, starter, todo, list, waiter, stop,
                   closed, crashed>>

\* ... and the longer one stored.
Store(d) ==
    /\ Alive /\ item[d] # NoItem
    /\ list' = (list \ OfKind(list, item[d])) \cup base[d] \cup {item[d]}
    /\ todo' = [todo EXCEPT ![d] = @ \ {item[d]}]
    /\ item' = [item EXCEPT ![d] = NoItem]
    /\ UNCHANGED <<beat, reloading, config, made, main, starter, base, waiter, stop, closed,
                   crashed>>

\* Mutant of Watch: PodWatcher.Run before everything is added.
WatchAtOnce(d) ==
    /\ Alive /\ starter[d] = "adding"
    /\ starter' = [starter EXCEPT ![d] = "run"]
    /\ UNCHANGED <<beat, reloading, config, made, main, todo, item, base, list, waiter, stop,
                   closed, crashed>>

\* The end of Start: PodWatcher.Run, which starts the worker.
Watch(d) ==
    /\ Alive /\ starter[d] = "adding" /\ item[d] = NoItem /\ todo[d] = {}
    /\ starter' = [starter EXCEPT ![d] = "run"]
    /\ UNCHANGED <<beat, reloading, config, made, main, todo, item, base, list, waiter, stop,
                   closed, crashed>>

\* PodWatcher.Stop: closing a closed channel panics.
Close(d) == closed' = closed \cup {d} /\ crashed' = (d \in closed)

\* Run's ready_timeout passes: it stops the watcher and returns false, which Start ignores.
GiveUp(d) ==
    /\ Alive /\ starter[d] = "run"
    /\ starter' = [starter EXCEPT ![d] = "gaveup"]
    /\ Close(d)
    /\ UNCHANGED <<beat, reloading, config, made, main, todo, item, base, list, waiter, stop>>

\* The goroutine that waits for done.
StopDiscoverer(d) ==
    /\ Alive /\ stop = "done" /\ waiter[d] = "waiting"
    /\ waiter' = [waiter EXCEPT ![d] = "stopped"]
    /\ Close(d)
    /\ UNCHANGED <<beat, reloading, config, made, main, starter, todo, item, base, list, stop>>

\* A running watcher may panic: a pod is sent on the closed queue, the worker calls a nil
\* appender or reads a list that another discoverer is storing, or a builder, an appender
\* or the factory panics over what a pod or the API server says.  What causes are there at
\* a time is left open.
Panic(d) ==
    /\ Alive /\ starter[d] \in {"run", "gaveup"}
    /\ crashed' = TRUE
    /\ UNCHANGED <<beat, reloading, config, made, main, starter, todo, item, base, list, waiter,
                   stop, closed>>
----
CInit ==
    /\ beat \in {"metricbeat", "filebeat"} /\ reloading \in {"absent", "on", "off"}
    /\ config \in Configs
    /\ made = [d \in Discoverer |-> NoParts] /\ main = "new"
    /\ starter = [d \in Discoverer |-> "none"] /\ waiter = starter
    /\ todo = [d \in Discoverer |-> {}] /\ base = todo
    /\ item = [d \in Discoverer |-> NoItem]
    /\ list = {} /\ stop = "idle" /\ closed = {} /\ crashed = FALSE

Main == Setup \/ (\E d \in Discoverer : Spawn(d)) \/ RunInner \/ InnerStops \/ Waited

Start(d) == (\E x \in todo[d] : Load(d, x)) \/ Store(d) \/ Watch(d)

CNext ==
    \/ New \/ Main \/ InnerFails \/ StopInner \/ CloseDone
    \/ \E d \in Discoverer : Start(d) \/ GiveUp(d) \/ StopDiscoverer(d) \/ Panic(d)

\* Every runnable goroutine is scheduled, and the beat inside returns once it is told to
\* stop.  Nothing obliges anyone to call Stop, nor a timeout or a panic to happen.
CSpec ==
    /\ CInit /\ [][CNext]_cvars
    /\ WF_cvars(Main) /\ WF_cvars(CloseDone)
    /\ \A d \in Discoverer : WF_cvars(Start(d)) /\ WF_cvars(StopDiscoverer(d))
----
(* Properties *)

CTypeOK ==
    /\ beat \in {"metricbeat", "filebeat"} /\ reloading \in {"absent", "on", "off"}
    /\ config \in Configs
    /\ made \in [Discoverer -> Parts \cup {NoParts}]
    /\ main \in {"new", "setup", "spawn", "inner", "wait", "returned", "failed"}
    /\ starter \in [Discoverer -> {"none", "adding", "run", "gaveup"}]
    /\ todo \in [Discoverer -> SUBSET Item] /\ base \in [Discoverer -> SUBSET Item]
    /\ item \in [Discoverer -> Item \cup {NoItem}]
    /\ list \subseteq Item
    /\ waiter \in [Discoverer -> {"none", "waiting", "stopped"}]
    /\ stop \in {"idle", "inner", "done"}
    /\ closed \subseteq Discoverer /\ crashed \in BOOLEAN

\* The builders that are asked about pods exist, were constructed without an error, and
\* have their own configuration: the one of the settings, or the default registered under
\* their name (kubernetes.go:53-59, 138-153).
OwnDefaults == {<<n, DefaultBuilders(beat)[n]>> : n \in DefaultNames(beat)}

BuildersAsConfigured ==
    \A x \in list : x[1] = "builder" =>
        /\ x[2] \notin Broken
        /\ \E d \in Active : x[2] \in config[d].builders \cup OwnDefaults

\* Once a discoverer's worker takes pods, every builder its settings or the defaults name
\* is asked about them, unless it is unknown or its constructor failed: no pod slips
\* through while Start is still adding, or because another plug-in failed
\* (kubernetes.go:137-173, 186-197).  With a second discoverer an append may be lost.
Alone(d) == Active = {d}

Wanted(s) ==
    {e \in s.builders \cup (IF s.defaultBuilders THEN OwnDefaults ELSE {}) :
        e[1] \in RegisteredBuilders /\ e \notin Broken}

EveryBuilderAsked ==
    \A d \in Discoverer : Alone(d) /\ starter[d] \in {"run", "gaveup"} =>
        {"builder"} \X Wanted(config[d]) \subseteq list

\* metricbeat's Run returns only when the discoverers are stopped (metricbeat.go:122): also
\* when Stop comes before they are started, or while they are.
ReturnsAfterDiscoverers ==
    main = "returned" /\ beat = "metricbeat" => Active \subseteq closed

\* After Stop, Run ends, unless a panic ends the process first (metricbeat.go:63).
StopCompletes == stop # "idle" ~> ~Alive
====
