---- MODULE PodWatcher ----
(***************************************************************************)
(* The goroutines of a PodWatcher (discoverer/kubernetes/podwatcher.go):   *)
(* the syncer that LISTs the node's pods once, the watcher that follows    *)
(* the WATCH and reconnects when it breaks, the worker that applies pod    *)
(* objects to the store of module PodStore, and Run, which waits for the   *)
(* first sync or gives up.  Both producers feed the worker through the     *)
(* bounded channel podQueue, which Stop closes.                            *)
(*                                                                         *)
(* The API server is external: the node's pods, a global revision, a LIST  *)
(* that answers with a snapshot, and a WATCH without a resourceVersion,    *)
(* which starts with one event per existing pod and then follows changes.  *)
(***************************************************************************)
EXTENDS PodStore, Sequences, SequencesExt

CONSTANTS
    QueueCap,         \* capacity of podQueue (10 in the code)
    MaxRevision,      \* bound on changes in the cluster
    MaxBreaks,        \* bound on broken watches
    ImmediateDelete,  \* may a pod be deleted without a grace period first?
    MayTimeout,       \* may ready_timeout fire before the first sync is done?
    MayStop           \* may the beater stop the discoverer?

ASSUME WatcherAssumption ==
    /\ QueueCap \in Nat \ {0} /\ MaxRevision \in Nat /\ MaxBreaks \in Nat
    /\ ImmediateDelete \in BOOLEAN /\ MayTimeout \in BOOLEAN /\ MayStop \in BOOLEAN
    /\ Version \subseteq Nat /\ IsFiniteSet(UID)

VARIABLES
    api,        \* [UID -> Pod or NoPod]: the node's pods in the API server
    revision,   \* its global revision
    gone,       \* UIDs deleted for good; UIDs are never reused
    breaks,     \* broken watches so far
    queue,      \* podQueue
    closed,     \* has podQueue been closed?
    cancelled,  \* has the context been cancelled?
    run,        \* Run: "select", "true", "false" (what it returned)
    syncer,     \* syncPods: "list", "send", "synced"
    listed,     \* the pods of the LIST still to be sent
    watcher,    \* watchPods: "off", "connect", "next", "send"
    stream,     \* events of the current watch not yet returned by Next
    held,       \* the event watchPods is sending, or NoPod
    worker,     \* worker: "range", "exited"
    stopper,    \* callers of Stop ("run" on timeout, "beater"): "idle", "cancelled", "done"
    crashed     \* a goroutine panicked: the process is gone

cluster == <<api, revision, gone>>
control == <<run, syncer, listed, watcher, stream, held, worker, stopper, breaks>>
chan == <<queue, closed, cancelled, crashed>>
wvars == <<vars, cluster, control, chan>>

Exists(u) == api[u] # NoPod

\* The orders in which a LIST, or the start of a WATCH, may give the existing pods.
Snapshots == SetToSeqs({api[u] : u \in {v \in UID : Exists(v)}})

Connected == watcher \in {"next", "send"}
Emit(p) == stream' = IF Connected THEN Append(stream, p) ELSE stream
----
(* The cluster *)

\* A pod is created, changes, or (del) starts its grace period.
Change(p) ==
    /\ ~crashed /\ p.rv = revision + 1 /\ p.rv <= MaxRevision
    /\ p.uid \notin gone
    /\ IF Exists(p.uid) THEN api[p.uid].del => p.del ELSE ~p.del
    /\ api' = [api EXCEPT ![p.uid] = p]
    /\ revision' = p.rv
    /\ Emit(p)
    /\ UNCHANGED <<vars, gone, breaks, run, syncer, listed, watcher, held, worker, stopper, chan>>

\* A pod disappears.  The event carries its last state.
Vanish(u) ==
    /\ ~crashed /\ Exists(u) /\ (api[u].del \/ ImmediateDelete)
    /\ api' = [api EXCEPT ![u] = NoPod]
    /\ gone' = gone \cup {u}
    /\ Emit(api[u])
    /\ UNCHANGED <<vars, revision, breaks, run, syncer, listed, watcher, held, worker, stopper, chan>>
----
(* The channel podQueue *)

\* Mutant of Send: a queue of one more element.
SendPastCap(p) ==
    \/ ~closed /\ Len(queue) <= QueueCap /\ queue' = Append(queue, p) /\ UNCHANGED crashed
    \/ closed /\ crashed' = TRUE /\ UNCHANGED queue

\* p.podQueue <- p: blocks while the queue is full, panics once it is closed.
Send(p) ==
    \/ ~closed /\ Len(queue) < QueueCap /\ queue' = Append(queue, p) /\ UNCHANGED crashed
    \/ closed /\ crashed' = TRUE /\ UNCHANGED queue
----
(* syncPods, in a goroutine of Run *)

\* ListPods: on an error, or a cancelled context, nothing is sent.
List ==
    /\ ~crashed /\ syncer = "list"
    /\ \/ ~cancelled /\ syncer' = "send" /\ listed' \in Snapshots
       \/ syncer' = "synced" /\ UNCHANGED listed
    /\ UNCHANGED <<vars, cluster, run, watcher, stream, held, worker, stopper, breaks, chan>>

SendListed ==
    /\ ~crashed /\ syncer = "send" /\ listed # <<>>
    /\ Send(Head(listed))
    /\ listed' = Tail(listed)
    /\ UNCHANGED <<vars, cluster, run, syncer, watcher, stream, held, worker, stopper, breaks,
                   closed, cancelled>>

\* close(synced): whether or not syncPods succeeded.
Synced ==
    /\ ~crashed /\ syncer = "send" /\ listed = <<>>
    /\ syncer' = "synced"
    /\ UNCHANGED <<vars, cluster, run, listed, watcher, stream, held, worker, stopper, breaks, chan>>
----
(* watchPods *)

\* WatchPods succeeds.  A failed attempt sleeps and tries again: a stuttering step, and
\* the only one possible once the context is cancelled.
Connect ==
    /\ ~crashed /\ watcher = "connect" /\ ~cancelled
    /\ watcher' = "next"
    /\ stream' \in Snapshots
    /\ UNCHANGED <<vars, cluster, run, syncer, listed, held, worker, stopper, breaks, chan>>

\* watcher.Next returns the next pod; the type of the event is dropped.
NextEvent ==
    /\ ~crashed /\ watcher = "next" /\ stream # <<>>
    /\ watcher' = "send"
    /\ held' = Head(stream) /\ stream' = Tail(stream)
    /\ UNCHANGED <<vars, cluster, run, syncer, listed, worker, stopper, breaks, chan>>

\* Mutant of SendEvent: drop the event instead of waiting for room in the queue.
SendEventOrDrop ==
    /\ ~crashed /\ watcher = "send"
    /\ IF Len(queue) < QueueCap THEN Send(held) ELSE UNCHANGED <<queue, crashed>>
    /\ watcher' = "next" /\ held' = NoPod
    /\ UNCHANGED <<vars, cluster, run, syncer, listed, stream, worker, stopper, breaks,
                   closed, cancelled>>

SendEvent ==
    /\ ~crashed /\ watcher = "send"
    /\ Send(held)
    /\ watcher' = "next" /\ held' = NoPod
    /\ UNCHANGED <<vars, cluster, run, syncer, listed, stream, worker, stopper, breaks,
                   closed, cancelled>>

\* Mutant of Break: return instead of reconnecting.
BreakAndReturn ==
    /\ ~crashed /\ watcher = "next"
    /\ cancelled \/ breaks < MaxBreaks
    /\ breaks' = IF cancelled THEN breaks ELSE breaks + 1
    /\ watcher' = "off" /\ stream' = <<>>
    /\ UNCHANGED <<vars, cluster, run, syncer, listed, held, worker, stopper, chan>>

\* watcher.Next returns an error: the connection broke, or the context is cancelled.
\* What the server had sent and Next had not returned is lost.
Break ==
    /\ ~crashed /\ watcher = "next"
    /\ cancelled \/ breaks < MaxBreaks
    /\ breaks' = IF cancelled THEN breaks ELSE breaks + 1
    /\ watcher' = "connect" /\ stream' = <<>>
    /\ UNCHANGED <<vars, cluster, run, syncer, listed, held, worker, stopper, chan>>
----
(* worker, Run, Stop *)

\* Mutant of Apply: keep the pods in step but not their runners.
ApplyPodsOnly ==
    /\ ~crashed /\ worker = "range" /\ queue # <<>>
    /\ LET p == Head(queue) IN pods' = [pods EXCEPT ![p.uid] = IF p.del THEN NoPod ELSE p]
    /\ queue' = Tail(queue)
    /\ UNCHANGED <<annotations, files, failed, token, cluster, control,
                   closed, cancelled, crashed>>

\* One iteration of worker: take a pod and apply it to the store.
Apply ==
    /\ ~crashed /\ worker = "range" /\ queue # <<>>
    /\ Work(Head(queue))
    /\ queue' = Tail(queue)
    /\ UNCHANGED <<cluster, control, closed, cancelled, crashed>>

\* Mutant of WorkerExits: receive zero values from the closed channel for ever.
WorkerSpins ==
    /\ ~crashed /\ worker = "range" /\ queue = <<>> /\ closed
    /\ UNCHANGED wvars

\* The range over the closed channel ends when it is drained.
WorkerExits ==
    /\ ~crashed /\ worker = "range" /\ queue = <<>> /\ closed
    /\ worker' = "exited"
    /\ UNCHANGED <<vars, cluster, run, syncer, listed, watcher, stream, held, stopper, breaks, chan>>

\* Mutant of Ready: start watching without waiting for the first sync.
ReadyAtOnce ==
    /\ ~crashed /\ run = "select"
    /\ run' = "true" /\ watcher' = "connect"
    /\ UNCHANGED <<vars, cluster, syncer, listed, stream, held, worker, stopper, breaks, chan>>

\* Run's select sees synced closed and starts the watcher.
Ready ==
    /\ ~crashed /\ run = "select" /\ syncer = "synced"
    /\ run' = "true" /\ watcher' = "connect"
    /\ UNCHANGED <<vars, cluster, syncer, listed, stream, held, worker, stopper, breaks, chan>>

\* Run's select sees ready_timeout pass and calls Stop: p.stop() cancels the context.
Timeout ==
    /\ ~crashed /\ MayTimeout /\ run = "select"
    /\ run' = "false"
    /\ stopper' = [stopper EXCEPT !["run"] = "cancelled"]
    /\ cancelled' = TRUE
    /\ UNCHANGED <<vars, cluster, syncer, listed, watcher, stream, held, worker, breaks,
                   queue, closed, crashed>>

\* The beater is stopped: kubernetesDiscoverer.Stop calls Stop.
Shutdown ==
    /\ ~crashed /\ MayStop /\ stopper["beater"] = "idle"
    /\ stopper' = [stopper EXCEPT !["beater"] = "cancelled"]
    /\ cancelled' = TRUE
    /\ UNCHANGED <<vars, cluster, run, syncer, listed, watcher, stream, held, worker, breaks,
                   queue, closed, crashed>>

\* The second statement of Stop, close(p.podQueue): panics if it is closed already.
CloseQueue(c) ==
    /\ ~crashed /\ stopper[c] = "cancelled"
    /\ stopper' = [stopper EXCEPT ![c] = "done"]
    /\ closed' = TRUE /\ crashed' = closed
    /\ UNCHANGED <<vars, cluster, run, syncer, listed, watcher, stream, held, worker, breaks,
                   queue, cancelled>>
----
WInit ==
    /\ Init
    /\ api = [u \in UID |-> NoPod] /\ revision = 0 /\ gone = {} /\ breaks = 0
    /\ queue = <<>> /\ closed = FALSE /\ cancelled = FALSE /\ crashed = FALSE
    /\ run = "select" /\ syncer = "list" /\ listed = <<>>
    /\ watcher = "off" /\ stream = <<>> /\ held = NoPod
    /\ worker = "range" /\ stopper = [c \in {"run", "beater"} |-> "idle"]

Cluster == (\E p \in Delivered : Change(p)) \/ (\E u \in UID : Vanish(u))
Syncer == List \/ SendListed \/ Synced
Watcher == Connect \/ NextEvent \/ SendEvent
Worker == Apply \/ WorkerExits
Stop == \E c \in DOMAIN stopper : CloseQueue(c)

WNext ==
    \/ Cluster \/ Syncer \/ Watcher \/ Break \/ Worker \/ Ready
    \/ Timeout \/ Shutdown \/ Stop

\* Every runnable goroutine is eventually scheduled, and the API server eventually
\* answers.  Nothing obliges the cluster to change, a watch to break, the timer to win
\* over a finished sync, or the beater to stop.
Fairness ==
    /\ WF_wvars(Syncer)
    /\ WF_wvars(Watcher)
    /\ WF_wvars(Worker)
    /\ WF_wvars(Ready)
    /\ WF_wvars(Stop)

WSpec == WInit /\ [][WNext]_wvars /\ Fairness
----
(* Properties *)

WTypeOK ==
    /\ api \in [UID -> Delivered \cup {NoPod}]
    /\ revision \in 0..MaxRevision /\ breaks \in 0..MaxBreaks
    /\ gone \subseteq {u \in UID : ~Exists(u)}
    /\ queue \in Seq(Delivered) /\ Len(queue) <= QueueCap
    /\ {closed, cancelled, crashed} \subseteq BOOLEAN
    /\ run \in {"select", "true", "false"}
    /\ syncer \in {"list", "send", "synced"} /\ listed \in Seq(Delivered)
    /\ watcher \in {"off", "connect", "next", "send"}
    /\ stream \in Seq(Delivered) /\ held \in Delivered \cup {NoPod}
    /\ (watcher = "send") = (held # NoPod)
    /\ worker \in {"range", "exited"}
    /\ stopper \in [{"run", "beater"} -> {"idle", "cancelled", "done"}]

\* The store never goes back to an older state of a pod: onPodUpdate only tests that
\* resource versions differ (podwatcher.go:185-192), so this rests on the order in which
\* the sync, the watch and its reconnections feed one queue.
VersionNeverRegresses ==
    [][\A u \in Cached : pods'[u] # NoPod => pods'[u].rv >= pods[u].rv]_vars

\* While a watch is connected nothing about an existing pod is lost: the newest news of
\* it on its way to the worker, or else the store itself, is its state in the API server.
Silent(s, u) == \A i \in DOMAIN s : s[i].uid # u
LastNews(s, u, p) == \E i \in DOMAIN s : s[i] = p /\ \A j \in DOMAIN s : s[j].uid = u => j <= i

Reflected(u) == IF api[u].del THEN pods[u] = NoPod ELSE pods[u] = api[u]

NewestIs(u, p) ==
    IF ~Silent(stream, u) THEN LastNews(stream, u, p)
    ELSE IF held # NoPod /\ held.uid = u THEN held = p
    ELSE IF ~Silent(queue, u) THEN LastNews(queue, u, p)
    ELSE Reflected(u)

NothingLostWhileConnected ==
    Connected /\ ~crashed => \A u \in UID : Exists(u) => NewestIs(u, api[u])

\* A pod that is gone from the API server while the last the watcher's goroutines know of it,
\* arrived or on its way, is that it is there.
AliveIn(s, u) ==
    \E i \in DOMAIN s : /\ s[i].uid = u /\ ~s[i].del
                        /\ \A j \in DOMAIN s : s[j].uid = u => j <= i

LastHeardAlive(u) ==
    IF ~Silent(stream, u) THEN AliveIn(stream, u)
    ELSE IF held # NoPod /\ held.uid = u THEN ~held.del
    ELSE IF ~Silent(listed, u) THEN AliveIn(listed, u)
    ELSE IF ~Silent(queue, u) THEN AliveIn(queue, u)
    ELSE u \in Cached

Ghost(u) == ~Exists(u) /\ LastHeardAlive(u)

\* A pod that left stays in the store for three reasons only: it left while no watch was
\* connected, or without a grace period, which the worker cannot tell from a change because
\* watchPods drops the type of the event; its deletion was in a stream that broke; or the
\* process panicked (podwatcher.go:95-150, 155-173).
GhostsOnlyFromGaps ==
    [][\A u \in UID : Ghost(u)' /\ ~Ghost(u) =>
          \/ Vanish(u) /\ ~(Connected /\ api[u].del)
          \/ Break /\ ~Silent(stream, u)
          \/ crashed']_wvars

\* A process that nobody stops ends up with every pod of the API server reflected in its
\* store, however many times the watch broke, once the cluster is quiet
\* (podwatcher.go:127-150: watch failures are logged and failed over).
Converges == []~cancelled => <>[](\A u \in UID : Exists(u) => Reflected(u))

\* Closing the queue lets the worker drain it and exit, unless the process panics.
WorkerFinishes == closed ~> (worker = "exited" \/ crashed)

\* Every step of the watcher's goroutines is a step of the store, so what is proved of
\* PodStore holds of it.
IsPodStore == Spec

\* "Run ... blocks until Stop is called and the workers complete" (metricbeat.go:63):
\* stopping is orderly, no goroutine panics.
NoPanic == ~crashed

\* The local state follows the cluster (podwatcher.go:83-84), and watch failures are
\* "gracefully failed over" (podwatcher.go:131-132): nothing is collected for ever from a
\* pod that left.
FollowsCluster ==
    []~cancelled => <>[](\A u \in Cached : Rebuilt(u) \cap files # {} => Exists(u))
====
