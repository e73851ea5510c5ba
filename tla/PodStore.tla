---- MODULE PodStore ----
(***************************************************************************)
(* The state one worker goroutine keeps about the pods of its node, and    *)
(* what it does with one pod object taken from the queue                   *)
(* (discoverer/kubernetes/podwatcher.go: worker, onPodAdd, onPodUpdate,    *)
(* onPodDelete), with the calls it makes: Builders.StartModuleRunners and  *)
(* StopModuleRunners (discoverer/builders.go) for a poller builder, and    *)
(* Start/Stop of the cfgfile factory (common/factory/cfgfile).             *)
(*                                                                         *)
(* The worker is the only goroutine that touches this state, so one queue  *)
(* element is one action.  A runner is identified by the hash of its       *)
(* configuration, built again from the CURRENT metadata and credentials    *)
(* when the runner has to be stopped, with the metric sets listed in the   *)
(* order a Go map happens to yield: when what is built then is still what  *)
(* was deployed is what this module is about.  The hash is taken to be     *)
(* injective, so `files' is a set of configurations.                       *)
(***************************************************************************)
EXTENDS Naturals, FiniteSets

CONSTANTS
    UID,              \* pod UIDs
    Version,          \* resource versions; the worker only compares them
    Address,          \* "ip:port" strings and container ids: what indexers index
    Module,           \* the contents of a pod's io.collectbeat.metrics annotations
    Secured,          \* the Modules whose configuration takes a token or a Secret
    Listing,          \* the metric sets of a configuration, in some order
    Listings,         \* [Module -> SUBSET Listing]: the orders a module's metric sets
                      \* may be listed in; several when the annotations name none
    Meta,             \* pod metadata (name, namespace, labels, container name)
    Token,            \* contents of the token file or of the Secret
    NoPod, NoAddress, NoMeta, NoToken,      \* Go's nil and ""
    Delivered,        \* the pod objects the API server may send
    SharedAddresses,  \* may two pods carry one address (a completed pod keeps
                      \* its IP in its status while the IP is given away)?
    MaxFaults         \* bound on failed file operations

Pod == [uid : UID, rv : Version, idx : SUBSET Address,
        ask : Address \cup {NoAddress}, spec : Module, meta : Meta, del : BOOLEAN]

Config == [host : Address, spec : Module, sets : Listing, meta : Meta \cup {NoMeta},
           auth : Token \cup {NoToken}]

ASSUME StoreAssumption ==
    /\ Delivered \subseteq Pod
    /\ Secured \subseteq Module
    /\ NoPod \notin Pod /\ NoAddress \notin Address
    /\ NoMeta \notin Meta /\ NoToken \notin Token
    /\ Listings \in [Module -> (SUBSET Listing) \ {{}}]
    /\ SharedAddresses \in BOOLEAN
    /\ MaxFaults \in Nat

VARIABLES
    pods,         \* podMeta.pods: [UID -> Pod or NoPod]
    annotations,  \* podMeta.annotations: [Address -> Meta or NoMeta]
    files,        \* cfgfileCache.cfgfiles: the deployed configurations
    failed,       \* the errors logged by Start/StopModuleRunners
    token         \* what the token file or the Secret holds now

vars == <<pods, annotations, files, failed, token>>

Cached == {u \in UID : pods[u] # NoPod}

Addresses(p) == p.idx \cup ({p.ask} \ {NoAddress})

\* Modules of which every call of the builder lists the metric sets alike.
SameOrder(m) == \A l, k \in Listings[m] : l = k

----
\* BuildModuleConfigs followed by appendConfigs: no configuration when the pod has
\* no IP or asks for nothing; otherwise one, carrying the metadata indexed under
\* its first endpoint (none when that is not an indexed "ip:port") and the token.
\* Metric sets the annotations do not name are those mb.Registry.MetricSets finds
\* ranging over a map, in an order of its own at each call: Build is the set of the
\* configurations one call may answer with, OneOf the possible answers.
Build(p, ann, tok) ==
    IF p.ask = NoAddress THEN {}
    ELSE {[host |-> p.ask, spec |-> p.spec, sets |-> l, meta |-> ann[p.ask],
           auth |-> IF p.spec \in Secured THEN tok ELSE NoToken] : l \in Listings[p.spec]}

OneOf(cs) == IF cs = {} THEN {{}} ELSE {{c} : c \in cs}

\* What the pod's runner may be rebuilt to now.
Rebuilt(u) == Build(pods[u], annotations, token)

\* Mutants of Stopped, Annotated: removing every file of the module; never replacing
\* metadata; starting the map afresh.
StoppedByModule(fs, cs, bad) == {c \in fs : \A d \in cs \ bad : d.spec # c.spec}
AnnotatedOnce(ann, p) ==
    [i \in Address |-> IF i \in p.idx /\ ann[i] = NoMeta THEN p.meta ELSE ann[i]]
AnnotatedAfresh(ann, p) == [i \in p.idx |-> p.meta]

\* The cfgfile factory.  Start writes the file unless the hash is already cached and
\* caches it; Stop removes it if cached.  `bad' are the configurations whose write
\* (ioutil.WriteFile) or removal (os.Remove) fails: the cache is then left alone.
Started(fs, cs, bad) == fs \cup (cs \ bad)
Stopped(fs, cs, bad) == fs \ (cs \ bad)

\* The sets of configurations of cs whose file operation may fail.
MayFail(cs) == {bad \in SUBSET cs : Cardinality(failed) + Cardinality(bad) <= MaxFaults}

Annotated(ann, p) == [i \in Address |-> IF i \in p.idx THEN p.meta ELSE ann[i]]
Unannotated(ann, p) == [i \in Address |-> IF i \in p.idx THEN NoMeta ELSE ann[i]]
----
\* onPodAdd: index the metadata, remember the pod, start its runner.
OnPodAdd(p) ==
    /\ annotations' = Annotated(annotations, p)
    /\ pods' = [pods EXCEPT ![p.uid] = p]
    /\ \E new \in OneOf(Build(p, annotations', token)) :
       \E bad \in MayFail(new \ files) :
          /\ files' = Started(files, new, bad)
          /\ failed' = failed \cup ({"start"} \X bad)
    /\ UNCHANGED token

\* Mutant of OnPodDelete: stop what the event's pod object, not the cached one, asks for.
OnPodDeleteOfEvent(p) ==
    /\ \E old \in IF p.uid \in Cached THEN OneOf(Build(p, annotations, token)) ELSE {{}} :
       \E bad \in MayFail(old \cap files) :
          /\ files' = Stopped(files, old, bad)
          /\ failed' = failed \cup ({"stop"} \X bad)
    /\ pods' = [pods EXCEPT ![p.uid] = NoPod]
    /\ annotations' = Unannotated(annotations, p)
    /\ UNCHANGED token

\* onPodDelete: stop the runner of the CACHED pod, forget it, then drop the metadata
\* under the indexes of the pod object of the EVENT.
OnPodDelete(p) ==
    /\ \E old \in IF p.uid \in Cached THEN OneOf(Rebuilt(p.uid)) ELSE {{}} :
       \E bad \in MayFail(old \cap files) :
          /\ files' = Stopped(files, old, bad)
          /\ failed' = failed \cup ({"stop"} \X bad)
    /\ pods' = [pods EXCEPT ![p.uid] = NoPod]
    /\ annotations' = Unannotated(annotations, p)
    /\ UNCHANGED token

\* Mutants of OnPodUpdate: index the new metadata before stopping the old runner; start
\* the new runner before stopping the old one; keep what the old indexes say.
OnPodUpdateIndexFirst(p) ==
    /\ p.rv # pods[p.uid].rv
    /\ annotations' = Annotated(Unannotated(annotations, pods[p.uid]), p)
    /\ pods' = [pods EXCEPT ![p.uid] = p]
    /\ \E old \in OneOf(Build(pods[p.uid], annotations', token)),
          new \in OneOf(Build(p, annotations', token)) :
          files' = Started(Stopped(files, old, {}), new, {})
    /\ UNCHANGED <<failed, token>>
OnPodUpdateStartFirst(p) ==
    /\ p.rv # pods[p.uid].rv
    /\ annotations' = Annotated(Unannotated(annotations, pods[p.uid]), p)
    /\ pods' = [pods EXCEPT ![p.uid] = p]
    /\ \E old \in OneOf(Rebuilt(p.uid)), new \in OneOf(Build(p, annotations', token)) :
          files' = Stopped(Started(files, new, {}), old, {})
    /\ UNCHANGED <<failed, token>>

OnPodUpdateKeepsOld(p) ==
    /\ p.rv # pods[p.uid].rv
    /\ annotations' = Annotated(annotations, p)
    /\ pods' = [pods EXCEPT ![p.uid] = p]
    /\ \E old \in OneOf(Rebuilt(p.uid)), new \in OneOf(Build(p, annotations', token)) :
          files' = Started(Stopped(files, old, {}), new, {})
    /\ UNCHANGED <<failed, token>>

\* onPodUpdate: nothing for a resource version already seen, otherwise
\* onPodDelete(cached pod) and onPodAdd(new pod).
OnPodUpdate(p) ==
    /\ p.rv # pods[p.uid].rv
    /\ annotations' = Annotated(Unannotated(annotations, pods[p.uid]), p)
    /\ pods' = [pods EXCEPT ![p.uid] = p]
    /\ \E old \in OneOf(Rebuilt(p.uid)), new \in OneOf(Build(p, annotations', token)) :
       \E stuck \in MayFail(old \cap files) :
       \E bad \in MayFail(new \ Stopped(files, old, stuck)) :
          /\ files' = Started(Stopped(files, old, stuck), new, bad)
          /\ failed' = failed \cup ({"stop"} \X stuck) \cup ({"start"} \X bad)
    /\ UNCHANGED token

Unchanged(p) == p.rv = pods[p.uid].rv /\ UNCHANGED vars

\* One iteration of worker.
Work(p) ==
    \/ p.del /\ OnPodDelete(p)
    \/ ~p.del /\ p.uid \in Cached /\ (OnPodUpdate(p) \/ Unchanged(p))
    \/ ~p.del /\ p.uid \notin Cached /\ OnPodAdd(p)
----
\* What the cluster may send next.  An address belongs to one live pod at a time
\* unless SharedAddresses.
Isolated(p) == \A u \in Cached \ {p.uid} : Addresses(pods[u]) \cap Addresses(p) = {}

Receive(p) == (SharedAddresses \/ Isolated(p)) /\ Work(p)

\* The token file or the Secret is rotated, or becomes unreadable, at any time.
Rotate(t) ==
    /\ token' = t
    /\ UNCHANGED <<pods, annotations, files, failed>>

Init ==
    /\ pods = [u \in UID |-> NoPod]
    /\ annotations = [i \in Address |-> NoMeta]
    /\ files = {}
    /\ failed = {}
    /\ token \in Token

Next ==
    \/ \E p \in Delivered : Receive(p)
    \/ \E t \in Token \cup {NoToken} : Rotate(t)

Spec == Init /\ [][Next]_vars
----
(* Properties *)

TypeOK ==
    /\ pods \in [UID -> Pod \cup {NoPod}]
    /\ \A u \in Cached : pods[u].uid = u
    /\ annotations \in [Address -> Meta \cup {NoMeta}]
    /\ files \subseteq Config
    /\ failed \subseteq {"start", "stop"} \X Config
    /\ token \in Token \cup {NoToken}

\* A file that nothing the store may rebuild names any more, so that no Stop will find
\* it, without an error logged for its removal.
Orphan(c) ==
    c \in files /\ <<"stop", c>> \notin failed /\ \A u \in Cached : c \notin Rebuilt(u)

\* A file is left behind only because of its own pod or its own token: the token it takes
\* was changed, or an event of its pod rebuilt it with the metric sets in another order.
\* Nothing else does it: no order of events, no event of another pod, no change of
\* metadata, no deletion known by another state of the pod (builders.go:84-114).
OrphansHaveCause ==
    [][\A c \in Config : Orphan(c)' /\ ~Orphan(c) =>
          \/ c.spec \in Secured /\ token' # token
          \/ ~SameOrder(c.spec) /\ \E u \in Cached : c.host \in Addresses(pods[u]) /\ pods'[u] # pods[u]
      ]_vars

\* Every known pod that asks for something has a configuration deployed with its current
\* metadata, whatever the order of its metric sets and the token of the time, unless
\* writing it was logged as failed (builders.go:52-82, cfgfile.go:96-143).
EveryPodCollected ==
    \A u \in Cached : pods[u].ask # NoAddress =>
        \E t \in Token \cup {NoToken} : \E c \in Build(pods[u], annotations, t) :
            c \in files \/ <<"start", c>> \in failed

\* GetMetaData answers, for every index of a known pod, with that pod's own metadata:
\* adding or deleting other pods, or this one's older versions, did not disturb it
\* (podwatcher.go:175-205).
FreshMetadata ==
    \A u \in Cached : \A i \in pods[u].idx : annotations[i] = pods[u].meta

\* No two known pods claim one address: what the properties above rest on, and with them
\* the inductive invariant of PodStoreProofs.
DisjointPods ==
    ~SharedAddresses =>
    \A u, v \in Cached : u # v => Addresses(pods[u]) \cap Addresses(pods[v]) = {}

\* Metadata goes away with the pod it came from.  Only a deletion whose pod object has lost
\* an index leaves metadata that is no known pod's, and only under that index: no update,
\* however many versions it skips, leaves any (podwatcher.go:175-205).
Stale(i) == annotations[i] # NoMeta /\ \A u \in Cached : i \notin pods[u].idx

StaleOnlyWhenLate ==
    [][\A i \in Address : (Stale(i)' /\ ~Stale(i)) =>
          \E p \in Delivered : i \notin p.idx /\ OnPodDelete(p)]_vars

\* Handling one pod's event never stops collecting from another pod that is known
\* before and after (podwatcher.go:194-205 with cfgfile.go:145-183, whose cache
\* counts no references).
NoCollateralStop ==
    [][\A u \in Cached : pods'[u] = pods[u] => Rebuilt(u) \cap files \subseteq files']_vars

\* The store keeps the promise of Collection: it collects from what the pods it knows
\* ask for, up to logged errors and to the modules whose configuration may be built
\* differently when it is to be stopped.
EndpointOf(c) == [host |-> c.host, spec |-> c.spec]

WantedEndpoints(p) == IF p.ask = NoAddress THEN {} ELSE {[host |-> p.ask, spec |-> p.spec]}

Outside == INSTANCE Collection WITH
    Pod <- Delivered,
    Endpoint <- [host : Address, spec : Module],
    Wanted <- WantedEndpoints,
    Unstable <- {e \in [host : Address, spec : Module] :
                    e.spec \in Secured \/ ~SameOrder(e.spec)},
    known <- pods,
    collected <- {EndpointOf(c) : c \in files},
    reported <- {EndpointOf(e[2]) : e \in failed}

KeepsPromise == Outside!CSpec

\* README.md:120: "Once the Pod spec has been annotated and the Pod is deployed, we take
\* care of collecting metrics from the specified endpoint".
EndpointCollected ==
    \A u \in Cached : \A e \in WantedEndpoints(pods[u]) :
        \E c \in files \cup {f[2] : f \in failed} : EndpointOf(c) = e
====
