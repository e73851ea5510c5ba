# A TLA+ model of collectbeat

Collectbeat runs one process per Kubernetes node. It watches the pods of the node, turns
their annotations into metricbeat modules or filebeat prospectors, and deploys these as
configuration files (or, with another factory, as running modules) for the beat around it.
This directory models the logic between "a pod changed" and "its configuration is deployed",
and the life of the process around it, checks them with TLC on small instances and proves
most of the safety properties with TLAPS for all instances.

Source paths are relative to the repository. `PROJECT.json` lists, for every definition, the
lines it models (`map`), and for every run, hazard, finding and theorem the details.

## 1. The system

### Components

| Component | Code | State | Operations |
|---|---|---|---|
| Pod watcher | `discoverer/kubernetes/podwatcher.go` | `podQueue` (channel of 10), `lastResourceVersion`, context | `Run`, `syncPods`, `watchPods`, `worker`, `Stop` |
| Pod store | same file, `podMeta` | `pods` by UID, `annotations` by index | `onPodAdd`, `onPodUpdate`, `onPodDelete`, `GetMetaData` |
| Builders dispatch | `discoverer/builders.go` | lists of builders and appenders, a factory | `AddBuilder`, `AddAppender`, `StartModuleRunners`, `StopModuleRunners` |
| metrics, secret, log builders | `discoverer/kubernetes/common/builder/{metrics_annotations,metrics_secret,log_annotations}` | none of their own | `BuildModuleConfigs` |
| graphite builder | `.../builder/graphite_annotations` | registry `podMap`: templates and pods by filter | `AddModuleConfig`, `RemoveModuleConfig`, `ModuleConfig` |
| appenders | `.../common/appender/{auth,log_path}` | token path; docker client | `Append` |
| cfgfile factory | `discoverer/common/factory/cfgfile` | `cfgfiles` by hash; the directory | constructor, `Start`, `Stop`, `Restart` |
| runner factory | `discoverer/common/factory/runner` | `runners` by hash; the running modules | `Start`, `Stop`, `Restart` |
| discoverer construction | `discoverer/kubernetes/kubernetes.go`, `discoverer/*.go`, `discoverer/common/{registry,factory}` | plug-in registries, default configurations | `InitDiscoverers`, constructors, `Start`, `Stop` |
| beaters | `beater/metricbeat`, `beater/filebeat` | `done` channel, wait group | `New`, `Run`, `Stop` |
| command line, docker client | `cmd`, `main.go`, `discoverer/docker` | none | flags and wiring |

### Interactions

    API server --LIST--> syncPods --+                        +-> builders --+
                                    +--> podQueue --> worker-+              +--> factory --> directory --> reloader
    API server --WATCH-> watchPods -+                 |      +-> appenders -+
                                                      +-> podMeta <-- GetMetaData -- builders

Two goroutines feed one bounded channel, which `Stop` closes; one worker drains it. For each
pod object the worker updates `podMeta` and has every builder asked for its configurations,
the appenders complete them, and the factory starts or stops them. The builders read the
metadata back from `podMeta`. The factory identifies a configuration by its hash alone, so to
stop a configuration the code *rebuilds* it: whatever went into it must be the same again.
The beat's reloader, in another goroutine, reads the directory the factory writes.

    New --InitDiscoverers--> discoverers --Start--> Builders' lists, then PodWatcher.Run
    Run --> factory, per discoverer: go Start, go (wait for done, then Stop); then the beat inside
    signal --> Stop --> the beat inside, and close(done)

### What is hard, and what makes each part correct

* **Rebuilding in order to stop.** The configuration depends on the pod, on the metadata under
  its first endpoint, on a token file, and on a Secret. If any of these changed since the
  start, the hash misses and the file stays for ever. Metric sets that the annotations do not
  name are even listed in the order of a Go map, another one at each call, and so are the
  templates of the graphite server. Correct is: a file of a pod can be rebuilt as long as the
  pod is known, and it is never the order of events, nor another pod, that prevents it.
* **Sharing.** Two pods with one address, one index or one graphite filter share an entry that
  the first of them to go may take away. Correct is: the events of a pod leave others alone.
* **Order.** `onPodUpdate` only compares resource versions for inequality. Correct is: the
  store never goes back to an older state of a pod.
* **Loss.** Watches break; the queue is bounded. Correct is: the store ends up with what exists.
* **Shutdown.** Closing a channel under its producers; two callers of `Stop`.
* **Partial failure and crashes.** A write or removal may fail, half-written files may remain,
  the process may die between any two steps. Correct is: cache and directory agree, nothing of
  an earlier process survives, static module files do.
* **Construction and start-up.** Plug-ins come from the settings and from defaults, any of
  them may fail to be constructed, and each discoverer adds its own to the shared lists while
  the worker of another may be reading them. Correct is: who is asked about pods was
  configured, and everybody who was configured is asked; `Stop` at any time ends the process
  with nothing left running.
* **The mutex of the runner factory**, and restarts of a server that owns a port.
* **Life of a pod.** IP, phase, container ids and annotations arrive in separate events, and
  each container must be read exactly once throughout.

`PROJECT.json` lists these as hazards with the line where each one bites.

## 2. The modules

    Collection <--implements-- PodStore <--EXTENDS, implements-- PodWatcher
    Factory    <--implements-- CfgfileFactory
    Factory    <--implements-- RunnerFactory
    Plugins    <--EXTENDS----- Collectbeat
    ModuleBuilders             GraphiteBuilder

| Module | Models | Correspondence |
|---|---|---|
| `Collection` | what the discoverer promises: collect from exactly the endpoints the known pods ask for, except those reported as failed, and those whose configuration may be built differently when it is to be stopped, which may be collected from for too long | abstract; no code |
| `PodStore` | `worker`, `onPodAdd/Update/Delete`, with `Builders` and the factory as they call them | `pods`, `annotations` are `podMeta`; `files` is the factory's cache; `failed` the logged errors; one action per queue element |
| `PodWatcher` | the goroutines `syncPods`, `watchPods`, `worker`, `Run`, `Stop` and the channel | one variable for the program counter of each goroutine; the store of `PodStore` beneath; the API server is external |
| `ModuleBuilders` | the metrics, secret and log builders with the auth appender, over the life of pods | `MetricsLists`, `SecretList`, `LogList` are the three `BuildModuleConfigs`, the first with as many answers as its metric sets have orders; one file per non-empty list, as the factory hashes a builder's whole list |
| `GraphiteBuilder` | the graphite template registry and the restarts of the shared server | `pods`, `templates` are `podMap`; `servers` the deployed configurations |
| `Factory` | what the interface `factory.Factory` promises: the new configuration is never deployed beside the old one, nothing is deployed unasked, and whatever is not done as asked is reported | abstract; no code |
| `CfgfileFactory` | constructor, `Start`, `Stop`, `Restart` against a directory | `cache`, `disk`; a write is two steps, so that the reloader and a crash may come between them |
| `RunnerFactory` | `Start`, `Stop`, `Restart` against the mutex | `runners`, `locked`; a call is as many steps as it has stretches between locks; what the builders give it is built again for each call, in any of its orders |
| `Plugins` | which plug-ins a discoverer is made of: registries, settings, default configurations, failing constructors | operators: `Listed`, `MadeBuilders`, `MadeAppenders`, `MayPanic`, `Constructed` |
| `Collectbeat` | `New`, `Run` and `Stop` of both beats, `Start` and `Stop` of the discoverers, `AddBuilder`/`AddAppender` | one program counter per goroutine; an append to a shared list is a read and a write; of the pod watcher only what may end the process |
| `MC*` | the instances TLC checks | |
| `*Proofs` | the theorems about one module each | |
| `PodWatcherOutcomes` | the theorems that combine `PodWatcherProofs` with those of `PodStore` | |

Each module is about one question and takes the neighbours by what they were shown to
guarantee: `ModuleBuilders` lets `GetMetaData` answer with the pod's own metadata
(`PodStore`'s `FreshMetadata`); `GraphiteBuilder` takes a restart to do what `Factory` promises:
replace, or fail with the old or with nothing deployed; `PodStore` takes events one at a time
(`PodWatcher`) and file operations that either happen or fail (`CfgfileFactory`). `PodWatcher` shows, with its property
`IsPodStore`, that its steps are steps of `PodStore`. `Collectbeat` keeps of a watcher that its
queue may be closed and that it may panic, for whatever cause; what the watcher's goroutines do otherwise is
`PodWatcher`'s.

### Abstractions, common to all modules

* A configuration's hash is taken to be injective: files and runners are identified by the
  configuration itself.
* What ranges over a Go map is a set of possible lists, and every call picks one: `Build` and
  `OneOf` in `PodStore`, `MetricSets` in `ModuleBuilders`, `Orders` in `GraphiteBuilder`, `Lists`
  and `Built` in `RunnerFactory`.
* The graphite registry lists the pods of a filter by namespace and name; the model takes a
  set, as no two known pods are taken to have one name.
* Names, addresses, ids, labels and annotation values are model values or small records. The
  parsing of annotations is abstracted to its outcomes: which guards it passes.
* A list of configurations in `ModuleBuilders` is a function on the positions that the code
  keeps (the endpoints that are not blank, the containers that are tailed): two lists are equal
  exactly when the code's are built from the same elements at the same places.
* Logging is left out, except that an error that is *only* logged is remembered in a history
  variable (`failed`, `faults`, `refused`, `errors`), because "unless an error was logged" is what the
  code promises.
* The API server, the kubelet, the file system calls, and the beat's reloader are external and
  modelled from how the code uses them. The kubelet gives an address (and port) to one live
  pod at a time, except in `podstore_reuse`.

## 3. The runs

| Run | Instance | Shows |
|---|---|---|
| `podstore` | 2 pods, 3 addresses, 3 modules (one with a token, one with two orders of its metric sets), 11 pod objects in any order, token rotation at any time, 1 failing file operation | every known pod is collected from as it is (`EveryPodCollected`), a file is left behind in silence only by its own token or its own order (`OrphansHaveCause`), metadata is its pod's (`FreshMetadata`), no event disturbs another pod (`NoCollateralStop`), metadata becomes stale only by a deletion without its address (`StaleOnlyWhenLate`), `Collection` is implemented (`KeepsPromise`) |
| `podstore_reuse` | a completed pod's address is given away | **violated**: `EndpointCollected` |
| `podwatcher` | 2 pods, 3 revisions, queue of 1, 1 broken watch, timeout and shutdown at any time | versions only advance (`VersionNeverRegresses`), nothing is lost while connected (`NothingLostWhileConnected`), a pod that left is kept only because of a gap in the watches, a deletion without a grace period or a panic (`GhostsOnlyFromGaps`), the store is used as `PodStore` (`IsPodStore`); `Converges` and `WorkerFinishes` under fairness |
| `podwatcher_stop` | shutdown while producers send | **violated**: `NoPanic` |
| `podwatcher_gap` | a pod that is collected from goes while the watch is broken | **violated**: `FollowsCluster`, its file stays for ever |
| `builders` | 2 pods of 2 containers, 1 address with 2 ports, 3 container ids (one without a runtime), 6 sets of annotations, one of them without metric sets of a type with two, 2 contents of the Secret | deployed lists are those of the known pods, up to reordered default metric sets (`FilesMatchPods`), each container is read once (`EachContainerOnce`), an event leaves alone what it does not change (`KeepsFiles`) |
| `graphite` | 3 pods, 3 filters (one of the base configuration), 2 conflicting keys, 1 failing restart | the registry holds the known pods that were not refused, and only they (`NoDanglingPod`, `ServedWhileUsed`, `RegisteredOrRefused`); no pod disturbs another (`NeighboursKeepTemplates`); with one template, only a failed restart leaves an old server behind (`OutdatedOnlyWhenLogged`) |
| `graphite_servers` | the same, no failures | **violated**: `OneServer` |
| `cfgfile` | 3 configurations, 1 static file, 2 files in error, crashes and restarts at any time | `CacheOnDisk`, `NothingLeftBehind`, `ForeignKept`; `Factory` is implemented (`KeepsFactoryPromise`); `ReloaderCatchesUp` under fairness |
| `runner` | 3 pods (one with two configurations, one with two orders of its metric sets), a registry of no, one or two templates, the last with two orders | no runner is lost track of (`NothingLeaks`), never two servers (`OneServerRuns`), no needless restart (`NoNeedlessRestart`), each for the configurations that are built alike every time; `Factory` is implemented for all (`KeepsFactoryPromise`) |
| `runner_stop` | the same | **violated**: `EveryStartIsServed` |
| `collectbeat` | both beats, 2 discoverers: 10 settings of the first (none, the defaults, disabled, no client, unknown, failing and panicking plug-ins, one default without the other), 2 of the second | who is asked about pods was configured (`BuildersAsConfigured`) and everybody who was is asked (`EveryBuilderAsked`); metricbeat's `Run` outlives its discoverers (`ReturnsAfterDiscoverers`); `StopCompletes` under fairness |

### Why the bounds are enough

* Two pods are enough for one to disturb another; the graphite registry gets a third, so that a
  filter can lose one of two pods while a conflict waits. Three configurations let a `Restart`
  run between two while a third is untouched.
* `PodStore`: the pod objects of the instance cover every difference the code tests: no IP, an
  IP, new labels, another address, another endpoint, an endpoint no index knows, a deletion
  with the old and with another address. The token is readable or not, which is all that a
  rotation can change for a configuration built before it; two orders are enough to differ.
* `ModuleBuilders`: the Secret and the token change only while no known pod reads them. What a
  change does to a pod that reads them is `PodStore`'s question, where the token rotates at any
  time.
* `PodWatcher` keeps the token and takes one order of the metric sets: what they do to the store
  is the same whichever goroutine's event comes next.
* `RunnerFactory`: `MaxRunning` keeps the server from being restarted once a server has two
  runners, of which one has leaked already.
* `PodWatcher`: a queue of 1 is full as soon as anything is in it, so both "full" and "empty"
  occur at every point where the code sends or receives. One broken watch already gives a LIST,
  a WATCH and a second WATCH that all report the same pods; three revisions let a pod be
  created, changed and put into its grace period. Cluster changes and broken watches are
  bounded by `MaxRevision` and `MaxBreaks`, which liveness needs: nothing converges while the
  cluster keeps changing.
* `MaxFaults` bounds failed file operations. In `podstore` one is enough, as an error is
  remembered for good; in `cfgfile` it bounds the files in error at a time, so operations may
  fail any number of times.
* `graphite`: `MaxErrors` allows one failed restart, which may be any, and `FewServers` follows
  up to three servers that accumulate: enough for one that is left by an error and two that
  two orders of the templates leave. `graphite` and `builders` use symmetry over pods (and
  container ids); neither checks liveness.
* `collectbeat`: the settings of the first discoverer cover each branch of the constructor once;
  the second one is there to append to the same lists at the same time.

### Deadlock

Checked wherever the system should go on. `CHECK_DEADLOCK FALSE` is set for `podwatcher` and
its variants, where a stopped process has nothing left to do, for `collectbeat`, where the
process has returned, or hangs because its beat failed (finding 10), and for the runs of
`RunnerFactory`, whose mutex stays locked (that is the finding of `runner_stop`).

### Fairness

* `PodWatcher`: weak fairness of each goroutine (the Go scheduler runs what can run; a `LIST`,
  a `WATCH` and `Next` eventually return). None for the cluster, for broken watches, for the
  timeout or for shutdown: nothing obliges them.
* `CfgfileFactory`: weak fairness of a call in progress and of the reloader's period. None for
  the calls themselves, for crashes or for a restart of the process.
* `RunnerFactory`: weak fairness of the call in progress, while the mutex is free.
* `Collectbeat`: weak fairness of the main goroutine, of each discoverer's goroutines, and of
  the `close(done)` in metricbeat's `Stop`; the beat inside returns once it is told to stop. None
  for `Stop` itself, for a failure of the beat inside, for timeouts or panics.
* The other modules state no liveness.

## 4. Findings

1. `podstore_reuse`: equal configurations share a file and are not counted. A completed pod
   keeps its address in its status; when the address goes to a new pod with the same
   annotations and the old one is deleted, the file of the new one is removed.
2. A deletion without IP leaves the metadata under the old address. `StaleOnlyWhenLate` shows
   that this is the only way: no update leaves any. Without a run of its own.
3. `podwatcher_stop`: `Stop` closes the channel while producers send, which panics; a shutdown
   after `ready_timeout` closes it twice.
4. `podwatcher_gap`: nothing compares the store with the pods that exist when the watch comes
   back; a pod that went in between is collected from for ever.
5. `graphite_servers`: the older server's configuration is rebuilt from a Go map, whose order
   may differ from that of the deployed one; its file stays beside the new one.
6. `runner_stop`: `Stop` of the runner factory locks its mutex and never unlocks it. No beat of
   this repository selects that factory.
7. Met while modelling `ModuleBuilders`: an endpoint with a path or a scheme
   gets no pod metadata; the pod-wide multiline pattern of the documentation is never read; the
   documented key `match` is read as `after`.
8. An appender whose constructor fails is appended as nil (`kubernetes.go:171`), and the first
   configuration it is applied to ends the process (`Panic` in `Collectbeat`).
9. filebeat's `Stop` never closes `done` (`filebeat.go:121`): its discoverers are not stopped.
10. metricbeat drops the error of the metricbeat inside (`metricbeat.go:120`): `Run` waits for a
    `Stop`, with nobody to read the deployed files.
11. Without `config.modules` the default directory is given to the factory, but not to the
    metricbeat inside, which was made before (`metricbeat.go:71`, `36`): nothing reads it.
12. Metric sets that the annotations do not name are all those registered, in the order of a Go
    map (`metrics_annotations.go:194`, `mb/registry.go:185`). With two of them, as for redis, the
    configuration rebuilt at `Stop` may be another than the deployed one: its file stays behind
    without an error, and after an update the pod is collected from twice. `OrphansHaveCause`
    shows that besides a changed token this is the only silent cause.
13. The same order of templates (finding 5) makes the runner factory start a second server
    beside the running one, or replace the entry of a running one that then cannot be stopped.
    The properties of `runner` hold for servers of at most one template.

For each of the runs that show a violation, a theorem says how far the property does hold
(section 5, "The limits of the findings").

Findings 2 and 7 to 13 have no run: they are visible in one definition each, which
`PROJECT.json` names. What the code does in 12 and 13 is part of the behaviours of `podstore`,
`builders` and `runner`, whose properties except it by name (`SameOrder`, `Reordered`, `Steady`).

## 5. The proofs

Everything below holds for every value of the constants that meets the modules' named
assumptions (`StoreAssumption`, `WatcherAssumption`, `GraphiteAssumption`, `CfgfileAssumption`,
`RunnerAssumption`, `BuildersAssumption`, `PluginsAssumption`, `CollectbeatAssumption`), which say
which values are distinct and that parameters are of the right kind. Some say more:
`GraphiteAssumption`, that there are finitely many filters, and `WatcherAssumption`, finitely
many pods; `RunnerAssumption`, that different pods' configurations differ, as their addresses do;
`BuildersAssumption`, that the endpoints in a pod's annotations and in its Secret use the
pod's own ports, and that container names are
unique within a pod.

**`PodStoreProofs`.** The theorems come in two layers, each with the hypotheses it needs and no
more.

1. In every environment: `TypeCorrect`, and `StaleWhenLate`, that metadata outlives its pod only
   by a deletion without its address.
2. While an address belongs to one known pod at a time (`~SharedAddresses`), with tokens rotating
   and metric sets reordered at will: `MetadataIsFresh`, `Collected`, `EndpointsCollected` and
   `NoCollateral`, from the invariant `ApartInv`. Its strengthening is `DisjointPods`: that known
   pods claim different addresses is what keeps one pod's event from changing what another pod's
   configuration may be rebuilt to (`OthersUnaffected`, `OthersRebuilt`), and it is preserved
   because the environment only sends pods that fit. `OrphansByCause` then says how a file can
   come to be one that no `Stop` will find: only by a change of the token it takes, or by an
   event of its own pod that lists its metric sets in another order. `StoreInv` draws from it
   that an orphan is of an unstable module, one that takes a token or has no fixed order; with
   it `Refinement` maps each step to a step of `Collection` or a stutter, and `CollectsExactly`
   says that until an error is logged everything the known pods ask for is collected from, and of
   stable modules nothing else.

**`PodWatcherProofs`.** `WTypeCorrect`; `WatcherIsPodStore`, that every step of any goroutine is a
step of `PodStore` or leaves the store alone, from the hypothesis that pods do not share
addresses (or that `PodStore` is told they may); and two properties of the pipeline from the API
server to the store. `VersionsNeverRegress` needs that the two producers are never active at
once, and that along store, queue, list, held event, stream and API server the revisions of one
pod never decrease (`Ordered`). `NothingIsLost` needs that, while a watch is connected, the newest
revision of a pod is at some place of that way (`Informed`).

**`PodWatcherOutcomes`.** What follows for the watcher as a whole. Through `WatcherIsPodStore`
the store behind the queue inherits what holds while addresses are exclusive (`WatcherCollects`;
`WatcherKeepsPromise`, with `OrphansHaveCause` and `Collection`). Put together with `NothingIsLost` they reach from the
API server to the deployed files: when a connected watch has nothing on the way (`Settled`),
every pod of the node is in the store as it is and collected from as it asks, or an error was
logged (`CollectsTheNode`); and nothing else is, but for ghosts and unstable modules
(`CollectsNothingElse`). A ghost
is a pod that left while the last the goroutines know of it, stored or on its way, is that it is
there. `GhostsComeFromGaps` follows that last news through stream, held event, list, queue and
store (`AppendAlive`, `TailAlive`), one lemma per goroutine. About stopping, from `StopPhases`:
`PanicNeedsStop`, `PanicsAreUsesOfTheClosedQueue` and `WorkerLeavesNothing`.

**`GraphiteBuilderProofs`.** The properties are inductive together with one addition: only known
pods are remembered as refused. The invariant is stated of a registry as a value, so that an
update, which removes and adds in one step, follows from the lemmas of its two halves,
`Deregister` and `Register`. Proved: `GraphiteTypeCorrect`, `NothingDangles`, `Served`,
`RegisteredUnlessRefused`, `NeighboursUndisturbed`. `OutdatedWhenLogged` adds that a registry of one
template is listed in one order (`OneOrder`), so the configuration that is stopped is the one
that is deployed. `OneFilterOneServer` carries this to the number of servers.

**`CfgfileFactoryProofs`.** `FTypeCorrect`, `CachedIsDeployed`, `NoLeftovers` and `ForeignUntouched`
are inductive together with: a process that is not running has an empty cache and no call in
progress (`DeadIsEmpty`), so that the constructor starts from the directory alone. They hold for
any number of faults and crashes. `CfgfileImplementsFactory` maps each step to a step of
`Factory` or a stutter. `ScansAreFaithful` says what the reloader finds when it scans, also in
the middle of a call: every deployed and static configuration in full, and beyond them only what
is being written or was logged as failed. With `ReloaderCatchesUp`, which only adds that a scan
comes, this is why a half-written file does not stay in use.

**`RunnerFactoryProofs`.** `RTypeCorrect`, `NoRunnerLeaks`, `OneServer`, `NoNeedlessRestarts` and
`RunnerImplementsFactory`. The invariant `RInv` says what each kind of call in progress implies
about the map of runners: what a `Start` has still to do has no entry (`NotYetStarted`), the
entries of pollers belong to known pods or to the pod being stopped (`PodsKnown`), and of the
servers that are built alike each time (`Steady`) only the one asked for has an entry, or the one
about to be stopped (`ServerKnown`). `NoRunnerLeaks`, `OneServer` and `NoNeedlessRestarts` are about
such servers, those of at most one template, and about all configurations of pods; the others are
finding 13. `StartsAccounted` adds that no `Stop` of another pod and no restart of the server
takes away what a known pod started.

**`ModuleBuildersProofs`.** `BTypeCorrect`, `FilesAreCurrent`, `ReadOnce` and `FilesKept`, from the
invariant `BInv`: addresses, ports and container ids are exclusive among known pods (`PodsApart`),
and the deployed lists are those of the known pods. Two lemmas are behind all of them.
`ListsApart`: lists of different known pods have no list in common but one that names no log file
at all, so withdrawing those of one never takes those of another. `LeftOut`: what a rebuilt answer
misses is a list of default metric sets in another order.

**`CollectbeatProofs`.** `CollectbeatTypeCorrect`, `AskedAsConfigured`, `AskedInFull` and
`NoneLeftBehind`, for any settings and any number of discoverers. The invariant `CInv` follows
what `Start` has appended, is appending and has still to append. `AskedAsConfigured` holds although
the constructor keeps the address of its loop variable (`kubernetes.go:56`), because every
default configuration is the same empty one; the run's mutant makes them differ. A second
invariant, `ClosingInv`, follows who closed the queue of which discoverer: `TimeoutsSpoilTheReturn`
says that `Run` of metricbeat never returns after a discoverer timed out, because `Stop` closes its
queue a second time. Nothing is claimed about when a running watcher does not panic: `Panic` may
come whenever one runs.

**The limits of the findings.** What a run shows to be violated, a theorem bounds:

| Violated | Holds nevertheless |
|---|---|
| `EndpointCollected` (`podstore_reuse`) | `EndpointsCollected`: always, while pods do not share an address |
| `NoPanic` (`podwatcher_stop`) | `PanicNeedsStop`, `PanicsAreUsesOfTheClosedQueue`: only after `Stop` or the timeout, only by a send on the closed queue or a second `Stop` |
| `FollowsCluster` (`podwatcher_gap`) | `GhostsComeFromGaps`: only a gap in the watches, a deletion without a grace period or a panic leaves a pod behind |
| silent orphans (finding 12) | `OrphansByCause`: only a changed token or a reordered list of default metric sets leaves a file behind |
| a second server, a lost runner (finding 13) | `OneServer`, `NoRunnerLeaks`: never of servers with at most one template, nor of a pod's configurations |
| `OneServer` (`graphite_servers`) | `OneFilterOneServer`: with one filter in use, one server, until a restart fails |
| `EveryStartIsServed` (`runner_stop`) | `StartsAccounted`: a `Start` is lost only by waiting for the mutex |

**Only model-checked.** Liveness (`Converges`, `WorkerFinishes`, `ReloaderCatchesUp`,
`StopCompletes`), which the prover does not reach. The safety half of each is proved: what the
store holds when nothing is on the way (`CollectsTheNode`), what an exited worker leaves
(`WorkerLeavesNothing`), what a scan finds (`ScansAreFaithful`), and what a `Run` that returned has
stopped (`NoneLeftBehind`).

## 6. Not modelled

* *Command line, docker client constructor*: no state.
* *`log_path` appender*: it acts on custom log paths, and the constructor of the log builder
  never enables them (`log_annotations.go:57-63`), so `Append` always returns at its first
  test. That its constructor may fail is in `Plugins`.
* *Intervals, timeouts, TLS verification, namespaces of prospectors*: copied from annotations or
  defaulted; they are part of a configuration's identity but no property tells them apart.
* *Loading of discoverers from shared objects*: `Collectbeat` has discoverers of any names, and
  takes each to be constructed as the Kubernetes one is.
* *What the beats inside do*: vendored code, taken to return when told to stop or to fail.
* *Restart of the process in `PodWatcher`*: the constructor of the cfgfile factory deletes what
  an earlier process left (`CfgfileFactory`), and the watcher then starts empty, as in `WInit`.

## 7. Plan

The order was by how much of the system's behaviour rests on a part. Done: `Collection`,
`PodStore`, `PodWatcher`, `GraphiteBuilder`, `CfgfileFactory`, `RunnerFactory`, `ModuleBuilders`,
`Factory` with its two refinements, `Plugins`, `Collectbeat`, and the safety proofs of all of
them. Left, in this order:

1. `PodStore` over `Factory`: its file operations are atomic and either happen or fail, as
   `CfgfileFactory` was shown to do; a composition would let the process die between them and
   show `Collection` across a restart.
2. `Collectbeat` with a full `PodWatcher` per discoverer in place of `Panic`, to tell which of
   the shutdowns end in a panic.
3. An abstract *registry with shared entries* (a set of pods per key), which `GraphiteBuilder`
   implements, and which a repaired cfgfile factory (finding 1) would have to.
