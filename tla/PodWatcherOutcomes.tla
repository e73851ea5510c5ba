---- MODULE PodWatcherOutcomes ----
(***************************************************************************)
(* What the goroutines of a PodWatcher come to, on top of the invariants   *)
(* of PodWatcherProofs: what is collected when nothing is on the way any   *)
(* more, why a pod that left may stay in the store, when the process may   *)
(* panic, and what the worker leaves behind when it exits.                 *)
(***************************************************************************)
EXTENDS PodWatcherProofs
----
(* The store behind the queue *)

\* Whatever the goroutines interleave, the worker's store answers with fresh metadata,
\* collects from every pod it knows as the pod asks, and lets no pod's event stop another's
\* runner.
THEOREM WatcherCollects ==
    ASSUME ~SharedAddresses, AddressesOfOnePod
    PROVE  WSpec => [](FreshMetadata /\ EveryPodCollected /\ EndpointCollected) /\ NoCollateralStop
BY WatcherIsPodStore, MetadataIsFresh, Collected, EndpointsCollected, NoCollateral, PTL
   DEF IsPodStore

\* It leaves a file behind in silence only for the causes the store has, so the watcher
\* implements Collection.
THEOREM WatcherKeepsPromise ==
    ASSUME ~SharedAddresses, AddressesOfOnePod PROVE WSpec => OrphansHaveCause /\ KeepsPromise
BY WatcherIsPodStore, OrphansByCause, Refinement, PTL DEF IsPodStore

LEMMA WatcherStoreInv ==
    ASSUME ~SharedAddresses, AddressesOfOnePod PROVE WSpec => []StoreInv
BY WatcherIsPodStore, StoreInvariant, PTL DEF IsPodStore
----
(* What is collected when nothing is on the way *)

\* The watch is connected and every event it had was applied.
Settled == Connected /\ ~crashed /\ stream = <<>> /\ held = NoPod /\ queue = <<>>

\* The store has the current state of every pod of the node that is not going away, and
\* each endpoint such a pod asks for is collected from, or an error about it was logged.
SettledCollects ==
    Settled => \A u \in UID : Exists(u) =>
        /\ Reflected(u)
        /\ ~api[u].del => \A e \in WantedEndpoints(api[u]) :
              \E c \in files \cup {f[2] : f \in failed} : EndpointOf(c) = e

\* Every file is what a pod of the node asks for now, or a ghost's, or its removal was
\* logged as failed, or it takes a token or lists its metric sets in no fixed order.
SettledIsExact ==
    Settled => \A c \in files :
        \/ <<"stop", c>> \in failed \/ ~Stable(c.spec)
        \/ \E u \in UID : Exists(u) /\ ~api[u].del /\ c \in Build(api[u], annotations, token)
        \/ \E u \in UID : Ghost(u) /\ c \in Rebuilt(u)

LEMMA SettledReflects ==
    ASSUME NothingLostWhileConnected, Settled, NEW u \in UID, Exists(u)
    PROVE  Reflected(u)
<1>1. NewestIs(u, api[u])
  BY DEF NothingLostWhileConnected, Settled
<1>2. Silent(<<>>, u)
  BY DEF Silent
<1> QED BY <1>1, <1>2 DEF NewestIs, Settled

\* From the API server to the deployed files: once the events of a connected watch are
\* applied, every pod of the node is collected from as it asks (podwatcher.go:95-173).
THEOREM CollectsTheNode ==
    ASSUME ~SharedAddresses, AddressesOfOnePod PROVE WSpec => []SettledCollects
<1>1. NothingLostWhileConnected /\ EndpointCollected => SettledCollects
  <2> SUFFICES ASSUME NothingLostWhileConnected, EndpointCollected, Settled,
                      NEW u \in UID, Exists(u)
               PROVE  /\ Reflected(u)
                      /\ ~api[u].del => \A e \in WantedEndpoints(api[u]) :
                            \E c \in files \cup {f[2] : f \in failed} : EndpointOf(c) = e
    BY DEF SettledCollects
  <2>1. Reflected(u)
    BY SettledReflects
  <2>2. ~api[u].del => u \in Cached /\ pods[u] = api[u]
    BY <2>1 DEF Reflected, Exists, Cached
  <2> QED BY <2>1, <2>2 DEF EndpointCollected
<1> QED BY <1>1, NothingIsLost, WatcherCollects, PTL

\* And nothing else is, but for ghosts, logged errors and unstable modules.
THEOREM CollectsNothingElse ==
    ASSUME ~SharedAddresses, AddressesOfOnePod PROVE WSpec => []SettledIsExact
<1>1. Base /\ NothingLostWhileConnected /\ StoreInv => SettledIsExact
  <2> SUFFICES ASSUME Base, NothingLostWhileConnected, StoreInv, Settled,
                      NEW c \in files, <<"stop", c>> \notin failed, Stable(c.spec)
               PROVE  \/ \E u \in UID : /\ Exists(u) /\ ~api[u].del
                                        /\ c \in Build(api[u], annotations, token)
                      \/ \E u \in UID : Ghost(u) /\ c \in Rebuilt(u)
    BY DEF SettledIsExact
  <2>1. PICK u \in Cached : c \in Rebuilt(u)
    BY DEF StoreInv, NoOrphanConfig, Orphan
  <2>2. u \in UID /\ pods[u] # NoPod
    BY <2>1 DEF Cached
  <2>3. CASE Exists(u)
    <3>1. pods[u] = api[u] /\ ~api[u].del
      BY <2>2, <2>3, SettledReflects DEF Reflected
    <3> QED BY <2>1, <2>2, <2>3, <3>1 DEF Rebuilt
  <2>4. CASE ~Exists(u)
    <3>1. stream = <<>> /\ held = NoPod /\ listed = <<>> /\ queue = <<>> /\ Silent(<<>>, u)
      BY DEF Settled, Connected, Base, Phases, Silent
    <3>2. Ghost(u)
      BY <2>1, <2>4, <3>1 DEF Ghost, LastHeardAlive
    <3> QED BY <2>1, <2>2, <3>2
  <2> QED BY <2>3, <2>4
<1> QED BY <1>1, NothingIsLost, WatcherStoreInv, WatcherInvariant, PTL
----
(* Why a pod that left may stay in the store *)

LEMMA AppendAlive ==
    ASSUME NEW s \in Seq(Delivered), NEW p \in Delivered, NEW u
    PROVE  /\ p.uid = u => ~Silent(Append(s, p), u) /\ (AliveIn(Append(s, p), u) <=> ~p.del)
           /\ p.uid # u => /\ Silent(Append(s, p), u) <=> Silent(s, u)
                           /\ AliveIn(Append(s, p), u) <=> AliveIn(s, u)
<1> DEFINE t == Append(s, p)
           n == Len(s) + 1
<1>1. /\ DOMAIN t = DOMAIN s \cup {n} /\ t[n] = p
      /\ \A i \in DOMAIN s : t[i] = s[i] /\ i < n
      /\ DOMAIN s \subseteq Nat /\ n \in Nat
  BY AppendFacts
<1> HIDE DEF t, n
<1>2. p.uid = u => ~Silent(t, u) /\ (AliveIn(t, u) <=> ~p.del)
  <2> SUFFICES ASSUME p.uid = u PROVE ~Silent(t, u) /\ (AliveIn(t, u) <=> ~p.del)
    OBVIOUS
  <2>1. \A i \in DOMAIN t : i <= n /\ (n <= i => i = n)
    BY <1>1
  <2>2. n \in DOMAIN t /\ t[n].uid = u
    BY <1>1
  <2>3. AliveIn(t, u) => ~p.del
    BY <1>1, <2>1, <2>2 DEF AliveIn
  <2>4. ~p.del => AliveIn(t, u)
    BY <1>1, <2>1, <2>2 DEF AliveIn
  <2> QED BY <2>2, <2>3, <2>4 DEF Silent
<1>3. p.uid # u => (Silent(t, u) <=> Silent(s, u)) /\ (AliveIn(t, u) <=> AliveIn(s, u))
  BY <1>1 DEF Silent, AliveIn
<1> QED BY <1>2, <1>3 DEF t

LEMMA TailAlive ==
    ASSUME NEW s \in Seq(Delivered), s # <<>>, NEW u
    PROVE  /\ Silent(s, u) <=> Silent(Tail(s), u) /\ Head(s).uid # u
           /\ IF Silent(Tail(s), u) THEN AliveIn(s, u) <=> Head(s).uid = u /\ ~Head(s).del
                                    ELSE AliveIn(s, u) <=> AliveIn(Tail(s), u)
<1> DEFINE t == Tail(s)
<1>1. /\ Head(s) = s[1] /\ 1 \in DOMAIN s /\ DOMAIN s \subseteq Nat \ {0}
      /\ DOMAIN t \subseteq Nat \ {0}
      /\ \A i \in DOMAIN t : t[i] = s[i + 1] /\ i + 1 \in DOMAIN s
      /\ \A i \in DOMAIN s : i # 1 => i - 1 \in DOMAIN t /\ t[i - 1] = s[i]
  BY TailFacts
<1> HIDE DEF t
<1>2. Silent(s, u) <=> Silent(t, u) /\ Head(s).uid # u
  <2>1. Silent(s, u) => Silent(t, u) /\ Head(s).uid # u
    BY <1>1 DEF Silent
  <2>2. Silent(t, u) /\ Head(s).uid # u => Silent(s, u)
    BY <1>1 DEF Silent
  <2> QED BY <2>1, <2>2
<1>3. CASE Silent(t, u)
  <2>1. \A i \in DOMAIN s : s[i].uid = u => i = 1
    BY <1>1, <1>3 DEF Silent
  <2>2. AliveIn(s, u) => Head(s).uid = u /\ ~Head(s).del
    BY <1>1, <2>1 DEF AliveIn
  <2>3. Head(s).uid = u /\ ~Head(s).del => AliveIn(s, u)
    BY <1>1, <2>1 DEF AliveIn
  <2> QED BY <1>2, <1>3, <2>2, <2>3 DEF t
<1>4. CASE ~Silent(t, u)
  <2>1. AliveIn(s, u) => AliveIn(t, u)
    <3> SUFFICES ASSUME NEW i \in DOMAIN s, s[i].uid = u, ~s[i].del,
                        \A j \in DOMAIN s : s[j].uid = u => j <= i
                 PROVE  AliveIn(t, u)
      BY DEF AliveIn
    <3>1. PICK k \in DOMAIN t : t[k].uid = u
      BY <1>4 DEF Silent
    <3>2. k + 1 <= i
      BY <1>1, <3>1
    <3>3. i - 1 \in DOMAIN t /\ t[i - 1] = s[i]
      BY <1>1, <3>2
    <3>4. ASSUME NEW j \in DOMAIN t, t[j].uid = u PROVE j <= i - 1
      <4>1. j + 1 <= i /\ j \in Nat /\ i \in Nat
        BY <1>1, <3>4
      <4> QED BY <4>1
    <3> QED BY <3>3, <3>4 DEF AliveIn
  <2>2. AliveIn(t, u) => AliveIn(s, u)
    <3> SUFFICES ASSUME NEW i \in DOMAIN t, t[i].uid = u, ~t[i].del,
                        \A j \in DOMAIN t : t[j].uid = u => j <= i
                 PROVE  AliveIn(s, u)
      BY DEF AliveIn
    <3>1. i + 1 \in DOMAIN s /\ s[i + 1] = t[i] /\ i \in Nat \ {0}
      BY <1>1
    <3>2. ASSUME NEW j \in DOMAIN s, s[j].uid = u PROVE j <= i + 1
      <4>1. CASE j = 1
        BY <3>1, <4>1
      <4>2. CASE j # 1
        <5>1. j - 1 \in DOMAIN t /\ t[j - 1] = s[j]
          BY <1>1, <4>2
        <5>2. j - 1 <= i /\ j \in Nat
          BY <1>1, <3>2, <5>1
        <5> QED BY <3>1, <5>2
      <4> QED BY <4>1, <4>2
    <3> QED BY <3>1, <3>2 DEF AliveIn
  <2> QED BY <1>2, <1>4, <2>1, <2>2 DEF t
<1> QED BY <1>3, <1>4

\* A snapshot says nothing of a pod that does not exist.
LEMMA SnapshotSilent ==
    ASSUME Base, NEW s \in Snapshots, NEW u \in UID, ~Exists(u)
    PROVE  Silent(s, u)
<1>1. ToSet(s) = {api[v] : v \in {w \in UID : Exists(w)}}
  BY SnapshotFacts DEF Base, WTypeOK, OwnObjects
<1>2. \A v \in UID : Exists(v) => api[v].uid # u
  BY DEF Base, OwnObjects
<1> QED BY <1>1, <1>2 DEF Silent, ToSet

\* While only the stream changes, the last heard of u changes with it.
LEMMA EmitAlive ==
    ASSUME Base, NEW p \in Delivered, NEW u, Emit(p), UNCHANGED <<pods, queue, listed, held>>
    PROVE  /\ p.uid # u => (LastHeardAlive(u)' <=> LastHeardAlive(u))
           /\ p.uid = u /\ Connected /\ p.del => ~LastHeardAlive(u)'
<1>1. Cached' = Cached /\ stream \in Seq(Delivered)
  BY DEF Cached, Base, WTypeOK
<1>2. CASE ~Connected
  BY <1>1, <1>2 DEF Emit, LastHeardAlive
<1>3. CASE Connected
  <2>1. stream' = Append(stream, p)
    BY <1>3 DEF Emit
  <2>2. p.uid = u /\ p.del => ~Silent(stream', u) /\ ~AliveIn(stream', u)
    BY <1>1, <2>1, AppendAlive
  <2>3. p.uid # u => /\ Silent(stream', u) <=> Silent(stream, u)
                     /\ AliveIn(stream', u) <=> AliveIn(stream, u)
    BY <1>1, <2>1, AppendAlive
  <2> QED BY <1>1, <2>2, <2>3 DEF LastHeardAlive
<1> QED BY <1>2, <1>3

LEMMA ClusterGhosts ==
    ASSUME Base, Cluster, NEW u \in UID, Ghost(u)', ~Ghost(u)
    PROVE  Vanish(u) /\ ~(Connected /\ api[u].del)
<1>1. ASSUME NEW p \in Delivered, Change(p) PROVE FALSE
  <2>1. /\ api' = [api EXCEPT ![p.uid] = p] /\ Emit(p) /\ p # NoPod /\ p.uid \in UID
        /\ UNCHANGED <<pods, queue, listed, held>>
    BY <1>1, DeliveredFacts DEF Change, vars, chan
  <2>2. p.uid # u /\ ~Exists(u)
    BY <2>1 DEF Ghost, Exists, Base, WTypeOK
  <2> QED BY <2>1, <2>2, EmitAlive DEF Ghost
<1>2. ASSUME NEW v \in UID, Vanish(v) PROVE Vanish(u) /\ ~(Connected /\ api[u].del)
  <2>1. /\ api' = [api EXCEPT ![v] = NoPod] /\ Emit(api[v]) /\ Exists(v)
        /\ UNCHANGED <<pods, queue, listed, held>>
    BY <1>2 DEF Vanish, vars, chan
  <2>2. api[v] \in Delivered /\ api[v].uid = v
    BY <2>1 DEF Base, WTypeOK, OwnObjects, Exists
  <2>3. u = v
    <3> SUFFICES ASSUME u # v PROVE FALSE
      OBVIOUS
    <3>1. Exists(u)' <=> Exists(u)
      BY <2>1 DEF Exists, Base, WTypeOK
    <3> QED BY <2>1, <2>2, <3>1, EmitAlive DEF Ghost
  <2>4. ~(Connected /\ api[u].del)
    BY <2>1, <2>2, <2>3, EmitAlive DEF Ghost
  <2> QED BY <1>2, <2>3, <2>4
<1> QED BY <1>1, <1>2 DEF Cluster

LEMMA SyncerGhosts ==
    ASSUME Base, Syncer, ~crashed', NEW u \in UID, Ghost(u)'
    PROVE  Ghost(u)
<1>1. /\ ~Exists(u) /\ Cached' = Cached /\ UNCHANGED <<stream, held>>
      /\ stream = <<>> /\ held = NoPod /\ listed \in Seq(Delivered) /\ queue \in Seq(Delivered)
  BY DEF Ghost, Exists, Cached, Base, Phases, WTypeOK, Connected, Syncer, List, SendListed,
         Synced, vars, cluster
<1>2. Silent(<<>>, u)
  BY DEF Silent
<1>3. CASE List
  <2>1. queue' = queue
    BY <1>3 DEF List, chan
  <2>2. CASE listed' = listed
    BY <1>1, <2>1, <2>2 DEF Ghost, LastHeardAlive
  <2>3. CASE listed' \in Snapshots
    <3>1. listed = <<>> /\ Silent(listed', u)
      BY <1>1, <1>3, <2>3, SnapshotSilent DEF List, Base, Phases
    <3> QED BY <1>1, <1>2, <2>1, <3>1 DEF Ghost, LastHeardAlive
  <2> QED BY <1>3, <2>2, <2>3 DEF List
<1>4. CASE SendListed
  <2> DEFINE p == Head(listed)
  <2>1. listed # <<>> /\ listed' = Tail(listed) /\ queue' = Append(queue, p) /\ p \in Delivered
    BY <1>1, <1>4, TailFacts DEF SendListed, Send
  <2>2. /\ Silent(listed, u) <=> Silent(listed', u) /\ p.uid # u
        /\ IF Silent(listed', u) THEN AliveIn(listed, u) <=> p.uid = u /\ ~p.del
                                 ELSE AliveIn(listed, u) <=> AliveIn(listed', u)
    BY <1>1, <2>1, TailAlive
  <2>3. /\ p.uid = u => ~Silent(queue', u) /\ (AliveIn(queue', u) <=> ~p.del)
        /\ p.uid # u => /\ Silent(queue', u) <=> Silent(queue, u)
                        /\ AliveIn(queue', u) <=> AliveIn(queue, u)
    BY <1>1, <2>1, AppendAlive
  <2> HIDE DEF p
  <2> QED BY <1>1, <1>2, <2>2, <2>3 DEF Ghost, LastHeardAlive
<1>5. CASE Synced
  BY <1>1, <1>5 DEF Synced, Ghost, LastHeardAlive, chan
<1> QED BY <1>3, <1>4, <1>5 DEF Syncer

LEMMA WatcherGhosts ==
    ASSUME Base, Watcher \/ Break, ~crashed', NEW u \in UID, Ghost(u)', ~Ghost(u)
    PROVE  Break /\ ~Silent(stream, u)
<1>1. /\ ~Exists(u) /\ Cached' = Cached /\ listed' = listed /\ listed = <<>>
      /\ stream \in Seq(Delivered) /\ queue \in Seq(Delivered)
  BY DEF Ghost, Exists, Cached, Base, Phases, WTypeOK, Watcher, Connect, NextEvent, SendEvent,
         Break, vars, cluster
<1>2. Silent(<<>>, u)
  BY DEF Silent
<1>3. ASSUME Connect PROVE FALSE
  <2>1. stream = <<>> /\ stream' \in Snapshots /\ UNCHANGED <<held, queue>>
    BY <1>3 DEF Connect, Base, Phases, Connected, chan
  <2>2. Silent(stream', u)
    BY <1>1, <2>1, SnapshotSilent
  <2> QED BY <1>1, <1>2, <2>1, <2>2 DEF Ghost, LastHeardAlive
<1>4. ASSUME NextEvent PROVE FALSE
  <2>1. /\ stream # <<>> /\ held = NoPod /\ held' = Head(stream) /\ stream' = Tail(stream)
        /\ queue' = queue
    BY <1>4 DEF NextEvent, Base, WTypeOK, chan
  <2>2. held' # NoPod
    BY <1>1, <2>1, TailFacts, DeliveredFacts
  <2>3. /\ Silent(stream, u) <=> Silent(stream', u) /\ held'.uid # u
        /\ IF Silent(stream', u) THEN AliveIn(stream, u) <=> held'.uid = u /\ ~held'.del
                                 ELSE AliveIn(stream, u) <=> AliveIn(stream', u)
    BY <1>1, <2>1, TailAlive
  <2>4. UNCHANGED <<queue, listed>> /\ held = NoPod
    BY <1>1, <2>1
  <2> QED BY <1>1, <2>2, <2>3, <2>4 DEF Ghost, LastHeardAlive
<1>5. ASSUME SendEvent PROVE FALSE
  <2>1. /\ held # NoPod /\ held \in Delivered /\ held' = NoPod /\ stream' = stream
        /\ queue' = Append(queue, held)
    BY <1>5 DEF SendEvent, Send, Base, WTypeOK
  <2>2. /\ held.uid = u => ~Silent(queue', u) /\ (AliveIn(queue', u) <=> ~held.del)
        /\ held.uid # u => /\ Silent(queue', u) <=> Silent(queue, u)
                           /\ AliveIn(queue', u) <=> AliveIn(queue, u)
    BY <1>1, <2>1, AppendAlive
  <2>3. /\ held # NoPod /\ held' = NoPod /\ stream' = stream
    BY <2>1
  <2> QED BY <1>1, <1>2, <2>2, <2>3 DEF Ghost, LastHeardAlive
<1>6. CASE Break
  <2>1. stream' = <<>> /\ UNCHANGED <<held, queue>>
    BY <1>6 DEF Break, chan
  <2>2. CASE Silent(stream, u)
    BY <1>1, <1>2, <2>1, <2>2 DEF Ghost, LastHeardAlive
  <2> QED BY <1>6, <2>2
<1> QED BY <1>3, <1>4, <1>5, <1>6 DEF Watcher

LEMMA WorkerGhosts ==
    ASSUME Base, Ordered, Worker, NEW u \in UID, Ghost(u)'
    PROVE  Ghost(u)
<1>1. CASE Apply
  <2> DEFINE p == Head(queue)
  <2>1. /\ p \in Delivered /\ queue \in Seq(Delivered) /\ queue # <<>> /\ queue' = Tail(queue)
        /\ UNCHANGED <<api, listed, held, stream>>
        /\ \A v \in UID : v # p.uid => pods'[v] = pods[v]
        /\ p.del => pods'[p.uid] = NoPod
        /\ ~p.del => \/ pods'[p.uid] = p
                     \/ pods'[p.uid] = pods[p.uid] /\ p.uid \in Cached
    BY <1>1, ApplyEffect DEF cluster, control
  <2>2. /\ Silent(queue, u) <=> Silent(queue', u) /\ p.uid # u
        /\ IF Silent(queue', u) THEN AliveIn(queue, u) <=> p.uid = u /\ ~p.del
                                ELSE AliveIn(queue, u) <=> AliveIn(queue', u)
    BY <2>1, TailAlive
  <2>3. p # NoPod
    BY <2>1, DeliveredFacts
  <2> HIDE DEF p
  <2>4. IF p.uid = u THEN u \in Cached' <=> ~p.del ELSE u \in Cached' <=> u \in Cached
    BY <2>1, <2>3 DEF Cached
  <2>5. /\ Exists(u)' <=> Exists(u)
        /\ UNCHANGED <<listed, held, stream>>
    BY <2>1 DEF Exists
  <2> QED BY <2>2, <2>4, <2>5 DEF Ghost, LastHeardAlive
<1>2. CASE WorkerExits
  BY <1>2 DEF WorkerExits, Ghost, LastHeardAlive, Exists, Cached, vars, cluster, chan
<1> QED BY <1>1, <1>2 DEF Worker

\* The store keeps a pod that left only because of a gap in the watches, a deletion without
\* a grace period, or a panic: no order of the goroutines' steps keeps one
\* (podwatcher.go:95-173).
THEOREM GhostsComeFromGaps == WSpec => GhostsOnlyFromGaps
<1> DEFINE Gaps == \A u \in UID : Ghost(u)' /\ ~Ghost(u) =>
                      \/ Vanish(u) /\ ~(Connected /\ api[u].del)
                      \/ Break /\ ~Silent(stream, u)
                      \/ crashed'
<1>1. Base /\ Ordered /\ [WNext]_wvars => [Gaps]_wvars
  <2> SUFFICES ASSUME Base, Ordered, WNext, ~crashed', NEW u \in UID, Ghost(u)', ~Ghost(u)
               PROVE  \/ Vanish(u) /\ ~(Connected /\ api[u].del)
                      \/ Break /\ ~Silent(stream, u)
    OBVIOUS
  <2>1. CASE Ready \/ Timeout \/ Shutdown \/ Stop
    BY <2>1 DEF Ready, Timeout, Shutdown, Stop, CloseQueue, Ghost, LastHeardAlive, Exists, Cached,
                vars, cluster, chan
  <2> QED BY <2>1, ClusterGhosts, SyncerGhosts, WatcherGhosts, WorkerGhosts DEF WNext
<1> QED BY <1>1, WatcherInvariant, PTL DEF WSpec, GhostsOnlyFromGaps
----
(* Stopping *)

\* Who calls Stop: Run after its timeout, and the beater.
StopPhases ==
    /\ \A c \in DOMAIN stopper : stopper[c] # "idle" => cancelled
    /\ stopper["run"] # "idle" => run = "false"
    /\ closed => \E c \in DOMAIN stopper : stopper[c] = "done"
    /\ crashed => closed
    /\ worker = "exited" => closed /\ queue = <<>>

LEMMA StopPhasesInit == WInit => StopPhases
BY DEF WInit, StopPhases

LEMMA StopPhasesInductive ==
    ASSUME Base, StopPhases, [WNext]_wvars
    PROVE  StopPhases'
<1>1. DOMAIN stopper = {"run", "beater"}
  BY DEF Base, WTypeOK
<1>2. CASE UNCHANGED wvars
  BY <1>2 DEF wvars, control, chan, StopPhases
<1>3. CASE Cluster \/ List \/ Synced \/ Connect \/ NextEvent \/ Break
  BY <1>3 DEF Cluster, Change, Vanish, List, Synced, Connect, NextEvent, Break, chan, StopPhases
<1>4. CASE SendListed \/ SendEvent
  <2>1. UNCHANGED <<stopper, run, worker, closed, cancelled>>
    BY <1>4 DEF SendListed, SendEvent
  <2>2. CASE ~closed /\ ~crashed'
    BY <2>1, <2>2 DEF StopPhases
  <2>3. CASE closed /\ queue' = queue
    BY <2>1, <2>3 DEF StopPhases
  <2> QED BY <1>4, <2>2, <2>3 DEF SendListed, SendEvent, Send
<1>5. CASE Worker
  <2>1. CASE Apply
    BY <2>1 DEF Apply, control, StopPhases
  <2>2. CASE WorkerExits
    BY <2>2 DEF WorkerExits, chan, StopPhases
  <2> QED BY <1>5, <2>1, <2>2 DEF Worker
<1>6. CASE Ready
  BY <1>6, <1>1 DEF Ready, chan, StopPhases
<1>7. CASE Timeout \/ Shutdown
  <2>1. \A c \in DOMAIN stopper : stopper[c] = "done" => stopper'[c] = "done" \/ run = "select"
    BY <1>1, <1>7 DEF Timeout, Shutdown
  <2>2. /\ DOMAIN stopper' = DOMAIN stopper /\ cancelled'
        /\ UNCHANGED <<closed, crashed, worker, queue>>
    BY <1>7 DEF Timeout, Shutdown
  <2>3. stopper'["run"] # "idle" => run' = "false"
    BY <1>1, <1>7 DEF Timeout, Shutdown, StopPhases
  <2>4. closed => \E c \in DOMAIN stopper : stopper'[c] = "done"
    BY <1>1, <1>7 DEF Timeout, Shutdown, StopPhases
  <2> QED BY <2>2, <2>3, <2>4 DEF StopPhases
<1>8. ASSUME NEW c \in DOMAIN stopper, CloseQueue(c) PROVE StopPhases'
  BY <1>1, <1>8 DEF CloseQueue, StopPhases
<1> QED BY <1>2, <1>3, <1>4, <1>5, <1>6, <1>7, <1>8 DEF WNext, Syncer, Watcher, Stop

LEMMA StopInvariant == WSpec => [](Base /\ StopPhases)
<1> QED BY BaseInit, BaseInductive, StopPhasesInit, StopPhasesInductive, PTL DEF WSpec

PanicsOnlyStopping == crashed => cancelled

\* The process cannot panic before Stop is called (podwatcher.go:208-211).
THEOREM PanicNeedsStop == WSpec => []PanicsOnlyStopping
<1>1. StopPhases => PanicsOnlyStopping
  BY DEF StopPhases, PanicsOnlyStopping
<1> QED BY <1>1, StopInvariant, PTL

PanicsExplained ==
    [][crashed' /\ ~crashed =>
          \/ closed /\ (SendListed \/ SendEvent)
          \/ run = "false" /\ \A c \in DOMAIN stopper : stopper'[c] = "done"]_wvars

\* Every panic is a use of the closed queue: a goroutine still sends to it, or Stop is
\* called a second time, by the beater and by a Run that gave up.
THEOREM PanicsAreUsesOfTheClosedQueue == WSpec => PanicsExplained
<1> DEFINE Explained == crashed' /\ ~crashed =>
               \/ closed /\ (SendListed \/ SendEvent)
               \/ run = "false" /\ \A c \in DOMAIN stopper : stopper'[c] = "done"
<1>1. Base /\ StopPhases /\ [WNext]_wvars => [Explained]_wvars
  <2> SUFFICES ASSUME Base, StopPhases, WNext, crashed', ~crashed PROVE Explained
    OBVIOUS
  <2>1. DOMAIN stopper = {"run", "beater"}
    BY DEF Base, WTypeOK
  <2>2. CASE SendListed \/ SendEvent
    BY <2>2 DEF SendListed, SendEvent, Send
  <2>3. ASSUME NEW c \in DOMAIN stopper, CloseQueue(c) PROVE Explained
    <3>1. /\ stopper[c] = "cancelled" /\ stopper' = [stopper EXCEPT ![c] = "done"] /\ closed
      BY <2>3 DEF CloseQueue
    <3>2. PICK d \in DOMAIN stopper : stopper[d] = "done"
      BY <3>1 DEF StopPhases
    <3>3. d # c
      BY <3>1, <3>2
    <3>4. \A e \in DOMAIN stopper : e = c \/ e = d
      BY <2>1, <3>2, <3>3
    <3>5. \A e \in DOMAIN stopper : stopper'[e] = "done"
      BY <2>1, <3>1, <3>2, <3>4
    <3>6. run = "false"
      BY <2>1, <3>1, <3>2, <3>4 DEF StopPhases
    <3> QED BY <3>5, <3>6
  <2>4. CASE Cluster \/ List \/ Synced \/ Connect \/ NextEvent \/ Break \/ Worker \/ Ready
             \/ Timeout \/ Shutdown
    BY <2>4 DEF Cluster, Change, Vanish, List, Synced, Connect, NextEvent, Break, Worker, Apply,
                WorkerExits, Ready, Timeout, Shutdown, chan
  <2> QED BY <2>2, <2>3, <2>4 DEF WNext, Syncer, Watcher, Stop
<1> QED BY <1>1, StopInvariant, PTL DEF WSpec, PanicsExplained

WorkerDrains == worker = "exited" => closed /\ queue = <<>>

\* A worker that has exited has left nothing in the queue, and nothing is put there any more
\* (podwatcher.go:155-173, 208-211).
THEOREM WorkerLeavesNothing == WSpec => []WorkerDrains
<1>1. StopPhases => WorkerDrains
  BY DEF StopPhases, WorkerDrains
<1> QED BY <1>1, StopInvariant, PTL
====
