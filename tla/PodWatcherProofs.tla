---- MODULE PodWatcherProofs ----
(***************************************************************************)
(* Proofs about PodWatcher, for any number of pods, any capacity of the    *)
(* queue, and any changes, broken watches and stops.                       *)
(*                                                                         *)
(* Two producers feed one queue, but never at the same time: the watcher   *)
(* is off until the sync is over.  So along the way a pod's objects take   *)
(* to the worker (store, queue, list, held event, stream, API server) its  *)
(* resource versions never decrease, which is what the store, that only    *)
(* compares them for equality, relies on.                                  *)
(***************************************************************************)
EXTENDS PodWatcher, PodStoreProofs, FiniteSetTheorems

\* Objects of one pod never get older along a sequence, and from one set to another.
Sorted(s) == \A i, j \in DOMAIN s : (i < j /\ s[i].uid = s[j].uid) => s[i].rv <= s[j].rv
NoNewer(S, T) == \A p \in S, q \in T : p.uid = q.uid => p.rv <= q.rv
----
(* Sequences of pods *)

LEMMA AppendFacts ==
    ASSUME NEW S, NEW s \in Seq(S), NEW p \in S
    PROVE  /\ Append(s, p) \in Seq(S) /\ Len(Append(s, p)) = Len(s) + 1
           /\ DOMAIN Append(s, p) = DOMAIN s \cup {Len(s) + 1}
           /\ \A i \in DOMAIN s : Append(s, p)[i] = s[i] /\ i < Len(s) + 1
           /\ Append(s, p)[Len(s) + 1] = p
           /\ ToSet(Append(s, p)) = ToSet(s) \cup {p}
<1>1. /\ Append(s, p) \in Seq(S) /\ Len(Append(s, p)) = Len(s) + 1
      /\ DOMAIN s = 1..Len(s) /\ DOMAIN Append(s, p) = 1..(Len(s) + 1) /\ Len(s) \in Nat
      /\ \A i \in 1..Len(s) : Append(s, p)[i] = s[i]
      /\ Append(s, p)[Len(s) + 1] = p
  OBVIOUS
<1>2. DOMAIN Append(s, p) = DOMAIN s \cup {Len(s) + 1}
  BY <1>1
<1>3. \A i \in DOMAIN s : Append(s, p)[i] = s[i] /\ i < Len(s) + 1
  BY <1>1
<1>4. ToSet(Append(s, p)) \subseteq ToSet(s) \cup {p}
  BY <1>1, <1>2, <1>3 DEF ToSet
<1>5. ToSet(s) \cup {p} \subseteq ToSet(Append(s, p))
  BY <1>1, <1>2, <1>3 DEF ToSet
<1> QED BY <1>1, <1>2, <1>3, <1>4, <1>5

LEMMA AppendSorted ==
    ASSUME NEW S, NEW s \in Seq(S), NEW p \in S, Sorted(s), NoNewer(ToSet(s), {p})
    PROVE  Sorted(Append(s, p))
<1> SUFFICES ASSUME NEW i \in DOMAIN Append(s, p), NEW j \in DOMAIN Append(s, p),
                    i < j, Append(s, p)[i].uid = Append(s, p)[j].uid
             PROVE  Append(s, p)[i].rv <= Append(s, p)[j].rv
  BY DEF Sorted
<1>1. i \in DOMAIN s
  <2>1. Len(s) \in Nat /\ DOMAIN s = 1..Len(s)
    OBVIOUS
  <2> QED BY <2>1, AppendFacts
<1>2. CASE j \in DOMAIN s
  BY <1>1, <1>2, AppendFacts DEF Sorted
<1>3. CASE j = Len(s) + 1
  <2>1. Append(s, p)[i] \in ToSet(s) /\ Append(s, p)[j] = p
    BY <1>1, <1>3, AppendFacts DEF ToSet
  <2> QED BY <2>1 DEF NoNewer
<1> QED BY <1>2, <1>3, AppendFacts

LEMMA TailFacts ==
    ASSUME NEW S, NEW s \in Seq(S), s # <<>>
    PROVE  /\ Head(s) \in S /\ Head(s) = s[1] /\ Tail(s) \in Seq(S)
           /\ Len(s) \in Nat \ {0} /\ Len(Tail(s)) = Len(s) - 1
           /\ DOMAIN s = 1..Len(s) /\ DOMAIN Tail(s) = 1..(Len(s) - 1)
           /\ \A i \in DOMAIN Tail(s) : Tail(s)[i] = s[i + 1] /\ i + 1 \in DOMAIN s
           /\ \A i \in DOMAIN s : i # 1 => i - 1 \in DOMAIN Tail(s) /\ Tail(s)[i - 1] = s[i]
           /\ ToSet(s) = {Head(s)} \cup ToSet(Tail(s))
<1>1. /\ Head(s) \in S /\ Head(s) = s[1] /\ Tail(s) \in Seq(S)
      /\ Len(s) \in Nat \ {0} /\ Len(Tail(s)) = Len(s) - 1 /\ DOMAIN s = 1..Len(s)
      /\ \A i \in 1..(Len(s) - 1) : Tail(s)[i] = s[i + 1]
  OBVIOUS
<1>2. DOMAIN Tail(s) = 1..(Len(s) - 1)
  BY <1>1
<1>3. \A i \in DOMAIN Tail(s) : Tail(s)[i] = s[i + 1] /\ i + 1 \in DOMAIN s
  BY <1>1, <1>2
<1>4. \A i \in DOMAIN s : i # 1 => i - 1 \in DOMAIN Tail(s) /\ Tail(s)[i - 1] = s[i]
  BY <1>1, <1>2
<1>5. ToSet(s) \subseteq {Head(s)} \cup ToSet(Tail(s))
  <2> SUFFICES ASSUME NEW i \in DOMAIN s PROVE s[i] \in {Head(s)} \cup ToSet(Tail(s))
    BY DEF ToSet
  <2>1. CASE i = 1
    BY <1>1, <2>1
  <2>2. CASE i # 1
    BY <1>4, <2>2, Zenon DEF ToSet
  <2> QED BY <2>1, <2>2
<1>6. {Head(s)} \cup ToSet(Tail(s)) \subseteq ToSet(s)
  <2>1. Head(s) \in ToSet(s)
    BY <1>1 DEF ToSet
  <2>2. ToSet(Tail(s)) \subseteq ToSet(s)
    BY <1>3 DEF ToSet
  <2> QED BY <2>1, <2>2
<1> QED BY <1>1, <1>2, <1>3, <1>4, <1>5, <1>6

LEMMA TailSorted ==
    ASSUME NEW S, NEW s \in Seq(S), s # <<>>, Sorted(s)
    PROVE  Sorted(Tail(s)) /\ NoNewer({Head(s)}, ToSet(Tail(s)))
<1>1. Sorted(Tail(s))
  <2> SUFFICES ASSUME NEW i \in DOMAIN Tail(s), NEW j \in DOMAIN Tail(s),
                      i < j, Tail(s)[i].uid = Tail(s)[j].uid
               PROVE  Tail(s)[i].rv <= Tail(s)[j].rv
    BY DEF Sorted
  <2>1. /\ Tail(s)[i] = s[i + 1] /\ i + 1 \in DOMAIN s
        /\ Tail(s)[j] = s[j + 1] /\ j + 1 \in DOMAIN s
        /\ DOMAIN Tail(s) = 1..(Len(s) - 1) /\ Len(s) \in Nat
    BY TailFacts
  <2>2. i + 1 < j + 1
    BY <2>1
  <2> QED BY <2>1, <2>2 DEF Sorted
<1>2. NoNewer({Head(s)}, ToSet(Tail(s)))
  <2> SUFFICES ASSUME NEW q \in ToSet(Tail(s)), Head(s).uid = q.uid PROVE Head(s).rv <= q.rv
    BY DEF NoNewer
  <2>1. PICK i \in DOMAIN Tail(s) : q = Tail(s)[i]
    BY DEF ToSet
  <2>2. q = s[i + 1] /\ i + 1 \in DOMAIN s /\ 1 \in DOMAIN s /\ 1 < i + 1
    BY <2>1, TailFacts
  <2> QED BY <2>2, TailFacts DEF Sorted
<1> QED BY <1>1, <1>2

\* A snapshot gives each existing pod's object once.
LEMMA SnapshotFacts ==
    ASSUME api \in [UID -> Delivered \cup {NoPod}], \A u \in UID : Exists(u) => api[u].uid = u,
           NEW s \in Snapshots
    PROVE  /\ s \in Seq(Delivered)
           /\ ToSet(s) = {api[u] : u \in {v \in UID : Exists(v)}}
           /\ \A i, j \in DOMAIN s : s[i].uid = s[j].uid => i = j
<1> DEFINE E == {v \in UID : Exists(v)}
           S == {api[u] : u \in E}
           n == Cardinality(S)
           f == [u \in E |-> api[u]]
<1>1. IsFiniteSet(S)
  <2>1. IsFiniteSet(E)
    BY FS_Subset, WatcherAssumption
  <2>2. f \in Surjection(E, S)
    BY DEF Surjection
  <2> QED BY <2>1, <2>2, FS_Surjection
<1>2. n \in Nat /\ Cardinality(1..n) = n /\ IsFiniteSet(1..n)
  <2>1. n \in Nat
    BY <1>1, FS_CardinalityType
  <2>2. IsFiniteSet(1..n) /\ Cardinality(1..n) = IF 1 > n THEN 0 ELSE n - 1 + 1
    BY <2>1, FS_Interval
  <2> QED BY <2>1, <2>2
<1>3. s \in [1..n -> S] /\ \A i, j \in 1..n : i # j => s[i] # s[j]
  BY DEF Snapshots, SetToSeqs
<1> HIDE DEF n
<1>4. s \in Injection(1..n, S)
  BY <1>3 DEF Injection, IsInjective
<1>5. s \in Surjection(1..n, S)
  BY <1>1, <1>2, <1>4, FS_Injection DEF n
<1>6. S \subseteq Delivered
  BY DEF Exists
<1>7. s \in Seq(Delivered) /\ DOMAIN s = 1..n
  BY <1>2, <1>3, <1>6
<1>8. ToSet(s) = S
  BY <1>5, <1>7 DEF ToSet, Surjection
<1>9. ASSUME NEW i \in DOMAIN s, NEW j \in DOMAIN s, s[i].uid = s[j].uid PROVE i = j
  <2>1. PICK u \in E : s[i] = api[u]
    BY <1>3, <1>7
  <2>2. PICK v \in E : s[j] = api[v]
    BY <1>3, <1>7
  <2>3. s[i] = s[j]
    BY <1>9, <2>1, <2>2
  <2> QED BY <1>3, <1>7, <2>3
<1> QED BY <1>7, <1>8, <1>9
----
(* Types and phases *)

\* The watcher starts when the sync is over; its stream exists while it is connected.
Phases ==
    /\ watcher # "off" => run = "true" /\ syncer = "synced"
    /\ syncer # "send" => listed = <<>>
    /\ ~Connected => stream = <<>>

\* What the API server and the store know of a pod is an object of that pod.
OwnObjects ==
    /\ \A u \in UID : Exists(u) => api[u].uid = u /\ api[u].rv <= revision
    /\ \A u \in Cached : pods[u] \in Delivered

Base == WTypeOK /\ TypeOK /\ Phases /\ OwnObjects

LEMMA DeliveredFacts ==
    ASSUME NEW p \in Delivered
    PROVE  p \in Pod /\ p.uid \in UID /\ p.rv \in Nat /\ p # NoPod
BY StoreAssumption, WatcherAssumption DEF Pod

\* What the worker does with one object, as far as the pods are concerned.
LEMMA WorkEffect ==
    ASSUME TypeOK, \A u \in Cached : pods[u] \in Delivered, NEW p \in Delivered, Work(p)
    PROVE  /\ TypeOK' /\ \A u \in Cached' : pods'[u] \in Delivered
           /\ \A u \in UID : u # p.uid => pods'[u] = pods[u]
           /\ p.del => pods'[p.uid] = NoPod
           /\ ~p.del => \/ pods'[p.uid] = p
                        \/ pods'[p.uid] = pods[p.uid] /\ p.uid \in Cached /\ p.rv = pods[p.uid].rv
<1>1. p.uid \in UID /\ pods \in [UID -> Pod \cup {NoPod}] /\ p # NoPod
  BY DeliveredFacts DEF TypeOK
<1>2. TypeOK'
  BY WorkType
<1>3. CASE p.del /\ OnPodDelete(p)
  BY <1>1, <1>2, <1>3 DEF OnPodDelete, Cached
<1>4. CASE ~p.del /\ p.uid \in Cached /\ OnPodUpdate(p)
  BY <1>1, <1>2, <1>4 DEF OnPodUpdate, Cached
<1>5. CASE ~p.del /\ p.uid \in Cached /\ Unchanged(p)
  BY <1>1, <1>2, <1>5 DEF Unchanged, vars, Cached
<1>6. CASE ~p.del /\ OnPodAdd(p)
  BY <1>1, <1>2, <1>6 DEF OnPodAdd, Cached
<1> QED BY <1>3, <1>4, <1>5, <1>6 DEF Work

LEMMA BaseInit == WInit => Base
<1> SUFFICES ASSUME WInit PROVE Base
  OBVIOUS
<1>1. TypeOK /\ Cached = {}
  BY TypeInit DEF WInit, Init, Cached
<1>2. <<>> \in Seq(Delivered) /\ Len(<<>>) = 0
  OBVIOUS
<1>3. NoPod \notin Delivered
  BY StoreAssumption
<1>4. api \in [UID -> Delivered \cup {NoPod}] /\ \A u \in UID : ~Exists(u)
  BY DEF WInit, Exists
<1>5. revision \in 0..MaxRevision /\ breaks \in 0..MaxBreaks
  BY WatcherAssumption DEF WInit
<1>6. stopper \in [{"run", "beater"} -> {"idle", "cancelled", "done"}]
  BY DEF WInit
<1>7. queue \in Seq(Delivered) /\ Len(queue) <= QueueCap
  BY <1>2, WatcherAssumption DEF WInit
<1>8. WTypeOK
  BY <1>2, <1>3, <1>4, <1>5, <1>6, <1>7 DEF WInit, WTypeOK
<1>9. Phases /\ OwnObjects
  BY <1>1, <1>4 DEF WInit, Phases, OwnObjects, Connected
<1> QED BY <1>1, <1>8, <1>9 DEF Base

\* Sending keeps the queue typed and within its capacity.
LEMMA SendType ==
    ASSUME Base, NEW p \in Delivered, Send(p)
    PROVE  queue' \in Seq(Delivered) /\ Len(queue') <= QueueCap /\ crashed' \in BOOLEAN
<1>1. CASE ~closed /\ Len(queue) < QueueCap /\ queue' = Append(queue, p) /\ UNCHANGED crashed
  <2>1. queue \in Seq(Delivered) /\ QueueCap \in Nat /\ Len(queue) \in Nat
    BY WatcherAssumption DEF Base, WTypeOK
  <2> QED BY <1>1, <2>1, AppendFacts DEF Base, WTypeOK
<1>2. CASE crashed' = TRUE /\ UNCHANGED queue
  BY <1>2 DEF Base, WTypeOK
<1> QED BY <1>1, <1>2 DEF Send

LEMMA ChangeBase == ASSUME Base, NEW p \in Delivered, Change(p) PROVE Base'
<1>1. /\ p.rv = revision + 1 /\ p.rv <= MaxRevision /\ p.uid \notin gone
      /\ api' = [api EXCEPT ![p.uid] = p] /\ revision' = p.rv /\ Emit(p)
      /\ UNCHANGED <<vars, gone, breaks, run, syncer, listed, watcher, held, worker, stopper, chan>>
  BY DEF Change
<1>2. p.uid \in UID /\ p.rv \in Nat /\ p # NoPod
  BY DeliveredFacts
<1>3. \A u \in UID : api'[u] = IF u = p.uid THEN p ELSE api[u]
  BY <1>1 DEF Base, WTypeOK
<1>4. api' \in [UID -> Delivered \cup {NoPod}]
  BY <1>1 DEF Base, WTypeOK
<1>5. revision' \in 0..MaxRevision
  BY <1>1, <1>2, WatcherAssumption
<1>6. gone' \subseteq {u \in UID : ~Exists(u)'}
  BY <1>1, <1>3 DEF Base, WTypeOK, Exists
<1>7. stream' \in Seq(Delivered)
  BY <1>1, AppendFacts DEF Base, WTypeOK, Emit
<1>8. WTypeOK'
  BY <1>1, <1>4, <1>5, <1>6, <1>7 DEF Base, WTypeOK, chan
<1>9. TypeOK' /\ Cached' = Cached /\ pods' = pods
  BY <1>1 DEF Base, TypeOK, Cached, vars
<1>10. Phases'
  BY <1>1 DEF Base, Phases, Connected, Emit
<1>11. OwnObjects'
  <2>1. revision' >= revision
    BY <1>1, <1>2, WatcherAssumption DEF Base, WTypeOK
  <2>2. \A u \in UID : Exists(u) => api[u].rv \in Nat /\ revision \in Nat /\ revision' \in Nat
    BY <1>5, DeliveredFacts, WatcherAssumption DEF Base, WTypeOK, Exists
  <2>3. \A u \in UID : Exists(u)' => api'[u].uid = u /\ api'[u].rv <= revision'
    BY <1>1, <1>2, <1>3, <2>1, <2>2 DEF Base, OwnObjects, Exists
  <2> QED BY <1>9, <2>3 DEF Base, OwnObjects
<1> QED BY <1>8, <1>9, <1>10, <1>11 DEF Base

LEMMA VanishBase == ASSUME Base, NEW v \in UID, Vanish(v) PROVE Base'
<1>1. /\ Exists(v) /\ api' = [api EXCEPT ![v] = NoPod] /\ gone' = gone \cup {v} /\ Emit(api[v])
      /\ UNCHANGED <<vars, revision, breaks, run, syncer, listed, watcher, held, worker,
                     stopper, chan>>
  BY DEF Vanish
<1>2. \A u \in UID : api'[u] = IF u = v THEN NoPod ELSE api[u]
  BY <1>1 DEF Base, WTypeOK
<1>3. api' \in [UID -> Delivered \cup {NoPod}] /\ api[v] \in Delivered
  BY <1>1 DEF Base, WTypeOK, Exists
<1>4. gone' \subseteq {u \in UID : ~Exists(u)'}
  BY <1>1, <1>2 DEF Base, WTypeOK, Exists
<1>5. stream' \in Seq(Delivered)
  BY <1>1, <1>3, AppendFacts DEF Base, WTypeOK, Emit
<1>6. WTypeOK'
  BY <1>1, <1>3, <1>4, <1>5 DEF Base, WTypeOK, chan
<1>7. TypeOK' /\ Cached' = Cached /\ pods' = pods
  BY <1>1 DEF Base, TypeOK, Cached, vars
<1>8. Phases'
  BY <1>1 DEF Base, Phases, Connected, Emit
<1>9. OwnObjects'
  BY <1>1, <1>2, <1>7 DEF Base, OwnObjects, Exists
<1> QED BY <1>6, <1>7, <1>8, <1>9 DEF Base

\* Neither the store nor the cluster changes in the steps of the other goroutines.
LEMMA Elsewhere ==
    ASSUME Base, UNCHANGED <<vars, cluster>>
    PROVE  /\ TypeOK' /\ OwnObjects' /\ Cached' = Cached /\ pods' = pods
           /\ api' = api /\ revision' = revision /\ gone' = gone
           /\ \A u \in UID : Exists(u)' = Exists(u)
BY DEF Base, TypeOK, OwnObjects, Cached, Exists, vars, cluster

LEMMA SyncerBase == Base /\ Syncer => Base'
<1> SUFFICES ASSUME Base, Syncer PROVE Base'
  OBVIOUS
<1>1. CASE List
  <2>1. listed' \in Seq(Delivered)
    BY <1>1, SnapshotFacts DEF List, Base, WTypeOK, OwnObjects
  <2>2. WTypeOK' /\ Phases'
    BY <1>1, <2>1, Elsewhere DEF List, Base, WTypeOK, Phases, Connected, Exists, chan
  <2> QED BY <1>1, <2>2, Elsewhere DEF List, Base
<1>2. CASE SendListed
  <2>1. Head(listed) \in Delivered /\ Tail(listed) \in Seq(Delivered)
    BY <1>2, TailFacts DEF SendListed, Base, WTypeOK
  <2>2. queue' \in Seq(Delivered) /\ Len(queue') <= QueueCap /\ crashed' \in BOOLEAN
    BY <1>2, <2>1, SendType DEF SendListed
  <2>3. WTypeOK' /\ Phases'
    BY <1>2, <2>1, <2>2, Elsewhere DEF SendListed, Base, WTypeOK, Phases, Connected, Exists
  <2> QED BY <1>2, <2>3, Elsewhere DEF SendListed, Base
<1>3. CASE Synced
  <2>1. WTypeOK' /\ Phases'
    BY <1>3, Elsewhere DEF Synced, Base, WTypeOK, Phases, Connected, Exists, chan
  <2> QED BY <1>3, <2>1, Elsewhere DEF Synced, Base
<1> QED BY <1>1, <1>2, <1>3 DEF Syncer

LEMMA WatcherBase == Base /\ (Watcher \/ Break) => Base'
<1> SUFFICES ASSUME Base, Watcher \/ Break PROVE Base'
  OBVIOUS
<1>1. CASE Connect
  <2>1. stream' \in Seq(Delivered)
    BY <1>1, SnapshotFacts DEF Connect, Base, WTypeOK, OwnObjects
  <2>2. WTypeOK' /\ Phases'
    BY <1>1, <2>1, Elsewhere DEF Connect, Base, WTypeOK, Phases, Connected, Exists, chan
  <2> QED BY <1>1, <2>2, Elsewhere DEF Connect, Base
<1>2. CASE NextEvent
  <2>1. held' \in Delivered /\ stream' \in Seq(Delivered) /\ held' # NoPod
    BY <1>2, TailFacts, DeliveredFacts DEF NextEvent, Base, WTypeOK
  <2>2. WTypeOK' /\ Phases'
    BY <1>2, <2>1, Elsewhere DEF NextEvent, Base, WTypeOK, Phases, Connected, Exists, chan
  <2> QED BY <1>2, <2>2, Elsewhere DEF NextEvent, Base
<1>3. CASE SendEvent
  <2>1. held \in Delivered
    BY <1>3 DEF SendEvent, Base, WTypeOK
  <2>2. queue' \in Seq(Delivered) /\ Len(queue') <= QueueCap /\ crashed' \in BOOLEAN
    BY <1>3, <2>1, SendType DEF SendEvent
  <2>3. WTypeOK' /\ Phases'
    BY <1>3, <2>2, Elsewhere DEF SendEvent, Base, WTypeOK, Phases, Connected, Exists
  <2> QED BY <1>3, <2>3, Elsewhere DEF SendEvent, Base
<1>4. CASE Break
  <2>1. breaks' \in 0..MaxBreaks
    BY <1>4, WatcherAssumption DEF Break, Base, WTypeOK
  <2>2. <<>> \in Seq(Delivered)
    OBVIOUS
  <2>3. WTypeOK' /\ Phases'
    BY <1>4, <2>1, <2>2, Elsewhere DEF Break, Base, WTypeOK, Phases, Connected, Exists, chan
  <2> QED BY <1>4, <2>3, Elsewhere DEF Break, Base
<1> QED BY <1>1, <1>2, <1>3, <1>4 DEF Watcher

LEMMA WorkerBase == Base /\ Worker => Base'
<1> SUFFICES ASSUME Base, Worker PROVE Base'
  OBVIOUS
<1>1. CASE Apply
  <2>1. Head(queue) \in Delivered /\ Tail(queue) \in Seq(Delivered)
        /\ Len(Tail(queue)) <= QueueCap
    <3>1. queue \in Seq(Delivered) /\ queue # <<>> /\ Len(queue) <= QueueCap /\ QueueCap \in Nat
      BY <1>1, WatcherAssumption DEF Apply, Base, WTypeOK
    <3> QED BY <3>1, TailFacts
  <2>2. TypeOK' /\ \A u \in Cached' : pods'[u] \in Delivered
    BY <1>1, <2>1, WorkEffect DEF Apply, Base, OwnObjects
  <2>3. WTypeOK' /\ Phases'
    BY <1>1, <2>1 DEF Apply, Base, WTypeOK, Phases, Connected, Exists, cluster, control
  <2>4. OwnObjects'
    BY <1>1, <2>2 DEF Apply, Base, OwnObjects, Exists, cluster
  <2> QED BY <2>2, <2>3, <2>4 DEF Base
<1>2. CASE WorkerExits
  <2>1. WTypeOK' /\ Phases'
    BY <1>2, Elsewhere DEF WorkerExits, Base, WTypeOK, Phases, Connected, Exists, chan
  <2> QED BY <1>2, <2>1, Elsewhere DEF WorkerExits, Base
<1> QED BY <1>1, <1>2 DEF Worker

LEMMA ControlBase == Base /\ (Ready \/ Timeout \/ Shutdown \/ Stop) => Base'
<1> SUFFICES ASSUME Base, Ready \/ Timeout \/ Shutdown \/ Stop PROVE Base'
  OBVIOUS
<1>1. CASE Ready
  <2>1. watcher = "off" /\ held = NoPod /\ stream = <<>>
    BY <1>1 DEF Ready, Base, WTypeOK, Phases, Connected
  <2>2. WTypeOK' /\ Phases'
    BY <1>1, <2>1, Elsewhere DEF Ready, Base, WTypeOK, Phases, Connected, Exists, chan
  <2> QED BY <1>1, <2>2, Elsewhere DEF Ready, Base
<1>2. CASE Timeout
  <2>1. stopper' \in [{"run", "beater"} -> {"idle", "cancelled", "done"}]
    BY <1>2 DEF Timeout, Base, WTypeOK
  <2>2. WTypeOK' /\ Phases'
    BY <1>2, <2>1, Elsewhere DEF Timeout, Base, WTypeOK, Phases, Connected, Exists
  <2> QED BY <1>2, <2>2, Elsewhere DEF Timeout, Base
<1>3. CASE Shutdown
  <2>1. stopper' \in [{"run", "beater"} -> {"idle", "cancelled", "done"}]
    BY <1>3 DEF Shutdown, Base, WTypeOK
  <2>2. WTypeOK' /\ Phases'
    BY <1>3, <2>1, Elsewhere DEF Shutdown, Base, WTypeOK, Phases, Connected, Exists
  <2> QED BY <1>3, <2>2, Elsewhere DEF Shutdown, Base
<1>4. ASSUME NEW c \in DOMAIN stopper, CloseQueue(c) PROVE Base'
  <2>1. stopper' \in [{"run", "beater"} -> {"idle", "cancelled", "done"}]
    BY <1>4 DEF CloseQueue, Base, WTypeOK
  <2>2. WTypeOK' /\ Phases'
    BY <1>4, <2>1, Elsewhere DEF CloseQueue, Base, WTypeOK, Phases, Connected, Exists
  <2> QED BY <1>4, <2>2, Elsewhere DEF CloseQueue, Base
<1> QED BY <1>1, <1>2, <1>3, <1>4 DEF Stop

LEMMA BaseInductive == Base /\ [WNext]_wvars => Base'
<1> SUFFICES ASSUME Base, [WNext]_wvars PROVE Base'
  OBVIOUS
<1>1. CASE UNCHANGED wvars
  <2>1. UNCHANGED <<vars, cluster>> /\ WTypeOK' /\ Phases'
    BY <1>1 DEF wvars, cluster, control, chan, Base, WTypeOK, Phases, Connected, Exists
  <2> QED BY <2>1, Elsewhere DEF Base
<1> QED BY <1>1, ChangeBase, VanishBase, SyncerBase, WatcherBase, WorkerBase, ControlBase
        DEF WNext, Cluster

\* Every goroutine's state is well typed, whatever is interleaved with what.
THEOREM WTypeCorrect == WSpec => []WTypeOK
<1>1. Base => WTypeOK
  BY DEF Base
<1> QED BY <1>1, BaseInit, BaseInductive, PTL DEF WSpec

\* Pods of different UIDs never carry one address, in whatever state they are sent.
AddressesOfOnePod ==
    \A p, q \in Delivered : p.uid # q.uid => Addresses(p) \cap Addresses(q) = {}

\* The goroutines change the store only by what PodStore does with one object, so every
\* theorem about PodStore holds of the store behind the queue.
THEOREM WatcherIsPodStore ==
    ASSUME SharedAddresses \/ AddressesOfOnePod PROVE WSpec => IsPodStore
<1>1. WInit => Init
  BY DEF WInit
<1>2. Base /\ [WNext]_wvars => [Next]_vars
  <2> SUFFICES ASSUME Base, WNext PROVE Next \/ UNCHANGED vars
    BY DEF wvars
  <2>1. CASE Apply
    <3> DEFINE p == Head(queue)
    <3>1. p \in Delivered /\ Work(p)
      BY <2>1, TailFacts DEF Apply, Base, WTypeOK
    <3>2. ASSUME ~SharedAddresses PROVE Isolated(p)
      BY <3>1, <3>2 DEF Isolated, AddressesOfOnePod, Base, OwnObjects, TypeOK
    <3> QED BY <3>1, <3>2 DEF Next, Receive
  <2>2. CASE WNext /\ ~Apply
    BY <2>2 DEF WNext, Cluster, Change, Vanish, Syncer, List, SendListed, Synced, Watcher, Connect,
                NextEvent, SendEvent, Break, Worker, WorkerExits, Ready, Timeout, Shutdown,
                Stop, CloseQueue
  <2> QED BY <2>1, <2>2
<1> QED BY <1>1, <1>2, BaseInit, BaseInductive, PTL DEF WSpec, IsPodStore, Spec
----
(* Resource versions along the way to the store *)

Stored == {pods[u] : u \in Cached}
InQueue == ToSet(queue)
Coming == ToSet(listed) \cup ({held} \ {NoPod}) \cup ToSet(stream)

\* Everything about a pod that exists in a is older than its state there, or is that; the
\* rest is no newer than r.
Behind(S, a, r) ==
    \A p \in S : IF a[p.uid] # NoPod THEN p.rv < a[p.uid].rv \/ p = a[p.uid] ELSE p.rv <= r

Ordered ==
    /\ Sorted(queue) /\ Sorted(listed) /\ Sorted(stream)
    /\ NoNewer({held} \ {NoPod}, ToSet(stream))
    /\ NoNewer(InQueue, Coming)
    /\ NoNewer(Stored, InQueue \cup Coming)
    /\ Behind(Stored \cup InQueue \cup Coming, api, revision)

LEMMA OrderedInit == WInit => Ordered
<1> SUFFICES ASSUME WInit PROVE Ordered
  OBVIOUS
<1>1. queue = <<>> /\ listed = <<>> /\ stream = <<>> /\ held = NoPod /\ Stored = {}
  BY DEF WInit, Init, Stored, Cached
<1>2. ToSet(<<>>) = {} /\ Sorted(<<>>)
  BY DEF ToSet, Sorted
<1>3. InQueue = {} /\ Coming = {}
  BY <1>1, <1>2 DEF InQueue, Coming
<1> QED BY <1>1, <1>2, <1>3 DEF Ordered, NoNewer, Behind

LEMMA PodsOnTheWay ==
    ASSUME Base
    PROVE  /\ Stored \subseteq Delivered /\ InQueue \subseteq Delivered /\ Coming \subseteq Delivered
           /\ \A p \in Stored : p.uid \in Cached /\ pods[p.uid] = p
<1>1. Stored \subseteq Delivered
  BY DEF Stored, Base, OwnObjects
<1>2. InQueue \subseteq Delivered /\ Coming \subseteq Delivered
  BY DEF InQueue, Coming, ToSet, Base, WTypeOK
<1>3. \A p \in Stored : p.uid \in Cached /\ pods[p.uid] = p
  BY DEF Stored, Base, TypeOK
<1> QED BY <1>1, <1>2, <1>3

\* Comparisons only depend on which objects there are.
LEMMA Fewer ==
    ASSUME NEW S, NEW T, NEW S2 \in SUBSET S, NEW T2 \in SUBSET T, NEW a, NEW r
    PROVE  /\ NoNewer(S, T) => NoNewer(S2, T2)
           /\ Behind(S, a, r) => Behind(S2, a, r)
BY DEF NoNewer, Behind

\* Nothing on the way is newer than what the API server emits.
LEMMA EmitKeepsOrder ==
    ASSUME Base, Ordered, NEW p \in Delivered,
           Emit(p), UNCHANGED <<pods, queue, listed, held, watcher>>,
           NoNewer(Stored \cup InQueue \cup Coming, {p}),
           Behind(Stored \cup InQueue \cup Coming \cup {p}, api', revision')
    PROVE  Ordered'
<1>1. Stored' = Stored /\ InQueue' = InQueue
  BY DEF Stored, InQueue, Cached
<1>2. CASE ~Connected
  <2>1. stream' = stream /\ Coming' = Coming
    BY <1>2 DEF Emit, Coming
  <2>2. Behind(Stored \cup InQueue \cup Coming, api', revision')
    BY Fewer
  <2> QED BY <1>1, <2>1, <2>2 DEF Ordered
<1>3. CASE Connected
  <2>1. stream' = Append(stream, p) /\ stream \in Seq(Delivered)
    BY <1>3 DEF Emit, Base, WTypeOK
  <2>2. ToSet(stream') = ToSet(stream) \cup {p}
    BY <2>1, AppendFacts
  <2>3. Coming' = Coming \cup {p}
    BY <2>2 DEF Coming
  <2>4. /\ NoNewer(Stored, {p}) /\ NoNewer(InQueue, {p})
        /\ NoNewer(ToSet(stream), {p}) /\ NoNewer({held} \ {NoPod}, {p})
    BY DEF NoNewer, Coming
  <2>5. Sorted(stream')
    BY <2>1, <2>4, AppendSorted DEF Ordered
  <2>6. NoNewer({held} \ {NoPod}, ToSet(stream')) /\ NoNewer(InQueue, Coming')
    BY <2>2, <2>3, <2>4 DEF Ordered, NoNewer
  <2>7. NoNewer(Stored, InQueue \cup Coming')
    BY <2>3, <2>4 DEF Ordered, NoNewer
  <2>8. Stored \cup InQueue \cup Coming \cup {p} = Stored' \cup InQueue' \cup Coming'
    BY <1>1, <2>3
  <2> QED BY <1>1, <2>5, <2>6, <2>7, <2>8 DEF Ordered
<1> QED BY <1>2, <1>3

LEMMA ClusterOrder == Base /\ Ordered /\ Cluster => Ordered'
<1> SUFFICES ASSUME Base, Ordered, Cluster PROVE Ordered'
  OBVIOUS
<1> DEFINE All == Stored \cup InQueue \cup Coming
<1>1. All \subseteq Delivered /\ \A q \in All : q.uid \in UID /\ q.rv \in Nat
  BY PodsOnTheWay, DeliveredFacts
<1>2. /\ \A u \in UID : Exists(u) => /\ api[u].uid = u /\ api[u].rv \in Nat
                                     /\ api[u].rv <= revision
      /\ revision \in Nat
  BY DeliveredFacts, WatcherAssumption DEF Base, OwnObjects, WTypeOK, Exists
<1>3. Behind(All, api, revision)
  BY DEF Ordered
<1>4. \A q \in All : q.rv <= revision
  BY <1>1, <1>2, <1>3 DEF Behind, Exists
<1>5. ASSUME NEW p \in Delivered, Change(p) PROVE Ordered'
  <2>1. /\ p.rv = revision + 1 /\ api' = [api EXCEPT ![p.uid] = p] /\ revision' = p.rv
        /\ Emit(p) /\ UNCHANGED <<pods, queue, listed, held, watcher>>
    BY <1>5 DEF Change, vars, chan
  <2>2. p.uid \in UID /\ p # NoPod /\ \A u \in UID : api'[u] = IF u = p.uid THEN p ELSE api[u]
    BY <2>1, DeliveredFacts DEF Base, WTypeOK
  <2>3. NoNewer(All, {p})
    BY <1>1, <1>2, <1>4, <2>1 DEF NoNewer
  <2>4. Behind(All \cup {p}, api', revision')
    BY <1>1, <1>2, <1>3, <1>4, <2>1, <2>2 DEF Behind
  <2> HIDE DEF All
  <2> QED BY <2>1, <2>3, <2>4, EmitKeepsOrder DEF All
<1>6. ASSUME NEW v \in UID, Vanish(v) PROVE Ordered'
  <2> DEFINE p == api[v]
  <2>1. /\ p # NoPod /\ p \in Delivered /\ api' = [api EXCEPT ![v] = NoPod]
        /\ revision' = revision /\ Emit(p) /\ UNCHANGED <<pods, queue, listed, held, watcher>>
    BY <1>6 DEF Vanish, Exists, vars, chan, Base, WTypeOK
  <2>2. p.uid = v /\ \A u \in UID : api'[u] = IF u = v THEN NoPod ELSE api[u]
    BY <1>2, <2>1 DEF Base, WTypeOK, Exists
  <2>3. NoNewer(All, {p})
    BY <1>1, <1>2, <1>3, <2>1, <2>2 DEF NoNewer, Behind, Exists
  <2>4. Behind(All \cup {p}, api', revision')
    BY <1>1, <1>2, <1>3, <1>4, <2>1, <2>2 DEF Behind, Exists
  <2> HIDE DEF All
  <2> QED BY <2>1, <2>3, <2>4, EmitKeepsOrder DEF All
<1> QED BY <1>5, <1>6 DEF Cluster

\* A snapshot is in order, and no older than anything on the way.
LEMMA SnapshotOrder ==
    ASSUME Base, Ordered, NEW s \in Snapshots
    PROVE  /\ s \in Seq(Delivered) /\ Sorted(s)
           /\ NoNewer(Stored \cup InQueue \cup Coming, ToSet(s))
           /\ Behind(ToSet(s), api, revision)
<1>1. \A u \in UID : Exists(u) => api[u].uid = u /\ api[u].rv \in Nat
  BY DeliveredFacts DEF Base, OwnObjects, WTypeOK, Exists
<1>2. /\ s \in Seq(Delivered) /\ ToSet(s) = {api[u] : u \in {v \in UID : Exists(v)}}
      /\ \A i, j \in DOMAIN s : s[i].uid = s[j].uid => i = j
  BY SnapshotFacts DEF Base, WTypeOK, OwnObjects
<1>3. DOMAIN s \subseteq Nat
  BY <1>2
<1>4. Sorted(s)
  BY <1>2, <1>3 DEF Sorted
<1>5. \A p \in Stored \cup InQueue \cup Coming : p.rv \in Nat
  BY PodsOnTheWay, DeliveredFacts
<1>6. NoNewer(Stored \cup InQueue \cup Coming, ToSet(s))
  BY <1>1, <1>2, <1>5 DEF NoNewer, Ordered, Behind, Exists
<1>7. Behind(ToSet(s), api, revision)
  BY <1>1, <1>2 DEF Behind, Exists
<1> QED BY <1>2, <1>4, <1>6, <1>7

\* A producer sends p, the first of what is coming, and loses it if that panics.
LEMMA SendOrder ==
    ASSUME Base, Ordered, NEW p \in Coming, Send(p), UNCHANGED <<pods, api, revision>>,
           Coming' \subseteq Coming, NoNewer({p}, Coming'),
           Sorted(listed)', Sorted(stream)', NoNewer({held} \ {NoPod}, ToSet(stream))'
    PROVE  Ordered'
<1>1. p \in Delivered /\ queue \in Seq(Delivered) /\ Stored' = Stored
  BY PodsOnTheWay DEF Base, WTypeOK, Stored, Cached
<1>2. NoNewer(InQueue, {p}) /\ NoNewer(InQueue, Coming') /\ NoNewer(Stored, Coming')
  BY DEF Ordered, NoNewer
<1>3. CASE UNCHANGED queue
  <2>1. InQueue' = InQueue
    BY <1>3 DEF InQueue
  <2>2. NoNewer(Stored, InQueue \cup Coming')
    BY <1>2 DEF Ordered, NoNewer
  <2>3. Behind(Stored \cup InQueue \cup Coming', api, revision)
    BY DEF Ordered, Behind
  <2> QED BY <1>1, <1>2, <1>3, <2>1, <2>2, <2>3 DEF Ordered
<1>4. CASE queue' = Append(queue, p)
  <2>1. InQueue' = InQueue \cup {p} /\ Sorted(queue')
    BY <1>1, <1>2, <1>4, AppendFacts, AppendSorted DEF InQueue, Ordered
  <2>2. NoNewer(InQueue', Coming')
    BY <1>2, <2>1 DEF NoNewer
  <2>3. NoNewer(Stored, InQueue' \cup Coming')
    BY <2>1 DEF Ordered, NoNewer
  <2>4. Behind(Stored \cup InQueue' \cup Coming', api, revision)
    BY <2>1 DEF Ordered, Behind
  <2> QED BY <1>1, <2>1, <2>2, <2>3, <2>4 DEF Ordered
<1> QED BY <1>3, <1>4 DEF Send

LEMMA SyncerOrder == Base /\ Ordered /\ Syncer => Ordered'
<1> SUFFICES ASSUME Base, Ordered, Syncer PROVE Ordered'
  OBVIOUS
<1>1. CASE List
  <2>1. /\ UNCHANGED <<pods, api, revision, queue, stream, held>>
        /\ stream = <<>> /\ held = NoPod
    BY <1>1 DEF List, Base, Phases, Connected, WTypeOK, vars, cluster, chan
  <2>2. Stored' = Stored /\ InQueue' = InQueue
    BY <2>1 DEF Stored, InQueue, Cached
  <2>3. ToSet(stream) = {}
    BY <2>1 DEF ToSet
  <2>4. CASE UNCHANGED listed
    <3>1. Coming' = Coming
      BY <2>1, <2>4 DEF Coming
    <3> QED BY <2>1, <2>2, <2>4, <3>1 DEF Ordered
  <2>5. CASE listed' \in Snapshots
    <3>1. Coming' = ToSet(listed')
      BY <2>1, <2>3 DEF Coming
    <3>2. /\ Sorted(listed') /\ NoNewer(Stored \cup InQueue \cup Coming, ToSet(listed'))
          /\ Behind(ToSet(listed'), api, revision)
      BY <2>5, SnapshotOrder
    <3>3. NoNewer(InQueue, Coming') /\ NoNewer(Stored, InQueue \cup Coming')
      BY <3>1, <3>2 DEF Ordered, NoNewer
    <3>4. Behind(Stored \cup InQueue \cup Coming', api, revision)
      BY <3>1, <3>2 DEF Ordered, Behind
    <3> QED BY <2>1, <2>2, <3>2, <3>3, <3>4 DEF Ordered
  <2> QED BY <1>1, <2>4, <2>5 DEF List
<1>2. CASE SendListed
  <2> DEFINE p == Head(listed)
  <2>1. /\ UNCHANGED <<pods, api, revision, stream, held>> /\ Send(p) /\ listed' = Tail(listed)
        /\ stream = <<>> /\ held = NoPod /\ listed \in Seq(Delivered) /\ listed # <<>>
    BY <1>2 DEF SendListed, Base, Phases, Connected, WTypeOK, vars, cluster
  <2>2. ToSet(listed) = {p} \cup ToSet(listed')
    BY <2>1, TailFacts
  <2>3. Sorted(listed') /\ NoNewer({p}, ToSet(listed'))
    BY <2>1, TailSorted DEF Ordered
  <2>4. ToSet(stream) = {}
    BY <2>1 DEF ToSet
  <2>5. Coming' = ToSet(listed') /\ p \in Coming /\ Coming' \subseteq Coming
    BY <2>1, <2>2, <2>4 DEF Coming
  <2> QED BY <2>1, <2>3, <2>5, SendOrder DEF Ordered
<1>3. CASE Synced
  BY <1>3 DEF Synced, Ordered, Stored, Cached, InQueue, Coming, vars, cluster, chan
<1> QED BY <1>1, <1>2, <1>3 DEF Syncer

LEMMA WatcherOrder == Base /\ Ordered /\ (Watcher \/ Break) => Ordered'
<1> SUFFICES ASSUME Base, Ordered, Watcher \/ Break PROVE Ordered'
  OBVIOUS
<1>1. ToSet(<<>>) = {} /\ Sorted(<<>>)
  BY DEF ToSet, Sorted
<1>2. listed = <<>>
  BY DEF Watcher, Connect, NextEvent, SendEvent, Break, Base, Phases
<1>3. CASE Connect
  <2>1. /\ UNCHANGED <<pods, api, revision, queue, listed, held>> /\ held = NoPod
        /\ stream' \in Snapshots
    BY <1>3 DEF Connect, Base, WTypeOK, vars, cluster, chan
  <2>2. Stored' = Stored /\ InQueue' = InQueue
    BY <2>1 DEF Stored, InQueue, Cached
  <2>3. Coming' = ToSet(stream')
    BY <1>1, <1>2, <2>1 DEF Coming
  <2>4. /\ Sorted(stream') /\ NoNewer(Stored \cup InQueue \cup Coming, ToSet(stream'))
        /\ Behind(ToSet(stream'), api, revision)
    BY <2>1, SnapshotOrder
  <2>5. NoNewer(InQueue, Coming') /\ NoNewer(Stored, InQueue \cup Coming')
    BY <2>3, <2>4 DEF Ordered, NoNewer
  <2>6. Behind(Stored \cup InQueue \cup Coming', api, revision)
    BY <2>3, <2>4 DEF Ordered, Behind
  <2>7. NoNewer({held} \ {NoPod}, ToSet(stream))'
    BY <2>1 DEF NoNewer
  <2> QED BY <2>1, <2>2, <2>4, <2>5, <2>6, <2>7 DEF Ordered
<1>4. CASE NextEvent
  <2>1. /\ UNCHANGED <<pods, api, revision, queue, listed>> /\ held = NoPod
        /\ held' = Head(stream) /\ stream' = Tail(stream) /\ stream \in Seq(Delivered)
        /\ stream # <<>>
    BY <1>4 DEF NextEvent, Base, WTypeOK, vars, cluster, chan
  <2>2. Stored' = Stored /\ InQueue' = InQueue
    BY <2>1 DEF Stored, InQueue, Cached
  <2>3. held' \in Delivered /\ held' # NoPod /\ ToSet(stream) = {held'} \cup ToSet(stream')
    BY <2>1, TailFacts, DeliveredFacts
  <2>4. Coming' = Coming
    BY <1>1, <1>2, <2>1, <2>3 DEF Coming
  <2>5. Sorted(stream') /\ NoNewer({held'}, ToSet(stream'))
    BY <2>1, TailSorted DEF Ordered
  <2>6. {held'} \ {NoPod} = {held'}
    BY <2>3
  <2> QED BY <2>1, <2>2, <2>4, <2>5, <2>6 DEF Ordered
<1>5. CASE SendEvent
  <2>1. /\ UNCHANGED <<pods, api, revision, listed, stream>> /\ Send(held) /\ held' = NoPod
        /\ held # NoPod
    BY <1>5 DEF SendEvent, Base, WTypeOK, vars, cluster
  <2>2. Coming' = ToSet(stream) /\ held \in Coming /\ Coming' \subseteq Coming
    BY <1>1, <1>2, <2>1 DEF Coming
  <2>3. NoNewer({held}, Coming')
    BY <2>1, <2>2 DEF Ordered, NoNewer
  <2>4. NoNewer({held} \ {NoPod}, ToSet(stream))'
    BY <2>1 DEF NoNewer
  <2> QED BY <2>1, <2>2, <2>3, <2>4, SendOrder DEF Ordered
<1>6. CASE Break
  <2>1. UNCHANGED <<pods, api, revision, queue, listed, held>> /\ stream' = <<>> /\ held = NoPod
    BY <1>6 DEF Break, Base, WTypeOK, vars, cluster, chan
  <2>2. Stored' = Stored /\ InQueue' = InQueue
    BY <2>1 DEF Stored, InQueue, Cached
  <2>3. Coming' = {}
    BY <1>1, <1>2, <2>1 DEF Coming
  <2>4. /\ NoNewer(InQueue, {}) /\ NoNewer(Stored, InQueue \cup {})
        /\ Behind(Stored \cup InQueue \cup {}, api, revision)
    BY DEF Ordered, NoNewer, Behind
  <2>5. NoNewer({held} \ {NoPod}, ToSet(stream))'
    BY <2>1 DEF NoNewer
  <2> QED BY <1>1, <2>1, <2>2, <2>3, <2>4, <2>5 DEF Ordered
<1> QED BY <1>3, <1>4, <1>5, <1>6 DEF Watcher

\* The worker takes the oldest object, which is no older than what the store has of its pod.
LEMMA ApplyEffect ==
    ASSUME Base, Ordered, Apply
    PROVE  LET p == Head(queue) IN
           /\ p \in InQueue /\ p \in Delivered /\ Work(p)
           /\ queue \in Seq(Delivered) /\ queue # <<>> /\ queue' = Tail(queue)
           /\ InQueue = {p} \cup InQueue' /\ Sorted(queue') /\ NoNewer({p}, InQueue')
           /\ UNCHANGED <<cluster, control>>
           /\ \A u \in UID : u # p.uid => pods'[u] = pods[u]
           /\ p.del => pods'[p.uid] = NoPod
           /\ ~p.del => \/ pods'[p.uid] = p
                        \/ pods'[p.uid] = pods[p.uid] /\ p.uid \in Cached /\ p.rv = pods[p.uid].rv
           /\ Stored' \subseteq Stored \cup {p}
<1> DEFINE p == Head(queue)
<1>1. /\ queue \in Seq(Delivered) /\ queue # <<>> /\ queue' = Tail(queue) /\ Work(p)
      /\ UNCHANGED <<cluster, control>>
  BY DEF Apply, Base, WTypeOK
<1>2. p \in Delivered /\ InQueue = {p} \cup InQueue'
  BY <1>1, TailFacts DEF InQueue
<1>3. Sorted(queue') /\ NoNewer({p}, InQueue')
  BY <1>1, TailSorted DEF InQueue, Ordered
<1>4. /\ \A u \in UID : u # p.uid => pods'[u] = pods[u]
      /\ p.del => pods'[p.uid] = NoPod
      /\ ~p.del => \/ pods'[p.uid] = p
                   \/ pods'[p.uid] = pods[p.uid] /\ p.uid \in Cached /\ p.rv = pods[p.uid].rv
  BY <1>1, <1>2, WorkEffect DEF Base, OwnObjects
<1>5. Stored' \subseteq Stored \cup {p}
  BY <1>4 DEF Stored, Cached
<1> QED BY <1>1, <1>2, <1>3, <1>4, <1>5

LEMMA WorkerOrder == Base /\ Ordered /\ Worker => Ordered'
<1> SUFFICES ASSUME Base, Ordered, Worker PROVE Ordered'
  OBVIOUS
<1>1. CASE Apply
  <2> DEFINE p == Head(queue)
  <2>1. /\ InQueue = {p} \cup InQueue' /\ Sorted(queue') /\ NoNewer({p}, InQueue')
        /\ Stored' \subseteq Stored \cup {p}
        /\ UNCHANGED <<cluster, control>>
    BY <1>1, ApplyEffect
  <2>2. UNCHANGED <<api, revision, listed, stream, held>> /\ Coming' = Coming
    BY <2>1 DEF cluster, control, Coming
  <2>3. NoNewer(InQueue', Coming)
    BY <2>1 DEF Ordered, NoNewer
  <2>4. NoNewer(Stored', InQueue' \cup Coming)
    BY <2>1 DEF Ordered, NoNewer
  <2>5. Behind(Stored' \cup InQueue' \cup Coming, api, revision)
    BY <2>1 DEF Ordered, Behind
  <2> QED BY <2>1, <2>2, <2>3, <2>4, <2>5 DEF Ordered
<1>2. CASE WorkerExits
  BY <1>2 DEF WorkerExits, Ordered, Stored, Cached, InQueue, Coming, vars, cluster, chan
<1> QED BY <1>1, <1>2 DEF Worker

LEMMA ControlOrder == Ordered /\ (Ready \/ Timeout \/ Shutdown \/ Stop \/ UNCHANGED wvars) => Ordered'
BY DEF Ready, Timeout, Shutdown, Stop, CloseQueue, Ordered, Stored, Cached, InQueue, Coming,
       wvars, vars, cluster, control, chan

LEMMA OrderedInductive == Base /\ Ordered /\ [WNext]_wvars => Ordered'
BY ClusterOrder, SyncerOrder, WatcherOrder, WorkerOrder, ControlOrder DEF WNext

LEMMA WatcherInvariant == WSpec => [](Base /\ Ordered)
<1> QED BY BaseInit, OrderedInit, BaseInductive, OrderedInductive, PTL DEF WSpec

\* Through the sync, watches, reconnections and their interleavings, the store never
\* replaces a pod by an older state of it (podwatcher.go:185-192).
THEOREM VersionsNeverRegress == WSpec => VersionNeverRegresses
<1> DEFINE Forward == \A u \in Cached : pods'[u] # NoPod => pods'[u].rv >= pods[u].rv
<1>1. Base /\ Ordered /\ [WNext]_wvars => [Forward]_vars
  <2> SUFFICES ASSUME Base, Ordered, WNext, NEW u \in Cached, pods'[u] # NoPod
               PROVE  pods'[u].rv >= pods[u].rv
    BY DEF wvars, vars
  <2>1. u \in UID /\ pods[u] \in Stored /\ pods[u].uid = u /\ pods[u].rv \in Nat
    BY PodsOnTheWay, DeliveredFacts DEF Stored, Cached, Base, TypeOK
  <2>2. CASE Apply
    <3> DEFINE p == Head(queue)
    <3>1. /\ p \in InQueue /\ p \in Delivered
          /\ \A v \in UID : v # p.uid => pods'[v] = pods[v]
          /\ p.del => pods'[p.uid] = NoPod
          /\ ~p.del => pods'[p.uid] = p \/ pods'[p.uid] = pods[p.uid]
      BY <2>2, ApplyEffect
    <3>2. p.uid = u => pods[u].rv <= p.rv
      BY <2>1, <3>1 DEF Ordered, NoNewer
    <3>3. p.rv \in Nat
      BY <3>1, DeliveredFacts
    <3> QED BY <2>1, <3>1, <3>2, <3>3
  <2>3. CASE WNext /\ ~Apply
    <3>1. pods' = pods
      BY <2>3 DEF WNext, Cluster, Change, Vanish, Syncer, List, SendListed, Synced, Watcher,
                  Connect, NextEvent, SendEvent, Break, Worker, WorkerExits, Ready, Timeout,
                  Shutdown, Stop, CloseQueue, vars
    <3> QED BY <2>1, <3>1
  <2> QED BY <2>2, <2>3
<1> QED BY <1>1, WatcherInvariant, PTL DEF WSpec, VersionNeverRegresses
----
(* Nothing is lost while a watch is connected *)

LEMMA AppendNews ==
    ASSUME NEW s \in Seq(Delivered), NEW p \in Delivered, NEW u
    PROVE  /\ p.uid = u => ~Silent(Append(s, p), u) /\ LastNews(Append(s, p), u, p)
           /\ p.uid # u => /\ Silent(Append(s, p), u) = Silent(s, u)
                           /\ \A x : LastNews(s, u, x) => LastNews(Append(s, p), u, x)
<1> DEFINE t == Append(s, p)
           n == Len(s) + 1
<1>1. /\ DOMAIN t = DOMAIN s \cup {n} /\ t[n] = p
      /\ \A i \in DOMAIN s : t[i] = s[i] /\ i < n
      /\ DOMAIN s \subseteq Nat /\ n \in Nat
  BY AppendFacts
<1> HIDE DEF t, n
<1>2. p.uid = u => ~Silent(t, u) /\ LastNews(t, u, p)
  BY <1>1 DEF Silent, LastNews
<1>3. p.uid # u => Silent(t, u) = Silent(s, u)
  BY <1>1 DEF Silent
<1>4. p.uid # u => \A x : LastNews(s, u, x) => LastNews(t, u, x)
  BY <1>1 DEF LastNews
<1> QED BY <1>2, <1>3, <1>4 DEF t

LEMMA TailNews ==
    ASSUME NEW s \in Seq(Delivered), s # <<>>, NEW u
    PROVE  /\ Silent(s, u) => Silent(Tail(s), u) /\ Head(s).uid # u
           /\ \A x : LastNews(s, u, x) => IF Silent(Tail(s), u) THEN x.uid = u => Head(s) = x
                                          ELSE LastNews(Tail(s), u, x)
<1> DEFINE t == Tail(s)
<1>1. /\ Head(s) = s[1] /\ 1 \in DOMAIN s /\ DOMAIN s \subseteq Nat
      /\ DOMAIN t \subseteq Nat
      /\ \A i \in DOMAIN t : t[i] = s[i + 1] /\ i + 1 \in DOMAIN s
      /\ \A i \in DOMAIN s : i # 1 => i - 1 \in DOMAIN t /\ t[i - 1] = s[i]
  BY TailFacts
<1> HIDE DEF t
<1>2. Silent(s, u) => Silent(t, u) /\ Head(s).uid # u
  BY <1>1 DEF Silent
<1>3. ASSUME NEW x, LastNews(s, u, x)
      PROVE  IF Silent(t, u) THEN x.uid = u => Head(s) = x ELSE LastNews(t, u, x)
  <2>1. PICK i \in DOMAIN s : s[i] = x /\ \A j \in DOMAIN s : s[j].uid = u => j <= i
    BY <1>3 DEF LastNews
  <2>2. CASE Silent(t, u)
    BY <1>1, <2>1, <2>2 DEF Silent
  <2>3. CASE ~Silent(t, u)
    <3>1. PICK k \in DOMAIN t : t[k].uid = u
      BY <2>3 DEF Silent
    <3>2. k + 1 <= i /\ i # 1 /\ i - 1 \in DOMAIN t /\ t[i - 1] = x
      <4>1. k \in Nat /\ k + 1 \in DOMAIN s /\ s[k + 1].uid = u
        BY <1>1, <3>1
      <4>2. k # 0
        BY <3>1, TailFacts DEF t
      <4>3. k + 1 <= i
        BY <2>1, <4>1
      <4> QED BY <1>1, <2>1, <4>1, <4>2, <4>3
    <3>3. \A j \in DOMAIN t : t[j].uid = u => j <= i - 1
      <4> SUFFICES ASSUME NEW j \in DOMAIN t, t[j].uid = u PROVE j <= i - 1
        OBVIOUS
      <4>1. j + 1 \in DOMAIN s /\ s[j + 1].uid = u /\ j \in Nat /\ i \in Nat
        BY <1>1, <2>1
      <4>2. j + 1 <= i
        BY <2>1, <4>1
      <4> QED BY <4>1, <4>2
    <3> QED BY <2>3, <3>2, <3>3 DEF LastNews
  <2> QED BY <2>2, <2>3
<1> QED BY <1>2, <1>3 DEF t

LEMMA SnapshotNews ==
    ASSUME Base, NEW s \in Snapshots, NEW u \in UID, Exists(u)
    PROVE  ~Silent(s, u) /\ LastNews(s, u, api[u])
<1>1. /\ s \in Seq(Delivered) /\ ToSet(s) = {api[v] : v \in {w \in UID : Exists(w)}}
      /\ \A i, j \in DOMAIN s : s[i].uid = s[j].uid => i = j
  BY SnapshotFacts DEF Base, WTypeOK, OwnObjects
<1>2. api[u] \in ToSet(s) /\ api[u].uid = u
  BY <1>1 DEF Base, OwnObjects
<1>3. PICK i \in DOMAIN s : s[i] = api[u]
  BY <1>2 DEF ToSet
<1>4. DOMAIN s \subseteq Nat
  BY <1>1
<1> QED BY <1>1, <1>2, <1>3, <1>4 DEF Silent, LastNews

Informed == Base /\ Ordered /\ NothingLostWhileConnected

LEMMA EmitNews ==
    ASSUME Informed, ~crashed, NEW p \in Delivered, NEW u \in UID, Connected, Emit(p),
           UNCHANGED <<pods, queue, held, watcher>>,
           IF u = p.uid THEN api'[u] = p ELSE api'[u] = api[u] /\ Exists(u)
    PROVE  NewestIs(u, api[u])'
<1>1. stream' = Append(stream, p) /\ stream \in Seq(Delivered)
  BY DEF Emit, Informed, Base, WTypeOK
<1>2. CASE u = p.uid
  BY <1>1, <1>2, AppendNews DEF NewestIs
<1>3. CASE u # p.uid
  <2>1. NewestIs(u, api[u])
    BY <1>3 DEF Informed, NothingLostWhileConnected
  <2>2. /\ Silent(stream', u) = Silent(stream, u)
        /\ LastNews(stream, u, api[u]) => LastNews(stream', u, api[u])
    BY <1>1, <1>3, AppendNews
  <2>3. api'[u] = api[u] /\ pods' = pods /\ queue' = queue /\ held' = held
    BY <1>3
  <2>4. CASE ~Silent(stream, u)
    BY <2>1, <2>2, <2>3, <2>4 DEF NewestIs
  <2>5. CASE Silent(stream, u)
    <3>1. ~Silent(stream', u) <=> FALSE
      BY <2>2, <2>5
    <3> QED BY <2>1, <2>3, <2>5, <3>1 DEF NewestIs, Reflected
  <2> QED BY <2>4, <2>5
<1> QED BY <1>2, <1>3

LEMMA ClusterNews == Informed /\ Cluster => NothingLostWhileConnected'
<1> SUFFICES ASSUME Informed, Cluster, Connected', ~crashed', NEW u \in UID, Exists(u)'
             PROVE  NewestIs(u, api[u])'
  BY DEF NothingLostWhileConnected
<1>1. ASSUME NEW p \in Delivered, Change(p) PROVE NewestIs(u, api[u])'
  <2>1. /\ Connected /\ ~crashed /\ api' = [api EXCEPT ![p.uid] = p] /\ Emit(p)
        /\ UNCHANGED <<pods, queue, held, watcher>>
    BY <1>1 DEF Change, vars, chan, Connected
  <2>2. IF u = p.uid THEN api'[u] = p ELSE api'[u] = api[u] /\ Exists(u)
    BY <2>1 DEF Informed, Base, WTypeOK, Exists
  <2> QED BY <2>1, <2>2, EmitNews
<1>2. ASSUME NEW v \in UID, Vanish(v) PROVE NewestIs(u, api[u])'
  <2>1. /\ Connected /\ ~crashed /\ Exists(v) /\ api' = [api EXCEPT ![v] = NoPod] /\ Emit(api[v])
        /\ UNCHANGED <<pods, queue, held, watcher>>
    BY <1>2 DEF Vanish, vars, chan, Connected
  <2>2. api[v] \in Delivered /\ api[v].uid = v /\ u # v /\ api'[u] = api[u] /\ Exists(u)
    BY <2>1 DEF Informed, Base, WTypeOK, OwnObjects, Exists
  <2> QED BY <2>1, <2>2, EmitNews
<1> QED BY <1>1, <1>2 DEF Cluster

LEMMA WatcherNews == Informed /\ (Watcher \/ Break) => NothingLostWhileConnected'
<1> SUFFICES ASSUME Informed, Watcher \/ Break, Connected', ~crashed', NEW u \in UID, Exists(u)'
             PROVE  NewestIs(u, api[u])'
  BY DEF NothingLostWhileConnected
<1>1. ~crashed /\ api' = api /\ pods' = pods /\ Exists(u)
  BY DEF Watcher, Connect, NextEvent, SendEvent, Break, vars, cluster, Exists
<1>2. Connected => NewestIs(u, api[u])
  BY <1>1 DEF Informed, NothingLostWhileConnected
<1> DEFINE x == api[u]
<1>3. x.uid = u /\ x \in Delivered
  BY <1>1 DEF Informed, Base, OwnObjects, WTypeOK, Exists
<1>4. CASE Connect
  <2>1. stream' \in Snapshots
    BY <1>4 DEF Connect
  <2>2. ~Silent(stream', u) /\ LastNews(stream', u, x)
    BY <1>1, <2>1, SnapshotNews DEF Informed
  <2> QED BY <1>1, <2>2 DEF NewestIs
<1>5. CASE NextEvent
  <2>1. /\ held = NoPod /\ held' = Head(stream) /\ stream' = Tail(stream) /\ queue' = queue
        /\ stream \in Seq(Delivered) /\ stream # <<>> /\ Connected
    BY <1>5 DEF NextEvent, Informed, Base, WTypeOK, Connected, chan
  <2>2. held' # NoPod
    BY <2>1, TailFacts, DeliveredFacts
  <2>3. CASE Silent(stream, u)
    <3>1. Silent(stream', u) /\ held'.uid # u
      BY <2>1, <2>3, TailNews
    <3> QED BY <1>1, <1>2, <2>1, <2>3, <3>1 DEF NewestIs, Reflected
  <2>4. CASE ~Silent(stream, u)
    <3>1. LastNews(stream, u, x)
      BY <1>2, <2>1, <2>4 DEF NewestIs
    <3>2. IF Silent(stream', u) THEN held' = x ELSE LastNews(stream', u, x)
      BY <1>3, <2>1, <3>1, TailNews
    <3> QED BY <1>1, <1>3, <2>2, <3>2 DEF NewestIs
  <2> QED BY <2>3, <2>4
<1>6. CASE SendEvent
  <2>1. /\ Connected /\ held # NoPod /\ held \in Delivered /\ held' = NoPod /\ stream' = stream
        /\ queue \in Seq(Delivered) /\ queue' = Append(queue, held)
    BY <1>6 DEF SendEvent, Send, Informed, Base, WTypeOK, Connected
  <2>2. CASE ~Silent(stream, u)
    BY <1>1, <1>2, <2>1, <2>2 DEF NewestIs
  <2>3. CASE Silent(stream, u) /\ held.uid = u
    <3>1. held = x
      BY <1>2, <2>1, <2>3 DEF NewestIs
    <3>2. ~Silent(queue', u) /\ LastNews(queue', u, x)
      BY <2>1, <2>3, <3>1, AppendNews
    <3> QED BY <1>1, <2>1, <2>3, <3>2 DEF NewestIs
  <2>4. CASE Silent(stream, u) /\ held.uid # u
    <3>1. /\ Silent(queue', u) = Silent(queue, u)
          /\ LastNews(queue, u, x) => LastNews(queue', u, x)
      BY <2>1, <2>4, AppendNews
    <3>2. IF ~Silent(queue, u) THEN LastNews(queue, u, x) ELSE Reflected(u)
      BY <1>2, <2>1, <2>4 DEF NewestIs
    <3>3. Reflected(u)' <=> Reflected(u)
      BY <1>1 DEF Reflected
    <3>4. CASE Silent(queue, u)
      <4>1. ~Silent(queue', u) <=> FALSE
        BY <3>1, <3>4
      <4> QED BY <1>1, <2>1, <2>4, <3>2, <3>3, <3>4, <4>1 DEF NewestIs
    <3>5. CASE ~Silent(queue, u)
      BY <1>1, <2>1, <2>4, <3>1, <3>2, <3>5 DEF NewestIs
    <3> QED BY <3>4, <3>5
  <2> QED BY <2>2, <2>3, <2>4
<1>7. CASE Break
  BY <1>7 DEF Break, Connected
<1> QED BY <1>4, <1>5, <1>6, <1>7 DEF Watcher

LEMMA ApplyNews == Informed /\ Apply => NothingLostWhileConnected'
<1> SUFFICES ASSUME Informed, Apply, Connected', ~crashed', NEW u \in UID, Exists(u)'
             PROVE  NewestIs(u, api[u])'
  BY DEF NothingLostWhileConnected
<1> DEFINE p == Head(queue)
           x == api[u]
<1>1. /\ p \in InQueue /\ p \in Delivered
      /\ queue \in Seq(Delivered) /\ queue # <<>> /\ queue' = Tail(queue)
      /\ UNCHANGED <<cluster, control>>
      /\ \A v \in UID : v # p.uid => pods'[v] = pods[v]
      /\ p.del => pods'[p.uid] = NoPod
      /\ ~p.del => \/ pods'[p.uid] = p
                   \/ pods'[p.uid] = pods[p.uid] /\ p.uid \in Cached /\ p.rv = pods[p.uid].rv
  BY ApplyEffect DEF Informed
<1>2. api' = api /\ stream' = stream /\ held' = held /\ Connected /\ ~crashed /\ Exists(u)
  BY <1>1 DEF cluster, control, Connected, Exists, Apply
<1>3. NewestIs(u, x)
  BY <1>2 DEF Informed, NothingLostWhileConnected
<1>4. x.uid = u
  BY <1>2 DEF Informed, Base, OwnObjects
<1>5. CASE ~Silent(stream, u) \/ (held # NoPod /\ held.uid = u)
  BY <1>2, <1>3, <1>5 DEF NewestIs
<1>6. CASE Silent(stream, u) /\ ~(held # NoPod /\ held.uid = u)
  <2>1. CASE Silent(queue, u)
    <3>1. Reflected(u) /\ Silent(queue', u) /\ p.uid # u
      BY <1>1, <1>3, <1>6, <2>1, TailNews DEF NewestIs
    <3>2. Reflected(u)'
      BY <1>1, <1>2, <3>1 DEF Reflected
    <3> QED BY <1>2, <1>6, <3>1, <3>2 DEF NewestIs
  <2>2. CASE ~Silent(queue, u)
    <3>1. LastNews(queue, u, x)
      BY <1>3, <1>6, <2>2 DEF NewestIs
    <3>2. IF Silent(queue', u) THEN p = x ELSE LastNews(queue', u, x)
      BY <1>1, <1>4, <3>1, TailNews
    <3>3. CASE ~Silent(queue', u)
      BY <1>2, <1>6, <3>2, <3>3 DEF NewestIs
    <3>4. CASE Silent(queue', u)
      <4>1. p = x /\ p.uid = u
        BY <1>4, <3>2, <3>4
      <4>2. u \in Cached /\ p.rv = pods[u].rv => pods[u] = x
        <5> SUFFICES ASSUME u \in Cached, p.rv = pods[u].rv PROVE pods[u] = x
          OBVIOUS
        <5>1. pods[u] \in Stored /\ pods[u].uid = u /\ x # NoPod
          BY <1>2 DEF Stored, Informed, Base, TypeOK, Exists
        <5>2. pods[u].rv < x.rv \/ pods[u] = x
          BY <5>1 DEF Informed, Ordered, Behind
        <5>3. x.rv \in Nat
          BY <1>1, <4>1, DeliveredFacts
        <5> QED BY <4>1, <5>2, <5>3
      <4>3. Reflected(u)'
        BY <1>1, <1>2, <4>1, <4>2 DEF Reflected
      <4> QED BY <1>2, <1>6, <3>4, <4>3 DEF NewestIs
    <3> QED BY <3>3, <3>4
  <2> QED BY <2>1, <2>2
<1> QED BY <1>5, <1>6

LEMMA OthersNews ==
    Informed /\ (Syncer \/ WorkerExits \/ Ready \/ Timeout \/ Shutdown \/ Stop \/ UNCHANGED wvars)
    => NothingLostWhileConnected'
<1> SUFFICES ASSUME Informed, Connected', ~crashed',
                    Syncer \/ WorkerExits \/ Ready \/ Timeout \/ Shutdown \/ Stop \/ UNCHANGED wvars
             PROVE  \A u \in UID : Exists(u)' => NewestIs(u, api[u])'
  BY DEF NothingLostWhileConnected
<1>1. CASE SendListed
  BY <1>1 DEF SendListed, Informed, Base, Phases, Connected
<1>2. CASE Ready
  BY <1>2 DEF Ready, Connected
<1>3. CASE ~SendListed /\ ~Ready
  <2>1. UNCHANGED <<api, pods, queue, stream, held, watcher>> /\ ~crashed
    BY <1>3 DEF Syncer, List, Synced, WorkerExits, Timeout, Shutdown, Stop, CloseQueue,
                wvars, vars, cluster, control, chan
  <2> QED BY <2>1 DEF Informed, NothingLostWhileConnected, Connected, NewestIs, Reflected, Exists
<1> QED BY <1>1, <1>2, <1>3

\* While a watch is connected, no event of an existing pod is lost between the API server
\* and the store: its state there is on its way, or has arrived (podwatcher.go:95-150).
THEOREM NothingIsLost == WSpec => []NothingLostWhileConnected
<1>1. WInit => NothingLostWhileConnected
  BY DEF WInit, NothingLostWhileConnected, Connected
<1>2. Informed /\ [WNext]_wvars => NothingLostWhileConnected'
  BY ClusterNews, WatcherNews, ApplyNews, OthersNews DEF WNext, Worker
<1>3. Base /\ Ordered /\ NothingLostWhileConnected /\ [WNext]_wvars => NothingLostWhileConnected'
  BY <1>2 DEF Informed
<1> QED BY <1>1, <1>3, WatcherInvariant, PTL DEF WSpec
====
