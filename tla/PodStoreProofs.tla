---- MODULE PodStoreProofs ----
(***************************************************************************)
(* Proofs about PodStore, for any number of pods, addresses, versions and  *)
(* faults.  Type correctness, and where stale metadata comes from, hold of *)
(* every environment.  While one address belongs to one known pod at a     *)
(* time, metadata is fresh, every endpoint is collected and no event       *)
(* disturbs another pod, however often the token is rotated and in         *)
(* whatever order metric sets are listed.  A rotation, and an event of the *)
(* pod itself where the order is open, are all that leaves a file behind   *)
(* in silence, so PodStore implements Collection.                          *)
(***************************************************************************)
EXTENDS PodStore, TLAPS

\* A built configuration is well typed.
LEMMA BuildType ==
    ASSUME NEW p \in Pod, NEW ann \in [Address -> Meta \cup {NoMeta}],
           NEW tok \in Token \cup {NoToken}
    PROVE  Build(p, ann, tok) \subseteq Config
<1>1. CASE p.ask = NoAddress
  BY <1>1 DEF Build
<1>2. CASE p.ask # NoAddress
  <2>1. p.ask \in Address /\ p.spec \in Module
    BY <1>2 DEF Pod
  <2>2. ann[p.ask] \in Meta \cup {NoMeta}
    BY <2>1
  <2>3. Listings[p.spec] \subseteq Listing
    BY <2>1, StoreAssumption
  <2>4. QED
    BY <1>2, <2>1, <2>2, <2>3 DEF Build, Config
<1>3. QED
  BY <1>1, <1>2

\* A pod that asks for something is built to at least one configuration.
LEMMA BuildSome ==
    ASSUME NEW p \in Pod, p.ask # NoAddress, NEW ann, NEW tok
    PROVE  Build(p, ann, tok) # {}
<1>1. PICK l \in Listings[p.spec] : TRUE
  BY StoreAssumption DEF Pod
<1>2. [host |-> p.ask, spec |-> p.spec, sets |-> l, meta |-> ann[p.ask],
       auth |-> IF p.spec \in Secured THEN tok ELSE NoToken] \in Build(p, ann, tok)
  BY <1>1 DEF Build
<1> QED BY <1>2

\* One answer of the builder is one of its configurations, or none if there is none.
LEMMA OneAnswer ==
    ASSUME NEW cs, NEW one \in OneOf(cs)
    PROVE  one \subseteq cs /\ (cs # {} => \E c \in cs : one = {c})
BY DEF OneOf

\* The failing operations are among the operations.
LEMMA MayFailSubset ==
    ASSUME NEW cs, NEW bad \in MayFail(cs)
    PROVE  bad \subseteq cs
BY DEF MayFail

\* Indexing and un-indexing metadata keeps the map typed.
LEMMA AnnotationsType ==
    ASSUME NEW p \in Pod, NEW ann \in [Address -> Meta \cup {NoMeta}]
    PROVE  /\ Annotated(ann, p) \in [Address -> Meta \cup {NoMeta}]
           /\ Unannotated(ann, p) \in [Address -> Meta \cup {NoMeta}]
BY DEF Annotated, Unannotated, Pod

LEMMA TypeInit == Init => TypeOK
BY StoreAssumption DEF Init, TypeOK, Cached

\* Every event the worker handles keeps the state typed.
LEMMA WorkType ==
    ASSUME TypeOK, NEW p \in Delivered, Work(p)
    PROVE  TypeOK'
<1> p \in Pod
  BY StoreAssumption
<1> p.uid \in UID
  BY DEF Pod
<1> \A u \in Cached : pods[u] \in Pod
  BY DEF TypeOK, Cached
<1>1. CASE p.del /\ OnPodDelete(p)
  <2>a. PICK old \in IF p.uid \in Cached THEN OneOf(Rebuilt(p.uid)) ELSE {{}} :
        \E bad \in MayFail(old \cap files) :
           /\ files' = Stopped(files, old, bad)
           /\ failed' = failed \cup ({"stop"} \X bad)
    BY <1>1 DEF OnPodDelete
  <2>b. p.uid \in Cached => Rebuilt(p.uid) \subseteq Config
    BY BuildType DEF Rebuilt, TypeOK
  <2>1. old \subseteq Config
    BY <2>a, <2>b, OneAnswer
  <2>2. PICK bad \in MayFail(old \cap files) :
           /\ files' = Stopped(files, old, bad)
           /\ failed' = failed \cup ({"stop"} \X bad)
    BY <2>a
  <2>3. bad \subseteq Config
    BY <2>1, <2>2, MayFailSubset
  <2>4. files' \subseteq Config /\ failed' \subseteq {"start", "stop"} \X Config
    BY <2>2, <2>3 DEF TypeOK, Stopped
  <2>5. annotations' \in [Address -> Meta \cup {NoMeta}]
    BY <1>1, AnnotationsType DEF OnPodDelete, TypeOK
  <2>6. /\ pods' \in [UID -> Pod \cup {NoPod}]
        /\ \A u \in Cached' : pods'[u].uid = u
    BY <1>1 DEF OnPodDelete, TypeOK, Cached
  <2>7. token' \in Token \cup {NoToken}
    BY <1>1 DEF OnPodDelete, TypeOK
  <2>8. QED
    BY <2>4, <2>5, <2>6, <2>7 DEF TypeOK
<1>2. CASE p.uid \in Cached /\ OnPodUpdate(p)
  <2>1. annotations' \in [Address -> Meta \cup {NoMeta}]
    BY <1>2, AnnotationsType DEF OnPodUpdate, TypeOK
  <2>a. PICK old \in OneOf(Rebuilt(p.uid)), new \in OneOf(Build(p, annotations', token)) :
        \E stuck \in MayFail(old \cap files) :
        \E bad \in MayFail(new \ Stopped(files, old, stuck)) :
           /\ files' = Started(Stopped(files, old, stuck), new, bad)
           /\ failed' = failed \cup ({"stop"} \X stuck) \cup ({"start"} \X bad)
    BY <1>2 DEF OnPodUpdate
  <2>2. new \subseteq Config
    <3>1. Build(p, annotations', token) \subseteq Config
      BY <2>1, BuildType DEF TypeOK
    <3> QED BY <2>a, <3>1, OneAnswer
  <2>3. old \subseteq Config
    <3>1. Rebuilt(p.uid) \subseteq Config
      BY <1>2, BuildType DEF Rebuilt, TypeOK
    <3> QED BY <2>a, <3>1, OneAnswer
  <2>4. PICK stuck \in MayFail(old \cap files) :
        \E bad \in MayFail(new \ Stopped(files, old, stuck)) :
           /\ files' = Started(Stopped(files, old, stuck), new, bad)
           /\ failed' = failed \cup ({"stop"} \X stuck) \cup ({"start"} \X bad)
    BY <2>a
  <2>5. PICK bad \in MayFail(new \ Stopped(files, old, stuck)) :
           /\ files' = Started(Stopped(files, old, stuck), new, bad)
           /\ failed' = failed \cup ({"stop"} \X stuck) \cup ({"start"} \X bad)
    BY <2>4
  <2>6. stuck \subseteq Config /\ bad \subseteq Config
    BY <2>2, <2>3, <2>4, <2>5, MayFailSubset
  <2>7. files' \subseteq Config /\ failed' \subseteq {"start", "stop"} \X Config
    BY <2>2, <2>5, <2>6 DEF TypeOK, Stopped, Started
  <2>8. /\ pods' \in [UID -> Pod \cup {NoPod}]
        /\ \A u \in Cached' : pods'[u].uid = u
    BY <1>2 DEF OnPodUpdate, TypeOK, Cached
  <2>9. token' \in Token \cup {NoToken}
    BY <1>2 DEF OnPodUpdate, TypeOK
  <2>10. QED
    BY <2>1, <2>7, <2>8, <2>9 DEF TypeOK
<1>3. CASE Unchanged(p)
  BY <1>3 DEF Unchanged, vars, TypeOK, Cached
<1>4. CASE OnPodAdd(p)
  <2>1. annotations' \in [Address -> Meta \cup {NoMeta}]
    BY <1>4, AnnotationsType DEF OnPodAdd, TypeOK
  <2>a. PICK new \in OneOf(Build(p, annotations', token)) :
        \E bad \in MayFail(new \ files) :
           /\ files' = Started(files, new, bad)
           /\ failed' = failed \cup ({"start"} \X bad)
    BY <1>4 DEF OnPodAdd
  <2>b. Build(p, annotations', token) \subseteq Config
    BY <2>1, BuildType DEF TypeOK
  <2>2. new \subseteq Config
    BY <2>a, <2>b, OneAnswer
  <2>3. PICK bad \in MayFail(new \ files) :
           /\ files' = Started(files, new, bad)
           /\ failed' = failed \cup ({"start"} \X bad)
    BY <2>a
  <2>4. bad \subseteq Config
    BY <2>2, <2>3, MayFailSubset
  <2>5. files' \subseteq Config /\ failed' \subseteq {"start", "stop"} \X Config
    BY <2>2, <2>3, <2>4 DEF TypeOK, Started
  <2>6. /\ pods' \in [UID -> Pod \cup {NoPod}]
        /\ \A u \in Cached' : pods'[u].uid = u
    BY <1>4 DEF OnPodAdd, TypeOK, Cached
  <2>7. token' \in Token \cup {NoToken}
    BY <1>4 DEF OnPodAdd, TypeOK
  <2>8. QED
    BY <2>1, <2>5, <2>6, <2>7 DEF TypeOK
<1>5. QED
  BY <1>1, <1>2, <1>3, <1>4 DEF Work

\* The state is well typed whatever the cluster sends and whatever fails.
THEOREM TypeCorrect == Spec => []TypeOK
<1>1. TypeOK /\ [Next]_vars => TypeOK'
  <2> SUFFICES ASSUME TypeOK, [Next]_vars PROVE TypeOK'
    OBVIOUS
  <2>1. ASSUME NEW p \in Delivered, Receive(p) PROVE TypeOK'
    BY <2>1, WorkType DEF Receive
  <2>2. ASSUME NEW t \in Token \cup {NoToken}, Rotate(t) PROVE TypeOK'
    BY <2>2 DEF Rotate, TypeOK, Cached
  <2>3. CASE UNCHANGED vars
    BY <2>3 DEF vars, TypeOK, Cached
  <2>4. QED
    BY <2>1, <2>2, <2>3 DEF Next
<1>2. QED
  BY TypeInit, <1>1, PTL DEF Spec

\* Whatever is shared, rotated or failing, only a deletion that comes without one of its
\* pod's indexes leaves metadata no known pod owns, and only under that index.
THEOREM StaleWhenLate == Spec => StaleOnlyWhenLate
<1> DEFINE Late(i) == \E p \in Delivered : i \notin p.idx /\ OnPodDelete(p)
           Kept == \A i \in Address : (Stale(i)' /\ ~Stale(i)) => Late(i)
<1>1. TypeOK /\ [Next]_vars => [Kept]_vars
  <2> SUFFICES ASSUME TypeOK, Next, NEW i \in Address, Stale(i)', ~Stale(i)
               PROVE  Late(i)
    OBVIOUS
  <2>1. ASSUME NEW p \in Delivered, Receive(p) PROVE Late(i)
    <3> p \in Pod /\ p.uid \in UID /\ p # NoPod
      BY StoreAssumption DEF Pod
    <3>1. CASE OnPodDelete(p)
      BY <3>1 DEF OnPodDelete, Unannotated, Stale
    <3>2. CASE p.uid \in Cached /\ OnPodUpdate(p)
      <4>1. /\ Cached' = Cached /\ pods'[p.uid] = p
            /\ \A u \in Cached \ {p.uid} : pods'[u] = pods[u]
        BY <3>2 DEF OnPodUpdate, TypeOK, Cached
      <4>2. i \notin p.idx
        BY <3>2, <4>1 DEF Stale
      <4>3. i \notin pods[p.uid].idx /\ annotations[i] # NoMeta
        BY <3>2, <4>2 DEF OnPodUpdate, Annotated, Unannotated, Stale
      <4>4. PICK u \in Cached : i \in pods[u].idx
        BY <4>3 DEF Stale
      <4>5. QED
        BY <4>1, <4>3, <4>4 DEF Stale
    <3>3. CASE Unchanged(p)
      BY <3>3 DEF Unchanged, vars, Stale, Cached
    <3>4. CASE p.uid \notin Cached /\ OnPodAdd(p)
      <4>1. /\ Cached' = Cached \cup {p.uid} /\ pods'[p.uid] = p
            /\ \A u \in Cached : pods'[u] = pods[u]
        BY <3>4 DEF OnPodAdd, TypeOK, Cached
      <4>2. annotations[i] # NoMeta
        BY <3>4, <4>1 DEF OnPodAdd, Annotated, Stale
      <4>3. PICK u \in Cached : i \in pods[u].idx
        BY <4>2 DEF Stale
      <4>4. QED
        BY <4>1, <4>3 DEF Stale
    <3>5. QED
      BY <2>1, <3>1, <3>2, <3>3, <3>4 DEF Receive, Work
  <2>2. ASSUME NEW t \in Token \cup {NoToken}, Rotate(t) PROVE Late(i)
    BY <2>2 DEF Rotate, Stale, Cached
  <2>3. QED
    BY <2>1, <2>2 DEF Next
<1>2. QED
  BY <1>1, TypeCorrect, PTL DEF Spec, StaleOnlyWhenLate
----
(* What exclusive addresses alone give, whatever happens to the token. *)

\* The inductive invariant: known pods claim different addresses, so an event of one
\* disturbs neither the metadata nor the configurations of another.
ApartInv == TypeOK /\ DisjointPods /\ FreshMetadata /\ EveryPodCollected

\* Every configuration a pod may be built to is on the endpoint it asks for.
LEMMA BuildWanted ==
    ASSUME NEW p, NEW ann, NEW tok, NEW c \in Build(p, ann, tok)
    PROVE  WantedEndpoints(p) = {EndpointOf(c)} /\ p.ask # NoAddress
BY DEF Build, WantedEndpoints, EndpointOf

\* A pod's configuration is on one of its own addresses, and of its own module.
LEMMA BuildHost ==
    ASSUME NEW p \in Pod, NEW ann, NEW tok, NEW c \in Build(p, ann, tok)
    PROVE  c.host \in Addresses(p) /\ c.spec = p.spec
BY DEF Build, Addresses

\* An event of p, and the maps it leaves alone outside p's indexes, disturb neither the
\* configurations nor the metadata of any other known pod u.
LEMMA OthersUnaffected ==
    ASSUME TypeOK, DisjointPods, ~SharedAddresses, NEW p \in Delivered, Isolated(p),
           NEW u \in Cached, u # p.uid, NEW ann,
           \A i \in Address :
              (i \notin p.idx /\ (p.uid \in Cached => i \notin pods[p.uid].idx))
              => ann[i] = annotations[i]
    PROVE  /\ \A t : Build(pods[u], ann, t) = Build(pods[u], annotations, t)
           /\ \A i \in pods[u].idx : ann[i] = annotations[i]
           /\ \A i \in Addresses(pods[u]) :
                 i \notin Addresses(p) /\ (p.uid \in Cached => i \notin Addresses(pods[p.uid]))
<1>1. pods[u] \in Pod /\ p \in Pod
  BY StoreAssumption DEF TypeOK, Cached
<1>2. Addresses(pods[u]) \cap Addresses(p) = {}
  BY DEF Isolated
<1>3. p.uid \in Cached => Addresses(pods[u]) \cap Addresses(pods[p.uid]) = {}
  BY DEF DisjointPods
<1>4. \A i \in Addresses(pods[u]) : i \in Address => ann[i] = annotations[i]
  BY <1>2, <1>3 DEF Addresses
<1>5. \A i \in pods[u].idx : ann[i] = annotations[i]
  BY <1>1, <1>4 DEF Addresses, Pod
<1>6. \A t : Build(pods[u], ann, t) = Build(pods[u], annotations, t)
  BY <1>1, <1>4 DEF Addresses, Pod, Build
<1>7. QED
  BY <1>2, <1>3, <1>5, <1>6

\* An event leaves every file in place that is not on an address of its pod, old or new.
LEMMA OthersFilesStay ==
    ASSUME TypeOK, NEW p \in Delivered, Work(p), NEW c \in files,
           c.host \notin Addresses(p),
           p.uid \in Cached => c.host \notin Addresses(pods[p.uid])
    PROVE  c \in files'
<1>1. p.uid \in Cached => pods[p.uid] \in Pod /\ c \notin Rebuilt(p.uid)
  BY BuildHost DEF Rebuilt, TypeOK, Cached
<1>2. CASE OnPodDelete(p)
  <2>1. PICK old \in IF p.uid \in Cached THEN OneOf(Rebuilt(p.uid)) ELSE {{}} :
        \E bad \in MayFail(old \cap files) : files' = Stopped(files, old, bad)
    BY <1>2 DEF OnPodDelete
  <2>2. c \notin old
    BY <1>1, <2>1, OneAnswer
  <2> QED BY <2>1, <2>2 DEF Stopped
<1>3. CASE p.uid \in Cached /\ OnPodUpdate(p)
  <2>1. PICK old \in OneOf(Rebuilt(p.uid)) :
        \E stuck : Stopped(files, old, stuck) \subseteq files'
    BY <1>3 DEF OnPodUpdate, Started
  <2>2. c \notin old
    BY <1>1, <1>3, <2>1, OneAnswer
  <2> QED BY <2>1, <2>2 DEF Stopped
<1>4. CASE Unchanged(p)
  BY <1>4 DEF Unchanged, vars
<1>5. CASE OnPodAdd(p)
  BY <1>5 DEF OnPodAdd, Started
<1> QED BY <1>2, <1>3, <1>4, <1>5 DEF Work

\* What an event does to the maps: a pod p that stays is known under its own metadata, and
\* outside the indexes of p, old and new, nothing changes.
LEMMA WorkOnMaps ==
    ASSUME TypeOK, NEW p \in Delivered, Work(p)
    PROVE  /\ \A u \in Cached' : u # p.uid => u \in Cached /\ pods'[u] = pods[u]
           /\ p.uid \in Cached' => Unchanged(p) \/ pods'[p.uid] = p
           /\ p.uid \in Cached' /\ ~Unchanged(p) => \A i \in p.idx : annotations'[i] = p.meta
           /\ \A i \in Address : (i \notin p.idx /\ (p.uid \in Cached => i \notin pods[p.uid].idx))
                                => annotations'[i] = annotations[i]
           /\ token' = token
<1> p \in Pod /\ p.uid \in UID /\ p # NoPod /\ p.idx \subseteq Address
  BY StoreAssumption DEF Pod
<1>1. CASE p.del /\ OnPodDelete(p)
  BY <1>1 DEF OnPodDelete, Unannotated, TypeOK, Cached
<1>2. CASE p.uid \in Cached /\ OnPodUpdate(p)
  BY <1>2 DEF OnPodUpdate, Annotated, Unannotated, TypeOK, Cached
<1>3. CASE Unchanged(p)
  BY <1>3 DEF Unchanged, vars, Cached
<1>4. CASE p.uid \notin Cached /\ OnPodAdd(p)
  BY <1>4 DEF OnPodAdd, Annotated, TypeOK, Cached
<1> QED BY <1>1, <1>2, <1>3, <1>4 DEF Work

\* One of the configurations a pod that was added or updated may be built to is deployed,
\* or the failure of its file was logged.
LEMMA WorkCollects ==
    ASSUME NEW p \in Pod, Work(p), ~Unchanged(p), ~p.del, p.ask # NoAddress
    PROVE  \E c \in Build(p, annotations', token) : c \in files' \/ <<"start", c>> \in failed'
<1>1. Build(p, annotations', token) # {}
  BY BuildSome
<1>2. CASE OnPodUpdate(p)
  <2>1. PICK old \in OneOf(Rebuilt(p.uid)), new \in OneOf(Build(p, annotations', token)) :
        \E stuck \in MayFail(old \cap files) :
        \E bad \in MayFail(new \ Stopped(files, old, stuck)) :
           /\ files' = Started(Stopped(files, old, stuck), new, bad)
           /\ failed' = failed \cup ({"stop"} \X stuck) \cup ({"start"} \X bad)
    BY <1>2 DEF OnPodUpdate
  <2>2. PICK c \in Build(p, annotations', token) : new = {c}
    BY <1>1, <2>1, OneAnswer
  <2> QED BY <2>1, <2>2 DEF Started
<1>3. CASE OnPodAdd(p)
  <2>1. PICK new \in OneOf(Build(p, annotations', token)) :
        \E bad \in MayFail(new \ files) :
           files' = Started(files, new, bad) /\ {"start"} \X bad \subseteq failed'
    BY <1>3 DEF OnPodAdd
  <2>2. PICK c \in Build(p, annotations', token) : new = {c}
    BY <1>1, <2>1, OneAnswer
  <2> QED BY <2>1, <2>2 DEF Started
<1> QED BY <1>2, <1>3 DEF Work

LEMMA FailedGrows == ASSUME NEW p \in Delivered, Work(p) PROVE failed \subseteq failed'
BY DEF Work, OnPodDelete, OnPodUpdate, OnPodAdd, Unchanged, vars

LEMMA WorkKeepsApart ==
    ASSUME ApartInv, ~SharedAddresses, NEW p \in Delivered, Isolated(p), Work(p)
    PROVE  ApartInv'
<1> USE DEF ApartInv
<1> p \in Pod /\ p.uid \in UID
  BY StoreAssumption DEF Pod
<1>1. TypeOK'
  BY WorkType
<1>2. CASE Unchanged(p)
  <2>1. UNCHANGED <<pods, annotations, files, failed, token>> /\ Cached' = Cached
    BY <1>2 DEF Unchanged, vars, Cached
  <2> QED BY <1>1, <2>1 DEF DisjointPods, FreshMetadata, EveryPodCollected
<1>3. CASE ~Unchanged(p)
  <2>1. /\ \A u \in Cached' : u # p.uid => u \in Cached /\ pods'[u] = pods[u]
        /\ p.uid \in Cached' => pods'[p.uid] = p /\ \A i \in p.idx : annotations'[i] = p.meta
        /\ \A u \in Cached \ {p.uid} : \A i \in pods[u].idx : annotations'[i] = annotations[i]
    BY <1>3, WorkOnMaps, OthersUnaffected
  <2>2. DisjointPods'
    BY <2>1 DEF DisjointPods, Isolated, Addresses
  <2>3. FreshMetadata'
    BY <2>1 DEF FreshMetadata
  <2>4. EveryPodCollected'
    <3> SUFFICES ASSUME NEW u \in Cached', pods'[u].ask # NoAddress
                 PROVE  \E t \in Token \cup {NoToken} : \E c \in Build(pods'[u], annotations', t) :
                           c \in files' \/ <<"start", c>> \in failed'
      BY DEF EveryPodCollected, Build
    <3>1. CASE u = p.uid
      <4>1. ~p.del /\ pods'[u] = p /\ token \in Token \cup {NoToken}
        BY <2>1, <3>1, <1>3 DEF Work, OnPodDelete, TypeOK, Cached
      <4> QED BY <1>3, <4>1, WorkCollects
    <3>2. CASE u # p.uid
      <4>1. u \in Cached /\ pods'[u] = pods[u] /\ pods[u] \in Pod
        BY <2>1, <3>2 DEF TypeOK, Cached
      <4>2. PICK t \in Token \cup {NoToken} : \E c \in Build(pods[u], annotations, t) :
               c \in files \/ <<"start", c>> \in failed
        BY <4>1 DEF EveryPodCollected
      <4>3. PICK c \in Build(pods[u], annotations, t) : c \in files \/ <<"start", c>> \in failed
        BY <4>2
      <4>4. /\ Build(pods[u], annotations', t) = Build(pods[u], annotations, t)
            /\ c.host \notin Addresses(p)
            /\ p.uid \in Cached => c.host \notin Addresses(pods[p.uid])
        BY <3>2, <4>1, WorkOnMaps, OthersUnaffected, BuildHost
      <4>5. c \in files' \/ <<"start", c>> \in failed'
        BY <4>3, <4>4, OthersFilesStay, FailedGrows
      <4> QED BY <4>1, <4>4, <4>5
    <3> QED BY <3>1, <3>2
  <2> QED BY <1>1, <2>2, <2>3, <2>4
<1> QED BY <1>2, <1>3

LEMMA ApartInductive ==
    ASSUME ApartInv, ~SharedAddresses, [Next]_vars
    PROVE  ApartInv'
<1>1. ASSUME NEW p \in Delivered, Receive(p) PROVE ApartInv'
  BY <1>1, WorkKeepsApart DEF Receive
<1>2. ASSUME NEW t \in Token \cup {NoToken}, Rotate(t) PROVE ApartInv'
  BY <1>2 DEF Rotate, ApartInv, TypeOK, DisjointPods, FreshMetadata, EveryPodCollected, Cached
<1>3. CASE UNCHANGED vars
  BY <1>3 DEF vars, ApartInv, TypeOK, DisjointPods, FreshMetadata, EveryPodCollected, Cached
<1> QED BY <1>1, <1>2, <1>3 DEF Next

LEMMA ApartInit == Init => ApartInv
<1> SUFFICES ASSUME Init PROVE ApartInv
  OBVIOUS
<1>1. Cached = {}
  BY DEF Init, Cached
<1> QED BY <1>1, TypeInit DEF ApartInv, DisjointPods, FreshMetadata, EveryPodCollected

LEMMA ApartInvariant == ASSUME ~SharedAddresses PROVE Spec => []ApartInv
<1>1. ApartInv /\ [Next]_vars => ApartInv'
  BY ApartInductive
<1> QED BY <1>1, ApartInit, PTL DEF Spec

\* GetMetaData answers with the known pod's own, latest metadata.
THEOREM MetadataIsFresh == ASSUME ~SharedAddresses PROVE Spec => []FreshMetadata
<1>1. ApartInv => FreshMetadata
  BY DEF ApartInv
<1> QED BY <1>1, ApartInvariant, PTL

\* Every known pod that asks for something has a configuration deployed with its current
\* metadata, or writing it was logged as failed: no event, whoever's it is, no rotation and
\* no order of the metric sets takes it away.
THEOREM Collected == ASSUME ~SharedAddresses PROVE Spec => []EveryPodCollected
<1>1. ApartInv => EveryPodCollected
  BY DEF ApartInv
<1> QED BY <1>1, ApartInvariant, PTL

LEMMA CollectedEndpoints == EveryPodCollected => EndpointCollected
<1> SUFFICES ASSUME EveryPodCollected, NEW u \in Cached, NEW e \in WantedEndpoints(pods[u])
             PROVE  \E c \in files \cup {f[2] : f \in failed} : EndpointOf(c) = e
  BY DEF EndpointCollected
<1>1. pods[u].ask # NoAddress
  BY DEF WantedEndpoints
<1>2. PICK t \in Token \cup {NoToken} : \E c \in Build(pods[u], annotations, t) :
         c \in files \/ <<"start", c>> \in failed
  BY <1>1 DEF EveryPodCollected
<1>3. PICK c \in Build(pods[u], annotations, t) : c \in files \/ <<"start", c>> \in failed
  BY <1>2
<1>4. EndpointOf(c) = e
  BY <1>3, BuildWanted
<1>5. c \in files \cup {f[2] : f \in failed}
  BY <1>3
<1> QED BY <1>4, <1>5

\* Every endpoint a known pod asks for is collected from, unless an error was logged, as
\* long as no two pods share an address.  The run podstore_reuse shows what happens when
\* they do.
THEOREM EndpointsCollected == ASSUME ~SharedAddresses PROVE Spec => []EndpointCollected
<1>1. ApartInv => EndpointCollected
  BY CollectedEndpoints DEF ApartInv
<1> QED BY <1>1, ApartInvariant, PTL

\* No event of one pod undeploys another's configuration.
THEOREM NoCollateral == ASSUME ~SharedAddresses PROVE Spec => NoCollateralStop
<1> DEFINE Apart == \A u \in Cached : pods'[u] = pods[u] => Rebuilt(u) \cap files \subseteq files'
<1>1. ApartInv /\ [Next]_vars => [Apart]_vars
  <2> SUFFICES ASSUME ApartInv, Next, NEW u \in Cached, pods'[u] = pods[u],
                      NEW c \in Rebuilt(u) \cap files
               PROVE  c \in files'
    OBVIOUS
  <2>1. ASSUME NEW p \in Delivered, Receive(p) PROVE c \in files'
    <3> p \in Pod /\ p.uid \in UID /\ p # NoPod
      BY StoreAssumption DEF Pod
    <3>1. Isolated(p) /\ Work(p)
      BY <2>1 DEF Receive
    <3>2. CASE u # p.uid
      <4>1. c.host \in Addresses(pods[u])
        BY BuildHost DEF Rebuilt, ApartInv, TypeOK, Cached
      <4>2. /\ c.host \notin Addresses(p)
            /\ p.uid \in Cached => c.host \notin Addresses(pods[p.uid])
        BY <3>1, <3>2, <4>1 DEF Isolated, DisjointPods, ApartInv
      <4> QED BY <3>1, <4>2, OthersFilesStay DEF ApartInv
    <3>3. CASE u = p.uid
      BY <3>1, <3>3 DEF Work, OnPodDelete, OnPodUpdate, Unchanged, vars, ApartInv, TypeOK, Cached
    <3> QED BY <3>2, <3>3
  <2>2. ASSUME NEW t \in Token \cup {NoToken}, Rotate(t) PROVE c \in files'
    BY <2>2 DEF Rotate
  <2> QED BY <2>1, <2>2 DEF Next
<1> QED BY <1>1, ApartInvariant, PTL DEF Spec, NoCollateralStop
----
(* What leaves a file behind. *)

\* Another pod's event keeps every configuration a known pod u may be rebuilt to.
LEMMA OthersRebuilt ==
    ASSUME ApartInv, ~SharedAddresses, NEW p \in Delivered, Isolated(p), Work(p),
           NEW u \in Cached, u # p.uid
    PROVE  u \in Cached' /\ Rebuilt(u)' = Rebuilt(u)
<1>1. u \in Cached' /\ pods'[u] = pods[u]
  BY DEF Work, OnPodDelete, OnPodUpdate, OnPodAdd, Unchanged, vars, ApartInv, TypeOK, Cached
<1>2. /\ \A i \in Address :
            (i \notin p.idx /\ (p.uid \in Cached => i \notin pods[p.uid].idx))
            => annotations'[i] = annotations[i]
      /\ token' = token
  BY WorkOnMaps DEF ApartInv
<1>3. Build(pods[u], annotations', token) = Build(pods[u], annotations, token)
  BY <1>2, OthersUnaffected DEF ApartInv
<1> QED BY <1>1, <1>2, <1>3 DEF Rebuilt

\* The configurations of one known pod, built twice with one token, differ at most in the
\* order of their metric sets.
LEMMA OrderedBuild ==
    ASSUME NEW p, SameOrder(p.spec), NEW ann, NEW tok,
           NEW c \in Build(p, ann, tok), NEW d \in Build(p, ann, tok)
    PROVE  c = d
<1>1. PICK l \in Listings[p.spec] :
         c = [host |-> p.ask, spec |-> p.spec, sets |-> l, meta |-> ann[p.ask],
              auth |-> IF p.spec \in Secured THEN tok ELSE NoToken]
  BY DEF Build
<1>2. PICK k \in Listings[p.spec] :
         d = [host |-> p.ask, spec |-> p.spec, sets |-> k, meta |-> ann[p.ask],
              auth |-> IF p.spec \in Secured THEN tok ELSE NoToken]
  BY DEF Build
<1>3. l = k
  BY DEF SameOrder
<1> QED BY <1>1, <1>2, <1>3

\* Stopping the runner of a pod removes its file, or logs the failure, unless its metric
\* sets are listed in another order.
LEMMA StopFinds ==
    ASSUME NEW p, NEW ann, NEW tok, NEW c \in Build(p, ann, tok), SameOrder(p.spec),
           NEW old \in OneOf(Build(p, ann, tok))
    PROVE  old = {c}
<1>1. PICK d \in Build(p, ann, tok) : old = {d}
  BY OneAnswer
<1>2. c = d
  BY <1>1, OrderedBuild
<1> QED BY <1>1, <1>2

\* A file an event deploys is one its pod may be rebuilt to.
LEMMA NewFiles ==
    ASSUME TypeOK, NEW p \in Delivered, Work(p), NEW c \in files', c \notin files
    PROVE  p.uid \in Cached' /\ c \in Rebuilt(p.uid)'
<1> p \in Pod /\ p.uid \in UID /\ p # NoPod
  BY StoreAssumption DEF Pod
<1>1. CASE OnPodDelete(p)
  BY <1>1 DEF OnPodDelete, Stopped
<1>2. CASE p.uid \in Cached /\ OnPodUpdate(p)
  <2>1. PICK new \in OneOf(Build(p, annotations', token)), fs \in SUBSET files :
        \E bad : files' = Started(fs, new, bad)
    BY <1>2 DEF OnPodUpdate, Stopped
  <2>2. c \in Build(p, annotations', token)
    BY <2>1, OneAnswer DEF Started
  <2>3. pods'[p.uid] = p /\ token' = token /\ p.uid \in Cached'
    BY <1>2 DEF OnPodUpdate, TypeOK, Cached
  <2> QED BY <2>2, <2>3 DEF Rebuilt
<1>3. CASE Unchanged(p)
  BY <1>3 DEF Unchanged, vars
<1>4. CASE OnPodAdd(p)
  <2>1. PICK new \in OneOf(Build(p, annotations', token)) :
        \E bad : files' = Started(files, new, bad)
    BY <1>4 DEF OnPodAdd
  <2>2. c \in Build(p, annotations', token)
    BY <2>1, OneAnswer DEF Started
  <2>3. pods'[p.uid] = p /\ token' = token /\ p.uid \in Cached'
    BY <1>4 DEF OnPodAdd, TypeOK, Cached
  <2> QED BY <2>2, <2>3 DEF Rebuilt
<1> QED BY <1>1, <1>2, <1>3, <1>4 DEF Work

\* What makes a file an orphan.
Rotated(c) == c.spec \in Secured /\ token' # token
Reordered(c) ==
    ~SameOrder(c.spec) /\ \E u \in Cached : c.host \in Addresses(pods[u]) /\ pods'[u] # pods[u]

\* The event of a pod p orphans only a file of its own, of unordered metric sets.
LEMMA WorkOrphans ==
    ASSUME ApartInv, ~SharedAddresses, NEW p \in Delivered, Isolated(p), Work(p),
           NEW c, Orphan(c)', ~Orphan(c)
    PROVE  Reordered(c)
<1> p \in Pod /\ p.uid \in UID /\ p # NoPod
  BY StoreAssumption DEF Pod
<1>1. CASE Unchanged(p)
  BY <1>1 DEF Unchanged, vars, Orphan, Cached, Rebuilt
<1>2. CASE ~Unchanged(p)
  <2>1. c \in files' /\ <<"stop", c>> \notin failed'
    BY DEF Orphan
  <2>2. c \in files
    <3>1. p.uid \notin Cached' \/ c \notin Rebuilt(p.uid)'
      BY DEF Orphan
    <3> QED BY <2>1, <3>1, NewFiles DEF ApartInv
  <2>3. PICK u \in Cached : c \in Rebuilt(u)
    BY <2>1, <2>2, FailedGrows DEF Orphan
  <2>4. u = p.uid
    <3>1. u # p.uid => u \in Cached' /\ c \in Rebuilt(u)'
      BY <2>3, OthersRebuilt
    <3>2. ~(u \in Cached' /\ c \in Rebuilt(u)')
      BY DEF Orphan
    <3> QED BY <3>1, <3>2
  <2>5. pods[u] \in Pod /\ c.host \in Addresses(pods[u]) /\ c.spec = pods[u].spec
    BY <2>3, BuildHost DEF Rebuilt, ApartInv, TypeOK, Cached
  <2>6. pods'[u] # pods[u]
    BY <1>2, <2>4, <2>5 DEF Work, OnPodDelete, OnPodUpdate, OnPodAdd, Unchanged,
                            ApartInv, TypeOK, Cached
  <2>7. ASSUME SameOrder(c.spec) PROVE FALSE
    <3>1. CASE OnPodDelete(p)
      <4>1. PICK old \in OneOf(Rebuilt(u)) : \E bad \in MayFail(old \cap files) :
               /\ files' = Stopped(files, old, bad)
               /\ failed' = failed \cup ({"stop"} \X bad)
        BY <2>3, <2>4, <3>1 DEF OnPodDelete
      <4>2. old = {c}
        BY <2>3, <2>5, <2>7, <4>1, StopFinds DEF Rebuilt
      <4> QED BY <2>1, <4>1, <4>2 DEF Stopped
    <3>2. CASE OnPodUpdate(p)
      <4>1. PICK old \in OneOf(Rebuilt(u)), new \in OneOf(Build(p, annotations', token)) :
            \E stuck \in MayFail(old \cap files) :
            \E bad \in MayFail(new \ Stopped(files, old, stuck)) :
               /\ files' = Started(Stopped(files, old, stuck), new, bad)
               /\ failed' = failed \cup ({"stop"} \X stuck) \cup ({"start"} \X bad)
        BY <2>4, <3>2 DEF OnPodUpdate
      <4>2. old = {c}
        BY <2>3, <2>5, <2>7, <4>1, StopFinds DEF Rebuilt
      <4>3. c \notin new
        <5>1. u \in Cached' /\ pods'[u] = p /\ token' = token
          BY <2>3, <2>4, <3>2 DEF OnPodUpdate, ApartInv, TypeOK, Cached
        <5>2. c \notin Build(p, annotations', token)
          BY <5>1 DEF Orphan, Rebuilt
        <5> QED BY <4>1, <5>2, OneAnswer
      <4> QED BY <2>1, <4>1, <4>2, <4>3 DEF Stopped, Started
    <3> QED BY <1>2, <2>3, <2>4, <3>1, <3>2 DEF Work
  <2> QED BY <2>3, <2>5, <2>6, <2>7 DEF Reordered
<1> QED BY <1>1, <1>2

\* A rotation orphans only files that take the token.
LEMMA RotationOrphans ==
    ASSUME NEW t \in Token \cup {NoToken}, Rotate(t), NEW c, Orphan(c)', ~Orphan(c)
    PROVE  Rotated(c)
<1>1. UNCHANGED <<pods, annotations, files, failed>> /\ Cached' = Cached
  BY DEF Rotate, Cached
<1>2. PICK u \in Cached : c \in Rebuilt(u) /\ c \notin Rebuilt(u)'
  BY <1>1 DEF Orphan
<1>3. c.spec = pods[u].spec
  BY <1>2 DEF Rebuilt, Build
<1>4. token' # token /\ pods[u].spec \in Secured
  BY <1>1, <1>2 DEF Rebuilt, Build
<1> QED BY <1>3, <1>4 DEF Rotated

LEMMA StepOrphans ==
    ASSUME ApartInv, ~SharedAddresses, [Next]_vars, NEW c, Orphan(c)', ~Orphan(c)
    PROVE  Rotated(c) \/ Reordered(c)
<1>1. CASE UNCHANGED vars
  BY <1>1 DEF vars, Orphan, Cached, Rebuilt
<1>2. ASSUME NEW p \in Delivered, Receive(p) PROVE Reordered(c)
  BY <1>2, WorkOrphans DEF Receive
<1> QED BY <1>1, <1>2, RotationOrphans DEF Next

\* Where pods do not share addresses, a file is left behind in silence only by a change of
\* the token it takes, or by an event of its own pod that lists its metric sets in another
\* order (builders.go:84-114, metrics_annotations.go:182-199, appender/auth/auth.go).
THEOREM OrphansByCause == ASSUME ~SharedAddresses PROVE Spec => OrphansHaveCause
<1> DEFINE Caused == \A c \in Config : Orphan(c)' /\ ~Orphan(c) =>
              \/ c.spec \in Secured /\ token' # token
              \/ ~SameOrder(c.spec) /\ \E u \in Cached : c.host \in Addresses(pods[u]) /\ pods'[u] # pods[u]
<1>1. ApartInv /\ [Next]_vars => [Caused]_vars
  BY StepOrphans DEF Rotated, Reordered
<1> QED BY <1>1, ApartInvariant, PTL DEF Spec, OrphansHaveCause
----
(* Files of stable modules. *)

\* A module whose configuration is a function of its pod.
Stable(m) == SameOrder(m) /\ m \notin Secured

\* Every file of a stable module will be found, and removed, when its pod goes away.
NoOrphanConfig == \A c : Orphan(c) => ~Stable(c.spec)

StoreInv == ApartInv /\ NoOrphanConfig

LEMMA StoreInvInductive ==
    ASSUME ~SharedAddresses, StoreInv, [Next]_vars
    PROVE  StoreInv'
<1>1. ApartInv'
  BY ApartInductive DEF StoreInv
<1>2. ASSUME NEW c, Orphan(c)' PROVE ~Stable(c.spec)
  <2>1. Orphan(c) \/ Rotated(c) \/ Reordered(c)
    BY <1>2, StepOrphans DEF StoreInv
  <2> QED BY <2>1 DEF StoreInv, NoOrphanConfig, Rotated, Reordered, Stable
<1>3. NoOrphanConfig'
  BY <1>2 DEF NoOrphanConfig, Stable, SameOrder
<1> QED BY <1>1, <1>3 DEF StoreInv

LEMMA StoreInvInit == Init => StoreInv
<1> SUFFICES ASSUME Init PROVE StoreInv
  OBVIOUS
<1>1. files = {}
  BY DEF Init
<1> QED BY <1>1, ApartInit DEF StoreInv, NoOrphanConfig, Orphan

LEMMA StoreInvariant == ASSUME ~SharedAddresses PROVE Spec => []StoreInv
<1>1. StoreInv /\ [Next]_vars => StoreInv'
  BY StoreInvInductive
<1>2. QED
  BY StoreInvInit, <1>1, PTL DEF Spec
----
(* PodStore implements Collection. *)

Collects == {EndpointOf(c) : c \in files}
Reports == {EndpointOf(e[2]) : e \in failed}
UnstableEndpoints == {e \in [host : Address, spec : Module] : e.spec \in Secured \/ ~SameOrder(e.spec)}

\* In a safe state, what is collected and what the known pods ask for differ at most by
\* the endpoints an error was logged about, and by unstable ones that stay too long.
Faithful ==
    /\ Outside!AllWanted(pods) \ Collects \subseteq Reports
    /\ Collects \ Outside!AllWanted(pods) \subseteq Reports \cup UnstableEndpoints

LEMMA WantedByKnown == Outside!AllWanted(pods) = UNION {WantedEndpoints(pods[u]) : u \in Cached}
BY DEF Outside!AllWanted, Cached

LEMMA CollectsWhatIsWanted == StoreInv => Faithful
<1> SUFFICES ASSUME StoreInv PROVE Faithful
  OBVIOUS
<1>1. ASSUME NEW c \in files, EndpointOf(c) \notin Outside!AllWanted(pods)
      PROVE  EndpointOf(c) \in Reports \cup UnstableEndpoints
  <2>1. \A u \in Cached : c \notin Rebuilt(u)
    BY <1>1, WantedByKnown, BuildWanted DEF Rebuilt
  <2>2. <<"stop", c>> \in failed \/ Orphan(c)
    BY <2>1 DEF Orphan
  <2>3. CASE <<"stop", c>> \in failed
    BY <2>3 DEF Reports
  <2>4. CASE Orphan(c)
    <3>1. ~Stable(c.spec) /\ c \in Config
      BY <2>4 DEF StoreInv, NoOrphanConfig, ApartInv, TypeOK
    <3>2. EndpointOf(c) \in [host : Address, spec : Module] /\ EndpointOf(c).spec = c.spec
      BY <3>1 DEF EndpointOf, Config
    <3> QED BY <3>1, <3>2 DEF UnstableEndpoints, Stable
  <2> QED BY <2>2, <2>3, <2>4
<1>2. ASSUME NEW e \in Outside!AllWanted(pods), e \notin Collects
      PROVE  e \in Reports
  <2>1. PICK u \in Cached : e \in WantedEndpoints(pods[u])
    BY <1>2, WantedByKnown
  <2>2. PICK c \in files \cup {f[2] : f \in failed} : EndpointOf(c) = e
    BY <2>1, CollectedEndpoints DEF EndpointCollected, StoreInv, ApartInv
  <2>3. c \notin files
    BY <1>2, <2>2 DEF Collects
  <2> QED BY <2>2, <2>3 DEF Reports
<1> QED BY <1>1, <1>2 DEF Faithful, Collects

\* The news an event brings, as Collection sees it.
LEMMA WorkHears ==
    ASSUME StoreInv, StoreInv', NEW p \in Delivered, Work(p)
    PROVE  Outside!CNext \/ UNCHANGED Outside!cvars
<1> p \in Pod /\ p.uid \in UID /\ p # NoPod
  BY StoreAssumption DEF Pod
<1> DEFINE reported == {EndpointOf(e[2]) : e \in failed}
           collected == {EndpointOf(c) : c \in files}
           Endpoints == [host : Address, spec : Module]
<1>1. collected' \subseteq Endpoints /\ reported' \subseteq Endpoints
  BY DEF StoreInv, ApartInv, TypeOK, EndpointOf, Config
<1>2. /\ Outside!AllWanted(pods') \ collected' \subseteq reported'
      /\ collected' \ Outside!AllWanted(pods') \subseteq reported' \cup UnstableEndpoints
  <2>1. Faithful'
    BY CollectsWhatIsWanted, PTL
  <2>2. QED
    BY <2>1 DEF Faithful, Collects, Reports, UnstableEndpoints, SameOrder, Outside!AllWanted
<1>3. collected' \ collected \subseteq Outside!AllWanted(pods')
  <2> SUFFICES ASSUME NEW c \in files', EndpointOf(c) \notin collected
               PROVE  EndpointOf(c) \in Outside!AllWanted(pods')
    OBVIOUS
  <2>1. p.uid \in Cached' /\ c \in Build(pods'[p.uid], annotations', token')
    BY NewFiles DEF StoreInv, ApartInv, Rebuilt, Build
  <2>2. EndpointOf(c) \in WantedEndpoints(pods'[p.uid])
    BY <2>1, BuildWanted
  <2> QED BY <2>1, <2>2 DEF Outside!AllWanted, Cached
<1>4. CASE Unchanged(p)
  BY <1>4 DEF Unchanged, vars, Outside!cvars
<1>5. ASSUME NEW x \in Delivered \cup {NoPod}, pods' = [pods EXCEPT ![p.uid] = x],
             failed \subseteq failed'
      PROVE  Outside!CNext
  BY <1>1, <1>2, <1>3, <1>5 DEF Outside!CNext, Outside!Hear, UnstableEndpoints
<1>6. CASE OnPodDelete(p)
  BY <1>5, <1>6 DEF OnPodDelete
<1>7. CASE OnPodUpdate(p)
  BY <1>5, <1>7 DEF OnPodUpdate
<1>8. CASE OnPodAdd(p)
  BY <1>5, <1>8 DEF OnPodAdd
<1>9. QED
  BY <1>4, <1>6, <1>7, <1>8 DEF Work

\* Seen from outside, the store collects from what the pods it knows ask for, up to logged
\* errors and to the unstable endpoints of pods that were there before.
THEOREM Refinement == ASSUME ~SharedAddresses PROVE Spec => KeepsPromise
<1>1. Init => Outside!CInit
  BY DEF Init, Outside!CInit
<1>2. StoreInv /\ StoreInv' /\ [Next]_vars => [Outside!CNext]_(Outside!cvars)
  <2> SUFFICES ASSUME StoreInv, StoreInv', [Next]_vars
               PROVE  Outside!CNext \/ UNCHANGED Outside!cvars
    OBVIOUS
  <2>1. ASSUME NEW p \in Delivered, Receive(p)
        PROVE  Outside!CNext \/ UNCHANGED Outside!cvars
    BY <2>1, WorkHears DEF Receive
  <2>2. ASSUME NEW t \in Token \cup {NoToken}, Rotate(t)
        PROVE  UNCHANGED Outside!cvars
    BY <2>2 DEF Rotate, Outside!cvars
  <2>3. CASE UNCHANGED vars
    BY <2>3 DEF vars, Outside!cvars
  <2>4. QED
    BY <2>1, <2>2, <2>3 DEF Next
<1>3. QED
  BY <1>1, <1>2, StoreInvariant, PTL DEF Spec, KeepsPromise, Outside!CSpec

\* Until an error is logged, every endpoint the known pods ask for is collected from, and
\* what is collected from besides is of a secured module or of one whose metric sets are
\* listed in no fixed order.
ExactUntilError ==
    failed = {} =>
        /\ Outside!AllWanted(pods) \subseteq Collects
        /\ \A c \in files : Stable(c.spec) => EndpointOf(c) \in Outside!AllWanted(pods)

\* So endpoints of stable modules are collected from exactly while a pod asks for them.
THEOREM CollectsExactly == ASSUME ~SharedAddresses PROVE Spec => []ExactUntilError
<1>1. StoreInv => ExactUntilError
  <2> SUFFICES ASSUME StoreInv, failed = {}
               PROVE  /\ Outside!AllWanted(pods) \subseteq Collects
                      /\ \A c \in files : Stable(c.spec) => EndpointOf(c) \in Outside!AllWanted(pods)
    BY DEF ExactUntilError
  <2>1. Reports = {} /\ Faithful
    BY CollectsWhatIsWanted DEF Reports
  <2>2. ASSUME NEW c \in files, Stable(c.spec), EndpointOf(c) \notin Outside!AllWanted(pods)
        PROVE  FALSE
    <3>1. EndpointOf(c) \in UnstableEndpoints
      BY <2>1, <2>2 DEF Faithful, Collects
    <3> QED BY <2>2, <3>1 DEF UnstableEndpoints, EndpointOf, Stable
  <2> QED BY <2>1, <2>2 DEF Faithful
<1>2. QED
  BY <1>1, StoreInvariant, PTL
====
