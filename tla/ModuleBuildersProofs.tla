---- MODULE ModuleBuildersProofs ----
(***************************************************************************)
(* For any pods, annotations, Secrets and tokens: what is deployed is what *)
(* the builders would answer now for the known pods, each container is     *)
(* read once, and events disturb no more than they have to.  All of it     *)
(* rests on two facts.  Two known pods have no list in common but one that *)
(* names no log file at all, because any other configuration names an      *)
(* address and port, or a container id, that no other known pod has.  And  *)
(* what a rebuilt answer misses is a list whose metric sets are reordered. *)
(***************************************************************************)
EXTENDS ModuleBuilders, FiniteSetTheorems, TLAPS

\* Where a configuration of p reads from.
Polls(p, x) ==
    /\ "hosts" \in DOMAIN x /\ "path" \notin DOMAIN x
    /\ \A j \in DOMAIN x.hosts : /\ x.hosts[j] \in Host
                                 /\ x.hosts[j].ip = p.ip
                                 /\ x.hosts[j].ep.port \in p.spec.ports
    /\ DOMAIN x.hosts # {} /\ p.ip # NoIP

Tails(p, x) ==
    /\ "hosts" \notin DOMAIN x /\ "path" \in DOMAIN x
    /\ \E c \in Container : p.cids[c] \notin Bare \cup {NoCID} /\ x.path = p.cids[c]

Blind(x) == "hosts" \notin DOMAIN x /\ "path" \in DOMAIN x /\ x.path = NoPath

\* Two pods that share neither a port of an address nor a container id.
Apart(p, q) ==
    /\ p.ip # q.ip \/ p.ip = NoIP \/ p.spec.ports \cap q.spec.ports = {}
    /\ \A c, d \in Container : p.cids[c] = q.cids[d] => p.cids[c] = NoCID

PodsApart ==
    /\ \A n \in Known : pods[n].name = n
    /\ \A m, n \in Known : m # n => Apart(pods[m], pods[n])
    /\ \A n \in Known : \A c, d \in Container :
          c # d /\ pods[n].cids[c] = pods[n].cids[d] => pods[n].cids[c] = NoCID

Typed ==
    /\ pods \in [Name -> Pod \cup {NoPod}]
    /\ secret \in Secrets
    /\ token \in Token \cup {NoToken}

\* The first half of FilesMatchPods, for one pod, when fs is deployed.
Deployed(fs, n) ==
    /\ \A l \in {SecretList(pods[n]), LogList(pods[n])} : l \in fs \/ Pathless(l)
    /\ MetricsLists(pods[n]) \cap (fs \cup {<<>>}) # {}

\* The files of BTypeOK, and that a list which may stay behind reads no logs.
FilesTyped ==
    \A l \in files :
       /\ l # <<>>
       /\ \A i \in DOMAIN l :
             IF "hosts" \in DOMAIN l[i]
             THEN \A j \in DOMAIN l[i].hosts : l[i].hosts[j] \in Host
             ELSE l[i].path \in (CID \ Bare) \cup {NoPath}
       /\ Reordered(l) => \A i \in DOMAIN l : "path" \notin DOMAIN l[i]

BInv == Typed /\ FilesTyped /\ PodsApart /\ FilesMatchPods
----
(* The lists of a pod *)

LEMMA ContainersIndexed ==
    /\ \A i \in DOMAIN Statuses : Statuses[i] \in Container
    /\ \A c \in Container : \E i \in DOMAIN Statuses : Statuses[i] = c
BY DEF Container

LEMMA HostsPoll ==
    ASSUME NEW p \in Pod, NEW l \in MetricsLists(p), l # <<>>
    PROVE  DOMAIN l = {1} /\ Polls(p, l[1])
<1> DEFINE hosts == Hosts(p)
           x == l[1]
<1>1. MetricsWanted(p)
  BY DEF MetricsLists
<1>2. p.ip \in IP /\ p.spec \in Specs /\ p.spec \in Annotated
  BY <1>1, BuildersAssumption DEF MetricsWanted, Pod
<1>3. p.spec.eps \in Seq(Endpoint \cup {Blank}) /\ p.spec.scheme \in BOOLEAN
  BY <1>2 DEF Annotated
<1>4. \A j \in DOMAIN hosts : hosts[j] \in Host /\ hosts[j].ip = p.ip
                              /\ hosts[j].ep.port \in p.spec.ports
  <2> SUFFICES ASSUME NEW j \in DOMAIN hosts
               PROVE  hosts[j] \in Host /\ hosts[j].ip = p.ip /\ hosts[j].ep.port \in p.spec.ports
    OBVIOUS
  <2>1. j \in DOMAIN p.spec.eps /\ p.spec.eps[j] # Blank
        /\ hosts[j] = HostAt(p, p.spec.scheme, p.spec.eps[j])
    BY DEF Hosts
  <2>2. p.spec.eps[j] \in Endpoint
    BY <1>3, <2>1
  <2>3. p.spec.eps[j].port \in p.spec.ports
    BY <1>2, <2>1, BuildersAssumption
  <2> QED BY <1>2, <1>3, <2>1, <2>2, <2>3 DEF Host, HostAt
<1>5. DOMAIN hosts # {}
  <2>1. hosts # <<>>
    BY <1>1 DEF MetricsWanted
  <2>2. DOMAIN hosts = {j \in DOMAIN p.spec.eps : p.spec.eps[j] # Blank}
    BY DEF Hosts
  <2>3. ASSUME DOMAIN hosts = {} PROVE hosts = <<>>
    BY <2>2, <2>3 DEF Hosts
  <2> QED BY <2>1, <2>3
<1>6. DOMAIN l = {1} /\ "hosts" \in DOMAIN x /\ "path" \notin DOMAIN x
      /\ x.hosts = hosts
  BY <1>1 DEF MetricsLists
<1> QED BY <1>2, <1>4, <1>5, <1>6, BuildersAssumption DEF Polls

LEMMA SecretPolls ==
    ASSUME NEW p \in Pod, secret \in Secrets, SecretList(p) # <<>>
    PROVE  \A i \in DOMAIN SecretList(p) : Polls(p, SecretList(p)[i])
<1>1. p.ip # NoIP /\ p.spec.secret
      /\ SecretList(p) = [i \in DOMAIN secret |->
           LET m == secret[i] hosts == AppliedHosts(p, m) IN
           [module |-> m.type, hosts |-> hosts, namespace |-> m.ns,
            meta |-> HostMeta(p, hosts[1]), headers |-> Headers(m.type, m.ns)]]
  BY DEF SecretList
<1>2. p.ip \in IP /\ p.spec \in Specs /\ secret \in Seq(Module)
  BY <1>1, BuildersAssumption DEF Pod
<1> SUFFICES ASSUME NEW i \in DOMAIN secret PROVE Polls(p, SecretList(p)[i])
  BY <1>1
<1> DEFINE m == secret[i]
           x == SecretList(p)[i]
<1>3. m \in Module /\ m.eps \in Seq(Endpoint)
  <2>1. m \in Module
    BY <1>2
  <2> QED BY <2>1 DEF Module
<1>4. m.eps # <<>> /\ \A j \in DOMAIN m.eps : m.eps[j].port \in p.spec.ports
  <2>1. p.spec.secret
    BY <1>1
  <2>2. \A s \in Specs, ms \in Secrets : s.secret =>
           \A k \in DOMAIN ms : ms[k].eps # <<>> /\
              \A j \in DOMAIN ms[k].eps : ms[k].eps[j].port \in s.ports
    BY BuildersAssumption
  <2>3. \A k \in DOMAIN secret : secret[k].eps # <<>> /\
           \A j \in DOMAIN secret[k].eps : secret[k].eps[j].port \in p.spec.ports
    BY <1>2, <2>1, <2>2
  <2> QED BY <2>3
<1>5. "hosts" \in DOMAIN x /\ "path" \notin DOMAIN x /\ x.hosts = AppliedHosts(p, m)
  BY <1>1
<1>6. DOMAIN x.hosts = DOMAIN m.eps /\ \A j \in DOMAIN m.eps : x.hosts[j] = HostAt(p, FALSE, m.eps[j])
  BY <1>5 DEF AppliedHosts
<1>7. DOMAIN m.eps # {}
  BY <1>3, <1>4
<1>8. \A j \in DOMAIN m.eps : m.eps[j] \in Endpoint
  BY <1>3
<1>9. \A j \in DOMAIN x.hosts : /\ x.hosts[j] \in Host
                                /\ x.hosts[j].ip = p.ip
                                /\ x.hosts[j].ep.port \in p.spec.ports
  <2> SUFFICES ASSUME NEW j \in DOMAIN m.eps
               PROVE  LET h == HostAt(p, FALSE, m.eps[j]) IN
                      h \in Host /\ h.ip = p.ip /\ h.ep.port \in p.spec.ports
    BY <1>6
  <2> QED BY <1>2, <1>4, <1>8 DEF Host, HostAt
<1> QED BY <1>1, <1>5, <1>6, <1>7, <1>9 DEF Polls

LEMMA ProspectorsTail ==
    ASSUME NEW p \in Pod
    PROVE  \A i \in DOMAIN LogList(p) : Tails(p, LogList(p)[i]) \/ Blind(LogList(p)[i])
<1> SUFFICES ASSUME NEW i \in DOMAIN LogList(p)
             PROVE  Tails(p, LogList(p)[i]) \/ Blind(LogList(p)[i])
  OBVIOUS
<1>1. i \in DOMAIN Statuses /\ Tailed(p, Statuses[i])
      /\ LogList(p)[i] = Prospector(p, Statuses[i])
  BY DEF LogList
<1>2. Statuses[i] \in Container
  BY <1>1, ContainersIndexed
<1>3. CASE p.cids[Statuses[i]] \in Bare
  BY <1>1, <1>3 DEF Blind, Prospector
<1>4. CASE p.cids[Statuses[i]] \notin Bare
  BY <1>1, <1>2, <1>4 DEF Tails, Tailed, Prospector
<1> QED BY <1>3, <1>4

LEMMA AnyOfIs ==
    ASSUME NEW p, NEW l
    PROVE  /\ l \in AnyOf(p) => l # <<>> /\ (l \in MetricsLists(p) \/ l = SecretList(p)
                                                                  \/ l = LogList(p))
           /\ l # <<>> /\ l \in MetricsLists(p) => l \in AnyOf(p)
           /\ l # <<>> /\ MetricsLists(p) # {} /\ (l = SecretList(p) \/ l = LogList(p))
                => l \in AnyOf(p)
BY DEF AnyOf, Lists

LEMMA AnswerIs ==
    ASSUME NEW p, NEW ls \in Lists(p)
    PROVE  /\ ls \subseteq AnyOf(p)
           /\ \A l \in {SecretList(p), LogList(p)} : l # <<>> => l \in ls
           /\ \E m \in MetricsLists(p) : m # <<>> => m \in ls
BY DEF AnyOf, Lists

LEMMA ListsRead ==
    ASSUME NEW p \in Pod, secret \in Secrets, NEW l \in AnyOf(p)
    PROVE  /\ l # <<>>
           /\ \A i \in DOMAIN l : Polls(p, l[i]) \/ Tails(p, l[i]) \/ Blind(l[i])
           /\ l # LogList(p) => DOMAIN l # {} /\ \A i \in DOMAIN l : Polls(p, l[i])
<1>1. l # <<>> /\ (l \in MetricsLists(p) \/ l = SecretList(p) \/ l = LogList(p))
  BY AnyOfIs
<1>2. l \in MetricsLists(p) => DOMAIN l # {} /\ \A i \in DOMAIN l : Polls(p, l[i])
  BY <1>1, HostsPoll
<1>3. l = SecretList(p) => DOMAIN l # {} /\ \A i \in DOMAIN l : Polls(p, l[i])
  <2> SUFFICES ASSUME l = SecretList(p) PROVE DOMAIN l # {}
    BY <1>1, SecretPolls
  <2>1. l = [i \in DOMAIN secret |-> l[i]]
    BY <1>1 DEF SecretList
  <2>2. DOMAIN l = {} => l = <<>>
    BY <2>1
  <2> QED BY <1>1, <2>2
<1>4. l = LogList(p) => \A i \in DOMAIN l : Tails(p, l[i]) \/ Blind(l[i])
  BY ProspectorsTail
<1> QED BY <1>1, <1>2, <1>3, <1>4

LEMMA MetricsHavePaths ==
    ASSUME NEW p \in Pod, NEW l \in MetricsLists(p), l # <<>>
    PROVE  ~Pathless(l)
BY HostsPoll DEF Polls, Pathless

LEMMA ListsApart ==
    ASSUME NEW p \in Pod, NEW q \in Pod, secret \in Secrets, Apart(p, q),
           NEW l \in AnyOf(p), l \in AnyOf(q)
    PROVE  Pathless(l)
<1> SUFFICES ASSUME NEW i \in DOMAIN l, ~("path" \in DOMAIN l[i] /\ l[i].path = NoPath)
             PROVE  FALSE
  BY DEF Pathless
<1>1. ~Blind(l[i])
  BY DEF Blind
<1>2. Polls(p, l[i]) \/ Tails(p, l[i])
  BY <1>1, ListsRead
<1>3. Polls(q, l[i]) \/ Tails(q, l[i])
  BY <1>1, ListsRead
<1>4. CASE Polls(p, l[i]) /\ Polls(q, l[i])
  BY <1>4 DEF Polls, Apart
<1>5. CASE Tails(p, l[i]) /\ Tails(q, l[i])
  BY <1>5 DEF Tails, Apart
<1> QED BY <1>2, <1>3, <1>4, <1>5 DEF Polls, Tails

\* What an answer leaves out of what the builders may answer for the same pod.
LEMMA LeftOut ==
    ASSUME NEW p \in Pod, NEW ls \in Lists(p), NEW l \in AnyOf(p), l \notin ls
    PROVE  Reordered(l)
<1>1. l # <<>> /\ l \in MetricsLists(p)
  BY AnyOfIs, AnswerIs
<1>2. PICK m \in MetricsLists(p) : m # <<>> => m \in ls
  BY AnswerIs
<1>3. MetricsWanted(p)
  BY <1>1 DEF MetricsLists
<1>4. PICK s \in MetricSets(p) :
         l = <<[module |-> p.spec.type, metricsets |-> s, hosts |-> Hosts(p),
                namespace |-> p.spec.ns, meta |-> HostMeta(p, FirstHost(p)),
                headers |-> Headers(p.spec.type, p.spec.ns)]>>
  BY <1>1, <1>3 DEF MetricsLists
<1>5. PICK t \in MetricSets(p) :
         m = <<[module |-> p.spec.type, metricsets |-> t, hosts |-> Hosts(p),
                namespace |-> p.spec.ns, meta |-> HostMeta(p, FirstHost(p)),
                headers |-> Headers(p.spec.type, p.spec.ns)]>>
  BY <1>2, <1>3 DEF MetricsLists
<1>6. m # <<>>
  BY <1>5
<1>7. s # t
  BY <1>2, <1>4, <1>5, <1>6
<1>8. MetricSets(p) = SetToSeqs(RegisteredSets[p.spec.type])
  <2>1. \A x : MetricSets(p) # {x}
    BY <1>7
  <2> QED BY <2>1 DEF MetricSets
<1>9. DOMAIN l = {1} /\ "metricsets" \in DOMAIN l[1] /\ l[1].metricsets = s
      /\ l[1].module = p.spec.type
  BY <1>4
<1>10. s \in SetToSeqs(RegisteredSets[l[1].module]) /\ t \in SetToSeqs(RegisteredSets[l[1].module])
  BY <1>8, <1>9
<1> HIDE DEF SetToSeqs
<1> QED BY <1>7, <1>9, <1>10 DEF Reordered

LEMMA AnyOfTyped ==
    ASSUME NEW p \in Pod, secret \in Secrets, NEW l \in AnyOf(p)
    PROVE  /\ l # <<>>
           /\ \A i \in DOMAIN l :
                 IF "hosts" \in DOMAIN l[i]
                 THEN \A j \in DOMAIN l[i].hosts : l[i].hosts[j] \in Host
                 ELSE l[i].path \in (CID \ Bare) \cup {NoPath}
           /\ Reordered(l) => \A i \in DOMAIN l : "path" \notin DOMAIN l[i]
<1>1. p.cids \in [Container -> CID \cup {NoCID}]
  BY DEF Pod
<1>2. l # <<>> /\ \A i \in DOMAIN l : Polls(p, l[i]) \/ Tails(p, l[i]) \/ Blind(l[i])
  BY ListsRead
<1>3. \A i \in DOMAIN l :
         IF "hosts" \in DOMAIN l[i]
         THEN \A j \in DOMAIN l[i].hosts : l[i].hosts[j] \in Host
         ELSE l[i].path \in (CID \ Bare) \cup {NoPath}
  BY <1>1, <1>2 DEF Polls, Tails, Blind
<1>4. ASSUME Reordered(l), l = LogList(p) PROVE FALSE
  <2>1. 1 \in DOMAIN l /\ "metricsets" \in DOMAIN l[1]
    BY <1>4 DEF Reordered
  <2>2. l[1] = Prospector(p, Statuses[1])
    BY <1>4, <2>1 DEF LogList
  <2> QED BY <2>1, <2>2 DEF Prospector
<1>5. Reordered(l) => \A i \in DOMAIN l : "path" \notin DOMAIN l[i]
  BY <1>4, ListsRead DEF Polls
<1> QED BY <1>2, <1>3, <1>5
----
(* The events *)

\* The lists of a pod, as the Secret and the token are in the next state.
LEMMA ListsUnchanged ==
    ASSUME UNCHANGED <<secret, token>>
    PROVE  \A n \in Name : /\ MetricsLists(pods[n])' = MetricsLists(pods'[n])
                           /\ SecretList(pods[n])' = SecretList(pods'[n])
                           /\ LogList(pods[n])' = LogList(pods'[n])
                           /\ AnyOf(pods[n])' = AnyOf(pods'[n])
<1>1. \A n \in Name : /\ MetricsLists(pods[n])' = MetricsLists(pods'[n])
                      /\ SecretList(pods[n])' = SecretList(pods'[n])
                      /\ LogList(pods[n])' = LogList(pods'[n])
  BY DEF MetricsLists, SecretList, LogList, MetricsWanted, Hosts, FirstHost, HostMeta,
         HostAt, MetricSets, Headers, AppliedHosts, LogsSkipped, Tailed, Prospector, Multiline
<1> QED BY <1>1 DEF AnyOf, Lists

\* Stopping what the builders answer for one known pod leaves what they need for the
\* others, and leaves of its own at most a reordered list.
LEMMA StopTouchesOnePod ==
    ASSUME BInv, NEW m \in Known, NEW old \in Lists(pods[m])
    PROVE  /\ \A n \in Known \ {m} : Deployed(files \ old, n)
           /\ \A l \in files \ old :
                 Reordered(l) \/ \E n \in Known \ {m} : l \in AnyOf(pods[n])
<1>1. \A n \in Known : pods[n] \in Pod /\ secret \in Secrets
  BY DEF BInv, Typed, Known
<1>2. ASSUME NEW n \in Known \ {m}, NEW l \in AnyOf(pods[n]), l \in old PROVE Pathless(l)
  <2>1. l \in AnyOf(pods[m])
    BY <1>2, AnswerIs
  <2>2. Apart(pods[n], pods[m])
    BY DEF BInv, PodsApart
  <2>3. pods[n] \in Pod /\ pods[m] \in Pod /\ secret \in Secrets
    BY <1>1
  <2> QED BY <2>1, <2>2, <2>3, ListsApart
<1>3. ASSUME NEW n \in Known \ {m} PROVE Deployed(files \ old, n)
  <2>1. /\ \A l \in {SecretList(pods[n]), LogList(pods[n])} : l \in files \/ Pathless(l)
        /\ MetricsLists(pods[n]) \cap (files \cup {<<>>}) # {}
    BY DEF BInv, FilesMatchPods
  <2>2. ASSUME NEW l \in {SecretList(pods[n]), LogList(pods[n])}
        PROVE  l \in files \ old \/ Pathless(l)
    <3>1. l = <<>> => Pathless(l)
      BY DEF Pathless
    <3>2. l # <<>> => l \in AnyOf(pods[n])
      BY <2>1, AnyOfIs
    <3> QED BY <1>2, <2>1, <3>1, <3>2
  <2>3. MetricsLists(pods[n]) \cap ((files \ old) \cup {<<>>}) # {}
    <3>1. PICK l \in MetricsLists(pods[n]) : l \in files \/ l = <<>>
      BY <2>1
    <3>2. l # <<>> => l \in AnyOf(pods[n]) /\ ~Pathless(l)
      BY <1>1, AnyOfIs, MetricsHavePaths
    <3>3. l # <<>> => l \notin old
      BY <1>2, <3>2
    <3> QED BY <3>1, <3>3
  <2> QED BY <2>2, <2>3 DEF Deployed
<1>4. ASSUME NEW l \in files \ old
      PROVE  Reordered(l) \/ \E n \in Known \ {m} : l \in AnyOf(pods[n])
  <2>1. Reordered(l) \/ \E n \in Known : l \in AnyOf(pods[n])
    BY DEF BInv, FilesMatchPods
  <2>2. l \in AnyOf(pods[m]) => Reordered(l)
    BY <1>1, LeftOut
  <2> QED BY <2>1, <2>2
<1> QED BY <1>3, <1>4

\* What a pod's event does to the deployed lists, and that no other pod's lists are hit.
LEMMA DeliverKeepsInv ==
    ASSUME BInv, NEW p \in Pod, p.name \in Name, Deliver(p),
           \A n \in Known \ {p.name} : Apart(pods[n], p),
           \A c, d \in Container : c # d /\ p.cids[c] = p.cids[d] => p.cids[c] = NoCID
    PROVE  BInv'
<1>1. PICK old \in (IF p.name \in Known THEN Lists(pods[p.name]) ELSE {{}}), new \in Lists(p) :
         files' = (files \ old) \cup new
  BY DEF Deliver
<1>2. pods' = [pods EXCEPT ![p.name] = p] /\ UNCHANGED <<secret, token>>
  BY DEF Deliver
<1>3. Typed'
  BY <1>2 DEF BInv, Typed
<1>4. /\ Known' = Known \cup {p.name}
      /\ pods'[p.name] = p
      /\ \A n \in Known \ {p.name} : pods'[n] = pods[n]
  BY <1>2, BuildersAssumption DEF Known, BInv, Typed
<1>5. PodsApart'
  <2>1. \A n \in Known \ {p.name} : Apart(p, pods[n])
    BY DEF Apart
  <2>2. \A m, n \in Known' : m # n => Apart(pods'[m], pods'[n])
    BY <1>4, <2>1 DEF BInv, PodsApart
  <2>3. \A n \in Known' : pods'[n].name = n
    BY <1>4 DEF BInv, PodsApart
  <2>4. \A n \in Known' : \A c, d \in Container :
           c # d /\ pods'[n].cids[c] = pods'[n].cids[d] => pods'[n].cids[c] = NoCID
    BY <1>4 DEF BInv, PodsApart
  <2> QED BY <2>2, <2>3, <2>4 DEF PodsApart, Apart
<1>6. /\ \A n \in Known \ {p.name} : Deployed(files \ old, n)
      /\ \A l \in files \ old :
            Reordered(l) \/ \E n \in Known \ {p.name} : l \in AnyOf(pods[n])
  <2>1. CASE p.name \in Known
    BY <1>1, <2>1, StopTouchesOnePod
  <2>2. CASE p.name \notin Known
    <3>1. Known \ {p.name} = Known /\ files \ old = files
      BY <1>1, <2>2
    <3> QED BY <3>1 DEF BInv, FilesMatchPods, Deployed
  <2> QED BY <2>1, <2>2
<1>7. \A n \in Known' : n \in Name
  BY DEF Known
<1>8. \A n \in Known' : /\ MetricsLists(pods[n])' = MetricsLists(pods'[n])
                        /\ SecretList(pods[n])' = SecretList(pods'[n])
                        /\ LogList(pods[n])' = LogList(pods'[n])
                        /\ AnyOf(pods[n])' = AnyOf(pods'[n])
  BY <1>2, <1>7, ListsUnchanged
<1>9. ASSUME NEW n \in Known'
      PROVE  /\ \A l \in {SecretList(pods'[n]), LogList(pods'[n])} : l \in files' \/ Pathless(l)
             /\ MetricsLists(pods'[n]) \cap (files' \cup {<<>>}) # {}
  <2>1. CASE n = p.name
    <3>1. pods'[n] = p
      BY <1>4, <2>1
    <3>2. ASSUME NEW l \in {SecretList(p), LogList(p)} PROVE l \in files' \/ Pathless(l)
      <4>1. l = <<>> => Pathless(l)
        BY DEF Pathless
      <4> QED BY <1>1, <4>1, AnswerIs
    <3>3. PICK l \in MetricsLists(p) : l # <<>> => l \in new
      BY AnswerIs
    <3> QED BY <1>1, <3>1, <3>2, <3>3
  <2>2. CASE n # p.name
    <3>1. n \in Known \ {p.name} /\ pods'[n] = pods[n]
      BY <1>4, <2>2
    <3>2. /\ \A l \in {SecretList(pods[n]), LogList(pods[n])} : l \in files \ old \/ Pathless(l)
          /\ MetricsLists(pods[n]) \cap ((files \ old) \cup {<<>>}) # {}
      BY <1>6, <3>1 DEF Deployed
    <3> QED BY <1>1, <3>1, <3>2
  <2> QED BY <2>1, <2>2
<1>10. ASSUME NEW l \in files'
       PROVE  Reordered(l) \/ \E n \in Known' : l \in AnyOf(pods'[n])
  <2>1. l \in new => l \in AnyOf(pods'[p.name]) /\ p.name \in Known'
    BY <1>4, AnswerIs
  <2>2. l \in files \ old => Reordered(l) \/ \E n \in Known' : l \in AnyOf(pods'[n])
    BY <1>4, <1>6
  <2> QED BY <1>1, <2>1, <2>2
<1>11. FilesMatchPods'
  BY <1>8, <1>9, <1>10 DEF FilesMatchPods
<1>12. FilesTyped'
  <2> SUFFICES ASSUME NEW l \in files'
               PROVE  /\ l # <<>>
                      /\ \A i \in DOMAIN l :
                            IF "hosts" \in DOMAIN l[i]
                            THEN \A j \in DOMAIN l[i].hosts : l[i].hosts[j] \in Host
                            ELSE l[i].path \in (CID \ Bare) \cup {NoPath}
                      /\ Reordered(l) => \A i \in DOMAIN l : "path" \notin DOMAIN l[i]
    BY DEF FilesTyped, Reordered
  <2>1. l \in files \/ l \in AnyOf(p)
    BY <1>1, AnswerIs
  <2>2. secret \in Secrets
    BY DEF BInv, Typed
  <2> QED BY <2>1, <2>2, AnyOfTyped DEF BInv, FilesTyped
<1> QED BY <1>3, <1>5, <1>11, <1>12 DEF BInv

LEMMA DeleteKeepsInv == ASSUME BInv, NEW n \in Known, Delete(n) PROVE BInv'
<1>1. PICK old \in Lists(pods[n]) : files' = files \ old
  BY DEF Delete
<1>2. pods' = [pods EXCEPT ![n] = NoPod] /\ UNCHANGED <<secret, token>>
  BY DEF Delete
<1>3. Typed'
  BY <1>2 DEF BInv, Typed
<1>4. Known' = Known \ {n} /\ \A m \in Known \ {n} : pods'[m] = pods[m]
  BY <1>2 DEF Known, BInv, Typed
<1>5. PodsApart'
  BY <1>4 DEF BInv, PodsApart, Apart
<1>6. \A m \in Known' : m \in Name
  BY DEF Known
<1>7. \A m \in Known' : /\ MetricsLists(pods[m])' = MetricsLists(pods[m])
                        /\ SecretList(pods[m])' = SecretList(pods[m])
                        /\ LogList(pods[m])' = LogList(pods[m])
                        /\ AnyOf(pods[m])' = AnyOf(pods[m])
  BY <1>2, <1>4, <1>6, ListsUnchanged
<1>8. /\ \A m \in Known \ {n} : Deployed(files \ old, m)
      /\ \A l \in files \ old : Reordered(l) \/ \E m \in Known \ {n} : l \in AnyOf(pods[m])
  BY <1>1, StopTouchesOnePod
<1>9. FilesMatchPods'
  BY <1>1, <1>4, <1>7, <1>8 DEF FilesMatchPods, Deployed
<1>10. FilesTyped'
  BY <1>1 DEF BInv, FilesTyped, Reordered
<1> QED BY <1>3, <1>5, <1>9, <1>10 DEF BInv

\* The Secret and the token change while no known pod's lists depend on them.
LEMMA RotateKeepsInv ==
    ASSUME BInv, NEW m \in Secrets, NEW t \in Token \cup {NoToken}, Rotate(m, t)
    PROVE  BInv'
<1>1. UNCHANGED <<pods, files>> /\ secret' = m /\ token' = t
      /\ \A n \in Known : ~Credentialed(pods[n].spec)
  BY DEF Rotate
<1>2. Known' = Known
  BY <1>1 DEF Known
<1>3. ASSUME NEW n \in Known
      PROVE  /\ MetricsLists(pods[n])' = MetricsLists(pods[n])
             /\ SecretList(pods[n])' = SecretList(pods[n])
             /\ LogList(pods[n])' = LogList(pods[n])
             /\ AnyOf(pods[n])' = AnyOf(pods[n])
  <2>1. ~pods[n].spec.secret /\ ~(pods[n].spec.type = "prometheus" /\ pods[n].spec.ns \in Secured)
    BY <1>1 DEF Credentialed
  <2>2. MetricsLists(pods[n])' = MetricsLists(pods[n])
    <3> DEFINE h == Headers(pods[n].spec.type, pods[n].spec.ns)
    <3>1. h' = h
      BY <1>1, <2>1 DEF Headers
    <3>2. MetricSets(pods[n])' = MetricSets(pods[n]) /\ Hosts(pods[n])' = Hosts(pods[n])
          /\ HostMeta(pods[n], FirstHost(pods[n]))' = HostMeta(pods[n], FirstHost(pods[n]))
      BY <1>1 DEF MetricSets, Hosts, HostAt, HostMeta, FirstHost
    <3>3. MetricsWanted(pods[n])' = MetricsWanted(pods[n])
      BY <1>1, <3>2 DEF MetricsWanted
    <3> HIDE DEF h
    <3>4. MetricsLists(pods[n]) =
            IF ~MetricsWanted(pods[n]) THEN {<<>>} ELSE
            {<<[module |-> pods[n].spec.type, metricsets |-> s, hosts |-> Hosts(pods[n]),
                namespace |-> pods[n].spec.ns,
                meta |-> HostMeta(pods[n], FirstHost(pods[n])), headers |-> h]>> :
                s \in MetricSets(pods[n])}
      BY DEF MetricsLists, h
    <3>5. MetricsLists(pods[n])' =
            IF ~MetricsWanted(pods[n])' THEN {<<>>} ELSE
            {<<[module |-> pods[n].spec.type, metricsets |-> s, hosts |-> Hosts(pods[n])',
                namespace |-> pods[n].spec.ns,
                meta |-> HostMeta(pods[n], FirstHost(pods[n]))', headers |-> h']>> :
                s \in MetricSets(pods[n])'}
      BY <1>1 DEF MetricsLists, h
    <3> QED BY <3>1, <3>2, <3>3, <3>4, <3>5
  <2>3. SecretList(pods[n])' = SecretList(pods[n])
    BY <1>1, <2>1 DEF SecretList
  <2>4. LogList(pods[n])' = LogList(pods[n])
    BY <1>1 DEF LogList, LogsSkipped, Tailed, Prospector, Multiline
  <2> QED BY <2>2, <2>3, <2>4 DEF AnyOf, Lists
<1>4. FilesMatchPods'
  BY <1>1, <1>2, <1>3 DEF BInv, FilesMatchPods
<1>5. Typed' /\ PodsApart' /\ FilesTyped'
  BY <1>1, <1>2 DEF BInv, Typed, PodsApart, FilesTyped, Reordered
<1> QED BY <1>4, <1>5 DEF BInv

\* An event that leaves a pod its container ids.
LEMMA SameContainersKeepInv ==
    ASSUME BInv, NEW n \in Known, NEW p \in Pod, p.name = n, p.cids = pods[n].cids,
           Fits(p), Deliver(p)
    PROVE  BInv'
<1>1. p.name \in Name /\ n \in Name
  BY DEF Known
<1>2. ASSUME NEW m \in Known \ {p.name} PROVE Apart(pods[m], p)
  <2>1. Apart(pods[m], pods[n])
    BY DEF BInv, PodsApart
  <2>2. pods[m].ip # p.ip \/ p.ip = NoIP \/ pods[m].spec.ports \cap p.spec.ports = {}
    BY DEF Fits
  <2> QED BY <2>1, <2>2 DEF Apart
<1>3. \A c, d \in Container : c # d /\ p.cids[c] = p.cids[d] => p.cids[c] = NoCID
  BY DEF BInv, PodsApart
<1> QED BY <1>1, <1>2, <1>3, DeliverKeepsInv

LEMMA AddKeepsInv ==
    ASSUME BInv, NEW n \in Name, NEW s \in Specs, Add(n, s) PROVE BInv'
<1> DEFINE p == [name |-> n, spec |-> s, ip |-> NoIP, phase |-> "Pending",
                 cids |-> [c \in Container |-> NoCID]]
<1>1. p \in Pod /\ p.name = n /\ p.ip = NoIP /\ \A c \in Container : p.cids[c] = NoCID
  BY DEF Pod
<1>2. Deliver(p)
  BY DEF Add
<1> HIDE DEF p
<1>3. \A m \in Known \ {p.name} : Apart(pods[m], p)
  BY <1>1 DEF Apart
<1> QED BY <1>1, <1>2, <1>3, DeliverKeepsInv

LEMMA LifeKeepsInv ==
    ASSUME BInv, NEW n \in Known,
           \/ \E a \in IP : Assign(n, a)
           \/ Complete(n)
           \/ \E s \in Specs : Annotate(n, s)
    PROVE  BInv'
<1>1. pods[n] \in Pod /\ pods[n].name = n
  BY DEF BInv, Typed, PodsApart, Known
<1>2. ASSUME NEW a \in IP, Assign(n, a) PROVE BInv'
  <2> DEFINE p == [pods[n] EXCEPT !.ip = a]
  <2>1. p \in Pod /\ p.name = n /\ p.cids = pods[n].cids
    BY <1>1 DEF Pod
  <2>2. Fits(p) /\ Deliver(p)
    BY <1>2 DEF Assign
  <2> HIDE DEF p
  <2> QED BY <2>1, <2>2, SameContainersKeepInv
<1>3. CASE Complete(n)
  <2> DEFINE p == [pods[n] EXCEPT !.phase = "Succeeded"]
  <2>1. p \in Pod /\ p.name = n /\ p.cids = pods[n].cids /\ p.ip = pods[n].ip /\ p.spec = pods[n].spec
    BY <1>1 DEF Pod
  <2>2. Deliver(p)
    BY <1>3 DEF Complete
  <2> HIDE DEF p
  <2>3. Fits(p)
    BY <2>1 DEF Fits, BInv, PodsApart, Apart
  <2> QED BY <2>1, <2>2, <2>3, SameContainersKeepInv
<1>4. ASSUME NEW s \in Specs, Annotate(n, s) PROVE BInv'
  <2> DEFINE p == [pods[n] EXCEPT !.spec = s]
  <2>1. p \in Pod /\ p.name = n /\ p.cids = pods[n].cids
    BY <1>1 DEF Pod
  <2>2. Fits(p) /\ Deliver(p)
    BY <1>4 DEF Annotate
  <2> HIDE DEF p
  <2> QED BY <2>1, <2>2, SameContainersKeepInv
<1> QED BY <1>2, <1>3, <1>4

LEMMA RestartedPod ==
    ASSUME NEW p \in Pod, NEW c \in Container, NEW id \in CID
    PROVE  LET q == Restarted(p, c, id) IN
           /\ q \in Pod /\ q.name = p.name /\ q.ip = p.ip /\ q.spec = p.spec
           /\ q.cids = [p.cids EXCEPT ![c] = id]
BY DEF Pod, Restarted

LEMMA StartContainerKeepsInv ==
    ASSUME BInv, NEW n \in Known, NEW c \in Container, NEW id \in CID, StartContainer(n, c, id)
    PROVE  BInv'
<1> DEFINE p == Restarted(pods[n], c, id)
<1>1. pods[n] \in Pod /\ pods[n].name = n /\ n \in Name
  BY DEF BInv, Typed, PodsApart, Known
<1>2. Deliver(p) /\ \A m \in Known : \A d \in Container : pods[m].cids[d] # id
  BY DEF StartContainer
<1>3. /\ p \in Pod /\ p.name = n /\ p.ip = pods[n].ip /\ p.spec = pods[n].spec
      /\ p.cids = [pods[n].cids EXCEPT ![c] = id]
  BY <1>1, RestartedPod
<1> HIDE DEF p
<1>4. pods[n].cids \in [Container -> CID \cup {NoCID}]
  BY <1>1 DEF Pod
<1>5. p.cids[c] = id /\ \A d \in Container \ {c} : p.cids[d] = pods[n].cids[d]
  BY <1>3, <1>4
<1>6. ASSUME NEW m \in Known \ {p.name} PROVE Apart(pods[m], p)
  <2>1. Apart(pods[m], pods[n])
    BY <1>3 DEF BInv, PodsApart
  <2> QED BY <1>2, <1>3, <1>5, <2>1 DEF Apart
<1>7. \A d, e \in Container : d # e /\ p.cids[d] = p.cids[e] => p.cids[d] = NoCID
  BY <1>2, <1>5 DEF BInv, PodsApart
<1> QED BY <1>1, <1>2, <1>3, <1>6, <1>7, DeliverKeepsInv

LEMMA BuildersInvariant == BSpec => []BInv
<1>1. BInit => BInv
  BY DEF BInit, BInv, Typed, FilesTyped, PodsApart, FilesMatchPods, Known
<1>2. BInv /\ [BNext]_vars => BInv'
  <2> SUFFICES ASSUME BInv, [BNext]_vars PROVE BInv'
    OBVIOUS
  <2>1. CASE UNCHANGED vars
    <3>1. Known' = Known
      BY <2>1 DEF Known, vars
    <3>2. \A n \in Known : /\ MetricsLists(pods[n])' = MetricsLists(pods[n])
                           /\ SecretList(pods[n])' = SecretList(pods[n])
                           /\ LogList(pods[n])' = LogList(pods[n])
                           /\ AnyOf(pods[n])' = AnyOf(pods[n])
      BY <2>1, ListsUnchanged DEF Known, vars
    <3>3. FilesMatchPods'
      BY <2>1, <3>1, <3>2 DEF FilesMatchPods, BInv, vars
    <3> QED BY <2>1, <3>1, <3>3 DEF BInv, Typed, FilesTyped, Reordered, PodsApart, vars
  <2>2. ASSUME NEW n \in Name, NEW s \in Specs, Add(n, s) PROVE BInv'
    BY <2>2, AddKeepsInv
  <2>3. ASSUME NEW n \in Known, NEW c \in Container, NEW id \in CID, StartContainer(n, c, id)
        PROVE  BInv'
    BY <2>3, StartContainerKeepsInv
  <2>4. ASSUME NEW n \in Known,
               (\E a \in IP : Assign(n, a)) \/ Complete(n) \/ (\E s \in Specs : Annotate(n, s))
        PROVE  BInv'
    BY <2>4, LifeKeepsInv
  <2>5. ASSUME NEW n \in Known, Delete(n) PROVE BInv'
    BY <2>5, DeleteKeepsInv
  <2>6. ASSUME NEW m \in Secrets, NEW t \in Token \cup {NoToken}, Rotate(m, t) PROVE BInv'
    BY <2>6, RotateKeepsInv
  <2> QED BY <2>1, <2>2, <2>3, <2>4, <2>5, <2>6 DEF BNext
<1> QED BY <1>1, <1>2, PTL DEF BSpec
----
(* What the runs check *)

\* The state is well typed, and every deployed configuration points somewhere.
THEOREM BTypeCorrect == BSpec => []BTypeOK
<1>1. BInv => BTypeOK
  BY DEF BInv, Typed, FilesTyped, BTypeOK
<1> QED BY <1>1, BuildersInvariant, PTL

\* The deployed lists are those of the known pods, whatever happened before, but for lists
\* of default metric sets in another order (builders.go:52-114, mb/registry.go:185).
THEOREM FilesAreCurrent == BSpec => []FilesMatchPods
<1>1. BInv => FilesMatchPods
  BY DEF BInv
<1> QED BY <1>1, BuildersInvariant, PTL

\* Who reads a container: the log list of the pod that has it, at the container's position.
LEMMA ReaderIs ==
    ASSUME BInv, NEW id \in CID \ Bare, NEW x \in Reads(id)
    PROVE  \E n \in Known : \E i \in DOMAIN Statuses :
              /\ x = <<LogList(pods[n]), i>>
              /\ pods[n].cids[Statuses[i]] = id
              /\ Tailed(pods[n], Statuses[i]) /\ ~LogsSkipped(pods[n])
<1> DEFINE l == x[1]
           i == x[2]
<1>1. x = <<l, i>> /\ l \in files /\ i \in DOMAIN l /\ "path" \in DOMAIN l[i] /\ l[i].path = id
  BY DEF Reads
<1>2. PICK n \in Known : l \in AnyOf(pods[n])
  BY <1>1 DEF BInv, FilesMatchPods, FilesTyped
<1>3. pods[n] \in Pod /\ secret \in Secrets
  BY DEF BInv, Typed, Known
<1>4. l = LogList(pods[n])
  BY <1>1, <1>2, <1>3, ListsRead DEF Polls
<1>5. /\ i \in DOMAIN Statuses /\ Tailed(pods[n], Statuses[i]) /\ ~LogsSkipped(pods[n])
      /\ l[i] = Prospector(pods[n], Statuses[i])
  BY <1>1, <1>4 DEF LogList
<1>6. pods[n].cids[Statuses[i]] = id
  BY <1>1, <1>5, BuildersAssumption DEF Prospector
<1> QED BY <1>1, <1>4, <1>5, <1>6

\* Each container is read by one prospector, or by none if it is not to be read.
THEOREM ReadOnce == BSpec => []EachContainerOnce
<1>1. BInv => EachContainerOnce
  <2> SUFFICES ASSUME BInv, NEW id \in CID \ Bare
               PROVE  Cardinality(Reads(id)) = IF Read(id) THEN 1 ELSE 0
    BY DEF EachContainerOnce
  <2>1. CASE ~Read(id)
    <3>1. ASSUME NEW x \in Reads(id) PROVE FALSE
      <4>1. PICK n \in Known, i \in DOMAIN Statuses :
               /\ pods[n].cids[Statuses[i]] = id
               /\ Tailed(pods[n], Statuses[i]) /\ ~LogsSkipped(pods[n])
        BY <3>1, ReaderIs
      <4>2. Statuses[i] \in Container
        BY ContainersIndexed
      <4>3. {"logs", Statuses[i]} \cap pods[n].spec.off = {}
            /\ (pods[n].ip # NoIP \/ pods[n].phase = "Running")
        BY <4>1 DEF Tailed, LogsSkipped
      <4> QED BY <2>1, <4>1, <4>2, <4>3 DEF Read
    <3>2. Reads(id) = {}
      BY <3>1
    <3> QED BY <2>1, <3>2, FS_EmptySet
  <2>2. CASE Read(id)
    <3>1. PICK n \in Known, c \in Container :
             /\ pods[n].cids[c] = id
             /\ {"logs", c} \cap pods[n].spec.off = {}
             /\ pods[n].ip # NoIP \/ pods[n].phase = "Running"
      BY <2>2 DEF Read
    <3>2. PICK i \in DOMAIN Statuses : Statuses[i] = c
      BY ContainersIndexed
    <3>3. id # NoCID
      BY BuildersAssumption
    <3>4. i \in DOMAIN LogList(pods[n]) /\ LogList(pods[n])[i] = Prospector(pods[n], c)
      BY <3>1, <3>2, <3>3 DEF LogList, LogsSkipped, Tailed
    <3>5. "path" \in DOMAIN Prospector(pods[n], c) /\ Prospector(pods[n], c).path = id
      BY <3>1 DEF Prospector
    <3>6. LogList(pods[n]) \in files
      <4>1. ~Pathless(LogList(pods[n]))
        BY <3>4, <3>5, BuildersAssumption DEF Pathless
      <4> QED BY <4>1 DEF BInv, FilesMatchPods
    <3>7. i \in 1 .. Len(Statuses)
      BY BuildersAssumption
    <3>8. <<LogList(pods[n]), i>> \in Reads(id)
      BY <3>4, <3>5, <3>6, <3>7 DEF Reads
    <3>9. ASSUME NEW x \in Reads(id) PROVE x = <<LogList(pods[n]), i>>
      <4>1. PICK m \in Known, j \in DOMAIN Statuses :
               x = <<LogList(pods[m]), j>> /\ pods[m].cids[Statuses[j]] = id
        BY <3>9, ReaderIs
      <4>2. Statuses[j] \in Container
        BY ContainersIndexed
      <4>3. m = n
        BY <3>1, <3>3, <4>1, <4>2 DEF BInv, PodsApart, Apart
      <4>4. Statuses[j] = c
        BY <3>1, <3>3, <4>1, <4>2, <4>3 DEF BInv, PodsApart
      <4>5. j = i
        BY <3>2, <4>4, BuildersAssumption
      <4> QED BY <4>1, <4>3, <4>5
    <3>10. Reads(id) = {<<LogList(pods[n]), i>>}
      BY <3>8, <3>9
    <3> QED BY <2>2, <3>10, FS_Singleton
  <2> QED BY <2>1, <2>2
<1> QED BY <1>1, BuildersInvariant, PTL

\* An event of another pod leaves a pod the lists that name a log file.
LEMMA DeliverKeepsLists ==
    ASSUME BInv, NEW q \in Pod, Deliver(q), NEW n \in Known, n # q.name,
           NEW l \in AnyOf(pods[n]), l \in files
    PROVE  l \in files' \/ Pathless(l)
<1>1. PICK old \in (IF q.name \in Known THEN Lists(pods[q.name]) ELSE {{}}), new \in Lists(q) :
         files' = (files \ old) \cup new
  BY DEF Deliver
<1>2. SUFFICES ASSUME l \in old, q.name \in Known PROVE Pathless(l)
  BY <1>1
<1>3. l \in AnyOf(pods[q.name])
  BY <1>1, <1>2, AnswerIs
<1>4. Apart(pods[n], pods[q.name])
  BY <1>2 DEF BInv, PodsApart
<1>5. pods[n] \in Pod /\ pods[q.name] \in Pod /\ secret \in Secrets
  BY <1>2 DEF BInv, Typed, Known
<1> QED BY <1>3, <1>4, <1>5, ListsApart

LEMMA DeleteKeepsLists ==
    ASSUME BInv, NEW m \in Known, Delete(m), NEW n \in Known \ {m},
           NEW l \in AnyOf(pods[n]), l \in files
    PROVE  l \in files' \/ Pathless(l)
<1>1. PICK old \in Lists(pods[m]) : files' = files \ old
  BY DEF Delete
<1>2. SUFFICES ASSUME l \in old PROVE Pathless(l)
  BY <1>1
<1>3. l \in AnyOf(pods[m])
  BY <1>1, <1>2, AnswerIs
<1>4. Apart(pods[n], pods[m])
  BY DEF BInv, PodsApart
<1>5. pods[n] \in Pod /\ pods[m] \in Pod /\ secret \in Secrets
  BY DEF BInv, Typed, Known
<1> QED BY <1>3, <1>4, <1>5, ListsApart

\* The lists are functions of the parts of a pod that the builders read.
LEMMA SameSourceSameLists ==
    ASSUME NEW p \in Pod, NEW q \in Pod, SameSource(p, q), p.name = q.name
    PROVE  /\ MetricsLists(q) = MetricsLists(p) /\ SecretList(q) = SecretList(p)
           /\ q.cids = p.cids => LogList(q) = LogList(p)
<1>1. q.ip = p.ip /\ q.spec = p.spec /\ p.ip # NoIP
  BY DEF SameSource
<1>2. Hosts(q) = Hosts(p)
  BY <1>1 DEF Hosts, HostAt
<1>3. MetricSets(q) = MetricSets(p)
  BY <1>1 DEF MetricSets
<1>4. \A h : HostMeta(q, h) = HostMeta(p, h)
  BY <1>1 DEF HostMeta, HostAt
<1>5. \A m : AppliedHosts(q, m) = AppliedHosts(p, m)
  BY <1>1 DEF AppliedHosts, HostAt
<1>6. MetricsLists(q) = MetricsLists(p)
  BY <1>1, <1>2, <1>3, <1>4 DEF MetricsLists, MetricsWanted, FirstHost
<1>7. SecretList(q) = SecretList(p)
  BY <1>1, <1>4, <1>5 DEF SecretList
<1>8. ASSUME q.cids = p.cids PROVE LogList(q) = LogList(p)
  BY <1>1, <1>8 DEF LogList, LogsSkipped, Tailed, Prospector, Multiline
<1> QED BY <1>6, <1>7, <1>8

\* An event leaves a pod the files that it does not change: those of other pods all, its
\* own unless its metric sets may come in another order (builders.go:52-114).
THEOREM FilesKept == BSpec => KeepsFiles
<1> DEFINE Kept ==
      \A n \in Known :
         /\ SameSource(pods[n], pods'[n]) =>
              /\ Keeps({SecretList(pods[n])})
              /\ Steady(pods[n]) => Keeps(MetricsLists(pods[n]))
              /\ pods'[n].cids = pods[n].cids => Keeps({LogList(pods[n])})
         /\ pods'[n] = pods[n] => Keeps(AnyOf(pods[n]))
<1>1. BInv /\ BInv' /\ [BNext]_vars => [Kept]_vars
  <2> SUFFICES ASSUME BInv, BInv', BNext, NEW n \in Known, NEW l \in files,
                      \/ SameSource(pods[n], pods'[n]) /\ l = SecretList(pods[n])
                      \/ SameSource(pods[n], pods'[n]) /\ Steady(pods[n])
                         /\ l \in MetricsLists(pods[n])
                      \/ SameSource(pods[n], pods'[n]) /\ pods'[n].cids = pods[n].cids
                         /\ l = LogList(pods[n])
                      \/ pods'[n] = pods[n] /\ l \in AnyOf(pods[n])
               PROVE  l \in files' \/ Pathless(l)
    BY DEF Keeps
  <2>1. pods'[n] # NoPod /\ n \in Name
    BY DEF SameSource, Known
  <2>2. pods[n] \in Pod /\ pods'[n] \in Pod /\ pods[n].name = n /\ pods'[n].name = n
    BY <2>1 DEF BInv, Typed, PodsApart, Known
  <2>3. l # <<>>
    BY DEF BInv, FilesTyped
  <2>4. MetricsLists(pods[n]) # {}
    BY DEF BInv, FilesMatchPods
  <2>5. l \in AnyOf(pods[n])
    BY <2>3, <2>4, AnyOfIs
  <2>6. ASSUME NEW q \in Pod, q.name \in Name, Deliver(q), q # pods[q.name]
        PROVE  l \in files' \/ Pathless(l)
    <3>1. CASE n # q.name
      BY <2>5, <2>6, <3>1, DeliverKeepsLists
    <3>2. CASE n = q.name
      <4>1. q = pods'[n] /\ q # pods[n]
        BY <2>1, <2>6, <3>2 DEF Deliver, BInv, Typed
      <4>2. PICK new \in Lists(q) : new \subseteq files'
        BY <2>6 DEF Deliver
      <4>3. SameSource(pods[n], q) /\ pods[n].name = q.name
        BY <2>2, <4>1
      <4>4. /\ MetricsLists(q) = MetricsLists(pods[n]) /\ SecretList(q) = SecretList(pods[n])
            /\ q.cids = pods[n].cids => LogList(q) = LogList(pods[n])
        BY <2>2, <4>3, SameSourceSameLists
      <4>5. PICK m \in MetricsLists(q) : m # <<>> => m \in new
        BY AnswerIs
      <4>6. CASE Steady(pods[n]) /\ l \in MetricsLists(pods[n])
        <5>1. m = l
          BY <4>4, <4>5, <4>6 DEF Steady
        <5> QED BY <2>3, <4>2, <4>5, <5>1
      <4>7. CASE l = SecretList(pods[n]) \/ (q.cids = pods[n].cids /\ l = LogList(pods[n]))
        <5>1. l \in {SecretList(q), LogList(q)}
          BY <4>4, <4>7
        <5> QED BY <2>3, <4>2, <5>1, AnswerIs
      <4> QED BY <4>1, <4>6, <4>7
    <3> QED BY <3>1, <3>2
  <2>7. ASSUME NEW m \in Name, NEW s \in Specs, Add(m, s) PROVE l \in files' \/ Pathless(l)
    <3> DEFINE q == [name |-> m, spec |-> s, ip |-> NoIP, phase |-> "Pending",
                     cids |-> [c \in Container |-> NoCID]]
    <3>1. q \in Pod /\ q.name = m /\ Deliver(q) /\ pods[m] = NoPod
      BY <2>7 DEF Add, Pod, Known
    <3> HIDE DEF q
    <3> QED BY <2>6, <3>1, BuildersAssumption
  <2>8. ASSUME NEW m \in Known PROVE pods[m] \in Pod /\ pods[m].name = m /\ m \in Name
    BY <2>8 DEF BInv, Typed, PodsApart, Known
  <2>9. ASSUME NEW m \in Known, NEW a \in IP, Assign(m, a) PROVE l \in files' \/ Pathless(l)
    <3> DEFINE q == [pods[m] EXCEPT !.ip = a]
    <3>1. q \in Pod /\ q.name = m /\ Deliver(q) /\ q # pods[m]
      BY <2>8, <2>9, BuildersAssumption DEF Assign, Pod
    <3> HIDE DEF q
    <3> QED BY <2>6, <2>8, <3>1
  <2>10. ASSUME NEW m \in Known, NEW c \in Container, NEW id \in CID, StartContainer(m, c, id)
         PROVE  l \in files' \/ Pathless(l)
    <3> DEFINE q == Restarted(pods[m], c, id)
    <3>1. Deliver(q)
      BY <2>10 DEF StartContainer
    <3>2. q \in Pod /\ q.name = m /\ q # pods[m]
      <4>1. pods[m] \in Pod /\ pods[m].name = m /\ pods[m].cids[c] # id
        BY <2>8, <2>10 DEF StartContainer
      <4>2. pods[m].cids \in [Container -> CID \cup {NoCID}]
        BY <4>1 DEF Pod
      <4>3. q \in Pod /\ q.name = m /\ q.cids = [pods[m].cids EXCEPT ![c] = id]
        BY <4>1, RestartedPod
      <4>4. q.cids[c] = id
        BY <4>2, <4>3
      <4> QED BY <4>1, <4>3, <4>4
    <3> HIDE DEF q
    <3> QED BY <2>6, <2>8, <3>1, <3>2
  <2>11. ASSUME NEW m \in Known, Complete(m) PROVE l \in files' \/ Pathless(l)
    <3> DEFINE q == [pods[m] EXCEPT !.phase = "Succeeded"]
    <3>1. q \in Pod /\ q.name = m /\ Deliver(q) /\ q # pods[m]
      BY <2>8, <2>11 DEF Complete, Pod
    <3> HIDE DEF q
    <3> QED BY <2>6, <2>8, <3>1
  <2>12. ASSUME NEW m \in Known, NEW s \in Specs, Annotate(m, s) PROVE l \in files' \/ Pathless(l)
    <3> DEFINE q == [pods[m] EXCEPT !.spec = s]
    <3>1. q \in Pod /\ q.name = m /\ Deliver(q) /\ q # pods[m]
      BY <2>8, <2>12 DEF Annotate, Pod
    <3> HIDE DEF q
    <3> QED BY <2>6, <2>8, <3>1
  <2>13. ASSUME NEW m \in Known, Delete(m) PROVE l \in files' \/ Pathless(l)
    <3>1. n # m
      BY <2>1, <2>8, <2>13 DEF Delete, BInv, Typed
    <3> QED BY <2>5, <2>13, <3>1, DeleteKeepsLists
  <2>14. ASSUME NEW m \in Secrets, NEW t \in Token \cup {NoToken}, Rotate(m, t) PROVE l \in files' \/ Pathless(l)
    BY <2>14 DEF Rotate
  <2> QED BY <2>7, <2>9, <2>10, <2>11, <2>12, <2>13, <2>14 DEF BNext
<1> QED BY <1>1, BuildersInvariant, PTL DEF BSpec, KeepsFiles
====
