---- MODULE ModuleBuilders ----
(***************************************************************************)
(* What the three poller builders make of a pod, and what becomes of it    *)
(* while the pod goes through its life: metrics_annotations,               *)
(* metrics_secret and log_annotations (kubernetes/common/builder), the     *)
(* auth appender, and Builders.StartModuleRunners/StopModuleRunners, which *)
(* call every builder and hand each one's whole list to the cfgfile        *)
(* factory: one file per non-empty list.                                   *)
(*                                                                         *)
(* Annotations are parsed already: a specification says which guards they  *)
(* pass.  GetMetaData answers with the pod's own metadata, which is        *)
(* PodStore's FreshMetadata; events are applied in order, which is         *)
(* PodWatcher's matter; file operations succeed, CfgfileFactory's.         *)
(*                                                                         *)
(* A list from which elements were left out keeps them at the positions    *)
(* they have in what it was made from: a function on part of a domain,     *)
(* which is empty exactly when the list is.                                *)
(***************************************************************************)
EXTENDS Naturals, Sequences, SequencesExt, FiniteSets, FiniteSetsExt

CONSTANTS
    Name, IP, CID,    \* pods, their addresses and container ids
    Bare,             \* the container ids that come without a runtime's "docker://"
    Statuses,         \* the containers of a pod, as ContainerStatuses lists them
    Port,
    Type,             \* metricbeat modules, "prometheus" among them
    RegisteredSets,   \* mb.Registry: [Type -> SUBSET metricset]
    Namespace,        \* values of .../namespace
    Secured,          \* the namespaces the auth appender adds a token for
    Token, Secrets,   \* contents of the token file, and of the Secret
    Blank,            \* an endpoint that is "" after TrimSpace
    NoPod, NoIP, NoCID, NoPath, NoType, NoNamespace, NoSets, NoMeta, NoToken,
    Specs             \* the annotations, ports and labels a pod may have

Endpoint == [port : Port, path : BOOLEAN]

Module == [type : Type, ns : Namespace \cup {NoNamespace}, eps : Seq(Endpoint)]

Container == {Statuses[i] : i \in DOMAIN Statuses}

\* off: the prefixes with a true `disable' ("metrics", "logs", a container's);
\* secret: does .../config name the Secret; multiline: containers with a pattern;
\* ports: those its containers declare, which are the ones it listens on.
Annotated == [off : SUBSET ({"metrics", "logs"} \cup Container),
              type : Type \cup {NoType}, ns : Namespace \cup {NoNamespace},
              eps : Seq(Endpoint \cup {Blank}), scheme : BOOLEAN,
              sets : Seq(STRING) \cup {NoSets}, secret : BOOLEAN,
              multiline : SUBSET Container, ports : SUBSET Port]

Pod == [name : Name, spec : Specs, ip : IP \cup {NoIP},
        phase : {"Pending", "Running", "Succeeded"}, cids : [Container -> CID \cup {NoCID}]]

\* Every endpoint is a port of the pod that names it, and every host in the Secret is
\* the $HOST placeholder with such a port.  No two containers of a pod share a name.
ASSUME BuildersAssumption ==
    /\ Statuses \in Seq(STRING)
    /\ \A i, j \in DOMAIN Statuses : Statuses[i] = Statuses[j] => i = j
    /\ Blank \notin Endpoint /\ NoPod \notin Pod
    /\ NoIP \notin IP /\ NoCID \notin CID /\ NoPath \notin CID /\ Bare \subseteq CID
    /\ \A s \in Specs : s \in Annotated
    /\ \A m \in Secrets : m \in Seq(Module)
    /\ \A s \in Specs : \A i \in DOMAIN s.eps : s.eps[i] = Blank \/ s.eps[i].port \in s.ports
    /\ \A s \in Specs, m \in Secrets : s.secret =>
          \A i \in DOMAIN m : m[i].eps # <<>> /\
              \A j \in DOMAIN m[i].eps : m[i].eps[j].port \in s.ports

VARIABLES
    pods,     \* podMeta.pods: [Name -> Pod or NoPod]
    files,    \* cfgfileCache.cfgfiles: the deployed lists
    secret,   \* the Secret's modules, <<>> when GetSecret fails or they do not parse
    token     \* the token file

vars == <<pods, files, secret, token>>

Known == {n \in Name : pods[n] # NoPod}
----
NamespaceRequired == {"prometheus", "jolokia", "dropwizard", "http"}

Host == [scheme : BOOLEAN, ip : IP, ep : Endpoint]

HostAt(p, scheme, e) == [scheme |-> scheme, ip |-> p.ip, ep |-> e]

\* GetMetaData under a host: found only when the string is exactly an indexed "ip:port",
\* with no scheme before it and no path behind it.
HostMeta(p, h) ==
    IF \E x \in p.spec.ports : h = HostAt(p, FALSE, [port |-> x, path |-> FALSE])
    THEN p.name ELSE NoMeta

\* Mutant of Hosts: blank endpoints are kept.
HostsWithBlanks(p) ==
    [i \in DOMAIN p.spec.eps |-> HostAt(p, p.spec.scheme, p.spec.eps[i])]

Hosts(p) ==
    [i \in {j \in DOMAIN p.spec.eps : p.spec.eps[j] # Blank} |->
        HostAt(p, p.spec.scheme, p.spec.eps[i])]

FirstHost(p) == Hosts(p)[Min(DOMAIN Hosts(p))]

\* The lists of metric sets one call may come to: those the annotations name, or else all
\* that are registered, which mb.Registry.MetricSets finds ranging over a map.
MetricSets(p) ==
    CASE p.spec.sets # NoSets -> {p.spec.sets}
      [] p.spec.sets = NoSets /\ p.spec.type = "prometheus" -> {<<"collector">>}
      [] OTHER -> SetToSeqs(RegisteredSets[p.spec.type])

\* The auth appender: a token for prometheus modules of the configured namespaces, when
\* the token file can be read.
Headers(type, ns) == IF type = "prometheus" /\ ns \in Secured THEN token ELSE NoToken

Credentialed(s) == s.secret \/ (s.type = "prometheus" /\ s.ns \in Secured)

\* metrics_annotations: no configuration unless every guard is passed.
MetricsWanted(p) ==
    /\ "metrics" \notin p.spec.off
    /\ p.ip # NoIP
    /\ Hosts(p) # <<>>
    /\ p.spec.type # NoType
    /\ MetricSets(p) # {<<>>}
    /\ p.spec.type \in NamespaceRequired => p.spec.ns # NoNamespace

MetricsLists(p) ==
    IF ~MetricsWanted(p) THEN {<<>>} ELSE
    {<<[module |-> p.spec.type, metricsets |-> s, hosts |-> Hosts(p),
        namespace |-> p.spec.ns, meta |-> HostMeta(p, FirstHost(p)),
        headers |-> Headers(p.spec.type, p.spec.ns)]>> : s \in MetricSets(p)}

\* Every call lists the metric sets of p alike.
Steady(p) == \A l, m \in MetricsLists(p) : l = m

AppliedHosts(p, m) == [i \in DOMAIN m.eps |-> HostAt(p, FALSE, m.eps[i])]

\* metrics_secret: one configuration per module the Secret lists NOW.
SecretList(p) ==
    IF "metrics" \in p.spec.off \/ p.ip = NoIP \/ ~p.spec.secret THEN <<>> ELSE
    [i \in DOMAIN secret |->
       LET m == secret[i] hosts == AppliedHosts(p, m) IN
       [module |-> m.type, hosts |-> hosts, namespace |-> m.ns,
        meta |-> HostMeta(p, hosts[1]), headers |-> Headers(m.type, m.ns)]]

\* log_annotations: the pod is skipped while it has no address and does not run.
\* Mutant: while either is so, as the comment on that line suggests.
LogsSkippedEither(p) ==
    "logs" \in p.spec.off \/ p.ip = NoIP \/ p.phase # "Running"
LogsSkipped(p) ==
    "logs" \in p.spec.off \/ (p.ip = NoIP /\ p.phase # "Running")

\* A container that is disabled or has no id yet is passed over.
Tailed(p, c) == c \notin p.spec.off /\ p.cids[c] # NoCID

\* The pattern, negate and match annotations are read under the container's prefix only.
Multiline(p, c) == c \in p.spec.multiline

\* A container's log file is found by its id, and so is its metadata, which is indexed only
\* if the id follows a "//"; the namespace and the base configuration are left out.
Prospector(p, c) ==
    IF p.cids[c] \in Bare
    THEN [path |-> NoPath, multiline |-> Multiline(p, c), meta |-> NoMeta]
    ELSE [path |-> p.cids[c], multiline |-> Multiline(p, c), meta |-> <<p.name, c>>]

\* Mutant of LogList: a container that is passed over ends the loop.
LogListUpToFirst(p) ==
    IF LogsSkipped(p) \/ \E i \in DOMAIN Statuses : ~Tailed(p, Statuses[i]) THEN <<>> ELSE
    [i \in DOMAIN Statuses |-> Prospector(p, Statuses[i])]

LogList(p) ==
    [i \in {j \in DOMAIN Statuses : ~LogsSkipped(p) /\ Tailed(p, Statuses[j])} |->
        Prospector(p, Statuses[i])]

\* What the builders may answer for a pod when they are asked, one list each: a factory
\* call with an empty list is void.
Lists(p) == {{l, SecretList(p), LogList(p)} \ {<<>>} : l \in MetricsLists(p)}

AnyOf(p) == UNION Lists(p)
----
\* Mutant of Deliver: the new lists are started before the old ones are stopped.
DeliverStartFirst(p) ==
    /\ pods' = [pods EXCEPT ![p.name] = p]
    /\ \E old \in (IF p.name \in Known THEN Lists(pods[p.name]) ELSE {{}}), new \in Lists(p) :
          files' = (files \cup new) \ old
    /\ UNCHANGED <<secret, token>>

\* onPodAdd or onPodUpdate with a pod object that differs from the known one: what is
\* deployed for that one is not remembered but asked for again.
Deliver(p) ==
    /\ pods' = [pods EXCEPT ![p.name] = p]
    /\ \E old \in (IF p.name \in Known THEN Lists(pods[p.name]) ELSE {{}}), new \in Lists(p) :
          files' = (files \ old) \cup new
    /\ UNCHANGED <<secret, token>>

\* One address, one pod: pods on the host's network share an IP, never a port.
Fits(p) ==
    \A n \in Known \ {p.name} :
       pods[n].ip # p.ip \/ p.ip = NoIP \/ pods[n].spec.ports \cap p.spec.ports = {}

Add(n, s) ==
    /\ n \notin Known
    /\ Deliver([name |-> n, spec |-> s, ip |-> NoIP, phase |-> "Pending",
                cids |-> [c \in Container |-> NoCID]])

Assign(n, a) ==
    /\ pods[n].ip = NoIP
    /\ Fits([pods[n] EXCEPT !.ip = a])
    /\ Deliver([pods[n] EXCEPT !.ip = a])

\* A container starts, or starts again under a new id.
Restarted(p, c, id) == [p EXCEPT !.cids[c] = id, !.phase = "Running"]

StartContainer(n, c, id) ==
    /\ pods[n].phase # "Succeeded"
    /\ \A m \in Known : \A d \in Container : pods[m].cids[d] # id
    /\ Deliver(Restarted(pods[n], c, id))

\* The pod completes; its status keeps the address and the container ids.
Complete(n) ==
    /\ pods[n].phase = "Running"
    /\ Deliver([pods[n] EXCEPT !.phase = "Succeeded"])

Annotate(n, s) ==
    /\ Fits([pods[n] EXCEPT !.spec = s])
    /\ s # pods[n].spec
    /\ Deliver([pods[n] EXCEPT !.spec = s])

Delete(n) ==
    /\ \E old \in Lists(pods[n]) : files' = files \ old
    /\ pods' = [pods EXCEPT ![n] = NoPod]
    /\ UNCHANGED <<secret, token>>

\* The Secret and the token change only while no known pod's configuration reads them:
\* the builders read them again to find the configuration to stop.
Rotate(m, t) ==
    /\ \A n \in Known : ~Credentialed(pods[n].spec)
    /\ secret' = m
    /\ token' = t
    /\ UNCHANGED <<pods, files>>

BInit ==
    /\ pods = [n \in Name |-> NoPod]
    /\ files = {}
    /\ secret \in Secrets
    /\ token \in Token

BNext ==
    \/ \E n \in Name, s \in Specs : Add(n, s)
    \/ \E n \in Known :
          \/ \E a \in IP : Assign(n, a)
          \/ \E c \in Container, id \in CID : StartContainer(n, c, id)
          \/ Complete(n)
          \/ \E s \in Specs : Annotate(n, s)
          \/ Delete(n)
    \/ \E m \in Secrets, t \in Token \cup {NoToken} : Rotate(m, t)

BSpec == BInit /\ [][BNext]_vars
----
(* Properties *)

\* The state is well typed: no deployed host lacks an address or an endpoint, and no
\* prospector has a path to a container whose id has no runtime.
BTypeOK ==
    /\ pods \in [Name -> Pod \cup {NoPod}]
    /\ \A l \in files : l # <<>> /\ \A i \in DOMAIN l :
          IF "hosts" \in DOMAIN l[i]
          THEN \A j \in DOMAIN l[i].hosts : l[i].hosts[j] \in Host
          ELSE l[i].path \in (CID \ Bare) \cup {NoPath}
    /\ secret \in Secrets
    /\ token \in Token \cup {NoToken}

\* Only prospectors that name no file: such lists of two pods may be equal, and the
\* one's event then takes the file from the other.
Pathless(l) == \A i \in DOMAIN l : "path" \in DOMAIN l[i] /\ l[i].path = NoPath

\* All the metric sets of a type, in one of several orders.
Reordered(l) ==
    /\ 1 \in DOMAIN l /\ "metricsets" \in DOMAIN l[1]
    /\ \E s, t \in SetToSeqs(RegisteredSets[l[1].module]) : s # t /\ l[1].metricsets = s

\* What is deployed is what the builders, asked again now, may answer for the known pods:
\* no file is left of a former state, and none is missing because two pods' lists were
\* equal and one of them was stopped (builders.go:52-114, cfgfile.go:118-120).  Only a
\* list of several default metric sets stays behind, when it is asked for in another
\* order at the time it should be stopped (mb/registry.go:185).
FilesMatchPods ==
    /\ \A n \in Known :
          /\ \A l \in {SecretList(pods[n]), LogList(pods[n])} : l \in files \/ Pathless(l)
          /\ MetricsLists(pods[n]) \cap (files \cup {<<>>}) # {}
    /\ \A l \in files : Reordered(l) \/ \E n \in Known : l \in AnyOf(pods[n])

\* A container whose id names its runtime is read by exactly one prospector while it has
\* the id and its pod runs or has an address, unless it or the pod is disabled; nothing
\* reads a container id that no known pod has any more (log_annotations.go:80-151).
Reads(id) == {x \in files \X (1 .. Len(Statuses)) :
                 x[2] \in DOMAIN x[1] /\ "path" \in DOMAIN x[1][x[2]] /\ x[1][x[2]].path = id}

Read(id) ==
    \E n \in Known : \E c \in Container :
       /\ pods[n].cids[c] = id
       /\ {"logs", c} \cap pods[n].spec.off = {}
       /\ pods[n].ip # NoIP \/ pods[n].phase = "Running"

EachContainerOnce ==
    \A id \in CID \ Bare : Cardinality(Reads(id)) = IF Read(id) THEN 1 ELSE 0

\* An event that changes neither a pod's address nor its annotations leaves it its metrics
\* files, whatever its containers do, unless its metric sets are listed in another order
\* this time; if the container ids stay, the log file stays too, also when the pod
\* completes: its last lines are still to be read (log_annotations.go:86).  An event of
\* another pod leaves it every file, those listed in another order as well.
SameSource(p, q) == q # NoPod /\ p.ip # NoIP /\ q.ip = p.ip /\ q.spec = p.spec

Keeps(ls) == \A l \in ls \cap files : l \in files' \/ Pathless(l)

KeepsFiles ==
    [][\A n \in Known :
         /\ SameSource(pods[n], pods'[n]) =>
              /\ Keeps({SecretList(pods[n])})
              /\ Steady(pods[n]) => Keeps(MetricsLists(pods[n]))
              /\ pods'[n].cids = pods[n].cids => Keeps({LogList(pods[n])})
         /\ pods'[n] = pods[n] => Keeps(AnyOf(pods[n]))]_vars
====
