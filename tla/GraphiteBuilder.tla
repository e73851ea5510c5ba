---- MODULE GraphiteBuilder ----
(***************************************************************************)
(* The push builder for graphite (discoverer/kubernetes/common/builder/    *)
(* graphite_annotations): one server for the node, whose templates are     *)
(* contributed by pod annotations and kept in a registry that pods with    *)
(* the same filter share.  Each add or removal of a pod restarts the       *)
(* server's runner: Builders stops the configuration ModuleConfig gives    *)
(* before the change and starts the one after it (discoverer/builders.go). *)
(*                                                                         *)
(* A configuration is known to the factory by the hash of its templates IN *)
(* ORDER, and ModuleConfig lists a Go map, in any order.  The templates of *)
(* the base configuration come first, always the same, and are left out.   *)
(*                                                                         *)
(* The registry lists the pods of a filter by namespace and name.  A pod   *)
(* is added when it becomes known or after its removal, so that no two     *)
(* known pods of one name make the list a set.  (A pod that left unseen    *)
(* and one that took its name would be listed twice; that is left out.)    *)
(***************************************************************************)
EXTENDS Naturals, FiniteSets, SequencesExt

CONSTANTS
    Name,       \* pods, by namespace/name
    Filter,
    Base,       \* the filters of the base configuration
    Key,        \* what must agree on a filter: template, namespace and delimiter
    Tags,
    NoTemplate, NoPod,
    GPods,      \* the pods that may be added
    MaxErrors   \* how many restarts may fail

Template == [filter : Filter, key : Key, tags : Tags]

\* What the builder reads of a pod: whether it is disabled by annotation, and its
\* template (NoTemplate without an IP, a filter, a template or a namespace).
GPod == [off : BOOLEAN, templ : Template \cup {NoTemplate}]

ASSUME GraphiteAssumption ==
    /\ GPods \subseteq GPod /\ Base \subseteq Filter
    /\ NoTemplate \notin Template /\ NoPod \notin GPod
    /\ IsFiniteSet(Filter) /\ MaxErrors \in Nat

VARIABLES
    known,      \* [Name -> GPod or NoPod]: the pods of the store
    pods,       \* podMap.pods: [Filter -> SUBSET Name]
    templates,  \* podMap.templates: [Filter -> Template or NoTemplate]
    refused,    \* the known pods whose registration was refused with a logged error
    servers,    \* the deployed configurations: sequences of templates
    errors      \* the failed restarts, each logged

gvars == <<known, pods, templates, refused, servers, errors>>

Known == {n \in Name : known[n] # NoPod}
----
\* ModuleConfig: the registered templates in some order.
Asked(ts) == {f \in Filter : ts[f] # NoTemplate}
Orders(ts) == SetToSeqs({ts[f] : f \in Asked(ts)})

\* The registry after registering pod n, which asks for template t.
Conflicts(ts, t) == ts[t.filter] # NoTemplate /\ ts[t.filter].key # t.key

Refuses(ts, p) ==
    ~p.off /\ p.templ # NoTemplate /\ (p.templ.filter \in Base \/ Conflicts(ts, p.templ))

Accepts(ts, p) == ~p.off /\ p.templ # NoTemplate /\ ~Refuses(ts, p)

\* Mutants: the grown slice of pods is not stored back; the map of pods is made anew; a
\* pod is only taken off when its tags agree too; the length is tested before the pod is
\* taken off the slice; the template goes with any pod.
PodsWithFirst(ps, ts, n, p) ==
    IF Accepts(ts, p) /\ ts[p.templ.filter] = NoTemplate
    THEN [ps EXCEPT ![p.templ.filter] = {n}] ELSE ps
PodsAfresh(ps, ts, n, p) ==
    IF Accepts(ts, p) THEN [f \in {p.templ.filter} |-> ps[f] \cup {n}] ELSE ps
LeavesWithTags(ts, p) == p.templ # NoTemplate /\ ts[p.templ.filter] = p.templ
TemplatesLate(ps, ts, n, p) ==
    IF p.templ # NoTemplate /\ ps[p.templ.filter] = {}
    THEN [ts EXCEPT ![p.templ.filter] = NoTemplate] ELSE ts
TemplatesWithAnyPod(ps, ts, n, p) ==
    IF p.templ # NoTemplate THEN [ts EXCEPT ![p.templ.filter] = NoTemplate] ELSE ts

\* AddModuleConfig: the first pod of a filter brings its template.
PodsWith(ps, ts, n, p) ==
    IF Accepts(ts, p) THEN [ps EXCEPT ![p.templ.filter] = @ \cup {n}] ELSE ps
TemplatesWith(ts, p) ==
    IF Accepts(ts, p) /\ ts[p.templ.filter] = NoTemplate
    THEN [ts EXCEPT ![p.templ.filter] = p.templ] ELSE ts

\* RemoveModuleConfig: only a pod whose template agrees with the registered one is
\* taken off its filter; the last pod takes the template with it.
Leaves(ts, p) ==
    p.templ # NoTemplate /\ ts[p.templ.filter] # NoTemplate /\ ~Conflicts(ts, p.templ)
PodsWithout(ps, ts, n, p) ==
    IF Leaves(ts, p) THEN [ps EXCEPT ![p.templ.filter] = @ \ {n}] ELSE ps
TemplatesWithout(ps, ts, n, p) ==
    IF Leaves(ts, p) /\ ps[p.templ.filter] \subseteq {n}
    THEN [ts EXCEPT ![p.templ.filter] = NoTemplate] ELSE ts

\* Mutant: what is deployed is not withdrawn.
RestartBeside(ss, old, new) == {<<ss \cup {new}, 0>>}

\* Restart of the cfgfile factory, with the number of errors it logs: withdrawing what is
\* not there is no error; a file that cannot be removed stays, and nothing is started;
\* a file that cannot be written is missing.
Restart(ss, old, new) ==
    LET rest == ss \ {old} IN
    {<<rest \cup {new}, 0>>}
    \cup {<<ss, 1>> : s \in ss \cap {old}} \cup {<<rest, 1>> : s \in {new} \ rest}

\* The restarts of an add or a removal, between the registries ts and ts1.
Restarts(ss, ts, ts1) == UNION {Restart(ss, old, new) : old \in Orders(ts), new \in Orders(ts1)}

\* What an event leaves deployed, and the number of errors it logged.
Deploys(ss, n) == servers' = ss /\ errors' = errors + n /\ errors' <= MaxErrors
----
\* StartModuleRunners(p) for a pod the store did not know.
Add(n, p) ==
    /\ n \notin Known
    /\ known' = [known EXCEPT ![n] = p]
    /\ pods' = PodsWith(pods, templates, n, p)
    /\ templates' = TemplatesWith(templates, p)
    /\ refused' = IF Refuses(templates, p) THEN refused \cup {n} ELSE refused
    /\ \E r \in Restarts(servers, templates, templates') : Deploys(r[1], r[2])

\* StopModuleRunners of a known pod.
Delete(n) ==
    /\ n \in Known
    /\ known' = [known EXCEPT ![n] = NoPod]
    /\ pods' = PodsWithout(pods, templates, n, known[n])
    /\ templates' = TemplatesWithout(pods, templates, n, known[n])
    /\ refused' = refused \ {n}
    /\ \E r \in Restarts(servers, templates, templates') : Deploys(r[1], r[2])

\* onPodUpdate: StopModuleRunners of the old pod, StartModuleRunners of the new one, which
\* has another resource version and may be the same in all that the builder reads.
Update(n, p) ==
    LET ps == PodsWithout(pods, templates, n, known[n])
        ts == TemplatesWithout(pods, templates, n, known[n])
    IN
    /\ n \in Known
    /\ known' = [known EXCEPT ![n] = p]
    /\ pods' = PodsWith(ps, ts, n, p)
    /\ templates' = TemplatesWith(ts, p)
    /\ refused' = IF Refuses(ts, p) THEN refused \cup {n} ELSE refused \ {n}
    /\ \E r \in Restarts(servers, templates, ts) : \E q \in Restarts(r[1], ts, templates') :
          Deploys(q[1], r[2] + q[2])

GInit ==
    /\ known = [n \in Name |-> NoPod]
    /\ pods = [f \in Filter |-> {}]
    /\ templates = [f \in Filter |-> NoTemplate]
    /\ refused = {} /\ servers = {} /\ errors = 0

GNext ==
    \/ \E n \in Name, p \in GPods : Add(n, p) \/ Update(n, p)
    \/ \E n \in Name : Delete(n)

GSpec == GInit /\ [][GNext]_gvars
----
(* Properties *)

GTypeOK ==
    /\ known \in [Name -> GPod \cup {NoPod}]
    /\ pods \in [Filter -> SUBSET Name]
    /\ templates \in [Filter -> Template \cup {NoTemplate}]
    /\ \A f \in Filter : templates[f] # NoTemplate => templates[f].filter = f
    /\ refused \subseteq Name
    /\ servers \subseteq Seq(Template) /\ errors \in 0..MaxErrors

\* The registry refers to known pods only, each under its own filter and with a template
\* it agrees with: nothing a departed pod brought stays behind, and the base
\* configuration is never overridden (graphite_annotations.go:119-245).
NoDanglingPod ==
    \A f \in Filter : \A n \in pods[f] :
        /\ n \in Known /\ known[n].templ # NoTemplate
        /\ known[n].templ.filter = f /\ f \notin Base
        /\ templates[f] # NoTemplate /\ templates[f].key = known[n].templ.key

\* A filter is served exactly as long as some pod is registered for it.
ServedWhileUsed == \A f \in Filter : (templates[f] # NoTemplate) = (pods[f] # {})

\* Every known pod that asks for a template is registered, unless its refusal was logged.
RegisteredOrRefused ==
    \A n \in Known : ~known[n].off /\ known[n].templ # NoTemplate
        => (n \in pods[known[n].templ.filter]) # (n \in refused)

\* An event is of one pod, and never takes another pod off its filter, nor changes the
\* template under it.
NeighboursKeepTemplates ==
    [][\E n \in Name :
          /\ \A m \in Name \ {n} : known'[m] = known[m]
          /\ \A f \in Filter : \A m \in pods[f] \ {n} :
                m \in pods'[f] /\ templates'[f] = templates[f]]_gvars

\* What is deployed and is no longer what the registry asks for, in any order.
Outdated == servers \ Orders(templates)

\* As long as at most one template is registered, an outdated server is left behind only
\* by a restart that failed and was logged (cfgfile.go:185-193).
OutdatedOnlyWhenLogged ==
    [][\/ errors' # errors \/ \E f, g \in Asked(templates) : f # g
       \/ Outdated' \subseteq Outdated]_gvars

\* "Stop the older push metricset before starting an added configuration"
\* (builders.go:67): at most one server is deployed.
OneServer == \A s, t \in servers : s = t
====
