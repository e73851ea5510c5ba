---- MODULE GraphiteBuilderProofs ----
(***************************************************************************)
(* GraphiteBuilder's registry is consistent for any number of pods,        *)
(* filters and templates.  The properties are inductive together and need  *)
(* one addition: that only known pods are remembered as refused.           *)
(*                                                                         *)
(* The invariant is stated of the registry as a value, so that onPodUpdate *)
(* is covered by the lemmas of its two halves, Deregister and Register.    *)
(***************************************************************************)
EXTENDS GraphiteBuilder, FiniteSetTheorems, TLAPS

\* The registry <<ps, ts>>, with rf refused, is right for the known pods k.
Typed(k, ps, ts, rf) ==
    /\ k \in [Name -> GPod \cup {NoPod}]
    /\ ps \in [Filter -> SUBSET Name]
    /\ ts \in [Filter -> Template \cup {NoTemplate}]
    /\ \A f \in Filter : ts[f] # NoTemplate => ts[f].filter = f
    /\ rf \subseteq Name

Anchored(k, ps, ts) ==
    \A f \in Filter : \A n \in ps[f] :
        /\ k[n] # NoPod /\ k[n].templ # NoTemplate
        /\ k[n].templ.filter = f /\ f \notin Base
        /\ ts[f] # NoTemplate /\ ts[f].key = k[n].templ.key

Used(ps, ts) == \A f \in Filter : (ts[f] # NoTemplate) = (ps[f] # {})

Placed(k, ps, rf) ==
    \A n \in Name : k[n] # NoPod /\ ~k[n].off /\ k[n].templ # NoTemplate
        => (n \in ps[k[n].templ.filter]) # (n \in rf)

\* Only known pods are remembered as refused.
RefusedKnown(k, rf) == \A n \in rf : k[n] # NoPod

\* The pods other than n that ps places under a filter are there in ps1 too, and the
\* template is the same.
KeepsOthers(n, ps, ts, ps1, ts1) ==
    \A f \in Filter : \A m \in ps[f] \ {n} : m \in ps1[f] /\ ts1[f] = ts[f]

Consistent(k, ps, ts, rf) ==
    Typed(k, ps, ts, rf) /\ Anchored(k, ps, ts) /\ Used(ps, ts) /\ Placed(k, ps, rf)
    /\ RefusedKnown(k, rf)

ServersOK == servers \subseteq Seq(Template) /\ errors \in 0..MaxErrors

GInv == Consistent(known, pods, templates, refused) /\ ServersOK

\* The possible lists of a registry's templates are sequences of templates.
LEMMA OrdersAreSequences ==
    ASSUME NEW ts \in [Filter -> Template \cup {NoTemplate}]
    PROVE  Orders(ts) \subseteq Seq(Template)
<1> DEFINE S == {ts[f] : f \in Asked(ts)}
<1>1. IsFiniteSet(Asked(ts))
  BY GraphiteAssumption, FS_Subset DEF Asked
<1>2. IsFiniteSet(S)
  <2> DEFINE h == [f \in Asked(ts) |-> ts[f]]
  <2>1. h \in Surjection(Asked(ts), S)
    BY DEF Surjection
  <2> QED BY <1>1, <2>1, FS_Surjection
<1>3. Cardinality(S) \in Nat
  BY <1>2, FS_CardinalityType
<1>4. S \subseteq Template
  BY DEF Asked
<1>5. SUFFICES ASSUME NEW s \in SetToSeqs(S) PROVE s \in Seq(Template)
  BY DEF Orders
<1> HIDE DEF S
<1>6. s \in [1..Cardinality(S) -> S]
  BY DEF SetToSeqs
<1>7. s \in [1..Cardinality(S) -> Template]
  BY <1>4, <1>6
<1> QED BY <1>3, <1>7

\* Taking a pod off keeps the registry right for the others, and leaves them where they
\* were.
LEMMA Deregister ==
    ASSUME NEW k, NEW ps, NEW ts, NEW rf, NEW n \in Name,
           Consistent(k, ps, ts, rf), k[n] # NoPod,
           NEW k1, NEW ps1, NEW ts1,
           k1 = [k EXCEPT ![n] = NoPod],
           ps1 = PodsWithout(ps, ts, n, k[n]),
           ts1 = TemplatesWithout(ps, ts, n, k[n])
    PROVE  /\ Consistent(k1, ps1, ts1, rf \ {n})
           /\ KeepsOthers(n, ps, ts, ps1, ts1)
<1> DEFINE t == k[n].templ
<1> USE DEF Consistent
<1>1. /\ k \in [Name -> GPod \cup {NoPod}] /\ ps \in [Filter -> SUBSET Name]
      /\ ts \in [Filter -> Template \cup {NoTemplate}]
      /\ k[n] \in GPod /\ t \in Template \cup {NoTemplate}
      /\ t # NoTemplate => t.filter \in Filter
  BY DEF Typed, GPod, Template
<1>2. \A f \in Filter : ps1[f] = ps[f] \ {n}
  <2>1. \A f \in Filter : n \in ps[f] => Leaves(ts, k[n]) /\ t.filter = f
    BY <1>1 DEF Anchored, Leaves, Conflicts
  <2> QED BY <1>1, <2>1 DEF PodsWithout
<1>3. \A f \in Filter : ts1[f] = IF ps[f] \subseteq {n} THEN NoTemplate ELSE ts[f]
  <2>1. \A f \in Filter : ps[f] = {} => ts[f] = NoTemplate
    BY DEF Used
  <2>2. \A f \in Filter : n \in ps[f] => Leaves(ts, k[n]) /\ t.filter = f
    BY <1>1 DEF Anchored, Leaves, Conflicts
  <2> QED BY <1>1, <2>1, <2>2 DEF TemplatesWithout
<1>4. Typed(k1, ps1, ts1, rf \ {n})
  <2>1. ps1 \in [Filter -> SUBSET Name] /\ ts1 \in [Filter -> Template \cup {NoTemplate}]
    BY <1>1 DEF PodsWithout, TemplatesWithout
  <2> QED BY <1>1, <1>3, <2>1 DEF Typed
<1>5. Anchored(k1, ps1, ts1)
  BY <1>1, <1>2, <1>3 DEF Anchored
<1>6. Used(ps1, ts1)
  BY <1>1, <1>2, <1>3 DEF Used
<1>7. Placed(k1, ps1, rf \ {n})
  <2> SUFFICES ASSUME NEW m \in Name, k1[m] # NoPod, ~k1[m].off, k1[m].templ # NoTemplate
               PROVE  (m \in ps1[k1[m].templ.filter]) # (m \in rf \ {n})
    BY DEF Placed
  <2>1. m # n /\ k1[m] = k[m] /\ k[m].templ.filter \in Filter
    BY <1>1 DEF GPod, Template
  <2>2. (m \in ps[k[m].templ.filter]) # (m \in rf)
    BY <2>1 DEF Placed
  <2> QED BY <1>2, <2>1, <2>2
<1>8. RefusedKnown(k1, rf \ {n})
  BY <1>1 DEF RefusedKnown, Typed
<1>9. KeepsOthers(n, ps, ts, ps1, ts1)
  BY <1>2, <1>3 DEF KeepsOthers
<1> QED BY <1>4, <1>5, <1>6, <1>7, <1>8, <1>9

\* Registering a pod the store did not know, likewise.
LEMMA Register ==
    ASSUME NEW k, NEW ps, NEW ts, NEW rf, NEW n \in Name, NEW p \in GPod,
           Consistent(k, ps, ts, rf), k[n] = NoPod,
           NEW k1, NEW ps1, NEW ts1, NEW rf1,
           k1 = [k EXCEPT ![n] = p],
           ps1 = PodsWith(ps, ts, n, p),
           ts1 = TemplatesWith(ts, p),
           rf1 = IF Refuses(ts, p) THEN rf \cup {n} ELSE rf
    PROVE  /\ Consistent(k1, ps1, ts1, rf1)
           /\ KeepsOthers(n, ps, ts, ps1, ts1)
<1> DEFINE t == p.templ
<1> USE DEF Consistent
<1>1. /\ k \in [Name -> GPod \cup {NoPod}] /\ ps \in [Filter -> SUBSET Name]
      /\ ts \in [Filter -> Template \cup {NoTemplate}]
      /\ t \in Template \cup {NoTemplate}
      /\ t # NoTemplate => t.filter \in Filter
      /\ p # NoPod
  BY GraphiteAssumption DEF Typed, GPod, Template
<1>2. \A f \in Filter :
          ps1[f] = IF Accepts(ts, p) /\ t.filter = f THEN ps[f] \cup {n} ELSE ps[f]
  BY <1>1 DEF PodsWith, Accepts
<1>3. \A f \in Filter :
          ts1[f] = IF Accepts(ts, p) /\ t.filter = f /\ ts[f] = NoTemplate THEN t ELSE ts[f]
  BY <1>1 DEF TemplatesWith, Accepts
<1>4. Accepts(ts, p) =>
          /\ ~p.off /\ t # NoTemplate /\ t.filter \notin Base
          /\ ts[t.filter] # NoTemplate => ts[t.filter].key = t.key
  BY DEF Accepts, Refuses, Conflicts
<1>5. Typed(k1, ps1, ts1, rf1)
  <2>1. ps1 \in [Filter -> SUBSET Name] /\ ts1 \in [Filter -> Template \cup {NoTemplate}]
    BY <1>1 DEF PodsWith, TemplatesWith
  <2> QED BY <1>1, <1>3, <1>4, <2>1 DEF Typed
<1>6. \A f \in Filter : n \notin ps[f]
  BY DEF Anchored
<1>7. Anchored(k1, ps1, ts1)
  <2> SUFFICES ASSUME NEW f \in Filter, NEW m \in ps1[f]
               PROVE  /\ k1[m] # NoPod /\ k1[m].templ # NoTemplate
                      /\ k1[m].templ.filter = f /\ f \notin Base
                      /\ ts1[f] # NoTemplate /\ ts1[f].key = k1[m].templ.key
    BY DEF Anchored
  <2>1. CASE m = n
    BY <1>1, <1>2, <1>3, <1>4, <1>6, <2>1
  <2>2. CASE m # n
    <3>1. m \in ps[f] /\ k1[m] = k[m]
      BY <1>1, <1>2, <2>2
    <3>2. ts1[f] = ts[f]
      BY <1>3, <3>1 DEF Anchored
    <3> QED BY <3>1, <3>2 DEF Anchored
  <2> QED BY <2>1, <2>2
<1>8. Used(ps1, ts1)
  BY <1>1, <1>2, <1>3, <1>4 DEF Used
<1>9. Placed(k1, ps1, rf1)
  <2> SUFFICES ASSUME NEW m \in Name, k1[m] # NoPod, ~k1[m].off, k1[m].templ # NoTemplate
               PROVE  (m \in ps1[k1[m].templ.filter]) # (m \in rf1)
    BY DEF Placed
  <2>1. CASE m = n
    <3>1. k1[m] = p /\ t.filter \in Filter /\ n \notin rf
      BY <1>1, <2>1 DEF RefusedKnown
    <3>2. Accepts(ts, p) = ~Refuses(ts, p)
      BY <3>1 DEF Accepts
    <3> QED BY <1>2, <1>6, <2>1, <3>1, <3>2
  <2>2. CASE m # n
    <3>1. k1[m] = k[m] /\ k[m].templ.filter \in Filter
      BY <1>1, <2>2 DEF GPod, Template
    <3>2. (m \in ps[k[m].templ.filter]) # (m \in rf)
      BY <3>1 DEF Placed
    <3>3. (m \in ps1[k[m].templ.filter]) = (m \in ps[k[m].templ.filter])
      <4> \A f \in Filter : (m \in ps1[f]) <=> (m \in ps[f])
        BY <1>2, <2>2
      <4> QED BY <3>1
    <3>4. (m \in rf1) = (m \in rf)
      BY <2>2 DEF Typed
    <3> QED BY <3>1, <3>2, <3>3, <3>4
  <2> QED BY <2>1, <2>2
<1>10. RefusedKnown(k1, rf1)
  BY <1>1 DEF RefusedKnown, Typed
<1>11. KeepsOthers(n, ps, ts, ps1, ts1)
  BY <1>2, <1>3 DEF Used, KeepsOthers
<1> QED BY <1>5, <1>7, <1>8, <1>9, <1>10, <1>11

----
\* What a pod leaves and what it brings, in terms of the store.
LEMMA Initially == GInit => GInv
<1> SUFFICES ASSUME GInit PROVE GInv
  OBVIOUS
<1>1. Typed(known, pods, templates, refused)
  BY DEF GInit, Typed
<1>2. Anchored(known, pods, templates) /\ Used(pods, templates)
  BY DEF GInit, Anchored, Used
<1>3. Placed(known, pods, refused) /\ RefusedKnown(known, refused)
  BY DEF GInit, Placed, RefusedKnown
<1> QED BY <1>1, <1>2, <1>3, GraphiteAssumption DEF GInv, ServersOK, Consistent, GInit

\* The pods registered before a step, but for those of name n, stay under their templates.
Undisturbed(n) == KeepsOthers(n, pods, templates, pods', templates')

\* At most one registered template can be listed in one order only.
LEMMA OneOrder ==
    ASSUME NEW ts \in [Filter -> Template \cup {NoTemplate}],
           \A f, g \in Asked(ts) : f = g,
           NEW o1 \in Orders(ts), NEW o2 \in Orders(ts)
    PROVE  o1 = o2
<1> DEFINE S == {ts[f] : f \in Asked(ts)}
<1>1. S = {} \/ \E x : S = {x}
  OBVIOUS
<1>2. o1 \in SetToSeqs(S) /\ o2 \in SetToSeqs(S)
  BY DEF Orders
<1> HIDE DEF S
<1> DEFINE D == 1..Cardinality(S)
<1>3. o1 \in [D -> S] /\ o2 \in [D -> S]
  BY <1>2 DEF SetToSeqs
<1>4. CASE S = {}
  BY <1>3, <1>4, FS_EmptySet
<1> HIDE DEF D
<1>5. CASE \E x : S = {x}
  <2>1. \A i \in D : o1[i] = o2[i]
    BY <1>3, <1>5
  <2> QED BY <1>3, <2>1
<1> QED BY <1>1, <1>4, <1>5

\* A restart deploys sequences of templates, and logs one error at most.
LEMMA RestartsTyped ==
    ASSUME NEW ts \in [Filter -> Template \cup {NoTemplate}],
           NEW ts1 \in [Filter -> Template \cup {NoTemplate}],
           NEW ss, ss \subseteq Seq(Template), NEW r \in Restarts(ss, ts, ts1)
    PROVE  r[1] \subseteq Seq(Template) /\ r[2] \in {0, 1}
BY OrdersAreSequences DEF Restarts, Restart

\* A restart that logs no error puts one order of the new templates in the place of one
\* of the old.
LEMMA RestartReplaces ==
    ASSUME NEW ts, NEW ts1, NEW ss, NEW r \in Restarts(ss, ts, ts1), r[2] = 0
    PROVE  \E old \in Orders(ts), new \in Orders(ts1) : r[1] = (ss \ {old}) \cup {new}
BY DEF Restarts, Restart

\* The effect of the restarts of an event on what is deployed.
LEMMA DeploysTyped ==
    ASSUME ServersOK, NEW ss, ss \subseteq Seq(Template), NEW i \in Nat, Deploys(ss, i)
    PROVE  ServersOK' /\ errors <= errors'
BY GraphiteAssumption DEF ServersOK, Deploys

LEMMA AddStep ==
    ASSUME GInv, NEW n \in Name, NEW p \in GPods, Add(n, p)
    PROVE  GInv' /\ Undisturbed(n) /\ errors <= errors'
<1>1. p \in GPod /\ known[n] = NoPod
  BY GraphiteAssumption DEF Add, Known
<1>2. Consistent(known, pods, templates, refused)' /\ Undisturbed(n)
  <2>1. /\ known' = [known EXCEPT ![n] = p]
        /\ pods' = PodsWith(pods, templates, n, p)
        /\ templates' = TemplatesWith(templates, p)
        /\ refused' = IF Refuses(templates, p) THEN refused \cup {n} ELSE refused
    BY DEF Add
  <2>2. Consistent(known, pods, templates, refused)
    BY DEF GInv
  <2>3. /\ Consistent(known', pods', templates', refused')
        /\ KeepsOthers(n, pods, templates, pods', templates')
    BY <1>1, <2>1, <2>2, Register, Zenon
  <2> QED BY <2>3 DEF Undisturbed
<1>3. ServersOK' /\ errors <= errors'
  <2>1. PICK r \in Restarts(servers, templates, templates') : Deploys(r[1], r[2])
    BY DEF Add
  <2>2. r[1] \subseteq Seq(Template) /\ r[2] \in {0, 1}
    BY <1>2, <2>1, RestartsTyped DEF GInv, ServersOK, Consistent, Typed
  <2> QED BY <2>1, <2>2, DeploysTyped DEF GInv
<1> QED BY <1>2, <1>3 DEF GInv

LEMMA DeleteStep ==
    ASSUME GInv, NEW n \in Name, Delete(n)
    PROVE  GInv' /\ Undisturbed(n) /\ errors <= errors'
<1>1. known[n] # NoPod
  BY DEF Delete, Known
<1>2. Consistent(known, pods, templates, refused)' /\ Undisturbed(n)
  <2>1. /\ known' = [known EXCEPT ![n] = NoPod]
        /\ pods' = PodsWithout(pods, templates, n, known[n])
        /\ templates' = TemplatesWithout(pods, templates, n, known[n])
        /\ refused' = refused \ {n}
    BY DEF Delete
  <2>2. Consistent(known, pods, templates, refused)
    BY DEF GInv
  <2>3. /\ Consistent(known', pods', templates', refused \ {n})
        /\ KeepsOthers(n, pods, templates, pods', templates')
    BY <1>1, <2>1, <2>2, Deregister, Zenon
  <2> QED BY <2>1, <2>3 DEF Undisturbed
<1>3. ServersOK' /\ errors <= errors'
  <2>1. PICK r \in Restarts(servers, templates, templates') : Deploys(r[1], r[2])
    BY DEF Delete
  <2>2. r[1] \subseteq Seq(Template) /\ r[2] \in {0, 1}
    BY <1>2, <2>1, RestartsTyped DEF GInv, ServersOK, Consistent, Typed
  <2> QED BY <2>1, <2>2, DeploysTyped DEF GInv
<1> QED BY <1>2, <1>3 DEF GInv

\* The two halves of onPodUpdate.
LEMMA UpdateStep ==
    ASSUME GInv, NEW n \in Name, NEW p \in GPods, Update(n, p)
    PROVE  GInv' /\ Undisturbed(n) /\ errors <= errors'
<1> DEFINE ps == PodsWithout(pods, templates, n, known[n])
           ts == TemplatesWithout(pods, templates, n, known[n])
           k1 == [known EXCEPT ![n] = NoPod]
<1>1. p \in GPod /\ known[n] # NoPod /\ known \in [Name -> GPod \cup {NoPod}]
  BY GraphiteAssumption DEF Update, Known, GInv, Consistent, Typed
<1>2. /\ Consistent(k1, ps, ts, refused \ {n})
      /\ KeepsOthers(n, pods, templates, ps, ts)
  <2>1. Consistent(known, pods, templates, refused)
    BY DEF GInv
  <2> QED BY <1>1, <2>1, Deregister, Zenon
<1>3. /\ known' = [k1 EXCEPT ![n] = p] /\ k1[n] = NoPod
      /\ pods' = PodsWith(ps, ts, n, p) /\ templates' = TemplatesWith(ts, p)
      /\ refused' = IF Refuses(ts, p) THEN (refused \ {n}) \cup {n} ELSE refused \ {n}
  BY <1>1 DEF Update
<1>4. ts \in [Filter -> Template \cup {NoTemplate}]
  BY <1>2 DEF Consistent, Typed
<1>5. PICK r \in Restarts(servers, templates, ts) :
        \E q \in Restarts(r[1], ts, templates') : Deploys(q[1], r[2] + q[2])
  BY DEF Update
<1>6. PICK q \in Restarts(r[1], ts, templates') : Deploys(q[1], r[2] + q[2])
  BY <1>5
<1> HIDE DEF k1, ps, ts
<1>7. /\ Consistent(known', pods', templates', refused')
      /\ KeepsOthers(n, ps, ts, pods', templates')
  BY <1>1, <1>2, <1>3, Register, Zenon
<1>8. Undisturbed(n)
  BY <1>2, <1>7 DEF Undisturbed, KeepsOthers
<1>9. ServersOK' /\ errors <= errors'
  <2>1. templates' \in [Filter -> Template \cup {NoTemplate}]
    BY <1>7 DEF Consistent, Typed
  <2>2. r[1] \subseteq Seq(Template) /\ r[2] \in {0, 1}
    BY <1>4, RestartsTyped DEF GInv, ServersOK, Consistent, Typed
  <2>3. q[1] \subseteq Seq(Template) /\ q[2] \in {0, 1}
    BY <1>4, <2>1, <2>2, RestartsTyped
  <2> QED BY <1>6, <2>2, <2>3, DeploysTyped DEF GInv
<1> QED BY <1>7, <1>8, <1>9 DEF GInv

LEMMA Inductive == GInv /\ [GNext]_gvars => GInv'
<1> SUFFICES ASSUME GInv, [GNext]_gvars PROVE GInv'
  OBVIOUS
<1>1. ASSUME NEW n \in Name, NEW p \in GPods, Add(n, p) PROVE GInv'
  BY <1>1, AddStep
<1>2. ASSUME NEW n \in Name, NEW p \in GPods, Update(n, p) PROVE GInv'
  BY <1>2, UpdateStep
<1>3. ASSUME NEW n \in Name, Delete(n) PROVE GInv'
  BY <1>3, DeleteStep
<1>4. CASE UNCHANGED gvars
  BY <1>4 DEF gvars, GInv, ServersOK, Consistent, Typed, Anchored, Used, Placed, RefusedKnown
<1> QED BY <1>1, <1>2, <1>3, <1>4 DEF GNext

\* The named properties follow.
LEMMA Consequences ==
    GInv => GTypeOK /\ NoDanglingPod /\ ServedWhileUsed /\ RegisteredOrRefused
<1> SUFFICES ASSUME GInv
             PROVE  GTypeOK /\ NoDanglingPod /\ ServedWhileUsed /\ RegisteredOrRefused
  OBVIOUS
<1>1. GTypeOK
  BY DEF GInv, ServersOK, Consistent, Typed, GTypeOK
<1>2. NoDanglingPod
  BY DEF GInv, Consistent, Typed, Anchored, NoDanglingPod, Known
<1>3. ServedWhileUsed
  BY DEF GInv, Consistent, Used, ServedWhileUsed
<1>4. RegisteredOrRefused
  BY DEF GInv, Consistent, Placed, RegisteredOrRefused, Known
<1> QED BY <1>1, <1>2, <1>3, <1>4

LEMMA GraphiteInvariant == GSpec => []GInv
<1> QED BY Initially, Inductive, PTL DEF GSpec

\* The builder's state is well typed.
THEOREM GraphiteTypeCorrect == GSpec => []GTypeOK
<1> QED BY GraphiteInvariant, Consequences, PTL

\* The registry refers to known pods only, each under its own filter and with a template
\* it agrees with, and never to a filter of the base configuration
\* (graphite_annotations.go:119-245).
THEOREM NothingDangles == GSpec => []NoDanglingPod
<1> QED BY GraphiteInvariant, Consequences, PTL

\* A filter is served exactly as long as some pod is registered for it
\* (graphite_annotations.go:225-231).
THEOREM Served == GSpec => []ServedWhileUsed
<1> QED BY GraphiteInvariant, Consequences, PTL

\* Every known pod that asks for a template is registered, or its refusal was logged, and
\* never both (graphite_annotations.go:141-169).
THEOREM RegisteredUnlessRefused == GSpec => []RegisteredOrRefused
<1> QED BY GraphiteInvariant, Consequences, PTL

\* An event of one pod never takes another pod off its filter nor changes the template
\* under it: the pods of one filter do not disturb each other.
THEOREM NeighboursUndisturbed == GSpec => NeighboursKeepTemplates
<1> DEFINE Spares(n) ==
               /\ \A m \in Name \ {n} : known'[m] = known[m]
               /\ \A f \in Filter : \A m \in pods[f] \ {n} :
                     m \in pods'[f] /\ templates'[f] = templates[f]
<1>1. ASSUME GInv, [GNext]_gvars PROVE [\E n \in Name : Spares(n)]_gvars
  <2> SUFFICES ASSUME GNext PROVE \E n \in Name : Spares(n)
    BY <1>1
  <2>0. known \in [Name -> GPod \cup {NoPod}]
    BY <1>1 DEF GInv, Consistent, Typed
  <2>1. ASSUME NEW n \in Name, NEW p \in GPods, Add(n, p) PROVE Spares(n)
    BY <1>1, <2>0, <2>1, AddStep DEF Add, Undisturbed, KeepsOthers
  <2>2. ASSUME NEW n \in Name, NEW p \in GPods, Update(n, p) PROVE Spares(n)
    BY <1>1, <2>0, <2>2, UpdateStep DEF Update, Undisturbed, KeepsOthers
  <2>3. ASSUME NEW n \in Name, Delete(n) PROVE Spares(n)
    BY <1>1, <2>0, <2>3, DeleteStep DEF Delete, Undisturbed, KeepsOthers
  <2> QED BY <2>1, <2>2, <2>3 DEF GNext
<1> QED BY <1>1, GraphiteInvariant, PTL DEF GSpec, NeighboursKeepTemplates

\* A step that logs nothing leaves no outdated server behind, while at most one template
\* is registered.
LEMMA NothingOutdated ==
    ASSUME GInv, GNext, errors' = errors, \A f, g \in Asked(templates) : f = g
    PROVE  Outdated' \subseteq Outdated
<1> SUFFICES ASSUME NEW s \in servers', s \notin Orders(templates)'
             PROVE  s \in servers /\ s \notin Orders(templates)
  BY DEF Outdated
<1>0. /\ templates \in [Filter -> Template \cup {NoTemplate}]
      /\ servers \subseteq Seq(Template) /\ errors \in Nat
  BY GraphiteAssumption DEF GInv, ServersOK, Consistent, Typed
<1>1. \A o1, o2 \in Orders(templates) : o1 = o2
  BY <1>0, OneOrder
<1>2. ASSUME templates' \in [Filter -> Template \cup {NoTemplate}],
             \E r \in Restarts(servers, templates, templates') : Deploys(r[1], r[2])
      PROVE  s \in servers /\ s \notin Orders(templates)
  <2>1. PICK r \in Restarts(servers, templates, templates') : Deploys(r[1], r[2])
    BY <1>2
  <2>2. r[2] = 0
    BY <1>0, <1>2, <2>1, RestartsTyped DEF Deploys
  <2>3. PICK old \in Orders(templates), new \in Orders(templates') :
            servers' = (servers \ {old}) \cup {new}
    BY <2>1, <2>2, RestartReplaces DEF Deploys
  <2> QED BY <1>1, <2>3
<1>3. ASSUME NEW n \in Name, NEW p \in GPods, Add(n, p)
      PROVE  s \in servers /\ s \notin Orders(templates)
  BY <1>2, <1>3, AddStep DEF Add, GInv, Consistent, Typed
<1>4. ASSUME NEW n \in Name, Delete(n)
      PROVE  s \in servers /\ s \notin Orders(templates)
  BY <1>2, <1>4, DeleteStep DEF Delete, GInv, Consistent, Typed
<1>5. ASSUME NEW n \in Name, NEW p \in GPods, Update(n, p)
      PROVE  s \in servers /\ s \notin Orders(templates)
  <2> DEFINE ts == TemplatesWithout(pods, templates, n, known[n])
  <2>1. templates' \in [Filter -> Template \cup {NoTemplate}]
    BY <1>5, UpdateStep DEF GInv, Consistent, Typed
  <2>2. /\ ts \in [Filter -> Template \cup {NoTemplate}]
        /\ \A o1, o2 \in Orders(ts) : o1 = o2
    <3>1. ts \in [Filter -> Template \cup {NoTemplate}] /\ Asked(ts) \subseteq Asked(templates)
      BY <1>0 DEF TemplatesWithout, Asked
    <3> QED BY <3>1, OneOrder
  <2>3. PICK r \in Restarts(servers, templates, ts) :
          \E q \in Restarts(r[1], ts, templates') : Deploys(q[1], r[2] + q[2])
    BY <1>5 DEF Update
  <2>4. PICK q \in Restarts(r[1], ts, templates') : Deploys(q[1], r[2] + q[2])
    BY <2>3
  <2> HIDE DEF ts
  <2>5. r[1] \subseteq Seq(Template) /\ r[2] \in {0, 1}
    BY <1>0, <2>2, RestartsTyped
  <2>6. q[2] \in {0, 1}
    BY <2>1, <2>2, <2>5, RestartsTyped
  <2>7. r[2] = 0 /\ q[2] = 0 /\ servers' = q[1]
    BY <1>0, <2>4, <2>5, <2>6 DEF Deploys
  <2>8. PICK old \in Orders(templates), mid \in Orders(ts) :
            r[1] = (servers \ {old}) \cup {mid}
    BY <2>7, RestartReplaces
  <2>9. PICK mid2 \in Orders(ts), new \in Orders(templates') :
            servers' = (r[1] \ {mid2}) \cup {new}
    BY <2>7, RestartReplaces
  <2> QED BY <1>1, <2>2, <2>8, <2>9
<1> QED BY <1>3, <1>4, <1>5 DEF GNext

\* As long as at most one template is registered, an outdated server is left behind only
\* by a restart that failed and was logged: stop and start replace one configuration by
\* the other (builders.go:66-77, cfgfile.go:185-193).
THEOREM OutdatedWhenLogged == GSpec => OutdatedOnlyWhenLogged
<1> DEFINE Explained == \/ errors' # errors \/ \E f, g \in Asked(templates) : f # g
                        \/ Outdated' \subseteq Outdated
<1>1. GInv /\ [GNext]_gvars => [Explained]_gvars
  BY NothingOutdated
<1> QED BY <1>1, GraphiteInvariant, PTL DEF GSpec, OutdatedOnlyWhenLogged
----
(* One server *)

\* The pods' templates, but for those that are refused anyway, share one filter.
OneFilter ==
    \A p, q \in {r \in GPods : r.templ # NoTemplate /\ r.templ.filter \notin Base} :
        p.templ.filter = q.templ.filter

\* Until a restart fails, the deployed server is the one the registry asks for now.
ServedByOne == errors = 0 => servers \subseteq Orders(templates) /\ OneServer

OneInv ==
    /\ GInv
    /\ known \in [Name -> GPods \cup {NoPod}]
    /\ errors = 0 => servers \subseteq Orders(templates)

LEMMA OneAsked ==
    ASSUME OneFilter, OneInv
    PROVE  \A f, g \in Asked(templates) : f = g
<1>1. \A f \in Asked(templates) : \E p \in GPods :
          p.templ # NoTemplate /\ p.templ.filter = f /\ f \notin Base
  <2> SUFFICES ASSUME NEW f \in Filter, templates[f] # NoTemplate
               PROVE  \E p \in GPods : p.templ # NoTemplate /\ p.templ.filter = f /\ f \notin Base
    BY DEF Asked
  <2>1. PICK n \in pods[f] : n \in Name
    BY DEF OneInv, GInv, Consistent, Used, Typed
  <2>2. /\ known[n] # NoPod /\ known[n].templ # NoTemplate
        /\ known[n].templ.filter = f /\ f \notin Base
    BY <2>1 DEF OneInv, GInv, Consistent, Anchored
  <2> QED BY <2>1, <2>2 DEF OneInv
<1> QED BY <1>1 DEF OneFilter

LEMMA OneInductive ==
    ASSUME OneFilter, OneInv, [GNext]_gvars
    PROVE  OneInv'
<1>1. CASE UNCHANGED gvars
  BY <1>1, Inductive DEF gvars, OneInv
<1>2. ASSUME GNext PROVE OneInv'
  <2>1. GInv' /\ errors <= errors'
    <3>1. ASSUME NEW n \in Name, NEW p \in GPods, Add(n, p) PROVE GInv' /\ errors <= errors'
      BY <3>1, AddStep DEF OneInv
    <3>2. ASSUME NEW n \in Name, NEW p \in GPods, Update(n, p) PROVE GInv' /\ errors <= errors'
      BY <3>2, UpdateStep DEF OneInv
    <3>3. ASSUME NEW n \in Name, Delete(n) PROVE GInv' /\ errors <= errors'
      BY <3>3, DeleteStep DEF OneInv
    <3> QED BY <1>2, <3>1, <3>2, <3>3 DEF GNext
  <2>2. known' \in [Name -> GPods \cup {NoPod}]
    BY <1>2 DEF GNext, Add, Update, Delete, OneInv
  <2>3. ASSUME errors' = 0 PROVE servers' \subseteq Orders(templates')
    <3>1. errors = 0
      BY <2>1, <2>3, GraphiteAssumption DEF OneInv, GInv, ServersOK
    <3>2. Outdated' \subseteq Outdated
      BY <1>2, <2>3, <3>1, OneAsked, NothingOutdated DEF OneInv
    <3> QED BY <3>1, <3>2 DEF OneInv, Outdated
  <2> QED BY <2>1, <2>2, <2>3 DEF OneInv
<1> QED BY <1>1, <1>2

\* The run graphite_servers shows servers accumulate when pods bring several filters,
\* because the order of a map decides what is withdrawn.  With one filter among them, and
\* no failed restart, one server is deployed and it is up to date (builders.go:66-77).
THEOREM OneFilterOneServer == ASSUME OneFilter PROVE GSpec => []ServedByOne
<1>1. GInit => OneInv
  BY Initially DEF GInit, OneInv
<1>2. OneInv => ServedByOne
  <2> SUFFICES ASSUME OneInv, errors = 0, NEW s \in servers, NEW t \in servers PROVE s = t
    BY DEF OneInv, ServedByOne, OneServer
  <2>1. s \in Orders(templates) /\ t \in Orders(templates)
    BY DEF OneInv
  <2>2. templates \in [Filter -> Template \cup {NoTemplate}]
    BY DEF OneInv, GInv, Consistent, Typed
  <2> QED BY <2>1, <2>2, OneAsked, OneOrder
<1> QED BY <1>1, <1>2, OneInductive, PTL DEF GSpec
====
