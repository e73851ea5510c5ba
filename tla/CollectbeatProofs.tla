---- MODULE CollectbeatProofs ----
(***************************************************************************)
(* Proofs about Collectbeat, for any number of discoverers, plug-ins and   *)
(* configurations: its types, which builders are asked, and what is        *)
(* stopped when Run returns.                                               *)
(***************************************************************************)
EXTENDS Collectbeat, TLAPS

USE CollectbeatAssumption

\* Every discoverer was constructed from its settings.
MadeFromSettings ==
    \A d \in Active : config[d] # NoSettings /\ made[d] \in Constructed(beat, config[d])

\* What Start(d) has appended, is appending and has still to append is d's own, and nothing
\* is, before d is spawned or after its watcher runs.
Unspawned(d) == todo[d] = {} /\ item[d] = NoItem /\ waiter[d] = "none"

StartsInOrder ==
    \A d \in Discoverer :
        /\ starter[d] = "none" => Unspawned(d)
        /\ starter[d] # "none" => d \in Active /\ main \notin {"new", "setup"}
        /\ starter[d] \in {"run", "gaveup"} => todo[d] = {}
        /\ d \in Active => todo[d] \subseteq Items(made[d])
        /\ item[d] # NoItem =>
              item[d] \in todo[d] /\ base[d] \subseteq UNION {Items(made[e]) : e \in Active}

ListIsMade == list \subseteq UNION {Items(made[d]) : d \in Active}

\* A discoverer on its own loses nothing that it appends.
AppendsAll ==
    \A d \in Discoverer : Alone(d) =>
        /\ list = IF starter[d] = "none" THEN {} ELSE Items(made[d]) \ todo[d]
        /\ item[d] # NoItem => base[d] = OfKind(list, item[d])

\* Before New nothing has happened.
Fresh ==
    main = "new" =>
        Active = {} /\ list = {} /\ stop = "idle" /\ \A d \in Discoverer : starter[d] = "none"

StoppedIsClosed ==
    /\ \A d \in Discoverer : waiter[d] = "stopped" => d \in closed
    /\ main = "returned" /\ beat = "metricbeat" => \A d \in Active : waiter[d] = "stopped"

CInv == CTypeOK /\ MadeFromSettings /\ StartsInOrder /\ ListIsMade /\ AppendsAll /\ Fresh
        /\ StoppedIsClosed
----
(* Construction *)

\* Every default is the empty configuration, so whichever of them comes last, each default
\* plug-in gets its own.
LEMMA DefaultsListed ==
    ASSUME NEW own, NEW on \in BOOLEAN, NEW bs \in Listed(own, on, DefaultBuilders(beat))
    PROVE  bs = own \cup (IF on THEN OwnDefaults ELSE {})
BY DEF Listed, DefaultBuilders, OwnDefaults, DefaultNames

LEMMA AppendersListed ==
    ASSUME NEW own, NEW on \in BOOLEAN, NEW as \in Listed(own, on, DefaultAppenders)
    PROVE  as \subseteq own \cup {<<"auth", Empty>>}
BY DEF Listed, DefaultAppenders

\* The builders of a constructed discoverer are exactly those that can be had.
LEMMA ConstructedBuilders ==
    ASSUME NEW s \in Settings, NEW p \in Constructed(beat, s)
    PROVE  p.builders = Wanted(s)
<1>1. PICK bs \in Listed(s.builders, s.defaultBuilders, DefaultBuilders(beat)),
           as \in Listed(s.appenders, s.defaultAppenders, DefaultAppenders) :
              p = [builders |-> MadeBuilders(bs), appenders |-> MadeAppenders(as)]
  BY DEF Constructed, ListedBuilders, ListedAppenders
<1>2. s.defaultBuilders \in BOOLEAN BY DEF Settings
<1>3. bs = s.builders \cup (IF s.defaultBuilders THEN OwnDefaults ELSE {})
  BY <1>2, DefaultsListed
<1> QED BY <1>1, <1>3 DEF MadeBuilders, Wanted

LEMMA WantedBuilders ==
    ASSUME NEW s \in Settings, NEW e \in Wanted(s)
    PROVE  e \notin Broken /\ e \in s.builders \cup OwnDefaults
BY DEF Wanted

LEMMA ConstructedParts ==
    ASSUME beat \in {"metricbeat", "filebeat"}, NEW s \in Settings, NEW p \in Constructed(beat, s)
    PROVE  p \in Parts
<1>1. PICK bs \in Listed(s.builders, s.defaultBuilders, DefaultBuilders(beat)),
           as \in Listed(s.appenders, s.defaultAppenders, DefaultAppenders) :
              p = [builders |-> MadeBuilders(bs), appenders |-> MadeAppenders(as)]
  BY DEF Constructed, ListedBuilders, ListedAppenders
<1>2. RegisteredBuilders \cup RegisteredAppenders \subseteq Name /\ Empty \in Conf
  BY PluginsAssumption
<1>3. bs \subseteq Plugin
  <2>1. s.builders \subseteq Plugin /\ s.defaultBuilders \in BOOLEAN BY DEF Settings
  <2>2. DefaultNames(beat) \subseteq Name BY <1>2 DEF DefaultNames, RegisteredBuilders
  <2>3. OwnDefaults \subseteq Plugin
    BY <1>2, <2>2 DEF OwnDefaults, DefaultBuilders, Plugin
  <2> QED BY <2>1, <2>3, DefaultsListed
<1>4. as \subseteq Plugin
  <2>1. s.appenders \subseteq Plugin /\ s.defaultAppenders \in BOOLEAN BY DEF Settings
  <2>2. <<"auth", Empty>> \in Plugin BY <1>2 DEF Plugin, RegisteredAppenders
  <2>3. as \in Listed(s.appenders, s.defaultAppenders, DefaultAppenders) OBVIOUS
  <2>4. as \subseteq s.appenders \cup {<<"auth", Empty>>}
    BY <2>1, <2>3, AppendersListed, Zenon
  <2> QED BY <2>1, <2>2, <2>4
<1>5. MadeBuilders(bs) \in SUBSET Plugin BY <1>3 DEF MadeBuilders
<1>6. MadeAppenders(as) \in SUBSET (Plugin \cup {Nil}) BY <1>4 DEF MadeAppenders
<1> QED BY <1>1, <1>5, <1>6 DEF Parts
----
(* The invariant *)

LEMMA InitInv == CInit => CInv
<1> SUFFICES ASSUME CInit PROVE CInv OBVIOUS
<1> USE DEF CInit, Active
<1>1. CTypeOK BY DEF CTypeOK
<1>2. MadeFromSettings BY DEF MadeFromSettings
<1>3. StartsInOrder BY DEF StartsInOrder, Unspawned
<1>4. ListIsMade BY DEF ListIsMade
<1>5. AppendsAll BY DEF AppendsAll, Alone
<1>6. Fresh BY DEF Fresh
<1>7. StoppedIsClosed BY DEF StoppedIsClosed
<1> QED BY <1>1, <1>2, <1>3, <1>4, <1>5, <1>6, <1>7 DEF CInv

LEMMA NewKeepsInv == CInv /\ New => CInv'
<1> SUFFICES ASSUME CInv, New PROVE CInv' OBVIOUS
<1> USE DEF CInv
<1>1. /\ main = "new" /\ main' \in {"new", "failed", "setup"} /\ crashed' \in BOOLEAN
      /\ UNCHANGED <<beat, reloading, config, starter, todo, item, base, list, waiter, stop,
                    closed>>
  BY DEF New, CInv, CTypeOK
<1>2. list = {} /\ \A d \in Discoverer :
         starter[d] = "none" /\ todo[d] = {} /\ item[d] = NoItem /\ waiter[d] = "none"
  BY <1>1 DEF Fresh, StartsInOrder, Unspawned
<1>3. /\ DOMAIN made' = Discoverer /\ made' = [d \in Discoverer |-> made'[d]]
      /\ \A d \in Discoverer : made'[d] # NoParts =>
            /\ config[d] \in Settings /\ config[d] # NoSettings
            /\ made'[d] \in Constructed(beat, config[d]) /\ made'[d] \in Parts
  <2>1. CASE UNCHANGED made
    BY <1>1, <2>1 DEF CTypeOK, Fresh, Active
  <2>2. CASE \E m \in [Discoverer -> UNION {Initialised(d) : d \in Discoverer}] :
                (\A d \in Discoverer : m[d] \in Initialised(d)) /\ made' = m
    <3>1. \A d \in Discoverer : config[d] \in Settings \cup {NoSettings}
      BY DEF CTypeOK
    <3>2. \A d \in Discoverer : made'[d] \in Initialised(d) BY <2>2
    <3>3. \A d \in Discoverer : made'[d] # NoParts =>
             /\ config[d] \in Settings /\ config[d] # NoSettings
             /\ made'[d] \in Constructed(beat, config[d])
      BY <3>1, <3>2 DEF Initialised, Wished
    <3>4. beat \in {"metricbeat", "filebeat"} BY DEF CTypeOK
    <3>5. DOMAIN made' = Discoverer /\ made' = [d \in Discoverer |-> made'[d]] BY <2>2
    <3> QED BY <3>3, <3>4, <3>5, ConstructedParts
  <2> QED BY <2>1, <2>2 DEF New
<1>4. CTypeOK'
  <2>1. made' \in [Discoverer -> Parts \cup {NoParts}] BY <1>3
  <2> QED BY <1>1, <2>1 DEF CTypeOK
<1>5. MadeFromSettings' BY <1>1, <1>3 DEF MadeFromSettings, Active
<1>6. StartsInOrder' BY <1>1, <1>2 DEF StartsInOrder, Unspawned
<1>7. ListIsMade' BY <1>1, <1>2 DEF ListIsMade
<1>8. AppendsAll' BY <1>1, <1>2 DEF AppendsAll
<1>9. Fresh'
  <2>1. main' = "new" => UNCHANGED made BY <1>1 DEF New
  <2> QED BY <1>1, <2>1 DEF Fresh, Active
<1>10. StoppedIsClosed' BY <1>1, <1>2 DEF StoppedIsClosed, Active
<1> QED BY <1>4, <1>5, <1>6, <1>7, <1>8, <1>9, <1>10

\* What Setup, RunInner, InnerReturns, Waited, StopInner, CloseDone and Panic have in common.
LEMMA ControlKeepsInv ==
    ASSUME CInv, main' \in {"setup", "spawn", "inner", "wait", "returned", "failed", main},
           stop' \in {"idle", "inner", "done"}, crashed' \in BOOLEAN,
           main # "new", main' = "setup" => main = "setup",
           UNCHANGED <<beat, reloading, config, made, starter, todo, item, base, list, waiter,
                       closed>>,
           main' = "returned" /\ beat = "metricbeat" =>
               main = "returned" \/ \A d \in Active : waiter[d] = "stopped"
    PROVE  CInv'
<1> USE DEF CInv
<1>1. Active' = Active BY DEF Active
<1>2. CTypeOK' BY DEF CTypeOK
<1>3. MadeFromSettings' BY <1>1 DEF MadeFromSettings
<1>4. StartsInOrder' BY <1>1 DEF StartsInOrder, Unspawned
<1>5. ListIsMade' BY <1>1 DEF ListIsMade
<1>6. AppendsAll' BY <1>1 DEF AppendsAll, Alone
<1>7. Fresh' BY DEF Fresh
<1>8. StoppedIsClosed' BY <1>1 DEF StoppedIsClosed
<1> QED BY <1>2, <1>3, <1>4, <1>5, <1>6, <1>7, <1>8

LEMMA SpawnKeepsInv == ASSUME CInv, NEW d \in Discoverer, Spawn(d) PROVE CInv'
<1> USE DEF CInv
<1>1. /\ Alive /\ main = "spawn" /\ d \in Active /\ starter[d] = "none"
      /\ starter' = [starter EXCEPT ![d] = "adding"]
      /\ todo' = [todo EXCEPT ![d] = Items(made[d])]
      /\ waiter' = [waiter EXCEPT ![d] = "waiting"]
      /\ UNCHANGED <<beat, reloading, config, made, main, item, base, list, stop, closed, crashed>>
  BY DEF Spawn
<1>2. Active' = Active BY <1>1 DEF Active
<1>3. made[d] \in Parts /\ Items(made[d]) \subseteq Item
  BY <1>1 DEF CTypeOK, Active, Items, Parts, Item
<1>4. CTypeOK' BY <1>1, <1>3 DEF CTypeOK
<1>5. MadeFromSettings' BY <1>1, <1>2 DEF MadeFromSettings
<1>6. StartsInOrder' BY <1>1, <1>2 DEF StartsInOrder, Unspawned, CTypeOK
<1>7. ListIsMade' BY <1>1, <1>2 DEF ListIsMade
<1>8. AppendsAll'
  <2>1. item[d] = NoItem BY <1>1 DEF StartsInOrder, Unspawned
  <2> QED BY <1>1, <1>2, <2>1 DEF AppendsAll, Alone, CTypeOK
<1>9. Fresh' BY <1>1 DEF Fresh
<1>10. StoppedIsClosed' BY <1>1, <1>2 DEF StoppedIsClosed, CTypeOK
<1> QED BY <1>4, <1>5, <1>6, <1>7, <1>8, <1>9, <1>10

LEMMA LoadKeepsInv ==
    ASSUME CInv, NEW d \in Discoverer, NEW x \in todo[d], Load(d, x) PROVE CInv'
<1> USE DEF CInv
<1>1. /\ Alive /\ starter[d] = "adding" /\ item[d] = NoItem /\ x \in todo[d]
      /\ item' = [item EXCEPT ![d] = x]
      /\ base' = [base EXCEPT ![d] = OfKind(list, x)]
      /\ UNCHANGED <<beat, reloading, config, made, main, starter, todo, list, waiter, stop,
                    closed, crashed>>
  BY DEF Load
<1>2. Active' = Active /\ d \in Active BY <1>1 DEF Active, StartsInOrder
<1>3. x \in Item /\ OfKind(list, x) \subseteq list BY DEF CTypeOK, OfKind
<1>4. CTypeOK' BY <1>1, <1>3 DEF CTypeOK
<1>5. MadeFromSettings' BY <1>1, <1>2 DEF MadeFromSettings
<1>6. StartsInOrder' BY <1>1, <1>2, <1>3 DEF StartsInOrder, Unspawned, CTypeOK, ListIsMade
<1>7. ListIsMade' BY <1>1, <1>2 DEF ListIsMade
<1>8. AppendsAll' BY <1>1, <1>2 DEF AppendsAll, Alone, CTypeOK
<1>9. Fresh' BY <1>1 DEF Fresh
<1>10. StoppedIsClosed' BY <1>1, <1>2 DEF StoppedIsClosed
<1> QED BY <1>4, <1>5, <1>6, <1>7, <1>8, <1>9, <1>10

LEMMA StoreKeepsInv == ASSUME CInv, NEW d \in Discoverer, Store(d) PROVE CInv'
<1> USE DEF CInv
<1> DEFINE x == item[d]
<1>1. /\ Alive /\ x # NoItem
      /\ list' = (list \ OfKind(list, x)) \cup base[d] \cup {x}
      /\ todo' = [todo EXCEPT ![d] = @ \ {x}]
      /\ item' = [item EXCEPT ![d] = NoItem]
      /\ UNCHANGED <<beat, reloading, config, made, main, starter, base, waiter, stop, closed,
                    crashed>>
  BY DEF Store
<1>2. Active' = Active BY <1>1 DEF Active
<1>3. x \in todo[d] /\ base[d] \subseteq UNION {Items(made[e]) : e \in Active}
  BY <1>1 DEF StartsInOrder
<1>4. starter[d] # "none" BY <1>1 DEF StartsInOrder, Unspawned
<1>5. d \in Active /\ main \notin {"new", "setup"} /\ todo[d] \subseteq Items(made[d])
  BY <1>4 DEF StartsInOrder
<1>6. CTypeOK' BY <1>1, <1>3 DEF CTypeOK
<1>7. MadeFromSettings' BY <1>1, <1>2 DEF MadeFromSettings
<1>8. StartsInOrder' BY <1>1, <1>2, <1>4 DEF StartsInOrder, Unspawned, CTypeOK
<1>9. ListIsMade' BY <1>1, <1>2, <1>3, <1>5 DEF ListIsMade
<1>10. AppendsAll'
  <2> SUFFICES ASSUME NEW e \in Discoverer, Alone(e)
               PROVE  /\ list' = IF starter'[e] = "none" THEN {} ELSE Items(made'[e]) \ todo'[e]
                      /\ item'[e] # NoItem => base'[e] = OfKind(list', item'[e])
    BY <1>1, <1>2 DEF AppendsAll, Alone
  <2>1. e = d BY <1>5 DEF Alone
  <2>2. list = Items(made[d]) \ todo[d] /\ base[d] = OfKind(list, x)
    BY <1>1, <1>4, <2>1 DEF AppendsAll
  <2>3. list' = list \cup {x} BY <1>1, <2>2 DEF OfKind
  <2>4. list' = Items(made[d]) \ (todo[d] \ {x}) BY <1>3, <1>5, <2>2, <2>3
  <2> QED BY <1>1, <1>4, <2>1, <2>4 DEF CTypeOK
<1>11. Fresh' BY <1>1, <1>5 DEF Fresh
<1>12. StoppedIsClosed' BY <1>1, <1>2 DEF StoppedIsClosed
<1> QED BY <1>6, <1>7, <1>8, <1>9, <1>10, <1>11, <1>12

LEMMA WatchKeepsInv == ASSUME CInv, NEW d \in Discoverer, Watch(d) PROVE CInv'
<1> USE DEF CInv
<1>1. /\ Alive /\ starter[d] = "adding" /\ item[d] = NoItem /\ todo[d] = {}
      /\ starter' = [starter EXCEPT ![d] = "run"]
      /\ UNCHANGED <<beat, reloading, config, made, main, todo, item, base, list, waiter, stop,
                    closed, crashed>>
  BY DEF Watch
<1>2. Active' = Active BY <1>1 DEF Active
<1>3. CTypeOK' BY <1>1 DEF CTypeOK
<1>4. MadeFromSettings' BY <1>1, <1>2 DEF MadeFromSettings
<1>5. StartsInOrder' BY <1>1, <1>2 DEF StartsInOrder, Unspawned, CTypeOK
<1>6. ListIsMade' BY <1>1, <1>2 DEF ListIsMade
<1>7. AppendsAll' BY <1>1, <1>2 DEF AppendsAll, Alone, CTypeOK
<1>8. Fresh' BY <1>1 DEF Fresh, CTypeOK
<1>9. StoppedIsClosed' BY <1>1, <1>2 DEF StoppedIsClosed
<1> QED BY <1>3, <1>4, <1>5, <1>6, <1>7, <1>8, <1>9

LEMMA GiveUpKeepsInv == ASSUME CInv, NEW d \in Discoverer, GiveUp(d) PROVE CInv'
<1> USE DEF CInv
<1>1. /\ Alive /\ starter[d] = "run"
      /\ starter' = [starter EXCEPT ![d] = "gaveup"]
      /\ closed' = closed \cup {d} /\ crashed' \in BOOLEAN
      /\ UNCHANGED <<beat, reloading, config, made, main, todo, item, base, list, waiter, stop>>
  BY DEF GiveUp, Close
<1>2. Active' = Active BY <1>1 DEF Active
<1>3. CTypeOK' BY <1>1 DEF CTypeOK
<1>4. MadeFromSettings' BY <1>1, <1>2 DEF MadeFromSettings
<1>5. StartsInOrder' BY <1>1, <1>2 DEF StartsInOrder, Unspawned, CTypeOK
<1>6. ListIsMade' BY <1>1, <1>2 DEF ListIsMade
<1>7. AppendsAll' BY <1>1, <1>2 DEF AppendsAll, Alone, CTypeOK
<1>8. Fresh' BY <1>1 DEF Fresh, CTypeOK
<1>9. StoppedIsClosed' BY <1>1, <1>2 DEF StoppedIsClosed
<1> QED BY <1>3, <1>4, <1>5, <1>6, <1>7, <1>8, <1>9

LEMMA StopDiscovererKeepsInv == ASSUME CInv, NEW d \in Discoverer, StopDiscoverer(d) PROVE CInv'
<1> USE DEF CInv
<1>1. /\ Alive /\ waiter[d] = "waiting"
      /\ waiter' = [waiter EXCEPT ![d] = "stopped"]
      /\ closed' = closed \cup {d} /\ crashed' \in BOOLEAN
      /\ UNCHANGED <<beat, reloading, config, made, main, starter, todo, item, base, list, stop>>
  BY DEF StopDiscoverer, Close
<1>2. Active' = Active BY <1>1 DEF Active
<1>3. starter[d] # "none" BY <1>1 DEF StartsInOrder, Unspawned
<1>4. CTypeOK' BY <1>1 DEF CTypeOK
<1>5. MadeFromSettings' BY <1>1, <1>2 DEF MadeFromSettings
<1>6. StartsInOrder' BY <1>1, <1>2, <1>3 DEF StartsInOrder, Unspawned, CTypeOK
<1>7. ListIsMade' BY <1>1, <1>2 DEF ListIsMade
<1>8. AppendsAll' BY <1>1, <1>2 DEF AppendsAll, Alone
<1>9. Fresh' BY <1>1, <1>3 DEF Fresh
<1>10. StoppedIsClosed' BY <1>1, <1>2 DEF StoppedIsClosed, CTypeOK
<1> QED BY <1>4, <1>5, <1>6, <1>7, <1>8, <1>9, <1>10

LEMMA StepKeepsInv == CInv /\ [CNext]_cvars => CInv'
<1> SUFFICES ASSUME CInv, [CNext]_cvars PROVE CInv' OBVIOUS
<1>1. main \in {"new", "setup", "spawn", "inner", "wait", "returned", "failed"}
      /\ stop \in {"idle", "inner", "done"} /\ crashed \in BOOLEAN
  BY DEF CInv, CTypeOK
<1>2. CASE New BY <1>2, NewKeepsInv
<1>3. CASE Setup BY <1>1, <1>3, ControlKeepsInv DEF Setup
<1>4. CASE RunInner BY <1>1, <1>4, ControlKeepsInv DEF RunInner
<1>5. CASE InnerReturns BY <1>1, <1>5, ControlKeepsInv DEF InnerReturns
<1>6. CASE Waited BY <1>1, <1>6, ControlKeepsInv DEF Waited
<1>7. CASE StopInner BY <1>1, <1>7, ControlKeepsInv DEF StopInner
<1>8. CASE CloseDone
  <2>1. main # "new" BY <1>8 DEF CloseDone, CInv, Fresh
  <2> QED BY <1>1, <1>8, <2>1, ControlKeepsInv DEF CloseDone
<1>9. ASSUME NEW d \in Discoverer, Panic(d) PROVE CInv'
  <2>1. main # "new" BY <1>9 DEF Panic, CInv, Fresh
  <2> QED BY <1>1, <1>9, <2>1, ControlKeepsInv DEF Panic
<1>10. ASSUME NEW d \in Discoverer, Spawn(d) PROVE CInv' BY <1>10, SpawnKeepsInv
<1>11. ASSUME NEW d \in Discoverer, Start(d) PROVE CInv'
  BY <1>11, LoadKeepsInv, StoreKeepsInv, WatchKeepsInv DEF Start
<1>12. ASSUME NEW d \in Discoverer, GiveUp(d) PROVE CInv' BY <1>12, GiveUpKeepsInv
<1>13. ASSUME NEW d \in Discoverer, StopDiscoverer(d) PROVE CInv'
  BY <1>13, StopDiscovererKeepsInv
<1>14. CASE UNCHANGED cvars
  BY <1>14 DEF cvars, CInv, CTypeOK, MadeFromSettings, StartsInOrder, Unspawned, ListIsMade,
     AppendsAll, Alone, Fresh, StoppedIsClosed, Active
<1> QED
  BY <1>2, <1>3, <1>4, <1>5, <1>6, <1>7, <1>8, <1>9, <1>10, <1>11, <1>12, <1>13, <1>14
  DEF CNext, Main, InnerStops, InnerFails
----
(* The theorems *)

\* The process is well typed, for any discoverers, plug-ins and settings.
THEOREM CollectbeatTypeCorrect == CSpec => []CTypeOK
<1>1. CInv => CTypeOK BY DEF CInv
<1> QED BY InitInv, StepKeepsInv, <1>1, PTL DEF CSpec

LEMMA InvBuildersAsConfigured == CInv => BuildersAsConfigured
<1> SUFFICES ASSUME CInv, NEW x \in list, x[1] = "builder"
             PROVE  /\ x[2] \notin Broken
                    /\ \E d \in Active : x[2] \in config[d].builders \cup OwnDefaults
  BY DEF BuildersAsConfigured
<1>1. PICK d \in Active : x \in Items(made[d]) BY DEF CInv, ListIsMade
<1>2. x[2] \in made[d].builders BY <1>1 DEF Items
<1>3. config[d] \in Settings /\ made[d] \in Constructed(beat, config[d])
  <2>1. config[d] \in Settings \cup {NoSettings} BY <1>1 DEF CInv, CTypeOK, Active
  <2> QED BY <1>1, <2>1 DEF CInv, MadeFromSettings
<1>4. x[2] \in Wanted(config[d]) BY <1>2, <1>3, ConstructedBuilders
<1> QED BY <1>1, <1>3, <1>4, WantedBuilders

\* No builder is asked that failed to be constructed, or has another one's configuration,
\* although the loop over the defaults keeps the address of its variable.
THEOREM AskedAsConfigured == CSpec => []BuildersAsConfigured
BY InitInv, StepKeepsInv, InvBuildersAsConfigured, PTL DEF CSpec

LEMMA InvEveryBuilderAsked == CInv => EveryBuilderAsked
<1> SUFFICES ASSUME CInv, NEW d \in Discoverer, Alone(d), starter[d] \in {"run", "gaveup"}
             PROVE  {"builder"} \X Wanted(config[d]) \subseteq list
  BY DEF EveryBuilderAsked
<1>1. d \in Active BY DEF Alone
<1>2. config[d] \in Settings /\ made[d] \in Constructed(beat, config[d])
  <2>1. config[d] \in Settings \cup {NoSettings} BY DEF CInv, CTypeOK
  <2> QED BY <1>1, <2>1 DEF CInv, MadeFromSettings
<1>3. made[d].builders = Wanted(config[d]) BY <1>2, ConstructedBuilders
<1>4. list = Items(made[d]) BY DEF CInv, AppendsAll, StartsInOrder
<1> QED BY <1>3, <1>4 DEF Items

\* A single discoverer's worker asks every builder there is to ask, from its first pod on.
THEOREM AskedInFull == CSpec => []EveryBuilderAsked
BY InitInv, StepKeepsInv, InvEveryBuilderAsked, PTL DEF CSpec

\* Run of metricbeat leaves no discoverer behind, whenever Stop was called.
THEOREM NoneLeftBehind == CSpec => []ReturnsAfterDiscoverers
<1>1. CInv => ReturnsAfterDiscoverers
  BY DEF CInv, StoppedIsClosed, ReturnsAfterDiscoverers, Active
<1> QED BY InitInv, StepKeepsInv, <1>1, PTL DEF CSpec
----
(* Queues that are closed twice *)

\* A discoverer's queue is closed by its own timeout or by the goroutine that waits for
\* Stop; if by both, the second of them has panicked.
ClosedByWhom ==
    \A d \in Discoverer :
        /\ d \in closed =>
              starter[d] = "gaveup" \/ (waiter[d] = "stopped" /\ stop = "done")
        /\ starter[d] = "gaveup" => d \in closed
        /\ starter[d] = "gaveup" /\ waiter[d] = "stopped" => crashed

\* Run returns only in a process that is alive.
ReturnedAlive == main = "returned" => ~crashed

ClosingInv == ClosedByWhom /\ ReturnedAlive

LEMMA ClosingInit == CInit => ClosingInv
BY DEF CInit, ClosingInv, ClosedByWhom, ReturnedAlive

\* What the main goroutine, Stop and a panicking watcher do to it: no queue is closed, and
\* nothing is undone.
LEMMA ControlKeepsClosing ==
    ASSUME ClosingInv, UNCHANGED <<starter, waiter, closed>>, crashed => crashed',
           stop' = stop \/ stop # "done", main' = "returned" => ~crashed'
    PROVE  ClosingInv'
<1>1. stop = "done" => stop' = "done" OBVIOUS
<1>2. ClosedByWhom' BY <1>1 DEF ClosingInv, ClosedByWhom
<1>3. ReturnedAlive' BY DEF ReturnedAlive
<1> QED BY <1>2, <1>3 DEF ClosingInv

LEMMA GiveUpKeepsClosing ==
    ASSUME CInv, ClosingInv, NEW d \in Discoverer, GiveUp(d) PROVE ClosingInv'
<1>1. /\ Alive /\ starter[d] = "run"
      /\ starter' = [starter EXCEPT ![d] = "gaveup"]
      /\ closed' = closed \cup {d} /\ crashed' = (d \in closed)
      /\ UNCHANGED <<main, waiter, stop>>
  BY DEF GiveUp, Close
<1>2. starter \in [Discoverer -> {"none", "adding", "run", "gaveup"}]
      /\ waiter \in [Discoverer -> {"none", "waiting", "stopped"}] /\ closed \subseteq Discoverer
  BY DEF CInv, CTypeOK
<1>3. ~crashed BY <1>1 DEF Alive
<1>4. waiter[d] = "stopped" => d \in closed BY DEF CInv, StoppedIsClosed
<1>5. ClosedByWhom' BY <1>1, <1>2, <1>3, <1>4 DEF ClosingInv, ClosedByWhom
<1>6. ReturnedAlive' BY <1>1 DEF ReturnedAlive, Alive
<1> QED BY <1>5, <1>6 DEF ClosingInv

LEMMA StopDiscovererKeepsClosing ==
    ASSUME CInv, ClosingInv, NEW d \in Discoverer, StopDiscoverer(d) PROVE ClosingInv'
<1>1. /\ Alive /\ stop = "done" /\ waiter[d] = "waiting"
      /\ waiter' = [waiter EXCEPT ![d] = "stopped"]
      /\ closed' = closed \cup {d} /\ crashed' = (d \in closed)
      /\ UNCHANGED <<main, starter, stop>>
  BY DEF StopDiscoverer, Close
<1>2. waiter \in [Discoverer -> {"none", "waiting", "stopped"}] BY DEF CInv, CTypeOK
<1>3. ~crashed BY <1>1 DEF Alive
<1>4. ClosedByWhom' BY <1>1, <1>2, <1>3 DEF ClosingInv, ClosedByWhom
<1>5. ReturnedAlive' BY <1>1 DEF ReturnedAlive, Alive
<1> QED BY <1>4, <1>5 DEF ClosingInv

\* Start appends to the list, and then runs the watcher, which closes nothing.
LEMMA StartKeepsClosing ==
    ASSUME CInv, ClosingInv, NEW d \in Discoverer, Start(d) \/ Spawn(d) PROVE ClosingInv'
<1>1. /\ Alive /\ starter[d] # "gaveup"
      /\ UNCHANGED <<main, stop, closed, crashed>>
      /\ \/ UNCHANGED <<starter, waiter>>
         \/ starter' = [starter EXCEPT ![d] = "run"] /\ UNCHANGED waiter
         \/ /\ starter' = [starter EXCEPT ![d] = "adding"]
            /\ waiter' = [waiter EXCEPT ![d] = "waiting"]
            /\ starter[d] = "none"
  <2>1. item[d] # NoItem => starter[d] # "gaveup" BY DEF CInv, StartsInOrder
  <2> QED BY <2>1 DEF Start, Load, Store, Watch, Spawn
<1>2. starter \in [Discoverer -> {"none", "adding", "run", "gaveup"}]
      /\ waiter \in [Discoverer -> {"none", "waiting", "stopped"}]
  BY DEF CInv, CTypeOK
<1>3. ~crashed /\ ~crashed' BY <1>1 DEF Alive
<1>4. starter[d] = "none" => waiter[d] = "none" BY DEF CInv, StartsInOrder, Unspawned
<1>5. ClosedByWhom' BY <1>1, <1>2, <1>3, <1>4 DEF ClosingInv, ClosedByWhom
<1>6. ReturnedAlive' BY <1>3 DEF ReturnedAlive
<1> QED BY <1>5, <1>6 DEF ClosingInv

LEMMA ClosingStep == CInv /\ ClosingInv /\ [CNext]_cvars => ClosingInv'
<1> SUFFICES ASSUME CInv, ClosingInv, [CNext]_cvars PROVE ClosingInv' OBVIOUS
<1>1. main = "returned" => ~crashed BY DEF ClosingInv, ReturnedAlive
<1>2. CASE New
  <2>1. ~crashed BY <1>2 DEF New, Alive
  <2> QED BY <1>2, <2>1, ControlKeepsClosing DEF New
<1>3. CASE Setup BY <1>3, ControlKeepsClosing DEF Setup
<1>4. CASE RunInner BY <1>4, ControlKeepsClosing DEF RunInner
<1>5. CASE Alive /\ InnerReturns BY <1>5, ControlKeepsClosing DEF InnerReturns, Alive
<1>6. CASE Waited BY <1>6, ControlKeepsClosing DEF Waited, Alive
<1>7. CASE StopInner BY <1>1, <1>7, ControlKeepsClosing DEF StopInner
<1>8. CASE CloseDone BY <1>1, <1>8, ControlKeepsClosing DEF CloseDone
<1>9. CASE UNCHANGED cvars BY <1>1, <1>9, ControlKeepsClosing DEF cvars
<1>10. ASSUME NEW d \in Discoverer, Panic(d) PROVE ClosingInv'
  BY <1>10, ControlKeepsClosing DEF Panic, Alive
<1>11. ASSUME NEW d \in Discoverer, Start(d) \/ Spawn(d) PROVE ClosingInv'
  BY <1>11, StartKeepsClosing
<1>12. ASSUME NEW d \in Discoverer, GiveUp(d) PROVE ClosingInv' BY <1>12, GiveUpKeepsClosing
<1>13. ASSUME NEW d \in Discoverer, StopDiscoverer(d) PROVE ClosingInv'
  BY <1>13, StopDiscovererKeepsClosing
<1> QED
  BY <1>2, <1>3, <1>4, <1>5, <1>6, <1>7, <1>8, <1>9, <1>10, <1>11, <1>12, <1>13
  DEF CNext, Main, InnerStops, InnerFails

ReturnsWithoutTimeouts ==
    main = "returned" /\ beat = "metricbeat" => \A d \in Active : starter[d] # "gaveup"

\* The queue of a discoverer that timed out is closed again by Stop, which ends the
\* process: if Run of metricbeat returns, no discoverer had timed out (podwatcher.go:208-211,
\* metricbeat.go:100-122).
THEOREM TimeoutsSpoilTheReturn == CSpec => []ReturnsWithoutTimeouts
<1>1. CInv /\ ClosingInv => ReturnsWithoutTimeouts
  BY DEF CInv, StoppedIsClosed, ClosingInv, ClosedByWhom, ReturnedAlive,
     ReturnsWithoutTimeouts, Active
<1> QED BY InitInv, StepKeepsInv, ClosingInit, ClosingStep, <1>1, PTL DEF CSpec
====
