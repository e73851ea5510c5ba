---- MODULE Plugins ----
(***************************************************************************)
(* How the plug-ins of a discoverer are chosen and constructed: the        *)
(* builders and appenders that Go's init functions register, the default   *)
(* configurations a beat registers for them, and newKubernetesDiscoverer,  *)
(* which constructs what the settings and the defaults name                *)
(* (discoverer/kubernetes/kubernetes.go, common/registry).  A discoverer   *)
(* loaded as a plug-in is taken to be constructed in the same way.  A      *)
(* plug-in that is named twice with one configuration counts once: asked   *)
(* twice, a builder gives the same list, and the factory deploys it once.  *)
(***************************************************************************)

CONSTANTS
    Name,       \* plug-in names that settings may use, registered or not
    Conf,       \* configurations of a plug-in
    Empty,      \* common.NewConfig(): no settings
    Broken,     \* the <<name, configuration>> whose constructor returns an error
    Fatal,      \* ... or panics: the builders that look at the end of an empty prefix
    NoSettings, Nil

Plugin == Name \X Conf

\* A discoverer's part of the configuration file.  sound: it can be unpacked, and gives a
\* Kubernetes client; the two defaults: default_builders and default_appenders.
Settings == [enabled : BOOLEAN, sound : BOOLEAN,
             defaultBuilders : BOOLEAN, defaultAppenders : BOOLEAN,
             builders : SUBSET Plugin, appenders : SUBSET Plugin]

RegisteredBuilders ==
    {"metrics_annotations", "metrics_secret", "log_annotations", "graphite_annotations"}
RegisteredAppenders == {"auth", "log_path"}

ASSUME PluginsAssumption ==
    /\ RegisteredBuilders \cup RegisteredAppenders \subseteq Name
    /\ Empty \in Conf
    /\ Broken \subseteq Plugin /\ Fatal \subseteq RegisteredBuilders \X Conf
    /\ NoSettings \notin Settings /\ Nil \notin Plugin

\* What a discoverer is made of.
Parts == [builders : SUBSET Plugin, appenders : SUBSET (Plugin \cup {Nil})]
----
DefaultNames(beat) ==
    IF beat = "metricbeat" THEN {"metrics_annotations", "metrics_secret"}
                           ELSE {"log_annotations"}

\* Mutant of DefaultBuilders: the defaults of one beat differ, for any of the other
\* configurations.
DefaultBuildersApart(beat) ==
    [n \in DefaultNames(beat) |->
        IF n = "metrics_secret" THEN CHOOSE c \in Conf : c # Empty ELSE Empty]

\* registerDefaultBuilderConfigs: one empty configuration for all.
DefaultBuilders(beat) == [n \in DefaultNames(beat) |-> Empty]

DefaultAppenders == [n \in {"auth"} |-> Empty]

\* The plug-ins named by the settings and, if asked for, by the defaults.  The loop over
\* the defaults keeps the address of its variable, so each default plug-in ends up with
\* the configuration of the one that the map happened to give last.
Listed(own, on, defaults) ==
    IF ~on THEN {own} ELSE
    {own \cup {<<n, defaults[last]>> : n \in DOMAIN defaults} : last \in DOMAIN defaults}

\* Mutant of MadeBuilders: a builder whose constructor fails is kept, as nil.
MadeBuildersWithNil(es) ==
    {IF e \in Broken THEN Nil ELSE e : e \in {x \in es : x[1] \in RegisteredBuilders}}

\* Unknown names are skipped, and so is a builder whose constructor fails.
MadeBuilders(es) == {e \in es : e[1] \in RegisteredBuilders /\ e \notin Broken}

\* An appender whose constructor fails is appended nevertheless, as nil.
MadeAppenders(es) ==
    {IF e \in Broken THEN Nil ELSE e : e \in {x \in es : x[1] \in RegisteredAppenders}}

\* The lists of builders and of appenders that settings s come to.
ListedBuilders(beat, s) == Listed(s.builders, s.defaultBuilders, DefaultBuilders(beat))
ListedAppenders(s) == Listed(s.appenders, s.defaultAppenders, DefaultAppenders)

\* newKubernetesDiscoverer may panic: the constructor of a listed builder does.
MayPanic(beat, s) == s.sound /\ \E bs \in ListedBuilders(beat, s) : bs \cap Fatal # {}

\* The discoverers it may return for settings s; it returns an error when they do not hold
\* together, or leave no builder.
Constructed(beat, s) ==
    {p \in {[builders |-> MadeBuilders(bs), appenders |-> MadeAppenders(as)] :
               bs \in {l \in ListedBuilders(beat, s) : l \cap Fatal = {}},
               as \in ListedAppenders(s)} :
        s.sound /\ p.builders # {}}
====
