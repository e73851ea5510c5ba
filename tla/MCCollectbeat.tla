---- MODULE MCCollectbeat ----
(* Two discoverers, of which none, one or both are configured. *)
EXTENDS Collectbeat, TLC

CONSTANTS d1, d2, custom, blank

MCConf == {Empty, custom, blank}

\* A custom configuration is one the metrics builder cannot unpack, and one that sends the
\* log_path appender to a Docker daemon that does not answer.
MCBroken == {<<"metrics_annotations", custom>>, <<"log_path", custom>>}

\* prefix: ""
MCFatal == {<<"metrics_annotations", blank>>}

Base == [enabled |-> TRUE, sound |-> TRUE, defaultBuilders |-> TRUE, defaultAppenders |-> TRUE,
         builders |-> {}, appenders |-> {}]

\* The defaults; disabled; no client; a plug-in nobody registered and two that work; a
\* builder that fails, with the default builders and without; one whose constructor panics;
\* an appender that fails, with the default appenders and without.
First == {
    Base, [Base EXCEPT !.enabled = FALSE], [Base EXCEPT !.sound = FALSE],
    [Base EXCEPT !.builders = {<<"unknown", Empty>>, <<"graphite_annotations", custom>>,
                               <<"metrics_secret", custom>>}],
    [Base EXCEPT !.builders = {<<"metrics_annotations", custom>>}],
    [Base EXCEPT !.builders = {<<"metrics_annotations", custom>>}, !.defaultBuilders = FALSE],
    [Base EXCEPT !.builders = {<<"metrics_annotations", blank>>}],
    [Base EXCEPT !.appenders = {<<"log_path", custom>>}],
    [Base EXCEPT !.appenders = {<<"log_path", custom>>}, !.defaultAppenders = FALSE] }

Second == {[Base EXCEPT !.defaultBuilders = FALSE, !.defaultAppenders = FALSE,
                        !.builders = {<<"log_annotations", custom>>}]}

MCConfigs == {(d1 :> s1) @@ (d2 :> s2) :
                 s1 \in First \cup {NoSettings}, s2 \in Second \cup {NoSettings}}
====
