---- MODULE MCModuleBuilders ----
(* Two pods of two containers each, one address for pods on the host's      *)
(* network, three container ids, one of them without a runtime before it.   *)
EXTENDS ModuleBuilders, TLC

CONSTANTS n1, n2, d1, d2

At(p) == [port |-> p, path |-> FALSE]
Below(p) == [port |-> p, path |-> TRUE]

MCStatuses == <<"app", "proxy">>

Sets == [prometheus |-> {"collector", "stats"}, redis |-> {"info", "keyspace"}, other |-> {}]

Plain == [off |-> {}, type |-> NoType, ns |-> NoNamespace, eps |-> <<Blank>>, scheme |-> FALSE,
          sets |-> NoSets, secret |-> FALSE, multiline |-> {}, ports |-> {1}]

\* Prometheus behind a path, with a token; redis over https with its metric sets named and
\* the logs of one container off, and on another port with all that are registered; a
\* Secret, without logs; and two that stop at a guard: no namespace, no registered set.
Annotations == {
    [Plain EXCEPT !.type = "prometheus", !.ns = "apiserver", !.eps = <<Blank, Below(1)>>,
                  !.multiline = {"app"}],
    [Plain EXCEPT !.type = "redis", !.eps = <<At(1), At(1)>>, !.scheme = TRUE,
                  !.sets = <<"info", "">>, !.off = {"proxy"}],
    [Plain EXCEPT !.type = "redis", !.eps = <<At(2)>>, !.ports = {2}, !.scheme = TRUE,
                  !.off = {"logs"}],
    [Plain EXCEPT !.secret = TRUE, !.ports = {2}, !.off = {"logs"}],
    [Plain EXCEPT !.type = "prometheus", !.eps = <<At(1)>>],
    [Plain EXCEPT !.type = "other", !.eps = <<At(1)>>] }

Contents == {<<[type |-> "redis", ns |-> NoNamespace, eps |-> <<Below(2)>>],
               [type |-> "prometheus", ns |-> "apiserver", eps |-> <<At(2)>>]>>, <<>>}

Symmetric == Permutations({n1, n2}) \cup Permutations({d1, d2})
====
