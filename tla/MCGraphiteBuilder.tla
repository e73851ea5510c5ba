---- MODULE MCGraphiteBuilder ----
(* Instances of GraphiteBuilder for TLC. *)
EXTENDS GraphiteBuilder

CONSTANTS f1, f2, fb, k1, k2, t1, t2

T(f, k, t) == [filter |-> f, key |-> k, tags |-> t]

\* Pods that agree and disagree on f1, override the base filter, are disabled, or have
\* no template.
Pods == [off : {FALSE},
         templ : {T(f1, k1, t1), T(f1, k1, t2), T(f1, k2, t1), T(f2, k1, t1),
                  T(fb, k1, t1), NoTemplate}]
        \cup [off : {TRUE}, templ : {T(f1, k1, t1)}]

\* At most three servers accumulate.
FewServers == Cardinality(servers) <= 3

Names == Permutations(Name)
====
