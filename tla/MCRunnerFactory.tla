---- MODULE MCRunnerFactory ----
(* Instances of RunnerFactory for TLC. *)
EXTENDS RunnerFactory

CONSTANTS p1, p2, p3, c1, c2, c3, c4, c5, none, one, two, s0, s1, s2, t2

\* A pod with two log files, one with an endpoint, and one whose endpoint has two metric
\* sets that its annotations do not name.
ListsOf == [p \in Pod |-> CASE p = p1 -> {<<c1, c2>>}
                             [] p = p2 -> {<<c3>>}
                             [] p = p3 -> {<<c4>>, <<c5>>}]

\* No template, one, and that one with another.
BuiltOf == [k \in Registry |-> CASE k = none -> {s0}
                                  [] k = one -> {s1}
                                  [] k = two -> {s2, t2}]
====
