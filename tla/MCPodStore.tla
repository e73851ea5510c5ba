---- MODULE MCPodStore ----
(* Instances of PodStore for TLC: two pods with two addresses each. *)
EXTENDS PodStore

CONSTANTS u1, u2, a1, a2, b1, app, api, db, m1, m2, m3, k1, k2, fwd, bwd

P(u, v, i, a, s, m, d) ==
    [uid |-> u, rv |-> v, idx |-> i, ask |-> a, spec |-> s, meta |-> m, del |-> d]

\* Of db two metric sets are registered and its pods name none; the others name theirs.
ListingsOf == [m \in Module |-> IF m = db THEN {fwd, bwd} ELSE {fwd}]

\* u1: pending without an IP; running and annotated; a change of nothing that is collected;
\* moved to another address and secured, with other labels; annotated with a path, so that
\* its endpoint is not an index; going away, with its address and, after missed events,
\* with the other one.
\* u2: running and secured; a database; a change of nothing that is collected; going away.
Events ==
    {P(u1, 1, {}, NoAddress, app, m1, FALSE),
     P(u1, 2, {a1}, a1, app, m1, FALSE),
     P(u1, 3, {a1}, a1, app, m1, FALSE),
     P(u1, 4, {a1, a2}, a2, api, m2, FALSE),
     P(u1, 5, {a1}, a2, app, m2, FALSE),
     P(u1, 6, {a1}, a1, app, m2, TRUE),
     P(u1, 7, {a2}, a2, app, m2, TRUE),
     P(u2, 2, {b1}, b1, api, m3, FALSE),
     P(u2, 5, {b1}, b1, db, m3, FALSE),
     P(u2, 6, {b1}, b1, db, m3, FALSE),
     P(u2, 4, {b1}, b1, api, m3, TRUE)}

\* A job's pod u1 completes and keeps its address a1 in its status while the node gives
\* a1 to u2, the job's next pod, with the same annotations; then u1 is deleted.  The
\* endpoint a2 is a1 with a path ("ip:8080/metrics"), which no indexer knows.
ReuseEvents ==
    {P(u1, 1, {a1}, a2, app, m1, FALSE),
     P(u1, 2, {a1}, a2, app, m1, TRUE),
     P(u2, 3, {a1}, a2, app, m2, FALSE)}
====
