---- MODULE MCPodWatcher ----
(* Instances of PodWatcher for TLC: two pods with one address each. *)
EXTENDS PodWatcher

CONSTANTS u1, u2, a1, a2, app, fwd, m1, m2, k1

\* The pods name their metric sets: the order of unnamed ones is PodStore's question.
ListingsOf == [m \in Module |-> {fwd}]

AddressOf == (u1 :> a1) @@ (u2 :> a2)
MetaOf == (u1 :> m1) @@ (u2 :> m2)

\* A pod runs and is annotated or not, or is in its grace period.
Object(u, v, ask, del) ==
    [uid |-> u, rv |-> v, idx |-> {AddressOf[u]}, ask |-> ask, spec |-> app,
     meta |-> MetaOf[u], del |-> del]

\* u1 may lose its annotations; u2 keeps them.
Asks == (u1 :> {a1, NoAddress}) @@ (u2 :> {a2})

Objects ==
    UNION {{Object(u, v, a, FALSE) : v \in Version, a \in Asks[u]}
           \cup {Object(u, v, AddressOf[u], TRUE) : v \in Version} : u \in UID}
====
