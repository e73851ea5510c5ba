---- MODULE Collection ----
(***************************************************************************)
(* What the discoverer promises its operator, seen from outside: it knows  *)
(* some pods, and it collects from exactly the endpoints those pods ask    *)
(* for, except for endpoints whose deployment or removal it has reported   *)
(* as failed.  An endpoint whose configuration is not a function of its    *)
(* pod may go on being collected from when its pod is gone, but is never   *)
(* collected from uninvited.  PodStore is shown to implement this.         *)
(***************************************************************************)
CONSTANTS UID, NoPod, Pod, Endpoint,
          Wanted(_),      \* the endpoints a pod asks to be collected from
          Unstable        \* the endpoints that may be collected from for too long

VARIABLES known,      \* [UID -> Pod or NoPod]: the last state heard of each pod
          collected,  \* the endpoints being collected from
          reported    \* the endpoints an error has been logged about

cvars == <<known, collected, reported>>

\* The endpoints asked for by the pods of the function k.
AllWanted(k) == UNION {Wanted(k[u]) : u \in {v \in UID : k[v] # NoPod}}

CInit ==
    /\ known = [u \in UID |-> NoPod]
    /\ collected = {}
    /\ reported = {}

\* The news of one pod: x is its new state, or NoPod when it is going away.
Hear(u, x) ==
    /\ known' = [known EXCEPT ![u] = x]
    /\ reported' \in SUBSET Endpoint /\ reported \subseteq reported'
    /\ collected' \in SUBSET Endpoint
    /\ collected' \ collected \subseteq AllWanted(known')
    /\ AllWanted(known') \ collected' \subseteq reported'
    /\ collected' \ AllWanted(known') \subseteq reported' \cup Unstable

CNext == \E u \in UID, x \in Pod \cup {NoPod} : Hear(u, x)

CSpec == CInit /\ [][CNext]_cvars
====
