---- MODULE Factory ----
(***************************************************************************)
(* What a factory promises its callers, the builders (the interface        *)
(* factory.Factory of discoverer/common/factory): what is deployed, what   *)
(* a call still owes, and what an error was returned about.  A replacement *)
(* never deploys the new configuration beside the old one; whatever is not *)
(* deployed or withdrawn as asked is reported; nothing is deployed         *)
(* unasked.  CfgfileFactory and RunnerFactory are shown to implement it.   *)
(***************************************************************************)
CONSTANT Config

VARIABLES alive,      \* is the process running?
          deployed,   \* the configurations that count as running
          owed,       \* those the current call has still to deploy
          reported    \* those whose latest operation may have ended in an error

pvars == <<alive, deployed, owed, reported>>

\* Start is called with cs.
Ask(cs) ==
    /\ alive /\ owed = {} /\ owed' = cs
    /\ UNCHANGED <<alive, deployed, reported>>

\* One of them is deployed, or was already.
Deploy(c) ==
    /\ alive /\ c \in owed /\ owed' = owed \ {c}
    /\ deployed' = deployed \cup {c}
    /\ reported' \in {reported, reported \ {c}}
    /\ UNCHANGED alive

\* An error ends the call: all it still owes is reported.
GiveUp ==
    /\ alive /\ owed # {} /\ owed' = {}
    /\ reported' = reported \cup owed
    /\ UNCHANGED <<alive, deployed>>

\* c is withdrawn, by Stop, or by Restart to be replaced by the configurations of next.
Withdraw(c, next) ==
    /\ alive /\ owed = {} /\ owed' = next
    /\ deployed' = deployed \ {c}
    /\ reported' \in {reported, reported \ {c}}
    /\ UNCHANGED alive

\* c cannot be withdrawn: it stays, and nothing takes its place.
Refuse(c) ==
    /\ alive /\ owed = {} /\ c \in deployed
    /\ reported' = reported \cup {c}
    /\ UNCHANGED <<alive, deployed, owed>>

\* The process dies, and starts over without a memory of what was deployed.
Die ==
    /\ alive /\ alive' = FALSE
    /\ deployed' = {} /\ owed' = {}
    /\ UNCHANGED reported
StartOver ==
    /\ ~alive /\ alive' = TRUE
    /\ reported' \in SUBSET Config
    /\ UNCHANGED <<deployed, owed>>

PInit == alive \in BOOLEAN /\ deployed = {} /\ owed = {} /\ reported = {}

PNext ==
    \/ \E cs \in SUBSET Config : Ask(cs)
    \/ GiveUp \/ Die \/ StartOver
    \/ \E c \in Config : \/ Deploy(c) \/ Withdraw(c, {}) \/ Refuse(c)
                         \/ \E d \in Config : Withdraw(c, {d})

PSpec == PInit /\ [][PNext]_pvars
====
