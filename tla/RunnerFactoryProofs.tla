---- MODULE RunnerFactoryProofs ----
(***************************************************************************)
(* Proofs about RunnerFactory, for any pods, contents of the registry and  *)
(* failures of creation.  The map of runners and what runs agree because   *)
(* nothing is started that has an entry, but a server that may be built in *)
(* several ways: the entries of poller configurations belong to pods the   *)
(* caller knows or is stopping, as long as the mutex is not locked for     *)
(* ever, and of the servers that are built alike each time only the one    *)
(* asked for, or the one a Restart is about to stop, has an entry.         *)
(***************************************************************************)
EXTENDS RunnerFactory, TLAPS

Todo == ToSet(call.todo)
Restarting == call.op \in {"compare", "swap"}

CallOK ==
    /\ call \in [op : {"idle", "start", "stop", "compare", "swap"}, todo : Seq(Config)]
    /\ (call.todo = <<>>) = (call.op = "idle")

\* What a Start has still to do is named once, and has no entry yet unless it waits for
\* ever or is a server that may be built in several ways.
NotYetStarted ==
    call.op = "start" =>
        /\ IsInjective(call.todo)
        /\ locked \/ \A c \in Todo : Steady(c) => c \notin runners

OfKnown(c) == \E p \in known : c \in Of(p)

PodsKnown ==
    /\ \A c \in runners \cap Poller : OfKnown(c) \/ call.op = "stop" \/ locked
    /\ call.op = "start" => \A c \in Todo \cap Poller : OfKnown(c)
    /\ call.op = "stop" => Todo \subseteq Poller

ServerKnown ==
    /\ Restarting => /\ Len(call.todo) = 2 /\ call.todo[1] \in Server
                     /\ call.todo[2] \in Built[asked]
    /\ \A s \in runners \cap Server :
          Steady(s) => IF Restarting THEN s = call.todo[1] ELSE s \in Built[asked]
    /\ call.op = "swap" => ~(call.todo[1] = call.todo[2] /\ call.todo[1] \in runners)
    /\ call.op = "start" => Todo \cap Server \subseteq Built[asked]

\* Whatever has an entry runs.
EntriesRun == \A c \in runners : running[c] > 0

RInv ==
    /\ RTypeOK /\ CallOK /\ EntriesRun /\ NothingLeaks /\ NotYetStarted
    /\ PodsKnown /\ ServerKnown
----
(* Sequences *)

\* The first element and the rest of a sequence.
LEMMA HeadAndTail ==
    ASSUME NEW S, NEW s \in Seq(S), s # <<>>
    PROVE  /\ Head(s) \in S /\ Head(s) \in ToSet(s) /\ ToSet(s) \subseteq S
           /\ Tail(s) \in Seq(S)
           /\ ToSet(s) = {Head(s)} \cup ToSet(Tail(s))
           /\ IsInjective(s) => IsInjective(Tail(s)) /\ Head(s) \notin ToSet(Tail(s))
           /\ (Len(s) = 1) = (Tail(s) = <<>>)
<1>1. Len(s) \in Nat \ {0} /\ DOMAIN s = 1..Len(s) /\ Head(s) = s[1]
  OBVIOUS
<1>2. /\ Tail(s) \in Seq(S) /\ Len(Tail(s)) = Len(s) - 1
      /\ \A i \in 1..(Len(s) - 1) : Tail(s)[i] = s[i + 1]
  OBVIOUS
<1>3. DOMAIN Tail(s) = 1..(Len(s) - 1)
  BY <1>2
<1>5. ToSet(Tail(s)) = {s[i] : i \in 2..Len(s)}
  <2>1. ToSet(Tail(s)) = {Tail(s)[i] : i \in 1..(Len(s) - 1)}
    BY <1>3, Zenon DEF ToSet
  <2>2. \A i \in 1..(Len(s) - 1) : i + 1 \in 2..Len(s) /\ Tail(s)[i] = s[i + 1]
    BY <1>1, <1>2
  <2>3. \A i \in 2..Len(s) : i - 1 \in 1..(Len(s) - 1) /\ Tail(s)[i - 1] = s[i]
    BY <1>1, <1>2
  <2>4. {Tail(s)[i] : i \in 1..(Len(s) - 1)} \subseteq {s[i] : i \in 2..Len(s)}
    BY <2>2
  <2>5. {s[i] : i \in 2..Len(s)} \subseteq {Tail(s)[i] : i \in 1..(Len(s) - 1)}
    BY <2>3
  <2> QED BY <2>1, <2>4, <2>5
<1>6. ToSet(s) = {s[1]} \cup {s[i] : i \in 2..Len(s)}
  BY <1>1 DEF ToSet
<1>7. ToSet(s) \subseteq S
  BY <1>1 DEF ToSet
<1>8. IsInjective(s) => IsInjective(Tail(s)) /\ Head(s) \notin ToSet(Tail(s))
  BY <1>1, <1>2, <1>3, <1>5 DEF IsInjective
<1>9. (Len(s) = 1) = (Tail(s) = <<>>)
  BY <1>1, <1>2
<1> QED BY <1>1, <1>2, <1>5, <1>6, <1>7, <1>8, <1>9

\* The elements of short sequences.
LEMMA ShortSequences ==
    ASSUME NEW a, NEW b
    PROVE  /\ ToSet(<<>>) = {} /\ ToSet(<<a>>) = {a} /\ IsInjective(<<a>>)
           /\ ToSet(<<a, b>>) = {a, b}
BY DEF ToSet, IsInjective

\* What is left of a call is its tail, under the same name unless it is over.
LEMMA RestOfCall ==
    ASSUME CallOK, call.op # "idle"
    PROVE  /\ Rest(call) \in [op : {"idle", "start", "stop", "compare", "swap"}, todo : Seq(Config)]
           /\ Rest(call).todo = Tail(call.todo)
           /\ Rest(call).op \in {"idle", call.op}
           /\ (Rest(call).todo = <<>>) = (Rest(call).op = "idle")
           /\ Tail(call.todo) # <<>> => Rest(call).op = call.op
<1>1. call.todo \in Seq(Config) /\ call.todo # <<>>
  BY DEF CallOK
<1>2. Tail(call.todo) \in Seq(Config) /\ (Len(call.todo) = 1) = (Tail(call.todo) = <<>>)
  BY <1>1, HeadAndTail
<1>3. CASE Len(call.todo) = 1
  BY <1>2, <1>3 DEF Rest, Idle
<1>4. CASE Len(call.todo) # 1
  <2>1. Rest(call) = [op |-> call.op, todo |-> Tail(call.todo)]
    BY <1>4 DEF Rest, CallOK
  <2> QED BY <1>2, <1>4, <2>1 DEF CallOK
<1> QED BY <1>3, <1>4
----
(* The inductive invariant *)

LEMMA RInitially == RInit => RInv
<1> SUFFICES ASSUME RInit PROVE RInv
  OBVIOUS
<1>1. call = [op |-> "idle", todo |-> <<>>] /\ Todo = {}
  BY ShortSequences DEF RInit, Idle, Todo
<1>2. \A c \in Config : running[c] = 0
  BY DEF RInit
<1>3. call.op = "idle" /\ call.todo = <<>> /\ ~Restarting
  BY <1>1 DEF Restarting
<1>4. CallOK
  BY <1>1, <1>3 DEF CallOK
<1>5. RTypeOK
  BY <1>1, <1>3 DEF RInit, RTypeOK, Todo
<1>6. EntriesRun /\ NothingLeaks /\ NotYetStarted /\ PodsKnown /\ ServerKnown
  BY <1>2, <1>3 DEF RInit, EntriesRun, NothingLeaks, NotYetStarted, PodsKnown, ServerKnown
<1> QED BY <1>4, <1>5, <1>6 DEF RInv

\* A poller configuration is no server, and is built alike each time.
LEMMA PollersSteady == \A c \in Poller : c \notin Server /\ Steady(c)
BY RunnerAssumption DEF Server, Steady

LEMMA PodLists ==
    ASSUME NEW p \in Pod, NEW l \in Lists[p]
    PROVE  /\ l \in Seq(Config) /\ l # <<>> /\ IsInjective(l)
           /\ ToSet(l) \subseteq Of(p) /\ ToSet(l) \subseteq Poller
           /\ Of(p) \subseteq Poller /\ Poller \subseteq Config
<1>1. l \in Seq(Poller) /\ l # <<>> /\ IsInjective(l)
  BY RunnerAssumption
<1>2. ToSet(l) \subseteq Of(p) /\ Of(p) \subseteq Poller /\ Poller \subseteq Config
  BY DEF Of, Poller, Config
<1>3. l \in Seq(Config)
  BY <1>1, <1>2
<1> QED BY <1>1, <1>2, <1>3

\* The caller starts the configurations of a pod it does not know: none has an entry,
\* because the pods it knows ask for others, unless the mutex is locked for ever.
LEMMA StartPodStep == ASSUME NEW p \in Pod, RInv, StartPod(p) PROVE RInv'
<1>1. /\ call = Idle /\ p \notin known /\ known' = known \cup {p}
      /\ UNCHANGED <<runners, locked, running, failed, asked>>
  BY DEF StartPod
<1>2. PICK l \in Lists[p] : call' = [op |-> "start", todo |-> l]
  BY DEF StartPod
<1>3. /\ l \in Seq(Config) /\ l # <<>> /\ IsInjective(l)
      /\ ToSet(l) \subseteq Of(p) /\ ToSet(l) \subseteq Poller
      /\ Of(p) \subseteq Poller /\ Poller \subseteq Config
  BY PodLists
<1>4. locked \/ ToSet(l) \cap runners = {}
  <2> SUFFICES ASSUME ~locked, NEW c \in ToSet(l) \cap runners PROVE FALSE
    OBVIOUS
  <2>1. PICK q \in known : c \in Of(q)
    BY <1>1, <1>3 DEF RInv, PodsKnown, OfKnown, Idle
  <2>2. q \in Pod /\ q # p
    BY <1>1, <2>1 DEF RInv, RTypeOK
  <2> QED BY <1>3, <2>1, <2>2, RunnerAssumption
<1>5. Todo' = ToSet(l) /\ call'.op = "start" /\ call'.todo = l /\ ~Restarting' /\ ~Restarting
  BY <1>1, <1>2 DEF Todo, Restarting, Idle
<1>6. RTypeOK' /\ CallOK'
  BY <1>1, <1>2, <1>3, <1>5 DEF RInv, RTypeOK, CallOK, Todo
<1>7. NothingLeaks' /\ EntriesRun' /\ NotYetStarted'
  BY <1>1, <1>3, <1>4, <1>5 DEF RInv, NothingLeaks, EntriesRun, NotYetStarted, Steady
<1>8. PodsKnown'
  BY <1>1, <1>3, <1>5 DEF RInv, PodsKnown, OfKnown, Idle
<1>9. ServerKnown'
  BY <1>1, <1>3, <1>5, PollersSteady DEF RInv, ServerKnown, Steady
<1> QED BY <1>6, <1>7, <1>8, <1>9 DEF RInv

LEMMA StopPodStep == ASSUME NEW p \in Pod, RInv, StopPod(p) PROVE RInv'
<1>1. /\ call = Idle /\ p \in known /\ known' = known \ {p}
      /\ UNCHANGED <<runners, locked, running, failed, asked>>
  BY DEF StopPod
<1>2. PICK l \in Lists[p] : call' = [op |-> "stop", todo |-> l]
  BY DEF StopPod
<1>3. l \in Seq(Config) /\ l # <<>> /\ ToSet(l) \subseteq Poller /\ Poller \subseteq Config
  BY PodLists
<1>4. Todo' = ToSet(l) /\ call'.op = "stop" /\ call'.todo = l /\ ~Restarting' /\ ~Restarting
  BY <1>1, <1>2 DEF Todo, Restarting, Idle
<1>5. RTypeOK' /\ CallOK'
  BY <1>1, <1>2, <1>3, <1>4 DEF RInv, RTypeOK, CallOK, Todo
<1>6. NothingLeaks' /\ EntriesRun' /\ NotYetStarted'
  BY <1>1, <1>4 DEF RInv, NothingLeaks, EntriesRun, NotYetStarted, Steady
<1>7. PodsKnown'
  BY <1>3, <1>4 DEF PodsKnown
<1>8. ServerKnown'
  BY <1>1, <1>4 DEF RInv, ServerKnown, Steady
<1> QED BY <1>5, <1>6, <1>7, <1>8 DEF RInv

\* If the server that runs is built alike each time, it is the one Restart is told to stop.
LEMMA RestartServerStep == ASSUME NEW k \in Registry, RInv, RestartServer(k) PROVE RInv'
<1>1. /\ call = Idle /\ asked' = k
      /\ UNCHANGED <<runners, locked, running, failed, known>>
  BY DEF RestartServer
<1>2. PICK old \in Built[asked], new \in Built[k] :
         call' = [op |-> "compare", todo |-> <<old, new>>]
  BY DEF RestartServer
<1>3. asked \in Registry /\ old \in Server /\ new \in Server /\ Server \subseteq Config
  BY DEF RInv, RTypeOK, Config, Server
<1>4. <<old, new>> \in Seq(Config) /\ ToSet(<<old, new>>) \subseteq Config
  <2>1. old \in Config /\ new \in Config
    BY <1>3
  <2>2. <<old, new>> \in Seq(Config)
    BY <2>1
  <2>3. ToSet(<<old, new>>) = {old, new}
    BY ShortSequences
  <2> QED BY <2>1, <2>2, <2>3
<1>5. /\ call'.op = "compare" /\ call'.todo = <<old, new>> /\ Todo' = ToSet(<<old, new>>)
      /\ Restarting' /\ ~Restarting
  BY <1>1, <1>2 DEF Todo, Restarting, Idle
<1>6. RTypeOK' /\ CallOK'
  BY <1>1, <1>2, <1>4, <1>5 DEF RInv, RTypeOK, CallOK, Todo
<1>7. NothingLeaks' /\ EntriesRun' /\ NotYetStarted'
  BY <1>1, <1>5 DEF RInv, NothingLeaks, EntriesRun, NotYetStarted, Steady
<1>8. PodsKnown'
  BY <1>1, <1>5 DEF RInv, PodsKnown, OfKnown, Idle
<1>9. ServerKnown'
  <2>1. ASSUME NEW s \in runners \cap Server, Steady(s) PROVE s = old
    <3>1. s \in Built[asked]
      BY <1>5, <2>1 DEF RInv, ServerKnown
    <3> QED BY <1>3, <2>1, <3>1 DEF Steady
  <2> QED BY <1>1, <1>3, <1>5, <2>1 DEF ServerKnown, Steady
<1> QED BY <1>6, <1>7, <1>8, <1>9 DEF RInv

\* What the steps of a call that is going on have in common.
LEMMA NextConfiguration ==
    ASSUME RInv, call.op # "idle"
    PROVE  /\ call.todo \in Seq(Config) /\ call.todo # <<>>
           /\ Head(call.todo) \in Config /\ Head(call.todo) \in Todo
           /\ Todo = {Head(call.todo)} \cup ToSet(Tail(call.todo))
           /\ ToSet(Rest(call).todo) = ToSet(Tail(call.todo))
           /\ Rest(call) \in [op : {"idle", "start", "stop", "compare", "swap"},
                              todo : Seq(Config)]
           /\ (Rest(call).todo = <<>>) = (Rest(call).op = "idle")
           /\ Rest(call).op \in {"idle", call.op}
           /\ Rest(call).op = "idle" => ToSet(Rest(call).todo) = {}
           /\ IsInjective(call.todo) =>
                 IsInjective(Rest(call).todo) /\ Head(call.todo) \notin ToSet(Rest(call).todo)
<1>1. call.todo \in Seq(Config) /\ call.todo # <<>>
  BY DEF RInv, CallOK
<1>2. /\ Head(call.todo) \in Config /\ Head(call.todo) \in ToSet(call.todo)
      /\ ToSet(call.todo) = {Head(call.todo)} \cup ToSet(Tail(call.todo))
      /\ IsInjective(call.todo) =>
            IsInjective(Tail(call.todo)) /\ Head(call.todo) \notin ToSet(Tail(call.todo))
  BY <1>1, HeadAndTail
<1>3. /\ Rest(call) \in [op : {"idle", "start", "stop", "compare", "swap"}, todo : Seq(Config)]
      /\ Rest(call).todo = Tail(call.todo)
      /\ Rest(call).op \in {"idle", call.op}
      /\ (Rest(call).todo = <<>>) = (Rest(call).op = "idle")
  BY RestOfCall DEF RInv
<1>4. Rest(call).op = "idle" => ToSet(Rest(call).todo) = {}
  BY <1>3, ShortSequences
<1> QED BY <1>1, <1>2, <1>3, <1>4 DEF Todo

LEMMA StartOneStep == ASSUME RInv, StartOne PROVE RInv'
<1> DEFINE c == Head(call.todo)
           left == ToSet(Rest(call).todo)
<1>1. /\ call.op = "start" /\ call' = Rest(call) /\ runners' = runners \cup {c}
      /\ running' = [running EXCEPT ![c] = @ + 1]
      /\ failed' = failed \ {c}
      /\ UNCHANGED <<locked, known, asked>>
  BY DEF StartOne
<1>2. /\ c \in Config /\ c \in Todo /\ Todo = {c} \cup left /\ Todo' = left
      /\ call'.op \in {"idle", "start"} /\ c \notin left
      /\ call'.op = "idle" => left = {}
      /\ IsInjective(call'.todo)
  BY <1>1, NextConfiguration DEF Todo, RInv, NotYetStarted
<1>3. CallOK'
  BY <1>1, NextConfiguration DEF CallOK
<1>4. ~locked /\ (Steady(c) => c \notin runners) /\ \A d \in left : Steady(d) => d \notin runners
  BY <1>1, <1>2 DEF RInv, NotYetStarted, StartOne
<1>5. Todo \subseteq Config
  BY DEF RInv, RTypeOK, Todo
<1>6. RTypeOK'
  <2>1. running' \in [Config -> Nat]
    BY <1>1, <1>2 DEF RInv, RTypeOK
  <2>2. ToSet(call'.todo) \subseteq Config
    BY <1>2, <1>5 DEF Todo
  <2> QED BY <1>1, <1>2, <1>3, <2>1, <2>2 DEF RInv, RTypeOK, CallOK
<1>7. NothingLeaks' /\ EntriesRun'
  <2>1. Steady(c) => running[c] = 0
    BY <1>2, <1>4 DEF RInv, NothingLeaks
  <2>2. \A d \in Config : running'[d] = IF d = c THEN running[d] + 1 ELSE running[d]
    BY <1>1, <1>2 DEF RInv, RTypeOK
  <2>3. NothingLeaks'
    BY <1>1, <2>1, <2>2 DEF RInv, NothingLeaks, Steady
  <2>4. EntriesRun'
    BY <1>1, <1>2, <2>2 DEF RInv, RTypeOK, EntriesRun
  <2> QED BY <2>3, <2>4
<1>8. NotYetStarted'
  BY <1>1, <1>2, <1>4 DEF NotYetStarted, Steady
<1>9. PodsKnown'
  BY <1>1, <1>2, <1>5 DEF RInv, PodsKnown, OfKnown, Config
<1>10. ServerKnown'
  BY <1>1, <1>2 DEF RInv, ServerKnown, Restarting, Steady
<1> QED BY <1>3, <1>6, <1>7, <1>8, <1>9, <1>10 DEF RInv

LEMMA CreateFailsStep == ASSUME RInv, CreateFails PROVE RInv'
<1>1. /\ call.op = "start" /\ failed' = failed \cup Todo /\ call' = Idle
      /\ UNCHANGED <<runners, locked, running, known, asked>>
  BY DEF CreateFails, Todo
<1>2. call'.op = "idle" /\ call'.todo = <<>> /\ Todo' = {} /\ ~Restarting /\ ~Restarting'
  BY <1>1, ShortSequences DEF Idle, Todo, Restarting
<1>3. Todo \subseteq Config
  BY DEF RInv, RTypeOK, Todo
<1>4. CallOK'
  BY <1>1, <1>2 DEF CallOK, Idle
<1>5. RTypeOK'
  BY <1>1, <1>2, <1>3 DEF RInv, RTypeOK, Todo
<1>6. NothingLeaks' /\ EntriesRun' /\ NotYetStarted' /\ PodsKnown' /\ ServerKnown'
  BY <1>1, <1>2
     DEF RInv, EntriesRun, NothingLeaks, NotYetStarted, PodsKnown, OfKnown, ServerKnown, Steady
<1> QED BY <1>4, <1>5, <1>6 DEF RInv

\* Stopping the runner of c, if it has one: the map and what runs still agree.
LEMMA StoppedAgrees ==
    ASSUME RInv, NEW c \in Config, running' = Stopped(c), runners' = runners \ {c}
    PROVE  running' \in [Config -> Nat] /\ NothingLeaks' /\ EntriesRun'
<1>1. \A d \in Config : running'[d] = IF d = c /\ c \in runners THEN running[d] - 1 ELSE running[d]
  BY DEF Stopped, RInv, RTypeOK
<1>2. \A d \in Config : Steady(d) => running[d] = IF d \in runners THEN 1 ELSE 0
  BY DEF RInv, NothingLeaks
<1>3. \A d \in Config : Steady(d) => running'[d] = IF d \in runners' THEN 1 ELSE 0
  BY <1>1, <1>2
<1>4. DOMAIN running' = Config /\ running' = [d \in Config |-> running'[d]]
  BY DEF Stopped, RInv, RTypeOK
<1>5. \A d \in Config : running'[d] \in Nat
  <2>1. c \in runners => running[c] # 0
    BY DEF RInv, EntriesRun
  <2> QED BY <1>1, <2>1 DEF RInv, RTypeOK
<1>6. EntriesRun'
  BY <1>1 DEF RInv, RTypeOK, EntriesRun
<1> QED BY <1>3, <1>4, <1>5, <1>6 DEF NothingLeaks, Steady

LEMMA StopOneStep == ASSUME RInv, StopOne PROVE RInv'
<1> DEFINE c == Head(call.todo)
           left == ToSet(Rest(call).todo)
<1>1. /\ call.op = "stop" /\ call' = Rest(call) /\ runners' = runners \ {c}
      /\ running' = Stopped(c) /\ locked' = TRUE
      /\ UNCHANGED <<failed, known, asked>>
  BY DEF StopOne
<1>2. /\ c \in Config /\ Todo = {c} \cup left /\ Todo' = left
      /\ call'.op \in {"idle", "stop"}
      /\ call'.op = "idle" => left = {}
  BY <1>1, NextConfiguration DEF Todo
<1>3. CallOK'
  BY <1>1, NextConfiguration DEF CallOK
<1>4. running' \in [Config -> Nat] /\ NothingLeaks' /\ EntriesRun'
  BY <1>1, <1>2, StoppedAgrees
<1>5. Todo \subseteq Config
  BY DEF RInv, RTypeOK, Todo
<1>6. RTypeOK'
  <2>1. ToSet(call'.todo) \subseteq Config
    BY <1>2, <1>5 DEF Todo
  <2> QED BY <1>1, <1>2, <1>3, <1>4, <2>1 DEF RInv, RTypeOK, CallOK
<1>7. NotYetStarted'
  BY <1>2 DEF NotYetStarted
<1>8. PodsKnown'
  BY <1>1, <1>2 DEF RInv, PodsKnown
<1>9. ServerKnown'
  BY <1>1, <1>2 DEF RInv, ServerKnown, Restarting, Steady
<1> QED BY <1>3, <1>4, <1>6, <1>7, <1>8, <1>9 DEF RInv

LEMMA CompareStep == ASSUME RInv, Compare PROVE RInv'
<1>1. call.op = "compare" /\ UNCHANGED <<runners, locked, running, failed, known, asked>>
  BY DEF Compare
<1>2. Restarting /\ call.todo[2] \in Built[asked] /\ Todo \subseteq Config
  BY <1>1 DEF Restarting, RInv, ServerKnown, RTypeOK, Todo
<1>3. CASE call.todo[1] = call.todo[2] /\ call.todo[1] \in runners
  <2>1. call' = Idle
    BY <1>3 DEF Compare
  <2>2. call'.op = "idle" /\ call'.todo = <<>> /\ Todo' = {} /\ ~Restarting'
    BY <2>1, ShortSequences DEF Idle, Todo, Restarting
  <2>3. CallOK'
    BY <2>1, <2>2 DEF CallOK, Idle
  <2>4. RTypeOK'
    BY <1>1, <2>2 DEF RInv, RTypeOK, Todo
  <2>5. NothingLeaks' /\ EntriesRun' /\ NotYetStarted' /\ PodsKnown'
    BY <1>1, <2>2
       DEF RInv, NothingLeaks, EntriesRun, NotYetStarted, PodsKnown, OfKnown, Steady
  <2>6. ServerKnown'
    BY <1>1, <1>2, <1>3, <2>2 DEF RInv, ServerKnown, Steady
  <2> QED BY <2>3, <2>4, <2>5, <2>6 DEF RInv
<1>4. CASE ~(call.todo[1] = call.todo[2] /\ call.todo[1] \in runners)
  <2>1. call' = [call EXCEPT !.op = "swap"]
    BY <1>4 DEF Compare
  <2>2. call'.op = "swap" /\ call'.todo = call.todo /\ Todo' = Todo /\ Restarting'
    BY <2>1 DEF RInv, CallOK, Todo, Restarting
  <2>3. CallOK'
    BY <1>1, <2>1, <2>2 DEF RInv, CallOK
  <2>4. RTypeOK'
    BY <1>1, <1>2, <2>2, <2>3 DEF RInv, RTypeOK, CallOK, Todo
  <2>5. NothingLeaks' /\ EntriesRun' /\ NotYetStarted' /\ PodsKnown'
    BY <1>1, <2>2
       DEF RInv, NothingLeaks, EntriesRun, NotYetStarted, PodsKnown, OfKnown, Steady
  <2>6. ServerKnown'
    BY <1>1, <1>2, <1>4, <2>2 DEF RInv, ServerKnown, Steady
  <2> QED BY <2>3, <2>4, <2>5, <2>6 DEF RInv
<1> QED BY <1>3, <1>4

\* After Swap no server that is built alike each time has an entry.
LEMMA SwapStep == ASSUME RInv, Swap PROVE RInv'
<1> DEFINE old == call.todo[1]
           new == call.todo[2]
<1>1. call.op = "swap" /\ Restarting /\ old \in Server /\ new \in Built[asked]
  BY DEF Swap, Restarting, RInv, ServerKnown
<1>2. /\ running' = Stopped(old) /\ runners' = runners \ {old}
      /\ call' = [op |-> "start", todo |-> <<new>>]
      /\ UNCHANGED <<locked, failed, known, asked>>
  BY <1>1 DEF Swap
<1>3. old \in Config /\ new \in Server /\ new \in Config /\ Poller \cap Server = {}
  BY <1>1, RunnerAssumption DEF Config, Server, RInv, RTypeOK
<1>4. <<new>> \in Seq(Config) /\ <<new>> # <<>>
  BY <1>3
<1> HIDE DEF new
<1>5. /\ call'.op = "start" /\ call'.todo = <<new>> /\ Todo' = {new} /\ ~Restarting'
      /\ IsInjective(call'.todo)
  BY <1>2, ShortSequences DEF Todo, Restarting
<1>6. running' \in [Config -> Nat] /\ NothingLeaks' /\ EntriesRun'
  BY <1>2, <1>3, StoppedAgrees
<1>7. CallOK'
  BY <1>2, <1>4, <1>5 DEF CallOK
<1>8. RTypeOK'
  BY <1>2, <1>3, <1>5, <1>6, <1>7 DEF RInv, RTypeOK, CallOK, Todo
<1>9. \A s \in runners' \cap Server : ~Steady(s)
  BY <1>1, <1>2 DEF RInv, ServerKnown
<1>10. NotYetStarted'
  BY <1>3, <1>5, <1>9 DEF NotYetStarted, Steady
<1>11. PodsKnown'
  BY <1>1, <1>2, <1>3, <1>5 DEF RInv, PodsKnown, OfKnown
<1>12. ServerKnown'
  BY <1>1, <1>2, <1>5, <1>9 DEF ServerKnown, Steady
<1> QED BY <1>6, <1>7, <1>8, <1>10, <1>11, <1>12 DEF RInv

LEMMA RInductive == RInv /\ [RNext]_rvars => RInv'
<1> SUFFICES ASSUME RInv, [RNext]_rvars PROVE RInv'
  OBVIOUS
<1>1. CASE UNCHANGED rvars
  BY <1>1 DEF rvars, RInv, RTypeOK, CallOK, EntriesRun, NothingLeaks, NotYetStarted, PodsKnown,
              ServerKnown, Restarting, Todo, OfKnown, Steady
<1> QED BY <1>1, StartOneStep, CreateFailsStep, StopOneStep, CompareStep, SwapStep,
           StartPodStep, StopPodStep, RestartServerStep DEF RNext

LEMMA RInvariant == RSpec => []RInv
<1> QED BY RInitially, RInductive, PTL DEF RSpec
----
(* Theorems *)

\* The runner factory's state is well typed.
THEOREM RTypeCorrect == RSpec => []RTypeOK
<1>1. RInv => RTypeOK
  BY DEF RInv
<1> QED BY <1>1, RInvariant, PTL

\* The map of runners is exactly what runs: no runner is lost by being overwritten, and none
\* has an entry without running (runner.go:61-65, 102-120), but for a server of several
\* templates, which may come out in another order each time it is built.
THEOREM NoRunnerLeaks == RSpec => []NothingLeaks
<1>1. RInv => NothingLeaks
  BY DEF RInv
<1> QED BY <1>1, RInvariant, PTL

\* At no moment do two servers run that are built alike each time (runner.go:102-121).
THEOREM OneServer == RSpec => []OneServerRuns
<1>1. RInv => OneServerRuns
  <2> SUFFICES ASSUME RInv, NEW s \in Server, NEW t \in Server, running[s] > 0, running[t] > 0,
                      Steady(s), Steady(t)
               PROVE  s = t
    BY DEF OneServerRuns
  <2>1. s \in runners /\ t \in runners
    BY DEF RInv, NothingLeaks, Config
  <2>2. CASE Restarting
    BY <2>1, <2>2 DEF RInv, ServerKnown
  <2>3. CASE ~Restarting
    <3>1. s \in Built[asked] /\ t \in Built[asked] /\ asked \in Registry
      BY <2>1, <2>3 DEF RInv, ServerKnown, RTypeOK
    <3> QED BY <3>1 DEF Steady
  <2> QED BY <2>2, <2>3
<1> QED BY <1>1, RInvariant, PTL

\* A server that is built alike each time is stopped only to be replaced by that of other
\* templates (runner.go:93).
THEOREM NoNeedlessRestarts == RSpec => NoNeedlessRestart
<1> DEFINE Needed == \A s \in Server : Steady(s) /\ running[s] > 0 /\ running'[s] = 0
                        => s \notin Built[asked]
<1>1. RInv /\ [RNext]_rvars => [Needed]_rvars
  <2> SUFFICES ASSUME RInv, RNext, NEW s \in Server, Steady(s), running[s] > 0, running'[s] = 0
               PROVE  s \notin Built[asked]
    OBVIOUS
  <2>1. s \in runners /\ s \in Config /\ s \notin Poller
    BY RunnerAssumption DEF RInv, NothingLeaks, Config
  <2>2. CASE StartOne
    <3>1. running'[s] >= running[s]
      BY <2>1, <2>2 DEF StartOne, RInv, RTypeOK
    <3> QED BY <2>1, <3>1 DEF RInv, RTypeOK
  <2>3. CASE StopOne
    <3>1. Head(call.todo) # s
      BY <2>1, <2>3, NextConfiguration DEF StopOne, RInv, PodsKnown
    <3>2. running'[s] = running[s]
      BY <2>1, <2>3, <3>1 DEF StopOne, Stopped, RInv, RTypeOK
    <3> QED BY <2>1, <3>2 DEF RInv, RTypeOK
  <2>4. CASE Swap
    <3>1. call.todo[1] = s
      BY <2>1, <2>4 DEF Swap, Stopped, RInv, RTypeOK, NothingLeaks
    <3>2. asked \in Registry /\ call.todo[2] \in Built[asked] /\ call.todo[2] # s
      BY <2>1, <2>4, <3>1 DEF Swap, RInv, RTypeOK, ServerKnown, Restarting
    <3> QED BY <3>2 DEF Steady
  <2>5. CASE UNCHANGED running
    BY <2>1, <2>5 DEF RInv, RTypeOK
  <2> QED BY <2>2, <2>3, <2>4, <2>5
          DEF RNext, CreateFails, Compare, StartPod, StopPod, RestartServer
<1> QED BY <1>1, RInvariant, PTL DEF RSpec, NoNeedlessRestart
----
(* What the caller started is accounted for. *)

\* Every configuration of a pod the caller knows, as the builder once gave them, runs, or its
\* creation failed and was reported, or the Start of the pod has yet to come to it.
PodsAccounted ==
    \A p \in known : \E l \in Lists[p] : \A c \in ToSet(l) :
        running[c] = 1 \/ c \in failed \/ (call.op = "start" /\ c \in Todo)

\* No Stop takes away what a known pod asks for.
StopsOthers == call.op = "stop" => \A p \in known : Of(p) \cap Todo = {}

OnItsWay(c) == c \in runners \/ c \in failed \/ (call.op = "start" /\ c \in Todo)

Accounted == \A p \in known : \E l \in Lists[p] : \A c \in ToSet(l) : OnItsWay(c)

\* A step that disturbs nothing a known pod asks for.
LEMMA StillAccounted ==
    ASSUME RInv, Accounted, known' \subseteq known,
           \A c \in Poller : OfKnown(c) /\ OnItsWay(c) => OnItsWay(c)'
    PROVE  Accounted'
<1> SUFFICES ASSUME NEW p \in known' PROVE \E l \in Lists[p] : \A c \in ToSet(l) : OnItsWay(c)'
  BY DEF Accounted
<1>1. p \in known /\ p \in Pod
  BY DEF RInv, RTypeOK
<1>2. PICK l \in Lists[p] : \A c \in ToSet(l) : OnItsWay(c)
  BY <1>1 DEF Accounted
<1>3. \A c \in ToSet(l) : c \in Poller /\ OfKnown(c)
  BY <1>1, PodLists DEF OfKnown
<1> QED BY <1>2, <1>3

LEMMA AccountedInductive ==
    ASSUME RInv, StopsOthers, Accounted, [RNext]_rvars
    PROVE  StopsOthers' /\ Accounted'
<1> DEFINE h == Head(call.todo)
<1>1. CASE UNCHANGED rvars
  BY <1>1 DEF rvars, StopsOthers, Accounted, OnItsWay, Todo
<1>2. ASSUME NEW p \in Pod, StartPod(p) PROVE StopsOthers' /\ Accounted'
  <2>1. PICK l \in Lists[p] : call' = [op |-> "start", todo |-> l]
    BY <1>2 DEF StartPod
  <2>2. /\ call.op # "start" /\ call'.op = "start" /\ Todo' = ToSet(l)
        /\ known' = known \cup {p} /\ UNCHANGED <<runners, failed>>
    BY <1>2, <2>1 DEF StartPod, Idle, Todo
  <2>3. \A c : OnItsWay(c) => OnItsWay(c)'
    BY <2>2 DEF OnItsWay
  <2>4. \A c \in ToSet(l) : OnItsWay(c)'
    BY <2>2 DEF OnItsWay
  <2> QED BY <2>2, <2>3, <2>4 DEF StopsOthers, Accounted
<1>3. ASSUME NEW p \in Pod, StopPod(p) PROVE StopsOthers' /\ Accounted'
  <2>1. PICK l \in Lists[p] : call' = [op |-> "stop", todo |-> l]
    BY <1>3 DEF StopPod
  <2>2. /\ call.op # "start" /\ call'.op = "stop" /\ Todo' = ToSet(l)
        /\ known' = known \ {p} /\ UNCHANGED <<runners, failed>>
    BY <1>3, <2>1 DEF StopPod, Idle, Todo
  <2>3. \A q \in known' : Of(q) \cap ToSet(l) = {}
    BY <2>2, PodLists, RunnerAssumption DEF RInv, RTypeOK
  <2>4. \A c : OnItsWay(c) => OnItsWay(c)'
    BY <2>2 DEF OnItsWay
  <2> QED BY <2>2, <2>3, <2>4, StillAccounted DEF StopsOthers
<1>4. ASSUME NEW k \in Registry, RestartServer(k) PROVE StopsOthers' /\ Accounted'
  <2>1. /\ call.op # "start" /\ call'.op = "compare" /\ UNCHANGED <<known, runners, failed>>
    BY <1>4 DEF RestartServer, Idle
  <2>2. \A c : OnItsWay(c) => OnItsWay(c)'
    BY <2>1 DEF OnItsWay
  <2> QED BY <2>1, <2>2, StillAccounted DEF StopsOthers
<1>5. CASE StartOne
  <2>1. /\ call.op = "start" /\ call' = Rest(call) /\ runners' = runners \cup {h}
        /\ failed' = failed \ {h} /\ known' = known
    BY <1>5 DEF StartOne
  <2>2. /\ Todo = {h} \cup Todo' /\ call'.op \in {"idle", "start"}
        /\ call'.op = "idle" => Todo' = {}
    BY <2>1, NextConfiguration DEF Todo
  <2>3. \A c : OnItsWay(c) => OnItsWay(c)'
    BY <2>1, <2>2 DEF OnItsWay
  <2> QED BY <2>1, <2>2, <2>3, StillAccounted DEF StopsOthers
<1>6. CASE CreateFails
  <2>1. /\ call.op = "start" /\ failed' = failed \cup Todo /\ call'.op = "idle"
        /\ UNCHANGED <<known, runners>>
    BY <1>6 DEF CreateFails, Todo, Idle
  <2>2. \A c : OnItsWay(c) => OnItsWay(c)'
    BY <2>1 DEF OnItsWay
  <2> QED BY <2>1, <2>2, StillAccounted DEF StopsOthers
<1>7. CASE StopOne
  <2>1. /\ call.op = "stop" /\ call' = Rest(call) /\ runners' = runners \ {h}
        /\ UNCHANGED <<known, failed>>
    BY <1>7 DEF StopOne
  <2>2. /\ Todo = {h} \cup Todo' /\ call'.op \in {"idle", "stop"}
    BY <2>1, NextConfiguration DEF Todo
  <2>3. \A c \in Poller : OfKnown(c) /\ OnItsWay(c) => OnItsWay(c)'
    BY <2>1, <2>2 DEF OnItsWay, OfKnown, StopsOthers
  <2> QED BY <2>1, <2>2, <2>3, StillAccounted DEF StopsOthers
<1>8. CASE Compare
  <2>1. /\ call.op = "compare" /\ call'.op \notin {"start", "stop"}
        /\ UNCHANGED <<known, runners, failed>>
    BY <1>8 DEF Compare, Idle, RInv, CallOK
  <2>2. \A c : OnItsWay(c) => OnItsWay(c)'
    BY <2>1 DEF OnItsWay
  <2> QED BY <2>1, <2>2, StillAccounted DEF StopsOthers
<1>9. CASE Swap
  <2>1. /\ call.op = "swap" /\ call'.op = "start" /\ runners' = runners \ {call.todo[1]}
        /\ UNCHANGED <<known, failed>>
    BY <1>9 DEF Swap
  <2>2. call.todo[1] \notin Poller
    BY <2>1, PollersSteady DEF RInv, ServerKnown, Restarting
  <2>3. \A c \in Poller : OnItsWay(c) => OnItsWay(c)'
    BY <2>1, <2>2 DEF OnItsWay
  <2> QED BY <2>1, <2>3, StillAccounted DEF StopsOthers
<1> QED BY <1>1, <1>2, <1>3, <1>4, <1>5, <1>6, <1>7, <1>8, <1>9 DEF RNext

\* The run runner_stop shows that a Start may wait for ever for the mutex.  That is the only
\* way it is lost: each configuration of a known pod runs, exactly once, or was reported, or
\* is still to be started, and neither a restart of the server nor a stop of another pod
\* takes it away (runner.go:45-124).
THEOREM StartsAccounted == RSpec => []PodsAccounted
<1>1. RInit => StopsOthers /\ Accounted
  BY DEF RInit, StopsOthers, Accounted, Idle
<1>2. RInv /\ Accounted => PodsAccounted
  <2> SUFFICES ASSUME RInv, Accounted, NEW p \in known
               PROVE  \E l \in Lists[p] : \A c \in ToSet(l) :
                         running[c] = 1 \/ c \in failed \/ (call.op = "start" /\ c \in Todo)
    BY DEF PodsAccounted
  <2>1. p \in Pod
    BY DEF RInv, RTypeOK
  <2>2. PICK l \in Lists[p] : \A c \in ToSet(l) : OnItsWay(c)
    BY DEF Accounted
  <2>3. \A c \in ToSet(l) : c \in Config /\ Steady(c)
    BY <2>1, PodLists, PollersSteady
  <2> QED BY <2>2, <2>3 DEF OnItsWay, RInv, NothingLeaks
<1> QED BY <1>1, <1>2, AccountedInductive, RInvariant, PTL DEF RSpec
----
(* RunnerFactory implements Factory. *)

Owed == IF call.op = "start" THEN ToSet(call.todo) ELSE {}

LEMMA RStepMaps == RInv /\ [RNext]_rvars => [Promise!PNext]_(Promise!pvars)
<1> SUFFICES ASSUME RInv, [RNext]_rvars
             PROVE  Promise!PNext \/ UNCHANGED Promise!pvars
  OBVIOUS
<1> DEFINE c == Head(call.todo)
<1>1. CASE StartOne
  <2>1. call.op = "start" /\ call' = Rest(call) /\ c \in Config /\ c \in Owed
    BY <1>1, NextConfiguration DEF StartOne, Owed, Todo
  <2>2. Owed' = Owed \ {c}
    <3>1. /\ Owed = {c} \cup ToSet(Rest(call).todo) /\ c \notin ToSet(Rest(call).todo)
          /\ Rest(call).op \in {"idle", "start"}
          /\ Rest(call).op = "idle" => ToSet(Rest(call).todo) = {}
      BY <2>1, NextConfiguration DEF Owed, Todo, RInv, NotYetStarted
    <3>2. Owed' = ToSet(Rest(call).todo)
      BY <2>1, <3>1 DEF Owed
    <3> QED BY <3>1, <3>2
  <2>3. Promise!Deploy(c)
    BY <1>1, <2>1, <2>2 DEF StartOne, Promise!Deploy, Owed
  <2> QED BY <2>1, <2>3 DEF Promise!PNext
<1>2. CASE CreateFails
  <2>1. call.op = "start" /\ Owed # {} /\ Owed' = {}
    BY <1>2, NextConfiguration DEF CreateFails, Owed, Idle, Todo
  <2>2. Promise!GiveUp
    BY <1>2, <2>1 DEF CreateFails, Promise!GiveUp, Owed
  <2> QED BY <2>2 DEF Promise!PNext
<1>3. CASE StopOne
  <2>1. call.op = "stop" /\ c \in Config /\ Owed = {} /\ Owed' = {}
    BY <1>3, NextConfiguration DEF StopOne, Owed
  <2>2. Promise!Withdraw(c, {})
    BY <1>3, <2>1 DEF StopOne, Promise!Withdraw, Owed
  <2> QED BY <2>1, <2>2 DEF Promise!PNext
<1>4. CASE Swap
  <2>1. /\ Owed = {} /\ Owed' = {call.todo[2]}
        /\ call.todo[1] \in Config /\ call.todo[2] \in Config
    BY <1>4, ShortSequences
       DEF Swap, Owed, RInv, RTypeOK, ServerKnown, Restarting, Config, Server
  <2>2. Promise!Withdraw(call.todo[1], {call.todo[2]})
    BY <1>4, <2>1 DEF Swap, Promise!Withdraw, Owed
  <2> QED BY <2>1, <2>2 DEF Promise!PNext
<1>5. CASE Compare
  <2>1. Owed = {} /\ Owed' = {}
    BY <1>5 DEF Compare, Owed, Idle, RInv, CallOK
  <2> QED BY <1>5, <2>1 DEF Compare, Promise!pvars, Owed
<1>6. ASSUME NEW p \in Pod, StartPod(p) PROVE Promise!PNext
  <2> PICK l \in Lists[p] : call' = [op |-> "start", todo |-> l]
    BY <1>6 DEF StartPod
  <2>1. ToSet(l) \in SUBSET Config
    BY PodLists
  <2>2. Owed = {} /\ Owed' = ToSet(l)
    BY <1>6 DEF StartPod, Owed, Idle
  <2>3. Promise!Ask(ToSet(l))
    BY <1>6, <2>2 DEF StartPod, Promise!Ask, Owed
  <2> QED BY <2>1, <2>3 DEF Promise!PNext
<1>7. ASSUME NEW p \in Pod, StopPod(p) PROVE UNCHANGED Promise!pvars
  <2>1. Owed = {} /\ Owed' = {}
    BY <1>7 DEF StopPod, Owed, Idle
  <2> QED BY <1>7, <2>1 DEF StopPod, Promise!pvars, Owed
<1>8. ASSUME NEW k \in Registry, RestartServer(k) PROVE UNCHANGED Promise!pvars
  <2>1. Owed = {} /\ Owed' = {}
    BY <1>8 DEF RestartServer, Owed, Idle
  <2> QED BY <1>8, <2>1 DEF RestartServer, Promise!pvars, Owed
<1>9. CASE UNCHANGED rvars
  BY <1>9 DEF rvars, Promise!pvars
<1> QED BY <1>1, <1>2, <1>3, <1>4, <1>5, <1>6, <1>7, <1>8, <1>9 DEF RNext

\* The factory does for its callers what Factory promises: Restart owes the new
\* configuration only once the old one has no runner, and what could not be created is
\* reported (runner.go:45-124).
THEOREM RunnerImplementsFactory == RSpec => KeepsFactoryPromise
<1>1. RInit => Promise!PInit
  BY DEF RInit, Idle, Promise!PInit
<1> QED BY <1>1, RStepMaps, RInvariant, PTL DEF RSpec, KeepsFactoryPromise, Promise!PSpec
====
