---------------------------- MODULE RunLoopProofs ----------------------------
(***************************************************************************)
(* Proofs about a run of the program, for any number of targets and        *)
(* connections, whatever is given to it, and wherever it is interrupted.   *)
(***************************************************************************)
EXTENDS RunLoop, SequenceTheorems, TLAPS

ClientState == {"none", "reading", "waiting", "tunnel", "writing", "answered", "cut"}

RunTypes ==
  /\ pc \in {"load", "backend", "prober", "managers", "serving", "closing",
             "stopping", "stopBackend", "ended"}
  /\ Len(cfg.targets) \in Nat /\ Targets = 1..Len(cfg.targets)
  /\ next \in 1..Len(cfg.targets) + 1
  /\ waits \in BOOLEAN /\ interrupts \in 0..2
  /\ backend \in {"off", "on", "stopped"}
  /\ prober \in {"off", "on", "stopped"} /\ probing \subseteq Probed
  /\ manager \in [Targets -> {"off", "on", "stopped", "cancelled"}]
  /\ client \in [Client -> ClientState]
  /\ work \in [Client -> {"none", "queued", "executing", "done"}]
  /\ target \in [Client -> Targets \cup {0}]

(* Where the main task is tells how far each part has come. *)

PhaseInv ==
  /\ pc = "load" => given \in Inputs
  /\ pc \in {"load", "backend"} => backend = "off"
  /\ pc \in {"prober", "managers", "serving", "closing", "stopping", "stopBackend"} =>
       backend = "on"
  /\ pc \in {"load", "backend", "prober", "managers", "serving"} => interrupts = 0
  /\ pc = "closing" => interrupts = 1

ManagerInv ==
  /\ pc \notin {"managers", "stopping", "stopBackend", "ended"} => next = 1
  /\ pc \in {"load", "backend", "prober"} => \A i \in Targets : manager[i] = "off"
  /\ pc = "managers" => \A i \in Targets : i < next => manager[i] = "on"
  /\ pc \in {"serving", "closing"} => \A i \in Targets : manager[i] = "on"
  /\ pc = "stopping" => \A i \in Targets : i < next => manager[i] = "stopped"
  /\ pc = "stopBackend" \/ backend = "stopped" => \A i \in Targets : manager[i] = "stopped"
  /\ pc = "ended" => \A i \in Targets : manager[i] # "on"

ProberInv ==
  /\ pc \in {"load", "backend", "prober", "stopBackend", "ended"} => prober # "on"
  /\ prober # "on" => probing = {}

Inside(c) == client[c] \in {"reading", "waiting", "tunnel", "writing"}

ClientInv ==
  /\ pc \in {"load", "backend", "prober", "managers"} =>
       \A c \in Client : client[c] = "none" /\ target[c] = 0
  /\ pc = "ended" => \A c \in Client : ~Inside(c)
  /\ waits /\ interrupts < 2 =>
       \A c \in Client :
         /\ client[c] # "cut"
         /\ Inside(c) => pc \in {"serving", "closing"}

RunInv == RunTypes /\ PhaseInv /\ ManagerInv /\ ProberInv /\ ClientInv

LEMMA LiveIsInside == Live = {c \in Client : Inside(c)}
BY DEF Live, Held, Inside

\* what follows from the configuration stays with it
LEMMA ConfigFrame ==
  ASSUME cfg' = cfg
  PROVE  Targets' = Targets /\ Probed' = Probed /\ (Buildable' <=> Buildable)
BY DEF Targets, Probed, Buildable

LEMMA LoadedTargets ==
  ASSUME NEW g \in Inputs
  PROVE  LET ts == LoadTargets(g.file)
         IN  /\ DOMAIN ts = DOMAIN g.file.targets
             /\ Len(ts) \in Nat /\ DOMAIN ts = 1..Len(ts)
<1> DEFINE n == Len(g.file.targets)
           ts == LoadTargets(g.file)
           S == {ts[i] : i \in 1..n}
<1>1. n \in Nat /\ DOMAIN g.file.targets = 1..n
  BY InputsAssumption
<1>2. ts = [i \in 1..n |-> ts[i]] /\ DOMAIN ts = 1..n
  BY <1>1 DEF LoadTargets
<1>3. ts \in [1..n -> S]
  BY <1>2
<1>4. ts \in Seq(S)
  BY <1>1, <1>3, SeqDef
<1> QED
  BY <1>1, <1>2, <1>4, LenProperties

LEMMA RunInvInit == RunInit => RunInv
<1> SUFFICES ASSUME RunInit PROVE RunInv
  OBVIOUS
<1>1. cfg.targets = <<>> /\ Len(cfg.targets) = 0 /\ Targets = 1..0
  BY EmptySeq, LenProperties DEF RunInit, NoConfig, Targets
<1>2. manager \in [Targets -> {"off", "on", "stopped", "cancelled"}] /\ Targets = {}
  BY <1>1 DEF RunInit
<1> QED
  BY <1>1, <1>2
     DEF RunInit, ProberInit, RunInv, RunTypes, PhaseInv, ManagerInv, ProberInv, ClientInv,
         ClientState, Inside

----------------------------------------------------------------------------
(* Starting *)

LEMMA LoadKeeps == ASSUME RunInv, Load PROVE RunInv'
<1> USE DEF RunInv, RunTypes, PhaseInv, ManagerInv, ProberInv, ClientInv, Inside
<1>1. /\ UNCHANGED <<next, waits, interrupts, backend, prober, probing, client, work, target>>
      /\ pc = "load" /\ given \in Inputs /\ next = 1
  BY DEF Load, proberVars, clientVars
<1>2. CASE Loads(given.file)
  <2>1. /\ cfg' = [targets |-> LoadTargets(given.file), settings |-> Settings(given)]
        /\ manager' = [i \in DOMAIN given.file.targets |-> "off"]
        /\ pc' = "backend"
    BY <1>2 DEF Load
  <2>2. /\ Targets' = DOMAIN given.file.targets
        /\ Len(cfg'.targets) \in Nat /\ Targets' = 1..Len(cfg'.targets)
    BY <1>1, <2>1, LoadedTargets DEF Targets
  <2>3. \A c \in Client : target[c] = 0
    BY <1>1
  <2> QED
    BY <1>1, <2>1, <2>2, <2>3
<1>3. CASE ~Loads(given.file)
  <2>1. UNCHANGED <<cfg, manager>> /\ pc' = "ended"
    BY <1>3 DEF Load
  <2> QED
    BY <1>1, <2>1, ConfigFrame
<1> QED
  BY <1>2, <1>3

LEMMA StartKeeps ==
  ASSUME RunInv, StartBackend \/ BuildFails \/ StartProber \/ StartManager \/ Listen \/ StartFails
  PROVE  RunInv'
<1> USE DEF RunInv, RunTypes, PhaseInv, ManagerInv, ProberInv, ClientInv, Inside
<1>1. UNCHANGED <<inputs, interrupts, clientVars>>
  BY DEF StartBackend, BuildFails, StartProber, StartManager, Listen, StartFails
<1>2. UNCHANGED <<given, cfg, waits, client, work, target>>
  BY <1>1 DEF inputs, clientVars
<1>3. CASE StartBackend \/ BuildFails
  BY <1>1, <1>2, <1>3, ConfigFrame DEF StartBackend, BuildFails, proberVars, partVars
<1>4. CASE StartProber
  BY <1>1, <1>2, <1>4, ConfigFrame DEF StartProber, ProberStarts
<1>5. CASE StartManager
  <2>1. /\ UNCHANGED <<pc, backend, prober, probing>>
        /\ pc = "managers" /\ next \in Targets
        /\ manager' = [manager EXCEPT ![next] = "on"]
        /\ next' = next + 1
    BY <1>5 DEF StartManager, proberVars
  <2>2. \A i \in Targets : i < next + 1 => i < next \/ i = next
    OBVIOUS
  <2> QED
    BY <1>1, <1>2, <2>1, <2>2, ConfigFrame
<1>6. CASE Listen \/ StartFails
  <2>1. UNCHANGED <<backend, prober, probing, manager>> /\ pc = "managers" /\ next' = 1
    BY <1>6 DEF Listen, StartFails, partVars, proberVars
  <2>2. CASE Listen
    <3>1. pc' = "serving" /\ \A i \in Targets : i < next
      BY <2>2 DEF Listen
    <3> QED
      BY <1>1, <1>2, <2>1, <3>1, ConfigFrame
  <2>3. CASE StartFails
    <3>1. pc' = "stopping"
      BY <2>3 DEF StartFails
    <3> QED
      BY <1>1, <1>2, <2>1, <3>1, ConfigFrame
  <2> QED
    BY <1>6, <2>2, <2>3
<1> QED
  BY <1>3, <1>4, <1>5, <1>6

----------------------------------------------------------------------------
(* Serving *)

LEMMA RoundKeeps == ASSUME RunInv, Round, pc # "ended" PROVE RunInv'
<1> USE DEF RunInv, RunTypes, PhaseInv, ManagerInv, ProberInv, ClientInv, Inside
<1>1. UNCHANGED <<pc, next, given, cfg, waits, interrupts, backend, manager, client, work, target>>
  BY DEF Round, mainVars, inputs, clientVars
<1>2. prober' = prober
  BY DEF Round, RoundStarts, ProbeEnds, ProbeRaises
<1>3. probing' \subseteq Probed /\ (prober' # "on" => probing' = {})
  BY DEF Round, RoundStarts, ProbeEnds, ProbeRaises
<1> QED
  BY <1>1, <1>2, <1>3, ConfigFrame

LEMMA ClientKeeps ==
  ASSUME RunInv, NEW c \in Client, Accept(c) \/ TaskSteps(c), pc # "ended"
  PROVE  RunInv'
<1> USE DEF RunInv, RunTypes, PhaseInv, ManagerInv, ProberInv, ClientInv
<1>1. UNCHANGED <<pc, next, given, cfg, waits, interrupts, backend, prober, probing, manager>>
  BY DEF Accept, TaskSteps, Requested, Dispatched, Dropped, Executed, TimesOut, Leaves,
         mainVars, inputs, partVars, proberVars
<1>2. /\ work' \in [Client -> {"none", "queued", "executing", "done"}]
      /\ target' \in [Client -> Targets \cup {0}]
      /\ client' \in [Client -> ClientState]
  <2> USE DEF Accept, TaskSteps, Requested, Dispatched, Dropped, Executed, TimesOut, Leaves
  <2>1. work' \in [Client -> {"none", "queued", "executing", "done"}]
    OBVIOUS
  <2>2. target' \in [Client -> Targets \cup {0}]
    OBVIOUS
  <2>3. client' \in [Client -> ClientState]
    BY DEF Held, ClientState
  <2> QED
    BY <2>1, <2>2, <2>3
<1>3. \A d \in Client :
        \/ client'[d] = client[d]
        \/ d = c /\ Inside(d) /\ client'[d] # "cut"
        \/ d = c /\ pc = "serving" /\ client'[d] # "cut"
  BY DEF Accept, TaskSteps, Requested, Dispatched, Dropped, Executed, TimesOut, Leaves, Held,
         ClientState, Inside
<1>4. pc \in {"load", "backend", "prober", "managers"} => UNCHANGED <<client, target>>
  <2> SUFFICES ASSUME client[c] = "none", pc # "serving" PROVE UNCHANGED <<client, target>>
    OBVIOUS
  <2> QED
    BY DEF Accept, TaskSteps, Requested, Dispatched, Dropped, Executed, TimesOut, Leaves, Held
<1>5. ClientInv'
  BY <1>1, <1>3, <1>4 DEF Inside
<1> QED
  BY <1>1, <1>2, <1>5, ConfigFrame

----------------------------------------------------------------------------
(* Stopping *)

\* what is left when every task has been cancelled
LEMMA Cancelled ==
  ASSUME RunInv, CancelTasks
  PROVE  /\ client' \in [Client -> ClientState]
         /\ work' \in [Client -> {"none", "queued", "executing", "done"}]
         /\ target' = target
         /\ prober' \in {"off", "stopped"} /\ probing' = {}
         /\ manager' \in [Targets -> {"off", "on", "stopped", "cancelled"}]
         /\ \A i \in Targets : /\ manager'[i] # "on"
                               /\ manager[i] = "stopped" => manager'[i] = "stopped"
         /\ \A c \in Client : /\ ~Inside(c)'
                              /\ ~Inside(c) => client'[c] = client[c]
<1> USE DEF RunInv, RunTypes
<1>1. /\ client' = [c \in Client |-> IF Inside(c) THEN "cut" ELSE client[c]]
      /\ target' = target
  BY LiveIsInside DEF CancelTasks
<1>2. /\ client' \in [Client -> ClientState]
      /\ \A c \in Client : ~Inside(c)' /\ (~Inside(c) => client'[c] = client[c])
  BY <1>1 DEF ClientState, Inside
<1>3. work' \in [Client -> {"none", "queued", "executing", "done"}]
  BY DEF CancelTasks
<1>4. prober' \in {"off", "stopped"} /\ probing' = {}
  BY DEF CancelTasks, ProberStops
<1>5. /\ manager' \in [Targets -> {"off", "on", "stopped", "cancelled"}]
      /\ \A i \in Targets : /\ manager'[i] # "on"
                            /\ manager[i] = "stopped" => manager'[i] = "stopped"
  BY DEF CancelTasks
<1> QED
  BY <1>1, <1>2, <1>3, <1>4, <1>5

LEMMA InterruptKeeps == ASSUME RunInv, Interrupt PROVE RunInv'
<1> USE DEF RunInv, RunTypes, PhaseInv, ManagerInv, ProberInv, ClientInv, Inside
<1>1. /\ UNCHANGED <<given, cfg, waits, backend, prober, probing, manager, client, work, target>>
      /\ interrupts = 0 /\ interrupts' = 1 /\ next' = 1
  BY DEF Interrupt, inputs, partVars, proberVars, clientVars
<1>2. CASE pc = "backend" /\ pc' = "ended"
  BY <1>1, <1>2, ConfigFrame
<1>3. CASE pc = "managers" /\ pc' = "stopping"
  BY <1>1, <1>3, ConfigFrame
<1>4. CASE pc = "serving" /\ pc' = "closing"
  BY <1>1, <1>4, ConfigFrame
<1> QED
  BY <1>2, <1>3, <1>4 DEF Interrupt

LEMMA InterruptCleanupKeeps == ASSUME RunInv, InterruptCleanup PROVE RunInv'
<1> USE DEF RunInv, RunTypes, PhaseInv, ManagerInv, ProberInv, ClientInv
<1>1. /\ UNCHANGED <<next, given, cfg, waits, backend>>
      /\ interrupts = 0 /\ interrupts' = 1 /\ CancelTasks
      /\ pc \in {"stopping", "stopBackend"} /\ pc' = "ended"
  BY DEF InterruptCleanup, inputs
<1>2. waits => \A c \in Client : client'[c] # "cut"
  BY <1>1, Cancelled
<1> QED
  BY <1>1, <1>2, Cancelled, ConfigFrame

LEMMA InterruptAgainKeeps == ASSUME RunInv, InterruptAgain PROVE RunInv'
<1> USE DEF RunInv, RunTypes, PhaseInv, ManagerInv, ProberInv, ClientInv
<1>1. /\ UNCHANGED <<next, given, cfg, waits, backend>>
      /\ interrupts' = 2 /\ CancelTasks
  BY DEF InterruptAgain, inputs
<1>2. CASE pc = "closing" /\ pc' = "stopping"
  BY <1>1, <1>2, Cancelled, ConfigFrame
<1>3. CASE pc \in {"stopping", "stopBackend"} /\ pc' = "ended"
  BY <1>1, <1>3, Cancelled, ConfigFrame
<1> QED
  BY <1>2, <1>3 DEF InterruptAgain

LEMMA StopKeeps ==
  ASSUME RunInv, Closed \/ StopManager \/ StopProber \/ StopBackend
  PROVE  RunInv'
<1> USE DEF RunInv, RunTypes, PhaseInv, ManagerInv, ProberInv, ClientInv
<1>1. CASE Closed
  <2>1. /\ UNCHANGED <<next, given, cfg, waits, interrupts, backend, prober, probing, manager,
                       client, work, target>>
        /\ pc = "closing" /\ pc' = "stopping"
        /\ waits => \A c \in Client : ~Inside(c)
    BY <1>1, LiveIsInside DEF Closed, inputs, partVars, proberVars, clientVars
  <2> QED
    BY <2>1, ConfigFrame DEF Inside
<1>2. CASE StopManager
  <2>1. /\ UNCHANGED <<pc, given, cfg, waits, interrupts, backend, prober, probing, client,
                       work, target>>
        /\ pc = "stopping" /\ next \in Targets
        /\ manager' = [manager EXCEPT ![next] = "stopped"]
        /\ next' = next + 1
    BY <1>2 DEF StopManager, inputs, proberVars, clientVars
  <2>2. \A i \in Targets : i < next + 1 => i < next \/ i = next
    BY <2>1
  <2> QED
    BY <2>1, <2>2, ConfigFrame DEF Inside
<1>3. CASE StopProber
  <2>1. /\ UNCHANGED <<next, given, cfg, waits, interrupts, backend, manager, client, work, target>>
        /\ pc = "stopping" /\ pc' = "stopBackend" /\ next \notin Targets
        /\ prober' \in {"off", "stopped"} /\ probing' = {}
    BY <1>3 DEF StopProber, ProberStops, inputs, clientVars
  <2>2. \A i \in Targets : i < next
    BY <2>1
  <2> QED
    BY <2>1, <2>2, ConfigFrame DEF Inside
<1>4. CASE StopBackend
  <2>1. /\ UNCHANGED <<next, given, cfg, waits, interrupts>>
        /\ pc = "stopBackend" /\ pc' = "ended" /\ backend' = "stopped" /\ CancelTasks
    BY <1>4 DEF StopBackend, inputs
  <2>2. waits /\ interrupts < 2 => \A c \in Client : client'[c] # "cut"
    BY <2>1, Cancelled
  <2> QED
    BY <2>1, <2>2, Cancelled, ConfigFrame
<1> QED
  BY <1>1, <1>2, <1>3, <1>4

----------------------------------------------------------------------------
LEMMA RunInvNext == RunInv /\ [RunNext]_runVars => RunInv'
<1> SUFFICES ASSUME RunInv, [RunNext]_runVars PROVE RunInv'
  OBVIOUS
<1>1. CASE MainSteps
  BY <1>1, LoadKeeps, StartKeeps, StopKeeps DEF MainSteps
<1>2. CASE Interrupt \/ InterruptCleanup \/ InterruptAgain
  BY <1>2, InterruptKeeps, InterruptCleanupKeeps, InterruptAgainKeeps
<1>3. CASE pc # "ended" /\ Round
  BY <1>3, RoundKeeps
<1>4. ASSUME NEW c \in Client, pc # "ended", Accept(c) \/ TaskSteps(c) PROVE RunInv'
  BY <1>4, ClientKeeps
<1>5. CASE UNCHANGED runVars
  BY <1>5, ConfigFrame
     DEF runVars, mainVars, inputs, partVars, proberVars, clientVars,
         RunInv, RunTypes, PhaseInv, ManagerInv, ProberInv, ClientInv, Inside
<1> QED
  BY <1>1, <1>2, <1>3, <1>4, <1>5 DEF RunNext

LEMMA RunInvariant == RunSpec => []RunInv
BY RunInvInit, RunInvNext, PTL DEF RunSpec

(* Type correctness of a run. *)
THEOREM RunTyping == RunSpec => []RunTypeOK
<1>1. RunInv => RunTypeOK
  BY DEF RunInv, RunTypes, RunTypeOK, ClientState
<1> QED
  BY <1>1, RunInvariant, PTL

(* Wherever a start fails and wherever the interrupts come, the program    *)
(* does not end with a task running, and it closes the backend after all   *)
(* of its users; a step that ends it with the backend open is the failure  *)
(* to build the managers, or an interrupt inside the finally block.        *)
THEOREM CleanExitAlways == RunSpec => CleanExit
<1> DEFINE AtTheEnd ==
             /\ pc = "ended" => /\ prober # "on" /\ probing = {}
                                /\ Live = {}
                                /\ \A i \in Targets : manager[i] # "on"
             /\ backend = "stopped" => \A i \in Targets : manager[i] = "stopped"
           LeftOpen ==
             backend = "on" /\ pc' = "ended" /\ pc # "ended" =>
               \/ backend' = "stopped"
               \/ ~Buildable
               \/ interrupts' > interrupts /\ pc \in {"stopping", "stopBackend"}
<1>1. RunInv => AtTheEnd
  <2> SUFFICES ASSUME RunInv PROVE AtTheEnd
    OBVIOUS
  <2>1. pc = "ended" => prober # "on" /\ probing = {} /\ \A i \in Targets : manager[i] # "on"
    BY DEF RunInv, ManagerInv, ProberInv
  <2>2. pc = "ended" => Live = {}
    BY LiveIsInside DEF RunInv, ClientInv
  <2>3. backend = "stopped" => \A i \in Targets : manager[i] = "stopped"
    BY DEF RunInv, ManagerInv
  <2> QED
    BY <2>1, <2>2, <2>3
<1>2. RunInv /\ [RunNext]_runVars => [LeftOpen]_runVars
  <2> SUFFICES ASSUME RunInv, RunNext, backend = "on", pc' = "ended", pc # "ended"
               PROVE  LeftOpen
    OBVIOUS
  <2>1. CASE MainSteps
    <3>1. ~(Load \/ StartBackend)
      BY DEF Load, StartBackend, RunInv, PhaseInv
    <3>2. ~(StartProber \/ StartManager \/ Listen \/ StartFails)
      BY DEF StartProber, StartManager, Listen, StartFails
    <3>3. ~(Closed \/ StopManager \/ StopProber)
      BY DEF Closed, StopManager, StopProber
    <3> QED
      BY <2>1, <3>1, <3>2, <3>3 DEF MainSteps, BuildFails, StopBackend
  <2>2. CASE Interrupt
    BY <2>2 DEF Interrupt, RunInv, PhaseInv
  <2>3. CASE InterruptCleanup \/ InterruptAgain
    BY <2>3 DEF InterruptCleanup, InterruptAgain
  <2>4. ~Round /\ \A c \in Client : ~Accept(c) /\ ~TaskSteps(c)
    BY DEF Round, Accept, TaskSteps, Requested, Dispatched, Dropped, Executed, TimesOut,
           Leaves, mainVars
  <2> QED
    BY <2>1, <2>2, <2>3, <2>4 DEF RunNext
<1> HIDE DEF AtTheEnd, LeftOpen
<1>3. RunSpec => []AtTheEnd /\ [][LeftOpen]_runVars
  BY <1>1, <1>2, RunInvariant, PTL DEF RunSpec
<1> QED
  BY <1>3 DEF CleanExit, AtTheEnd, LeftOpen

(* Where wait_closed() waits, a client that was let in keeps every manager *)
(* until it is gone, and nobody cuts it off.                               *)
THEOREM StopsAfterItsClientsAlways == RunSpec => []StopsAfterItsClients
<1>1. RunInv => StopsAfterItsClients
  BY LiveIsInside DEF RunInv, ClientInv, ManagerInv, StopsAfterItsClients
<1> QED
  BY <1>1, RunInvariant, PTL

(* A connection is accepted only between the last start and the first      *)
(* stop.                                                                   *)
THEOREM ServesWhenReadyAlways == RunSpec => ServesWhenReady
<1>1. RunInv /\ [RunNext]_runVars =>
        [\A c \in Client : client[c] = "none" /\ client'[c] # "none" =>
           backend = "on" /\ interrupts = 0 /\ \A i \in Targets : manager[i] = "on"]_runVars
  <2> SUFFICES ASSUME RunInv, RunNext, NEW c \in Client, client[c] = "none", client'[c] # "none"
               PROVE  pc = "serving"
    BY DEF RunInv, PhaseInv, ManagerInv
  <2>1. ASSUME NEW d \in Client, Accept(d) PROVE pc = "serving"
    BY <2>1 DEF Accept
  <2>2. ASSUME NEW d \in Client, TaskSteps(d) PROVE FALSE
    BY <2>2 DEF TaskSteps, Requested, Dispatched, Dropped, Executed, TimesOut, Leaves, Held,
                RunInv, RunTypes
  <2>3. CancelTasks => FALSE
    BY Cancelled DEF Inside
  <2>4. \/ MainSteps \/ Interrupt \/ InterruptCleanup \/ InterruptAgain \/ Round
        => UNCHANGED client \/ CancelTasks
    BY DEF MainSteps, Load, StartBackend, BuildFails, StartProber, StartManager, Listen,
           StartFails, Closed, StopManager, StopProber, StopBackend, Interrupt, InterruptCleanup,
           InterruptAgain, Round, clientVars
  <2> QED
    BY <2>1, <2>2, <2>3, <2>4 DEF RunNext
<1> QED
  BY <1>1, RunInvariant, PTL DEF RunSpec, ServesWhenReady

----------------------------------------------------------------------------
(* The settings *)

\* the first layer that gives a setting is the one it comes from
LEMMA FirstOfIs ==
  ASSUME NEW layers, NEW s, DOMAIN layers \subseteq Nat,
         NEW i \in DOMAIN layers, s \in DOMAIN layers[i],
         \A j \in DOMAIN layers : s \in DOMAIN layers[j] => i <= j
  PROVE  FirstOf(layers, s) = layers[i][s]
<1> DEFINE giving == {j \in DOMAIN layers : s \in DOMAIN layers[j]}
           first == CHOOSE j \in giving : \A k \in giving : j <= k
<1>1. i \in giving /\ \A k \in giving : i <= k
  OBVIOUS
<1>2. first \in giving /\ \A k \in giving : first <= k
  <2> HIDE DEF giving
  <2> QED
    BY <1>1, Zenon
<1>3. first = i
  <2>1. giving \subseteq Nat
    OBVIOUS
  <2> HIDE DEF giving, first
  <2> QED
    BY <1>1, <1>2, <2>1
<1>4. FirstOf(layers, s) = layers[first][s]
  BY DEF FirstOf
<1> QED
  BY <1>3, <1>4

LEMMA FirstOfFour ==
  ASSUME NEW a, NEW b, NEW c, NEW d, NEW s \in DOMAIN d
  PROVE  FirstOf(<<a, b, c, d>>, s) =
           IF s \in DOMAIN a THEN a[s]
           ELSE IF s \in DOMAIN b THEN b[s]
           ELSE IF s \in DOMAIN c THEN c[s] ELSE d[s]
<1> DEFINE layers == <<a, b, c, d>>
<1>1. /\ DOMAIN layers = 1..4
      /\ layers[1] = a /\ layers[2] = b /\ layers[3] = c /\ layers[4] = d
  OBVIOUS
<1> HIDE DEF layers
<1>2. DOMAIN layers \subseteq Nat
  BY <1>1
<1>3. CASE s \in DOMAIN a
  BY <1>1, <1>2, <1>3, FirstOfIs DEF layers
<1>4. CASE s \notin DOMAIN a /\ s \in DOMAIN b
  BY <1>1, <1>2, <1>4, FirstOfIs DEF layers
<1>5. CASE s \notin DOMAIN a /\ s \notin DOMAIN b /\ s \in DOMAIN c
  BY <1>1, <1>2, <1>5, FirstOfIs DEF layers
<1>6. CASE s \notin DOMAIN a /\ s \notin DOMAIN b /\ s \notin DOMAIN c
  BY <1>1, <1>2, <1>6, FirstOfIs DEF layers
<1> QED
  BY <1>3, <1>4, <1>5, <1>6

\* what the loaded settings are, layer by layer
LEMMA SettingsByLayer ==
  ASSUME NEW g, NEW s \in Setting
  PROVE  Settings(g)[s] =
           IF s \in DOMAIN g.cli THEN g.cli[s]
           ELSE IF s \in EnvvarOptions /\ s \in DOMAIN g.env THEN g.env[s]
           ELSE IF s \in DOMAIN g.file.server THEN g.file.server[s]
           ELSE IF s \in DOMAIN g.env THEN g.env[s] ELSE Default[s]
<1>1. /\ s \in DOMAIN ServerConfig(g)
      /\ ServerConfig(g)[s] =
           IF s \in DOMAIN g.file.server THEN g.file.server[s]
           ELSE IF s \in DOMAIN g.env THEN g.env[s] ELSE Default[s]
  BY DEF ServerConfig, Over, Setting
<1>2. s \in DOMAIN Options(g) <=>
        s \in DOMAIN g.cli \/ (s \in EnvvarOptions /\ s \in DOMAIN g.env)
  BY DEF Options, Over, Restrict
<1>3. s \in DOMAIN Options(g) =>
        Options(g)[s] = IF s \in DOMAIN g.cli THEN g.cli[s] ELSE g.env[s]
  BY DEF Options, Over, Restrict
<1>4. Settings(g)[s] =
        IF s \in DOMAIN Options(g) THEN Options(g)[s] ELSE ServerConfig(g)[s]
  BY <1>1 DEF Settings, Over
<1> QED
  BY <1>1, <1>2, <1>3, <1>4

(* Whatever the file, the environment and the options give, each setting   *)
(* comes from the first layer that gives it, but for those whose variable  *)
(* click reads as their option.                                            *)
THEOREM SettingsPriorityAlways == RunSpec => SettingsPriority
<1>1. [RunNext]_runVars =>
        [pc = "load" /\ pc' = "backend" =>
           \A s \in Setting \ EnvvarOptions : FromItsFirstLayer(s)]_runVars
  <2> SUFFICES ASSUME RunNext, pc = "load", pc' = "backend", NEW s \in Setting \ EnvvarOptions
               PROVE  FromItsFirstLayer(s)
    OBVIOUS
  <2>1. Load
    <3>1. ~(StartBackend \/ BuildFails \/ StartProber \/ StartManager \/ Listen \/ StartFails)
      BY DEF StartBackend, BuildFails, StartProber, StartManager, Listen, StartFails
    <3>2. ~(Closed \/ StopManager \/ StopProber \/ StopBackend \/ Interrupt
            \/ InterruptCleanup \/ InterruptAgain)
      BY DEF Closed, StopManager, StopProber, StopBackend, Interrupt, InterruptCleanup,
             InterruptAgain
    <3>3. ~Round /\ \A c \in Client : ~Accept(c) /\ ~TaskSteps(c)
      BY DEF Round, Accept, TaskSteps, Requested, Dispatched, Dropped, Executed, TimesOut,
             Leaves, mainVars
    <3> QED
      BY <3>1, <3>2, <3>3 DEF RunNext, MainSteps
  <2>2. cfg'.settings = Settings(given)
    BY <2>1 DEF Load
  <2>3. cfg'.settings[s] =
           IF s \in DOMAIN given.cli THEN given.cli[s]
           ELSE IF s \in EnvvarOptions /\ s \in DOMAIN given.env THEN given.env[s]
           ELSE IF s \in DOMAIN given.file.server THEN given.file.server[s]
           ELSE IF s \in DOMAIN given.env THEN given.env[s] ELSE Default[s]
    BY <2>2, SettingsByLayer
  <2>4. FirstOf(<<given.cli, given.file.server, given.env, Default>>, s) =
           IF s \in DOMAIN given.cli THEN given.cli[s]
           ELSE IF s \in DOMAIN given.file.server THEN given.file.server[s]
           ELSE IF s \in DOMAIN given.env THEN given.env[s] ELSE Default[s]
    BY FirstOfFour DEF Setting
  <2> QED
    BY <2>3, <2>4 DEF FromItsFirstLayer
<1> QED
  BY <1>1, PTL DEF RunSpec, SettingsPriority
=============================================================================
