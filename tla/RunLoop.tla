------------------------------ MODULE RunLoop ------------------------------
(***************************************************************************)
(* One run of the program (cli.run and cli._run): it loads its             *)
(* configuration, starts the backend, the prober, the managers and the     *)
(* listener in this order, serves, and stops them when it is interrupted   *)
(* or when a start fails.  Client handlers, dispatchers and executions are *)
(* tasks beside the main one; they appear here only as far as starting and *)
(* stopping concerns them.                                                 *)
(*                                                                         *)
(* An interrupt is SIGINT.  The first one cancels the main task at its     *)
(* next await that suspends, and is counted when it does.  The second one  *)
(* ends the event loop's run, which cancels every task and lets the main   *)
(* one unwind.                                                             *)
(***************************************************************************)
EXTENDS Configuration, Prober, FiniteSets

CONSTANTS
  Inputs,         \* what the program may be given: file, environment, options
  Client          \* the connections accepted in the run

(* The targets of a file are a list. *)
ASSUME InputsAssumption ==
  \A g \in Inputs :
    LET ts == g.file.targets
    IN  Len(ts) \in Nat /\ DOMAIN ts = 1..Len(ts)

VARIABLES
  pc,             \* where the main task is
  next,           \* the manager it starts or stops next
  given,          \* what was given, until it is loaded
  cfg,            \* the loaded targets and settings
  waits,          \* wait_closed() waits for the handlers (Python 3.12.1 on)
  interrupts,     \* SIGINTs received, at most two
  backend,        \* "off", "on" or "stopped"
  manager,        \* per target: "off", "on", "stopped", or "cancelled" from outside
  client,         \* per connection: what its client has got
  work,           \* per connection: where its request is in the manager
  target          \* per connection: the target it was matched to

mainVars == <<pc, next>>
partVars == <<backend, proberVars, manager>>
clientVars == <<client, work, target>>
inputs == <<given, cfg, waits>>
runVars == <<mainVars, inputs, interrupts, partVars, clientVars>>

Targets == DOMAIN cfg.targets
NoConfig == [targets |-> <<>>, settings |-> Default]
NoInput == [file |-> [pools |-> <<>>, targets |-> <<>>, server |-> <<>>],
            env |-> <<>>, cli |-> <<>>]
OnRedis == cfg.settings.backend = "redis"
Buildable == \A i \in Targets : Resolvable(cfg.targets[i])

(* The addresses of the prober, each once, whichever targets list it. *)
Probed ==
  IF cfg.settings.probe
  THEN UNION {ToSet(ResolvedIpList(cfg.targets[i])) : i \in Targets}
  ELSE {}

(* A handler that only its client can end: it reads the request, relays a  *)
(* tunnel, or writes an answer, none of which has a timeout.               *)
Held(c) == client[c] \in {"reading", "tunnel", "writing"}
Live == {c \in Client : Held(c) \/ client[c] = "waiting"}

RunInit ==
  /\ pc = "load" /\ next = 1
  /\ given \in Inputs
  /\ cfg = NoConfig
  /\ waits \in BOOLEAN
  /\ interrupts = 0
  /\ backend = "off" /\ ProberInit /\ manager = <<>>
  /\ client = [c \in Client |-> "none"]
  /\ work = [c \in Client |-> "none"]
  /\ target = [c \in Client |-> 0]

----------------------------------------------------------------------------
(* Starting *)

(* load_config, then the options.  An error ends the program. *)
Load ==
  /\ pc = "load"
  /\ given' = NoInput
  /\ IF Loads(given.file)
     THEN /\ cfg' = [targets |-> LoadTargets(given.file), settings |-> Settings(given)]
          /\ manager' = [i \in DOMAIN given.file.targets |-> "off"]
          /\ pc' = "backend"
     ELSE pc' = "ended" /\ UNCHANGED <<cfg, manager>>
  /\ UNCHANGED <<next, waits, interrupts, backend, proberVars, clientVars>>

(* A Redis that does not answer the ping, or a missing package, ends the   *)
(* program: this await is outside the try.                                 *)
StartBackend ==
  /\ pc = "backend"
  /\ \/ backend' = "on" /\ pc' = "prober"
     \/ OnRedis /\ pc' = "ended" /\ UNCHANGED backend
  /\ UNCHANGED <<next, inputs, interrupts, proberVars, manager, clientVars>>

(* The managers are built first, outside the try: a port that is no number *)
(* ends the program with the backend open.                                 *)
BuildFails ==
  /\ pc = "prober"
  /\ ~Buildable
  /\ pc' = "ended"
  /\ UNCHANGED <<next, inputs, interrupts, partVars, clientVars>>

StartProber ==
  /\ pc = "prober"
  /\ Buildable
  /\ ProberStarts(Probed, cfg.settings.probe_urls)
  /\ pc' = "managers"
  /\ UNCHANGED <<next, inputs, interrupts, backend, manager, clientVars>>

(* A manager's start seeds its pool through the backend. *)
StartManager ==
  /\ pc = "managers"
  /\ next \in Targets
  /\ manager' = [manager EXCEPT ![next] = "on"]
  /\ next' = next + 1
  /\ UNCHANGED <<pc, inputs, interrupts, backend, proberVars, clientVars>>

(* variant: the listener is opened before the managers are started. *)
ListenEarly ==
  /\ pc = "managers"
  /\ pc' = "serving"
  /\ next' = 1
  /\ UNCHANGED <<inputs, interrupts, partVars, clientVars>>

Listen ==
  /\ pc = "managers"
  /\ next \notin Targets
  /\ pc' = "serving"
  /\ next' = 1
  /\ UNCHANGED <<inputs, interrupts, partVars, clientVars>>

(* variant: the start of the proxy is outside the try. *)
StartFailsOutside ==
  /\ pc = "managers"
  /\ next \in Targets => OnRedis
  /\ pc' = "ended"
  /\ next' = 1
  /\ UNCHANGED <<inputs, interrupts, partVars, clientVars>>

(* The pool's first commands fail, or the port is taken: the finally block *)
(* stops everything, the managers that were never started included.        *)
StartFails ==
  /\ pc = "managers"
  /\ next \in Targets => OnRedis
  /\ pc' = "stopping"
  /\ next' = 1
  /\ UNCHANGED <<inputs, interrupts, partVars, clientVars>>

----------------------------------------------------------------------------
(* Serving *)

Accept(c) ==
  /\ pc = "serving"
  /\ client[c] = "none"
  /\ client' = [client EXCEPT ![c] = "reading"]
  /\ UNCHANGED <<mainVars, inputs, interrupts, partVars, work, target>>

(* The request is there and is matched to a target, and put in its queue;  *)
(* or it is a CONNECT; or it is refused, for its form or for want of a     *)
(* target.                                                                 *)
Requested(c) ==
  /\ client[c] = "reading"
  /\ \/ \E i \in Targets :
          /\ target' = [target EXCEPT ![c] = i]
          /\ \/ /\ client' = [client EXCEPT ![c] = "waiting"]
                /\ work' = [work EXCEPT ![c] = "queued"]
             \/ /\ client' = [client EXCEPT ![c] = "tunnel"]
                /\ UNCHANGED work
     \/ /\ client' = [client EXCEPT ![c] = "writing"]
        /\ UNCHANGED <<work, target>>
  /\ UNCHANGED <<mainVars, inputs, interrupts, partVars>>

(* The dispatcher takes the request and an execution starts. *)
Dispatched(c) ==
  /\ work[c] = "queued"
  /\ manager[target[c]] = "on"
  /\ work' = [work EXCEPT ![c] = "executing"]
  /\ UNCHANGED <<mainVars, inputs, interrupts, partVars, client, target>>

(* The dispatcher drops a request that has waited too long. *)
Dropped(c) ==
  /\ work[c] = "queued"
  /\ manager[target[c]] = "on"
  /\ work' = [work EXCEPT ![c] = "done"]
  /\ client' = [client EXCEPT ![c] = IF @ = "waiting" THEN "writing" ELSE @]
  /\ UNCHANGED <<mainVars, inputs, interrupts, partVars, target>>

Executed(c) ==
  /\ work[c] = "executing"
  /\ \/ /\ work' = [work EXCEPT ![c] = "done"]
        /\ client' = [client EXCEPT ![c] = IF @ = "waiting" THEN "writing" ELSE @]
     \/ /\ work' = [work EXCEPT ![c] = "queued"]     \* a retry
        /\ UNCHANGED client
  /\ UNCHANGED <<mainVars, inputs, interrupts, partVars, target>>

(* variant: the timeout counts only once the request has been dealt with. *)
TimesOutAfterwards(c) ==
  /\ client[c] = "waiting"
  /\ work[c] = "done"
  /\ client' = [client EXCEPT ![c] = "writing"]
  /\ UNCHANGED <<mainVars, inputs, interrupts, partVars, work, target>>

(* The handler's own timeout: a 504. *)
TimesOut(c) ==
  /\ client[c] = "waiting"
  /\ client' = [client EXCEPT ![c] = "writing"]
  /\ UNCHANGED <<mainVars, inputs, interrupts, partVars, work, target>>

(* The tunnel ends, the client has taken its answer, or has gone before it *)
(* sent a request.                                                         *)
Leaves(c) ==
  /\ Held(c)
  /\ client' = [client EXCEPT ![c] = "answered"]
  /\ UNCHANGED <<mainVars, inputs, interrupts, partVars, work, target>>

(* The prober goes its rounds beside all this. *)
Round ==
  /\ RoundStarts(Probed) \/ \E a \in probing : ProbeEnds(a) \/ ProbeRaises(a)
  /\ UNCHANGED <<mainVars, inputs, interrupts, backend, manager, clientVars>>

----------------------------------------------------------------------------
(* Stopping *)

(* Every task but the main one is cancelled; clients see a closed connection. *)
CancelTasks ==
  /\ client' = [c \in Client |-> IF c \in Live THEN "cut" ELSE client[c]]
  /\ work' = [c \in Client |-> IF work[c] = "none" THEN "none" ELSE "done"]
  /\ manager' = [i \in DOMAIN manager |->
                   IF manager[i] = "on" THEN "cancelled" ELSE manager[i]]
  /\ ProberStops
  /\ UNCHANGED target

(* Only an await that suspends can be cancelled: the memory backend's do not. *)
Interrupt ==
  /\ interrupts = 0
  /\ interrupts' = 1
  /\ \/ pc = "backend" /\ OnRedis /\ pc' = "ended"
     \/ pc = "managers" /\ (next \in Targets => OnRedis) /\ pc' = "stopping"
     \/ pc = "serving" /\ pc' = "closing"
  /\ next' = 1
  /\ UNCHANGED <<inputs, partVars, clientVars>>

(* variant: the handlers are not waited for. *)
ClosedAtOnce ==
  /\ pc = "closing"
  /\ pc' = "stopping"
  /\ UNCHANGED <<next, inputs, interrupts, partVars, clientVars>>

(* serve_forever closes the listener and waits for its handlers, if it does. *)
Closed ==
  /\ pc = "closing"
  /\ waits => Live = {}
  /\ pc' = "stopping"
  /\ UNCHANGED <<next, inputs, interrupts, partVars, clientVars>>

(* variant: the loop over the managers runs past their end. *)
StopManagerPast ==
  /\ pc = "stopping"
  /\ manager' = [i \in DOMAIN manager |-> IF i = next THEN "stopped" ELSE manager[i]]
  /\ next' = next + 1
  /\ next <= Len(cfg.targets) + 1
  /\ UNCHANGED <<pc, inputs, interrupts, backend, proberVars, clientVars>>

(* Its dispatcher, metrics task and sweep are cancelled and awaited; what is *)
(* queued stays queued, and executions go on.                                *)
StopManager ==
  /\ pc = "stopping"
  /\ next \in Targets
  /\ manager' = [manager EXCEPT ![next] = "stopped"]
  /\ next' = next + 1
  /\ UNCHANGED <<pc, inputs, interrupts, backend, proberVars, clientVars>>

StopProber ==
  /\ pc = "stopping"
  /\ next \notin Targets
  /\ ProberStops
  /\ pc' = "stopBackend"
  /\ UNCHANGED <<next, inputs, interrupts, backend, manager, clientVars>>

(* The main task is done, and asyncio.run cancels whatever still runs. *)
StopBackend ==
  /\ pc = "stopBackend"
  /\ backend' = "stopped"
  /\ pc' = "ended"
  /\ CancelTasks
  /\ UNCHANGED <<next, inputs, interrupts>>

(* The first interrupt comes when a start has failed and the finally block  *)
(* is under way: the await it is in is cancelled, and the rest of the block *)
(* is lost.  The stop of what was never started does not suspend.           *)
InterruptCleanup ==
  /\ interrupts = 0
  /\ interrupts' = 1
  /\ \/ pc = "stopping" /\ next \in Targets /\ manager[next] = "on"
     \/ pc = "stopping" /\ next \notin Targets /\ prober = "on"
     \/ pc = "stopBackend" /\ OnRedis
  /\ pc' = "ended"
  /\ CancelTasks
  /\ UNCHANGED <<next, inputs, backend>>

(* While closing, the main task goes on with its finally block; inside that *)
(* block, the rest of it is lost.                                           *)
InterruptAgain ==
  /\ interrupts = 1
  /\ interrupts' = 2
  /\ \/ pc = "closing" /\ pc' = "stopping"
     \/ pc \in {"stopping", "stopBackend"} /\ pc' = "ended"
  /\ CancelTasks
  /\ UNCHANGED <<next, inputs, backend>>

MainSteps ==
  \/ Load \/ StartBackend \/ BuildFails \/ StartProber \/ StartManager \/ Listen \/ StartFails
  \/ Closed \/ StopManager \/ StopProber \/ StopBackend

TaskSteps(c) ==
  Requested(c) \/ Dispatched(c) \/ Dropped(c) \/ Executed(c) \/ TimesOut(c) \/ Leaves(c)

RunNext ==
  \/ MainSteps
  \/ Interrupt
  \/ InterruptCleanup
  \/ InterruptAgain
  \/ pc # "ended" /\ Round
  \/ \E c \in Client : pc # "ended" /\ (Accept(c) \/ TaskSteps(c))

RunSpec == RunInit /\ [][RunNext]_runVars

(* The main task, the prober and the handlers' timers run as long as the *)
(* loop does, and a probe has a total timeout.                           *)
(* Nothing makes a client send, read or leave, or an interrupt come.    *)
RunFairSpec ==
  /\ RunSpec
  /\ WF_runVars(MainSteps)
  /\ WF_runVars(pc # "ended" /\ Round)
  /\ \A c \in Client : WF_runVars(pc # "ended" /\ TimesOut(c))

----------------------------------------------------------------------------
(* Properties *)

(* Type correctness. *)
RunTypeOK ==
  /\ pc \in {"load", "backend", "prober", "managers", "serving", "closing",
             "stopping", "stopBackend", "ended"}
  /\ next \in 1..Len(cfg.targets) + 1
  /\ waits \in BOOLEAN /\ interrupts \in 0..2
  /\ backend \in {"off", "on", "stopped"}
  /\ prober \in {"off", "on", "stopped"} /\ probing \subseteq Probed
  /\ DOMAIN manager = Targets
  /\ \A i \in Targets : manager[i] \in {"off", "on", "stopped", "cancelled"}
  /\ \A c \in Client :
       /\ client[c] \in {"none", "reading", "waiting", "tunnel", "writing", "answered", "cut"}
       /\ work[c] \in {"none", "queued", "executing", "done"}
       /\ target[c] \in Targets \cup {0}

(* A configuration is loaded exactly when every target of the file is as   *)
(* the field reference wants it, whichever spelling of a key counts in the *)
(* end (_normalise_target and load_config together).                       *)
LoadsWhatIsWellFormed ==
  [][pc = "load" =>
       (pc' = "backend" <=>
          /\ \A i \in DOMAIN given.file.pools : given.file.pools[i].ips # <<>>
          /\ \A i \in DOMAIN given.file.targets :
               WellFormed(given.file.targets[i], given.file))]_runVars

\* of options, file, environment and default, the first that gives it
FromItsFirstLayer(s) ==
  cfg'.settings[s] = FirstOf(<<given.cli, given.file.server, given.env, Default>>, s)

(* A setting whose option has no variable of its own comes from the first  *)
(* layer that gives it, through the two passes that put the layers         *)
(* together (ServerConfig's sources, then the options of cli.run).         *)
SettingsPriority ==
  [][pc = "load" /\ pc' = "backend" =>
       \A s \in Setting \ EnvvarOptions : FromItsFirstLayer(s)]_runVars

(* "Config priority (highest -> lowest): CLI arguments, YAML config file,  *)
(* Environment variables" (cli.py, 3-6), for every setting.  click reads   *)
(* the variable of the Redis URL as if it were the option, so that there   *)
(* the environment wins over the file.                                     *)
EverySettingsPriority ==
  [][pc = "load" /\ pc' = "backend" => \A s \in Setting : FromItsFirstLayer(s)]_runVars

(* No client is let in before the backend and every manager have started,  *)
(* nor once the shutdown has begun.                                        *)
ServesWhenReady ==
  [][\A c \in Client : client[c] = "none" /\ client'[c] # "none" =>
       backend = "on" /\ interrupts = 0 /\ \A i \in Targets : manager[i] = "on"]_runVars

(* Where wait_closed() waits, no manager is stopped while a client is      *)
(* still there: after one interrupt, every client that was let in is       *)
(* served as if nothing had happened.                                      *)
StopsAfterItsClients ==
  waits /\ interrupts < 2 =>
    \A c \in Client :
      /\ client[c] # "cut"
      /\ c \in Live => \A i \in Targets : manager[i] = "on"

(* Whatever failed to start and wherever the interrupts came, the program  *)
(* does not end with a task of its own running, and the backend is closed  *)
(* after all of its users.  It is left open in two cases only: a manager   *)
(* cannot be built (cli.py, 209: the try begins too late), or an interrupt *)
(* comes inside the finally block, be it the first one or the second.      *)
CleanExit ==
  /\ [](/\ pc = "ended" => /\ prober # "on" /\ probing = {}
                           /\ Live = {}
                           /\ \A i \in Targets : manager[i] # "on"
        /\ backend = "stopped" => \A i \in Targets : manager[i] = "stopped")
  /\ [][backend = "on" /\ pc' = "ended" /\ pc # "ended" =>
           \/ backend' = "stopped"
           \/ ~Buildable
           \/ interrupts' > interrupts /\ pc \in {"stopping", "stopBackend"}]_runVars

(* An interrupted program ends, unless one client keeps its connection for *)
(* ever where wait_closed() waits for it.                                  *)
ShutdownEnds ==
  [](interrupts > 0 =>
       <>(pc = "ended" \/ \E c \in Client : [](waits /\ Held(c))))

(* Every address is probed again and again while the program serves, if    *)
(* there is a URL to probe with: a probe that hangs, fails or raises what  *)
(* nobody catches keeps neither the other addresses nor its own from the   *)
(* next round.                                                             *)
ProbesGoOn ==
  /\ pc = "serving" /\ Probed # {} /\ cfg.settings.probe_urls # <<>> ~>
       pc # "serving" \/ probing = Probed
  /\ pc = "serving" ~> pc # "serving" \/ probing = {}
=============================================================================
