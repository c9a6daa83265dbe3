# Proxy Hopper: specifications and proofs

TLA+ models of the Proxy Hopper server (`src/python_modules/proxy-hopper` and
`src/python_modules/proxy-hopper-redis`), TLC runs that check them on small instances,
and TLAPS proofs about the core. `PROJECT.json` is the machine-readable index: components,
runs, the source lines each definition models, findings, hazards, theorems.

Paths below are relative to `src/python_modules/proxy-hopper/src/proxy_hopper/`;
"Redis backend" is `src/python_modules/proxy-hopper-redis/src/proxy_hopper_redis/backend.py`.

## The system

Proxy Hopper accepts HTTP requests and CONNECT tunnels and forwards each through one of a
list of external proxies ("addresses"), rotating them so that an address has one user at a
time, rests after each use, and sits out after several failures in a row.

| component | state | operations | interacts with |
|---|---|---|---|
| storage backend (`backend/base.py`, `backend/memory.py`, Redis backend) | init mark, queue of ready addresses, failure counter per address, quarantine release times | `init_target`, `push_ip`, `pop_ip`, `increment_failures`, `reset_failures`, `quarantine_add`, `quarantine_pop_expired` | called by every `IPPool` of the target; on Redis shared by all instances |
| pool policy (`pool.py`) | cooldown tasks, sweep task | `start`, `stop`, `acquire`, `record_success`, `record_failure`, `_return_after_cooldown`, `_sweep_quarantine` | backend below; dispatcher, executions and CONNECT handlers above |
| target manager (`target_manager.py`, `models.py`) | FIFO of pending requests, one dispatcher task, execution tasks | `submit`, `_dispatcher_worker`, `_execute_request`, `clone_for_retry` | pool; futures shared with the handlers |
| server (`server.py`) | handler coroutine per client, two pipes per tunnel | `_read_request_head`, `_handle_http`, `_handle_connect`, `_find_manager`, `_relay`, `start`, `stop` | `submit` and the future for HTTP, the pool directly for CONNECT |
| configuration (`config.py`) and command line (`cli.py`) | none after start | parsing, merging of defaults and pools, precedence of overrides | builds the other components |
| prober (`prober.py`) | one task, and a probe per address in each of its rounds | `start`, `stop`, rounds of probes | started and stopped by the command line; sets gauges |
| metrics, logging | write-only | | read by nothing in the system |

What is hard here:

* **Interleaving at a shared storage.** With Redis, every call into the backend suspends the
  coroutine, and other coroutines and other instances run in between. Two of the backend's
  calls are several Redis commands (`init_target`, `quarantine_pop_expired`).
* **An address outside the queue exists only in somebody's hands**: a caller, a cooldown
  task, a sweep, an entry in quarantine. A path that forgets it loses it silently; a path
  that returns it twice gives it to two callers.
* **Time.** Deadlines, pop timeouts that round, the handler's grace, cooldowns, quarantine
  and the expiry of the init key race with each other.
* **One dispatcher** serializes the wait for addresses, so requests queue behind each other,
  and retries behind younger requests.
* **One future for several incarnations** of a request: the retries' results, the
  dispatcher's drops and the handler's timeout race for it.
* **Failure of a part**: an instance stops, a command fails before or after it was done, a
  client disconnects at any point of what it sends.
* **Waits without a timeout**: reading a request, `drain()` of an answer or a pipe, `wait_closed()`.

What makes each component correct:

* storage and pool: each address has one holder at most and is never lost; the counter
  agrees with where the address is; an address is held off after each use; quarantine is
  served and ends; everything comes back (liveness);
* manager: one incarnation of a request at a time, no more than `num_retries + 1` attempts,
  no address spent on an answered request, no wait beyond the deadline, an answer in the end;
* server: both routes into the pool preserve the pool's properties, every handler reports
  each address it was given; a request goes whole or not at all to the first target that
  matches, and every handler ends;
* targets: the pool of a target with a name of its own neither gains nor loses an address, whatever
  the other targets' names and lists are;
* configuration: values reach the components with the documented units and precedence.

The full list of hazards, each at its line with the property that covers it (or why none
does), is in `PROJECT.json` under `hazards`.

## The modules

```
IPPoolBackend            primitives of the storage of one target
  IPPool                 rotation policy: instances, callers, cooldowns, sweeps, time
    IPPoolProofs         theorems: typing, one holder, none lost, counters, the hold-off
    IPPoolRotation       refinement mapping to Rotation (the abstract promise)
      IPPoolRotationProofs   theorem: the pool implements Rotation
      RedisPool          multi-command calls, stops and restarts, key expiry, errors;
                         mapping to LossyRotation (Rotation that may lose addresses)
        RedisPoolProofs  theorems: one holder, what is lost, LossyRotation implemented
    TargetManager        queue, dispatcher, executions, retries, futures, deadlines
      TargetManagerProofs    theorems: use of the pool, one incarnation, attempts, waits
      TargetManagerHistory   + when each request was last queued
      TargetManagerFaults    + calls into the backend that fail
        TargetManagerFaultsProofs   theorems: nothing doubled, the damage of an error
      ProxyServer        + CONNECT handlers on the same pool
        ProxyServerProofs    theorems: one holder, the only leak, a tunnel's wait
TargetPools              several targets on one storage: names, lists, duplicates
Relay                    the two pipes of a tunnel
  FrontEnd               a connection from its first line to its answer, over both
    FrontEndProofs       theorems: typing, requests refused or whole, pools kept
Configuration            loading: spellings, durations, lists, validation, precedence
Prober                   the rounds of the prober's task
  RunLoop                one run of the program, from its options to its exit
    RunLoopProofs        theorems: clean exit, when clients are served, the settings
MC*                      constants of the instances TLC checks
```

**IPPoolBackend.** `initKey`, `pool`, `failures`, `quarantine` are the four pieces of storage
of a target. Every primitive is one operator over one of them. Wall-clock release times are
countdowns (`quarantine[a]` is the time left, `NoEntry` when the address is not listed), which
keeps the state finite; "due" is a countdown of 0.

**IPPool.** An instance goes "new" → "seeding" → "running" (`start`); a caller goes "idle" →
"waiting" → "holding" → "succeeded"/"failed" → "idle" (`acquire`, use, `record_success` or
`record_failure`). A step ends at each backend call, so `record_failure` is `RecordFailure`
(`increment_failures`) followed by `RestAfterFailure` or `QuarantineIp`; the value that the
first call returned is kept in `count`, as the local variable of the code keeps it.
`cooldown[i][a]` is the task `_return_after_cooldown` of instance `i` for address `a`; `claimed`
and `releasing` are the loop variables of `_sweep_quarantine`. With the memory backend the
calls do not suspend: its behaviours are those of this model in which consecutive steps of a
coroutine follow each other at once, so safety carries over.
`Tick` lets one unit of time pass; tasks whose sleep is over may be late by any amount.

**Rotation / IPPoolRotation.** `Rotation` is what callers rely on: outside → ready → leased →
resting or out → ready, with the count of strikes. `IPPoolRotation` gives the mapping;
`ImplementsRotation` is checked as a property of `IPPool`. `LossyRotation` adds one step to
`Rotation`: some addresses drop out for good. It is what `RedisPool` implements.

**TargetManager.** A request is a `Caller` of the pool: the dispatcher acquires for it and its
execution reports for it, so every action here contains the pool's action
(`StartAcquire` contains `Acquire`, `Dispatch` contains `Pop`, `Fail` contains `RecordFailure` …).
The deadline and the handler's patience are one countdown (`patience`), which passes the
deadline at `Grace`. `PopBudget` is the time `pop_ip` blocks for a given timeout: the identity
for memory, `max(1, int(timeout))` seconds for Redis. `Forget` makes an answered request
available as a new one, so that runs go on with a finite set of requests.

**TargetManagerHistory** adds what is needed to state what the documentation says of the wait:
when the request was last queued.

**TargetManagerFaults** lets the calls of the manager into its backend raise: a connection that
drops, before the command was done or after. What happens then depends on who called.
`AcquireError`: nothing in `_dispatcher_worker` catches it, so the only dispatcher of the
instance is `dead`, perhaps with an address. `ReportError` and `QuarantineError`: inside the
`try` of `_execute_request` the except branch takes over and reports once more (`TakenOver`,
`ReportAgain`); in the except branch the task ends and the future stays as it is (`Abandon`).
`ReturnError`: a cooldown task ends, before its push or after it. `reported` marks the executions that are past an error of
their first report. There is no `Forget`, so each client sends one request.
An address that an error has doubled may get two cooldown tasks in one instance; `cooldown[i][a]` has
room for one, and the second then takes the place of the first.

**RedisPool** refines `InitTarget` into SETNX and EXPIRE, and the sweep into ZRANGEBYSCORE and a
ZREM per entry, and adds stops and restarts of instances (`Stop`), the expiry of the init key
(`InitKeyExpires`, only in `ExpirySpec`) and an error in a sweep's command (`SweepError`).
`Gone` are the addresses that were pushed, or skipped by a seeding that was cut short, and are
nowhere now; the mapping to `LossyRotation` is that of `IPPoolRotation` for the others.

**ProxyServer** adds CONNECT handlers: one loop of `num_retries + 1` passes, each with its own
acquire; the 200 to the client; the relay; the one path that leaves an address unreported. A tunnel's
steps are steps of the pool and leave the manager's variables alone, a request's are the manager's;
`PSFairness` is the fairness of both routes, which the run `manager` uses.

**TargetPools** is the storage as several managers see it. The key of a queue is the name of a
target; the first manager of a name seeds its list, entry for entry. The inside of one pool is
`IPPool`'s business: here an address is in its queue, in use, or resting after a use.

**Relay** is `_relay`: a pipe per direction, which reads, writes, waits in `drain()` while its
receiver is behind, and closes its receiver's connection when it ends. The peers are external:
they send, take, end their side, or go, and nothing makes them do so. What has been written to a
peer and not been taken is `pending`; a peer that neither takes it nor goes `Stalls` its writer.

**FrontEnd** is a connection: the first line, the headers, the body, the choice of the target,
the wait for the answer, or the tunnel. The input of a client is a sequence of tokens and the
way it ends (it stays open, sends no more, or is reset). What happens to a request inside its
target is in `TargetManager`, and the retries of a CONNECT are in `ProxyServer`: here a request
gets an address and something comes of it. A retried request is one that got no answer
from its use, and its client is answered by the handler's timeout (`TimesOut`). An answer is written
(`Answers`), a response is then drained if too much of it is pending (`Flushed`), and every handler
ends with `wait_closed()` (`WaitClosed`); both wait, without a timeout, for a client that may take
what is pending or not (`ClientTakes`). `Due` is the reference: it takes the text as a whole and says
which answers may be given; `Incomplete` says of a text that more has to come.

**Configuration** is `load_config` and the overrides of `cli.run` as operators. A target of
the file is the sequence of its key-value pairs, since two spellings of a key may both be
there and the later one counts. Three settings stand for all: one a flag, one a choice, and
`redis_url`, whose environment variable `click` reads itself. `WellFormed` and `FirstOf` are the
reference definitions, stated on the file and the layers rather than on what the loader makes
of them. `EnvvarOptions` are the settings whose option has an environment variable of its own.

**Prober** is the task of `IPProber`, which `start` creates only when there are addresses and URLs to
probe them with: a round probes all addresses at once and waits for all of
them, `gather` keeps an unknown exception of a probe to itself, `stop` cancels task and probes.
What a probe writes to the metrics is left out.

**RunLoop** is the main task of `cli.run` and `_run`, with an action per await: load, start the
backend, build the managers, start the prober and the managers, listen, serve, close, stop. A
start may fail at each point where the code calls the backend or the network, or in building the
managers (`BuildFails`), and one or two interrupts may come: the first while the program starts or
serves (`Interrupt`), or in the `finally` block of a start that failed (`InterruptCleanup`), where it
cancels what is left of the block; the second while it stops (`InterruptAgain`). `waits` is what `wait_closed()` does: from Python 3.12.1 on it waits for the
handlers, before it did not. Requests appear only as far as stopping concerns them; a handler
is either waiting for its answer, with a timeout, or `Held` by its client, without one. The
prober runs beside the main task, in `Round` and `Probed`.

Operators whose comment begins with "variant" are faulty versions of the operator that follows
them. They are used by no specification; putting one in the place of the real operator must
make the property paired with it in `PROJECT.json` (`mutants`) fail, which shows that the
property depends on that piece of the code.

## The runs

| run | instance | shows |
|---|---|---|
| `pool` | 2 instances, 3 callers, 2 addresses, threshold 2, interval 2, quarantine 2 | one holder, none lost, counters right, hold-off respected, `Rotation` implemented; every address that is not in use comes back |
| `manager` | 1 instance, 2 requests and 1 tunnel, 2 of them at a time, 2 addresses, threshold 1, 1 retry, memory timeouts | one holder over both routes into the pool; one incarnation, no work for the answered, attempts and waits bounded; the unconfirmed tunnel is the only leak, and a tunnel's client waits for `num_retries + 1` acquires at most; every request is answered and its retries end |
| `manager_faults` | 1 instance, 2 requests, 2 addresses, threshold 2, Redis timeouts, which overrun the deadline, and 2 calls that fail | every client is still answered, no request is doubled, an error costs one address or one strike too many at the most |
| `redis` | 2 instances, 1 caller each, 2 addresses, 2 faults (a stop at any point, an error in a sweep) | `LossyRotation` implemented: faults lose what the stopped task had in hand and nothing else, and never double an address, bring one back or corrupt a counter |
| `front_end` | one client with any of 2 700 inputs, or two clients with plain requests, on targets that may share an address or a pattern, or list an address twice | a request is refused or sent whole to the first target that matches; no pool gains or loses an entry; handlers end unless their client keeps them; addresses come back unless a peer stalls |
| `run_loop` | 1 000 inputs, 2 connections, up to 2 targets and 2 interrupts | what loads is what is well formed, settings come from the first layer, only a started program serves, no manager stops before its clients are answered, what is left behind by which end, the shutdown ends unless a client holds it, the prober's rounds go on |

`manager` reaches 272 845 distinct states in about two minutes, `run_loop` 243 525 and `front_end`
159 124; these are the largest.

Runs expected to fail, each a disagreement between the code and what its documentation or
comments say (quoted in `PROJECT.json` under `findings`):

| run | what TLC finds |
|---|---|
| `retry_wait` | a retry waits past its deadline behind a younger request, until that one's pop ends; it is then dropped as expired, unless its handler has given up before |
| `redis_early_release` | ZREM takes an entry that was listed again after it was read: quarantine is cut short |
| `redis_reseed` | after the init key has expired, a starting instance pushes the list again: two callers get one address |
| `settings_priority` | with a Redis URL in the file and one in the environment, the environment's counts |
| `same_name` | two targets have one name: the second one's list is never pushed, and its requests use the first one's addresses |
| `server_leak` | a client that disconnects before the 200 is taken: the address is never returned |

Further points where the code differs from what one may read in its documentation, which a
passing property states as the code has them:

* `quarantine_time` may be configured below `min_request_interval`, and the sweep returns an
  address without a cooldown; the hold-off then is cut short. `RateLimited` is proved under
  `QuarantineTime >= MinRequestInterval` and checked with such settings.
* A Redis pop asked for less than a second blocks for one, so a request may be dispatched after
  its deadline. `DispatchedInTime` is checked with the memory backend's timeouts only; what
  remains true with the rounded ones is `NoWorkForTheAnswered`.
* An instance that stops takes the addresses it has in hand with it, and the init key keeps its
  restart from seeding them (`LostOnlyWithHolder`).
* A CONNECT waits `max_queue_wait` per attempt (`TunnelWaitBounded`).
* An error in a command ends the sweep task, and nothing restarts it: what is in quarantine then
  waits for another instance. `ComesBackOrLost` promises something only while some sweep runs. So
  "pool state survives process restarts" (the Redis package's README, 10) is true of the storage,
  and not of what a task had in hand.
* A head that breaks off inside its headers is executed as it stands, without a
  `content-length` it may have lost (`RefusedOrWhole` has the end of input end the head, as the
  reader has). A body in chunks is not read at all, and the request is sent without it. A client that
  waits for `100 Continue` waits for ever, since the server does not send it.
* An address listed twice has two users at a time (`PoolsKept` counts entries, and is stated for
  targets whose name is their own; for the others see `same_name`).
* A port that is no number raises when the managers are built, outside the `try`, and an interrupt
  inside the `finally` block cancels the stops that are left; in both cases the backend stays open
  (`CleanExit` names them).
* Reading a request, `drain()` and `wait_closed()` have no timeout: a client that does not send
  what it announced, or does not take its answer, keeps its handler; a peer that does not take what
  is written to it keeps the tunnel and its address, also after the other peer has gone
  (`HandlersEnd`, `AddressesComeBack` say up to which peers' behaviour).
* An answer whose head cannot be encoded ends the handler by an exception, after the success was
  reported: the client gets nothing.
* A failed `acquire` ends the instance's dispatcher for good; its clients get the handler's 504
  (`RequestsAnswered`).
* A retry may go through the address that has just failed it, where the README (137) has "Retry
  attempts using a different IP": nothing keeps track of it.
* Before Python 3.12.1 the managers are stopped under clients that still wait
  (`StopsAfterItsClients` is stated for `waits`); from then on, an idle
  tunnel or a client that neither sends nor reads holds up the shutdown until a second interrupt
  (`ShutdownEnds`).

**Bounds, and why they are enough.** Two instances are needed for any race at the storage; a
third adds no new pair of commands. Three callers on two addresses give contention in the
queue and two callers in one instance. A threshold of 2 is the least that tells "consecutive"
from "ever"; 1 is used where only the quarantine matters. An interval of 2 lets a task be in
the middle of its sleep. The lists have two addresses because the orders that matter are those
of a pair; a single address is used where contention has to be certain. `MaxClients` of 2 in `manager` lets any
two of the two requests and the tunnel meet; its threshold of 1 keeps it small, as strikes below a
threshold are the business of `pool` and, under the manager, of `manager_faults`. `MaxFaults` of 2
lets an instance stop, restart and stop again, or both stop once, or one stop while the other's
sweep fails; there the interval is 0, since a task that sleeps and one that is late are lost in
the same way. `MaxErrors` of 2 lets the second report of an execution fail as well, or a
dispatcher end while an execution fails. `Grace` stands for the 5 seconds of the handler and is at least as long as a Redis
pop overruns the deadline; a `MaxQueueWait` of 2 or 3 ticks lets a request be fresh, late and
expired. `NumRetries` of 1 gives a retry and a last attempt. Attempts, counters and countdowns
need no bound of their own: the code bounds them. `RunLoop` has
two targets and two connections (one can wait while another's manager stops) and a small set of
files with one flaw each; targets and settings vary separately because neither depends on the
other. `FrontEnd` has two headers at most
and bodies of up to `MaxBody` + 1 = 2 bytes: missing, exact, short and too large; each request is
sent once; what a client sends and how targets are configured vary separately, because the head is
read before the targets are looked at. What the runs show of an instance, the
theorems below show for all values of the constants, as far as they go.

**Fairness.** `FairSpec`, `PSFairness`, `TMFFairSpec` and `RPFairSpec` assume weak fairness of what the
event loops run by themselves: time passes, a started pool finishes seeding, cooldown tasks,
sweeps and the dispatcher get their turn, a report that has begun finishes. `PSFairness` and
`TMFFairSpec` also assume that an execution ends, because the HTTP session has a total timeout, and
that the handler's timer fires. Weak fairness is enough and justified because asyncio runs ready
callbacks in order and none of these steps is disabled by others for ever once enabled. No
fault has to happen. Each of these runs checks its safety and its liveness on the same instance.
`RunFairSpec` assumes that the main task goes on unless it waits for its handlers, that a
handler's timer fires, and that the prober's task goes on: a probe has a total timeout.
`FEFairSpec` assumes that a handler with something to do does it, that an execution, a dial and a
cooldown end, and that a pipe moves when it can. Nothing makes an instance start, a client arrive,
send, take, read or leave, a proxy take or go, or a caller of the bare pool finish its use.
In `TMTick`, `TMFTick` and `PSTick` time does not pass while a loop has work ready (`LoopsIdle`):
deadlines are compared at the granularity of a tick, and a loop that is slower than a tick is
outside the claims about waits.

## The proofs

`IPPoolProofs` proves, for any instances, callers, addresses, list and settings that satisfy
the assumptions of `IPPool`:

* `Typing`: `Spec => []TypeOK`;
* `OneHolderAlways`: `Spec => []OneHolder`, no address is ever in two places;
* `NoneLostAlways`: `Spec => []NoneLost`, no address is ever in none;
* `StrikesAgreeAlways`: `Spec => []StrikesAgree`, the counter agrees with where the address is;
* `RateLimitedAlways`: `QuarantineTime >= MinRequestInterval /\ Spec => []RateLimited`, an address
  in the queue has not been used for `MinRequestInterval`.

`IPPoolRotationProofs`:

* `PoolImplementsRotation`: `Spec => ImplementsRotation`, each step is a step of `Rotation` or none.

`TargetManagerProofs`:

* `ManagerUsesThePool`: `TMSpec => UsesThePool`, the manager's steps are pool steps;
* `ManagerOneHolder`: `TMSpec => []OneHolder`, by the former and `OneHolderAlways`;
* `ManagerTyping`: `TMSpec => []TMTypeOK`;
* `OneIncarnationAlways`: `TMSpec => []OneIncarnation`, a pending request is in one place, once;
* `AttemptsBoundedAlways`: `TMSpec => []AttemptsBounded`, at most `NumRetries + 1` executions;
* `NoWorkForTheAnsweredAlways`: `TMSpec => []NoWorkForTheAnswered`, where `PopBudget[t] < t + Grace`
  for every timeout `t` from 1 up;
* `DispatchedInTimeAlways`: `TMSpec => DispatchedInTime`, no execution starts late, where
  `PopBudget[t] <= t`;
* `FirstWaitBoundedAlways`: `TMSpec => []FirstWaitBounded`, likewise where `PopBudget[t] <= t`.

The hypotheses on `PopBudget` are what the two backends do. The memory backend passes the timeout
on to `asyncio.wait_for`, which is `PopBudget[t] = t`. Redis truncates the timeout to whole seconds
but blocks for one at the least, so it overruns only when less than a second is left, and by less
than a second where the grace is five: the first hypothesis holds for it and the second does not.

`TargetManagerFaultsProofs`, for any number of calls that fail:

* `NeverDoubledAlways`: `TMFSpec => []NeverDoubled`, no request has two incarnations, and a waiting
  one that has none is the work of an error;
* `AttemptsBoundedDespiteErrors`: `TMFSpec => []AttemptsBounded`;
* `NoWorkForTheAnsweredDespiteErrors`: `TMFSpec => []NoWorkForTheAnswered`, under the first hypothesis
  on `PopBudget`;
* `DamageBoundedAlways`: `TMFSpec => []DamageBounded`, an error costs one address or one strike too
  many at the most.

`RedisPoolProofs`, for any number of faults (`RPSpec`: the init key does not expire):

* `OneHolderThroughRestarts`: `RPSpec => []OneHolder`;
* `RedisTyping`: `RPSpec => []RPTypeOK`;
* `LostOnlyWithHolderAlways`: `RPSpec => LostOnlyWithHolder`, an address leaves the rotation only with
  the instance or the sweep that had it in hand;
* `RedisImplementsLossyRotation`: `RPSpec => ImplementsLossyRotation`.

`ProxyServerProofs`:

* `ServerOneHolder`: `PSSpec => []OneHolder`, over both routes into the pool;
* `OnlyLeakIsConfirmAlways`: `PSSpec => []OnlyLeakIsConfirm`;
* `TunnelWaitBoundedAlways`: `PSSpec => []TunnelWaitBounded`.

`RunLoopProofs`, for any inputs, targets and connections:

* `RunTyping`: `RunSpec => []RunTypeOK`;
* `CleanExitAlways`: `RunSpec => CleanExit`, no task is left running, the backend is closed after its
  users, and it is left open only by `BuildFails` or an interrupt inside the `finally` block;
* `StopsAfterItsClientsAlways`: `RunSpec => []StopsAfterItsClients`;
* `ServesWhenReadyAlways`: `RunSpec => ServesWhenReady`;
* `SettingsPriorityAlways`: `RunSpec => SettingsPriority`, for any layers and any settings but those in
  `EnvvarOptions`, of which it is false (`settings_priority`).

`FrontEndProofs`, for any clients, texts, targets and `MaxBody`:

* `FrontEndTyping`: `FESpec => []FETypeOK`;
* `RefusedOrWholeAlways`: `FESpec => []RefusedOrWhole`, what is read token by token is the request
  the text declares as a whole, or the client gets the refusal that is due;
* `PoolsKeptAlways`: `FESpec => []PoolsKept`, the pool of a target whose name is its own gains and loses
  no entry.

The assumptions are `IpListAssumption` (the list is not empty, has no address twice and is the
set `Address`; `None` is neither an address nor a caller), `HomeAssumption` and
`PolicyAssumption` (settings are naturals, the threshold is positive), for the manager
`RequestAssumption`, for tunnels `TunnelAssumption` (a caller is a request or a tunnel, not both),
for Redis `FaultAssumption` and for the failing calls `ErrorAssumption` (the bound on them is a
natural), for a run `InputsAssumption` (the targets of a file are a list), and for the front end
`FrontEndAssumption` (finitely many clients; what they send and the targets and their addresses are
lists; a content length is a natural, or is absent, negative or no number). Lists may be empty there
and may have an entry more than once. `TargetConfig` enforces a
non-empty list and a positive threshold. It does not refuse an address listed twice, which is a
hazard of its own, nor a negative duration, which `asyncio.sleep` and the release times treat as 0.
A duration is a number of ticks here, of whatever length.

The argument. `OneHolder` and `NoneLost` say that every address is in exactly one *place* —
`Unseeded`, `InPool`, `Leased`, `Resting`, `Listed`, `Claimed`. They are not inductive alone: a
second instance might still be about to seed, and `SweepPush` might push something it has not
claimed. The inductive invariant adds `SeededOnce` (one instance seeds at a time, and
an instance seeds only while the init mark is set) and `ReleasesClaimed` (what a sweep has just
reset is among what it claimed). It comes in two parts. `HolderInv` has everything but `NoneLost`,
and each action is shown to preserve it and to lose nothing and bring nothing back (`NothingLost`);
`PlaceInv` is `HolderInv` and `NoneLost`. The first part still holds when addresses have been lost,
so what is shown of an action there serves Redis with its faults and the server with its leak as
well. Each action takes one address from one place to another and
leaves the others alone; the proof has one lemma per action, which states for each place whether
it changed, frame lemmas for the places whose variables an action leaves unchanged, and
`PushPlaces` and `PopPlaces` for the queue.

`StrikesAgree` needs `StrikesInv`, which says in each place what the counter can be: between the
increment and the decision, the value the caller keeps in `count` is the counter's; below the
threshold in queue, lease and cooldown; at least the threshold in quarantine and until the sweep
has reset it. `RateLimited` needs `HeldOff`: the time since the last use plus what is left of the
cooldown (or of the quarantine) is at least the interval, so that when the timer is 0 the time
since is enough; this is where the hypothesis comes in. For the refinement, `RotInv` relates the
abstract status and strikes to the place of each address; `View` gives their values by place, so
an action that moves one address (`OneMoves`) changes the abstract state at that address only,
and the step of `Rotation` is named per action. A step of the manager is a step of the pool,
or, when the pool has no timer left to count down, a stutter.

For the requests the invariant is `RInv`: `Placed` says that a pending request is in the queue, with
the dispatcher or executing, in one of them and once; `Answered` that whatever is still queued for
an answered one will be dropped; `Counted` that the attempts used and the retries left add up, so
that a clone cannot gain any. `OneIncarnation` and `AttemptsBounded` are parts of it. The waits need
two more invariants. `Headroom(k)` says that a pop ends at least `k` ticks before its request's
handler gives up. It holds where `PopsWithin(k)` does, `PopBudget[t] + k <= t + Grace`: with `k` = 1,
the first hypothesis, it gives `NoWorkForTheAnswered`, and with `k` = `Grace`, the second,
`DispatchedInTime`. `InOrder` is why one dispatcher that
serves one request at a time is enough for first attempts: nobody ahead of a fresh request has more
time left than it, whether they are fresh themselves or retries, so that the pop in progress ends
before its deadline and everybody ahead has then expired or been dispatched. It also shows what the
bound rests on: with a `PopBudget` that overruns, or a wait per request, the order fails.

For Redis the invariant is `PoolInv`, `HolderInv` with `StrikesInv`. `StepKinds` sorts the steps:
SETNX, the pushes of a seeding, and the reset and push of a sweep are steps of the pool, for which
there is nothing left to show; EXPIRE and ZRANGEBYSCORE change nothing the pool has. Two kinds
remain. A ZREM (`SweepRemove`) moves one address, if it is still listed, to the one instance that
was answered 1, however many have read it. A stop or an error in a sweep (`LetsGo`) lets no address
into any place (`LetsGoShrinks`), so nothing can be doubled by it; what leaves was in that instance's
hands (`LetsGoLoses`), which is `LostOnlyWithHolder` and the step `Lose` of `LossyRotation`. For the
addresses that are not lost the view of `IPPoolRotationProofs` is unchanged. The proof also shows
where the init key matters: it is in `Unseeded`, and a key that expires brings every address back
into that place, which is the finding of `redis_reseed`.

A step of the server is a step of the pool or a `ConfirmFails`, which takes one address out of the
hands of its tunnel and puts it down in `leaked`. A tunnel's wait is bounded because the time its
client has waited and the time its pop has left make up at most `Allowance(attempt + 1)`.

In a run of the program, where the main task is tells how far every part has come (`PhaseInv`,
`ManagerInv`, `ProberInv`): which managers are on, that the backend is, whether the prober may be.
`ClientInv` adds that with `wait_closed()` waiting, and no second interrupt, a handler that is inside
keeps the main task from leaving `closing`, so that no manager has been stopped.

The settings of a run need no invariant: `SettingsByLayer` unfolds what `Load` computes, and
`FirstOfFour` what the reference says of four layers, the last of which gives everything.

A step with calls that fail (`FaultStepKinds`) is a step of the manager, of which everything has been
shown, a tick, or an `Error`. No step of the manager makes a request `Forgotten`, waited for by its
client and nowhere (`NoneForgotten`), and this is the one thing an error can do to the
requests: `FaultInv` has all of `RInv`, and that nothing is forgotten without an error. What keeps a
request from having two incarnations is that an execution which the except branch has taken over has
not put its retry in the queue yet, and that one which is abandoned never will. For
the addresses `OneHolder` is of no use after an error, since a command that was done and then raised
leaves an address in two places. What takes its place is a count, for each address (`Bounded`): its
`Copies` over all places are 1 more than the errors at the most, because a step puts down as many
as it takes up and an error adds one; and once the counter is at the threshold, the failures and the
copies that may still be struck before a sweep resets it (`Strikable`) are no more together than the
threshold and the errors. The second part is what makes the bound on the counter inductive: a
strike turns a strikable copy into a failure. `LostOnes`, the addresses without a copy, are counted
by the errors as well, which needs that an error touches one address (`Damages`).

For the front end `FETypes` has what a handler's stage says of its connection and its use of an
address (`Served`). `ReadInv` has per stage how what has been read compares with the text as a
whole: `Rest` says that what is unread is a suffix of it; `HeadRead(s, k, r)` that the fields of the
request are what the first `k` tokens declare, the last length among them counting; `BodyNext` that the
head is all read and fits the limit; `AllRead` that the request is `Readable` and `Whole` in the
sense of the reference. `Due` speaks of the first token that ends a head and of the last length
before it, so that the proofs use minima and maxima of sets of positions (`MinIn`: a set of naturals
that is not empty has a least member, from the finiteness of intervals) rather than an induction over
the text. `PoolsInv` names for every queue the target that seeded it, the first of its name
(which is the target itself where its name is its own), and counts: an address is as often in the queue and in use together as that target lists it. The
lemmas on `Times` say what an append, a `Tail` and a list put in at once add to the count.

What stays with TLC, and why:

* liveness and everything under fairness (`ComesBack`, `RequestsEnd`, `RequestsAnswered`,
  `ComesBackOrLost`, `ShutdownEnds`, `ProbesGoOn`, `HandlersEnd`, `AddressesComeBack`): out of the
  prover's reach;
* `LoadsWhatIsWellFormed`: the loader folds over a file, and what a fold computes for every list is
  an induction over data.

Every other property that a passing run checks is a theorem.

## What is not modelled

* metrics and logging: written by every component and read by none, so that no state depends on
  them; the package's `__init__` files and build settings, which compute nothing;
* the bytes of requests, responses and tunnels: relayed, never read back. This includes the
  decompression of a response's body under the headers it came with, and hop-by-hop headers;
* YAML nulls, type coercion and comma-separated lists of the configuration;
* SIGTERM, which the program does not handle: the end of a process is `Stop` in `RedisPool`;
* clock skew between instances: there is one clock. Skew would move release times, not who
  releases;
* which address a retry uses: nothing in the code keeps track of the one that failed;
* the event loop itself: steps between two suspensions are atomic.

## Plan

Done: the components above, with the faults of the backend (`TargetManagerFaults`, `RedisPool`),
several targets (`TargetPools`), the reading of requests and the relay (`FrontEnd`, `Relay`), the
prober's rounds, and the modules of proofs. The runs ask one question each and are kept few: a new
component joins a run of the module it extends, or takes the place of a run whose question it
subsumes. What is left to prove:

1. from `PoolsKept`, that an address which a target with a name of its own lists once has one user
   at a time among its requests, whatever other targets list: what `OneHolder` says, for several targets on one storage;
2. from `NeverDoubled` and `DamageBounded`, that a run of `TargetManagerFaults` without errors has
   `OneHolder` and `OneIncarnation`, and is a run of `TargetManager` in all but `Forget`;
3. `IPPoolBackend`: that the primitives on the list of a target keep the order in which addresses
   became ready (`pop_ip` gives the one that has waited longest).
