--------------------------- MODULE Configuration ---------------------------
(***************************************************************************)
(* Loading of the configuration (config.py, and the overrides of           *)
(* cli.run): operators from what an operator of the program writes down to *)
(* the targets and settings the program runs with.                         *)
(*                                                                         *)
(* What is given is a record of                                            *)
(*   file  the YAML document: its ipPools, its targets and its server      *)
(*         block.  A target is the sequence of its <<key, value>> pairs,   *)
(*         because YAML keeps their order and a later spelling of a key    *)
(*         replaces an earlier one;                                        *)
(*   env   the PROXY_HOPPER_* variables that are set and not empty;        *)
(*   cli   the command line options that are present.                      *)
(* A duration is a number and a unit ("" for none).  An address of a list  *)
(* is a host and a port, which is 0 when there is none and BadPort when    *)
(* what stands there is no number.                                         *)
(***************************************************************************)
EXTENDS Integers, SequencesExt

CONSTANTS
  Default         \* the built-in value of every server setting

Setting == DOMAIN Default
BadPort == -1
BadRegex == "("

(* _parse_duration; "500ms" ends in "s" and is not a number before it. *)
Seconds == [u \in {"", "s", "m", "h"} |->
              CASE u = "h" -> 3600 [] u = "m" -> 60 [] OTHER -> 1]
Parses(d) == d.unit \in DOMAIN Seconds
ParseDuration(d) == d.n * Seconds[d.unit]

DurationFields == {"min_request_interval", "max_queue_wait", "quarantine_time"}

SnakeCase ==
  "ipList" :> "ip_list" @@ "ipPool" :> "ip_pool"
  @@ "minRequestInterval" :> "min_request_interval"
  @@ "maxRequestTimeInQueue" :> "max_queue_wait"
  @@ "maxQueueWait" :> "max_queue_wait"
  @@ "numRetries" :> "num_retries"
  @@ "ipFailuresUntilQuarantine" :> "ip_failures_until_quarantine"
  @@ "quarantineTime" :> "quarantine_time"
  @@ "defaultProxyPort" :> "default_proxy_port"

FieldOf(key) == IF key \in DOMAIN SnakeCase THEN SnakeCase[key] ELSE key

NormaliseTarget(raw) ==
  FoldLeft(LAMBDA out, pair : (FieldOf(pair[1]) :> pair[2]) @@ out, <<>>, raw)

(* The defaults of TargetConfig; a target without a list has none. *)
TargetDefaults ==
  [min_request_interval |-> [n |-> 1, unit |-> "s"],
   max_queue_wait |-> [n |-> 30, unit |-> "s"],
   quarantine_time |-> [n |-> 120, unit |-> "s"],
   num_retries |-> 3, ip_failures_until_quarantine |-> 5,
   default_proxy_port |-> 8080]

(* The constraints pydantic enforces, and what the loader raises itself. *)
Pools(file) ==
  FoldLeft(LAMBDA out, pool : (pool.name :> pool.ips) @@ out, <<>>, file.pools)

PoolsAccepted(file) == \A i \in DOMAIN file.pools : file.pools[i].ips # <<>>

Resolve(t, pools) ==
  IF "ip_pool" \in DOMAIN t THEN ("ip_list" :> pools[t.ip_pool]) @@ t ELSE t

(* variant: an ipList next to an ipPool is overridden instead of refused. *)
ResolvesLeniently(t, pools) ==
  "ip_pool" \in DOMAIN t => t.ip_pool \in DOMAIN pools

Resolves(t, pools) ==
  "ip_pool" \in DOMAIN t => "ip_list" \notin DOMAIN t /\ t.ip_pool \in DOMAIN pools

TargetAccepted(t) ==
  /\ {"name", "regex", "ip_list"} \subseteq DOMAIN t
  /\ t.regex # BadRegex
  /\ t.ip_list # <<>>
  /\ \A f \in DurationFields \cap DOMAIN t : Parses(t[f])
  /\ "num_retries" \in DOMAIN t => t.num_retries >= 0
  /\ "ip_failures_until_quarantine" \in DOMAIN t => t.ip_failures_until_quarantine >= 1

TargetConfig(t) ==
  LET full == t @@ TargetDefaults
  IN  [f \in DOMAIN full \ {"ip_pool"} |->
         IF f \in DurationFields THEN ParseDuration(full[f]) ELSE full[f]]

Loads(file) ==
  /\ PoolsAccepted(file)
  /\ \A i \in DOMAIN file.targets :
       LET t == NormaliseTarget(file.targets[i])
       IN  Resolves(t, Pools(file)) /\ TargetAccepted(Resolve(t, Pools(file)))

LoadTargets(file) ==
  [i \in DOMAIN file.targets |->
     TargetConfig(Resolve(NormaliseTarget(file.targets[i]), Pools(file)))]

(* Raises when a port is no number, which loading does not look at. *)
Resolvable(t) == \A i \in DOMAIN t.ip_list : t.ip_list[i].port # BadPort

ResolvedIpList(t) ==
  [i \in DOMAIN t.ip_list |->
     IF t.ip_list[i].port = 0 THEN [t.ip_list[i] EXCEPT !.port = t.default_proxy_port]
     ELSE t.ip_list[i]]

(* One layer of settings over another: f's value where f has one, else g's. *)
Over(f, g) ==
  [s \in DOMAIN f \cup DOMAIN g |-> IF s \in DOMAIN f THEN f[s] ELSE g[s]]

(* ServerConfig: explicit keyword arguments, the environment, the defaults. *)
ServerConfig(given) == Over(given.file.server, Over(given.env, Default))

(* click reads PROXY_HOPPER_REDIS_URL itself when --redis-url is absent. *)
EnvvarOptions == {"redis_url"}

(* variant: if probe, instead of if probe is not None. *)
OptionsThatAreTrue(given) ==
  Over([s \in {o \in DOMAIN given.cli : o = "probe" => given.cli[o]} |-> given.cli[s]],
       Restrict(given.env, EnvvarOptions \cap DOMAIN given.env))

Options(given) ==
  Over(given.cli, Restrict(given.env, EnvvarOptions \cap DOMAIN given.env))

Settings(given) == Over(Options(given), ServerConfig(given))

----------------------------------------------------------------------------
(* Reference definitions, on what is written in the file and not on what   *)
(* the loader makes of it.                                                 *)

Places(raw, field) == {i \in DOMAIN raw : FieldOf(raw[i][1]) = field}
Writes(raw, field) == Places(raw, field) # {}
Written(raw, field) == raw[CHOOSE i \in Places(raw, field) :
                             \A j \in Places(raw, field) : j <= i][2]
Names(file) == {file.pools[i].name : i \in DOMAIN file.pools}

(* A target of the file as the field reference of config.py:44-68 wants it. *)
WellFormed(raw, file) ==
  /\ Writes(raw, "name")
  /\ Writes(raw, "regex") /\ Written(raw, "regex") # BadRegex
  /\ Writes(raw, "ip_list") # Writes(raw, "ip_pool")
  /\ Writes(raw, "ip_list") => Written(raw, "ip_list") # <<>>
  /\ Writes(raw, "ip_pool") => Written(raw, "ip_pool") \in Names(file)
  /\ \A f \in DurationFields : Writes(raw, f) => Written(raw, f).unit \in {"", "s", "m", "h"}
  /\ Writes(raw, "num_retries") => Written(raw, "num_retries") \in Nat
  /\ Writes(raw, "ip_failures_until_quarantine") =>
       Written(raw, "ip_failures_until_quarantine") \in Nat \ {0}

(* The value of the first of the layers that gives the setting. *)
FirstOf(layers, s) ==
  LET giving == {i \in DOMAIN layers : s \in DOMAIN layers[i]}
  IN  layers[CHOOSE i \in giving : \A j \in giving : i <= j][s]

=============================================================================
