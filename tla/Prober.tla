------------------------------- MODULE Prober -------------------------------
(***************************************************************************)
(* The background prober (class IPProber): one task that probes all        *)
(* addresses at once, waits for all of these probes, sleeps, and begins    *)
(* again.  What a probe writes to the metrics is read by nothing here and  *)
(* is left out, and so is the choice of the URL.                           *)
(***************************************************************************)

VARIABLES
  prober,         \* its task: "off", "on" or "stopped"
  probing         \* the addresses whose probe of this round has not ended

proberVars == <<prober, probing>>

ProberInit == prober = "off" /\ probing = {}

\* without addresses, or without URLs to probe them with, there is no task
ProberStarts(addresses, urls) ==
  /\ prober' = IF addresses = {} \/ urls = <<>> THEN "off" ELSE "on"
  /\ UNCHANGED probing

RoundStarts(addresses) ==
  /\ prober = "on"
  /\ probing = {}
  /\ probing' = addresses
  /\ UNCHANGED prober

\* an answer, good or bad, no connection, or the probe's total timeout
ProbeEnds(a) ==
  /\ a \in probing
  /\ probing' = probing \ {a}
  /\ UNCHANGED prober

\* variant: gather without return_exceptions hands the exception to the task
ProbeRaisesThrough(a) ==
  /\ a \in probing
  /\ probing' = {}
  /\ prober' = "stopped"

\* an exception _probe_address does not know: nothing is recorded, and
\* gather(return_exceptions=True) keeps it to itself
ProbeRaises(a) ==
  /\ a \in probing
  /\ probing' = probing \ {a}
  /\ UNCHANGED prober

\* stop(), or the end of the event loop: the task is cancelled, and its
\* gather cancels the probes
ProberStops ==
  /\ prober' = IF prober = "on" THEN "stopped" ELSE prober
  /\ probing' = {}
=============================================================================
