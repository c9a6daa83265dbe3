-------------------------------- MODULE Relay --------------------------------
(***************************************************************************)
(* The relay of a CONNECT tunnel (_relay): two pipes, one from each peer   *)
(* to the other, neither with a timeout.  A pipe reads, writes, and waits  *)
(* in drain() while its receiver does not take enough; when it ends, it    *)
(* closes the connection of its receiver, which is lost, and seen as an    *)
(* end of input by the other pipe, only when everything written to it has  *)
(* been taken.  Which bytes they are is left out.                          *)
(***************************************************************************)
CONSTANT Client

Peer == {"client", "proxy"}
Other(p) == CHOOSE q \in Peer : q # p

VARIABLES
    pipe,           \* pipe[c][p], from p: "off", "reading", "draining" or "done"
    peer,           \* each peer: "open", "eof" when it sends no more, or "gone"
    pending         \* the peers that have not taken all that was written to them

relayVars == <<pipe, peer, pending>>

RelayInit ==
    /\ pipe = [c \in Client |-> [p \in Peer |-> "off"]]
    /\ peer = [c \in Client |-> [p \in Peer |-> "open"]]
    /\ pending = [c \in Client |-> {}]

\* "open_connection" has made the proxy's end; the client's may have ended
RelayStarts(c, clientEnd) ==
    /\ pipe' = [pipe EXCEPT ![c] = [p \in Peer |-> "reading"]]
    /\ peer' = [peer EXCEPT ![c].client = clientEnd]
    /\ UNCHANGED pending

Relays(c) == \E p \in Peer : pipe[c][p] \in {"reading", "draining"}
ClosedByUs(c, q) == pipe[c][Other(q)] = "done"

\* the connection to q is over, and our reader of it at its end
Lost(c, q) == peer[c][q] = "gone" \/ (ClosedByUs(c, q) /\ q \notin pending[c])

----------------------------------------------------------------------------
\* p has sent something, and it is written; drain() waits if too much is pending
Forward(c, p) ==
    /\ pipe[c][p] = "reading"
    /\ peer[c][p] = "open" /\ ~ClosedByUs(c, p)
    /\ pending' = [pending EXCEPT ![c] = @ \cup ({Other(p)} \ {q \in Peer : peer[c][q] = "gone"})]
    /\ \E s \in {"reading", "draining"} : pipe' = [pipe EXCEPT ![c][p] = s]
    /\ UNCHANGED peer

Drained(c, p) ==
    /\ pipe[c][p] = "draining"
    /\ Other(p) \notin pending[c]
    /\ peer[c][Other(p)] # "gone"
    /\ pipe' = [pipe EXCEPT ![c][p] = "reading"]
    /\ UNCHANGED <<peer, pending>>

\* variant: a pipe that ends leaves the connection of its receiver open
PipeEndsOpen(c, p) ==
    /\ \/ pipe[c][p] = "reading" /\ (peer[c][p] # "open" \/ Lost(c, p))
       \/ pipe[c][p] = "draining" /\ peer[c][Other(p)] = "gone"
    /\ pipe' = [pipe EXCEPT ![c][p] = "off"]
    /\ UNCHANGED <<peer, pending>>

\* the end of input, or a drain() on a lost connection: close the receiver
PipeEnds(c, p) ==
    /\ \/ pipe[c][p] = "reading" /\ (peer[c][p] # "open" \/ Lost(c, p))
       \/ pipe[c][p] = "draining" /\ peer[c][Other(p)] = "gone"
    /\ pipe' = [pipe EXCEPT ![c][p] = "done"]
    /\ UNCHANGED <<peer, pending>>

PipeStep(c, p) == Drained(c, p) \/ PipeEnds(c, p)

----------------------------------------------------------------------------
(* The peers: external. *)

Takes(c, q) ==
    /\ q \in pending[c]
    /\ pending' = [pending EXCEPT ![c] = @ \ {q}]
    /\ UNCHANGED <<pipe, peer>>

\* it ends its side, or all of the connection
Ends(c, p) ==
    /\ pipe[c][p] # "off"
    /\ \E s \in {"eof", "gone"} :
          /\ peer[c][p] # "gone" /\ peer[c][p] # s
          /\ peer' = [peer EXCEPT ![c][p] = s]
          /\ pending' = IF s = "gone" THEN [pending EXCEPT ![c] = @ \ {p}] ELSE pending
    /\ UNCHANGED pipe

PeerStep(c, p) == Forward(c, p) \/ Takes(c, p) \/ Ends(c, p)

\* q takes nothing of what is written to it, and does not go away
Stalls(c, q) == q \in pending[c] /\ peer[c][q] # "gone"
=============================================================================
