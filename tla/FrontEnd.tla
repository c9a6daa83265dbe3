------------------------------ MODULE FrontEnd ------------------------------
(***************************************************************************)
(* A connection from its first line to its answer: ProxyServer's           *)
(* _handle_client, _dispatch, _read_request_head, _handle_http and         *)
(* _find_manager, above several targets.  What happens to a request inside *)
(* its target is TargetManager.tla, and the retries of a CONNECT are in    *)
(* ProxyServer.tla; here a matched request gets an address, and an answer, *)
(* an error, nothing, or the tunnel of Relay.tla comes of it.              *)
(*                                                                         *)
(* A client's input is what it sends, line by line and then byte by byte,  *)
(* and how it ends: it waits ("open"), or sends no more ("eof"), or resets *)
(* the connection.  Reading it is deterministic, so that it is all there   *)
(* from the beginning.                                                     *)
(***************************************************************************)
EXTENDS TargetPools, Relay

CONSTANTS
    Scenarios,      \* the targets, and each client's input
    MaxBody         \* _MAX_BODY_SIZE

\* content-length: not given or empty, and given as something else
Absent == -1
NotANumber == -2
Negative == -3

\* lists are sequences, "none" is no address, and a length is read by int()
ASSUME FrontEndAssumption ==
    /\ IsFiniteSet(Client)
    /\ MaxBody \in Nat
    /\ \A s \in Scenarios :
          /\ s.targets \in Seq(ToSet(s.targets))
          /\ \A t \in ToSet(s.targets) : t.addresses \in Seq(ToSet(t.addresses) \ {"none"})
          /\ s.input = [c \in Client |-> [tokens |-> s.input[c].tokens, end |-> s.input[c].end]]
          /\ \A c \in Client :
                /\ s.input[c].tokens \in Seq(ToSet(s.input[c].tokens))
                /\ \A token \in ToSet(s.input[c].tokens) :
                      token.kind = "length" =>
                         token.value \in Nat \cup {Absent, NotANumber, Negative}

NoRequest == [method |-> "none", url |-> "none", length |-> Absent, body |-> 0]

VARIABLES
    input,          \* of each client: the tokens not yet read, and its end
    sent,           \* history: its tokens at first
    stage,          \* where its handler is
    request,        \* what the handler has read
    target,         \* the target it was matched to, 0 before
    work,           \* where the request is in that target's manager
    address,        \* the address it was given
    answer          \* what the client has got

clientVars == <<input, sent, stage, request, target, work, address, answer>>
feVars == <<poolVars, clientVars, relayVars>>

FEInit ==
    /\ \E s \in Scenarios :
          /\ targets = s.targets
          /\ input = s.input
          /\ sent = s.input
    /\ TargetPoolsInit
    /\ RelayInit
    /\ stage = [c \in Client |-> "line"]
    /\ request = [c \in Client |-> NoRequest]
    /\ target = [c \in Client |-> 0]
    /\ work = [c \in Client |-> "none"]
    /\ address = [c \in Client |-> "none"]
    /\ answer = [c \in Client |-> "none"]

Serving == started = Len(targets)
Unread(c) == input[c].tokens
AtEnd(c, how) == Unread(c) = <<>> /\ input[c].end = how

Goto(c, s) == stage' = [stage EXCEPT ![c] = s] /\ UNCHANGED <<answer, relayVars>>

\* an answer is pending until the client, or the buffers on the way to it,
\* have taken all of it, unless the connection is lost
Answers(c, reply, s) ==
    /\ stage' = [stage EXCEPT ![c] = s]
    /\ answer' = [answer EXCEPT ![c] = reply]
    /\ pending' = IF reply = "none" \/ input[c].end = "reset" THEN pending
                  ELSE [pending EXCEPT ![c] = @ \cup {"client"}]
    /\ UNCHANGED <<pipe, peer>>

\* _dispatch is left, after an answer or without one: writer.close()
Close(c, reply) == Answers(c, reply, "closing")

Skip(c, n) == input' = [input EXCEPT ![c].tokens = SubSeq(@, n + 1, Len(@))]

IsConnect(c) == request[c].method = "CONNECT"

\* variant: the body is read before the method is looked at
HasBodyAnyway(c) == request[c].length # Absent

\* a CONNECT goes to a handler that does not look at the headers
HasBody(c) == ~IsConnect(c) /\ request[c].length # Absent

----------------------------------------------------------------------------
(* _read_request_head *)

ReadLine(c) ==
    /\ stage[c] = "line"
    /\ Unread(c) # <<>>
    /\ LET token == Head(Unread(c)) IN
          IF token.kind = "line"
          THEN /\ request' = [request EXCEPT ![c].method = token.method, ![c].url = token.url]
               /\ Goto(c, "headers")
          ELSE Close(c, "none") /\ UNCHANGED request
    /\ Skip(c, 1)
    /\ UNCHANGED <<poolVars, sent, target, work, address>>

\* the last content-length counts; a line without a colon, and any other
\* header, the transfer-encoding among them, makes no difference
ReadHeader(c) ==
    /\ stage[c] = "headers"
    /\ Unread(c) # <<>>
    /\ LET token == Head(Unread(c)) IN
          /\ request' = IF token.kind = "length"
                        THEN [request EXCEPT ![c].length = token.value] ELSE request
          /\ CASE token.kind = "blank" -> Goto(c, "body")
               [] token.kind = "long"  -> Close(c, "none")
               [] OTHER                -> Goto(c, "headers")
    /\ Skip(c, 1)
    /\ UNCHANGED <<poolVars, sent, target, work, address>>

\* an end of input is an empty line to the loop over the headers
HeadersEnd(c) ==
    /\ stage[c] = "headers"
    /\ AtEnd(c, "eof")
    /\ Goto(c, "body")
    /\ UNCHANGED <<poolVars, input, sent, request, target, work, address>>

\* nothing came; or the connection is reset, which is seen before what is
\* still in the buffer: _handle_client closes
Broken(c) ==
    /\ \/ stage[c] = "line" /\ AtEnd(c, "eof")
       \/ /\ input[c].end = "reset"
          /\ \/ stage[c] \in {"line", "headers"}
             \/ stage[c] = "body" /\ HasBody(c) /\ request[c].length \in 0 .. MaxBody
    /\ Close(c, "none")
    /\ UNCHANGED <<poolVars, input, sent, request, target, work, address>>

----------------------------------------------------------------------------
(* _handle_http up to submit; _handle_connect up to its loop *)

Refused(c) ==
    /\ stage[c] = "body"
    /\ HasBody(c)
    /\ \/ request[c].length > MaxBody /\ Close(c, "413")
       \/ /\ \/ request[c].length \in {NotANumber, Negative}
             \/ input[c].end = "eof" /\ request[c].length \in Len(Unread(c)) + 1 .. MaxBody
          /\ Close(c, "400")
    /\ UNCHANGED <<poolVars, input, sent, request, target, work, address>>

\* variant: what has come of the body is taken for all of it
ReadBodyShort(c) ==
    /\ stage[c] = "body"
    /\ HasBody(c) => request[c].length \in 0 .. MaxBody
    /\ request' = [request EXCEPT ![c].body = Len(Unread(c))]
    /\ Skip(c, Len(Unread(c)))
    /\ Goto(c, "routing")
    /\ UNCHANGED <<poolVars, sent, target, work, address>>

ReadBody(c) ==
    /\ stage[c] = "body"
    /\ LET length == IF HasBody(c) THEN request[c].length ELSE 0 IN
          /\ length \in 0 .. Min({MaxBody, Len(Unread(c))})
          /\ request' = [request EXCEPT ![c].body = length]
          /\ Skip(c, length)
    /\ Goto(c, "routing")
    /\ UNCHANGED <<poolVars, sent, target, work, address>>

\* _find_manager: the first target whose regex matches
Matches(i, c) == request[c].url \in targets[i].matches

Unmatched(c) ==
    /\ stage[c] = "routing"
    /\ \A i \in DOMAIN targets : ~Matches(i, c)
    /\ Close(c, "502")
    /\ UNCHANGED <<poolVars, input, sent, request, target, work, address>>

Submit(c) ==
    /\ stage[c] = "routing"
    /\ \E i \in DOMAIN targets :
          /\ Matches(i, c)
          /\ \A j \in 1 .. i - 1 : ~Matches(j, c)
          /\ target' = [target EXCEPT ![c] = i]
    /\ work' = [work EXCEPT ![c] = "queued"]
    /\ Goto(c, IF IsConnect(c) THEN "connecting" ELSE "waiting")
    /\ UNCHANGED <<poolVars, input, sent, request, address>>

----------------------------------------------------------------------------
(* The manager, and the handler that waits for it *)

Reply(c, reply) ==
    IF stage[c] \in {"waiting", "connecting"} THEN Close(c, reply)
    ELSE UNCHANGED <<stage, answer, relayVars>>

GetsAddress(c) ==
    /\ work[c] = "queued"
    /\ \E a \in ToSet(queues[Key(target[c])]) :
          /\ Take(target[c], a)
          /\ address' = [address EXCEPT ![c] = a]
    /\ work' = [work EXCEPT ![c] = "using"]
    /\ UNCHANGED <<input, sent, stage, request, target, answer, relayVars>>

\* its deadline has passed in the queue, or no address came
Expires(c) ==
    /\ work[c] = "queued"
    /\ work' = [work EXCEPT ![c] = "none"]
    /\ Reply(c, "504")
    /\ UNCHANGED <<poolVars, input, sent, request, target, address>>

\* a response, whose drain() waits if too much is pending; one whose head is
\* no latin-1, so that it cannot be written and the handler ends by an
\* exception; an error; or a retry
UseEnds(c) ==
    /\ work[c] = "using"
    /\ ~IsConnect(c)
    /\ work' = [work EXCEPT ![c] = "resting"]
    /\ \/ stage[c] = "waiting" /\ \E s \in {"draining", "closing"} : Answers(c, "response", s)
       \/ Reply(c, "none")
       \/ Reply(c, "502")
       \/ UNCHANGED <<stage, answer, relayVars>>
    /\ UNCHANGED <<poolVars, input, sent, request, target, address>>

\* the proxy refuses the CONNECT; bound: no second attempt
DialFails(c) ==
    /\ work[c] = "using"
    /\ stage[c] = "connecting"
    /\ work' = [work EXCEPT ![c] = "resting"]
    /\ Close(c, "502")
    /\ UNCHANGED <<poolVars, input, sent, request, target, address>>

\* the client has gone when the 200 is written: drain() raises outside every
\* try, and nobody reports the address
ConfirmFails(c) ==
    /\ work[c] = "using"
    /\ stage[c] = "connecting"
    /\ input[c].end = "reset"
    /\ work' = [work EXCEPT ![c] = "lost"]
    /\ Close(c, "200")
    /\ UNCHANGED <<poolVars, input, sent, request, target, address>>

DialSucceeds(c) ==
    /\ work[c] = "using"
    /\ stage[c] = "connecting"
    /\ stage' = [stage EXCEPT ![c] = "relaying"]
    /\ answer' = [answer EXCEPT ![c] = "200"]
    /\ RelayStarts(c, IF input[c].end = "reset" THEN "gone" ELSE input[c].end)
    /\ UNCHANGED <<poolVars, input, sent, request, target, work, address>>

\* both pipes have ended; wait_closed() comes before the report
TunnelCloses(c) ==
    /\ stage[c] = "relaying"
    /\ ~Relays(c)
    /\ Lost(c, "proxy")
    /\ work' = [work EXCEPT ![c] = "resting"]
    /\ Goto(c, "closing")
    /\ UNCHANGED <<poolVars, input, sent, request, target, address>>

\* bound: a client that got no answer from its use is not tried again
Rested(c) ==
    /\ work[c] = "resting"
    /\ Return(target[c], address[c])
    /\ work' = [work EXCEPT ![c] = "none"]
    /\ address' = [address EXCEPT ![c] = "none"]
    /\ UNCHANGED <<input, sent, stage, request, target, answer, relayVars>>

\* variant: the timeout is for requests that are being executed
TimesOutInUse(c) ==
    /\ stage[c] = "waiting"
    /\ work[c] = "using"
    /\ Close(c, "504")
    /\ UNCHANGED <<poolVars, input, sent, request, target, work, address>>

TimesOut(c) ==
    /\ stage[c] = "waiting"
    /\ Close(c, "504")
    /\ UNCHANGED <<poolVars, input, sent, request, target, work, address>>

----------------------------------------------------------------------------
(* The end of the handler.  Neither wait has a timeout. *)

\* drain() returns, or raises as the connection is lost: close() comes next
Flushed(c) ==
    /\ stage[c] = "draining"
    /\ ~Stalls(c, "client")
    /\ Goto(c, "closing")
    /\ UNCHANGED <<poolVars, input, sent, request, target, work, address>>

\* wait_closed(): all has been taken, or the connection is lost
WaitClosed(c) ==
    /\ stage[c] = "closing"
    /\ ~Stalls(c, "client")
    /\ Goto(c, "closed")
    /\ UNCHANGED <<poolVars, input, sent, request, target, work, address>>

\* external: the client takes what is pending, or goes and leaves nothing to send
ClientTakes(c) ==
    /\ stage[c] \in {"draining", "closing"}
    /\ Takes(c, "client")
    /\ UNCHANGED <<poolVars, clientVars>>

----------------------------------------------------------------------------
HandlerStep(c) ==
    /\ Serving
    /\ \/ ReadLine(c) \/ ReadHeader(c) \/ HeadersEnd(c) \/ Broken(c)
       \/ Refused(c) \/ ReadBody(c) \/ Unmatched(c) \/ Submit(c) \/ TimesOut(c)
       \/ Flushed(c) \/ WaitClosed(c)

WorkStep(c) ==
    \/ GetsAddress(c) \/ Expires(c) \/ UseEnds(c) \/ Rested(c)
    \/ DialFails(c) \/ ConfirmFails(c) \/ DialSucceeds(c) \/ TunnelCloses(c)

Pipe(c, p) ==
    /\ stage[c] = "relaying"
    /\ PipeStep(c, p)
    /\ UNCHANGED <<poolVars, clientVars>>

TunnelPeer(c, p) ==
    /\ stage[c] = "relaying"
    /\ PeerStep(c, p)
    /\ UNCHANGED <<poolVars, clientVars>>

FENext ==
    \/ StartManager /\ UNCHANGED <<clientVars, relayVars>>
    \/ \E c \in Client :
          \/ HandlerStep(c)
          \/ WorkStep(c)
          \/ ClientTakes(c)
          \/ \E p \in Peer : Pipe(c, p) \/ TunnelPeer(c, p)

FESpec == FEInit /\ [][FENext]_feVars

\* the managers start; a handler runs when it has something to read or its
\* timer is due; an execution has a total timeout, a dial one for each line,
\* and a cooldown its sleep.  Nothing makes a peer send, take or go
FEFairSpec ==
    /\ FESpec
    /\ WF_feVars(StartManager /\ UNCHANGED <<clientVars, relayVars>>)
    /\ \A c \in Client :
          /\ WF_feVars(HandlerStep(c))
          /\ WF_feVars(WorkStep(c))
          /\ \A p \in Peer : WF_feVars(Pipe(c, p))

----------------------------------------------------------------------------
Reading == {"line", "headers", "body"}
Leaving == {"draining", "closing", "closed"}
Stage == Reading \cup {"routing", "waiting", "connecting", "relaying"} \cup Leaving
Answer == {"none", "response", "200", "400", "413", "502", "504"}

FETypeOK ==
    /\ started \in 0 .. Len(targets)
    /\ stage \in [Client -> Stage]
    /\ answer \in [Client -> Answer]
    /\ work \in [Client -> {"none", "queued", "using", "resting", "lost"}]
    /\ \A c \in Client :
          /\ target[c] \in 0 .. Len(targets)
          /\ request[c].body \in 0 .. MaxBody
          /\ pending[c] \subseteq Peer

(* What a client has sent, taken as a whole. *)
HeadEnd(s) == Min({n \in DOMAIN s : s[n].kind = "blank"} \cup {Len(s) + 1})
BodyOf(s) == SubSeq(s, HeadEnd(s) + 1, Len(s))
LengthOf(s) ==
    LET at == {n \in 1 .. HeadEnd(s) - 1 : s[n].kind = "length"}
    IN  IF at = {} \/ s[1].method = "CONNECT" THEN Absent ELSE s[Max(at)].value

Readable(s) ==
    /\ s # <<>>
    /\ s[1].kind = "line"
    /\ \A n \in 1 .. HeadEnd(s) - 1 : s[n].kind # "long"

Whole(s) == LengthOf(s) <= Min({MaxBody, Len(BodyOf(s))})

\* more has to come: the end of the head, or the rest of a body
Incomplete(s) ==
    /\ s = <<>> \/ Readable(s)
    /\ HeadEnd(s) > Len(s) \/ LengthOf(s) \in Len(BodyOf(s)) + 1 .. MaxBody

\* the answers a client may get for it
Due(c) ==
    LET s == sent[c].tokens
        length == LengthOf(s)
        matching == {i \in DOMAIN targets : s[1].url \in targets[i].matches}
    IN  IF ~Readable(s) THEN {"none"}
        ELSE IF length > MaxBody THEN {"413"}
        ELSE IF ~Whole(s) \/ length \in {NotANumber, Negative} THEN {"400"}
        ELSE IF matching = {} THEN {"502"}
        ELSE {IF s[1].method = "CONNECT" THEN "200" ELSE "response", "none", "502", "504"}

(* Read step by step, a request comes out as it does when its text is taken *)
(* as a whole: it goes to a target only with all of the body its last       *)
(* content-length declares, to the first target that matches; otherwise its *)
(* client gets the refusal that is due, or nothing if it cannot be read or  *)
(* the connection was reset.                                                *)
RefusedOrWhole ==
    \A c \in Client :
       /\ stage[c] \in Leaving =>
             answer[c] \in Due(c) \cup (IF sent[c].end = "reset" THEN {"none"} ELSE {})
       /\ target[c] # 0 =>
             LET s == sent[c].tokens IN
                /\ Readable(s) /\ Whole(s)
                /\ request[c].body = Max({0, LengthOf(s)})
                /\ target[c] = Min({i \in DOMAIN targets : s[1].url \in targets[i].matches})

(* Every handler ends, unless its client keeps the connection open and      *)
(* either has sent a text that is incomplete as a whole, or does not take   *)
(* what was written to it, or its tunnel goes on: there is no timeout on    *)
(* reading a request, on drain() and wait_closed(), nor on a relay.         *)
HandlersEnd ==
    \A c \in Client :
       <>(\/ stage[c] = "closed"
          \/ [](/\ stage[c] \in Reading
                /\ sent[c].end = "open" /\ Incomplete(sent[c].tokens))
          \/ [](stage[c] \in {"draining", "closing"} /\ Stalls(c, "client"))
          \/ [](stage[c] = "relaying"))

(* An address is given back in the end, by a request always, and by a       *)
(* tunnel as soon as one of its peers has ended, unless a peer neither      *)
(* takes what is written to it nor goes away (there is no timeout on        *)
(* drain() and wait_closed(), which come before the report), or the client  *)
(* has reset the connection before the 200 was written.                     *)
AddressesComeBack ==
    \A c \in Client :
       [](address[c] # "none" =>
            <>(\/ address[c] = "none" \/ work[c] = "lost"
               \/ [](stage[c] = "relaying" /\ \A p \in Peer : peer[c][p] = "open")
               \/ \E q \in Peer : [](stage[c] = "relaying" /\ Stalls(c, q))))

\* what is in the queue of target i or in use by its requests is its own
\* list, entry for entry
OwnRotation(i) ==
    \A a \in UNION {ToSet(targets[j].addresses) : j \in DOMAIN targets} :
       Times(a, queues[Key(i)]) + Cardinality({c \in Client : address[c] = a /\ target[c] = i})
       = Times(a, targets[i].addresses)

NameIsUnique(i) == \A j \in DOMAIN targets : Key(j) = Key(i) => j = i

(* A target with a name of its own has a rotation of its own: its pool      *)
(* neither gains nor loses an entry, whichever addresses other targets list *)
(* and their requests give back, and an address its list names twice may be *)
(* in use twice.                                                            *)
PoolsKept ==
    \A i \in DOMAIN targets : i <= started /\ NameIsUnique(i) => OwnRotation(i)

(* "Each target still maintains its own independent rotation state"         *)
(* (proxy-hopper's README, 155; config.py, 32-33), and a name is a "label   *)
(* shown in logs/metrics" (config.py, 47).  But the name is the key of the  *)
(* pool: a second target of that name gets the first one's addresses.       *)
IndependentRotation == \A i \in DOMAIN targets : i <= started => OwnRotation(i)
=============================================================================
