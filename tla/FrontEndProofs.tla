---------------------------- MODULE FrontEndProofs ----------------------------
(***************************************************************************)
(* Theorems of the front end, for any clients and texts, any targets, and  *)
(* any limit of a body: types, that a request read token by token is the   *)
(* request its text declares, and that a target with a name of its own has *)
(* a rotation of its own.                                                  *)
(***************************************************************************)
EXTENDS FrontEnd, SequenceTheorems, FiniteSetTheorems, WellFoundedInduction, TLAPS

(* The smallest and the largest. *)

LEMMA MinIs ==
    ASSUME NEW S \in SUBSET Int, NEW m \in S, \A n \in S : m <= n
    PROVE  Min(S) = m
<1>1. \E x \in S : \A y \in S : x <= y
  OBVIOUS
<1>2. Min(S) \in S /\ \A n \in S : Min(S) <= n
  BY <1>1 DEF Min
<1>3. Min(S) \in Int /\ m \in Int
  BY <1>2
<1> QED
  BY <1>2, <1>3

LEMMA MaxIs ==
    ASSUME NEW S \in SUBSET Int, NEW m \in S, \A n \in S : n <= m
    PROVE  Max(S) = m
<1>1. \E x \in S : \A y \in S : x >= y
  OBVIOUS
<1>2. Max(S) \in S /\ \A n \in S : Max(S) >= n
  BY <1>1 DEF Max
<1>3. Max(S) \in Int /\ m \in Int
  BY <1>2
<1> QED
  BY <1>2, <1>3

\* the intervals below the numbers of S are finite sets: one contains no other
LEMMA MinIn ==
    ASSUME NEW S \in SUBSET Nat, S # {}
    PROVE  Min(S) \in S /\ \A n \in S : Min(S) <= n
<1> DEFINE Below(n) == 1 .. n
           T == {Below(n) : n \in S}
<1>1. T \subseteq FiniteSubsetsOf(Nat) /\ T # {}
  <2>1. \A n \in S : IsFiniteSet(Below(n)) /\ Below(n) \subseteq Nat
    BY FS_Interval
  <2> QED
    BY <2>1 DEF FiniteSubsetsOf
<1>2. \E b \in T : \A d \in T : ~ (<<d, b>> \in StrictSubsetOrdering(Nat))
  <2> HIDE DEF T
  <2> QED
    BY <1>1, WFMin, FS_StrictSubsetOrderingWellFounded
<1>3. PICK m \in S : \A n \in S : ~ (<<Below(n), Below(m)>> \in StrictSubsetOrdering(Nat))
  BY <1>2
<1>4. \A n \in S : Below(n) \subseteq Below(m) => Below(n) = Below(m)
  <2>1. \A n \in S : Below(n) \in SUBSET Nat
    OBVIOUS
  <2> HIDE DEF Below
  <2>2. SUFFICES ASSUME NEW n \in S, Below(n) \subseteq Below(m), Below(n) # Below(m)
                 PROVE  FALSE
    OBVIOUS
  <2>3. <<Below(n), Below(m)>> \in StrictSubsetOrdering(Nat)
    BY <2>1, <2>2 DEF StrictSubsetOrdering
  <2> QED
    BY <1>3, <2>3
<1>5. ASSUME NEW n \in S, n < m PROVE FALSE
  <2>1. Below(n) \subseteq Below(m) /\ m \in Below(m) /\ m \notin Below(n)
    BY <1>5
  <2> QED
    BY <1>4, <2>1
<1>6. \A n \in S : m <= n
  BY <1>5
<1> QED
  BY <1>6 DEF Min

LEMMA MinOfTwo ==
    ASSUME NEW m \in Int, NEW n \in Int
    PROVE  Min({m, n}) = IF m <= n THEN m ELSE n
<1>1. CASE m <= n
  BY <1>1, MinIs
<1>2. CASE n < m
  BY <1>2, MinIs
<1> QED
  BY <1>1, <1>2

LEMMA MaxOfTwo ==
    ASSUME NEW m \in Int, NEW n \in Int
    PROVE  Max({m, n}) = IF m <= n THEN n ELSE m
<1>1. CASE m <= n
  BY <1>1, MaxIs
<1>2. CASE n < m
  BY <1>2, MaxIs
<1> QED
  BY <1>1, <1>2

(* What is left of a text when some tokens of it have been read. *)

Rest(u, s) ==
    /\ Len(u) <= Len(s)
    /\ \A n \in 1 .. Len(u) : u[n] = s[Len(s) - Len(u) + n]

LEMMA Skipped ==
    ASSUME NEW T, NEW u \in Seq(T), NEW n \in 0 .. Len(u)
    PROVE  /\ SubSeq(u, n + 1, Len(u)) \in Seq(T)
           /\ Len(SubSeq(u, n + 1, Len(u))) = Len(u) - n
           /\ \A m \in 1 .. Len(u) - n : SubSeq(u, n + 1, Len(u))[m] = u[n + m]
<1>1. Len(u) \in Nat /\ \A m \in 1 .. Len(u) : u[m] \in T
  BY LenProperties, ElementOfSeq
<1>2. n + 1 \in Int /\ Len(u) \in Int /\ \A m \in n + 1 .. Len(u) : u[m] \in T
  BY <1>1
<1> QED
  BY <1>1, <1>2, SubSeqProperties

LEMMA RestSkipped ==
    ASSUME NEW T, NEW s \in Seq(T), NEW u \in Seq(T), Rest(u, s), NEW n \in 0 .. Len(u)
    PROVE  Rest(SubSeq(u, n + 1, Len(u)), s)
<1> DEFINE v == SubSeq(u, n + 1, Len(u))
<1>1. Len(v) = Len(u) - n /\ \A m \in 1 .. Len(u) - n : v[m] = u[n + m]
  BY Skipped
<1>2. Len(u) \in Nat /\ Len(s) \in Nat
  BY LenProperties
<1> HIDE DEF v
<1>3. Rest(v, s)
  BY <1>1, <1>2 DEF Rest
<1> QED
  BY <1>3 DEF v

----------------------------------------------------------------------------
(* Types.  What a scenario gives stays as it is. *)

Token == UNION {ToSet(sent[c].tokens) : c \in Client}
Method == {"none"} \cup {token.method : token \in Token}
Url == {"none"} \cup {token.url : token \in Token}
Declared == {Absent} \cup {token.value : token \in {t \in Token : t.kind = "length"}}
Request == [method : Method, url : Url, length : Declared, body : 0 .. MaxBody]
Input == [tokens : Seq(Token), end : {sent[c].end : c \in Client}]
Address == UNION {ToSet(targets[i].addresses) : i \in DOMAIN targets}

Given ==
    /\ targets \in Seq(ToSet(targets))
    /\ \A i \in DOMAIN targets :
          targets[i].addresses \in Seq(ToSet(targets[i].addresses) \ {"none"})
    /\ \A c \in Client : sent[c].tokens \in Seq(ToSet(sent[c].tokens))
    /\ \A token \in Token :
          token.kind = "length" => token.value \in Nat \cup {Absent, NotANumber, Negative}

Typed ==
    /\ started \in 0 .. Len(targets)
    /\ queues \in [DOMAIN queues -> Seq(Address)]
    /\ input \in [Client -> Input]
    /\ stage \in [Client -> Stage]
    /\ request \in [Client -> Request]
    /\ target \in [Client -> 0 .. Len(targets)]
    /\ work \in [Client -> {"none", "queued", "using", "resting", "lost"}]
    /\ address \in [Client -> Address \cup {"none"}]
    /\ answer \in [Client -> Answer]

Early == {"line", "headers", "body", "routing"}

\* the pool a request is given an address from is there
Served ==
    /\ DOMAIN queues = {Key(i) : i \in 1 .. started}
    /\ \A c \in Client : /\ target[c] # 0 => Serving
                         /\ work[c] # "none" => target[c] # 0
                         /\ stage[c] \in Early => target[c] = 0
                         /\ stage[c] \in {"connecting", "relaying"} => IsConnect(c)
                         /\ stage[c] = "relaying" => work[c] = "using"
                         /\ work[c] \in {"using", "resting", "lost"} <=> address[c] # "none"

FETypes == Given /\ Typed /\ Served

PendingTyped == pending \in [Client -> SUBSET Peer]

LEMMA TypesOK == FETypes /\ PendingTyped => FETypeOK
BY DEF FETypes, Typed, PendingTyped, FETypeOK, Request

LEMMA BodyLimit == MaxBody \in Nat
BY FrontEndAssumption

LEMMA GivenFacts ==
    ASSUME Given
    PROVE  /\ Len(targets) \in Nat /\ DOMAIN targets = 1 .. Len(targets)
           /\ "none" \notin Address
           /\ \A i \in DOMAIN targets : targets[i].addresses \in Seq(Address)
           /\ \A c \in Client : sent[c].tokens \in Seq(Token)
           /\ Declared \subseteq Int
<1>1. Len(targets) \in Nat /\ DOMAIN targets = 1 .. Len(targets)
  BY LenProperties DEF Given
<1>2. ASSUME NEW i \in DOMAIN targets
      PROVE  "none" \notin ToSet(targets[i].addresses) /\ targets[i].addresses \in Seq(Address)
  <2> DEFINE s == targets[i].addresses
  <2>1. s \in Seq(ToSet(s) \ {"none"})
    BY <1>2 DEF Given
  <2>2. ToSet(s) \subseteq Address
    BY <1>2 DEF Address
  <2>3. "none" \notin ToSet(s)
    <3> HIDE DEF s
    <3>1. \A n \in DOMAIN s : s[n] \in ToSet(s) \ {"none"}
      BY <2>1, ElementOfSeq, LenProperties
    <3> QED
      BY <3>1 DEF ToSet
  <2>4. s \in Seq(Address)
    <3> HIDE DEF s
    <3> QED
      BY <2>1, <2>2
  <2> QED
    BY <2>3, <2>4
<1>3. "none" \notin Address
  BY <1>2 DEF Address
<1>4. ASSUME NEW c \in Client PROVE sent[c].tokens \in Seq(Token)
  <2>1. ToSet(sent[c].tokens) \subseteq Token
    BY DEF Token
  <2> QED
    BY <2>1 DEF Given
<1>5. Declared \subseteq Int
  BY DEF Given, Declared, Absent, NotANumber, Negative
<1> QED
  BY <1>1, <1>2, <1>3, <1>4, <1>5

LEMMA GivenKept ==
    ASSUME UNCHANGED <<targets, sent>>
    PROVE  /\ Given <=> Given'
           /\ Token' = Token /\ Address' = Address
           /\ Request' = Request /\ Input' = Input
<1>1. Token' = Token /\ Address' = Address
  BY DEF Token, Address
<1>2. /\ Request' = Request
      /\ Input' = Input
  BY <1>1 DEF Request, Input, Method, Url, Declared
<1>3. Given <=> Given'
  BY <1>1 DEF Given
<1> QED
  BY <1>1, <1>2, <1>3

LEMMA NextToken ==
    ASSUME Typed, NEW c \in Client, Unread(c) # <<>>
    PROVE  Head(Unread(c)) \in Token /\ Len(Unread(c)) >= 1 /\ Head(Unread(c)) = Unread(c)[1]
<1>1. Unread(c) \in Seq(Token)
  BY DEF Typed, Input, Unread
<1> QED
  BY <1>1, HeadTailProperties, EmptySeq, LenProperties

LEMMA SkipTypes ==
    ASSUME Typed, UNCHANGED sent, NEW c \in Client, NEW n \in 0 .. Len(Unread(c)), Skip(c, n)
    PROVE  /\ input' \in [Client -> Input]
           /\ input'[c] = [input[c] EXCEPT !.tokens = SubSeq(Unread(c), n + 1, Len(Unread(c)))]
           /\ \A d \in Client \ {c} : input'[d] = input[d]
<1>1. input[c] \in Input /\ Unread(c) \in Seq(Token)
  BY DEF Typed, Input, Unread
<1>2. SubSeq(Unread(c), n + 1, Len(Unread(c))) \in Seq(Token)
  BY <1>1, Skipped
<1>3. [input[c] EXCEPT !.tokens = SubSeq(Unread(c), n + 1, Len(Unread(c)))] \in Input
  BY <1>1, <1>2 DEF Input
<1> QED
  BY <1>3 DEF Typed, Skip, Unread

LEMMA LeftTypes ==
    ASSUME Typed, NEW c \in Client, NEW s \in Stage, NEW reply \in Answer,
           Goto(c, s) \/ Answers(c, reply, s) \/ Close(c, reply) \/ Reply(c, reply)
    PROVE  stage' \in [Client -> Stage] /\ answer' \in [Client -> Answer]
BY DEF Typed, Goto, Answers, Close, Reply, Stage, Leaving, Answer

\* what a handler reads before its request is submitted
LEMMA ReadTypes ==
    ASSUME FETypes, NEW c \in Client, ReadLine(c) \/ ReadHeader(c) \/ ReadBody(c)
    PROVE  FETypes'
<1> USE DEF FETypes
<1>1. UNCHANGED <<targets, sent, started, queues, target, work, address>>
  BY DEF ReadLine, ReadHeader, ReadBody, poolVars
<1>2. Given' /\ Served'
  <2>1. /\ stage[c] \in Early /\ stage'[c] \notin {"connecting", "relaying"}
        /\ \A d \in Client \ {c} : stage'[d] = stage[d]
    BY DEF ReadLine, ReadHeader, ReadBody, Early, Goto, Close, Answers, Typed
  <2>2. \A d \in Client \ {c} : request'[d] = request[d]
    BY DEF ReadLine, ReadHeader, ReadBody, Typed
  <2> QED
    BY <2>1, <2>2, <1>1, GivenKept DEF Served, Key, Serving, IsConnect
<1>3. stage' \in [Client -> Stage] /\ answer' \in [Client -> Answer]
  BY LeftTypes DEF ReadLine, ReadHeader, ReadBody, Stage, Reading, Answer
<1>4. /\ Unread(c) \in Seq(Token)
      /\ Len(Unread(c)) \in Nat
  BY LenProperties DEF Typed, Input, Unread
<1>5. request[c] \in Request
  BY DEF Typed
<1>6. request' \in [Client -> Request] /\ input' \in [Client -> Input]
  <2>1. CASE ReadLine(c)
    <3> DEFINE token == Head(Unread(c))
    <3>1. token \in Token /\ 1 \in 0 .. Len(Unread(c))
      BY <2>1, <1>4, NextToken DEF ReadLine
    <3>2. input' \in [Client -> Input]
      BY <2>1, <3>1, <1>1, SkipTypes DEF ReadLine
    <3>3. token.method \in Method /\ token.url \in Url
      BY <3>1 DEF Method, Url
    <3>4. UNCHANGED request \/ request' = [request EXCEPT ![c].method = token.method,
                                                       ![c].url = token.url]
      BY <2>1 DEF ReadLine
    <3> HIDE DEF token
    <3> DEFINE r == [request[c] EXCEPT !.method = token.method, !.url = token.url]
    <3>5. r \in Request
      BY <3>3, <1>5 DEF Request
    <3>6. UNCHANGED request \/ request' = [request EXCEPT ![c] = r]
      BY <3>4 DEF Typed
    <3> HIDE DEF r
    <3> QED
      BY <3>2, <3>5, <3>6 DEF Typed
  <2>2. CASE ReadHeader(c)
    <3> DEFINE token == Head(Unread(c))
    <3>1. token \in Token /\ 1 \in 0 .. Len(Unread(c))
      BY <2>2, <1>4, NextToken DEF ReadHeader
    <3>2. input' \in [Client -> Input]
      BY <2>2, <3>1, <1>1, SkipTypes DEF ReadHeader
    <3>3. token.kind = "length" => token.value \in Declared
      BY <3>1 DEF Declared
    <3>4. request' = IF token.kind = "length" THEN [request EXCEPT ![c].length = token.value]
                                              ELSE request
      BY <2>2 DEF ReadHeader
    <3> HIDE DEF token
    <3> QED
      BY <3>2, <3>3, <3>4, <1>5 DEF Typed, Request
  <2>3. CASE ReadBody(c)
    <3>1. PICK n \in 0 .. Min({MaxBody, Len(Unread(c))}) :
             request' = [request EXCEPT ![c].body = n] /\ Skip(c, n)
      BY <2>3 DEF ReadBody
    <3>2. n \in 0 .. MaxBody /\ n \in 0 .. Len(Unread(c))
      <4>1. MaxBody \in Int /\ Len(Unread(c)) \in Int
        BY <1>4, BodyLimit
      <4>2. Min({MaxBody, Len(Unread(c))})
              = IF MaxBody <= Len(Unread(c)) THEN MaxBody ELSE Len(Unread(c))
        BY <4>1, MinOfTwo
      <4> QED
        BY <3>1, <4>1, <4>2
    <3>3. input' \in [Client -> Input]
      BY <3>1, <3>2, <1>1, SkipTypes
    <3> QED
      BY <3>1, <3>2, <3>3, <1>5 DEF Typed, Request
  <2> QED
    BY <2>1, <2>2, <2>3
<1>7. Typed'
  BY <1>1, <1>3, <1>6, GivenKept DEF Typed
<1> QED
  BY <1>2, <1>7

\* what a handler ends by, or goes on after, without reading anything
LEMMA LeavesTypes ==
    ASSUME FETypes, NEW c \in Client,
           \/ HeadersEnd(c) \/ Broken(c) \/ Refused(c) \/ Unmatched(c) \/ TimesOut(c)
           \/ Flushed(c) \/ WaitClosed(c)
    PROVE  FETypes'
<1> USE DEF FETypes
<1>1. UNCHANGED <<targets, sent, started, queues, input, request, target, work, address>>
  BY DEF HeadersEnd, Broken, Refused, Unmatched, TimesOut, Flushed, WaitClosed, poolVars
<1>2. stage' \in [Client -> Stage] /\ answer' \in [Client -> Answer]
  <2>1. \/ \E s \in {"body", "closing", "closed"} : Goto(c, s)
        \/ \E reply \in {"none", "400", "413", "502", "504"} : Close(c, reply)
    BY DEF HeadersEnd, Broken, Refused, Unmatched, TimesOut, Flushed, WaitClosed
  <2> QED
    BY <2>1, LeftTypes DEF Stage, Reading, Leaving, Answer
<1>3. Given' /\ Served'
  <2>1. /\ stage[c] \in Early \/ stage'[c] \notin Early
        /\ stage'[c] \notin {"connecting", "relaying"}
        /\ \A d \in Client \ {c} : stage'[d] = stage[d]
    BY DEF HeadersEnd, Broken, Refused, Unmatched, TimesOut, Flushed, WaitClosed, Early, Goto,
           Close, Answers, Typed
  <2> QED
    BY <2>1, <1>1, GivenKept DEF Served, Key, Serving, IsConnect
<1>4. Typed'
  BY <1>1, <1>2, GivenKept DEF Typed
<1> QED
  BY <1>3, <1>4

LEMMA SubmitTypes ==
    ASSUME FETypes, NEW c \in Client, Serving, Submit(c)
    PROVE  FETypes'
<1> USE DEF FETypes
<1>1. UNCHANGED <<targets, sent, started, queues, input, request, address>>
  BY DEF Submit, poolVars
<1>2. stage' \in [Client -> Stage] /\ answer' \in [Client -> Answer]
  BY LeftTypes DEF Submit, Stage, Answer
<1>3. PICK i \in DOMAIN targets : target' = [target EXCEPT ![c] = i]
  BY DEF Submit
<1>4. i \in 1 .. Len(targets)
  BY GivenFacts
<1>5. work' = [work EXCEPT ![c] = "queued"]
  BY DEF Submit
<1>6. Typed'
  BY <1>1, <1>2, <1>3, <1>4, <1>5, GivenKept, GivenFacts DEF Typed
<1>7. Given' /\ Served'
  <2>1. /\ stage[c] = "routing" /\ stage'[c] \notin Early \cup {"relaying"}
        /\ stage'[c] = "connecting" => IsConnect(c)
    BY DEF Submit, Goto, Early, Typed
  <2>2. \A d \in Client \ {c} : stage'[d] = stage[d]
    BY DEF Submit, Goto
  <2>3. address[c] = "none" /\ target'[c] # 0
    <3>1. target[c] = 0
      BY <2>1 DEF Served, Early
    <3>2. address[c] = "none"
      BY <3>1 DEF Served
    <3>3. target'[c] = i
      BY <1>3 DEF Typed
    <3> QED
      BY <3>2, <3>3, <1>4
  <2> QED
    BY <2>1, <2>2, <2>3, <1>1, <1>3, <1>5, GivenKept
       DEF Served, Key, Serving, Typed, IsConnect
<1> QED
  BY <1>6, <1>7

LEMMA PoolThere ==
    ASSUME FETypes, NEW c \in Client, work[c] # "none"
    PROVE  /\ Serving
           /\ target[c] \in DOMAIN targets
           /\ Key(target[c]) \in DOMAIN queues
           /\ queues[Key(target[c])] \in Seq(Address)
<1> USE DEF FETypes
<1>1. target[c] # 0 /\ Serving
  BY DEF Served
<1>2. target[c] \in 1 .. Len(targets)
  BY <1>1, GivenFacts DEF Typed
<1>3. Key(target[c]) \in DOMAIN queues
  BY <1>1, <1>2 DEF Served, Serving
<1> QED
  BY <1>1, <1>2, <1>3, GivenFacts DEF Typed

LEMMA GetsAddressTypes ==
    ASSUME FETypes, NEW c \in Client, GetsAddress(c)
    PROVE  FETypes'
<1> USE DEF FETypes
<1> DEFINE k == Key(target[c])
<1>1. /\ UNCHANGED <<targets, started, input, sent, stage, request, target, answer>>
      /\ work[c] = "queued"
      /\ work' = [work EXCEPT ![c] = "using"]
  BY DEF GetsAddress, Take
<1>2. /\ queues[k] # <<>>
      /\ queues' = [queues EXCEPT ![k] = Tail(@)]
      /\ address' = [address EXCEPT ![c] = Head(queues[k])]
  BY DEF GetsAddress, Take
<1>3. k \in DOMAIN queues /\ queues[k] \in Seq(Address)
  BY <1>1, PoolThere
<1>4. Head(queues[k]) \in Address /\ Tail(queues[k]) \in Seq(Address)
  BY <1>2, <1>3, HeadTailProperties
<1> HIDE DEF k
<1>5. Typed'
  BY <1>1, <1>2, <1>3, <1>4, GivenKept DEF Typed
<1>6. Given' /\ Served'
  <2>1. address'[c] # "none" /\ work'[c] = "using"
    BY <1>1, <1>2, <1>4, GivenFacts DEF Typed
  <2> QED
    BY <2>1, <1>1, <1>2, <1>3, GivenKept DEF Served, Key, Serving, Typed, IsConnect
<1> QED
  BY <1>5, <1>6

LEMMA RestedTypes ==
    ASSUME FETypes, NEW c \in Client, Rested(c)
    PROVE  FETypes'
<1> USE DEF FETypes
<1> DEFINE k == Key(target[c])
<1>1. /\ UNCHANGED <<targets, started, input, sent, stage, request, target, answer>>
      /\ work[c] = "resting"
      /\ work' = [work EXCEPT ![c] = "none"]
      /\ address' = [address EXCEPT ![c] = "none"]
      /\ queues' = [queues EXCEPT ![k] = Append(@, address[c])]
  BY DEF Rested, Return
<1>2. k \in DOMAIN queues /\ queues[k] \in Seq(Address)
  BY <1>1, PoolThere
<1>3. address[c] \in Address
  BY <1>1 DEF Served, Typed
<1>4. Append(queues[k], address[c]) \in Seq(Address)
  BY <1>2, <1>3, AppendProperties
<1> HIDE DEF k
<1>5. Typed'
  BY <1>1, <1>2, <1>4, GivenKept DEF Typed
<1>6. Given' /\ Served'
  BY <1>1, <1>2, GivenKept DEF Served, Key, Serving, Typed, IsConnect
<1> QED
  BY <1>5, <1>6

\* what comes of a request that keeps its address, or has none
LEMMA UsesTypes ==
    ASSUME FETypes, NEW c \in Client,
           \/ Expires(c) \/ UseEnds(c) \/ DialFails(c) \/ ConfirmFails(c) \/ DialSucceeds(c)
           \/ TunnelCloses(c)
    PROVE  FETypes'
<1> USE DEF FETypes
<1>1. UNCHANGED <<targets, started, queues, input, sent, request, target, address>>
  BY DEF Expires, UseEnds, DialFails, ConfirmFails, DialSucceeds, TunnelCloses, poolVars
<1>2. stage' \in [Client -> Stage] /\ answer' \in [Client -> Answer]
  <2>1. CASE DialSucceeds(c)
    BY <2>1 DEF DialSucceeds, Typed, Stage, Answer
  <2>2. CASE TunnelCloses(c)
    <3>1. Goto(c, "closing")
      BY <2>2 DEF TunnelCloses
    <3> QED
      BY <3>1, LeftTypes DEF Stage, Leaving, Answer
  <2>3. ASSUME ~DialSucceeds(c), ~TunnelCloses(c)
        PROVE  \/ UNCHANGED <<stage, answer>>
               \/ \E reply \in Answer : Close(c, reply) \/ Reply(c, reply)
               \/ \E s \in Leaving : Answers(c, "response", s)
    BY <2>3 DEF Expires, UseEnds, DialFails, ConfirmFails, Answer, Leaving
  <2>4. CASE UNCHANGED <<stage, answer>>
    BY <2>4 DEF Typed
  <2>5. "response" \in Answer /\ "closing" \in Stage /\ Leaving \subseteq Stage
    BY DEF Answer, Stage, Leaving
  <2> QED
    BY <2>1, <2>2, <2>3, <2>4, <2>5, LeftTypes
<1>3. \A d \in Client \ {c} : stage'[d] = stage[d]
  BY DEF Expires, UseEnds, DialFails, ConfirmFails, DialSucceeds, TunnelCloses, Typed, Close, Reply,
         Answers, Goto
<1>4. \/ work[c] = "queued" /\ work' = [work EXCEPT ![c] = "none"]
      \/ work[c] = "using" /\ work' = [work EXCEPT ![c] = "resting"]
      \/ work[c] = "using" /\ work' = [work EXCEPT ![c] = "lost"]
      \/ work[c] = "using" /\ UNCHANGED work
  BY DEF Expires, UseEnds, DialFails, ConfirmFails, DialSucceeds, TunnelCloses, Served
<1>5. Typed'
  BY <1>1, <1>2, <1>4, GivenKept DEF Typed
<1>6. Given' /\ Served'
  <2>1. stage'[c] = stage[c] \/ stage'[c] \in {"draining", "closing", "relaying"}
    BY DEF Expires, UseEnds, DialFails, ConfirmFails, DialSucceeds, TunnelCloses, Typed, Close,
           Reply, Answers, Goto
  <2>2. stage'[c] = "relaying" => IsConnect(c) /\ work'[c] = "using"
    <3>1. CASE DialSucceeds(c)
      BY <3>1 DEF DialSucceeds, Served
    <3>2. CASE Expires(c) \/ UseEnds(c)
      BY <3>2 DEF Expires, UseEnds, Served, Typed, Close, Reply, Answers
    <3>3. CASE DialFails(c) \/ ConfirmFails(c) \/ TunnelCloses(c)
      BY <3>3 DEF DialFails, ConfirmFails, TunnelCloses, Typed, Close, Answers, Goto
    <3> QED
      BY <3>1, <3>2, <3>3
  <2> QED
    BY <2>1, <2>2, <1>1, <1>3, <1>4, GivenKept DEF Served, Key, Serving, Typed, Early, IsConnect
<1> QED
  BY <1>5, <1>6

\* the queue a manager starts with
LEMMA StartsPool ==
    ASSUME FETypes, StartManager
    PROVE  LET i == started + 1 IN
              /\ i \in DOMAIN targets /\ started' = i /\ ~Serving
              /\ DOMAIN queues' = DOMAIN queues \cup {Key(i)}
              /\ queues' \in [DOMAIN queues' -> Seq(Address)]
              /\ \A name \in DOMAIN queues : queues'[name] = queues[name]
              /\ Key(i) \notin DOMAIN queues => queues'[Key(i)] = targets[i].addresses
<1> USE DEF FETypes
<1> DEFINE i == started + 1
           k == Key(i)
           list == targets[i].addresses
<1>1. i \in DOMAIN targets /\ started' = i /\ ~Serving
  BY GivenFacts DEF StartManager, Typed, Serving
<1>2. list \in Seq(Address)
  BY <1>1, GivenFacts
<1>3. queues' = IF k \in DOMAIN queues THEN queues
                ELSE [name \in DOMAIN queues \cup {k} |-> IF name = k THEN list ELSE queues[name]]
  BY DEF StartManager, Pushed
<1> HIDE DEF i, k, list
<1>4. /\ DOMAIN queues' = DOMAIN queues \cup {k}
      /\ queues' \in [DOMAIN queues' -> Seq(Address)]
      /\ \A name \in DOMAIN queues : queues'[name] = queues[name]
      /\ k \notin DOMAIN queues => queues'[k] = list
  BY <1>2, <1>3 DEF Typed
<1> QED
  BY <1>1, <1>4 DEF i, k, list

LEMMA StartManagerTypes ==
    ASSUME FETypes, StartManager, UNCHANGED <<clientVars, relayVars>>
    PROVE  FETypes'
<1> USE DEF FETypes
<1> DEFINE i == started + 1
<1>1. /\ i \in 1 .. Len(targets) /\ started' = i /\ ~Serving
      /\ DOMAIN queues' = DOMAIN queues \cup {Key(i)}
      /\ queues' \in [DOMAIN queues' -> Seq(Address)]
  BY StartsPool, GivenFacts
<1>2. UNCHANGED <<targets, input, sent, stage, request, target, work, address, answer>>
  BY DEF StartManager, clientVars
<1>3. {Key(j) : j \in 1 .. i} = {Key(j) : j \in 1 .. started} \cup {Key(i)}
  <2>1. 1 .. i = (1 .. started) \cup {i}
    BY GivenFacts DEF Typed
  <2> QED
    BY <2>1
<1>4. \A j \in 1 .. i : Key(j)' = Key(j)
  BY <1>2 DEF Key
<1>5. Typed'
  BY <1>1, <1>2, GivenKept DEF Typed
<1>6. Given' /\ Served'
  BY <1>1, <1>2, <1>3, <1>4, GivenKept DEF Served, Serving, IsConnect
<1> QED
  BY <1>5, <1>6

LEMMA FETypesInit == FEInit => FETypes
<1> SUFFICES ASSUME FEInit PROVE FETypes
  OBVIOUS
<1>1. PICK s \in Scenarios : targets = s.targets /\ input = s.input /\ sent = s.input
  BY DEF FEInit
<1>2. /\ targets \in Seq(ToSet(targets))
      /\ \A t \in ToSet(targets) : t.addresses \in Seq(ToSet(t.addresses) \ {"none"})
      /\ sent = [c \in Client |-> [tokens |-> sent[c].tokens, end |-> sent[c].end]]
      /\ \A c \in Client :
            /\ sent[c].tokens \in Seq(ToSet(sent[c].tokens))
            /\ \A token \in ToSet(sent[c].tokens) :
                  token.kind = "length" => token.value \in Nat \cup {Absent, NotANumber, Negative}
  BY <1>1, FrontEndAssumption
<1>3. Given
  <2>1. \A i \in DOMAIN targets : targets[i] \in ToSet(targets)
    BY DEF ToSet
  <2> QED
    BY <1>2, <2>1 DEF Given, Token
<1>4. input \in [Client -> Input]
  <2>1. \A c \in Client : [tokens |-> sent[c].tokens, end |-> sent[c].end] \in Input
    BY <1>3, GivenFacts DEF Input
  <2> QED
    BY <1>1, <1>2, <2>1
<1>5. request \in [Client -> Request]
  BY BodyLimit DEF FEInit, NoRequest, Request, Method, Url, Declared
<1>6. started = 0 /\ queues \in [DOMAIN queues -> Seq(Address)] /\ DOMAIN queues = {}
  BY DEF FEInit, TargetPoolsInit
<1>7. Typed
  BY <1>3, <1>4, <1>5, <1>6, GivenFacts DEF FEInit, Typed, Stage, Reading, Answer
<1>8. Served
  BY <1>6 DEF FEInit, Served, Early
<1> QED
  BY <1>3, <1>7, <1>8 DEF FETypes

LEMMA FrontEndStepKinds ==
    ASSUME [FENext]_feVars
    PROVE  \/ StartManager /\ UNCHANGED <<clientVars, relayVars>>
           \/ \E c \in Client :
                 /\ Serving
                 /\ \/ ReadLine(c) \/ ReadHeader(c) \/ HeadersEnd(c) \/ Broken(c)
                    \/ Refused(c) \/ ReadBody(c) \/ Unmatched(c) \/ Submit(c) \/ TimesOut(c)
                    \/ Flushed(c) \/ WaitClosed(c)
           \/ \E c \in Client :
                 \/ GetsAddress(c) \/ Expires(c) \/ UseEnds(c) \/ DialFails(c)
                 \/ ConfirmFails(c) \/ TunnelCloses(c) \/ Rested(c) \/ DialSucceeds(c)
           \/ UNCHANGED <<poolVars, clientVars>>
BY DEF FENext, feVars, HandlerStep, WorkStep, ClientTakes, Pipe, TunnelPeer

LEMMA FETypesNext == FETypes /\ [FENext]_feVars => FETypes'
<1> SUFFICES ASSUME FETypes, [FENext]_feVars PROVE FETypes'
  OBVIOUS
<1>1. CASE StartManager /\ UNCHANGED <<clientVars, relayVars>>
  BY <1>1, StartManagerTypes
<1>2. ASSUME NEW c \in Client, Serving,
             \/ ReadLine(c) \/ ReadHeader(c) \/ HeadersEnd(c) \/ Broken(c)
             \/ Refused(c) \/ ReadBody(c) \/ Unmatched(c) \/ Submit(c) \/ TimesOut(c)
             \/ Flushed(c) \/ WaitClosed(c)
      PROVE  FETypes'
  BY <1>2, ReadTypes, LeavesTypes, SubmitTypes
<1>3. ASSUME NEW c \in Client,
             \/ GetsAddress(c) \/ Expires(c) \/ UseEnds(c) \/ DialFails(c)
             \/ ConfirmFails(c) \/ TunnelCloses(c) \/ Rested(c) \/ DialSucceeds(c)
      PROVE  FETypes'
  BY <1>3, GetsAddressTypes, RestedTypes, UsesTypes
<1>4. CASE UNCHANGED <<poolVars, clientVars>>
  BY <1>4, GivenKept DEF FETypes, Typed, Served, Key, Serving, IsConnect, poolVars, clientVars
<1> QED
  BY <1>1, <1>2, <1>3, <1>4, FrontEndStepKinds

LEMMA FETypesAlways == FESpec => []FETypes
BY FETypesInit, FETypesNext, PTL DEF FESpec

LEMMA PendingNext == PendingTyped /\ [FENext]_feVars => PendingTyped'
<1> SUFFICES ASSUME PendingTyped, [FENext]_feVars PROVE PendingTyped'
  OBVIOUS
<1>1. \/ UNCHANGED pending
      \/ \E c \in Client : \E left \in SUBSET Peer : pending' = [pending EXCEPT ![c] = left]
  <2>1. CASE StartManager /\ UNCHANGED <<clientVars, relayVars>>
    BY <2>1 DEF relayVars
  <2>2. ASSUME NEW c \in Client, HandlerStep(c) \/ WorkStep(c)
        PROVE  \/ UNCHANGED pending
               \/ pending' = [pending EXCEPT ![c] = @ \cup {"client"}]
    <3>1. CASE HandlerStep(c)
      BY <3>1 DEF HandlerStep, ReadLine, ReadHeader, HeadersEnd, Broken, Refused, ReadBody,
         Unmatched, Submit, TimesOut, Flushed, WaitClosed, Goto, Close, Answers, relayVars
    <3>2. CASE WorkStep(c)
      BY <3>2 DEF WorkStep, GetsAddress, Expires, UseEnds, Rested, DialFails, ConfirmFails,
         DialSucceeds, TunnelCloses, RelayStarts, Goto, Reply, Close, Answers, relayVars
    <3> QED
      BY <2>2, <3>1, <3>2
  <2>3. ASSUME NEW c \in Client, ClientTakes(c) \/ \E p \in Peer : Pipe(c, p) \/ TunnelPeer(c, p)
        PROVE  \/ UNCHANGED pending
               \/ \E left \in SUBSET Peer : pending' = [pending EXCEPT ![c] = left]
    <3>1. \A p \in Peer : Other(p) \in Peer
      BY DEF Peer, Other
    <3>2. pending[c] \subseteq Peer
      BY DEF PendingTyped
    <3> QED
      BY <2>3, <3>1, <3>2 DEF ClientTakes, Pipe, TunnelPeer, PipeStep, PeerStep, Drained, PipeEnds,
         Forward, Takes, Ends
  <2>4. CASE UNCHANGED feVars
    BY <2>4 DEF feVars, relayVars
  <2>5. \A c \in Client : pending[c] \cup {"client"} \in SUBSET Peer
    BY DEF PendingTyped, Peer
  <2> QED
    BY <2>1, <2>2, <2>3, <2>4, <2>5 DEF FENext
<1> QED
  BY <1>1 DEF PendingTyped

\* The stages, answers and places of a request, the target it goes to, the
\* body that is read for it and who has output pending are in their ranges:
\* FrontEnd.FETypeOK.
THEOREM FrontEndTyping == FESpec => []FETypeOK
<1>1. FEInit => PendingTyped
  BY DEF FEInit, RelayInit, PendingTyped
<1> QED
  BY <1>1, FETypesAlways, PendingNext, TypesOK, PTL DEF FESpec

----------------------------------------------------------------------------
(* A text taken as a whole, from what has been read of it. *)

\* v is the last length among the first k tokens
LengthIn(s, k, v) ==
    \/ v = Absent /\ \A n \in 1 .. k : s[n].kind # "length"
    \/ \E m \in 1 .. k : /\ s[m].kind = "length" /\ v = s[m].value
                         /\ \A n \in m + 1 .. k : s[n].kind # "length"

\* the first k tokens are of the head, and r is what they say
HeadRead(s, k, r) ==
    /\ k \in 1 .. Len(s)
    /\ s[1].kind = "line" /\ r.method = s[1].method /\ r.url = s[1].url
    /\ \A n \in 1 .. k : s[n].kind \notin {"blank", "long"}
    /\ LengthIn(s, k, r.length)

\* the head has been read, and u is the rest
BodyNext(s, u, r) ==
    /\ Readable(s)
    /\ r.method = s[1].method /\ r.url = s[1].url
    /\ LengthOf(s) = IF r.method = "CONNECT" THEN Absent ELSE r.length
    /\ Len(u) = Len(BodyOf(s))

\* all of the request has been read
AllRead(s, r) ==
    /\ Readable(s) /\ Whole(s)
    /\ r.method = s[1].method /\ r.url = s[1].url
    /\ LengthOf(s) \in -1 .. MaxBody
    /\ r.body = Max({0, LengthOf(s)})

LEMMA HeadEndIs ==
    ASSUME NEW s, Len(s) \in Nat, DOMAIN s = 1 .. Len(s), NEW h \in 1 .. Len(s) + 1,
           \A n \in 1 .. h - 1 : s[n].kind # "blank",
           h = Len(s) + 1 \/ s[h].kind = "blank"
    PROVE  HeadEnd(s) = h
<1> DEFINE S == {n \in DOMAIN s : s[n].kind = "blank"} \cup {Len(s) + 1}
<1>1. h \in S /\ S \in SUBSET Int
  OBVIOUS
<1>2. ASSUME NEW n \in S PROVE h <= n
  OBVIOUS
<1> HIDE DEF S
<1>3. Min(S) = h
  BY <1>1, <1>2, MinIs
<1> QED
  BY <1>3 DEF HeadEnd, S

LEMMA HeadEndIn ==
    ASSUME NEW s, Len(s) \in Nat, DOMAIN s = 1 .. Len(s)
    PROVE  /\ HeadEnd(s) \in 1 .. Len(s) + 1
           /\ \A n \in 1 .. Len(s) : s[n].kind = "blank" => HeadEnd(s) <= n
           /\ HeadEnd(s) = Len(s) + 1 \/ s[HeadEnd(s)].kind = "blank"
<1> DEFINE S == {n \in DOMAIN s : s[n].kind = "blank"} \cup {Len(s) + 1}
<1>1. S \in SUBSET Nat /\ S # {}
  OBVIOUS
<1>2. /\ \A n \in 1 .. Len(s) : s[n].kind = "blank" => n \in S
      /\ \A n \in S : n \in 1 .. Len(s) + 1 /\ (n = Len(s) + 1 \/ s[n].kind = "blank")
  OBVIOUS
<1>3. HeadEnd(s) = Min(S)
  BY DEF HeadEnd
<1> HIDE DEF S
<1>4. Min(S) \in S /\ \A n \in S : Min(S) <= n
  BY <1>1, MinIn
<1> QED
  BY <1>2, <1>3, <1>4

LEMMA LengthIs ==
    ASSUME NEW s, NEW v, NEW h \in Nat, HeadEnd(s) = h, LengthIn(s, h - 1, v)
    PROVE  LengthOf(s) = IF s[1].method = "CONNECT" THEN Absent ELSE v
<1> DEFINE at == {n \in 1 .. HeadEnd(s) - 1 : s[n].kind = "length"}
<1>1. CASE at = {}
  <2>1. v = Absent
    BY <1>1 DEF LengthIn
  <2> QED
    BY <1>1, <2>1 DEF LengthOf
<1>2. CASE at # {}
  <2>1. PICK m \in 1 .. h - 1 : /\ s[m].kind = "length" /\ v = s[m].value
                                /\ \A n \in m + 1 .. h - 1 : s[n].kind # "length"
    BY <1>2 DEF LengthIn
  <2>2. at \in SUBSET Int /\ m \in at /\ \A n \in at : n <= m
    BY <2>1
  <2>3. LengthOf(s) = IF at = {} \/ s[1].method = "CONNECT" THEN Absent ELSE s[Max(at)].value
    BY DEF LengthOf
  <2> HIDE DEF at
  <2>4. Max(at) = m
    BY <2>2, MaxIs
  <2> QED
    BY <1>2, <2>1, <2>3, <2>4
<1> QED
  BY <1>1, <1>2

LEMMA BodyLength ==
    ASSUME NEW T, NEW s \in Seq(T)
    PROVE  Len(BodyOf(s)) = IF HeadEnd(s) < Len(s) THEN Len(s) - HeadEnd(s) ELSE 0
<1>1. Len(s) \in Nat /\ DOMAIN s = 1 .. Len(s)
  BY LenProperties
<1>2. HeadEnd(s) \in 1 .. Len(s) + 1
  BY <1>1, HeadEndIn
<1>3. /\ HeadEnd(s) + 1 \in Int /\ Len(s) \in Int
      /\ \A n \in HeadEnd(s) + 1 .. Len(s) : s[n] \in T
  BY <1>1, <1>2, ElementOfSeq
<1>4. Len(SubSeq(s, HeadEnd(s) + 1, Len(s)))
        = IF HeadEnd(s) + 1 <= Len(s) THEN Len(s) - (HeadEnd(s) + 1) + 1 ELSE 0
  BY <1>3, SubSeqProperties
<1> QED
  BY <1>1, <1>2, <1>4 DEF BodyOf

\* the head ends at the next token, or with the text
LEMMA HeadDone ==
    ASSUME NEW T, NEW s \in Seq(T), NEW u \in Seq(T), NEW k \in Nat, NEW r, HeadRead(s, k, r),
           \/ k + 1 <= Len(s) /\ s[k + 1].kind = "blank" /\ Len(u) = Len(s) - (k + 1)
           \/ k = Len(s) /\ Len(u) = 0
    PROVE  BodyNext(s, u, r)
<1>0. Len(s) \in Nat
  BY LenProperties
<1>1. DOMAIN s = 1 .. Len(s)
  BY LenProperties
<1>2. k \in Nat \ {0} /\ k <= Len(s) /\ k + 1 \in Nat /\ (k + 1) - 1 = k
  <2>1. k \in 1 .. Len(s)
    BY DEF HeadRead
  <2> QED
    BY <1>0, <2>1
<1>3. HeadEnd(s) = k + 1
  <2>1. k + 1 \in 1 .. Len(s) + 1
    BY <1>0, <1>2
  <2>2. \A n \in 1 .. (k + 1) - 1 : s[n].kind # "blank"
    BY <1>2 DEF HeadRead
  <2>3. k + 1 = Len(s) + 1 \/ s[k + 1].kind = "blank"
    BY <1>2
  <2> QED
    BY <1>0, <1>1, <2>1, <2>2, <2>3, HeadEndIs
<1>4. LengthOf(s) = IF s[1].method = "CONNECT" THEN Absent ELSE r.length
  <2>1. LengthIn(s, (k + 1) - 1, r.length)
    BY <1>2 DEF HeadRead
  <2> QED
    BY <1>2, <1>3, <2>1, LengthIs
<1>5. Len(u) = Len(BodyOf(s))
  <2>1. Len(BodyOf(s)) = IF k + 1 < Len(s) THEN Len(s) - (k + 1) ELSE 0
    BY <1>3, BodyLength
  <2> QED
    BY <1>0, <1>2, <2>1
<1>6. Readable(s)
  <2>1. s # <<>>
    BY <1>0, <1>2, EmptySeq
  <2>2. \A n \in 1 .. HeadEnd(s) - 1 : s[n].kind # "long"
    BY <1>2, <1>3 DEF HeadRead
  <2> QED
    BY <2>1, <2>2 DEF HeadRead, Readable
<1> QED
  BY <1>4, <1>5, <1>6 DEF BodyNext, HeadRead

----------------------------------------------------------------------------
(* How far each handler has come with the text of its client.  Reading      *)
(* moves along the text, and what has been decided stays decided.           *)

Matching(s) == {i \in DOMAIN targets : s[1].url \in targets[i].matches}

MayGet(c) == Due(c) \cup (IF sent[c].end = "reset" THEN {"none"} ELSE {})

Progress(c) ==
    LET s == sent[c].tokens
        u == Unread(c)
    IN  /\ input[c].end = sent[c].end
        /\ stage[c] \in {"line", "headers"} => Rest(u, s)
        /\ stage[c] = "line" => Len(u) = Len(s) /\ request[c].length = Absent
        /\ stage[c] = "headers" => HeadRead(s, Len(s) - Len(u), request[c])
        /\ stage[c] = "body" => BodyNext(s, u, request[c])
        /\ stage[c] = "routing" \/ target[c] # 0 => AllRead(s, request[c])
        /\ stage[c] \in {"waiting", "connecting", "relaying"} => target[c] # 0
        /\ stage[c] = "waiting" => ~IsConnect(c)
        /\ stage[c] = "relaying" => answer[c] = "200"
        /\ target[c] # 0 => Matching(s) # {} /\ target[c] = Min(Matching(s))
        /\ stage[c] \in Leaving => answer[c] \in MayGet(c)

ReadInv == \A c \in Client : Progress(c)

LEMMA ProgressWhole == ReadInv => RefusedOrWhole
<1> SUFFICES ASSUME ReadInv, NEW c \in Client
             PROVE  /\ stage[c] \in Leaving => answer[c] \in MayGet(c)
                    /\ target[c] # 0 =>
                          LET s == sent[c].tokens IN
                             /\ Readable(s) /\ Whole(s)
                             /\ request[c].body = Max({0, LengthOf(s)})
                             /\ target[c] = Min(Matching(s))
  BY DEF RefusedOrWhole, MayGet, Matching
<1> QED
  BY DEF ReadInv, Progress, AllRead

LEMMA ProgressKept ==
    ASSUME NEW c \in Client, Progress(c), UNCHANGED <<targets, sent>>,
           input'[c] = input[c], stage'[c] = stage[c], request'[c] = request[c],
           target'[c] = target[c], answer'[c] = answer[c]
    PROVE  Progress(c)'
<1>1. /\ Matching(sent[c].tokens)' = Matching(sent[c].tokens)
      /\ MayGet(c)' = MayGet(c) /\ Unread(c)' = Unread(c) /\ IsConnect(c)' = IsConnect(c)
  BY DEF Matching, MayGet, Due, Unread, IsConnect
<1> QED
  BY <1>1 DEF Progress

\* a step of one client leaves the others as far as they are
LEMMA OthersProgress ==
    ASSUME FETypes, ReadInv, UNCHANGED <<targets, sent>>, NEW c \in Client,
           \A d \in Client \ {c} :
              /\ input'[d] = input[d] /\ stage'[d] = stage[d] /\ request'[d] = request[d]
              /\ target'[d] = target[d] /\ answer'[d] = answer[d],
           Progress(c)'
    PROVE  ReadInv'
<1>1. ASSUME NEW d \in Client \ {c} PROVE Progress(d)'
  BY <1>1, ProgressKept DEF ReadInv
<1> QED
  BY <1>1 DEF ReadInv

LEMMA ConstantParts ==
    ASSUME NEW c \in Client, UNCHANGED <<targets, sent>>
    PROVE  /\ Matching(sent[c].tokens)' = Matching(sent[c].tokens)
           /\ MayGet(c)' = MayGet(c)
BY DEF Matching, MayGet, Due

\* the text of a client, and what is left of it
LEMMA Texts ==
    ASSUME FETypes, NEW c \in Client
    PROVE  /\ sent[c].tokens \in Seq(Token) /\ Unread(c) \in Seq(Token)
           /\ Len(sent[c].tokens) \in Nat /\ Len(Unread(c)) \in Nat
<1>1. sent[c].tokens \in Seq(Token) /\ Unread(c) \in Seq(Token)
  BY GivenFacts DEF FETypes, Typed, Input, Unread
<1> QED
  BY <1>1, LenProperties

\* the answers that are due when a request has been read
LEMMA DueRead ==
    ASSUME NEW c \in Client, AllRead(sent[c].tokens, request[c])
    PROVE  Due(c) = IF Matching(sent[c].tokens) = {} THEN {"502"}
                    ELSE {IF IsConnect(c) THEN "200" ELSE "response", "none", "502", "504"}
<1> DEFINE s == sent[c].tokens
<1>1. /\ Readable(s) /\ Whole(s) /\ request[c].method = s[1].method
      /\ LengthOf(s) \in -1 .. MaxBody
  BY DEF AllRead
<1>2. ~(LengthOf(s) > MaxBody) /\ LengthOf(s) \notin {NotANumber, Negative}
  BY <1>1, BodyLimit DEF NotANumber, Negative
<1> QED
  BY <1>1, <1>2 DEF Due, Matching, IsConnect

\* tokens are skipped
LEMMA SkipProgress ==
    ASSUME FETypes, ReadInv, UNCHANGED sent, NEW c \in Client, NEW n \in 0 .. Len(Unread(c)),
           Skip(c, n)
    PROVE  /\ input'[c].end = sent[c].end
           /\ \A d \in Client \ {c} : input'[d] = input[d]
           /\ Unread(c)' \in Seq(Token)
           /\ Len(Unread(c)') = Len(Unread(c)) - n
           /\ Rest(Unread(c), sent[c].tokens) => Rest(Unread(c)', sent[c].tokens)
<1> DEFINE v == SubSeq(Unread(c), n + 1, Len(Unread(c)))
<1>1. /\ input'[c] = [input[c] EXCEPT !.tokens = v]
      /\ \A d \in Client \ {c} : input'[d] = input[d]
  BY SkipTypes DEF FETypes
<1>2. input[c] \in Input /\ input[c].end = sent[c].end
  BY DEF FETypes, Typed, ReadInv, Progress
<1>3. v \in Seq(Token) /\ Len(v) = Len(Unread(c)) - n
  BY Texts, Skipped
<1>4. Rest(Unread(c), sent[c].tokens) => Rest(v, sent[c].tokens)
  BY Texts, RestSkipped
<1> HIDE DEF v
<1>5. input'[c].end = sent[c].end /\ Unread(c)' = v
  BY <1>1, <1>2 DEF Input, Unread
<1> QED
  BY <1>1, <1>3, <1>4, <1>5

\* the next token is the one that comes next in the text
LEMMA NextOfText ==
    ASSUME FETypes, NEW c \in Client, Unread(c) # <<>>, Rest(Unread(c), sent[c].tokens)
    PROVE  /\ Len(Unread(c)) >= 1 /\ Len(Unread(c)) <= Len(sent[c].tokens)
           /\ Head(Unread(c)) = sent[c].tokens[Len(sent[c].tokens) - Len(Unread(c)) + 1]
<1>1. Head(Unread(c)) = Unread(c)[1] /\ 1 \in 1 .. Len(Unread(c)) /\ Len(Unread(c)) >= 1
  BY Texts, NextToken DEF FETypes
<1> QED
  BY <1>1 DEF Rest

LEMMA ReadLineProgress ==
    ASSUME FETypes, ReadInv, NEW c \in Client, ReadLine(c)
    PROVE  ReadInv'
<1> DEFINE s == sent[c].tokens
           u == Unread(c)
           token == Head(u)
<1>1. /\ UNCHANGED <<targets, sent, target>> /\ target[c] = 0
      /\ stage[c] = "line" /\ u # <<>> /\ Skip(c, 1)
  BY DEF ReadLine, poolVars, FETypes, Served, Early
<1>2. /\ Len(s) \in Nat /\ Len(u) \in Nat
      /\ Rest(u, s) /\ Len(u) = Len(s) /\ request[c].length = Absent
  BY <1>1, Texts DEF ReadInv, Progress
<1>3. token = s[1] /\ Len(s) >= 1
  <2>1. Len(s) - Len(u) + 1 = 1
    BY <1>2
  <2> QED
    BY <1>1, <1>2, <2>1, NextOfText
<1>4. 1 \in 0 .. Len(u)
  BY <1>2, <1>3
<1>5. /\ input'[c].end = sent[c].end
      /\ \A d \in Client \ {c} : input'[d] = input[d]
      /\ Rest(Unread(c)', s) /\ Len(Unread(c)') = Len(s) - 1
  BY <1>1, <1>2, <1>4, SkipProgress
<1> HIDE DEF s, u, token
<1>6. \A d \in Client \ {c} : /\ stage'[d] = stage[d] /\ request'[d] = request[d]
                              /\ answer'[d] = answer[d]
  BY DEF ReadLine, Goto, Close, Answers, FETypes, Typed, u, token
<1>7. CASE token.kind = "line"
  <2>1. /\ stage'[c] = "headers"
        /\ request'[c] = [request[c] EXCEPT !.method = token.method, !.url = token.url]
    BY <1>7, <1>1 DEF ReadLine, Goto, FETypes, Typed, u, token
  <2>2. /\ request'[c].method = s[1].method /\ request'[c].url = s[1].url
        /\ request'[c].length = Absent
    BY <2>1, <1>2, <1>3 DEF FETypes, Typed, Request
  <2>3. HeadRead(s, 1, request'[c])
    BY <1>2, <1>3, <1>7, <2>2 DEF HeadRead, LengthIn
  <2>4. Len(s) - Len(Unread(c)') = 1
    BY <1>2, <1>5
  <2>5. Progress(c)'
    BY <1>1, <1>5, <2>1, <2>3, <2>4, ConstantParts DEF Progress, Leaving, s
  <2> QED
    BY <1>1, <1>5, <1>6, <2>5, OthersProgress
<1>8. CASE token.kind # "line"
  <2>1. stage'[c] = "closing" /\ answer'[c] = "none"
    BY <1>8, <1>1 DEF ReadLine, Close, Answers, FETypes, Typed, u, token
  <2>2. "none" \in MayGet(c)
    BY <1>3, <1>8 DEF MayGet, Due, Readable, s
  <2>3. Progress(c)'
    BY <1>1, <1>5, <2>1, <2>2, ConstantParts DEF Progress, Leaving
  <2> QED
    BY <1>1, <1>5, <1>6, <2>3, OthersProgress
<1> QED
  BY <1>7, <1>8

\* a token of the head that ends nothing
LEMMA HeadGoesOn ==
    ASSUME NEW s, NEW k \in Nat, NEW r, NEW q, Len(s) \in Nat, HeadRead(s, k, r),
           k + 1 <= Len(s), s[k + 1].kind \notin {"blank", "long"},
           q.method = r.method, q.url = r.url,
           q.length = IF s[k + 1].kind = "length" THEN s[k + 1].value ELSE r.length
    PROVE  HeadRead(s, k + 1, q)
<1>1. k + 1 \in 1 .. Len(s) /\ 1 .. k + 1 = (1 .. k) \cup {k + 1}
  OBVIOUS
<1>2. LengthIn(s, k, r.length)
  BY DEF HeadRead
<1>3. LengthIn(s, k + 1, q.length)
  <2>1. CASE s[k + 1].kind = "length"
    BY <1>1, <2>1 DEF LengthIn
  <2>2. CASE s[k + 1].kind # "length" /\ \A n \in 1 .. k : s[n].kind # "length"
    BY <1>1, <1>2, <2>2 DEF LengthIn
  <2>3. CASE s[k + 1].kind # "length" /\ \E n \in 1 .. k : s[n].kind = "length"
    <3>1. PICK m \in 1 .. k : /\ s[m].kind = "length" /\ r.length = s[m].value
                              /\ \A n \in m + 1 .. k : s[n].kind # "length"
      BY <1>2, <2>3 DEF LengthIn
    <3>2. \A n \in m + 1 .. k + 1 : s[n].kind # "length"
      BY <2>3, <3>1
    <3> QED
      BY <1>1, <2>3, <3>1, <3>2 DEF LengthIn
  <2> QED
    BY <2>1, <2>2, <2>3
<1> QED
  BY <1>1, <1>3 DEF HeadRead

LEMMA LongIsUnreadable ==
    ASSUME NEW T, NEW s \in Seq(T), NEW k \in Nat, NEW r, HeadRead(s, k, r), k + 1 <= Len(s),
           s[k + 1].kind = "long"
    PROVE  ~Readable(s)
<1>1. Len(s) \in Nat
  BY LenProperties
<1>2. DOMAIN s = 1 .. Len(s)
  BY LenProperties
<1>3. /\ HeadEnd(s) \in 1 .. Len(s) + 1
      /\ HeadEnd(s) = Len(s) + 1 \/ s[HeadEnd(s)].kind = "blank"
  BY <1>1, <1>2, HeadEndIn
<1>4. \A n \in 1 .. k : s[n].kind # "blank"
  BY DEF HeadRead
<1>5. HeadEnd(s) # k + 1
  BY <1>1, <1>3
<1>6. HeadEnd(s) \notin 1 .. k
  BY <1>1, <1>3, <1>4
<1>7. k + 1 \in 1 .. HeadEnd(s) - 1
  BY <1>1, <1>3, <1>5, <1>6
<1> QED
  BY <1>7 DEF Readable

LEMMA ReadHeaderProgress ==
    ASSUME FETypes, ReadInv, NEW c \in Client, ReadHeader(c)
    PROVE  ReadInv'
<1> DEFINE s == sent[c].tokens
           u == Unread(c)
           k == Len(s) - Len(u)
           token == Head(u)
<1>1. /\ UNCHANGED <<targets, sent, target>> /\ target[c] = 0
      /\ stage[c] = "headers" /\ u # <<>> /\ Skip(c, 1)
  BY DEF ReadHeader, poolVars, FETypes, Served, Early
<1>2. /\ s \in Seq(Token) /\ Len(s) \in Nat /\ Len(u) \in Nat
      /\ Rest(u, s) /\ HeadRead(s, k, request[c])
  BY <1>1, Texts DEF ReadInv, Progress
<1>3. /\ Len(u) >= 1 /\ Len(u) <= Len(s) /\ token = s[k + 1]
  BY <1>1, <1>2, NextOfText
<1>4. 1 \in 0 .. Len(u) /\ k \in Nat /\ k + 1 <= Len(s)
  BY <1>2, <1>3
<1>5. /\ input'[c].end = sent[c].end
      /\ \A d \in Client \ {c} : input'[d] = input[d]
      /\ Unread(c)' \in Seq(Token)
      /\ Rest(Unread(c)', s) /\ Len(Unread(c)') = Len(u) - 1
  BY <1>1, <1>2, <1>4, SkipProgress
<1>6. /\ Len(Unread(c)') = Len(s) - (k + 1)
      /\ Len(s) - Len(Unread(c)') = k + 1
  BY <1>2, <1>5
<1> HIDE DEF s, u, k, token
<1>7. \A d \in Client \ {c} : /\ stage'[d] = stage[d] /\ request'[d] = request[d]
                              /\ answer'[d] = answer[d]
  BY DEF ReadHeader, Goto, Close, Answers, FETypes, Typed, u, token
<1>8. CASE token.kind = "blank"
  <2>1. stage'[c] = "body" /\ request'[c] = request[c]
    BY <1>8, <1>1 DEF ReadHeader, Goto, FETypes, Typed, u, token
  <2>2. BodyNext(s, Unread(c)', request[c])
    BY <1>2, <1>3, <1>4, <1>5, <1>6, <1>8, HeadDone
  <2>3. Progress(c)'
    BY <1>1, <1>5, <2>1, <2>2, ConstantParts DEF Progress, Leaving, s
  <2> QED
    BY <1>1, <1>5, <1>7, <2>3, OthersProgress
<1>9. CASE token.kind = "long"
  <2>1. stage'[c] = "closing" /\ answer'[c] = "none"
    BY <1>9, <1>1 DEF ReadHeader, Close, Answers, FETypes, Typed, u, token
  <2>2. ~Readable(s)
    BY <1>2, <1>3, <1>4, <1>9, LongIsUnreadable
  <2>3. "none" \in MayGet(c)
    BY <2>2 DEF MayGet, Due, s
  <2>4. Progress(c)'
    BY <1>1, <1>5, <2>1, <2>3, ConstantParts DEF Progress, Leaving
  <2> QED
    BY <1>1, <1>5, <1>7, <2>4, OthersProgress
<1>10. CASE token.kind \notin {"blank", "long"}
  <2>1. stage'[c] = "headers"
    BY <1>10, <1>1 DEF ReadHeader, Goto, FETypes, Typed, u, token
  <2>2. request' = IF token.kind = "length" THEN [request EXCEPT ![c].length = token.value]
                                            ELSE request
    BY DEF ReadHeader, u, token
  <2>3. /\ request'[c].method = request[c].method /\ request'[c].url = request[c].url
        /\ request'[c].length = IF token.kind = "length" THEN token.value ELSE request[c].length
    BY <2>2 DEF FETypes, Typed, Request
  <2>4. HeadRead(s, k + 1, request'[c])
    BY <1>2, <1>3, <1>4, <1>10, <2>3, HeadGoesOn
  <2>5. Progress(c)'
    BY <1>1, <1>5, <1>6, <2>1, <2>4, ConstantParts DEF Progress, Leaving, s
  <2> QED
    BY <1>1, <1>5, <1>7, <2>5, OthersProgress
<1> QED
  BY <1>8, <1>9, <1>10

LEMMA HeadersEndProgress ==
    ASSUME FETypes, ReadInv, NEW c \in Client, HeadersEnd(c)
    PROVE  ReadInv'
<1> DEFINE s == sent[c].tokens
           u == Unread(c)
<1>1. /\ UNCHANGED <<targets, sent, target, input, request, answer>> /\ target[c] = 0
      /\ stage[c] = "headers" /\ u = <<>>
  BY DEF HeadersEnd, AtEnd, Goto, poolVars, FETypes, Served, Early
<1>2. stage'[c] = "body" /\ \A d \in Client \ {c} : stage'[d] = stage[d]
  BY DEF HeadersEnd, Goto, FETypes, Typed
<1>3. /\ s \in Seq(Token) /\ u \in Seq(Token) /\ Len(s) \in Nat /\ Len(u) = 0
      /\ HeadRead(s, Len(s) - Len(u), request[c]) /\ input[c].end = sent[c].end
  BY <1>1, Texts, EmptySeq DEF ReadInv, Progress
<1>4. Unread(c)' = u
  BY <1>1 DEF Unread
<1> HIDE DEF s, u
<1>5. Len(s) - Len(u) = Len(s)
  BY <1>3
<1>6. BodyNext(s, u, request[c])
  BY <1>3, <1>5, HeadDone
<1>7. Progress(c)'
  BY <1>1, <1>2, <1>3, <1>4, <1>6, ConstantParts DEF Progress, Leaving, s
<1> QED
  BY <1>1, <1>2, <1>7, OthersProgress

\* the answers of a request that has been submitted
LEMMA DueSubmitted ==
    ASSUME ReadInv, NEW c \in Client, target[c] # 0
    PROVE  {IF IsConnect(c) THEN "200" ELSE "response", "none", "502", "504"} \subseteq MayGet(c)
<1>1. AllRead(sent[c].tokens, request[c]) /\ Matching(sent[c].tokens) # {}
  BY DEF ReadInv, Progress
<1> QED
  BY <1>1, DueRead DEF MayGet

\* a handler that leaves has answered what is due
LEMMA CloseProgress ==
    ASSUME FETypes, ReadInv, NEW c \in Client, NEW reply, reply \in MayGet(c),
           Close(c, reply) \/ Answers(c, reply, "draining"),
           UNCHANGED <<targets, sent, input, request, target>>
    PROVE  ReadInv'
<1>1. /\ stage'[c] \in {"draining", "closing"} /\ answer'[c] = reply
      /\ \A d \in Client \ {c} : stage'[d] = stage[d] /\ answer'[d] = answer[d]
  BY DEF Close, Answers, FETypes, Typed
<1>2. Progress(c)'
  BY <1>1, ConstantParts DEF ReadInv, Progress, Leaving, Unread
<1> QED
  BY <1>1, <1>2, OthersProgress

\* and goes on leaving
LEMMA LeavesProgress ==
    ASSUME FETypes, ReadInv, NEW c \in Client,
           Flushed(c) \/ WaitClosed(c) \/ TunnelCloses(c)
    PROVE  ReadInv'
<1>1. UNCHANGED <<targets, sent, input, request, target, answer>>
  BY DEF Flushed, WaitClosed, TunnelCloses, Goto, poolVars
<1>2. /\ stage'[c] \in {"closing", "closed"}
      /\ \A d \in Client \ {c} : stage'[d] = stage[d]
  BY DEF Flushed, WaitClosed, TunnelCloses, Goto, FETypes, Typed
<1>3. answer[c] \in MayGet(c)
  <2>1. CASE stage[c] \in {"draining", "closing"}
    BY <2>1 DEF ReadInv, Progress, Leaving
  <2>2. CASE stage[c] = "relaying"
    <3>1. answer[c] = "200" /\ IsConnect(c) /\ target[c] # 0
      BY <2>2 DEF ReadInv, Progress, FETypes, Served
    <3> QED
      BY <3>1, DueSubmitted
  <2> QED
    BY <2>1, <2>2 DEF Flushed, WaitClosed, TunnelCloses
<1>4. Progress(c)'
  BY <1>1, <1>2, <1>3, ConstantParts DEF ReadInv, Progress, Leaving, Unread
<1> QED
  BY <1>1, <1>2, <1>4, OthersProgress

LEMMA BrokenProgress ==
    ASSUME FETypes, ReadInv, NEW c \in Client, Broken(c)
    PROVE  ReadInv'
<1>1. UNCHANGED <<targets, sent, input, request, target>> /\ Close(c, "none")
  BY DEF Broken, poolVars
<1>2. "none" \in MayGet(c)
  <2>1. CASE input[c].end = "reset"
    BY <2>1 DEF MayGet, ReadInv, Progress
  <2>2. CASE stage[c] = "line" /\ AtEnd(c, "eof")
    <3>1. Unread(c) = <<>> /\ Len(Unread(c)) = Len(sent[c].tokens)
      BY <2>2 DEF AtEnd, ReadInv, Progress
    <3>2. sent[c].tokens = <<>>
      BY <3>1, Texts, EmptySeq
    <3> QED
      BY <3>2 DEF MayGet, Due, Readable
  <2> QED
    BY <2>1, <2>2 DEF Broken
<1> QED
  BY <1>1, <1>2, CloseProgress

LEMMA WholeIf ==
    ASSUME NEW s, NEW u, NEW r, BodyNext(s, u, r), Len(u) \in Nat
    PROVE  Whole(s) <=> LengthOf(s) <= IF MaxBody <= Len(u) THEN MaxBody ELSE Len(u)
<1>1. Len(BodyOf(s)) = Len(u) /\ MaxBody \in Int /\ Len(u) \in Int
  BY BodyLimit DEF BodyNext
<1> QED
  BY <1>1, MinOfTwo DEF Whole

LEMMA RefusedProgress ==
    ASSUME FETypes, ReadInv, NEW c \in Client, Refused(c)
    PROVE  ReadInv'
<1> DEFINE s == sent[c].tokens
           u == Unread(c)
           length == request[c].length
<1>1. UNCHANGED <<targets, sent, input, request, target>> /\ stage[c] = "body" /\ HasBody(c)
  BY DEF Refused, poolVars
<1>2. BodyNext(s, u, request[c]) /\ Len(u) \in Nat
  BY <1>1, Texts DEF ReadInv, Progress
<1>3. LengthOf(s) = length /\ Readable(s)
  BY <1>1, <1>2 DEF BodyNext, HasBody, IsConnect
<1>4. length \in Int
  BY GivenFacts DEF FETypes, Typed, Request
<1> HIDE DEF s, u, length
<1>5. CASE length > MaxBody /\ Close(c, "413")
  <2>1. "413" \in MayGet(c)
    BY <1>3, <1>5 DEF MayGet, Due, s
  <2> QED
    BY <1>1, <1>5, <2>1, CloseProgress
<1>6. CASE length \in {NotANumber, Negative} /\ Close(c, "400")
  <2>1. ~(length > MaxBody)
    BY <1>6, BodyLimit DEF NotANumber, Negative
  <2>2. "400" \in MayGet(c)
    BY <1>3, <1>6, <2>1 DEF MayGet, Due, s
  <2> QED
    BY <1>1, <1>6, <2>2, CloseProgress
<1>7. CASE length \in Len(u) + 1 .. MaxBody /\ Close(c, "400")
  <2>1. ~(length > MaxBody) /\ ~(length <= Len(u))
    BY <1>2, <1>4, <1>7, BodyLimit
  <2>2. ~Whole(s)
    BY <1>2, <1>3, <1>4, <2>1, WholeIf, BodyLimit
  <2>3. "400" \in MayGet(c)
    BY <1>3, <2>1, <2>2 DEF MayGet, Due, s
  <2> QED
    BY <1>1, <1>7, <2>3, CloseProgress
<1> QED
  BY <1>5, <1>6, <1>7 DEF Refused, s, u, length

LEMMA ReadBodyProgress ==
    ASSUME FETypes, ReadInv, NEW c \in Client, ReadBody(c)
    PROVE  ReadInv'
<1> DEFINE s == sent[c].tokens
           u == Unread(c)
           n == IF HasBody(c) THEN request[c].length ELSE 0
<1>1. /\ UNCHANGED <<targets, sent, target>> /\ target[c] = 0
      /\ stage[c] = "body" /\ Skip(c, n)
      /\ request' = [request EXCEPT ![c].body = n]
      /\ n \in 0 .. Min({MaxBody, Len(u)})
  BY DEF ReadBody, poolVars, FETypes, Served, Early
<1>2. /\ stage'[c] = "routing"
      /\ \A d \in Client \ {c} : /\ stage'[d] = stage[d] /\ answer'[d] = answer[d]
                                 /\ request'[d] = request[d]
  BY <1>1 DEF ReadBody, Goto, FETypes, Typed
<1>3. BodyNext(s, u, request[c]) /\ Len(u) \in Nat
  BY <1>1, Texts DEF ReadInv, Progress
<1>4. LengthOf(s) = IF HasBody(c) THEN request[c].length ELSE Absent
  BY <1>3 DEF BodyNext, HasBody, IsConnect
<1>5. /\ request'[c].method = request[c].method /\ request'[c].url = request[c].url
      /\ request'[c].body = n
  BY <1>1 DEF FETypes, Typed, Request
<1>6. n = LengthOf(s) \/ (n = 0 /\ LengthOf(s) = Absent)
  BY <1>4
<1> HIDE DEF s, u, n
<1>7. n \in Nat /\ n <= MaxBody /\ n <= Len(u)
  <2>1. MaxBody \in Int /\ Len(u) \in Int
    BY <1>3, BodyLimit
  <2>2. Min({MaxBody, Len(u)}) = IF MaxBody <= Len(u) THEN MaxBody ELSE Len(u)
    BY <2>1, MinOfTwo
  <2> QED
    BY <1>1, <2>1, <2>2
<1>8. Whole(s) /\ LengthOf(s) \in -1 .. MaxBody
  BY <1>3, <1>6, <1>7, WholeIf, BodyLimit DEF Absent
<1>9. n = Max({0, LengthOf(s)})
  <2>1. 0 \in Int /\ LengthOf(s) \in Int
    BY <1>8
  <2>2. Max({0, LengthOf(s)}) = IF 0 <= LengthOf(s) THEN LengthOf(s) ELSE 0
    BY <2>1, MaxOfTwo
  <2> QED
    BY <1>6, <1>7, <2>2 DEF Absent
<1>10. AllRead(s, request'[c])
  BY <1>3, <1>5, <1>8, <1>9 DEF AllRead, BodyNext
<1>11. /\ input'[c].end = sent[c].end
       /\ \A d \in Client \ {c} : input'[d] = input[d]
  <2>1. n \in 0 .. Len(Unread(c))
    BY <1>3, <1>7 DEF u
  <2> QED
    BY <1>1, <2>1, SkipProgress
<1>12. Progress(c)'
  BY <1>1, <1>2, <1>10, <1>11, ConstantParts DEF Progress, Leaving, s
<1> QED
  BY <1>1, <1>2, <1>11, <1>12, OthersProgress

LEMMA UnmatchedProgress ==
    ASSUME FETypes, ReadInv, NEW c \in Client, Unmatched(c)
    PROVE  ReadInv'
<1> DEFINE s == sent[c].tokens
<1>1. /\ UNCHANGED <<targets, sent, input, request, target>> /\ Close(c, "502")
      /\ stage[c] = "routing"
  BY DEF Unmatched, poolVars
<1>2. AllRead(s, request[c])
  BY <1>1 DEF ReadInv, Progress
<1>3. Matching(s) = {}
  BY <1>2 DEF Unmatched, Matches, Matching, AllRead
<1>4. "502" \in MayGet(c)
  BY <1>2, <1>3, DueRead DEF MayGet
<1> QED
  BY <1>1, <1>4, CloseProgress

LEMMA SubmitProgress ==
    ASSUME FETypes, ReadInv, NEW c \in Client, Submit(c)
    PROVE  ReadInv'
<1> DEFINE s == sent[c].tokens
<1>1. /\ UNCHANGED <<targets, sent, input, request>>
      /\ stage[c] = "routing"
      /\ Goto(c, IF IsConnect(c) THEN "connecting" ELSE "waiting")
  BY DEF Submit, poolVars
<1>2. AllRead(s, request[c])
  BY <1>1 DEF ReadInv, Progress
<1>3. PICK i \in DOMAIN targets : /\ Matches(i, c)
                                  /\ \A j \in 1 .. i - 1 : ~Matches(j, c)
                                  /\ target' = [target EXCEPT ![c] = i]
  BY DEF Submit
<1>4. \A j \in DOMAIN targets : Matches(j, c) <=> j \in Matching(s)
  BY <1>2 DEF Matches, Matching, AllRead
<1>5. Matching(s) \in SUBSET (1 .. Len(targets)) /\ i \in 1 .. Len(targets)
  BY GivenFacts DEF FETypes, Matching
<1>6. i = Min(Matching(s)) /\ Matching(s) # {}
  <2>1. i \in Matching(s) /\ Matching(s) \in SUBSET Int
    BY <1>3, <1>4, <1>5
  <2>2. \A j \in Matching(s) : i <= j
    BY <1>3, <1>4, <1>5
  <2> QED
    BY <2>1, <2>2, MinIs
<1>7. /\ target'[c] = i /\ i # 0
      /\ \A d \in Client \ {c} : target'[d] = target[d]
  BY <1>3, <1>5 DEF FETypes, Typed
<1>8. UNCHANGED answer /\ \A d \in Client \ {c} : stage'[d] = stage[d]
  BY <1>1 DEF Goto, FETypes, Typed
<1>9. stage'[c] = IF IsConnect(c) THEN "connecting" ELSE "waiting"
  BY <1>1 DEF Goto, FETypes, Typed
<1>10. IsConnect(c)' <=> IsConnect(c)
  BY <1>1 DEF IsConnect
<1>11. input[c].end = sent[c].end
  BY DEF ReadInv, Progress
<1> HIDE DEF s
<1>12. Progress(c)'
  BY <1>1, <1>2, <1>6, <1>7, <1>9, <1>10, <1>11, ConstantParts DEF Progress, Leaving, s
<1> QED
  BY <1>1, <1>7, <1>8, <1>12, OthersProgress

LEMMA UsesProgress ==
    ASSUME FETypes, ReadInv, NEW c \in Client,
           TimesOut(c) \/ Expires(c) \/ UseEnds(c) \/ DialFails(c) \/ ConfirmFails(c)
    PROVE  ReadInv'
<1>1. UNCHANGED <<targets, sent, input, request, target>>
  BY DEF TimesOut, Expires, UseEnds, DialFails, ConfirmFails, poolVars
<1>2. \/ UNCHANGED <<stage, answer>>
      \/ \E reply \in MayGet(c) : Close(c, reply) \/ Answers(c, reply, "draining")
  <2>1. stage[c] \in {"waiting", "connecting"} =>
           {IF IsConnect(c) THEN "200" ELSE "response", "none", "502", "504"} \subseteq MayGet(c)
    BY DueSubmitted DEF ReadInv, Progress
  <2>2. CASE TimesOut(c) \/ Expires(c) \/ DialFails(c)
    BY <2>1, <2>2 DEF TimesOut, Expires, DialFails, Reply
  <2>3. CASE UseEnds(c)
    BY <2>1, <2>3 DEF UseEnds, Reply, Close
  <2>4. CASE ConfirmFails(c)
    BY <2>1, <2>4 DEF ConfirmFails, FETypes, Served
  <2> QED
    BY <2>2, <2>3, <2>4
<1>3. CASE UNCHANGED <<stage, answer>>
  BY <1>1, <1>3, ProgressKept DEF ReadInv
<1> QED
  BY <1>1, <1>2, <1>3, CloseProgress

LEMMA DialSucceedsProgress ==
    ASSUME FETypes, ReadInv, NEW c \in Client, DialSucceeds(c)
    PROVE  ReadInv'
<1>1. UNCHANGED <<targets, sent, input, request, target>> /\ stage[c] = "connecting"
  BY DEF DialSucceeds, poolVars
<1>2. /\ stage'[c] = "relaying" /\ answer'[c] = "200"
      /\ \A d \in Client \ {c} : stage'[d] = stage[d] /\ answer'[d] = answer[d]
  BY DEF DialSucceeds, FETypes, Typed
<1>3. Progress(c)'
  BY <1>1, <1>2, ConstantParts DEF ReadInv, Progress, Leaving, Unread
<1> QED
  BY <1>1, <1>2, <1>3, OthersProgress

LEMMA ReadInvInit == FEInit => ReadInv
<1> SUFFICES ASSUME FEInit, NEW c \in Client PROVE Progress(c)
  BY DEF ReadInv
<1>1. input = sent /\ stage[c] = "line" /\ target[c] = 0 /\ request[c].length = Absent
  BY DEF FEInit, NoRequest
<1>2. Len(sent[c].tokens) \in Nat
  BY Texts, FETypesInit
<1>3. Unread(c) = sent[c].tokens
  BY <1>1 DEF Unread
<1>4. Rest(Unread(c), sent[c].tokens)
  BY <1>2, <1>3 DEF Rest
<1> QED
  BY <1>1, <1>3, <1>4 DEF Progress, Leaving

LEMMA ReadInvNext == FETypes /\ ReadInv /\ [FENext]_feVars => ReadInv'
<1> SUFFICES ASSUME FETypes, ReadInv, [FENext]_feVars PROVE ReadInv'
  OBVIOUS
<1>1. CASE UNCHANGED <<targets, clientVars>>
  <2>1. UNCHANGED <<targets, sent, input, stage, request, target, answer>>
    BY <1>1 DEF clientVars
  <2> QED
    BY <2>1, ProgressKept DEF ReadInv
<1>2. ASSUME NEW c \in Client,
             \/ ReadLine(c) \/ ReadHeader(c) \/ HeadersEnd(c) \/ Broken(c)
             \/ Refused(c) \/ ReadBody(c) \/ Unmatched(c) \/ Submit(c)
      PROVE  ReadInv'
  BY <1>2, ReadLineProgress, ReadHeaderProgress, HeadersEndProgress, BrokenProgress,
     RefusedProgress, ReadBodyProgress, UnmatchedProgress, SubmitProgress
<1>3. ASSUME NEW c \in Client,
             \/ TimesOut(c) \/ Expires(c) \/ UseEnds(c) \/ DialFails(c) \/ ConfirmFails(c)
             \/ TunnelCloses(c) \/ DialSucceeds(c) \/ Flushed(c) \/ WaitClosed(c)
      PROVE  ReadInv'
  BY <1>3, UsesProgress, DialSucceedsProgress, LeavesProgress
<1>4. ASSUME NEW c \in Client, GetsAddress(c) \/ Rested(c)
      PROVE  ReadInv'
  <2>1. UNCHANGED <<targets, sent, input, stage, request, target, answer>>
    BY <1>4 DEF GetsAddress, Rested, Take, Return
  <2> QED
    BY <2>1, ProgressKept DEF ReadInv
<1>5. StartManager => UNCHANGED targets
  BY DEF StartManager
<1> QED
  BY <1>1, <1>2, <1>3, <1>4, <1>5, FrontEndStepKinds DEF poolVars

\* A request goes to a target only when its line, its headers and the whole
\* of the body its last content-length declares have been read, and then to
\* the first target that matches; every other client gets the refusal that
\* is due for its text, or nothing: FrontEnd.RefusedOrWhole, for every text.
THEOREM RefusedOrWholeAlways == FESpec => []RefusedOrWhole
<1>1. FEInit => FETypes /\ ReadInv
  BY FETypesInit, ReadInvInit
<1>2. FETypes /\ ReadInv /\ [FENext]_feVars => FETypes' /\ ReadInv'
  BY FETypesNext, ReadInvNext
<1> QED
  BY <1>1, <1>2, ProgressWhole, PTL DEF FESpec

----------------------------------------------------------------------------
(* How often an address is in a queue. *)

LEMMA TimesType ==
    ASSUME NEW S, NEW s \in Seq(S), NEW x
    PROVE  /\ IsFiniteSet({n \in DOMAIN s : s[n] = x})
           /\ Times(x, s) \in Nat
<1>1. DOMAIN s = 1 .. Len(s) /\ Len(s) \in Nat
  BY LenProperties
<1>2. IsFiniteSet(DOMAIN s)
  BY <1>1, FS_Interval
<1>3. IsFiniteSet({n \in DOMAIN s : s[n] = x})
  BY <1>2, FS_Subset
<1> QED
  BY <1>3, FS_CardinalityType DEF Times

LEMMA TimesAppend ==
    ASSUME NEW S, NEW s \in Seq(S), NEW y \in S, NEW x
    PROVE  Times(x, Append(s, y)) = Times(x, s) + IF x = y THEN 1 ELSE 0
<1> DEFINE at == {n \in DOMAIN s : s[n] = x}
           after == {n \in DOMAIN Append(s, y) : Append(s, y)[n] = x}
           last == Len(s) + 1
<1>1. /\ DOMAIN s = 1 .. Len(s)
      /\ DOMAIN Append(s, y) = 1 .. last
      /\ Len(s) \in Nat
      /\ \A n \in 1 .. Len(s) : Append(s, y)[n] = s[n]
      /\ Append(s, y)[last] = y
  BY LenProperties, AppendProperties
<1>2. last \notin at
  BY <1>1
<1>3. IsFiniteSet(at) /\ Cardinality(at) \in Nat
  BY TimesType DEF Times
<1>4. CASE x = y
  <2>1. after = at \cup {last}
    BY <1>1, <1>4
  <2> HIDE DEF at, after, last
  <2>2. Cardinality(after) = Cardinality(at) + 1
    BY <1>2, <1>3, <2>1, FS_AddElement
  <2> QED
    BY <1>4, <2>2 DEF Times, at, after
<1>5. CASE x # y
  <2>1. after = at
    BY <1>1, <1>5
  <2> HIDE DEF at, after, last
  <2>2. Cardinality(after) = Cardinality(at) + 0
    BY <1>2, <1>3, <2>1
  <2> QED
    BY <1>5, <2>2 DEF Times, at, after
<1> QED
  BY <1>4, <1>5

LEMMA TimesTail ==
    ASSUME NEW S, NEW s \in Seq(S), s # <<>>, NEW x
    PROVE  Times(x, s) = Times(x, Tail(s)) + IF x = Head(s) THEN 1 ELSE 0
<1> DEFINE at == {n \in DOMAIN s : s[n] = x}
           rest == at \ {1}
           after == {n \in DOMAIN Tail(s) : Tail(s)[n] = x}
           f == [n \in after |-> n + 1]
<1>1. /\ DOMAIN s = 1 .. Len(s)
      /\ Len(s) \in Nat \ {0}
      /\ DOMAIN Tail(s) = 1 .. Len(s) - 1
      /\ \A n \in 1 .. Len(s) - 1 : Tail(s)[n] = s[n + 1]
      /\ Head(s) = s[1]
      /\ Tail(s) \in Seq(S)
  BY LenProperties, EmptySeq, HeadTailProperties
<1>2. IsFiniteSet(at) /\ IsFiniteSet(after)
  BY <1>1, TimesType
<1>3. ExistsBijection(after, rest)
  <2>1. \A n \in after : f[n] \in rest
    BY <1>1
  <2>2. \A m, n \in after : f[m] = f[n] => m = n
    BY <1>1
  <2>3. \A m \in rest : \E n \in after : f[n] = m
    <3> SUFFICES ASSUME NEW m \in rest PROVE m - 1 \in after /\ f[m - 1] = m
      OBVIOUS
    <3>1. m \in 2 .. Len(s) /\ s[m] = x
      BY <1>1
    <3> QED
      BY <1>1, <3>1
  <2>4. f \in [after -> rest]
    BY <2>1
  <2> HIDE DEF f, after, rest
  <2> QED
    <3>1. f \in Injection(after, rest)
      BY <2>2, <2>4 DEF Injection, IsInjective
    <3>2. f \in Surjection(after, rest)
      BY <2>3, <2>4 DEF Surjection
    <3> QED
      BY <3>1, <3>2 DEF ExistsBijection, Bijection
<1>4. Cardinality(rest) = Cardinality(after) /\ Cardinality(after) \in Nat
  BY <1>2, <1>3, FS_Bijection, FS_CardinalityType
<1>5. 1 \in at <=> x = Head(s)
  BY <1>1
<1> HIDE DEF at, after
<1>6. Cardinality(at) = Cardinality(rest) + IF x = Head(s) THEN 1 ELSE 0
  <2>1. Cardinality(at) \in Nat
    BY <1>2, FS_CardinalityType
  <2>2. Cardinality(rest) = IF 1 \in at THEN Cardinality(at) - 1 ELSE Cardinality(at)
    BY <1>2, FS_RemoveElement
  <2> QED
    BY <1>5, <2>1, <2>2
<1> QED
  BY <1>4, <1>6 DEF Times, at, after

----------------------------------------------------------------------------
(* The pools.  Every queue has a first target of its name, whose list it    *)
(* has, less the addresses that are out.                                    *)

Users(name, a) == {c \in Client : address[c] = a /\ Key(target[c]) = name}

SeededBy(i, name) ==
    /\ i \in DOMAIN targets /\ Key(i) = name
    /\ \A j \in 1 .. i - 1 : Key(j) # name

Balanced(name, a, i) ==
    Times(a, queues[name]) + Cardinality(Users(name, a)) = Times(a, targets[i].addresses)

PoolsInv ==
    \A name \in DOMAIN queues :
       \E i \in DOMAIN targets : SeededBy(i, name) /\ \A a \in Address : Balanced(name, a, i)

LEMMA PoolsInvKept == FETypes /\ PoolsInv => PoolsKept
<1> SUFFICES ASSUME FETypes, PoolsInv, NEW i \in DOMAIN targets, i <= started, NameIsUnique(i),
                    NEW a \in Address
             PROVE  Times(a, queues[Key(i)])
                      + Cardinality({c \in Client : address[c] = a /\ target[c] = i})
                    = Times(a, targets[i].addresses)
  BY DEF PoolsKept, OwnRotation, Address
<1>1. Key(i) \in DOMAIN queues
  BY GivenFacts DEF FETypes, Typed, Served
<1>2. PICK j \in DOMAIN targets : SeededBy(j, Key(i)) /\ Balanced(Key(i), a, j)
  BY <1>1 DEF PoolsInv
<1>3. j = i
  BY <1>2 DEF SeededBy, NameIsUnique
<1>4. Users(Key(i), a) = {c \in Client : address[c] = a /\ target[c] = i}
  <2>1. ASSUME NEW c \in Client, address[c] = a
        PROVE  Key(target[c]) = Key(i) <=> target[c] = i
    <3>1. work[c] # "none"
      BY <2>1, GivenFacts DEF FETypes, Served
    <3>2. target[c] \in DOMAIN targets
      BY <3>1, PoolThere
    <3> QED
      BY <3>2 DEF NameIsUnique
  <2> QED
    BY <2>1 DEF Users
<1> QED
  BY <1>2, <1>3, <1>4 DEF Balanced

LEMMA UsersFinite ==
    ASSUME NEW name, NEW a
    PROVE  IsFiniteSet(Users(name, a)) /\ Cardinality(Users(name, a)) \in Nat
<1>1. Users(name, a) \subseteq Client
  BY DEF Users
<1>2. IsFiniteSet(Users(name, a))
  BY <1>1, FrontEndAssumption, FS_Subset
<1> QED
  BY <1>2, FS_CardinalityType

\* who has an address has it from the pool of his target, and keeps both
LEMMA SameUsers ==
    ASSUME FETypes, UNCHANGED <<targets, address>>,
           \A c \in Client : address[c] # "none" => target'[c] = target[c],
           NEW name, NEW a \in Address
    PROVE  Users(name, a)' = Users(name, a)
<1>1. a # "none"
  BY GivenFacts DEF FETypes
<1> QED
  BY <1>1 DEF Users, Key

\* a step that leaves the queues and the addresses as they are
LEMMA PoolsAlone ==
    ASSUME FETypes, PoolsInv, UNCHANGED <<targets, queues, address>>,
           \A c \in Client : address[c] # "none" => target'[c] = target[c]
    PROVE  PoolsInv'
<1> SUFFICES ASSUME NEW name \in DOMAIN queues
             PROVE  \E i \in DOMAIN targets :
                       SeededBy(i, name)' /\ \A a \in Address : Balanced(name, a, i)'
  BY GivenKept DEF PoolsInv, Address
<1>1. PICK i \in DOMAIN targets : SeededBy(i, name) /\ \A a \in Address : Balanced(name, a, i)
  BY DEF PoolsInv
<1>2. SeededBy(i, name)'
  BY <1>1 DEF SeededBy, Key
<1>3. ASSUME NEW a \in Address PROVE Balanced(name, a, i)'
  BY <1>1, SameUsers DEF Balanced
<1> QED
  BY <1>2, <1>3

\* nobody has an address before all managers have started
LEMMA StartManagerPools ==
    ASSUME FETypes, PoolsInv, StartManager, UNCHANGED <<clientVars, relayVars>>
    PROVE  PoolsInv'
<1>0. PICK n \in DOMAIN targets : n = started + 1
  BY StartsPool
<1>1. /\ ~Serving
      /\ DOMAIN queues' = DOMAIN queues \cup {Key(n)}
      /\ \A name \in DOMAIN queues : queues'[name] = queues[name]
      /\ Key(n) \notin DOMAIN queues => queues'[Key(n)] = targets[n].addresses
  BY <1>0, StartsPool
<1>2. UNCHANGED <<targets, address, target>>
  BY DEF StartManager, clientVars
<1>3. Address' = Address
  BY <1>2, GivenKept DEF Address
<1>4. SUFFICES ASSUME NEW name \in DOMAIN queues'
               PROVE  \E i \in DOMAIN targets :
                         SeededBy(i, name)' /\ \A a \in Address : Balanced(name, a, i)'
  BY <1>2, <1>3 DEF PoolsInv
<1>5. CASE name \in DOMAIN queues
  <2>1. PICK i \in DOMAIN targets :
                SeededBy(i, name) /\ \A a \in Address : Balanced(name, a, i)
    BY <1>5 DEF PoolsInv
  <2>2. SeededBy(i, name)'
    BY <1>2, <2>1 DEF SeededBy, Key
  <2>3. queues'[name] = queues[name]
    BY <1>1, <1>5
  <2>4. ASSUME NEW a \in Address PROVE Balanced(name, a, i)'
    BY <1>2, <2>1, <2>3, SameUsers DEF Balanced
  <2> QED
    BY <2>2, <2>4
<1>6. CASE name \notin DOMAIN queues
  <2>1. name = Key(n) /\ Key(n) \notin DOMAIN queues
    BY <1>1, <1>4, <1>6
  <2>2. \A j \in 1 .. n - 1 : Key(j) # name
    <3>1. started \in Nat
      BY GivenFacts DEF FETypes, Typed
    <3>2. 1 .. n - 1 = 1 .. started
      BY <1>0, <3>1
    <3> QED
      BY <2>1, <3>2 DEF FETypes, Served
  <2>3. SeededBy(n, name)'
    BY <1>2, <2>1, <2>2 DEF SeededBy, Key
  <2>4. ASSUME NEW a \in Address PROVE Balanced(name, a, n)'
    <3>1. Users(name, a) = {}
      BY <1>1, GivenFacts DEF Users, FETypes, Served
    <3>2. Cardinality(Users(name, a)') = 0
      BY <1>2, <3>1, SameUsers, FS_EmptySet
    <3>3. queues'[name] = targets[n].addresses
      BY <1>1, <2>1
    <3>4. targets[n].addresses \in Seq(Address)
      BY GivenFacts DEF FETypes
    <3>5. Times(a, targets[n].addresses) \in Nat
      BY <3>4, TimesType
    <3>6. Times(a, queues'[name]) + Cardinality(Users(name, a)')
            = Times(a, targets[n].addresses)
      BY <3>2, <3>3, <3>5
    <3> QED
      BY <1>2, <3>6 DEF Balanced
  <2> QED
    BY <2>3, <2>4
<1> QED
  BY <1>5, <1>6

\* an address moves from the head of its queue to a user
LEMMA GetsAddressPools ==
    ASSUME FETypes, PoolsInv, NEW c \in Client, GetsAddress(c)
    PROVE  PoolsInv'
<1>0. PICK k, b : k = Key(target[c]) /\ b = Head(queues[k])
  OBVIOUS
<1>1. /\ UNCHANGED <<targets, target>>
      /\ work[c] = "queued" /\ queues[k] # <<>>
      /\ queues' = [queues EXCEPT ![k] = Tail(@)]
      /\ address' = [address EXCEPT ![c] = b]
  BY <1>0 DEF GetsAddress, Take
<1>2. k \in DOMAIN queues /\ queues[k] \in Seq(Address)
  BY <1>0, <1>1, PoolThere
<1>3. address[c] = "none" /\ b \in Address
  BY <1>0, <1>1, <1>2, HeadTailProperties DEF FETypes, Served
<1>4. /\ DOMAIN queues' = DOMAIN queues /\ queues'[k] = Tail(queues[k])
      /\ \A name \in DOMAIN queues \ {k} : queues'[name] = queues[name]
      /\ address'[c] = b /\ \A d \in Client \ {c} : address'[d] = address[d]
  BY <1>1, <1>2 DEF FETypes, Typed
<1>5. \A i : Key(i)' = Key(i)
  BY <1>1 DEF Key
<1>6. ASSUME NEW name \in DOMAIN queues, NEW a \in Address, NEW i \in DOMAIN targets,
             Balanced(name, a, i)
      PROVE  Balanced(name, a, i)'
  <2>1. a # "none"
    BY GivenFacts DEF FETypes
  <2>2. CASE name = k /\ a = b
    <3>1. Users(name, a)' = Users(name, a) \cup {c} /\ c \notin Users(name, a)
      BY <1>0, <1>1, <1>3, <1>4, <1>5, <2>1, <2>2 DEF Users
    <3>2. Cardinality(Users(name, a)') = Cardinality(Users(name, a)) + 1
      BY <3>1, UsersFinite, FS_AddElement
    <3>3. Times(a, queues[name]) = Times(a, Tail(queues[name])) + 1
      BY <1>0, <1>1, <1>2, <2>2, TimesTail
    <3>4. Times(a, Tail(queues[name])) \in Nat
      BY <1>1, <1>2, <2>2, HeadTailProperties, TimesType
    <3>5. Cardinality(Users(name, a)) \in Nat
      BY UsersFinite
    <3>6. Times(a, queues'[name]) + Cardinality(Users(name, a)') = Times(a, targets[i].addresses)
      <4>1. queues'[name] = Tail(queues[name])
        BY <1>4, <2>2
      <4>2. Times(a, queues[name]) + Cardinality(Users(name, a)) = Times(a, targets[i].addresses)
        BY <1>6 DEF Balanced
      <4> QED
        BY <4>1, <4>2, <3>2, <3>3, <3>4, <3>5
    <3> QED
      BY <1>1, <3>6 DEF Balanced
  <2>3. CASE ~(name = k /\ a = b)
    <3>1. Users(name, a)' = Users(name, a)
      BY <1>0, <1>1, <1>3, <1>4, <1>5, <2>1, <2>3 DEF Users
    <3>2. Times(a, queues'[name]) = Times(a, queues[name])
      <4>1. CASE name # k
        BY <1>4, <4>1
      <4>2. CASE name = k
        <5>1. Times(a, queues[k]) = Times(a, Tail(queues[k])) + 0
          BY <1>0, <1>1, <1>2, <2>3, <4>2, TimesTail
        <5>2. Times(a, Tail(queues[k])) \in Nat
          BY <1>1, <1>2, HeadTailProperties, TimesType
        <5>3. queues'[name] = Tail(queues[k]) /\ queues[name] = queues[k]
          BY <1>4, <4>2
        <5> QED
          BY <5>1, <5>2, <5>3
      <4> QED
        BY <4>1, <4>2
    <3> QED
      BY <1>1, <1>6, <3>1, <3>2 DEF Balanced
  <2> QED
    BY <2>2, <2>3
<1>7. Address' = Address
  BY <1>1, GivenKept DEF Address
<1>8. ASSUME NEW name \in DOMAIN queues
      PROVE  \E i \in DOMAIN targets :
                SeededBy(i, name)' /\ \A a \in Address : Balanced(name, a, i)'
  <2>1. PICK i \in DOMAIN targets :
                SeededBy(i, name) /\ \A a \in Address : Balanced(name, a, i)
    BY DEF PoolsInv
  <2>2. SeededBy(i, name)'
    BY <1>1, <1>5, <2>1 DEF SeededBy
  <2> QED
    BY <1>6, <2>1, <2>2
<1> QED
  BY <1>1, <1>4, <1>7, <1>8 DEF PoolsInv

\* and back to the end of it
LEMMA RestedPools ==
    ASSUME FETypes, PoolsInv, NEW c \in Client, Rested(c)
    PROVE  PoolsInv'
<1>0. PICK k, b : k = Key(target[c]) /\ b = address[c]
  OBVIOUS
<1>1. /\ UNCHANGED <<targets, target>>
      /\ work[c] = "resting"
      /\ queues' = [queues EXCEPT ![k] = Append(@, b)]
      /\ address' = [address EXCEPT ![c] = "none"]
  BY <1>0 DEF Rested, Return
<1>2. k \in DOMAIN queues /\ queues[k] \in Seq(Address)
  BY <1>0, <1>1, PoolThere
<1>3. b \in Address
  BY <1>0, <1>1 DEF FETypes, Served, Typed
<1>4. /\ DOMAIN queues' = DOMAIN queues /\ queues'[k] = Append(queues[k], b)
      /\ \A name \in DOMAIN queues \ {k} : queues'[name] = queues[name]
      /\ address'[c] = "none" /\ \A d \in Client \ {c} : address'[d] = address[d]
  BY <1>1, <1>2 DEF FETypes, Typed
<1>5. \A i : Key(i)' = Key(i)
  BY <1>1 DEF Key
<1>6. ASSUME NEW name \in DOMAIN queues, NEW a \in Address, NEW i \in DOMAIN targets,
             Balanced(name, a, i)
      PROVE  Balanced(name, a, i)'
  <2>1. a # "none"
    BY GivenFacts DEF FETypes
  <2>2. CASE name = k /\ a = b
    <3>1. Users(name, a)' = Users(name, a) \ {c} /\ c \in Users(name, a)
      BY <1>0, <1>1, <1>4, <1>5, <2>1, <2>2 DEF Users
    <3>2. Cardinality(Users(name, a)') = Cardinality(Users(name, a)) - 1
      BY <3>1, UsersFinite, FS_RemoveElement
    <3>3. Times(a, Append(queues[name], b)) = Times(a, queues[name]) + 1
      BY <1>2, <1>3, <2>2, TimesAppend
    <3>4. Times(a, queues[name]) \in Nat
      BY <1>2, <2>2, TimesType
    <3>5. Cardinality(Users(name, a)) \in Nat
      BY UsersFinite
    <3>6. Times(a, queues'[name]) + Cardinality(Users(name, a)') = Times(a, targets[i].addresses)
      <4>1. queues'[name] = Append(queues[name], b)
        BY <1>4, <2>2
      <4>2. Times(a, queues[name]) + Cardinality(Users(name, a)) = Times(a, targets[i].addresses)
        BY <1>6 DEF Balanced
      <4> QED
        BY <4>1, <4>2, <3>2, <3>3, <3>4, <3>5
    <3> QED
      BY <1>1, <3>6 DEF Balanced
  <2>3. CASE ~(name = k /\ a = b)
    <3>1. Users(name, a)' = Users(name, a)
      BY <1>0, <1>1, <1>4, <1>5, <2>1, <2>3 DEF Users
    <3>2. Times(a, queues'[name]) = Times(a, queues[name])
      <4>1. CASE name # k
        BY <1>4, <4>1
      <4>2. CASE name = k
        <5>1. Times(a, Append(queues[k], b)) = Times(a, queues[k]) + 0
          BY <1>2, <1>3, <2>3, <4>2, TimesAppend
        <5>2. Times(a, queues[k]) \in Nat
          BY <1>2, TimesType
        <5>3. queues'[name] = Append(queues[k], b) /\ queues[name] = queues[k]
          BY <1>4, <4>2
        <5> QED
          BY <5>1, <5>2, <5>3
      <4> QED
        BY <4>1, <4>2
    <3> QED
      BY <1>1, <1>6, <3>1, <3>2 DEF Balanced
  <2> QED
    BY <2>2, <2>3
<1>7. Address' = Address
  BY <1>1, GivenKept DEF Address
<1>8. ASSUME NEW name \in DOMAIN queues
      PROVE  \E i \in DOMAIN targets :
                SeededBy(i, name)' /\ \A a \in Address : Balanced(name, a, i)'
  <2>1. PICK i \in DOMAIN targets :
                SeededBy(i, name) /\ \A a \in Address : Balanced(name, a, i)
    BY DEF PoolsInv
  <2>2. SeededBy(i, name)'
    BY <1>1, <1>5, <2>1 DEF SeededBy
  <2> QED
    BY <1>6, <2>1, <2>2
<1> QED
  BY <1>1, <1>4, <1>7, <1>8 DEF PoolsInv

LEMMA PoolsInvInit == FEInit => PoolsInv
<1>1. FEInit => DOMAIN queues = {}
  BY DEF FEInit, TargetPoolsInit
<1> QED
  BY <1>1 DEF PoolsInv

LEMMA PoolsInvNext == FETypes /\ PoolsInv /\ [FENext]_feVars => PoolsInv'
<1> SUFFICES ASSUME FETypes, PoolsInv, [FENext]_feVars PROVE PoolsInv'
  OBVIOUS
<1>1. CASE UNCHANGED <<poolVars, clientVars>>
  BY <1>1, PoolsAlone DEF poolVars, clientVars
<1>2. ASSUME NEW c \in Client,
             \/ ReadLine(c) \/ ReadHeader(c) \/ HeadersEnd(c) \/ Broken(c)
             \/ Refused(c) \/ ReadBody(c) \/ Unmatched(c) \/ TimesOut(c)
             \/ Flushed(c) \/ WaitClosed(c)
      PROVE  PoolsInv'
  <2>1. UNCHANGED <<targets, queues, address, target>>
    BY <1>2 DEF ReadLine, ReadHeader, HeadersEnd, Broken, Refused, ReadBody, Unmatched, TimesOut,
                Flushed, WaitClosed, poolVars
  <2> QED
    BY <2>1, PoolsAlone
<1>3. ASSUME NEW c \in Client,
             \/ Expires(c) \/ UseEnds(c) \/ DialFails(c) \/ ConfirmFails(c)
             \/ TunnelCloses(c) \/ DialSucceeds(c)
      PROVE  PoolsInv'
  <2>1. UNCHANGED <<targets, queues, address, target>>
    BY <1>3 DEF Expires, UseEnds, DialFails, ConfirmFails, TunnelCloses, DialSucceeds, poolVars
  <2> QED
    BY <2>1, PoolsAlone
<1>4. ASSUME NEW c \in Client, Submit(c) PROVE PoolsInv'
  <2>1. UNCHANGED <<targets, queues, address>> /\ \A d \in Client \ {c} : target'[d] = target[d]
    BY <1>4 DEF Submit, poolVars, FETypes, Typed
  <2>2. address[c] = "none"
    BY <1>4 DEF Submit, FETypes, Served, Early
  <2> QED
    BY <2>1, <2>2, PoolsAlone
<1> QED
  BY <1>1, <1>2, <1>3, <1>4, GetsAddressPools, RestedPools, StartManagerPools, FrontEndStepKinds

\* The list of a target whose name no other target has is, entry for entry,
\* in its queue or with its own requests: FrontEnd.PoolsKept, for any
\* targets, also when other targets share a name or the same addresses, and
\* when a list names an address twice.
THEOREM PoolsKeptAlways == FESpec => []PoolsKept
<1>1. FEInit => FETypes /\ PoolsInv
  BY FETypesInit, PoolsInvInit
<1>2. FETypes /\ PoolsInv /\ [FENext]_feVars => FETypes' /\ PoolsInv'
  BY FETypesNext, PoolsInvNext
<1> QED
  BY <1>1, <1>2, PoolsInvKept, PTL DEF FESpec
=============================================================================
