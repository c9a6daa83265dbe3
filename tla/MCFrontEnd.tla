----------------------------- MODULE MCFrontEnd -----------------------------
(* Scenarios for TLC.  One client sends anything, to two plain targets; or *)
(* two clients send plain requests, to targets of all sorts.               *)
EXTENDS FrontEnd

CONSTANTS c1, c2

Line(m, u) == [kind |-> "line", method |-> m, url |-> u]
Token(k) == [kind |-> k]
Length(n) == [kind |-> "length", value |-> n]

Connect == Line("CONNECT", "v")
Lines == {Line("GET", "u"), Line("GET", "nowhere"), Connect, Token("malformed")}
Headers == {Length(n) : n \in {NotANumber, Negative, Absent} \cup 0 .. MaxBody + 1}
           \cup {Token("other"), Token("long")}
Bytes(n) == [k \in 1 .. n |-> Token("byte")]

Heads == {<<>>} \cup {<<l>> \o h : l \in Lines \ {Connect}, h \in BoundedSeq(Headers, 2)}
                \cup {<<Connect, h>> : h \in Headers}
Texts == Heads \cup {h \o <<Token("blank")>> \o Bytes(n) :
                       h \in Heads \ {<<>>}, n \in 0 .. MaxBody + 1}

Input(text, end) == [tokens |-> text, end |-> end]
Plain(line) == Input(<<line, Token("blank")>>, "open")

Target(name, addresses, matches) ==
    [name |-> name, addresses |-> addresses, matches |-> matches]

TwoPlain == <<Target("t", <<"a">>, {"u"}), Target("s", <<"b">>, {"u", "v"})>>

\* targets that share an address, and a list that names one twice
Sorts ==
    {TwoPlain,
     <<Target("t", <<"a", "b">>, {"u"}), Target("s", <<"b">>, {"v"})>>,
     <<Target("t", <<"a", "a">>, {"u"}), Target("s", <<"a", "b">>, {"v"}),
       Target("r", <<"b">>, {"u", "v"})>>}

\* targets that share a name
SameName ==
    <<Target("t", <<"a">>, {"u"}), Target("t", <<"b">>, {"v"}), Target("s", <<"b">>, {"u"})>>

MCScenarios ==
    {[targets |-> TwoPlain, input |-> c1 :> Input(text, end) @@ c2 :> Input(<<>>, "eof")] :
       text \in Texts, end \in {"open", "eof", "reset"}}
    \cup {[targets |-> ts, input |-> c1 :> Plain(k) @@ c2 :> Plain(l)] :
            ts \in Sorts, k \in Lines, l \in Lines \ {Connect}}

MCSameName ==
    {[targets |-> SameName, input |-> c1 :> Plain(k) @@ c2 :> Plain(l)] :
       k \in Lines, l \in Lines}
=============================================================================
