----------------------------- MODULE MCRunLoop -----------------------------
(* Configurations for TLC.  The targets vary with the settings fixed, and  *)
(* the settings with the targets fixed: neither depends on the other.      *)
EXTENDS RunLoop

MCDefault == [backend |-> "memory", probe |-> FALSE, probe_urls |-> <<"probe_url">>,
              redis_url |-> "default_url"]

Pool(name, ips) == [name |-> name, ips |-> ips]
A == [host |-> "a", port |-> 0]
B == [host |-> "b", port |-> 3128]
C == [host |-> "c", port |-> BadPort]
Raw == << <<"name", "t">>, <<"regex", ".*">> >>
Dur(n, unit) == [n |-> n, unit |-> unit]

PoolLists == {<<>>, <<Pool("p", <<A>>)>>, <<Pool("p", <<A>>), Pool("p", <<A, B>>)>>,
              <<Pool("q", <<>>)>>}

(* Good and bad targets, and keys given twice in two spellings. *)
RawTargets ==
  {Raw \o << <<"ipPool", "p">>, <<"maxQueueWait", Dur(2, "m")>> >>,
   Raw \o << <<"ipList", <<A, B>> >>, <<"defaultProxyPort", 3128>>, <<"numRetries", 0>> >>,
   Raw \o << <<"ipList", <<A, C>> >> >>,
   Raw \o << <<"ipPool", "p">>, <<"ipList", <<A>> >> >>,
   Raw \o << <<"ip_list", <<A>> >>, <<"ipPool", "p">> >>,
   Raw,
   Raw \o << <<"ipList", <<>> >> >>,
   Raw \o << <<"ipList", <<>> >>, <<"ip_list", <<B>> >> >>,
   Raw \o << <<"ipList", <<A>> >>, <<"quarantineTime", Dur(500, "ms")>> >>,
   Raw \o << <<"ipList", <<A>> >>, <<"maxQueueWait", Dur(500, "ms")>>,
             <<"maxRequestTimeInQueue", Dur(5, "")>> >>,
   Raw \o << <<"ipList", <<A>> >>, <<"numRetries", -1>> >>,
   Raw \o << <<"ipList", <<A>> >>, <<"ipFailuresUntilQuarantine", 0>> >>,
   << <<"name", "t">>, <<"regex", BadRegex>>, <<"ipList", <<A>> >> >>,
   << <<"name", "t">>, <<"ipList", <<A>> >> >>}

File(pools, targets, server) == [pools |-> pools, targets |-> targets, server |-> server]
Input(file, env, cli) == [file |-> file, env |-> env, cli |-> cli]

(* Each layer gives any of the settings, or none. *)
Layers == {b @@ p : b \in {<<>>, "backend" :> "memory", "backend" :> "redis"},
                    p \in {<<>>, "probe" :> TRUE, "probe" :> FALSE}}
UrlLayers(url) == {<<>>, "redis_url" :> url}
ProbeLayers(url) == {"probe" :> TRUE} \cup
                    {"probe" :> TRUE @@ "probe_urls" :> us : us \in {<<>>, <<url>>}}

GoodTargets == <<Raw \o << <<"ipList", <<A>> >> >>, Raw \o << <<"ipList", <<A, B>> >> >> >>

MCInputs ==
  {Input(File(ps, ts, <<>>), <<>>, <<>>) :
     ps \in PoolLists, ts \in SeqOf(RawTargets, 1)}
  \cup {Input(File(<<Pool("p", <<A>>)>>, <<s, t>>, <<>>), <<>>, <<>>) :
          s \in RawTargets, t \in RawTargets}
  \cup {Input(File(<<>>, GoodTargets, y), e, c) :
          y \in Layers, e \in Layers, c \in Layers}
  \cup {Input(File(<<>>, GoodTargets, y), e, c) :
          y \in UrlLayers("yaml_url"), e \in UrlLayers("env_url"), c \in UrlLayers("cli_url")}
  \cup {Input(File(<<>>, GoodTargets, y), <<>>, c) :
          y \in ProbeLayers("yaml_url"), c \in ProbeLayers("cli_url")}
=============================================================================
