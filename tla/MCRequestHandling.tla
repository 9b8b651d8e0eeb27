------------------------- MODULE MCRequestHandling --------------------------
(***************************************************************************)
(* An instance of RequestHandling: seven configurations, one small document *)
(* root, and requests chosen for the boundaries of every rule.             *)
(***************************************************************************)
EXTENDS RequestHandling, TLC

-----------------------------------------------------------------------------
(* Configurations *)

Base ==
  [wsEnabled |-> TRUE, wsPaths |-> {<<"/", "ws">>}, wsOrigins |-> {},
   proxyEnabled |-> TRUE, proxyPass |-> <<"http", "://", "up", ":", "8080">>,
   prefix |-> <<"/", "api">>, strip |-> TRUE,
   adminEnabled |-> FALSE, token |-> <<>>, source |-> <<"/", "etc", "/", "aevrix", "/", "a.conf">>,
   root |-> << <<"srv">>, <<"www">> >>]

MCConfigs ==
  { Base,
    [Base EXCEPT !.prefix = <<"/", "api", "/">>, !.strip = FALSE, !.wsOrigins = {<<"a.example">>},
                 !.adminEnabled = TRUE, !.token = <<"tok">>, !.root = << <<"srv">>, <<"lnk">> >>,
                 !.proxyPass = <<"[", ":", ":", "1", "]">>],
    [Base EXCEPT !.proxyEnabled = FALSE, !.wsEnabled = FALSE, !.adminEnabled = TRUE],
    [Base EXCEPT !.prefix = <<"/">>, !.proxyPass = <<"up", ":", "65536">>,
                 !.adminEnabled = TRUE, !.source = <<>>],
    [Base EXCEPT !.prefix = <<"/">>, !.proxyPass = <<"up">>],
    [Base EXCEPT !.prefix = <<"/", "api", "/">>, !.root = << <<"srv">>, Dot, <<"www">> >>],
    [Base EXCEPT !.proxyEnabled = FALSE, !.root = << <<"srv">>, <<"gone">> >>] }

-----------------------------------------------------------------------------
(* The filesystem *)

Dir == [kind |-> "dir"]
File(n) == [kind |-> "file", size |-> n]
Link(to) == [kind |-> "link", to |-> to]
Www == << <<"srv">>, <<"www">> >>
At(name) == Append(Www, <<name>>)

MCInitialFiles ==
  <<>> :> Dir @@ << <<"srv">> >> :> Dir @@ Www :> Dir
  @@ << <<"srv">>, <<"lnk">> >> :> Link(Www)
  @@ At("index.html") :> File(3) @@ At("a") :> File(2) @@ At("empty") :> File(0)
  @@ At("d") :> Dir @@ Append(At("d"), <<"b">>) :> File(1)
  @@ At("in") :> Link(At("d")) @@ At("out") :> Link(<< <<"srv">>, <<"etc">> >>)
  @@ At("dangling") :> Link(<< <<"srv">>, <<"nowhere">> >>)
  @@ << <<"srv">>, <<"etc">> >> :> Dir @@ << <<"srv">>, <<"etc">>, <<"s">> >> :> File(2)
  @@ << <<"srv">>, <<"www", "x">> >> :> Dir @@ << <<"srv">>, <<"www", "x">>, <<"s">> >> :> File(2)

\* A new file, one that is there, and the target of the dangling link.
MCDeployable == {At("new"), At("a"), << <<"srv">>, <<"nowhere">> >>}

-----------------------------------------------------------------------------
(* Requests *)

Message(method, target, fields, body) ==
  [method |-> method, target |-> target, version |-> "1.1", fields |-> fields,
   other |-> <<>>, body |-> body]
Plain(target) == Message("GET", target, <<>>, <<>>)
Close == <<"connection", <<"close">>>>
Length(n) == <<"content-length", <<Numerals[n + 1]>>>>

\* Where the parser decides: limits, spelling, repeated and malformed fields.
Lexical ==
  { Message("get", <<"/", "health">>, <<Close>>, <<>>),
    Message("POST", <<"/", "a">>, <<Length(2)>>, <<"b1", "CR">>),
    Message("POST", <<"/", "a">>, <<>>, <<>>),
    Message("PUT", <<"/", "a">>, <<Length(9), Length(0)>>, <<>>),
    Message("POST", <<"/", "api">>, <<Length(5), Length(3)>>, <<"CR", "LF", "CR">>),
    Message("POST", <<"/", "a">>, <<<<"content-length", <<"junk">>>>>>, <<>>),
    Message("POST", <<"/", "a">>, <<<<"content-length", <<"-", "1">>>>>>, <<>>),
    Message("POST", <<"/", "a">>, <<<<"content-length", <<"-", "0">>>>>>, <<>>),
    Message("POST", <<"/", "a">>, <<<<"content-length", <<"+", "1">>>>>>, <<"b1">>),
    Message("PATCH", <<"/", "a">>, <<Length(9)>>, <<>>),
    Message("BREW", <<"/", "a">>, <<>>, <<>>),
    Plain(<<>>), Plain(<<"/", "SP", "a">>),
    Plain(<<"/", "a", "a", "a", "a", "a", "a", "a">>),
    Plain(<<"/", "a", "a", "a", "a", "a", "a", "a", "a">>),
    Plain(<<"/", "a", "a", "a", "a", "a", "a", "a", "a", "a", "a">>),
    Message("GET", <<"/", "a">>, <<<<"bad", <<"v">>>>>>, <<>>),
    Message("GET", <<"/", "a">>, <<<<"x", <<"v", "v", "v", "v", "v", "v">>>>>>, <<>>),
    Message("GET", <<"/", "a">>, <<<<"x", <<"v", "v", "v", "v", "v", "v", "v", "v">>>>>>, <<>>),
    Message("GET", <<"/", "a">>, [i \in 1..5 |-> <<"x", <<Numerals[i]>>>>], <<>>),
    Message("GET", <<"/", "a">>, [i \in 1..6 |-> <<"x", <<>>>>], <<>>),
    Message("GET", <<"/", "a">>, [i \in 1..3 |-> <<"x", <<"v", "v", "v", "v", "v", "v">>>>], <<>>),
    [Plain(<<"/", "a">>) EXCEPT !.version = "1.0"],
    [Message("GET", <<"/", "a">>, <<<<"connection", <<"keep-alive">>>>>>, <<>>) EXCEPT !.version = "1.0"],
    [Plain(<<"/", "a">>) EXCEPT !.other = <<<<"nocolon">>>>],
    [Plain(<<"/", "a">>) EXCEPT !.other = <<<<"x", "SP", "x", ":", "v">>>>] }

\* A handshake, and one wrong in each respect.
Handshake ==
  << <<"upgrade", <<"websocket">>>>, <<"connection", <<"upgrade">>>>,
     <<"sec-websocket-version", <<"13">>>>,
     <<"sec-websocket-key", <<"full", "full", "full", "full", "full", "pad2">>>>,
     <<"origin", <<"a.example">>>> >>
With(i, value) == Message("GET", <<"/", "ws">>, [Handshake EXCEPT ![i] = <<@[1], value>>], <<>>)
Upgrading ==
  { Message("GET", <<"/", "ws">>, Handshake, <<>>),
    Message("GET", <<"/", "ws", "?", "q">>, Handshake, <<>>),
    Message("GET", <<"/", "wsx">>, Handshake, <<>>),
    Message("POST", <<"/", "ws">>, Handshake, <<>>),
    [Message("GET", <<"/", "ws">>, Handshake, <<>>) EXCEPT !.version = "1.0"],
    With(1, <<"h2c">>), With(2, <<"keep-alive">>), With(2, <<"keep-alive", "upgrade">>),
    With(3, <<"8">>), With(3, <<>>),
    With(4, <<"full", "full", "full", "full", "full", "pad1">>), With(4, <<>>),
    With(4, <<"full", "full", "pad2", "full", "full", "full">>),
    With(4, <<"full", "full", "full", "full", "full", "junk">>),
    With(5, <<"b.example">>) }

\* Around the proxy's prefix, and what a hop must not pass on.
Proxied ==
  {Plain(t) : t \in {<<"/", "api">>, <<"/", "api", "/">>, <<"/", "api", "x">>, <<"/", "api", "?", "q">>,
                     <<"/", "api", "/", "a", "?", "q">>, <<"/", "apis", "/", "api">>,
                     <<"/", "api", "/", "/", "a">>}}
  \cup
  { Message("HEAD", <<"/", "api", "/", "a">>, <<>>, <<>>),
    Message("GET", <<"/", "api", "/", "a">>, <<Length(2), <<"te", <<"v">>>>, <<"x", <<"v">>>>>>, <<>>),
    Message("GET", <<"/", "api", "/", "a">>, <<<<"x", <<"ctl">>>>, <<"keep-alive", <<"v">>>>, <<"host", <<"h">>>>>>, <<>>),
    Message("POST", <<"/", "api", "/", "a">>,
            <<<<"content-length", <<"2", "abc">>>>, <<"x-forwarded-for", <<"p">>>>, Close>>, <<"b1", "b2">>) }

\* Ways to name a file.
Filed ==
  {Plain(t) : t \in
     { <<"/", "a">>, <<"/", "new">>, <<"/", "empty">>, <<"/", "d">>, <<"/", "d", "/">>, <<"/", "a", "/">>,
       <<"/", "d", "/", "..", "/", "a">>, <<"/", "in", "/", "b">>, <<"/", "in", "/", "..", "/", "a">>,
       <<"/", "out", "/", "s">>, <<"/", "dangling">>, <<"/", "..", "/", "etc", "/", "s">>,
       <<"/", "%..", "/", "www", "x", "/", "s">>, <<"/", "..", "%/", "www", "/", "%a">>,
       <<"/", "%%", "a">>, <<"/", "%zz">>, <<"/", "/", "srv", "/", "www", "/", "a">>,
       <<"/", "/", "srv", "/", "etc", "/", "s">>, <<"/", "/">>, <<"/", ".">>, <<"/", "no", "/", "..", "/", "a">>,
       <<"/", "a", "+">>, <<"/", "?">>}}
  \cup { Message("HEAD", <<"/", "a">>, <<>>, <<>>), Message("HEAD", <<"/", "d">>, <<>>, <<>>),
         Message("OPTIONS", <<"/", "a">>, <<Close>>, <<>>), Message("HEAD", <<"/">>, <<>>, <<>>) }

\* The admin endpoints.
Reload(fields, body) ==
  Message("POST", <<"/", "admin", "/", "reload-config">>, fields \o <<Length(Len(body))>>, body)
Tokens == { <<>>, <<<<"authorization", <<"Bearer", "tok">>>>>>, <<<<"x-aevrix-token", <<"tok">>>>>>,
            <<<<"authorization", <<"Bearer", "no">>>>, <<"x-aevrix-token", <<"tok">>>>>> }
Overrides ==
  { <<>>, <<"/", "etc", "/", "aevrix", "/", "b.conf">>,
    <<"SP", "path=", "/", "etc", "/", "aevrix", "/", "b">>,
    <<"/", "etc", "/", "aevrix", "x", "/", "b">>, <<"/", "etc", "/", "aevrix", "/">>,
    <<"/", "etc", "/", "aevrix", "/", "..", "/", "b">>, <<"b.conf">> }
Administrative ==
  {Reload(t, b) : t \in Tokens, b \in Overrides}
  \cup {Message("GET", <<"/", "admin", "/", "config">>, t, <<>>) : t \in Tokens}

MCSegmented == Lexical \cup Upgrading
MCMessages == MCSegmented \cup Proxied \cup Filed \cup Administrative
MCFollowups == { Plain(<<"/", "health">>), Message("POST", <<"/", "api">>, <<Length(1)>>, <<"b1">>) }

-----------------------------------------------------------------------------
(* The upstream's answers *)

Relayed(code, headers, body) == Outcome("Success", code, headers, body)
CL(n) == "content-length" :> <<Numerals[n + 1]>>

MCOutcomes ==
  { Relayed(200, CL(3), 3), Relayed(200, CL(0), 0), Relayed(204, "x" :> <<"v">>, 0),
    Relayed(304, CL(3), 0),
    Relayed(200, "transfer-encoding" :> <<"chunked">> @@ "connection" :> <<"close">>, 2),
    Relayed(200, CL(2) @@ "x" :> <<"ctl">>, 2) }
  \cup {Outcome(s, 0, NoHeaders, 0) : s \in DOMAIN FailureStatus \ {"NotConfigured"}}
=============================================================================
