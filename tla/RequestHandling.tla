--------------------------- MODULE RequestHandling --------------------------
(***************************************************************************)
(* What a request says, from the bytes the client sends to the message it  *)
(* reads back: the parser, the order of dispatch in handle_read_event, the *)
(* routes, the WebSocket handshake, the proxy's rewriting, static files    *)
(* and the framing of every answer.  HttpExchange has the scheduling of    *)
(* the same connection (partial writes, overlapping results, timeouts);    *)
(* here a client waits for its answer before it sends the next request.    *)
(***************************************************************************)
EXTENDS RequestParser, UpgradeHandshake, ProxyRequest, StaticFiles

CONSTANTS Configs,     \* server configurations, as ServerConfig keys
          Messages,    \* what a client may send first
          Followups,   \* and after that, on the same connection
          Segmented,   \* messages that arrive in arbitrary segments
          Outcomes,    \* what the upstream answers: status, headers, body
          MaxExchanges \* bound: requests on the connection

\* A message is over with its empty line and its body: no line holds a CR or is
\* empty, and a client sends no body but the one it announces, with a method
\* that has one.  The server leaves any other on the wire.
ASSUME HandlingAssumption ==
  /\ Segmented \subseteq Messages /\ MaxExchanges \in Nat
  /\ \A m \in Messages \cup Followups :
       /\ \A line \in Range(<<RequestLine(m)>> \o HeaderLines(m)) :
            line # <<>> /\ "CR" \notin Range(line)
       /\ m.body # <<>> =>
            /\ Proper(m) /\ RequiresBody(Spelled[m.method])
            /\ Get(HeadersOf(m.fields), "content-length") # <<>>
            /\ Stoul(Get(HeadersOf(m.fields), "content-length")) >= Len(m.body)

\* Messages and configuration values are text.
ASSUME TextAssumption ==
  /\ \A m \in Messages \cup Followups :
       /\ m.method \in STRING /\ m.version \in STRING
       /\ m.target \in Seq(STRING) /\ m.body \in Seq(STRING)
       /\ m.fields \in Seq(STRING \X Seq(STRING)) /\ m.other \in Seq(Seq(STRING))
  /\ \A c \in Configs :
       /\ c.token \in Seq(STRING) /\ c.source \in Seq(STRING) /\ c.prefix \in Seq(STRING)
       /\ c.root \in Seq(Seq(STRING))

\* A configuration that proxies has an absolute prefix, or it is refused.
ASSUME PrefixAssumption ==
  \A c \in Configs : c.proxyEnabled => c.prefix # <<>> /\ c.prefix[1] = "/"

\* What ProxyResponseParser accepts: never a 101, and no body with a status
\* that has none.
Outcome(status, code, headers, body) ==
  [status |-> status, code |-> code, headers |-> headers, body |-> body, head |-> FALSE]
ASSUME OutcomesAssumption ==
  \A o \in Outcomes :
    /\ o = Outcome(o.status, o.code, o.headers, o.body)
    /\ o.status \in DOMAIN FailureStatus \cup {"Success"}
    /\ o.status = "Success" => o.body \in Nat /\ o.code # 101
    /\ o.status = "Success" /\ o.code \in {204, 304} => o.body = 0

VARIABLES
  cfg,       \* the configuration
  exchanges, \* requests sent so far
  msg,       \* <<the request the client is waiting on>>, or <<>>
  wire,      \* the part of it that has not arrived
  parser,    \* the connection's HttpRequestParser
  keepAlive, \* keep_alive_
  phase,     \* what the connection is doing
  request,   \* <<the request dispatched>>, or <<>>
  forwarded, \* <<the request sent upstream>>, or <<>>
  reloaded,  \* <<the file an admin reload was told to read>>, or <<>>
  out        \* <<the serialized response>>, or <<>>

exchangeVars == <<request, forwarded, reloaded>>
vars == <<cfg, exchanges, msg, wire, parser, keepAlive, phase, exchangeVars, out, fileVars>>

\* The length of an error text, or of a route's answer.
TextBytes == 2

Init ==
  /\ cfg \in Configs
  /\ exchanges = 0 /\ msg = <<>> /\ wire = <<>>
  /\ parser = FreshParser
  /\ keepAlive = FALSE
  /\ phase = "reading"
  /\ request = <<>> /\ forwarded = <<>> /\ reloaded = <<>>
  /\ out = <<>>
  /\ fs = InitialFiles /\ deploys = 0 /\ job = NoJob

-----------------------------------------------------------------------------
(* The client *)

Send(m) ==
  /\ phase = "reading" /\ msg = <<>>
  /\ exchanges < MaxExchanges
  /\ m \in IF exchanges = 0 THEN Messages ELSE Followups
  /\ exchanges' = exchanges + 1
  /\ msg' = <<m>>
  /\ wire' = Render(m)
  /\ UNCHANGED <<cfg, parser, keepAlive, phase, exchangeVars, out, fileVars>>

Leave ==
  /\ phase = "reading" /\ msg = <<>>
  /\ phase' = "closed"
  /\ UNCHANGED <<cfg, exchanges, msg, wire, parser, keepAlive, exchangeVars, out, fileVars>>

-----------------------------------------------------------------------------
(* Answers *)

\* A response that does not serialize closes the connection instead.
AnswerWith(response) ==
  /\ out' = Serialize(response)
  /\ phase' = IF out' = <<>> THEN "closed" ELSE "writing"

\* evaluate_keep_alive: 1.1 unless it says close, anything else if it says
\* keep-alive.  Other values, and lists, do not count.
EvaluateKeepAlive(req) ==
  LET said == Get(req.headers, "connection")
  IN IF req.version = <<"HTTP/", "1.1">> THEN said # <<"close">> ELSE said = <<"keep-alive">>

-----------------------------------------------------------------------------
(* Routes *)

\* The router's table: the method and the whole target, query included.
Routes == {<<"GET", <<"/">>>>, <<"GET", <<"/", "health">>>>, <<"GET", <<"/", "metrics">>>>,
           <<"GET", <<"/", "admin", "/", "config">>>>,
           <<"POST", <<"/", "admin", "/", "reload-config">>>>}
HasRoute(req) == <<req.method, req.target>> \in Routes
IsAdmin(req) == req.target[2] = "admin"

\* admin_token_ok: a bearer token, else X-Aevrix-Token, else Authorization.
Presented(req) ==
  LET auth == Get(req.headers, "authorization")
      token == Get(req.headers, "x-aevrix-token")
  IN IF auth # <<>> /\ auth[1] = "Bearer" THEN Tail(auth)
     ELSE IF token # <<>> THEN token ELSE auth
AdminTokenOk(req) == cfg.token = <<>> \/ Presented(req) = cfg.token

\* requested_config_path: a path= of the query, else the body.
RequestedConfigPath(req) ==
  LET query == QueryOf(req.target)
      text == Trim(req.body, White)
  IN IF Len(query) > 1 /\ query[2] = "path=" THEN SubSeq(query, 3, Len(query))
     ELSE IF text # <<>> /\ text[1] = "path=" THEN Tail(text) ELSE text

\* Mutant of ReloadPathAllowed: the directory without its final slash.
ReloadPathAllowedLoose(path, source) ==
  \/ path = <<>>
  \/ /\ path[1] = "/" /\ ".." \notin Range(path)
     /\ source # <<>> /\ source[1] = "/"
     /\ LET slash == SelectLastInSeq(source, LAMBDA c : c = "/")
            directory == SubSeq(source, 1, slash - 1)
        IN IsPrefix(directory, path) /\ Len(path) > Len(directory)

\* reload_path_allowed: absolute, no "..", and below the directory of the
\* configured file.
ReloadPathAllowed(path, source) ==
  \/ path = <<>>
  \/ /\ path[1] = "/" /\ ".." \notin Range(path)
     /\ source # <<>> /\ source[1] = "/"
     /\ LET slash == SelectLastInSeq(source, LAMBDA c : c = "/")
            directory == SubSeq(source, 1, slash)
        IN IsPrefix(directory, path) /\ Len(path) > Len(directory)

\* The reload itself is ConfigReload's; it succeeds or not.
AdminStatuses(req) ==
  IF ~cfg.adminEnabled THEN {404}
  ELSE IF ~AdminTokenOk(req) THEN {401}
  ELSE IF req.method = "GET" THEN {200}
  ELSE IF ~ReloadPathAllowed(RequestedConfigPath(req), cfg.source) THEN {400}
  ELSE {200, 400}

\* router.route: every handler says keep-alive, whatever the client asked.
AnswerRoute(req) ==
  /\ HasRoute(req)
  /\ \E status \in IF IsAdmin(req) THEN AdminStatuses(req) ELSE {200} :
       AnswerWith(SetPolicy(NewResponse(status, TextBytes), TRUE))
  /\ reloaded' = IF IsAdmin(req) /\ req.method = "POST" /\ AdminStatuses(req) = {200, 400}
                 THEN <<RequestedConfigPath(req)>> ELSE <<>>
  /\ keepAlive' = EvaluateKeepAlive(req)
  /\ UNCHANGED <<forwarded, job>>

-----------------------------------------------------------------------------
(* The rest of the dispatch in handle_read_event *)

\* An upgrade is answered at once, and so is a request that tried to be one.
AnswerUpgrade(req) ==
  LET verdict == EvaluateUpgrade(req, cfg)
  IN /\ ~HasRoute(req)
     /\ verdict # "NotAnUpgrade"
     /\ IF verdict = "Accepted"
        THEN out' = <<SwitchingProtocols>> /\ phase' = "writing"
        ELSE AnswerWith(RejectionResponse(verdict, TextBytes))
     /\ keepAlive' = FALSE
     /\ UNCHANGED <<forwarded, reloaded, job>>

GoesUpstream(req) == cfg.proxyEnabled /\ ProxyTargetMatches(req.target, cfg.prefix)

ForTheProxy(req) ==
  /\ ~HasRoute(req) /\ EvaluateUpgrade(req, cfg) = "NotAnUpgrade"
  /\ GoesUpstream(req)

\* ProxyHandler::start: a bad proxy_pass, or no connection, is answered at once
\* (and not as an answer to HEAD, whatever the method).
RefuseProxy(req) ==
  /\ ForTheProxy(req)
  /\ keepAlive' = EvaluateKeepAlive(req)
  /\ LET why == IF ParseProxyTarget(cfg.proxyPass) = <<>> THEN "NotConfigured" ELSE "BadGateway"
     IN AnswerWith(BuildProxyResponse([status |-> why, head |-> FALSE], keepAlive', TextBytes))
  /\ UNCHANGED <<forwarded, reloaded, job>>

StartProxy(req) ==
  /\ ForTheProxy(req)
  /\ ParseProxyTarget(cfg.proxyPass) # <<>>
  /\ keepAlive' = EvaluateKeepAlive(req)
  /\ forwarded' = <<BuildUpstreamRequest(req, ParseProxyTarget(cfg.proxyPass)[1], cfg)>>
  /\ phase' = "proxying"
  /\ UNCHANGED <<reloaded, out, job>>

\* Everything else is a file, whatever the method.  When the pool refuses the
\* task, the connection closes before the 503 it was given is written.
StartFile(req) ==
  /\ ~HasRoute(req) /\ EvaluateUpgrade(req, cfg) = "NotAnUpgrade"
  /\ ~GoesUpstream(req)
  /\ keepAlive' = EvaluateKeepAlive(req)
  /\ \/ job' = NewJob(cfg.root, req.target) /\ phase' = "working"
     \/ phase' = "closed" /\ UNCHANGED job
  /\ UNCHANGED <<forwarded, reloaded, out>>

Dispatch(req) ==
  /\ request' = <<req>>
  /\ \/ AnswerRoute(req) \/ AnswerUpgrade(req)
     \/ RefuseProxy(req) \/ StartProxy(req) \/ StartFile(req)

\* handle_read_event: n symbols arrive.
Receive(n) ==
  /\ phase = "reading" /\ wire # <<>>
  /\ parser' = Feed(parser, SubSeq(wire, 1, n))
  /\ wire' = SubSeq(wire, n + 1, Len(wire))
  /\ CASE parser'.state = "Complete" -> Dispatch(parser'.request)
       [] parser'.state = "Error" ->
            phase' = "closed" /\ UNCHANGED <<keepAlive, exchangeVars, out, job>>
       [] OTHER -> UNCHANGED <<keepAlive, phase, exchangeVars, out, job>>
  /\ UNCHANGED <<cfg, exchanges, msg, fs, deploys>>

-----------------------------------------------------------------------------
(* Results *)

\* The proxy's completion callback.
UpstreamSettles(o) ==
  /\ phase = "proxying"
  /\ LET head == request[1].method = "HEAD"
         outcome == [o EXCEPT !.head = head, !.body = IF head THEN 0 ELSE @]
     IN AnswerWith(BuildProxyResponse(outcome, keepAlive, TextBytes))
  /\ UNCHANGED <<cfg, exchanges, msg, wire, parser, keepAlive, exchangeVars, fileVars>>

\* execute_filesystem_task, step by step, and the operator meanwhile.
Work ==
  /\ phase = "working"
  /\ \/ StepFile
     \/ \E p \in Deployable : Withdraw(p) \/ Deploy(p, 1)
  /\ UNCHANGED <<cfg, exchanges, msg, wire, parser, keepAlive, phase, exchangeVars, out>>

\* The completion callback: an error has a text, announces a close and leaves
\* keep_alive_ alone.
FileSettles ==
  /\ phase = "working" /\ job.pc = "done"
  /\ LET bytes == IF request[1].method = "HEAD" THEN 0 ELSE job.size
     IN AnswerWith(IF job.status = 200 THEN SetPolicy(NewResponse(200, bytes), keepAlive)
                   ELSE SetPolicy(NewResponse(job.status, TextBytes), FALSE))
  /\ UNCHANGED <<cfg, exchanges, msg, wire, parser, keepAlive, exchangeVars, fileVars>>

\* handle_write_event, once everything is flushed.
Flush ==
  /\ phase = "writing"
  /\ phase' = IF out[1].status = 101 THEN "frames" ELSE IF keepAlive THEN "reading" ELSE "closed"
  /\ IF phase' = "reading"
     THEN /\ parser' = FreshParser
          /\ msg' = <<>> /\ out' = <<>> /\ job' = NoJob
          /\ request' = <<>> /\ forwarded' = <<>> /\ reloaded' = <<>>
     ELSE UNCHANGED <<parser, msg, exchangeVars, out, job>>
  /\ UNCHANGED <<cfg, exchanges, wire, keepAlive, fs, deploys>>

\* How much of the message may arrive at once.
Segments == IF msg # <<>> /\ msg[1] \in Segmented THEN 1..Len(wire) ELSE {Len(wire)}

Gone == phase \in {"closed", "frames"} /\ UNCHANGED vars

Next == \/ \E m \in Messages \cup Followups : Send(m)
        \/ Leave
        \/ \E n \in Segments : Receive(n)
        \/ \E o \in Outcomes : UpstreamSettles(o)
        \/ Work \/ FileSettles \/ Flush \/ Gone

Spec == Init /\ [][Next]_vars

-----------------------------------------------------------------------------
(* Properties *)

\* A request that keeps the limits means what its client meant, however it is
\* cut into segments and whatever the connection carried before: no error, no
\* dispatch before its last symbol, and then exactly the method, the target, the
\* headers and the body that were sent (feed, parse_header, reset).
ParsesAsSent ==
  msg # <<>> /\ WellFormed(msg[1])
    => /\ parser.state # "Error"
       /\ request = IF wire = <<>> THEN <<Meaning(msg[1])>> ELSE <<>>

\* The components of a path, and of a prefix without its final slash.
Components(path) == SplitAt(Tail(path), {"/"})
PrefixOf(prefix) == IF Last(prefix) = "/" THEN Front(Components(prefix)) ELSE Components(prefix)
Below(prefix, path) ==
  LET p == PrefixOf(prefix)
      all == Components(path)
  IN /\ path # <<>> /\ path[1] = "/" /\ IsPrefix(p, all)
     /\ Last(prefix) = "/" => Len(all) > Len(p)
Slashed(components) == [i \in 1..Len(components) |-> <<"/">> \o components[i]]
PathFrom(components) == IF components = <<>> THEN <<"/">> ELSE FlattenSeq(Slashed(components))

\* The components below the prefix.  Of two slashes at the end of a prefix that
\* has one, one goes with it.
BelowPrefix(prefix, path) ==
  LET rest == SubSeq(Components(path), Len(PrefixOf(prefix)) + 1, Len(Components(path)))
  IN IF prefix # <<"/">> /\ Last(prefix) = "/" /\ Len(rest) > 1 /\ rest[1] = <<>>
     THEN Tail(rest) ELSE rest

\* What goes upstream is what was asked, and is a message of its own hop: the
\* path below the prefix, component by component, with its query; the body,
\* and a Content-Length that is its length; every end-to-end header, and none of
\* those the code lists as hop-by-hop.  A request below the prefix is never
\* looked up as a file, and no other request leaves the server
\* (proxy_target_matches, build_upstream_request).
ForwardedAsAsked ==
  LET asked == request[1]
      sent == forwarded[1]
      path == PathOf(asked.target)
  IN /\ forwarded # <<>> =>
          /\ cfg.proxyEnabled /\ Below(cfg.prefix, path)
          /\ sent.method = asked.method /\ sent.body = asked.body
          /\ sent.path = (IF cfg.strip THEN PathFrom(BelowPrefix(cfg.prefix, path)) ELSE path)
                           \o QueryOf(asked.target)
          /\ DOMAIN sent.headers \cap HopByHop = {"connection"}
          /\ sent.headers["connection"] = <<"keep-alive">>
          /\ (sent.body # <<>> \/ "content-length" \in DOMAIN sent.headers)
               => sent.headers["content-length"] = Decimal(Len(sent.body))
          /\ \A n \in DOMAIN asked.headers \ (HopByHop \cup Replaced) :
               ValidValue(asked.headers[n]) => Get(sent.headers, n) = asked.headers[n]
     /\ job # NoJob => ~(cfg.proxyEnabled /\ Below(cfg.prefix, path))

\* What the client takes for the body: nothing after HEAD or with a status that
\* has none, Content-Length bytes, or everything until the connection closes.
\* <<>> when it can only wait for a close that does not come.
ClientReads(method, response) ==
  LET cl == Get(response.headers, "content-length")
  IN IF method = "HEAD" \/ response.status \in {101, 204, 304} THEN <<0>>
     ELSE IF cl # <<>> THEN <<Stoul(cl)>>
     ELSE IF ~keepAlive THEN <<response.body>> ELSE <<>>

\* The client takes exactly the bytes the server writes, so that the next answer
\* starts where it expects one, in every answer but two kinds: the upstream's
\* empty body goes out without a Content-Length, and the text of an error that
\* is the server's own goes out after HEAD (update_content_length, is_valid,
\* serialize, set_head_only).
BodiesDelimited ==
  LET head == request[1].method = "HEAD"
  IN out # <<>> => \/ ClientReads(request[1].method, out[1]) = <<out[1].body>>
                   \/ ~head /\ forwarded # <<>> /\ out[1].body = 0
                   \/ head /\ forwarded = <<>> /\ out[1].status >= 400

\* A reload an admin request starts was asked for with the token, and reads the
\* configured file or one in its directory: "inside the configured file's
\* directory" (admin_token_ok, reload_path_allowed).
AdminReloadGuarded ==
  reloaded # <<>> =>
    /\ cfg.adminEnabled
    /\ cfg.token # <<>> => \E n \in {"authorization", "x-aevrix-token"} :
                            Get(request[1].headers, n) \in {cfg.token, <<"Bearer">> \o cfg.token}
    /\ reloaded[1] # <<>> =>
         /\ DotDot \notin Range(Components(reloaded[1]))
         /\ IsPrefix(Front(Components(cfg.source)), Front(Components(reloaded[1])))
=============================================================================
