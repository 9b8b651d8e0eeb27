---------------------------- MODULE ProxyRequest ----------------------------
(***************************************************************************)
(* The rewriting a proxied exchange needs: proxy_pass, which requests are  *)
(* below the prefix, the request that goes upstream, and the response that *)
(* goes back.                                                              *)
(***************************************************************************)
EXTENDS HttpMessage

\* The hop's own headers, in either direction.
HopByHop == {"connection", "keep-alive", "proxy-authenticate", "proxy-authorization",
             "te", "trailer", "transfer-encoding", "upgrade"}

-----------------------------------------------------------------------------
(* proxy_target.cpp *)

Ports == [p \in {"0", "80", "8080", "65535", "65536"} |->
            CASE p = "0" -> 0 [] p = "80" -> 80 [] p = "8080" -> 8080
              [] p = "65535" -> 65535 [] p = "65536" -> 65536]

\* parse_port: decimal, and between 1 and 65535.
ValidPort(text) == Len(text) = 1 /\ text[1] \in DOMAIN Ports /\ Ports[text[1]] \in 1..65535

\* is_valid_host: nothing that would change the meaning of the authority.
ValidHost(host) == host # <<>> /\ Range(host) \cap (White \cup {"/", "?", "#", "@"}) = {}

\* The text between the scheme and the path.
Authority(text) ==
  LET sep == SelectInSeq(text, LAMBDA c : c = "://")
  IN Head(SplitAt(SubSeq(text, sep + 1, Len(text)), {"/", "?", "#"}))

\* Host and port of [address]:port, or of host:port with one colon at most.
SplitAuthority(a) ==
  IF a[1] = "["
  THEN LET close == SelectInSeq(a, LAMBDA c : c = "]")
           rest == SubSeq(a, close + 1, Len(a))
       IN IF close = 0 \/ (rest # <<>> /\ rest[1] # ":") THEN <<>>
          ELSE <<SubSeq(a, 2, close - 1), SubSeq(rest, 2, Len(rest))>>
  ELSE LET parts == SplitAt(a, {":"})
       IN IF Len(parts) > 2 THEN <<>> ELSE Append(parts, <<>>)

\* parse_proxy_target: <<target>>, or <<>> with an error.  A host or a port may
\* be missing here: a missing port is 80.
ParseProxyTarget(value) ==
  LET text == Trim(value, White)
      sep == SelectInSeq(text, LAMBDA c : c = "://")
      a == Authority(text)
  IN IF (sep > 0 /\ SubSeq(text, 1, sep - 1) # <<"http">>) \/ a = <<>> \/ SplitAuthority(a) = <<>>
     THEN <<>>
     ELSE LET host == SplitAuthority(a)[1]
              port == SplitAuthority(a)[2]
          IN IF ~ValidHost(host) \/ (port # <<>> /\ ~ValidPort(port)) THEN <<>>
             ELSE <<[host |-> host, port |-> IF port = <<>> THEN "80" ELSE port[1]]>>

-----------------------------------------------------------------------------
(* proxy_request_builder.cpp *)

\* split_target: the query keeps its question mark.
QueryAt(target) == SelectInSeq(target, LAMBDA c : c = "?")
PathOf(target) == IF QueryAt(target) = 0 THEN target ELSE SubSeq(target, 1, QueryAt(target) - 1)
QueryOf(target) == IF QueryAt(target) = 0 THEN <<>> ELSE SubSeq(target, QueryAt(target), Len(target))

\* proxy_target_matches: the prefix ends at a boundary of the path.
ProxyTargetMatches(target, prefix) ==
  /\ prefix # <<>>
  /\ IF prefix = <<"/">> THEN target # <<>> /\ target[1] = "/"
     ELSE LET path == PathOf(target)
          IN IsPrefix(prefix, path) /\ (path = prefix \/ Last(prefix) = "/" \/ IsPrefix(prefix \o <<"/">>, path))

\* proxy_upstream_path: what is left after the prefix, as an absolute path.
ProxyUpstreamPath(target, prefix, strip) ==
  LET path == IF PathOf(target) = <<>> THEN <<"/">> ELSE PathOf(target)
      left == IF strip /\ prefix # <<>> /\ prefix # <<"/">> /\ IsPrefix(prefix, path)
              THEN SubSeq(path, Len(prefix) + 1, Len(path)) ELSE path
  IN (IF left = <<>> \/ left[1] # "/" THEN <<"/">> \o left ELSE left) \o QueryOf(target)

Replaced == {"host", "content-length", "x-forwarded-for", "x-forwarded-proto", "x-forwarded-host"}

\* The headers built from scratch; a header without a value is left out.
ForwardingHeaders(h, target, peer) ==
  LET value == [n \in {"host", "x-forwarded-for", "x-forwarded-proto", "x-forwarded-host"} |->
                  CASE n = "host" -> target.host \o <<":", target.port>>
                    [] n = "x-forwarded-for" -> Append(Get(h, "x-forwarded-for"), peer)
                    [] n = "x-forwarded-proto" -> <<"http">>
                    [] n = "x-forwarded-host" -> Get(h, "host")]
  IN RestrictDomain(value, LAMBDA n : value[n] # <<>>)

\* Content-Length is that of the body held, if there is one or there was a header.
Framing(h, body) ==
  IF body # <<>> \/ "content-length" \in DOMAIN h
  THEN SetHeader(NoHeaders, "content-length", Decimal(Len(body))) ELSE NoHeaders

\* The connection to the upstream is kept, whatever the client's is.
OurHop == [n \in {"connection"} |-> <<"keep-alive">>]

\* Mutant of BuildUpstreamRequest: the client's own framing is passed on.
BuildUpstreamRequestVerbatim(req, target, cfg) ==
  LET endToEnd == RestrictDomain(req.headers,
                    LAMBDA n : n \notin (Replaced \cup HopByHop) \ {"content-length"})
  IN [method |-> req.method,
      path |-> ProxyUpstreamPath(req.target, cfg.prefix, cfg.strip),
      headers |-> Overlay(OurHop, Overlay(ForwardingHeaders(req.headers, target, "peer"), endToEnd)),
      body |-> req.body]

\* build_upstream_request.
BuildUpstreamRequest(req, target, cfg) ==
  LET endToEnd == RestrictDomain(req.headers, LAMBDA n : /\ n \notin Replaced \cup HopByHop
                                                         /\ ValidValue(req.headers[n]))
  IN [method |-> req.method,
      path |-> ProxyUpstreamPath(req.target, cfg.prefix, cfg.strip),
      headers |-> Overlay(OurHop, Overlay(Framing(req.headers, req.body),
                    Overlay(ForwardingHeaders(req.headers, target, "peer"), endToEnd))),
      body |-> req.body]

-----------------------------------------------------------------------------
(* build_proxy_response *)

\* The gateway status of a failed exchange.
FailureStatus == [BadGateway |-> 502, GatewayTimeout |-> 504, Unavailable |-> 503,
                  UpstreamTooLarge |-> 502, NotConfigured |-> 502]

RelayedHeaders(h) == RestrictDomain(h, LAMBDA n : n \notin HopByHop \cup {"content-length"})

\* HEAD keeps the upstream's Content-Length, or has none.
RelayHead(r, h) ==
  [r EXCEPT !.head = TRUE,
            !.headers = IF Get(h, "content-length") # <<>>
                        THEN SetHeader(@, "content-length", h["content-length"])
                        ELSE RemoveHeader(@, "content-length")]

\* An outcome has a status ("Success" or a failure), the upstream's status,
\* headers and body length, and head_request.  text is the length of an error
\* message.
BuildProxyResponse(o, keep, text) ==
  IF o.status = "Success"
  THEN LET new == NewResponse(o.code, o.body)
           full == [new EXCEPT !.headers = Overlay(RelayedHeaders(o.headers), @)]
       IN SetPolicy(IF o.head THEN RelayHead(full, o.headers) ELSE full, keep)
  ELSE SetPolicy([NewResponse(FailureStatus[o.status], text) EXCEPT !.head = o.head], FALSE)
=============================================================================
