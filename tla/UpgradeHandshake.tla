-------------------------- MODULE UpgradeHandshake --------------------------
(***************************************************************************)
(* evaluate_upgrade: is a request a WebSocket handshake that this server   *)
(* accepts?  SHA-1 and the encoding of its digest are left out; of the     *)
(* client's key only the base64 quanta matter.                             *)
(***************************************************************************)
EXTENDS HttpMessage

\* A key is a sequence of base64 quanta: "full" (three bytes), "pad1" (ends in
\* one =, two bytes), "pad2" (ends in two, one byte), or "junk" (a character
\* outside the alphabet, or fewer than four).
QuantumBytes == [full |-> 3, pad1 |-> 2, pad2 |-> 1]

\* base64_decode: padding only in the last quantum.
Decodes(key) ==
  /\ \A i \in DOMAIN key : key[i] \in DOMAIN QuantumBytes
  /\ \A i \in DOMAIN key : key[i] # "full" => i = Len(key)
DecodedSize(key) == SumFunction([i \in DOMAIN key |-> QuantumBytes[key[i]]])

\* compute_accept, by whether it gives a value.
Acceptable(key) == key # <<>> /\ Decodes(key) /\ DecodedSize(key) = 16

\* target_path: neither the query nor the fragment.
TargetPath(target) == Head(SplitAt(target, {"?", "#"}))

\* header_has_token: a header value is the sequence of its tokens.
HasToken(req, name, token) == token \in Range(Get(req.headers, name))

\* evaluate_upgrade asks these questions in this order, and the first that
\* fails decides.
UpgradeChecks(req, cfg) ==
  LET version == Get(req.headers, "sec-websocket-version")
      Check(pass, verdict) == [pass |-> pass, verdict |-> verdict]
  IN << Check(cfg.wsEnabled /\ TargetPath(req.target) \in cfg.wsPaths, "NotAnUpgrade"),
        Check(HasToken(req, "upgrade", "websocket"), "NotAnUpgrade"),
        Check(req.method = "GET" /\ req.version = <<"HTTP/", "1.1">>, "BadRequest"),
        Check(HasToken(req, "connection", "upgrade"), "BadRequest"),
        Check(version # <<>>, "BadRequest"),
        Check(version = <<"13">>, "UnsupportedVersion"),
        Check(Acceptable(Get(req.headers, "sec-websocket-key")), "BadRequest"),
        Check(cfg.wsOrigins = {} \/ Get(req.headers, "origin") \in cfg.wsOrigins, "ForbiddenOrigin") >>

EvaluateUpgrade(req, cfg) ==
  LET checks == UpgradeChecks(req, cfg)
      failed == SelectInSeq(checks, LAMBDA c : ~c.pass)
  IN IF failed = 0 THEN "Accepted" ELSE checks[failed].verdict

\* build_switching_protocols, which does not go through the serializer.
SwitchingProtocols ==
  [status |-> 101, body |-> 0,
   headers |-> [n \in {"upgrade", "connection"} |->
                  IF n = "upgrade" THEN <<"websocket">> ELSE <<"upgrade">>]]

\* build_rejection_response.
RejectionStatus == [BadRequest |-> 400, ForbiddenOrigin |-> 403, UnsupportedVersion |-> 426]
RejectionResponse(verdict, text) == SetPolicy(NewResponse(RejectionStatus[verdict], text), FALSE)
=============================================================================
