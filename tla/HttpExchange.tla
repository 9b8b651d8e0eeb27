---------------------------- MODULE HttpExchange ----------------------------
(***************************************************************************)
(* One client connection from accept to close: the read handler, the       *)
(* incremental parser, dispatch, the asynchronous file and proxy exchanges *)
(* and the write handler.                                                  *)
(*                                                                         *)
(* A request travels as two pieces ("head" and "rest"), a response as the  *)
(* chunks 1..2: enough for every handler to stop in the middle of one.     *)
(* TCP may deliver any prefix of what was sent.                            *)
(***************************************************************************)
EXTENDS Naturals, Sequences, FiniteSets, SequencesExt, Deadline

CONSTANTS Kinds,      \* what clients ask for, a subset of AllKinds
          MaxReq,     \* bound: requests the client sends
          Styles,     \* pipelines may be any of these
          Transports  \* tls may be any of these: TRUE for the TLS listener

AllKinds == {"bad", "route", "upgrade", "rejected", "proxy", "file"}

ASSUME ExchangeAssumption ==
  /\ Kinds \subseteq AllKinds
  /\ MaxReq \in Nat
  /\ Styles \subseteq BOOLEAN /\ Styles # {}
  /\ Transports \subseteq BOOLEAN /\ Transports # {}

VARIABLES
  pipelines, \* may the client send a request before it has its answer?
  wire,      \* pieces sent by the client and not yet read from the socket
  half,      \* the client has sent the head of its last request, not the rest
  asked,     \* the requests the client has begun to send, in order
  fin,       \* the client has closed its sending side
  tls,       \* tls_enabled_: which listener accepted the connection
  open,      \* the Connection exists
  cstate,    \* ConnectionState
  wstate,    \* WriteState
  budget,    \* what the last set_deadline chose
  mask,      \* events registered with epoll
  held,      \* decrypted pieces that SSL_read has not handed out yet
  parser,    \* HttpRequestParser: state, request in hand, buffer
  keepAlive, \* keep_alive_
  active,    \* worker_active_
  session,   \* "Established" after begin_websocket
  pending,   \* requests given to the worker pool or the proxy
  out,       \* the unsent part of output_buffer_
  sent       \* chunks the client has received

clientVars == <<pipelines, tls, wire, half, asked, fin>>
connVars == <<cstate, wstate, keepAlive, session, held, parser>>
vars == <<clientVars, connVars, open, budget, mask, active, pending, out, sent>>

Requests == [id : 1..MaxReq, kind : Kinds, close : BOOLEAN]
Pieces == [req : Requests, part : {"head", "rest"}]
Chunks == [id : 1..MaxReq, part : 1..2, says : {"close", "keep-alive"}, ok : BOOLEAN]
ParserStates == {"RequestLine", "Headers", "Body", "Complete", "Error"}

TypeOK ==
  /\ wire \in Seq(Pieces) /\ held \in Seq(Pieces)
  /\ pipelines \in BOOLEAN /\ tls \in BOOLEAN /\ half \in BOOLEAN /\ fin \in BOOLEAN /\ open \in BOOLEAN
  /\ asked \in Seq(Requests)
  /\ cstate \in ConnectionStates /\ wstate \in WriteStates /\ budget \in Budgets
  /\ mask \in SUBSET {"in", "out"}
  /\ parser.state \in ParserStates /\ parser.buffer \in Seq(Pieces)
  /\ keepAlive \in BOOLEAN /\ active \in BOOLEAN /\ session \in SessionStates
  /\ pending \subseteq Requests
  /\ out \in Seq(Chunks) /\ sent \in Seq(Chunks)

\* HttpRequestParser::reset.
Fresh == [state |-> "RequestLine", request |-> <<>>, buffer |-> <<>>]

\* read_state_: the accept callback, or the end of the TLS handshake, stores
\* Headers, and nothing ever stores another value.
ReadState(c) == IF c = "TlsHandshake" THEN "Idle" ELSE "Headers"

\* The accept callback of either listener.
Init ==
  /\ wire = <<>> /\ half = FALSE /\ asked = <<>> /\ fin = FALSE
  /\ pipelines \in Styles
  /\ tls \in Transports
  /\ open = TRUE
  /\ cstate = IF tls THEN "TlsHandshake" ELSE "Reading"
  /\ wstate = "Idle"
  /\ budget = Budget(FALSE, cstate, ReadState(cstate), wstate, "none")
  /\ mask = {"in"}
  /\ held = <<>>
  /\ parser = Fresh
  /\ keepAlive = FALSE /\ active = FALSE
  /\ session = "none"
  /\ pending = {}
  /\ out = <<>> /\ sent = <<>>

-----------------------------------------------------------------------------
(* The client *)

Answered(r) == \E i \in DOMAIN sent : sent[i].id = r.id /\ sent[i].part = 2

\* A client does not use a connection on which it saw or asked for a close,
\* and speaks frames once it has asked for an upgrade.
MaySend == /\ ~fin /\ ~half
           /\ \A i \in DOMAIN sent : sent[i].says # "close"
           /\ \A i \in DOMAIN asked : ~asked[i].close /\ asked[i].kind # "upgrade"
           /\ pipelines \/ \A i \in DOMAIN asked : Answered(asked[i])

SendHead(kind, close) ==
  /\ open
  /\ cstate # "TlsHandshake"
  /\ Len(asked) < MaxReq
  /\ MaySend
  /\ LET r == [id |-> Len(asked) + 1, kind |-> kind, close |-> close]
     IN /\ asked' = Append(asked, r)
        /\ wire' = Append(wire, [req |-> r, part |-> "head"])
  /\ half' = TRUE
  /\ UNCHANGED <<pipelines, tls, fin, connVars, open, budget, mask, active, pending, out, sent>>

SendRest ==
  /\ open /\ half /\ ~fin
  /\ wire' = Append(wire, [req |-> Last(asked), part |-> "rest"])
  /\ half' = FALSE
  /\ UNCHANGED <<pipelines, tls, asked, fin, connVars, open, budget, mask, active, pending, out, sent>>

ClientCloses ==
  /\ open /\ ~fin
  /\ fin' = TRUE
  /\ UNCHANGED <<pipelines, tls, wire, half, asked, connVars, open, budget, mask, active, pending, out, sent>>

-----------------------------------------------------------------------------
(* HttpRequestParser::feed, one piece at a time *)

\* Mutant of Feed: only the first part of what was read reaches the parser.
FeedShort(p, data) ==
  [(IF p.state = "Complete" THEN Fresh ELSE p) EXCEPT !.buffer = Append(@, Head(data))]

Feed(p, data) ==
  [(IF p.state = "Complete" THEN Fresh ELSE p) EXCEPT !.buffer = @ \o data]

\* parse_request_line: what is left of a request whose head was thrown away
\* is no request line.
ParseLine(p) ==
  IF p.state # "RequestLine" \/ p.buffer = <<>> THEN p
  ELSE LET b == Head(p.buffer)
       IN [state |-> IF b.part = "head" /\ b.req.kind # "bad" THEN "Headers" ELSE "Error",
           request |-> <<b.req>>, buffer |-> Tail(p.buffer)]

\* parse_header and parse_body: the request is complete, or a request line
\* turns up where a header is due.
ParseRest(p) ==
  IF p.state # "Headers" \/ p.buffer = <<>> THEN p
  ELSE [p EXCEPT !.state = IF Head(p.buffer).part = "rest" THEN "Complete" ELSE "Error",
                 !.buffer = Tail(@)]

Parse(p, data) == ParseRest(ParseLine(Feed(p, data)))

-----------------------------------------------------------------------------
(* What the handlers do with the connection *)

\* remove_fd and remove_connection.
CloseConnection ==
  /\ open' = FALSE
  /\ mask' = {}
  /\ out' = <<>>
  /\ active' = FALSE

Response(r, says, ok) ==
  [i \in 1..2 |-> [id |-> r.id, part |-> i, says |-> says, ok |-> ok]]

\* Mutant of Reply: EPOLLOUT is not armed.
ReplyUnarmed(r, says, ok) == out' = Response(r, says, ok) /\ mask' = mask

\* set_output_buffer, then EPOLLIN | EPOLLOUT.  Whatever was in the buffer is
\* replaced.
Reply(r, says, ok) == out' = Response(r, says, ok) /\ mask' = {"in", "out"}

\* evaluate_keep_alive: close is what the version and Connection header imply.
EvaluateKeepAlive(r) == ~r.close

Says(ka) == IF ka THEN "keep-alive" ELSE "close"

\* Mutant of ApplyResult: the connection stays exempt from the sweep.
ApplyResultExempt(r, ok) ==
  /\ active' = active
  /\ budget' = Budget(active', cstate, ReadState(cstate), wstate, session)
  /\ Reply(r, IF ok THEN Says(keepAlive) ELSE "close", ok)

\* The completion callbacks of the worker pool and of the proxy: the error
\* answers announce a close, keep_alive_ is not touched.
ApplyResult(r, ok) ==
  /\ active' = FALSE
  /\ budget' = Budget(FALSE, cstate, ReadState(cstate), wstate, session)
  /\ Reply(r, IF ok THEN Says(keepAlive) ELSE "close", ok)

-----------------------------------------------------------------------------
(* handle_read_event, once recv returned data *)

\* A routed or rejected request, or an accepted upgrade, is answered at once.
\* Routed responses always advertise keep-alive.
AnswerNow(r) ==
  /\ r.kind \in {"route", "upgrade", "rejected"}
  /\ keepAlive' = (r.kind = "route" /\ EvaluateKeepAlive(r))
  /\ session' = IF r.kind = "upgrade" THEN "Established" ELSE session
  /\ cstate' = "Writing"
  /\ wstate' = "Body"
  /\ budget' = Budget(active, "Writing", ReadState(cstate), "Body", session')
  /\ Reply(r, IF r.kind = "rejected" THEN "close" ELSE "keep-alive", r.kind # "rejected")
  /\ UNCHANGED <<open, active, pending>>

\* proxy_handler.start, or worker_pool.submit.
StartExchange(r) ==
  /\ r.kind \in {"proxy", "file"}
  /\ keepAlive' = EvaluateKeepAlive(r)
  /\ active' = TRUE
  /\ pending' = pending \cup {r}
  /\ budget' = Budget(active, cstate, ReadState(cstate), wstate, session)
  /\ UNCHANGED <<open, cstate, wstate, session, mask, out>>

\* proxy_handler.start fails before the exchange begins and calls the
\* completion callback itself.
ProxyFailsAtOnce(r) ==
  /\ r.kind = "proxy"
  /\ keepAlive' = EvaluateKeepAlive(r)
  /\ ApplyResult(r, FALSE)
  /\ UNCHANGED <<open, cstate, wstate, session, pending>>

\* Take the pieces read, feed the parser, act on its state.
ReadPieces(data) ==
  /\ parser' = Parse(parser, data)
  /\ CASE parser'.state = "Complete" ->
            LET r == parser'.request[1]
            IN AnswerNow(r) \/ StartExchange(r) \/ ProxyFailsAtOnce(r)
       [] parser'.state = "Error" ->
            CloseConnection /\ UNCHANGED <<cstate, wstate, session, keepAlive, budget, pending>>
       [] OTHER ->
            /\ budget' = Budget(active, cstate, ReadState(cstate), wstate, session)
            /\ UNCHANGED <<open, cstate, wstate, session, keepAlive, mask, active, pending, out>>

Readable == open /\ "in" \in mask /\ cstate # "TlsHandshake"

\* recv returns a prefix of what has arrived.
ReadPlain ==
  /\ Readable /\ ~tls
  /\ \E n \in 1..Len(wire) :
       /\ ReadPieces(SubSeq(wire, 1, n))
       /\ wire' = SubSeq(wire, n + 1, Len(wire))
  /\ UNCHANGED <<pipelines, tls, half, asked, fin, held, sent>>

\* SSL_read decrypts one record, of k pieces, when it holds nothing.
Decrypted(k) == IF held = <<>> THEN [ready |-> SubSeq(wire, 1, k), wire |-> SubSeq(wire, k + 1, Len(wire))]
                ELSE [ready |-> held, wire |-> wire]

\* It hands out at most 8192 bytes of what it holds.  epoll sees only what is
\* still in the kernel.
ReadTls ==
  /\ Readable /\ tls
  /\ wire # <<>>
  /\ \E k \in 1..Len(wire) :
       LET data == Decrypted(k).ready
       IN /\ held # <<>> => k = 1
          /\ wire' = Decrypted(k).wire
          /\ \E n \in 1..Len(data) :
               /\ ReadPieces(SubSeq(data, 1, n))
               /\ held' = SubSeq(data, n + 1, Len(data))
  /\ UNCHANGED <<pipelines, tls, half, asked, fin, sent>>

\* recv returns 0 once everything is read, or epoll reports an error or a
\* hangup, whatever is left to read or to write.
PeerGone ==
  /\ open /\ fin
  /\ CloseConnection
  /\ UNCHANGED <<clientVars, connVars, budget, pending, sent>>

-----------------------------------------------------------------------------
(* The TLS handshake, in the client callback *)

\* SSL_accept wants more: the interest mask follows it.
HandshakeWants(ev, want) ==
  /\ open /\ cstate = "TlsHandshake" /\ ev \in mask
  /\ mask' = {want}
  /\ UNCHANGED <<clientVars, connVars, open, budget, active, pending, out, sent>>

\* SSL_accept completed.  A readable event then goes on to handle_read_event,
\* which sets the header deadline (and will find the data, if any); a writable
\* one goes on to handle_write_event, which finds nothing to send and
\* keep_alive_ still false.
HandshakeDone(ev) ==
  /\ open /\ cstate = "TlsHandshake" /\ ev \in mask
  /\ cstate' = "Reading"
  /\ budget' = Budget(active, "Reading", "Headers", wstate, session)
  /\ IF ev = "in"
     THEN mask' = {"in"} /\ UNCHANGED <<open, out, active>>
     ELSE CloseConnection
  /\ UNCHANGED <<clientVars, wstate, keepAlive, session, held, parser, pending, sent>>

HandshakeFails ==
  /\ open /\ cstate = "TlsHandshake"
  /\ CloseConnection
  /\ UNCHANGED <<clientVars, connVars, budget, pending, sent>>

-----------------------------------------------------------------------------
(* Results, in any order *)

\* A result is applied to the connection, or discarded because it is gone.
ResultArrives(r, ok) ==
  /\ r \in pending
  /\ pending' = pending \ {r}
  /\ IF open THEN ApplyResult(r, ok) ELSE UNCHANGED <<active, budget, out, mask>>
  /\ UNCHANGED <<clientVars, connVars, open, sent>>

\* A proxied response whose headers do not serialize closes the connection.
ResultUnusable(r) ==
  /\ open
  /\ r \in pending /\ r.kind = "proxy"
  /\ pending' = pending \ {r}
  /\ CloseConnection
  /\ budget' = Budget(FALSE, cstate, ReadState(cstate), wstate, session)
  /\ UNCHANGED <<clientVars, connVars, sent>>

-----------------------------------------------------------------------------
(* handle_write_event *)

\* Everything is flushed: frames go on, keep-alive starts over with a new
\* parser, anything else closes.
FlushDone ==
  IF session # "none"
  THEN /\ wstate' = "Complete"
       /\ mask' = {"in"}
       /\ out' = <<>>
       /\ UNCHANGED <<open, active, parser>>
  ELSE IF keepAlive
  THEN /\ mask' = {"in"}
       /\ out' = <<>>
       /\ parser' = Fresh
       /\ UNCHANGED <<open, active, wstate>>
  ELSE CloseConnection /\ UNCHANGED <<wstate, parser>>

Writable == open /\ "out" \in mask /\ cstate # "TlsHandshake"

\* Mutant of Write: write_offset_ is not advanced after a partial write.
WriteNoAdvance(n) ==
  /\ Writable
  /\ n <= Len(out)
  /\ sent' = sent \o SubSeq(out, 1, n)
  /\ IF n = Len(out)
     THEN FlushDone
     ELSE UNCHANGED <<out, open, active, wstate, mask, parser>>
  /\ budget' = Budget(active, cstate, ReadState(cstate), wstate', session)
  /\ UNCHANGED <<clientVars, cstate, keepAlive, session, held, pending>>

\* send takes the first n chunks; with a full socket buffer it takes none.
Write(n) ==
  /\ Writable
  /\ n <= Len(out)
  /\ sent' = sent \o SubSeq(out, 1, n)
  /\ IF n = Len(out)
     THEN FlushDone
     ELSE /\ out' = SubSeq(out, n + 1, Len(out))
          /\ UNCHANGED <<open, active, wstate, mask, parser>>
  /\ budget' = Budget(active, cstate, ReadState(cstate), wstate', session)
  /\ UNCHANGED <<clientVars, cstate, keepAlive, session, held, pending>>

\* send fails: the peer reset the connection.
WriteFails ==
  /\ Writable
  /\ CloseConnection
  /\ UNCHANGED <<clientVars, connVars, budget, pending, sent>>

\* sweep_timeouts finds the deadline passed.
Expire ==
  /\ open
  /\ MayExpire(active, budget)
  /\ CloseConnection
  /\ UNCHANGED <<clientVars, connVars, budget, pending, sent>>

\* Nothing is left to happen on a connection that is gone.
Gone == ~open /\ pending = {} /\ UNCHANGED vars

Client == SendRest \/ ClientCloses \/ \E k \in Kinds, c \in BOOLEAN : SendHead(k, c)
Read == ReadPlain \/ ReadTls
Result(r) == ResultUnusable(r) \/ \E ok \in BOOLEAN : ResultArrives(r, ok)
Handshake == \/ HandshakeFails
             \/ \E ev, want \in {"in", "out"} : HandshakeWants(ev, want)
             \/ \E ev \in {"in", "out"} : HandshakeDone(ev)

Next == \/ Client
        \/ Read
        \/ PeerGone
        \/ Handshake
        \/ \E r \in pending : Result(r)
        \/ \E n \in 0..2 : Write(n)
        \/ WriteFails
        \/ Expire
        \/ Gone

Spec == Init /\ [][Next]_vars

\* The loop serves what epoll reports, exchanges end (worker jobs do, the
\* proxy has its own deadline), and a client that reads makes room.  Nothing
\* forces a client to finish its request, and no deadline has to pass.
FairSpec == Spec /\ WF_vars(Read) /\ WF_vars(PeerGone) /\ WF_vars(\E n \in 1..2 : Write(n))
                 /\ WF_vars(\E r \in pending : Result(r))

-----------------------------------------------------------------------------
(* Properties *)

\* A client that waits for its answers sees whole responses, one per request, in
\* the order of the requests: set_output_buffer never replaces a response that is being
\* written, and none is written twice.
ResponsesInOrder ==
  ~pipelines => \A i \in DOMAIN sent : /\ sent[i].id <= Len(asked)
                                      /\ i = 2 * (sent[i].id - 1) + sent[i].part

\* A connection is exempt from timeouts only while an exchange is outstanding,
\* and is otherwise held to some deadline: no client can pin a connection.
NoImmortalConnection ==
  open => IF active THEN pending # {} ELSE budget # "unlimited"

\* Bytes the client sent and the parser has not consumed, and the count of
\* pieces it has.
Unread == Len(wire) + Len(held) + Len(parser.buffer)
Consumed == 2 * Len(asked) - (IF half THEN 1 ELSE 0) - Unread

\* No byte of a request is thrown away (by the automatic reset of feed, the
\* reset after a flushed response, or a short read): the parser is inside a
\* request exactly when half of one was consumed, and every request consumed
\* completely is being worked on, is being answered or was answered.
RequestsAccounted ==
  open /\ ~pipelines =>
    /\ Consumed % 2 = 1 <=> parser.state = "Headers"
    /\ \A i \in 1..(Consumed \div 2) :
         \/ asked[i] \in pending
         \/ \E c \in Range(out \o sent) : c.id = i /\ c.part = 2

\* A request that was sent completely gets its whole response, unless the
\* connection is closed; no timeout is needed for that.
Answer(k) ==
  Len(asked) = k /\ ~half ~> ~open \/ \E i \in DOMAIN sent : sent[i].id = k /\ sent[i].part = 2

\* On the plain listener, sequential requests are answered.
RequestAnswered == \A k \in 1..MaxReq : ~pipelines /\ ~tls => Answer(k)

\* "Sequential requests on one connection work normally", on the TLS listener
\* as well.
RequestAnsweredOverTls == \A k \in 1..MaxReq : ~pipelines /\ tls => Answer(k)
=============================================================================
