------------------------ MODULE HttpExchange_proofs -------------------------
(***************************************************************************)
(* Proofs about HttpExchange for any number of requests, any kinds of      *)
(* them, pipelined or not, on either listener.                             *)
(***************************************************************************)
EXTENDS HttpExchange, SequenceTheorems, TLAPS

-----------------------------------------------------------------------------
(* Deadlines *)

\* Connection::set_deadline leaves a connection without a deadline only while
\* an exchange is active: read_state_ is never one that would.
LEMMA BudgetIsSet ==
  ASSUME NEW c, NEW w, NEW s
  PROVE  Budget(FALSE, c, ReadState(c), w, s) # "unlimited"
  BY DEF Budget, ReadState

LEMMA BudgetWhileWriting ==
  ASSUME NEW r, NEW s
  PROVE  Budget(FALSE, "Writing", r, "Body", s) # "unlimited"
  BY DEF Budget, Flushing

\* The flag is a flag.
DeadlineInv == active \in BOOLEAN /\ NoImmortalConnection

\* Steps that close the connection.
LEMMA CloseKeepsDeadline ==
  ASSUME CloseConnection
  PROVE  DeadlineInv'
  BY DEF CloseConnection, DeadlineInv, NoImmortalConnection

\* Steps that leave the flag, the deadline and the exchanges alone.
LEMMA StayKeepsDeadline ==
  ASSUME DeadlineInv, UNCHANGED <<open, active, budget, pending>>
  PROVE  DeadlineInv'
  BY DEF DeadlineInv, NoImmortalConnection

\* A deadline that is computed anew from the flag.
LEMMA RefreshKeepsDeadline ==
  ASSUME DeadlineInv, NEW c, NEW w, NEW s, budget' = Budget(active, c, ReadState(c), w, s),
         UNCHANGED <<open, active, pending>>
  PROVE  DeadlineInv'
  <1>1. ~active => budget' = Budget(FALSE, c, ReadState(c), w, s)
    BY DEF DeadlineInv
  <1> QED
    BY <1>1, BudgetIsSet DEF DeadlineInv, NoImmortalConnection

\* A result is applied: the flag is dropped and the deadline set again.
LEMMA ResultKeepsDeadline ==
  ASSUME NEW r, NEW ok, ApplyResult(r, ok)
  PROVE  DeadlineInv'
  <1>1. active' = FALSE /\ budget' # "unlimited"
    BY BudgetIsSet DEF ApplyResult
  <1> QED
    BY <1>1 DEF DeadlineInv, NoImmortalConnection

\* What the read handler does with the pieces it got.
LEMMA ReadKeepsDeadline ==
  ASSUME DeadlineInv, NEW data, ReadPieces(data)
  PROVE  DeadlineInv'
  <1> DEFINE r == parser'.request[1]
  <1>1. \/ AnswerNow(r) \/ StartExchange(r) \/ ProxyFailsAtOnce(r)
        \/ CloseConnection
        \/ /\ budget' = Budget(active, cstate, ReadState(cstate), wstate, session)
           /\ UNCHANGED <<open, active, pending>>
    BY DEF ReadPieces
  <1> HIDE DEF r
  <1>2. CASE AnswerNow(r)
    <2>1. /\ budget' = Budget(active, "Writing", ReadState(cstate), "Body", session')
          /\ UNCHANGED <<open, active, pending>>
      BY <1>2 DEF AnswerNow
    <2>2. active = FALSE => budget' # "unlimited"
      BY <2>1, BudgetWhileWriting
    <2> QED
      BY <2>1, <2>2 DEF DeadlineInv, NoImmortalConnection
  <1>3. CASE StartExchange(r)
    BY <1>3 DEF StartExchange, DeadlineInv, NoImmortalConnection
  <1>4. CASE ProxyFailsAtOnce(r)
    BY <1>4, ResultKeepsDeadline DEF ProxyFailsAtOnce
  <1>5. CASE CloseConnection
    BY <1>5, CloseKeepsDeadline
  <1>6. CASE /\ budget' = Budget(active, cstate, ReadState(cstate), wstate, session)
             /\ UNCHANGED <<open, active, pending>>
    BY <1>6, RefreshKeepsDeadline
  <1> QED
    BY <1>1, <1>2, <1>3, <1>4, <1>5, <1>6

\* Every step preserves the invariant.
LEMMA DeadlineStep == DeadlineInv /\ [Next]_vars => DeadlineInv'
  <1> SUFFICES ASSUME DeadlineInv, [Next]_vars PROVE DeadlineInv'
    OBVIOUS
  <1>1. CASE Client
    BY <1>1, StayKeepsDeadline, Zenon DEF Client, SendRest, ClientCloses, SendHead
  <1>2. CASE Read
    BY <1>2, ReadKeepsDeadline DEF Read, ReadPlain, ReadTls
  <1>3. CASE PeerGone \/ WriteFails \/ Expire \/ HandshakeFails
    BY <1>3, CloseKeepsDeadline DEF PeerGone, WriteFails, Expire, HandshakeFails
  <1>4. ASSUME NEW ev \in {"in", "out"}, NEW want \in {"in", "out"}, HandshakeWants(ev, want)
        PROVE  DeadlineInv'
    BY <1>4, StayKeepsDeadline DEF HandshakeWants
  <1>5. ASSUME NEW ev \in {"in", "out"}, HandshakeDone(ev) PROVE DeadlineInv'
    <2>1. CASE ev = "in"
      <3>1. /\ budget' = Budget(active, "Reading", ReadState("Reading"), wstate, session)
            /\ UNCHANGED <<open, active, pending>>
        BY <1>5, <2>1 DEF HandshakeDone, ReadState
      <3> QED
        BY <3>1, RefreshKeepsDeadline
    <2>2. CASE ev = "out"
      BY <1>5, <2>2, CloseKeepsDeadline DEF HandshakeDone
    <2> QED
      BY <2>1, <2>2
  <1>6. ASSUME NEW r \in pending, Result(r) PROVE DeadlineInv'
    <2>1. CASE ResultUnusable(r)
      BY <2>1, CloseKeepsDeadline DEF ResultUnusable
    <2>2. ASSUME NEW ok \in BOOLEAN, ResultArrives(r, ok) PROVE DeadlineInv'
      <3>1. CASE open
        BY <2>2, <3>1, ResultKeepsDeadline DEF ResultArrives
      <3>2. CASE ~open
        BY <2>2, <3>2 DEF ResultArrives, DeadlineInv, NoImmortalConnection
      <3> QED
        BY <3>1, <3>2
    <2> QED
      BY <1>6, <2>1, <2>2 DEF Result
  <1>7. ASSUME NEW n \in 0..2, Write(n) PROVE DeadlineInv'
    <2>1. CloseConnection \/ UNCHANGED <<open, active>>
      BY <1>7, Zenon DEF Write, FlushDone
    <2>2. budget' = Budget(active, cstate, ReadState(cstate), wstate', session) /\ UNCHANGED pending
      BY <1>7 DEF Write
    <2> QED
      BY <2>1, <2>2, CloseKeepsDeadline, RefreshKeepsDeadline
  <1>8. CASE Gone \/ UNCHANGED vars
    BY <1>8, StayKeepsDeadline DEF Gone, vars
  <1> QED
    BY <1>1, <1>2, <1>3, <1>4, <1>5, <1>6, <1>7, <1>8 DEF Next, Handshake

\* No connection is exempt from the sweep unless an exchange of it is under
\* way.
THEOREM NoConnectionIsImmortal == Spec => []NoImmortalConnection
  <1>1. Init => DeadlineInv
    BY BudgetIsSet DEF Init, DeadlineInv, NoImmortalConnection
  <1> QED
    BY <1>1, DeadlineStep, PTL DEF Spec, DeadlineInv

-----------------------------------------------------------------------------
(* A client that waits for its answers *)

\* Its last request, and the two pieces in which a request travels.
Latest == asked[Len(asked)]
HeadOf(r) == [req |-> r, part |-> "head"]
RestOf(r) == [req |-> r, part |-> "rest"]

\* The parser inside a request and behind one.
Parsing(r) == [state |-> "Headers", request |-> <<r>>, buffer |-> <<>>]
Parsed(r) == [state |-> "Complete", request |-> <<r>>, buffer |-> <<>>]

Quiet == wire = <<>> /\ held = <<>> /\ half = FALSE

\* Where the exchange is: everything was answered; the head of the latest
\* request has not been read; it has; the request is with the workers or the
\* proxy; its answer is being written; frames have taken over.
Idle ==
  /\ parser = Fresh /\ Quiet
  /\ pending = {} /\ out = <<>> /\ session = "none"
  /\ Len(sent) = 2 * Len(asked)

Arriving ==
  /\ Len(asked) > 0
  /\ parser = Fresh /\ held = <<>>
  /\ wire = IF half THEN <<HeadOf(Latest)>> ELSE <<HeadOf(Latest), RestOf(Latest)>>
  /\ pending = {} /\ out = <<>> /\ session = "none"
  /\ Len(sent) = 2 * Len(asked) - 2

Begun ==
  /\ Len(asked) > 0
  /\ parser = Parsing(Latest)
  /\ IF half THEN wire = <<>> /\ held = <<>>
     ELSE \/ wire = <<RestOf(Latest)>> /\ held = <<>>
          \/ wire = <<>> /\ held = <<RestOf(Latest)>>
  /\ pending = {} /\ out = <<>> /\ session = "none"
  /\ Len(sent) = 2 * Len(asked) - 2

InExchange ==
  /\ Len(asked) > 0
  /\ parser = Parsed(Latest) /\ Quiet
  /\ pending = {Latest} /\ out = <<>> /\ session = "none"
  /\ Len(sent) = 2 * Len(asked) - 2

Answering ==
  /\ Len(asked) > 0
  /\ parser = Parsed(Latest) /\ Quiet
  /\ pending = {}
  /\ session # "none" => Latest.kind = "upgrade"
  /\ Len(out) \in 1..2
  /\ \A i \in 1..Len(out) : out[i].id = Len(asked) /\ out[i].part = 2 - Len(out) + i
  /\ Len(sent) = 2 * Len(asked) - Len(out)

Upgraded ==
  /\ Len(asked) > 0
  /\ parser = Parsed(Latest) /\ Quiet
  /\ pending = {} /\ out = <<>>
  /\ session # "none" /\ Latest.kind = "upgrade"
  /\ Len(sent) = 2 * Len(asked)

\* EPOLLOUT is armed only while there is something to write.
Disarmed == out = <<>> /\ cstate # "TlsHandshake" => "out" \notin mask

Turn == /\ Idle \/ Arriving \/ Begun \/ InExchange \/ Answering \/ Upgraded
        /\ Disarmed

\* Requests are numbered in order, and so are the chunks that were sent.
Numbered == \A i \in 1..Len(asked) : asked[i].id = i

Lined == \A i \in 1..Len(sent) : /\ sent[i].id <= Len(asked)
                                  /\ i = 2 * (sent[i].id - 1) + sent[i].part

WaitingInv ==
  /\ asked \in Seq(Requests) /\ sent \in Seq(Chunks) /\ out \in Seq(Chunks)
  /\ Numbered
  /\ Lined
  /\ open => Turn

\* For a client that pipelines nothing is claimed.
InTurn == ~pipelines => WaitingInv

\* Sequences of one and of two elements, and what they are cut into.
LEMMA OneElement ==
  ASSUME NEW a
  PROVE  /\ Len(<<a>>) = 1 /\ SubSeq(<<a>>, 1, 1) = <<a>> /\ SubSeq(<<a>>, 2, 1) = <<>>
  <1>1. <<a>> \in Seq({a}) /\ Len(<<a>>) = 1 /\ <<a>>[1] = a
    OBVIOUS
  <1>2. \A i \in 1..1 : <<a>>[i] \in {a}
    BY <1>1
  <1>3. /\ SubSeq(<<a>>, 1, 1) \in Seq({a}) /\ Len(SubSeq(<<a>>, 1, 1)) = 1
        /\ \A i \in 1..1 : SubSeq(<<a>>, 1, 1)[i] = <<a>>[i]
    BY <1>2, SubSeqProperties
  <1>4. SubSeq(<<a>>, 1, 1) = <<a>>
    BY <1>1, <1>3, SeqEqual
  <1> QED
    BY <1>1, <1>4, SubSeqEmpty

LEMMA TwoElements ==
  ASSUME NEW a, NEW b
  PROVE  /\ Append(<<a>>, b) = <<a, b>> /\ Len(<<a, b>>) = 2
         /\ SubSeq(<<a, b>>, 1, 1) = <<a>> /\ SubSeq(<<a, b>>, 2, 2) = <<b>>
         /\ SubSeq(<<a, b>>, 1, 2) = <<a, b>> /\ SubSeq(<<a, b>>, 3, 2) = <<>>
  <1> DEFINE S == {a, b}
             s == <<a, b>>
  <1>1. /\ <<a>> \in Seq(S) /\ Len(<<a>>) = 1 /\ <<a>>[1] = a
        /\ <<b>> \in Seq(S) /\ Len(<<b>>) = 1 /\ <<b>>[1] = b
        /\ s \in Seq(S) /\ Len(s) = 2 /\ s[1] = a /\ s[2] = b
    OBVIOUS
  <1>2. Append(<<a>>, b) = s
    <2>1. Append(<<a>>, b) \in Seq(S) /\ Len(Append(<<a>>, b)) = 2
      BY <1>1
    <2>2. \A i \in 1..2 : Append(<<a>>, b)[i] = s[i]
      BY <1>1
    <2> QED
      BY <1>1, <2>1, <2>2, SeqEqual
  <1>3. \A i \in 1..2 : s[i] \in S
    BY <1>1
  <1> HIDE DEF S, s
  <1>4. /\ SubSeq(s, 1, 1) \in Seq(S) /\ Len(SubSeq(s, 1, 1)) = 1
        /\ \A i \in 1..1 : SubSeq(s, 1, 1)[i] = s[i]
    BY <1>3, SubSeqProperties
  <1>5. /\ SubSeq(s, 2, 2) \in Seq(S) /\ Len(SubSeq(s, 2, 2)) = 1
        /\ \A i \in 1..1 : SubSeq(s, 2, 2)[i] = s[i + 1]
    BY <1>3, SubSeqProperties
  <1>6. /\ SubSeq(s, 1, 2) \in Seq(S) /\ Len(SubSeq(s, 1, 2)) = 2
        /\ \A i \in 1..2 : SubSeq(s, 1, 2)[i] = s[i]
    BY <1>3, SubSeqProperties
  <1>11. \A t, u \in Seq(S) : Len(t) = 1 /\ Len(u) = 1 /\ t[1] = u[1] => t = u
    <2> SUFFICES ASSUME NEW t \in Seq(S), NEW u \in Seq(S), Len(t) = 1, Len(u) = 1, t[1] = u[1]
                 PROVE  t = u
      OBVIOUS
    <2>1. \A i \in 1..Len(t) : t[i] = u[i]
      OBVIOUS
    <2> QED
      BY <2>1, SeqEqual
  <1>12. SubSeq(s, 1, 1)[1] = a /\ SubSeq(s, 2, 2)[1] = b
    BY <1>1, <1>4, <1>5
  <1>7. SubSeq(s, 1, 1) = <<a>>
    BY <1>1, <1>4, <1>11, <1>12, Zenon
  <1>8. SubSeq(s, 2, 2) = <<b>>
    BY <1>1, <1>5, <1>11, <1>12, Zenon
  <1>9. SubSeq(s, 1, 2) = s
    BY <1>1, <1>6, SeqEqual
  <1>10. SubSeq(s, 3, 2) = <<>>
    BY SubSeqEmpty
  <1> QED
    BY <1>1, <1>2, <1>7, <1>8, <1>9, <1>10 DEF s

\* What the parser makes of the pieces of one request.
LEMMA ParsesHead ==
  ASSUME NEW r
  PROVE  Parse(Fresh, <<HeadOf(r)>>) = Parsing(r) \/ Parse(Fresh, <<HeadOf(r)>>).state = "Error"
  BY DEF Parse, Feed, ParseLine, ParseRest, Fresh, Parsing, HeadOf

LEMMA ParsesRest ==
  ASSUME NEW r
  PROVE  Parse(Parsing(r), <<RestOf(r)>>) = Parsed(r)
  <1> DEFINE p == [state |-> "Headers", request |-> <<r>>, buffer |-> <<RestOf(r)>>]
  <1>1. <<>> \o <<RestOf(r)>> = <<RestOf(r)>>
    OBVIOUS
  <1>2. Feed(Parsing(r), <<RestOf(r)>>) = p
    BY <1>1 DEF Feed, Parsing
  <1>3. ParseLine(p) = p
    BY DEF ParseLine
  <1>4. Tail(<<RestOf(r)>>) = <<>> /\ Head(<<RestOf(r)>>).part = "rest" /\ <<RestOf(r)>> # <<>>
    BY DEF RestOf
  <1>5. ParseRest(p) = [p EXCEPT !.state = "Complete", !.buffer = <<>>]
    BY <1>4 DEF ParseRest
  <1> QED
    BY <1>2, <1>3, <1>5 DEF Parse, Parsed

LEMMA ParsesRequest ==
  ASSUME NEW r
  PROVE  \/ Parse(Fresh, <<HeadOf(r), RestOf(r)>>) = Parsed(r)
         \/ Parse(Fresh, <<HeadOf(r), RestOf(r)>>).state = "Error"
  <1> DEFINE d == <<HeadOf(r), RestOf(r)>>
             q(s) == [state |-> s, request |-> <<r>>, buffer |-> <<RestOf(r)>>]
  <1>1. <<>> \o d = d /\ d # <<>> /\ Head(d) = HeadOf(r) /\ Tail(d) = <<RestOf(r)>>
    OBVIOUS
  <1>2. Feed(Fresh, d) = [state |-> "RequestLine", request |-> <<>>, buffer |-> d]
    BY <1>1 DEF Feed, Fresh
  <1>8. Head(d).req = r
    BY <1>1 DEF HeadOf
  <1> HIDE DEF d
  <1>9. LET s == IF Head(d).part = "head" /\ Head(d).req.kind # "bad" THEN "Headers" ELSE "Error"
        IN  ParseLine(Feed(Fresh, d)) = [state |-> s, request |-> <<Head(d).req>>, buffer |-> Tail(d)]
    BY <1>1, <1>2 DEF ParseLine
  <1>3. ParseLine(Feed(Fresh, d)) = q("Headers") \/ ParseLine(Feed(Fresh, d)) = q("Error")
    BY <1>1, <1>8, <1>9
  <1>4. Tail(<<RestOf(r)>>) = <<>> /\ Head(<<RestOf(r)>>).part = "rest" /\ <<RestOf(r)>> # <<>>
    BY DEF RestOf
  <1>5. ParseRest(q("Headers")) = [q("Headers") EXCEPT !.state = "Complete", !.buffer = <<>>]
    BY <1>4 DEF ParseRest
  <1>6. ParseRest(q("Headers")) = Parsed(r)
    BY <1>5 DEF Parsed
  <1>7. ParseRest(q("Error")).state = "Error"
    BY DEF ParseRest
  <1> QED
    BY <1>3, <1>6, <1>7 DEF Parse, d

\* Steps that close the connection.
LEMMA CloseKeepsTurn ==
  ASSUME WaitingInv, CloseConnection, UNCHANGED <<asked, sent>>
  PROVE  WaitingInv'
  <1>1. out' = <<>> /\ open' = FALSE
    BY DEF CloseConnection
  <1>2. <<>> \in Seq(Chunks)
    OBVIOUS
  <1>3. (asked \in Seq(Requests) /\ sent \in Seq(Chunks))' /\ Numbered' /\ Lined'
    BY DEF WaitingInv, Numbered, Lined
  <1> QED
    BY <1>1, <1>2, <1>3 DEF WaitingInv

\* A head may be sent only when everything was answered.
LEMMA MaySendWhenIdle ==
  ASSUME WaitingInv, open, ~pipelines, MaySend
  PROVE  Idle
  <1>1. asked \in Seq(Requests) /\ sent \in Seq(Chunks)
    BY DEF WaitingInv
  <1>2. CASE Len(asked) = 0
    BY <1>2 DEF WaitingInv, Turn, Arriving, Begun, InExchange, Answering, Upgraded
  <1>3. CASE Len(asked) > 0
    <2>1. Len(asked) \in DOMAIN asked
      BY <1>1, <1>3
    <2>2. PICK i \in DOMAIN sent : sent[i].id = Latest.id /\ sent[i].part = 2
      BY <2>1 DEF MaySend, Answered, Latest
    <2>3. Latest.id = Len(asked) /\ Latest.kind # "upgrade"
      BY <1>1, <1>3, <2>1 DEF WaitingInv, Numbered, Latest, MaySend
    <2>4. i \in 1..Len(sent) /\ i = 2 * Len(asked)
      BY <1>1, <2>2, <2>3 DEF WaitingInv, Lined
    <2>5. Len(sent) >= 2 * Len(asked)
      BY <1>1, <2>4
    <2>6. \A n, m \in Nat, k \in 1..2 : m >= 2 * n => m # 2 * n - k
      OBVIOUS
    <2>9. Len(asked) \in Nat /\ Len(sent) \in Nat
      BY <1>1
    <2>10. \A k \in 1..2 : Len(sent) # 2 * Len(asked) - k
      BY ONLY <2>5, <2>6, <2>9
    <2>7. ~Arriving /\ ~Begun /\ ~InExchange
      BY <2>10 DEF Arriving, Begun, InExchange
    <2>8. ~Answering /\ ~Upgraded
      BY <2>3, <2>10 DEF Answering, Upgraded
    <2> QED
      BY <2>7, <2>8 DEF WaitingInv, Turn
  <1> QED
    BY <1>1, <1>2, <1>3

\* The client sends a head.
LEMMA HeadKeepsTurn ==
  ASSUME WaitingInv, ~pipelines, NEW kind \in Kinds, NEW close \in BOOLEAN, SendHead(kind, close)
  PROVE  WaitingInv'
  <1>1. open /\ Idle /\ Disarmed
    BY MaySendWhenIdle DEF SendHead, WaitingInv, Turn
  <1>2. asked \in Seq(Requests) /\ sent \in Seq(Chunks) /\ out \in Seq(Chunks)
    BY DEF WaitingInv
  <1>3. PICK r : r = [id |-> Len(asked) + 1, kind |-> kind, close |-> close]
    OBVIOUS
  <1>4. /\ asked' = Append(asked, r) /\ wire' = Append(wire, HeadOf(r)) /\ half' = TRUE
        /\ Len(asked) < MaxReq
    BY <1>3 DEF SendHead, HeadOf
  <1>5. UNCHANGED <<open, cstate, session, held, parser, mask, pending, out, sent>>
    BY DEF SendHead, connVars
  <1>6. Len(asked) + 1 \in 1..MaxReq
    BY <1>2, <1>4, ExchangeAssumption
  <1>7. r \in Requests /\ r.id = Len(asked) + 1
    BY <1>3, <1>6 DEF Requests
  <1>8. /\ asked' \in Seq(Requests) /\ Len(asked') = Len(asked) + 1 /\ asked'[Len(asked) + 1] = r
        /\ \A i \in 1..Len(asked) : asked'[i] = asked[i]
    BY <1>2, <1>4, <1>7
  <1>9. Numbered'
    <2> SUFFICES ASSUME NEW i \in 1..Len(asked') PROVE asked'[i].id = i
      BY DEF Numbered
    <2>1. i \in 1..Len(asked) \/ i = Len(asked) + 1
      BY <1>2, <1>8
    <2> QED
      BY <1>7, <1>8, <2>1 DEF WaitingInv, Numbered
  <1>10. Lined'
    <2>3. \A c \in Chunks : c.id \in Nat
      BY ExchangeAssumption DEF Chunks
    <2>1. \A i \in 1..Len(sent) : sent[i].id \in Nat
      BY <1>2, <2>3
    <2>2. \A i \in 1..Len(sent) : sent[i].id <= Len(asked) + 1
      BY <1>2, <2>1 DEF WaitingInv, Lined
    <2> QED
      BY <1>5, <1>8, <2>2 DEF WaitingInv, Lined
  <1>11. Latest' = r
    BY <1>8 DEF Latest
  <1>12. wire' = <<HeadOf(r)>>
    BY <1>1, <1>4 DEF Idle, Quiet
  <1>13. Len(sent') = 2 * Len(asked') - 2 /\ Len(asked') > 0
    BY <1>1, <1>2, <1>5, <1>8 DEF Idle
  <1>14. Arriving'
    BY <1>1, <1>4, <1>5, <1>11, <1>12, <1>13 DEF Idle, Quiet, Arriving, HeadOf, Fresh
  <1>15. Disarmed'
    BY <1>1, <1>5 DEF Disarmed
  <1> QED
    BY <1>2, <1>5, <1>8, <1>9, <1>10, <1>14, <1>15 DEF WaitingInv, Turn

\* Steps that leave both histories alone need only keep the exchange's place.
LEMMA SameHistories ==
  ASSUME WaitingInv, UNCHANGED <<asked, sent>>, out' \in Seq(Chunks), open' => Turn'
  PROVE  WaitingInv'
  BY DEF WaitingInv, Numbered, Lined

\* The client sends the rest.
LEMMA RestKeepsTurn ==
  ASSUME WaitingInv, SendRest
  PROVE  WaitingInv'
  <1>1. open /\ half /\ Turn /\ Disarmed
    BY DEF SendRest, WaitingInv, Turn
  <1>2. asked \in Seq(Requests) /\ out \in Seq(Chunks)
    BY DEF WaitingInv
  <1>3. UNCHANGED <<asked, open, cstate, session, held, parser, mask, pending, out, sent>>
    BY DEF SendRest, connVars
  <1>4. half' = FALSE /\ Latest' = Latest
    BY <1>3 DEF SendRest, Latest
  <1>5. wire' = Append(wire, RestOf(Latest))
    BY DEF SendRest, RestOf, Latest, Last
  <1>6. Disarmed'
    BY <1>1, <1>3 DEF Disarmed
  <1>7. CASE Arriving
    <2>1. wire = <<HeadOf(Latest)>>
      BY <1>1, <1>7 DEF Arriving
    <2>4. \A a, b : Append(<<a>>, b) = <<a, b>>
      BY TwoElements
    <2>2. wire' = <<HeadOf(Latest), RestOf(Latest)>>
      BY <1>5, <2>1, <2>4, Zenon
    <2>3. Arriving'
      BY <1>3, <1>4, <1>7, <2>2, Zenon DEF Arriving, HeadOf, RestOf, Fresh
    <2> QED
      BY <1>2, <1>3, <1>6, <2>3, SameHistories DEF Turn
  <1>8. CASE Begun
    <2>1. wire = <<>> /\ held = <<>>
      BY <1>1, <1>8 DEF Begun
    <2>2. wire' = <<RestOf(Latest)>>
      BY <1>5, <2>1
    <2>3. Begun'
      BY <1>3, <1>4, <1>8, <2>1, <2>2 DEF Begun, RestOf, Parsing
    <2> QED
      BY <1>2, <1>3, <1>6, <2>3, SameHistories DEF Turn
  <1> QED
    BY <1>1, <1>7, <1>8 DEF Turn, Idle, InExchange, Answering, Upgraded, Quiet

\* Steps that leave the exchange where it is and do not arm EPOLLOUT.
LEMMA StayKeepsTurn ==
  ASSUME WaitingInv, open /\ Disarmed => Disarmed',
         UNCHANGED <<wire, half, asked, open, held, parser, session, pending, out, sent>>
  PROVE  WaitingInv'
  <1>1. Latest' = Latest
    BY DEF Latest
  <1>2. open /\ Turn => Turn'
    BY <1>1, Zenon DEF Turn, Idle, Arriving, Begun, InExchange, Answering, Upgraded, Quiet,
                       HeadOf, RestOf, Parsing, Parsed, Fresh
  <1>3. out' \in Seq(Chunks) /\ (open' => Turn')
    BY <1>2 DEF WaitingInv
  <1> QED
    BY <1>3, SameHistories

\* What one call of recv or SSL_read takes from one piece, or from two.
LEMMA ReadNothing ==
  ASSUME wire = <<>>
  PROVE  ~Read
  <1>1. Len(wire) = 0
    OBVIOUS
  <1> QED
    BY <1>1 DEF Read, ReadPlain, ReadTls

LEMMA ReadOne ==
  ASSUME NEW a, wire = <<a>>, held = <<>>, Read
  PROVE  ReadPieces(<<a>>) /\ wire' = <<>> /\ held' = <<>>
  <1>1. Len(wire) = 1 /\ SubSeq(wire, 1, 1) = <<a>> /\ SubSeq(wire, 2, 1) = <<>>
    BY OneElement
  <1>2. Len(<<a>>) = 1 /\ SubSeq(<<a>>, 1, 1) = <<a>> /\ SubSeq(<<a>>, 2, 1) = <<>>
    BY OneElement
  <1>3. \A n \in 1..1 : n = 1
    OBVIOUS
  <1>4. CASE ReadPlain
    <2>1. PICK n \in 1..Len(wire) : ReadPieces(SubSeq(wire, 1, n)) /\ wire' = SubSeq(wire, n + 1, Len(wire))
      BY <1>4 DEF ReadPlain
    <2>2. n = 1 /\ n + 1 = 2
      BY <1>1, <1>3, <2>1
    <2> QED
      BY <1>1, <1>4, <2>1, <2>2 DEF ReadPlain
  <1>5. CASE ReadTls
    <2>1. PICK k \in 1..Len(wire) :
             /\ wire' = Decrypted(k).wire
             /\ \E n \in 1..Len(Decrypted(k).ready) :
                  /\ ReadPieces(SubSeq(Decrypted(k).ready, 1, n))
                  /\ held' = SubSeq(Decrypted(k).ready, n + 1, Len(Decrypted(k).ready))
      BY <1>5 DEF ReadTls
    <2>2. k = 1 /\ k + 1 = 2
      BY <1>1, <1>3, <2>1
    <2>3. Decrypted(k) = [ready |-> <<a>>, wire |-> <<>>]
      BY <1>1, <2>2 DEF Decrypted
    <2>4. PICK n \in 1..1 : ReadPieces(SubSeq(<<a>>, 1, n)) /\ held' = SubSeq(<<a>>, n + 1, 1)
      BY <1>2, <2>1, <2>3
    <2>5. n = 1 /\ n + 1 = 2
      BY <1>3, <2>4
    <2>6. ReadPieces(<<a>>) /\ held' = <<>>
      BY <1>2, <2>4, <2>5, Zenon
    <2> QED
      BY <2>1, <2>3, <2>6
  <1> QED
    BY <1>4, <1>5 DEF Read

LEMMA ReadTwo ==
  ASSUME NEW a, NEW b, wire = <<a, b>>, held = <<>>, Read
  PROVE  \/ ReadPieces(<<a, b>>) /\ wire' = <<>> /\ held' = <<>>
         \/ ReadPieces(<<a>>) /\ wire' = <<b>> /\ held' = <<>>
         \/ ReadPieces(<<a>>) /\ wire' = <<>> /\ held' = <<b>>
  <1>1. /\ Len(<<a, b>>) = 2
        /\ SubSeq(<<a, b>>, 1, 1) = <<a>> /\ SubSeq(<<a, b>>, 2, 2) = <<b>>
        /\ SubSeq(<<a, b>>, 1, 2) = <<a, b>> /\ SubSeq(<<a, b>>, 3, 2) = <<>>
    BY TwoElements
  <1>2. Len(<<a>>) = 1 /\ SubSeq(<<a>>, 1, 1) = <<a>> /\ SubSeq(<<a>>, 2, 1) = <<>>
    BY OneElement
  <1>3. \A n \in 1..2 : (n = 1 /\ n + 1 = 2) \/ (n = 2 /\ n + 1 = 3)
    OBVIOUS
  <1>4. CASE ReadPlain
    <2>1. PICK n \in 1..2 : ReadPieces(SubSeq(<<a, b>>, 1, n)) /\ wire' = SubSeq(<<a, b>>, n + 1, 2)
      BY <1>1, <1>4 DEF ReadPlain
    <2>2. held' = <<>>
      BY <1>4 DEF ReadPlain
    <2> QED
      BY <1>1, <1>3, <2>1, <2>2
  <1>5. CASE ReadTls
    <2>1. PICK k \in 1..2 :
             /\ wire' = Decrypted(k).wire
             /\ \E n \in 1..Len(Decrypted(k).ready) :
                  /\ ReadPieces(SubSeq(Decrypted(k).ready, 1, n))
                  /\ held' = SubSeq(Decrypted(k).ready, n + 1, Len(Decrypted(k).ready))
      BY <1>1, <1>5 DEF ReadTls
    <2>2. CASE k = 1
      <3>1. Decrypted(k) = [ready |-> <<a>>, wire |-> <<b>>]
        BY <1>1, <2>2 DEF Decrypted
      <3>2. PICK n \in 1..1 : ReadPieces(SubSeq(<<a>>, 1, n)) /\ held' = SubSeq(<<a>>, n + 1, 1)
        BY <1>2, <2>1, <3>1
      <3>3. n = 1 /\ n + 1 = 2
        BY <3>2
      <3>4. ReadPieces(<<a>>) /\ held' = <<>>
        BY <1>2, <3>2, <3>3, Zenon
      <3> QED
        BY <2>1, <3>1, <3>4
    <2>3. CASE k = 2
      <3>1. Decrypted(k) = [ready |-> <<a, b>>, wire |-> <<>>]
        BY <1>1, <2>3 DEF Decrypted
      <3>2. PICK n \in 1..2 : ReadPieces(SubSeq(<<a, b>>, 1, n)) /\ held' = SubSeq(<<a, b>>, n + 1, 2)
        BY <1>1, <2>1, <3>1
      <3>3. wire' = <<>>
        BY <2>1, <3>1
      <3> QED
        BY <1>1, <1>3, <3>2, <3>3
    <2> QED
      BY <1>3, <2>1, <2>2, <2>3
  <1> QED
    BY <1>4, <1>5 DEF Read

\* The answer to the latest request, put into an empty buffer.
LEMMA ReplyKeepsTurn ==
  ASSUME WaitingInv, Len(asked) > 0, NEW says \in {"close", "keep-alive"}, NEW ok \in BOOLEAN,
         Reply(Latest, says, ok), parser' = Parsed(Latest), Quiet', pending' = {},
         session' # "none" => Latest.kind = "upgrade",
         Len(sent) = 2 * Len(asked) - 2, UNCHANGED <<asked, sent>>
  PROVE  WaitingInv'
  <1>1. asked \in Seq(Requests) /\ Latest' = Latest
    BY DEF WaitingInv, Latest
  <1>2. Latest \in Requests /\ Latest.id = Len(asked)
    BY <1>1 DEF WaitingInv, Numbered, Latest
  <1>3. PICK n : n = Latest.id
    OBVIOUS
  <1>4. n \in 1..MaxReq /\ n = Len(asked)
    BY <1>2, <1>3 DEF Requests
  <1>5. out' = [i \in 1..2 |-> [id |-> n, part |-> i, says |-> says, ok |-> ok]]
    BY <1>3 DEF Reply, Response
  <1>6. \A i \in 1..2 : [id |-> n, part |-> i, says |-> says, ok |-> ok] \in Chunks
    BY <1>4 DEF Chunks
  <1>7. out' \in Seq(Chunks) /\ Len(out') = 2
    BY <1>5, <1>6
  <1>8. \A i \in 1..2 : out'[i].id = n /\ out'[i].part = i
    BY <1>5
  <1>9. \A i \in 1..Len(out') : out'[i].id = Len(asked') /\ out'[i].part = 2 - Len(out') + i
    <2>1. \A i \in 1..2 : i = 2 - 2 + i
      OBVIOUS
    <2> QED
      BY <1>4, <1>7, <1>8, <2>1
  <1>10. Len(out') \in 1..2 /\ Len(sent') = 2 * Len(asked') - Len(out')
    BY <1>7
  <1>11. Answering'
    BY <1>1, <1>9, <1>10 DEF Answering, Parsed
  <1>12. Disarmed'
    BY <1>7 DEF Disarmed
  <1> QED
    BY <1>7, <1>11, <1>12, SameHistories DEF Turn

\* The request is complete: it is answered at once, or an exchange begins.
LEMMA CompleteKeepsTurn ==
  ASSUME WaitingInv, Len(asked) > 0, NEW data, ReadPieces(data), parser' = Parsed(Latest), Quiet',
         pending = {}, out = <<>>, session = "none", Len(sent) = 2 * Len(asked) - 2, Disarmed,
         Readable, UNCHANGED <<asked, sent>>
  PROVE  WaitingInv'
  <1>1. parser'.state = "Complete" /\ parser'.request[1] = Latest
    BY DEF Parsed
  <1>2. AnswerNow(Latest) \/ StartExchange(Latest) \/ ProxyFailsAtOnce(Latest)
    BY <1>1 DEF ReadPieces
  <1>3. asked \in Seq(Requests) /\ Latest' = Latest
    BY DEF WaitingInv, Latest
  <1>4. CASE AnswerNow(Latest)
    <2>1. PICK says, ok : /\ Reply(Latest, says, ok)
                          /\ says \in {"close", "keep-alive"} /\ ok \in BOOLEAN
      <3> DEFINE q == IF Latest.kind = "rejected" THEN "close" ELSE "keep-alive"
                 o == Latest.kind # "rejected"
      <3>1. q \in {"close", "keep-alive"} /\ o \in BOOLEAN
        OBVIOUS
      <3>2. Reply(Latest, q, o)
        BY <1>4, Zenon DEF AnswerNow
      <3> QED
        BY <3>1, <3>2, Zenon
    <2>2. session' # "none" => Latest.kind = "upgrade"
      BY <1>4 DEF AnswerNow
    <2>3. pending' = {}
      BY <1>4 DEF AnswerNow
    <2> QED
      BY <2>1, <2>2, <2>3, ReplyKeepsTurn
  <1>5. CASE StartExchange(Latest)
    <2>1. pending' = {Latest} /\ UNCHANGED <<open, cstate, session, mask, out>>
      BY <1>5 DEF StartExchange
    <2>2. InExchange'
      BY <1>3, <2>1 DEF InExchange, Parsed
    <2>3. Disarmed'
      BY <2>1 DEF Disarmed
    <2>4. out' \in Seq(Chunks)
      BY <2>1 DEF WaitingInv
    <2> QED
      BY <2>2, <2>3, <2>4, SameHistories DEF Turn
  <1>6. CASE ProxyFailsAtOnce(Latest)
    <2>1. Reply(Latest, "close", FALSE) /\ UNCHANGED <<session, pending>>
      BY <1>6 DEF ProxyFailsAtOnce, ApplyResult
    <2> QED
      BY <2>1, ReplyKeepsTurn
  <1> QED
    BY <1>2, <1>4, <1>5, <1>6

\* The head was read: the parser waits for the rest, or rejects the request.
LEMMA HeadReadKeepsTurn ==
  ASSUME WaitingInv, Arriving, Disarmed, ReadPieces(<<HeadOf(Latest)>>),
         IF half THEN wire' = <<>> /\ held' = <<>>
         ELSE \/ wire' = <<RestOf(Latest)>> /\ held' = <<>>
              \/ wire' = <<>> /\ held' = <<RestOf(Latest)>>,
         UNCHANGED <<half, asked, sent>>
  PROVE  WaitingInv'
  <1>1. parser' = Parse(Fresh, <<HeadOf(Latest)>>)
    BY DEF ReadPieces, Arriving
  <1>2. Latest' = Latest
    BY DEF Latest
  <1>3. CASE parser' = Parsing(Latest)
    <2>1. parser'.state = "Headers"
      BY <1>3 DEF Parsing
    <2>2. UNCHANGED <<open, cstate, session, mask, pending, out>>
      BY <2>1 DEF ReadPieces
    <2>3. Begun'
      BY <1>2, <1>3, <2>2 DEF Arriving, Begun, Parsing, RestOf
    <2>4. Disarmed'
      BY <2>2 DEF Disarmed
    <2>5. out' \in Seq(Chunks)
      BY <2>2 DEF WaitingInv
    <2> QED
      BY <2>3, <2>4, <2>5, SameHistories DEF Turn
  <1>4. CASE parser'.state = "Error"
    <2>1. CloseConnection
      BY <1>4 DEF ReadPieces
    <2> QED
      BY <2>1, CloseKeepsTurn
  <1> QED
    BY <1>1, <1>3, <1>4, ParsesHead

\* The read handler.
LEMMA ReadKeepsTurn ==
  ASSUME WaitingInv, Read
  PROVE  WaitingInv'
  <1>1. Readable /\ UNCHANGED <<half, asked, sent>>
    BY DEF Read, ReadPlain, ReadTls
  <1>2. Turn /\ Disarmed
    BY <1>1 DEF Readable, WaitingInv, Turn
  <1>3. wire # <<>>
    BY ReadNothing
  <1>4. CASE Arriving /\ half
    <2>1. ReadPieces(<<HeadOf(Latest)>>) /\ wire' = <<>> /\ held' = <<>>
      BY <1>4, ReadOne DEF Arriving
    <2> QED
      BY <1>1, <1>2, <1>4, <2>1, HeadReadKeepsTurn
  <1>5. CASE Arriving /\ ~half
    <2>1. wire = <<HeadOf(Latest), RestOf(Latest)>> /\ held = <<>>
      BY <1>5 DEF Arriving
    <2>2. CASE ReadPieces(<<HeadOf(Latest), RestOf(Latest)>>) /\ wire' = <<>> /\ held' = <<>>
      <3>1. parser' = Parse(Fresh, <<HeadOf(Latest), RestOf(Latest)>>)
        BY <1>5, <2>2 DEF ReadPieces, Arriving
      <3>2. CASE parser' = Parsed(Latest)
        <4>1. /\ Len(asked) > 0 /\ pending = {} /\ out = <<>> /\ session = "none"
              /\ Len(sent) = 2 * Len(asked) - 2
          BY <1>5 DEF Arriving
        <4>2. Quiet'
          BY <1>1, <1>5, <2>2 DEF Quiet, WaitingInv
        <4> QED
          BY <1>1, <1>2, <2>2, <3>2, <4>1, <4>2, CompleteKeepsTurn
      <3>3. CASE parser'.state = "Error"
        <4>1. CloseConnection
          BY <2>2, <3>3 DEF ReadPieces
        <4> QED
          BY <1>1, <4>1, CloseKeepsTurn
      <3> QED
        BY <3>1, <3>2, <3>3, ParsesRequest
    <2>3. CASE /\ ReadPieces(<<HeadOf(Latest)>>)
               /\ \/ wire' = <<RestOf(Latest)>> /\ held' = <<>>
                  \/ wire' = <<>> /\ held' = <<RestOf(Latest)>>
      BY <1>1, <1>2, <1>5, <2>3, HeadReadKeepsTurn
    <2> QED
      BY <2>1, <2>2, <2>3, ReadTwo
  <1>6. CASE Begun
    <2>1. half = FALSE /\ wire = <<RestOf(Latest)>> /\ held = <<>>
      BY <1>3, <1>6 DEF Begun
    <2>2. ReadPieces(<<RestOf(Latest)>>) /\ wire' = <<>> /\ held' = <<>>
      BY <2>1, ReadOne
    <2>3. parser' = Parsed(Latest)
      BY <1>6, <2>2, ParsesRest DEF ReadPieces, Begun
    <2>4. /\ Len(asked) > 0 /\ pending = {} /\ out = <<>> /\ session = "none"
          /\ Len(sent) = 2 * Len(asked) - 2
      BY <1>6 DEF Begun
    <2>5. Quiet'
      BY <1>1, <2>1, <2>2 DEF Quiet
    <2> QED
      BY <1>1, <1>2, <2>2, <2>3, <2>4, <2>5, CompleteKeepsTurn
  <1> QED
    BY <1>2, <1>3, <1>4, <1>5, <1>6 DEF Turn, Idle, InExchange, Answering, Upgraded, Quiet

\* A result arrives for the latest request, or for a connection that is gone.
LEMMA ResultKeepsTurn ==
  ASSUME WaitingInv, NEW r \in pending, NEW ok \in BOOLEAN, ResultArrives(r, ok)
  PROVE  WaitingInv'
  <1>1. UNCHANGED <<asked, sent, wire, held, half, parser, session, open>>
    BY DEF ResultArrives, clientVars, connVars
  <1>2. CASE open
    <2>1. Turn
      BY <1>2 DEF WaitingInv
    <2>2. InExchange
      BY <2>1 DEF Turn, Idle, Arriving, Begun, Answering, Upgraded
    <2>3. r = Latest /\ pending' = {}
      BY <2>2 DEF InExchange, ResultArrives
    <2>4. ApplyResult(r, ok)
      BY <1>2 DEF ResultArrives
    <2>5. PICK says : Reply(r, says, ok) /\ says \in {"close", "keep-alive"}
      <3> DEFINE q == IF ok THEN Says(keepAlive) ELSE "close"
      <3>1. q \in {"close", "keep-alive"}
        BY DEF Says
      <3>2. Reply(r, q, ok)
        BY <2>4, Zenon DEF ApplyResult
      <3> QED
        BY <3>1, <3>2, Zenon
    <2>6. Len(asked) > 0 /\ Len(sent) = 2 * Len(asked) - 2 /\ parser' = Parsed(Latest) /\ session' = "none"
      BY <1>1, <2>2 DEF InExchange
    <2>7. Quiet'
      BY <1>1, <2>2 DEF InExchange, Quiet
    <2> QED
      BY <1>1, <2>3, <2>5, <2>6, <2>7, ReplyKeepsTurn
  <1>3. CASE ~open
    BY <1>1, <1>3, SameHistories DEF ResultArrives, WaitingInv
  <1> QED
    BY <1>2, <1>3

\* Chunks leave the buffer in the order in which they are in it.
LEMMA SentKeepsLined ==
  ASSUME WaitingInv, Answering, NEW n \in 0..2, n <= Len(out),
         sent' = sent \o SubSeq(out, 1, n), asked' = asked
  PROVE  /\ sent' \in Seq(Chunks) /\ Lined'
         /\ Len(sent') = 2 * Len(asked) - (Len(out) - n)
  <1>1. asked \in Seq(Requests) /\ sent \in Seq(Chunks) /\ out \in Seq(Chunks) /\ Len(asked) \in Nat
    BY DEF WaitingInv
  <1>2. PICK m : m = Len(out)
    OBVIOUS
  <1>3. m \in 1..2 /\ n \in 0..m
    BY <1>2 DEF Answering
  <1>4. PICK d : d = SubSeq(out, 1, n)
    OBVIOUS
  <1>5. d \in Seq(Chunks) /\ Len(d) = n /\ \A j \in 1..n : d[j] = out[j]
    BY <1>1, <1>2, <1>3, <1>4
  <1>6. \A j \in 1..n : d[j].id = Len(asked) /\ d[j].part = 2 - m + j
    <2>1. \A j \in 1..n : j \in 1..m
      BY <1>3
    <2>2. \A j \in 1..m : out[j].id = Len(asked) /\ out[j].part = 2 - m + j
      BY <1>2, Zenon DEF Answering
    <2> QED
      BY ONLY <1>5, <2>1, <2>2, Zenon
  <1>7. sent' \in Seq(Chunks) /\ Len(sent') = Len(sent) + n
    BY <1>1, <1>4, <1>5
  <1>8. PICK l : l = Len(sent)
    OBVIOUS
  <1>9. l = 2 * Len(asked) - m /\ l \in Nat
    BY <1>1, <1>2, <1>8 DEF Answering
  <1>10. /\ \A i \in 1..l : sent'[i] = sent[i]
         /\ \A j \in 1..n : sent'[l + j] = d[j]
    BY <1>1, <1>4, <1>5, <1>8
  <1>11. ASSUME NEW i \in 1..Len(sent')
         PROVE  sent'[i].id <= Len(asked) /\ i = 2 * (sent'[i].id - 1) + sent'[i].part
    <2>1. CASE i <= l
      <3>1. i \in 1..l
        BY <1>7, <1>9, <2>1
      <3> QED
        BY <1>8, <1>10, <3>1 DEF WaitingInv, Lined
    <2>2. CASE i > l
      <3>1. PICK j \in 1..n : i = l + j
        <4>1. i - l \in 1..n /\ i = l + (i - l)
          BY <1>7, <1>8, <1>9, <2>2
        <4> QED
          BY <4>1
      <3>2. sent'[i].id = Len(asked) /\ sent'[i].part = 2 - m + j
        BY <1>6, <1>10, <3>1
      <3>3. i = 2 * (Len(asked) - 1) + (2 - m + j)
        BY <1>1, <1>3, <1>9, <3>1
      <3>4. Len(asked) <= Len(asked)
        BY <1>1
      <3> QED
        BY <3>2, <3>3, <3>4, Zenon
    <2> QED
      BY <1>7, <1>9, <2>1, <2>2
  <1>12. Lined'
    BY <1>11 DEF Lined
  <1>13. Len(sent') = 2 * Len(asked) - (Len(out) - n)
    BY <1>1, <1>2, <1>3, <1>7, <1>8, <1>9
  <1> QED
    BY <1>7, <1>12, <1>13

\* The write handler.
LEMMA WriteKeepsTurn ==
  ASSUME WaitingInv, NEW n \in 0..2, Write(n)
  PROVE  WaitingInv'
  <1>1. /\ UNCHANGED <<asked, wire, held, half, session, pending, cstate>>
        /\ sent' = sent \o SubSeq(out, 1, n) /\ n <= Len(out)
    BY DEF Write, clientVars
  <1>2. asked \in Seq(Requests) /\ out \in Seq(Chunks) /\ Len(asked) \in Nat /\ Latest' = Latest
    BY <1>1 DEF WaitingInv, Latest
  <1>3. Turn /\ Disarmed /\ "out" \in mask /\ cstate # "TlsHandshake"
    BY DEF Write, Writable, WaitingInv, Turn
  <1>4. Answering
    BY <1>3 DEF Disarmed, Turn, Idle, Arriving, Begun, InExchange, Upgraded
  <1>5. /\ sent' \in Seq(Chunks) /\ Lined'
        /\ Len(sent') = 2 * Len(asked) - (Len(out) - n)
    BY <1>1, <1>4, SentKeepsLined
  <1>6. asked' \in Seq(Requests) /\ Numbered'
    BY <1>1 DEF WaitingInv, Numbered
  <1>7. Quiet' /\ pending' = {} /\ Len(asked') > 0
    BY <1>1, <1>4 DEF Answering, Quiet
  <1>8. CASE n = Len(out)
    <2>1. FlushDone /\ Len(sent') = 2 * Len(asked')
      <3>1. FlushDone
        BY <1>8 DEF Write
      <3>2. Len(out) - n = 0
        BY <1>4, <1>8 DEF Answering
      <3>3. Len(sent') = 2 * Len(asked) - 0 /\ 2 * Len(asked) - 0 = 2 * Len(asked)
        BY ONLY <1>2, <1>5, <3>2
      <3>4. Len(sent') = 2 * Len(asked')
        BY <1>1, <3>3, Zenon
      <3> QED
        BY <3>1, <3>4
    <2>6. out' = <<>>
      BY <2>1, Zenon DEF FlushDone, CloseConnection
    <2>2. out' = <<>> /\ out' \in Seq(Chunks)
      BY <2>6
    <2>3. CASE session # "none"
      <3>1. mask' = {"in"} /\ parser' = parser
        BY <2>1, <2>3 DEF FlushDone
      <3>2. Upgraded'
        BY <1>1, <1>2, <1>4, <1>7, <2>1, <2>2, <2>3, <3>1 DEF Upgraded, Answering, Parsed
      <3> QED
        BY <1>5, <1>6, <2>2, <3>1, <3>2 DEF WaitingInv, Turn, Disarmed
    <2>4. CASE session = "none" /\ keepAlive
      <3>1. mask' = {"in"} /\ parser' = Fresh
        BY <2>1, <2>4 DEF FlushDone
      <3>2. Idle'
        BY <1>1, <1>7, <2>1, <2>2, <2>4, <3>1 DEF Idle, Fresh
      <3> QED
        BY <1>5, <1>6, <2>2, <3>1, <3>2 DEF WaitingInv, Turn, Disarmed
    <2>5. CASE session = "none" /\ ~keepAlive
      <3>1. open' = FALSE
        BY <2>1, <2>5 DEF FlushDone, CloseConnection
      <3> QED
        BY <1>5, <1>6, <2>2, <3>1 DEF WaitingInv
    <2> QED
      BY <2>3, <2>4, <2>5
  <1>9. CASE n # Len(out)
    <2>1. out' = SubSeq(out, n + 1, Len(out)) /\ UNCHANGED <<mask, parser, open>>
      BY <1>9 DEF Write
    <2>2. PICK m : m = Len(out)
      OBVIOUS
    <2>3. m \in 1..2 /\ n \in 0..(m - 1)
      BY <1>1, <1>4, <1>9, <2>2 DEF Answering
    <2>4. /\ out' \in Seq(Chunks) /\ Len(out') = m - n
          /\ \A j \in 1..(m - n) : out'[j] = out[n + j]
      BY <1>2, <2>1, <2>2, <2>3
    <2>5. \A i \in 1..m : out[i].id = Len(asked) /\ out[i].part = 2 - m + i
      BY <1>4, <2>2 DEF Answering
    <2>6. ASSUME NEW j \in 1..(m - n)
          PROVE  out'[j].id = Len(asked) /\ out'[j].part = 2 - (m - n) + j
      <3>1. n + j \in 1..m /\ 2 - m + (n + j) = 2 - (m - n) + j
        BY <2>3
      <3> QED
        BY <2>4, <2>5, <3>1
    <2>7. m - n \in 1..2
      BY <2>3
    <2>8. Len(sent') = 2 * Len(asked') - Len(out')
      BY <1>1, <1>5, <2>2, <2>4
    <2>9. Answering'
      BY <1>1, <1>2, <1>4, <1>7, <2>1, <2>4, <2>6, <2>7, <2>8 DEF Answering, Parsed
    <2>10. Disarmed'
      BY <2>4, <2>7 DEF Disarmed
    <2> QED
      BY <1>5, <1>6, <2>4, <2>9, <2>10 DEF WaitingInv, Turn
  <1> QED
    BY <1>8, <1>9

\* Every step preserves the invariant.
LEMMA InTurnStep == InTurn /\ [Next]_vars => InTurn'
  <1> SUFFICES ASSUME InTurn, [Next]_vars, ~pipelines' PROVE WaitingInv'
    BY DEF InTurn
  <1>1. pipelines' = pipelines
    BY Zenon DEF Next, Client, SendRest, ClientCloses, SendHead, Read, ReadPlain, ReadTls, PeerGone,
                 Handshake, HandshakeFails, HandshakeWants, HandshakeDone, Result, ResultUnusable,
                 ResultArrives, Write, WriteFails, Expire, Gone, vars, clientVars
  <1>2. ~pipelines /\ WaitingInv
    BY <1>1 DEF InTurn
  <1>3. CASE Client
    <2>1. CASE SendRest
      BY <1>2, <2>1, RestKeepsTurn
    <2>2. CASE ClientCloses
      BY <1>2, <2>2, StayKeepsTurn DEF ClientCloses, connVars, Disarmed
    <2>3. ASSUME NEW k \in Kinds, NEW c \in BOOLEAN, SendHead(k, c) PROVE WaitingInv'
      BY <1>2, <2>3, HeadKeepsTurn
    <2> QED
      BY <1>3, <2>1, <2>2, <2>3 DEF Client
  <1>4. CASE Read
    BY <1>2, <1>4, ReadKeepsTurn
  <1>5. CASE PeerGone \/ WriteFails \/ Expire \/ HandshakeFails
    BY <1>2, <1>5, CloseKeepsTurn DEF PeerGone, WriteFails, Expire, HandshakeFails, clientVars
  <1>6. ASSUME NEW ev \in {"in", "out"}, NEW want \in {"in", "out"}, HandshakeWants(ev, want)
        PROVE  WaitingInv'
    BY <1>2, <1>6, StayKeepsTurn DEF HandshakeWants, clientVars, connVars, Disarmed
  <1>7. ASSUME NEW ev \in {"in", "out"}, HandshakeDone(ev) PROVE WaitingInv'
    <2>1. CASE ev = "in"
      <3>1. Disarmed'
        BY <1>7, <2>1 DEF HandshakeDone, Disarmed
      <3> QED
        BY <1>2, <1>7, <2>1, <3>1, StayKeepsTurn DEF HandshakeDone, clientVars
    <2>2. CASE ev = "out"
      BY <1>2, <1>7, <2>2, CloseKeepsTurn DEF HandshakeDone, clientVars
    <2> QED
      BY <2>1, <2>2
  <1>8. ASSUME NEW r \in pending, Result(r) PROVE WaitingInv'
    <2>1. CASE ResultUnusable(r)
      BY <1>2, <2>1, CloseKeepsTurn DEF ResultUnusable, clientVars
    <2>2. ASSUME NEW ok \in BOOLEAN, ResultArrives(r, ok) PROVE WaitingInv'
      BY <1>2, <2>2, ResultKeepsTurn
    <2> QED
      BY <1>8, <2>1, <2>2 DEF Result
  <1>9. ASSUME NEW n \in 0..2, Write(n) PROVE WaitingInv'
    BY <1>2, <1>9, WriteKeepsTurn
  <1>10. CASE Gone \/ UNCHANGED vars
    BY <1>2, <1>10, StayKeepsTurn DEF Gone, vars, clientVars, connVars, Disarmed
  <1> QED
    BY <1>3, <1>4, <1>5, <1>6, <1>7, <1>8, <1>9, <1>10 DEF Next, Handshake

LEMMA InTurnInit == Init => InTurn
  <1> SUFFICES ASSUME Init PROVE WaitingInv
    BY DEF InTurn
  <1>1. /\ asked = <<>> /\ sent = <<>> /\ out = <<>> /\ pending = {} /\ session = "none"
        /\ parser = Fresh /\ Quiet /\ mask = {"in"}
    BY DEF Init, Quiet
  <1>2. Len(asked) = 0 /\ Len(sent) = 0 /\ asked \in Seq(Requests) /\ sent \in Seq(Chunks) /\ out \in Seq(Chunks)
    BY <1>1
  <1>3. Numbered /\ Lined
    BY <1>2 DEF Numbered, Lined
  <1>4. Idle /\ Disarmed
    BY <1>1, <1>2 DEF Idle, Disarmed
  <1> QED
    BY <1>2, <1>3, <1>4 DEF WaitingInv, Turn

\* The exchange with a client that waits is always at one of six places, and
\* histories, buffers and parser agree on which.
THEOREM InTurnCorrect == Spec => []InTurn
  BY InTurnInit, InTurnStep, PTL DEF Spec

\* A client that waits for its answers gets them whole, each once and in the
\* order of its requests.
THEOREM ResponsesAlwaysInOrder == Spec => []ResponsesInOrder
  <1>1. InTurn => ResponsesInOrder
    <2> SUFFICES ASSUME WaitingInv PROVE ResponsesInOrder
      BY DEF InTurn, ResponsesInOrder
    <2>1. DOMAIN sent = 1..Len(sent)
      BY DEF WaitingInv
    <2> QED
      BY <2>1 DEF ResponsesInOrder, WaitingInv, Lined
  <1> QED
    BY <1>1, InTurnCorrect, PTL

\* Halves of even and of odd numbers.
LEMMA Parity ==
  ASSUME NEW n \in Nat
  PROVE  /\ (2 * n) % 2 = 0 /\ (2 * n) \div 2 = n
         /\ n > 0 => (2 * n - 1) % 2 = 1 /\ (2 * n - 1) \div 2 = n - 1
         /\ n > 0 => (2 * n - 2) % 2 = 0 /\ (2 * n - 2) \div 2 = n - 1
  OBVIOUS

\* A chunk that was sent, or waits to be.
LEMMA Written ==
  ASSUME WaitingInv
  PROVE  /\ \A i \in 1..Len(sent) : sent[i] \in Range(out \o sent)
         /\ \A i \in 1..Len(out) : out[i] \in Range(out \o sent)
  <1>1. out \in Seq(Chunks) /\ sent \in Seq(Chunks)
    BY DEF WaitingInv
  <1>2. PICK s : s = out \o sent
    OBVIOUS
  <1>3. s \in Seq(Chunks) /\ Len(s) = Len(out) + Len(sent) /\ DOMAIN s = 1..Len(s)
    BY <1>1, <1>2
  <1>4. \A i \in 1..Len(out) : i \in DOMAIN s /\ s[i] = out[i]
    BY <1>1, <1>2, <1>3
  <1>5. \A i \in 1..Len(sent) : Len(out) + i \in DOMAIN s /\ s[Len(out) + i] = sent[i]
    BY <1>1, <1>2, <1>3
  <1>6. \A j \in DOMAIN s : s[j] \in Range(s)
    BY DEF Range
  <1> QED
    BY <1>2, <1>4, <1>5, <1>6

\* The requests whose responses were sent completely.
LEMMA SentMeansAnswered ==
  ASSUME WaitingInv, NEW i \in Nat, i > 0, 2 * i <= Len(sent)
  PROVE  \E c \in Range(out \o sent) : c.id = i /\ c.part = 2
  <1>1. sent \in Seq(Chunks) /\ Len(sent) \in Nat
    BY DEF WaitingInv
  <1>2. 2 * i \in 1..Len(sent)
    BY <1>1
  <1>3. PICK c \in Chunks : c = sent[2 * i]
    BY <1>1, <1>2
  <1>4. c \in Range(out \o sent)
    BY <1>2, <1>3, Written
  <1>5. 2 * i = 2 * (c.id - 1) + c.part
    BY <1>2, <1>3 DEF WaitingInv, Lined
  <1>6. c.id \in Nat /\ c.part \in 1..2
    BY <1>3, ExchangeAssumption DEF Chunks
  <1>7. \A x \in Nat, y \in 1..2 : 2 * i = 2 * (x - 1) + y => x = i /\ y = 2
    OBVIOUS
  <1>8. c.id = i /\ c.part = 2
    BY ONLY <1>5, <1>6, <1>7
  <1> QED
    BY <1>4, <1>8

\* How much the parser has consumed at each place of the exchange.
LEMMA ConsumedInTurn ==
  ASSUME WaitingInv, Turn
  PROVE  /\ Idle \/ InExchange \/ Answering \/ Upgraded =>
              Consumed = 2 * Len(asked) /\ parser.state # "Headers"
         /\ Arriving => Consumed = 2 * Len(asked) - 2 /\ parser.state # "Headers"
         /\ Begun => Consumed = 2 * Len(asked) - 1 /\ parser.state = "Headers"
  <1>1. PICK n \in Nat : n = Len(asked)
    BY DEF WaitingInv
  <1>2. Len(<<>>) = 0 /\ \A a, b : Len(<<a>>) = 1 /\ Len(<<a, b>>) = 2
    OBVIOUS
  <1>3. ASSUME Idle \/ InExchange \/ Answering \/ Upgraded
        PROVE  Consumed = 2 * Len(asked) /\ parser.state # "Headers"
    <2>1. Quiet /\ parser.buffer = <<>> /\ parser.state # "Headers"
      BY <1>3 DEF Idle, InExchange, Answering, Upgraded, Parsed, Fresh
    <2>2. Unread = 0
      BY <1>2, <2>1 DEF Unread, Quiet
    <2> QED
      BY <1>1, <2>1, <2>2 DEF Consumed, Quiet
  <1>4. ASSUME Arriving PROVE Consumed = 2 * Len(asked) - 2 /\ parser.state # "Headers"
    <2>1. held = <<>> /\ parser.buffer = <<>> /\ parser.state # "Headers"
      BY <1>4 DEF Arriving, Fresh
    <2>2. Len(wire) = IF half THEN 1 ELSE 2
      BY <1>2, <1>4 DEF Arriving
    <2>3. Unread = IF half THEN 1 ELSE 2
      BY <1>2, <2>1, <2>2 DEF Unread
    <2> QED
      BY <1>1, <2>1, <2>3 DEF Consumed
  <1>5. ASSUME Begun PROVE Consumed = 2 * Len(asked) - 1 /\ parser.state = "Headers"
    <2>1. parser.buffer = <<>> /\ parser.state = "Headers"
      BY <1>5 DEF Begun, Parsing
    <2>4. /\ half => Len(wire) = 0 /\ Len(held) = 0
          /\ ~half => \/ Len(wire) = 1 /\ Len(held) = 0
                      \/ Len(wire) = 0 /\ Len(held) = 1
      BY <1>2, <1>5, Zenon DEF Begun
    <2>2. Len(wire) + Len(held) = IF half THEN 0 ELSE 1
      <3>1. 0 + 0 = 0 /\ 1 + 0 = 1 /\ 0 + 1 = 1
        OBVIOUS
      <3>2. CASE half
        BY <2>4, <3>1, <3>2, Zenon
      <3>3. CASE ~half
        BY <2>4, <3>1, <3>3, Zenon
      <3> QED
        BY <3>2, <3>3
    <2>3. Unread = IF half THEN 0 ELSE 1
      BY <1>2, <2>1, <2>2 DEF Unread
    <2> QED
      BY <1>1, <2>1, <2>3 DEF Consumed
  <1> QED
    BY <1>3, <1>4, <1>5

\* No byte of a request is thrown away, and every request that was read is
\* being worked on, being answered or answered.
THEOREM RequestsAlwaysAccounted == Spec => []RequestsAccounted
  <1>1. InTurn => RequestsAccounted
    <2> SUFFICES ASSUME WaitingInv, open
                 PROVE  /\ Consumed % 2 = 1 <=> parser.state = "Headers"
                        /\ \A i \in 1..(Consumed \div 2) :
                             \/ asked[i] \in pending
                             \/ \E c \in Range(out \o sent) : c.id = i /\ c.part = 2
      BY DEF InTurn, RequestsAccounted
    <2>1. Turn /\ asked \in Seq(Requests) /\ sent \in Seq(Chunks) /\ out \in Seq(Chunks)
      BY DEF WaitingInv
    <2>2. PICK n \in Nat : n = Len(asked)
      BY <2>1
    <2>3. PICK l \in Nat : l = Len(sent)
      BY <2>1
    <2>4. CASE Idle \/ Upgraded
      <3>1. Consumed = 2 * n /\ parser.state # "Headers" /\ l = 2 * n
        BY <2>1, <2>2, <2>3, <2>4, ConsumedInTurn DEF Idle, Upgraded
      <3>2. Consumed % 2 = 0 /\ Consumed \div 2 = n
        BY <3>1, Parity
      <3>3. \A i \in 1..n : i \in Nat /\ i > 0 /\ 2 * i <= Len(sent)
        BY <2>3, <3>1
      <3> QED
        BY <3>1, <3>2, <3>3, SentMeansAnswered
    <2>5. CASE Arriving \/ Begun
      <3>1. l = 2 * n - 2 /\ n > 0
        BY <2>2, <2>3, <2>5 DEF Arriving, Begun
      <3>2. \A i \in 1..(n - 1) : i \in Nat /\ i > 0 /\ 2 * i <= Len(sent)
        BY <2>3, <3>1
      <3>3. CASE Arriving
        <4>1. Consumed = 2 * n - 2 /\ parser.state # "Headers"
          BY <2>1, <2>2, <3>3, ConsumedInTurn
        <4>2. Consumed % 2 = 0 /\ Consumed \div 2 = n - 1
          BY <3>1, <4>1, Parity
        <4> QED
          BY <3>2, <4>1, <4>2, SentMeansAnswered
      <3>4. CASE Begun
        <4>1. Consumed = 2 * n - 1 /\ parser.state = "Headers"
          BY <2>1, <2>2, <3>4, ConsumedInTurn
        <4>2. Consumed % 2 = 1 /\ Consumed \div 2 = n - 1
          BY <3>1, <4>1, Parity
        <4> QED
          BY <3>2, <4>1, <4>2, SentMeansAnswered
      <3> QED
        BY <2>5, <3>3, <3>4
    <2>6. CASE InExchange \/ Answering
      <3>1. Consumed = 2 * n /\ parser.state # "Headers"
        BY <2>1, <2>2, <2>6, ConsumedInTurn
      <3>2. Consumed % 2 = 0 /\ Consumed \div 2 = n
        BY <3>1, Parity
      <3>3. l >= 2 * n - 2 /\ n > 0
        BY <2>2, <2>3, <2>6 DEF InExchange, Answering
      <3>4. \A i \in 1..(n - 1) : i \in Nat /\ i > 0 /\ 2 * i <= Len(sent)
        BY <2>3, <3>3
      <3>5. asked[n] \in pending \/ \E c \in Range(out \o sent) : c.id = n /\ c.part = 2
        <4>1. CASE InExchange
          BY <2>2, <4>1 DEF InExchange, Latest
        <4>2. CASE Answering
          <5>1. PICK m \in 1..2 : m = Len(out)
            BY <4>2 DEF Answering
          <5>2. out[m].id = n /\ out[m].part = 2 - m + m
            BY <2>2, <4>2, <5>1 DEF Answering
          <5>3. 2 - m + m = 2 /\ m \in 1..Len(out)
            BY <5>1
          <5> QED
            BY <5>2, <5>3, Written
        <4> QED
          BY <2>6, <4>1, <4>2
      <3>6. \A i \in 1..n : i \in 1..(n - 1) \/ i = n
        BY <3>3
      <3> QED
        BY <3>1, <3>2, <3>4, <3>5, <3>6, SentMeansAnswered
    <2> QED
      BY <2>1, <2>4, <2>5, <2>6 DEF Turn
  <1> QED
    BY <1>1, InTurnCorrect, PTL
=============================================================================
