-------------------------- MODULE WebSocketSession --------------------------
(***************************************************************************)
(* An upgraded connection: WebSocketConnection with its FrameParser, and   *)
(* the parts of handle_read_event, handle_write_event, the keepalive round *)
(* and the shutdown that drive it.                                         *)
(*                                                                         *)
(* A frame is named by its place in what the client said.  A frame that a  *)
(* read cuts in two waits in the FrameParser as if it were still unread.   *)
(* Feeding the session is one step per frame, with pc = "feed" to keep the *)
(* other handlers out: they run on the same thread.                        *)
(***************************************************************************)
EXTENDS Naturals, Sequences, SequencesExt, FiniteSetsExt, Deadline

CONSTANTS Frames,     \* the frames a client may send
          MaxFrames,  \* bound: frames the client sends
          MaxMessage, \* websocket_max_message_bytes, in payload units
          MaxPings    \* bound: keepalive pings of the server

\* "reserved" stands for what FrameParser::next refuses whatever the size:
\* RSV bits, unknown opcodes, fragmented or long control frames, a 64-bit
\* length with its top bit set.
Opcodes == {"text", "binary", "continuation", "close", "ping", "pong", "reserved"}

\* ok: the text is UTF-8, or the close payload is empty or a valid code.
ASSUME SessionAssumption ==
  /\ Frames \subseteq [op : Opcodes, fin : BOOLEAN, masked : BOOLEAN, size : Nat, ok : BOOLEAN]
  /\ MaxFrames \in Nat /\ MaxMessage \in Nat /\ MaxPings \in Nat

VARIABLES
  said,          \* every frame the client has sent
  wire,          \* those not yet read from the connection
  tls,           \* tls_enabled_: the TLS listener accepted the connection
  silent,        \* all of wire is decrypted inside OpenSSL: no event tells of it
  pc,            \* "feed" inside WebSocketConnection::feed
  buffer,        \* read and not yet parsed
  state,         \* WebSocketState
  closeSent,
  closeReceived,
  protocolError,
  fragment,      \* the frames of the message being reassembled
  output,        \* output_ of the session
  out,           \* the unsent part of output_buffer_
  wstate,        \* WriteState
  mask,          \* events registered with epoll
  budget,        \* what the last set_deadline chose
  open,          \* the Connection exists
  got,           \* what the client has received
  pings          \* pings queued so far

sessionVars == <<state, closeSent, closeReceived, protocolError, fragment>>
tlsVars == <<tls, silent>>
connVars == <<out, wstate, mask, budget, open, got>>
vars == <<said, wire, tlsVars, pc, buffer, sessionVars, output, connVars, pings>>

\* A server frame: the client frames it answers, or a close code.
Echo(ids) == [op |-> "echo", of |-> ids]
Pong(id) == [op |-> "pong", of |-> <<id>>]
Ping == [op |-> "ping", of |-> <<>>]
Close(of) == [op |-> "close", of |-> of]
Switching == [op |-> "101", of |-> <<>>]

Ids == 1..MaxFrames
ServerFrames == [op : {"echo", "pong", "ping", "close", "101"}, of : Seq(Nat)]

TypeOK ==
  /\ said \in Seq(Frames) /\ wire \in Seq(Ids) /\ buffer \in Seq(Ids)
  /\ tls \in BOOLEAN /\ silent \in BOOLEAN
  /\ pc \in {"idle", "feed"}
  /\ state \in SessionStates \ {"none"}
  /\ closeSent \in BOOLEAN /\ closeReceived \in BOOLEAN /\ protocolError \in BOOLEAN
  /\ fragment \in Seq(Ids)
  /\ output \in Seq(ServerFrames) /\ out \in Seq(ServerFrames) /\ got \in Seq(ServerFrames)
  /\ wstate \in WriteStates /\ mask \in SUBSET {"in", "out"}
  /\ budget \in Budgets /\ open \in BOOLEAN /\ pings \in 0..MaxPings

SizeOf(ids) == SumFunction([i \in DOMAIN ids |-> said[ids[i]].size])

\* handle_read_event has accepted the upgrade: begin_websocket, and the 101
\* response in the output buffer.
Init ==
  /\ said = <<>> /\ wire = <<>> /\ pc = "idle" /\ buffer = <<>>
  /\ tls \in BOOLEAN /\ silent = FALSE
  /\ state = "Established"
  /\ closeSent = FALSE /\ closeReceived = FALSE /\ protocolError = FALSE
  /\ fragment = <<>> /\ output = <<>>
  /\ out = <<Switching>>
  /\ wstate = "Body"
  /\ mask = {"in", "out"}
  /\ budget = Budget(FALSE, "Writing", "Headers", "Body", "Established")
  /\ open = TRUE
  /\ got = <<>>
  /\ pings = 0

-----------------------------------------------------------------------------
(* The client: any frames, in any order, once it has the 101 response *)

ClientSends(f) ==
  /\ open /\ got # <<>>
  /\ Len(said) < MaxFrames
  /\ said' = Append(said, f)
  /\ wire' = Append(wire, Len(said'))
  /\ silent' = FALSE
  /\ UNCHANGED <<tls, pc, buffer, sessionVars, output, connVars, pings>>

-----------------------------------------------------------------------------
(* WebSocketConnection, one frame *)

\* fail_connection: the first violation queues a Close, unless one was sent.
\* received is what close_received_ is by then.
FailConnection(received) ==
  /\ closeReceived' = received
  /\ IF protocolError THEN UNCHANGED <<state, closeSent, protocolError, fragment, output>>
     ELSE /\ protocolError' = TRUE
          /\ output' = IF closeSent THEN output ELSE Append(output, Close(<<>>))
          /\ closeSent' = TRUE
          /\ state' = IF received THEN "Closed" ELSE "Closing"
          /\ fragment' = <<>>

Violation == FailConnection(closeReceived)

\* handle_close_payload: a valid Close is echoed when the peer began.
HandleClose(id) ==
  IF ~said[id].ok THEN FailConnection(TRUE)
  ELSE /\ closeReceived' = TRUE
       /\ output' = IF state = "Established" THEN Append(output, Close(<<id>>)) ELSE output
       /\ closeSent' = (closeSent \/ state = "Established")
       /\ state' = IF closeSent' THEN "Closed" ELSE state
       /\ UNCHANGED <<protocolError, fragment>>

\* deliver_message: the endpoint echoes a message as one frame.
Deliver(ids) ==
  IF said[ids[1]].op = "text" /\ \E i \in DOMAIN ids : ~said[ids[i]].ok
  THEN Violation
  ELSE /\ output' = Append(output, Echo(ids))
       /\ fragment' = <<>>
       /\ UNCHANGED <<state, closeSent, closeReceived, protocolError>>

\* A text or binary frame.
DataFrame(id) ==
  IF fragment # <<>> THEN Violation
  ELSE IF said[id].fin THEN Deliver(<<id>>)
  ELSE fragment' = <<id>> /\ UNCHANGED <<state, closeSent, closeReceived, protocolError, output>>

\* Mutant of Continuation: nothing asks whether a message has begun.
ContinuationOrphan(id) ==
  IF SizeOf(Append(fragment, id)) > MaxMessage THEN Violation
  ELSE IF said[id].fin THEN Deliver(Append(fragment, id))
  ELSE /\ fragment' = Append(fragment, id)
       /\ UNCHANGED <<state, closeSent, closeReceived, protocolError, output>>

\* A continuation frame needs a message that has begun, and room for it.
Continuation(id) ==
  IF fragment = <<>> \/ SizeOf(Append(fragment, id)) > MaxMessage THEN Violation
  ELSE IF said[id].fin THEN Deliver(Append(fragment, id))
  ELSE /\ fragment' = Append(fragment, id)
       /\ UNCHANGED <<state, closeSent, closeReceived, protocolError, output>>

ControlFrame(id) ==
  /\ output' = IF said[id].op = "ping" THEN Append(output, Pong(id)) ELSE output
  /\ UNCHANGED sessionVars

\* process_frame.  Once a Close has been sent only the peer's first Close
\* matters.
ProcessFrame(id) ==
  LET op == said[id].op
  IN CASE ~said[id].masked -> Violation
       [] said[id].masked /\ state # "Established" ->
            IF op = "close" /\ ~closeReceived THEN HandleClose(id)
            ELSE UNCHANGED <<sessionVars, output>>
       [] said[id].masked /\ state = "Established" ->
            CASE op = "close" -> HandleClose(id)
              [] op \in {"text", "binary"} -> DataFrame(id)
              [] op = "continuation" -> Continuation(id)
              [] OTHER -> ControlFrame(id)

\* FrameParser::next refuses the frame on its header alone.
Refused(id) == said[id].op = "reserved" \/ said[id].size > MaxMessage

\* parser_.clear(): what was read is dropped, and with it the front of a frame
\* that the read had cut, so that the frame is lost.
Discard ==
  /\ buffer' = <<>>
  /\ \/ wire' = wire
     \/ wire # <<>> /\ wire' = Tail(wire)

-----------------------------------------------------------------------------
(* handle_read_event on an upgraded connection *)

\* read_nonblocking returns the next n frames; feed ignores them once Closed.
\* On a TLS connection one SSL_read of 8192 bytes may leave the rest of its
\* record decrypted, with nothing in the socket for epoll to report; it may even
\* end before the first frame does (n = 0).
ReadFrames(n) ==
  /\ open /\ pc = "idle" /\ "in" \in mask
  /\ ~silent
  /\ n <= Len(wire)
  /\ silent' \in {FALSE, tls /\ n < Len(wire)}
  /\ n > 0 \/ silent'
  /\ pc' = "feed"
  /\ buffer' = IF state = "Closed" THEN <<>> ELSE SubSeq(wire, 1, n)
  /\ wire' = SubSeq(wire, n + 1, Len(wire))
  /\ budget' = Budget(FALSE, "Writing", "Headers", wstate, state)
  /\ UNCHANGED <<said, tls, sessionVars, output, out, wstate, mask, open, got, pings>>

\* One round of the loop in feed.  After a violation the rest is discarded.
FeedFrame ==
  /\ pc = "feed" /\ buffer # <<>>
  /\ IF Refused(Head(buffer)) THEN Violation ELSE ProcessFrame(Head(buffer))
  /\ IF protocolError' THEN Discard ELSE buffer' = Tail(buffer) /\ wire' = wire
  /\ UNCHANGED <<said, tlsVars, pc, connVars, pings>>

\* Mutant of EndFeed: the replies are queued, EPOLLOUT is not armed.
EndFeedUnarmed ==
  /\ pc = "feed" /\ buffer = <<>>
  /\ pc' = "idle"
  /\ out' = out \o output
  /\ output' = <<>>
  /\ wstate' = IF output = <<>> THEN wstate ELSE "Body"
  /\ budget' = Budget(FALSE, "Writing", "Headers", wstate', state)
  /\ UNCHANGED <<said, wire, tlsVars, buffer, sessionVars, mask, open, got, pings>>

\* Mutant of EndFeed: take_output copies the replies and keeps them.
EndFeedKeeps ==
  /\ pc = "feed" /\ buffer = <<>>
  /\ pc' = "idle"
  /\ out' = out \o output
  /\ wstate' = IF output = <<>> THEN wstate ELSE "Body"
  /\ mask' = IF output = <<>> THEN mask ELSE {"in", "out"}
  /\ budget' = Budget(FALSE, "Writing", "Headers", wstate', state)
  /\ UNCHANGED <<said, wire, tlsVars, buffer, sessionVars, output, open, got, pings>>

\* feed is over: the replies go to the connection.
EndFeed ==
  /\ pc = "feed" /\ buffer = <<>>
  /\ pc' = "idle"
  /\ out' = out \o output
  /\ output' = <<>>
  /\ wstate' = IF output = <<>> THEN wstate ELSE "Body"
  /\ mask' = IF output = <<>> THEN mask ELSE {"in", "out"}
  /\ budget' = Budget(FALSE, "Writing", "Headers", wstate', state)
  /\ UNCHANGED <<said, wire, tlsVars, buffer, sessionVars, open, got, pings>>

-----------------------------------------------------------------------------
(* The other handlers *)

\* remove_fd and remove_connection.
CloseConnection == open' = FALSE /\ mask' = {} /\ out' = <<>>

\* Mutant of Flushed: the connection goes back to reading whatever was sent.
FlushedStays == mask' = {"in"} /\ UNCHANGED open

\* handle_write_event with nothing left: ready_to_close, or back to reading.
Flushed ==
  IF closeSent /\ closeReceived THEN open' = FALSE /\ mask' = {}
  ELSE mask' = {"in"} /\ UNCHANGED open

\* send takes the first n frames.
Write(n) ==
  /\ open /\ pc = "idle" /\ "out" \in mask
  /\ n <= Len(out)
  /\ got' = got \o SubSeq(out, 1, n)
  /\ out' = SubSeq(out, n + 1, Len(out))
  /\ wstate' = IF n = Len(out) THEN "Complete" ELSE wstate
  /\ IF n = Len(out) THEN Flushed ELSE UNCHANGED <<mask, open>>
  /\ budget' = Budget(FALSE, "Writing", "Headers", wstate', state)
  /\ UNCHANGED <<said, wire, tlsVars, pc, buffer, sessionVars, output, pings>>

\* maybe_queue_ping, at a moment when the interval has passed.
PingDue == state = "Established"

\* Mutant of MaintainPing: closing sessions are pinged too.
MaintainPingAlways ==
  /\ open /\ pc = "idle"
  /\ pings < MaxPings
  /\ pings' = pings + 1
  /\ out' = Append(out, Ping)
  /\ wstate' = "Body"
  /\ budget' = Budget(FALSE, "Writing", "Headers", "Body", state)
  /\ mask' = {"in", "out"}
  /\ UNCHANGED <<said, wire, tlsVars, pc, buffer, sessionVars, output, open, got>>

\* maintain_websockets, and the loop arming EPOLLOUT for the descriptors it
\* returns.
MaintainPing ==
  /\ open /\ pc = "idle"
  /\ PingDue
  /\ pings < MaxPings
  /\ pings' = pings + 1
  /\ out' = Append(out, Ping)
  /\ wstate' = "Body"
  /\ budget' = Budget(FALSE, "Writing", "Headers", "Body", state)
  /\ mask' = {"in", "out"}
  /\ UNCHANGED <<said, wire, tlsVars, pc, buffer, sessionVars, output, open, got>>

\* The peer is gone: recv returns 0 or fails, send fails, or epoll says so.
PeerGone ==
  /\ open /\ pc = "idle"
  /\ CloseConnection
  /\ UNCHANGED <<said, wire, tlsVars, pc, buffer, sessionVars, output, wstate, budget, got, pings>>

\* sweep_timeouts finds the deadline passed.
Expire ==
  /\ open /\ pc = "idle"
  /\ MayExpire(FALSE, budget)
  /\ CloseConnection
  /\ UNCHANGED <<said, wire, tlsVars, pc, buffer, sessionVars, output, wstate, budget, got, pings>>

\* initiate_close queues one Close; all is the output with it.
InitiateClose(all) ==
  LET first == state = "Established" /\ ~closeSent
  IN /\ all = IF first THEN Append(out, Close(<<>>)) ELSE out
     /\ closeSent' = (closeSent \/ first)
     /\ state' = IF first THEN "Closing" ELSE state

\* initiate_websocket_shutdown(1001), which writes what the socket accepts,
\* and the end of the process's connections.
Shutdown ==
  /\ open /\ pc = "idle"
  /\ \E all \in {out, Append(out, Close(<<>>))} :
       /\ InitiateClose(all)
       /\ \E n \in 0..Len(all) : got' = got \o SubSeq(all, 1, n)
  /\ CloseConnection
  /\ UNCHANGED <<said, wire, tlsVars, pc, buffer, closeReceived, protocolError, fragment,
                 output, wstate, budget, pings>>

Gone == ~open /\ UNCHANGED vars

Read == \E n \in 0..MaxFrames : ReadFrames(n)

Next == \/ \E f \in Frames : ClientSends(f)
        \/ Read
        \/ FeedFrame
        \/ EndFeed
        \/ \E n \in 0..Len(out) : Write(n)
        \/ MaintainPing
        \/ PeerGone
        \/ Expire
        \/ Shutdown
        \/ Gone

Spec == Init /\ [][Next]_vars

\* The loop serves what epoll reports, which a silent rest of a TLS record is
\* not (Read is disabled then), and a client that reads makes room.  No deadline
\* has to pass and nobody has to close.
FairSpec == /\ Spec
            /\ WF_vars(Read) /\ WF_vars(FeedFrame) /\ WF_vars(EndFeed)
            /\ WF_vars(\E n \in 1..Len(out) : Write(n))

-----------------------------------------------------------------------------
(* Properties *)

\* Everything the server has put on its way to the client.
Stream == got \o out \o output

\* A Close frame ends the server's stream: no echo, pong, keepalive ping or
\* second Close follows it, whichever of the read handler, the keepalive round
\* and the shutdown sent it first.
CloseIsLast ==
  \A i \in DOMAIN Stream : Stream[i].op = "close" => i = Len(Stream)

\* A message of these frames exceeds the limit, as one frame or put together.
TooLong(ids) == IF Len(ids) = 1 THEN said[ids[1]].size > MaxMessage
                ELSE SizeOf(ids) > MaxMessage

\* An echo is one whole message: its frames are a text or binary frame and the
\* continuations that follow it, the last of them final, with no data frame
\* left out in between, whatever control frames interrupt it, and together they
\* are within the limit on messages.
EchoIsOneMessage ==
  \A k \in DOMAIN Stream : Stream[k].op = "echo" =>
    LET ids == Stream[k].of
        Data == {i \in DOMAIN said : said[i].op \in {"text", "binary", "continuation"}}
    IN /\ said[ids[1]].op # "continuation"
       /\ ~TooLong(ids)
       /\ Data \cap ids[1]..Last(ids) = Range(ids)
       /\ \A j \in DOMAIN ids : /\ j > 1 => said[ids[j]].op = "continuation"
                                /\ said[ids[j]].fin <=> j = Len(ids)

\* Replies come in the order of the frames that asked for them, each at most
\* once.
Asking == {i \in DOMAIN Stream : Stream[i].op \in {"echo", "pong"}}
RepliesInOrder ==
  \A i, j \in Asking : i < j => Last(Stream[i].of) < Last(Stream[j].of)

\* A peer that starts the close handshake sees the connection closed as soon as
\* the reply is flushed, without any timeout.
CloseAnswered == closeReceived /\ out # <<>> ~> ~open

\* A complete message in one frame is echoed, unless the session is closing.
\* The stated exception is a TLS connection whose last bytes wait inside
\* OpenSSL, where read_nonblocking does not look again until the client sends
\* more: such a message may wait for ever.
MessageEchoed ==
  \A i \in 1..MaxFrames :
    (i \in DOMAIN said /\ said[i].op \in {"text", "binary"} /\ said[i].fin)
      ~> \/ ~open \/ closeSent
         \/ \E k \in DOMAIN got : got[k].op = "echo" /\ i \in Range(got[k].of)
         \/ tls /\ silent
=============================================================================
