---------------------- MODULE WebSocketSession_proofs -----------------------
(***************************************************************************)
(* Proofs about WebSocketSession for any frames of any sizes, any number   *)
(* of them, any limit on messages and any number of keepalive pings.       *)
(***************************************************************************)
EXTENDS WebSocketSession, SequenceTheorems, TLAPS

-----------------------------------------------------------------------------
(* The inductive invariant *)

DataOps == {"text", "binary", "continuation"}

\* Whoever sends a Close leaves the Established state, and nobody else does; a
\* session has frames and replies of its own only inside feed.
Handshake ==
  /\ closeSent <=> state # "Established"
  /\ protocolError => closeSent
  /\ pc = "idle" => output = <<>> /\ buffer = <<>>

\* What was read and what is still to be read are the last frames the client
\* sent, in order, until something is dropped: nothing is before a violation or
\* a closed session.
Done == Len(said) - Len(buffer) - Len(wire)
InOrder ==
  ~protocolError /\ state # "Closed" =>
    /\ Done >= 0
    /\ \A i \in 1..Len(buffer) : buffer[i] = Done + i
    /\ \A i \in 1..Len(wire) : wire[i] = Done + Len(buffer) + i

\* The fragments of a message: every data frame since its first one, none of
\* them final.
Gathered(ids, last) ==
  /\ said[ids[1]].op # "continuation"
  /\ \A j \in 1..Len(ids) :
       /\ ids[j] \in 1..last /\ ids[j] >= ids[1]
       /\ said[ids[j]].op \in DataOps /\ ~said[ids[j]].fin
       /\ j > 1 => said[ids[j]].op = "continuation"
  /\ \A i \in 1..last : i >= ids[1] /\ said[i].op \in DataOps =>
       \E j \in 1..Len(ids) : ids[j] = i
Partial == state = "Established" /\ fragment # <<>> => Gathered(fragment, Done)

\* Echoed frames are one message.
Message(ids) ==
  /\ ids # <<>> /\ \A j \in 1..Len(ids) : ids[j] \in 1..Len(said)
  /\ said[ids[1]].op # "continuation"
  /\ ~TooLong(ids)
  /\ \A i \in ids[1]..Last(ids) : said[i].op \in DataOps <=> \E j \in 1..Len(ids) : ids[j] = i
  /\ \A j \in 1..Len(ids) : /\ ids[j] \in ids[1]..Last(ids)
                            /\ j > 1 => said[ids[j]].op = "continuation"
                            /\ said[ids[j]].fin <=> j = Len(ids)

\* What is fit to be said to the client: no frame follows a Close, echoes are
\* whole messages, replies are in order, and the latest frame that was answered
\* is one of those handled.
Asks(f) == f.op \in {"echo", "pong"}
Good(s) ==
  /\ \A k \in 1..Len(s) : s[k].op = "close" => closeSent /\ k = Len(s)
  /\ \A k \in 1..Len(s) : s[k].op = "echo" => Message(s[k].of)
  /\ \A i, j \in 1..Len(s) : Asks(s[i]) /\ Asks(s[j]) /\ i < j => Last(s[i].of) < Last(s[j].of)
  /\ state = "Established" => \A k \in 1..Len(s) : Asks(s[k]) => Last(s[k].of) \in 1..Done
Said == Good(Stream)

\* Frames are named by their place in what the client said.
Known ==
  /\ Len(said) <= MaxFrames
  /\ wire \in Seq(1..Len(said)) /\ buffer \in Seq(1..Len(said)) /\ fragment \in Seq(1..Len(said))

SessionInv == TypeOK /\ Known /\ Handshake /\ InOrder /\ Partial /\ Said

-----------------------------------------------------------------------------
(* What feed does with one frame *)

\* A frame that changes nothing: it is ignored while the session closes, or a
\* pong.
Ignores(id) ==
  /\ UNCHANGED <<state, closeSent, protocolError, fragment, output>>
  /\ state = "Established" /\ ~protocolError => said[id].op \notin DataOps

\* The first violation.
Fails ==
  /\ ~protocolError /\ protocolError' = TRUE /\ closeSent' = TRUE /\ state' \in {"Closing", "Closed"}
  /\ fragment' = <<>>
  /\ output' = IF closeSent THEN output ELSE Append(output, Close(<<>>))

\* A valid Close of the peer.
PeerCloses(id) ==
  /\ output' = IF state = "Established" THEN Append(output, Close(<<id>>)) ELSE output
  /\ closeSent' = (closeSent \/ state = "Established")
  /\ state' = IF closeSent' THEN "Closed" ELSE state
  /\ UNCHANGED <<protocolError, fragment>>

\* A message is complete with this frame.
Echoes(id) ==
  /\ state = "Established" /\ UNCHANGED <<state, closeSent, protocolError>>
  /\ said[id].fin /\ ~(said[id].size > MaxMessage)
  /\ \/ fragment = <<>> /\ said[id].op \in {"text", "binary"} /\ output' = Append(output, Echo(<<id>>))
     \/ /\ fragment # <<>> /\ said[id].op = "continuation"
        /\ ~(SizeOf(Append(fragment, id)) > MaxMessage)
        /\ output' = Append(output, Echo(Append(fragment, id)))
  /\ fragment' = <<>>

\* A message begins or goes on.
Gathers(id) ==
  /\ state = "Established" /\ UNCHANGED <<state, closeSent, protocolError, output>>
  /\ ~said[id].fin
  /\ \/ fragment = <<>> /\ said[id].op \in {"text", "binary"} /\ fragment' = <<id>>
     \/ fragment # <<>> /\ said[id].op = "continuation" /\ fragment' = Append(fragment, id)

Pongs(id) ==
  /\ state = "Established" /\ UNCHANGED <<state, closeSent, protocolError, fragment>>
  /\ said[id].op = "ping" /\ output' = Append(output, Pong(id))

LEMMA FrameTyped ==
  ASSUME said \in Seq(Frames), NEW id \in 1..Len(said)
  PROVE  /\ said[id].op \in Opcodes /\ said[id].fin \in BOOLEAN /\ said[id].masked \in BOOLEAN
         /\ said[id].size \in Nat
  <1>1. said[id] \in Frames
    BY ElementOfSeq
  <1> QED
    BY <1>1, SessionAssumption

\* Violation, wherever it is found.
LEMMA FailCases ==
  ASSUME NEW id, NEW received, FailConnection(received), protocolError \in BOOLEAN,
         protocolError => state # "Established"
  PROVE  Ignores(id) \/ Fails
  BY DEF FailConnection, Ignores, Fails

\* The outcomes of process_frame, and of a frame refused by the parser.
LEMMA FeedCases ==
  ASSUME TypeOK, Handshake, FeedFrame, NEW id, id = Head(buffer), id \in 1..Len(said)
  PROVE  Ignores(id) \/ Fails \/ PeerCloses(id) \/ Echoes(id) \/ Gathers(id) \/ Pongs(id)
  <1>1. /\ said[id].op \in Opcodes /\ said[id].fin \in BOOLEAN /\ said[id].masked \in BOOLEAN
        /\ said[id].size \in Nat
    BY FrameTyped DEF TypeOK
  <1>2. protocolError \in BOOLEAN /\ (protocolError => state # "Established")
    BY DEF TypeOK, Handshake
  <1>3. ASSUME NEW received, FailConnection(received) PROVE Ignores(id) \/ Fails
    BY <1>2, <1>3, FailCases
  <1>4. CASE Violation
    BY <1>3, <1>4 DEF Violation
  <1>5. CASE HandleClose(id)
    BY <1>3, <1>5 DEF HandleClose, PeerCloses
  <1>6. CASE UNCHANGED <<sessionVars, output>> /\ state # "Established"
    BY <1>6 DEF sessionVars, Ignores
  <1>7. CASE ~Refused(id) /\ state = "Established" /\ said[id].op \in {"text", "binary"} /\ DataFrame(id)
    BY <1>1, <1>4, <1>7, SessionAssumption DEF DataFrame, Deliver, Echoes, Gathers, Refused
  <1>8. CASE ~Refused(id) /\ state = "Established" /\ said[id].op = "continuation" /\ Continuation(id)
    BY <1>1, <1>4, <1>8, SessionAssumption DEF Continuation, Deliver, Echoes, Gathers, Refused
  <1>9. CASE state = "Established" /\ said[id].op \in {"ping", "pong"} /\ ControlFrame(id)
    BY <1>9 DEF ControlFrame, Pongs, Ignores, sessionVars, DataOps
  <1>10. CASE ~Refused(id) /\ ProcessFrame(id)
    <2>1. CASE ~said[id].masked
      BY <1>4, <1>10, <2>1 DEF ProcessFrame
    <2>2. CASE said[id].masked /\ state # "Established"
      BY <1>5, <1>6, <1>10, <2>2 DEF ProcessFrame
    <2>3. CASE said[id].masked /\ state = "Established"
      <3>1. CASE said[id].op = "close"
        BY <1>5, <1>10, <2>3, <3>1 DEF ProcessFrame
      <3>2. CASE said[id].op \in {"text", "binary"}
        BY <1>7, <1>10, <2>3, <3>2 DEF ProcessFrame
      <3>3. CASE said[id].op = "continuation"
        BY <1>8, <1>10, <2>3, <3>3 DEF ProcessFrame
      <3>4. CASE said[id].op \in {"ping", "pong"}
        BY <1>9, <1>10, <2>3, <3>4 DEF ProcessFrame
      <3> QED
        BY <1>1, <1>10, <3>1, <3>2, <3>3, <3>4 DEF Opcodes, Refused
    <2> QED
      BY <1>1, <2>1, <2>2, <2>3
  <1> QED
    BY <1>4, <1>10 DEF FeedFrame

-----------------------------------------------------------------------------
(* Types *)

\* A sequence cut after its first n elements.
LEMMA CutSeq ==
  ASSUME NEW S, NEW q \in Seq(S), NEW n \in 0..Len(q)
  PROVE  /\ SubSeq(q, 1, n) \in Seq(S) /\ Len(SubSeq(q, 1, n)) = n
         /\ \A i \in 1..n : i \in 1..Len(q) /\ SubSeq(q, 1, n)[i] = q[i]
         /\ SubSeq(q, n + 1, Len(q)) \in Seq(S) /\ Len(SubSeq(q, n + 1, Len(q))) = Len(q) - n
         /\ \A i \in 1..Len(q) - n : i + n \in 1..Len(q) /\ SubSeq(q, n + 1, Len(q))[i] = q[i + n]
  <1>1. Len(q) \in Nat /\ n \in Nat /\ n <= Len(q)
    BY LenProperties
  <1>2. \A i \in 1..Len(q) : q[i] \in S
    BY ElementOfSeq
  <1>3. \A i \in 1..n : i \in 1..Len(q) /\ 1 + i - 1 = i
    BY <1>1
  <1>4. SubSeq(q, 1, n) \in Seq(S) /\ Len(SubSeq(q, 1, n)) = n /\ \A i \in 1..n : SubSeq(q, 1, n)[i] = q[i]
    BY <1>1, <1>2, <1>3, SubSeqProperties
  <1>5. /\ SubSeq(q, n + 1, Len(q)) \in Seq(S)
        /\ Len(SubSeq(q, n + 1, Len(q))) = IF n + 1 <= Len(q) THEN Len(q) - (n + 1) + 1 ELSE 0
        /\ \A i \in 1..Len(q) - (n + 1) + 1 : SubSeq(q, n + 1, Len(q))[i] = q[n + 1 + i - 1]
    <2>1. \A i \in n + 1..Len(q) : q[i] \in S
      BY <1>1, <1>2
    <2> QED
      BY <1>1, <2>1, SubSeqProperties
  <1>6. \A i \in 1..Len(q) - n : /\ i + n \in 1..Len(q) /\ n + 1 + i - 1 = i + n
                                 /\ i \in 1..Len(q) - (n + 1) + 1
    BY <1>1
  <1>7. Len(SubSeq(q, n + 1, Len(q))) = Len(q) - n
    BY <1>1, <1>5
  <1> QED
    BY <1>3, <1>4, <1>5, <1>6, <1>7

\* Every frame the server sends is typed.
LEMMA RepliesTyped ==
  ASSUME NEW ids \in Seq(Nat)
  PROVE  /\ Echo(ids) \in ServerFrames /\ Close(ids) \in ServerFrames
         /\ Close(<<>>) \in ServerFrames /\ Ping \in ServerFrames /\ Switching \in ServerFrames
         /\ \A id \in Nat : Pong(id) \in ServerFrames /\ Close(<<id>>) \in ServerFrames
                             /\ Echo(<<id>>) \in ServerFrames
  BY EmptySeq DEF Echo, Close, Ping, Pong, Switching, ServerFrames

\* The deadline of an upgraded connection is one of the budgets.
LEMMA BudgetTyped ==
  ASSUME NEW w, NEW st
  PROVE  Budget(FALSE, "Writing", "Headers", w, st) \in Budgets
  BY DEF Budget, Budgets, Flushing

\* The frame that feed has in hand.
LEMMA HeadKnown ==
  ASSUME Known, buffer # <<>>
  PROVE  /\ Head(buffer) \in 1..Len(said) /\ Head(buffer) = buffer[1] /\ 1 \in 1..Len(buffer)
         /\ Tail(buffer) \in Seq(1..Len(said)) /\ Len(Tail(buffer)) = Len(buffer) - 1
         /\ \A i \in 1..Len(Tail(buffer)) : i + 1 \in 1..Len(buffer) /\ Tail(buffer)[i] = buffer[i + 1]
  <1>1. buffer \in Seq(1..Len(said)) /\ Len(buffer) \in Nat \ {0}
    BY EmptySeq DEF Known
  <1> QED
    BY <1>1, HeadTailProperties

\* feed leaves the buffers typed, whatever it drops.
LEMMA FeedBuffers ==
  ASSUME Known, FeedFrame
  PROVE  /\ UNCHANGED <<said, pc, connVars, pings>>
         /\ wire' \in Seq(1..Len(said)) /\ buffer' \in Seq(1..Len(said))
         /\ ~protocolError' => buffer' = Tail(buffer) /\ wire' = wire
  <1>1. wire # <<>> => Tail(wire) \in Seq(1..Len(said))
    BY HeadTailProperties DEF Known
  <1> QED
    BY <1>1, HeadKnown, EmptySeq DEF FeedFrame, Discard, Known

\* close_received_ is set by a Close and otherwise kept.
LEMMA CloseReceivedTyped ==
  ASSUME TypeOK, FeedFrame
  PROVE  closeReceived' \in BOOLEAN
  <1>1. closeReceived \in BOOLEAN
    BY DEF TypeOK
  <1>2. Violation => closeReceived' \in BOOLEAN
    BY <1>1 DEF Violation, FailConnection
  <1>3. \A ids : Deliver(ids) => closeReceived' \in BOOLEAN
    BY <1>1, <1>2 DEF Deliver
  <1>4. ASSUME NEW id, ProcessFrame(id) PROVE closeReceived' \in BOOLEAN
    <2>1. HandleClose(id) => closeReceived' \in BOOLEAN
      BY DEF HandleClose, FailConnection
    <2>2. DataFrame(id) \/ Continuation(id) \/ ControlFrame(id) => closeReceived' \in BOOLEAN
      BY <1>1, <1>2, <1>3 DEF DataFrame, Continuation, ControlFrame, sessionVars
    <2>3. UNCHANGED <<sessionVars, output>> => closeReceived' \in BOOLEAN
      BY <1>1 DEF sessionVars
    <2> QED
      BY <1>2, <1>4, <2>1, <2>2, <2>3 DEF ProcessFrame
  <1> QED
    BY <1>2, <1>4 DEF FeedFrame

\* feed leaves the session typed.
LEMMA FeedTyped ==
  ASSUME TypeOK, Known, Handshake, FeedFrame
  PROVE  /\ fragment' \in Seq(1..Len(said)) /\ output' \in Seq(ServerFrames)
         /\ state' \in SessionStates \ {"none"}
         /\ closeSent' \in BOOLEAN /\ closeReceived' \in BOOLEAN /\ protocolError' \in BOOLEAN
  <1> DEFINE id == Head(buffer)
  <1>1. id \in 1..Len(said) /\ id \in Nat
    BY HeadKnown DEF FeedFrame
  <1>2. Ignores(id) \/ Fails \/ PeerCloses(id) \/ Echoes(id) \/ Gathers(id) \/ Pongs(id)
    BY <1>1, FeedCases
  <1>3. closeReceived' \in BOOLEAN
    BY CloseReceivedTyped
  <1> HIDE DEF id
  <1>4. /\ fragment \in Seq(1..Len(said)) /\ <<>> \in Seq(1..Len(said))
        /\ <<id>> \in Seq(1..Len(said)) /\ Append(fragment, id) \in Seq(1..Len(said))
    BY <1>1, EmptySeq, AppendProperties DEF Known
  <1>5. fragment' \in Seq(1..Len(said))
    BY <1>2, <1>4 DEF Ignores, Fails, PeerCloses, Echoes, Gathers, Pongs
  <1>6. Append(fragment, id) \in Seq(Nat)
    BY <1>4, SeqMonotonic
  <1>7. \A f \in ServerFrames : Append(output, f) \in Seq(ServerFrames)
    BY AppendProperties DEF TypeOK
  <1>8. output' \in Seq(ServerFrames)
    BY <1>1, <1>2, <1>6, <1>7, RepliesTyped DEF TypeOK, Ignores, Fails, PeerCloses, Echoes, Gathers, Pongs
  <1>9. /\ state' \in SessionStates \ {"none"}
        /\ closeSent' \in BOOLEAN /\ protocolError' \in BOOLEAN
    BY <1>2 DEF TypeOK, SessionStates, Ignores, Fails, PeerCloses, Echoes, Gathers, Pongs
  <1> QED
    BY <1>3, <1>5, <1>8, <1>9

\* The steps that touch neither what the client said nor the frames on their
\* way to the session.
Quiet == UNCHANGED <<said, wire, buffer, fragment>>

LEMMA StepCases ==
  ASSUME [Next]_vars
  PROVE  \/ \E f \in Frames : ClientSends(f)
         \/ \E n \in 0..MaxFrames : ReadFrames(n)
         \/ FeedFrame
         \/ EndFeed /\ Quiet
         \/ (\E n \in 0..Len(out) : Write(n)) /\ Quiet
         \/ MaintainPing /\ Quiet
         \/ (PeerGone \/ Expire) /\ Quiet
         \/ Shutdown /\ Quiet
         \/ UNCHANGED vars /\ Quiet
  <1>1. EndFeed => Quiet
    BY DEF EndFeed, Quiet, sessionVars
  <1>2. ASSUME NEW n \in 0..Len(out), Write(n) PROVE Quiet
    BY <1>2 DEF Write, Quiet, sessionVars
  <1>3. MaintainPing => Quiet
    BY DEF MaintainPing, Quiet, sessionVars
  <1>4. PeerGone \/ Expire \/ Shutdown => Quiet
    BY DEF PeerGone, Expire, Shutdown, Quiet, sessionVars
  <1>5. UNCHANGED vars => Quiet
    BY DEF vars, Quiet, sessionVars
  <1> QED
    BY <1>1, <1>2, <1>3, <1>4, <1>5 DEF Next, Read, Gone

\* What a client that sends a frame changes.
LEMMA SendsFacts ==
  ASSUME TypeOK, Known, NEW f \in Frames, ClientSends(f)
  PROVE  /\ said' = Append(said, f) /\ said' \in Seq(Frames) /\ Len(said') = Len(said) + 1
         /\ Len(said') <= MaxFrames /\ Len(said) \in Nat
         /\ \A i \in 1..Len(said) : i \in 1..Len(said') /\ said'[i] = said[i]
         /\ wire' = Append(wire, Len(said) + 1)
         /\ wire' \in Seq(1..Len(said')) /\ Len(wire') = Len(wire) + 1 /\ Len(wire) \in Nat
         /\ \A i \in 1..Len(wire) : wire'[i] = wire[i]
         /\ wire'[Len(wire) + 1] = Len(said) + 1
         /\ UNCHANGED <<pc, buffer, sessionVars, output, connVars, pings>>
  <1>1. said \in Seq(Frames) /\ said' = Append(said, f) /\ Len(said) \in Nat
    BY DEF TypeOK, ClientSends
  <1>2. /\ said' \in Seq(Frames) /\ Len(said') = Len(said) + 1
        /\ \A i \in 1..Len(said) : said'[i] = said[i]
    BY <1>1, AppendProperties
  <1>3. Len(said') <= MaxFrames
    BY <1>1, <1>2, SessionAssumption DEF ClientSends
  <1>4. wire \in Seq(1..Len(said')) /\ Len(said) + 1 \in 1..Len(said')
    <2>1. 1..Len(said) \subseteq 1..Len(said')
      BY <1>1, <1>2
    <2> QED
      BY <1>1, <1>2, <2>1, SeqMonotonic DEF Known
  <1>5. wire' = Append(wire, Len(said) + 1)
    BY <1>2 DEF ClientSends
  <1>6. /\ wire' \in Seq(1..Len(said')) /\ Len(wire') = Len(wire) + 1
        /\ \A i \in 1..Len(wire) : wire'[i] = wire[i]
        /\ wire'[Len(wire) + 1] = Len(said) + 1
    BY <1>4, <1>5, AppendProperties
  <1>7. \A i \in 1..Len(said) : i \in 1..Len(said')
    BY <1>1, <1>2
  <1>8. Len(wire) \in Nat /\ UNCHANGED <<pc, buffer, sessionVars, output, connVars, pings>>
    BY <1>4 DEF ClientSends
  <1> QED
    BY <1>1, <1>2, <1>3, <1>5, <1>6, <1>7, <1>8

\* What a read changes.
LEMMA ReadFacts ==
  ASSUME TypeOK, Known, NEW n \in 0..MaxFrames, ReadFrames(n)
  PROVE  /\ n \in 0..Len(wire) /\ pc' = "feed" /\ pc = "idle"
         /\ UNCHANGED <<said, sessionVars, output, out, wstate, mask, open, got, pings>>
         /\ buffer' \in Seq(1..Len(said)) /\ wire' \in Seq(1..Len(said))
         /\ wire' = SubSeq(wire, n + 1, Len(wire))
         /\ state # "Closed" => buffer' = SubSeq(wire, 1, n)
         /\ budget' \in Budgets
  <1>1. wire \in Seq(1..Len(said)) /\ n \in 0..Len(wire)
    BY SessionAssumption DEF Known, ReadFrames
  <1>2. SubSeq(wire, 1, n) \in Seq(1..Len(said)) /\ SubSeq(wire, n + 1, Len(wire)) \in Seq(1..Len(said))
    BY <1>1, CutSeq
  <1>3. budget' \in Budgets
    BY BudgetTyped DEF ReadFrames
  <1>4. <<>> \in Seq(1..Len(said))
    BY EmptySeq
  <1> QED
    BY <1>1, <1>2, <1>3, <1>4 DEF ReadFrames

\* Names stay the names of frames that were sent.
LEMMA KnownStep ==
  ASSUME TypeOK, Known, Handshake, [Next]_vars
  PROVE  Known'
  <1>1. ASSUME NEW f \in Frames, ClientSends(f) PROVE Known'
    <2>1. Len(said') <= MaxFrames /\ wire' \in Seq(1..Len(said')) /\ UNCHANGED <<buffer, fragment>>
      BY <1>1, SendsFacts DEF sessionVars
    <2>2. 1..Len(said) \subseteq 1..Len(said')
      BY <1>1, SendsFacts
    <2>3. buffer \in Seq(1..Len(said')) /\ fragment \in Seq(1..Len(said'))
      BY <2>2, SeqMonotonic DEF Known
    <2> QED
      BY <2>1, <2>3 DEF Known
  <1>2. ASSUME NEW n \in 0..MaxFrames, ReadFrames(n) PROVE Known'
    BY <1>2, ReadFacts DEF Known, sessionVars
  <1>3. CASE FeedFrame
    BY <1>3, FeedTyped, FeedBuffers DEF Known
  <1>4. CASE Quiet
    BY <1>4 DEF Known, Quiet
  <1> QED
    BY <1>1, <1>2, <1>3, <1>4, StepCases

\* The frames that Write, and the shutdown, take from the output buffer.
LEMMA WriteFacts ==
  ASSUME TypeOK, NEW n \in 0..Len(out), Write(n)
  PROVE  /\ out' \in Seq(ServerFrames) /\ got' \in Seq(ServerFrames)
         /\ wstate' \in WriteStates /\ mask' \in SUBSET {"in", "out"}
         /\ budget' \in Budgets /\ open' \in BOOLEAN
  <1>1. out \in Seq(ServerFrames) /\ got \in Seq(ServerFrames)
    BY DEF TypeOK
  <1>2. SubSeq(out, 1, n) \in Seq(ServerFrames) /\ SubSeq(out, n + 1, Len(out)) \in Seq(ServerFrames)
    BY <1>1, CutSeq
  <1>3. got \o SubSeq(out, 1, n) \in Seq(ServerFrames)
    BY <1>1, <1>2, ConcatProperties
  <1>4. wstate' \in WriteStates /\ mask' \in SUBSET {"in", "out"} /\ open' \in BOOLEAN
    BY DEF Write, Flushed, TypeOK, WriteStates
  <1>5. budget' \in Budgets
    BY BudgetTyped DEF Write
  <1> QED
    BY <1>2, <1>3, <1>4, <1>5 DEF Write

LEMMA ShutdownFacts ==
  ASSUME TypeOK, Shutdown
  PROVE  /\ got' \in Seq(ServerFrames) /\ closeSent' \in BOOLEAN /\ state' \in SessionStates \ {"none"}
         /\ open' = FALSE /\ mask' = {} /\ out' = <<>>
         /\ \E all \in Seq(ServerFrames) :
              /\ \/ state = "Established" /\ ~closeSent /\ all = Append(out, Close(<<>>)) /\ closeSent' /\ state' = "Closing"
                 \/ all = out /\ UNCHANGED <<closeSent, state>>
              /\ \E n \in 0..Len(all) : got' = got \o SubSeq(all, 1, n)
  <1>1. out \in Seq(ServerFrames) /\ got \in Seq(ServerFrames) /\ Append(out, Close(<<>>)) \in Seq(ServerFrames)
    BY RepliesTyped, EmptySeq, AppendProperties DEF TypeOK
  <1>2. PICK all \in {out, Append(out, Close(<<>>))} :
             InitiateClose(all) /\ \E n \in 0..Len(all) : got' = got \o SubSeq(all, 1, n)
    BY DEF Shutdown
  <1>3. all \in Seq(ServerFrames)
    BY <1>1, <1>2
  <1>4. PICK n \in 0..Len(all) : got' = got \o SubSeq(all, 1, n)
    BY <1>2
  <1>5. SubSeq(all, 1, n) \in Seq(ServerFrames)
    BY <1>3, CutSeq
  <1>6. got' \in Seq(ServerFrames)
    BY <1>1, <1>4, <1>5, ConcatProperties
  <1>7. \/ state = "Established" /\ ~closeSent /\ all = Append(out, Close(<<>>)) /\ closeSent' = TRUE /\ state' = "Closing"
        \/ all = out /\ UNCHANGED <<closeSent, state>>
    BY <1>2 DEF InitiateClose, TypeOK
  <1>8. closeSent' \in BOOLEAN /\ state' \in SessionStates \ {"none"}
    BY <1>7 DEF TypeOK, SessionStates
  <1>9. open' = FALSE /\ mask' = {} /\ out' = <<>>
    BY DEF Shutdown, CloseConnection
  <1> QED
    BY <1>3, <1>4, <1>6, <1>7, <1>8, <1>9

LEMMA TypeStep ==
  ASSUME TypeOK, Known, Handshake, [Next]_vars
  PROVE  TypeOK'
  <1>1. wire' \in Seq(Ids) /\ buffer' \in Seq(Ids) /\ fragment' \in Seq(Ids)
    <2>1. said' \in Seq(Frames)
      <3>1. \A f \in Frames : ClientSends(f) => said' \in Seq(Frames)
        BY SendsFacts
      <3>2. \A n \in 0..MaxFrames : ReadFrames(n) => said' = said
        BY DEF ReadFrames
      <3> QED
        BY <3>1, <3>2, StepCases DEF FeedFrame, Quiet, TypeOK
    <2>2. Len(said') \in Nat /\ Len(said') <= MaxFrames /\ Known'
      BY <2>1, KnownStep, LenProperties DEF Known
    <2>3. 1..Len(said') \subseteq Ids
      BY <2>2, SessionAssumption DEF Ids
    <2> QED
      BY <2>2, <2>3, SeqMonotonic DEF Known
  <1>0. /\ tls' = tls /\ tls \in BOOLEAN /\ silent \in BOOLEAN
        /\ (\A f \in Frames : ClientSends(f) => silent' = FALSE)
        /\ (\A n \in 0..MaxFrames : ReadFrames(n) => silent' \in {FALSE, tls /\ n < Len(wire)})
        /\ (\A f \in Frames : ~ClientSends(f)) /\ (\A n \in 0..MaxFrames : ~ReadFrames(n)) => silent' = silent
    BY StepCases, Zenon DEF TypeOK, ClientSends, ReadFrames, FeedFrame, EndFeed, Write, MaintainPing,
       PeerGone, Expire, Shutdown, tlsVars, vars
  <1>a. silent' \in BOOLEAN
    BY <1>0
  <1>2. ASSUME NEW f \in Frames, ClientSends(f) PROVE TypeOK'
    BY <1>0, <1>a, <1>1, <1>2, SendsFacts DEF TypeOK, sessionVars, connVars
  <1>3. ASSUME NEW n \in 0..MaxFrames, ReadFrames(n) PROVE TypeOK'
    BY <1>0, <1>a, <1>1, <1>3, ReadFacts DEF TypeOK, sessionVars
  <1>4. CASE FeedFrame
    BY <1>0, <1>a, <1>1, <1>4, FeedTyped DEF TypeOK, FeedFrame, connVars
  <1>5. CASE EndFeed
    <2>1. out' \in Seq(ServerFrames) /\ output' \in Seq(ServerFrames)
      BY <1>5, ConcatProperties, EmptySeq DEF TypeOK, EndFeed
    <2>2. budget' \in Budgets
      BY <1>5, BudgetTyped DEF EndFeed
    <2>3. wstate' \in WriteStates /\ mask' \in SUBSET {"in", "out"} /\ pc' \in {"idle", "feed"}
      BY <1>5 DEF EndFeed, TypeOK, WriteStates
    <2> QED
      BY <1>0, <1>a, <1>1, <1>5, <2>1, <2>2, <2>3 DEF TypeOK, EndFeed, sessionVars
  <1>6. ASSUME NEW n \in 0..Len(out), Write(n) PROVE TypeOK'
    BY <1>0, <1>a, <1>1, <1>6, WriteFacts DEF TypeOK, Write, sessionVars
  <1>7. CASE MaintainPing
    <2>1. out' \in Seq(ServerFrames)
      BY <1>7, RepliesTyped, EmptySeq, AppendProperties DEF TypeOK, MaintainPing
    <2>2. budget' \in Budgets
      BY <1>7, BudgetTyped DEF MaintainPing
    <2>3. pings' \in 0..MaxPings
      BY <1>7, SessionAssumption DEF TypeOK, MaintainPing
    <2> QED
      BY <1>0, <1>a, <1>1, <1>7, <2>1, <2>2, <2>3 DEF TypeOK, MaintainPing, sessionVars, WriteStates
  <1>8. CASE PeerGone \/ Expire
    BY <1>0, <1>a, <1>1, <1>8, EmptySeq DEF TypeOK, PeerGone, Expire, CloseConnection, sessionVars
  <1>9. CASE Shutdown
    BY <1>0, <1>a, <1>1, <1>9, ShutdownFacts, EmptySeq DEF TypeOK, Shutdown
  <1>10. CASE UNCHANGED vars
    BY <1>0, <1>a, <1>10 DEF TypeOK, vars, sessionVars, connVars
  <1> QED
    BY <1>2, <1>3, <1>4, <1>5, <1>6, <1>7, <1>8, <1>9, <1>10, StepCases

\* Whoever sends a Close leaves the Established state.
LEMMA HandshakeStep ==
  ASSUME TypeOK, Known, Handshake, [Next]_vars
  PROVE  Handshake'
  <1>1. ASSUME NEW f \in Frames, ClientSends(f) PROVE Handshake'
    BY <1>1 DEF Handshake, ClientSends, sessionVars
  <1>2. ASSUME NEW n \in 0..MaxFrames, ReadFrames(n) PROVE Handshake'
    BY <1>2 DEF Handshake, ReadFrames, sessionVars
  <1>3. CASE FeedFrame
    <2> DEFINE id == Head(buffer)
    <2>1. id \in 1..Len(said)
      BY <1>3, HeadKnown DEF FeedFrame
    <2>2. Ignores(id) \/ Fails \/ PeerCloses(id) \/ Echoes(id) \/ Gathers(id) \/ Pongs(id)
      BY <1>3, <2>1, FeedCases
    <2>3. pc' = "feed"
      BY <1>3 DEF FeedFrame
    <2> QED
      BY <2>2, <2>3 DEF Handshake, TypeOK, Ignores, Fails, PeerCloses, Echoes, Gathers, Pongs
  <1>4. CASE EndFeed
    BY <1>4 DEF Handshake, EndFeed, sessionVars
  <1>5. ASSUME NEW n \in 0..Len(out), Write(n) PROVE Handshake'
    BY <1>5 DEF Handshake, Write, sessionVars
  <1>6. CASE MaintainPing
    BY <1>6 DEF Handshake, MaintainPing, sessionVars
  <1>7. CASE PeerGone \/ Expire
    <2>1. UNCHANGED <<closeSent, state, protocolError, pc, output, buffer>>
      BY <1>7 DEF PeerGone, Expire, sessionVars
    <2> QED
      BY <2>1 DEF Handshake
  <1>8. CASE Shutdown
    <2>1. UNCHANGED <<protocolError, pc, output, buffer>>
      BY <1>8 DEF Shutdown
    <2>2. (closeSent' /\ state' = "Closing") \/ UNCHANGED <<closeSent, state>>
      BY <1>8, ShutdownFacts
    <2> QED
      BY <2>1, <2>2 DEF Handshake, TypeOK
  <1>9. CASE UNCHANGED vars
    BY <1>9 DEF Handshake, vars, sessionVars
  <1> QED
    BY <1>1, <1>2, <1>3, <1>4, <1>5, <1>6, <1>7, <1>8, <1>9, StepCases

-----------------------------------------------------------------------------
(* The frames that have been handled *)

\* A session that goes on was going on, and a step handles at most one frame:
\* feed the one in its hand.
Goes == ~protocolError /\ state # "Closed"

LEMMA GoesOn ==
  ASSUME TypeOK, Known, Handshake, [Next]_vars, Goes'
  PROVE  Goes
  <1>1. CASE FeedFrame
    <2> DEFINE id == Head(buffer)
    <2>1. id \in 1..Len(said)
      BY <1>1, HeadKnown DEF FeedFrame
    <2>2. Ignores(id) \/ Fails \/ PeerCloses(id) \/ Echoes(id) \/ Gathers(id) \/ Pongs(id)
      BY <1>1, <2>1, FeedCases
    <2> QED
      BY <2>2 DEF Goes, Handshake, TypeOK, Ignores, Fails, PeerCloses, Echoes, Gathers, Pongs
  <1>2. CASE Shutdown
    <2>1. state' = state \/ state = "Established"
      BY <1>2, ShutdownFacts
    <2>2. protocolError' = protocolError
      BY <1>2 DEF Shutdown
    <2> QED
      BY <2>1, <2>2 DEF Goes
  <1>3. CASE UNCHANGED <<protocolError, state>>
    BY <1>3 DEF Goes
  <1>4. \A n : Write(n) => UNCHANGED <<protocolError, state>>
    BY DEF Write, sessionVars
  <1>5. \A n : ReadFrames(n) => UNCHANGED <<protocolError, state>>
    BY DEF ReadFrames, sessionVars
  <1>6. \A f : ClientSends(f) => UNCHANGED <<protocolError, state>>
    BY DEF ClientSends, sessionVars
  <1>7. EndFeed \/ MaintainPing \/ PeerGone \/ Expire \/ UNCHANGED vars => UNCHANGED <<protocolError, state>>
    BY DEF EndFeed, MaintainPing, PeerGone, Expire, vars, sessionVars
  <1> QED
    BY <1>1, <1>2, <1>3, <1>4, <1>5, <1>6, <1>7, StepCases

\* What feed changes in the buffers of a session that goes on.
LEMMA FeedAdvances ==
  ASSUME TypeOK, Known, FeedFrame, Goes'
  PROVE  /\ Done \in Int /\ Done' = Done + 1 /\ UNCHANGED <<said, wire>>
         /\ Len(buffer') = Len(buffer) - 1 /\ Len(buffer) \in Nat
         /\ \A i \in 1..Len(buffer') : i + 1 \in 1..Len(buffer) /\ buffer'[i] = buffer[i + 1]
  <1>1. UNCHANGED <<said, wire>> /\ buffer' = Tail(buffer) /\ buffer # <<>>
    BY FeedBuffers DEF Goes, FeedFrame
  <1>2. Len(said) \in Nat /\ Len(buffer) \in Nat /\ Len(wire) \in Nat
    BY LenProperties DEF TypeOK
  <1>3. Len(Tail(buffer)) = Len(buffer) - 1
    BY <1>1, HeadKnown
  <1>4. Done \in Int /\ Done' = Done + 1
    BY <1>1, <1>2, <1>3 DEF Done
  <1> QED
    BY <1>1, <1>2, <1>3, <1>4, HeadKnown

\* No other step handles a frame.
LEMMA NoFrameHandled ==
  ASSUME TypeOK, Known, Handshake, [Next]_vars, Goes', ~FeedFrame
  PROVE  Done' = Done
  <1>1. Len(said) \in Nat /\ Len(buffer) \in Nat /\ Len(wire) \in Nat
    BY LenProperties DEF TypeOK
  <1>2. ASSUME NEW f \in Frames, ClientSends(f) PROVE Done' = Done
    <2>1. Len(said') = Len(said) + 1 /\ Len(wire') = Len(wire) + 1 /\ buffer' = buffer
      BY <1>2, SendsFacts
    <2> QED
      BY <1>1, <2>1 DEF Done
  <1>3. ASSUME NEW n \in 0..MaxFrames, ReadFrames(n) PROVE Done' = Done
    <2>1. n \in 0..Len(wire) /\ said' = said /\ state # "Closed" /\ buffer = <<>>
      BY <1>3, ReadFacts, GoesOn DEF Goes, Handshake
    <2>2. wire' = SubSeq(wire, n + 1, Len(wire)) /\ buffer' = SubSeq(wire, 1, n)
      BY <1>3, <2>1, ReadFacts
    <2>3. wire \in Seq(1..Len(said))
      BY DEF Known
    <2>4. Len(wire') = Len(wire) - n /\ Len(buffer') = n
      BY <2>1, <2>2, <2>3, CutSeq
    <2>5. Len(buffer) = 0
      BY <2>1
    <2> QED
      BY <1>1, <2>1, <2>4, <2>5 DEF Done
  <1>4. CASE Quiet
    BY <1>4 DEF Quiet, Done
  <1> QED
    BY <1>2, <1>3, <1>4, StepCases

\* The buffers stay the last of what the client said.
LEMMA InOrderStep ==
  ASSUME TypeOK, Known, Handshake, InOrder, [Next]_vars
  PROVE  InOrder'
  <1> SUFFICES ASSUME Goes' PROVE InOrder'
    BY DEF InOrder, Goes
  <1>1. Len(said) \in Nat /\ Len(buffer) \in Nat /\ Len(wire) \in Nat /\ Done \in Int
    BY LenProperties DEF TypeOK, Done
  <1>2. /\ Done >= 0
        /\ \A i \in 1..Len(buffer) : buffer[i] = Done + i
        /\ \A i \in 1..Len(wire) : wire[i] = Done + Len(buffer) + i
    BY GoesOn DEF InOrder, Goes
  <1>3. SUFFICES /\ Done' >= 0
                 /\ \A i \in 1..Len(buffer') : buffer'[i] = Done' + i
                 /\ \A i \in 1..Len(wire') : wire'[i] = Done' + Len(buffer') + i
    BY DEF InOrder
  <1>4. CASE FeedFrame
    <2>1. /\ Done' = Done + 1 /\ wire' = wire /\ Len(buffer') = Len(buffer) - 1
          /\ \A i \in 1..Len(buffer') : i + 1 \in 1..Len(buffer) /\ buffer'[i] = buffer[i + 1]
      BY <1>4, FeedAdvances
    <2> QED
      BY <1>1, <1>2, <2>1
  <1>5. ASSUME NEW f \in Frames, ClientSends(f), ~FeedFrame
        PROVE  /\ \A i \in 1..Len(buffer') : buffer'[i] = Done' + i
               /\ \A i \in 1..Len(wire') : wire'[i] = Done' + Len(buffer') + i
    <2>1. Done' = Done /\ buffer' = buffer
      BY <1>5, NoFrameHandled, SendsFacts
    <2>2. /\ Len(wire') = Len(wire) + 1 /\ \A i \in 1..Len(wire) : wire'[i] = wire[i]
          /\ wire'[Len(wire) + 1] = Len(said) + 1
      BY <1>5, SendsFacts
    <2>3. Len(said) + 1 = Done + Len(buffer) + (Len(wire) + 1)
      BY <1>1 DEF Done
    <2>4. \A i \in 1..Len(wire') : i \in 1..Len(wire) \/ i = Len(wire) + 1
      BY <1>1, <2>2
    <2> QED
      BY <1>2, <2>1, <2>2, <2>3, <2>4
  <1>6. ASSUME NEW n \in 0..MaxFrames, ReadFrames(n), ~FeedFrame
        PROVE  /\ \A i \in 1..Len(buffer') : buffer'[i] = Done' + i
               /\ \A i \in 1..Len(wire') : wire'[i] = Done' + Len(buffer') + i
    <2>1. n \in 0..Len(wire) /\ state # "Closed" /\ Len(buffer) = 0
      BY <1>6, ReadFacts, GoesOn DEF Goes, Handshake
    <2>2. wire' = SubSeq(wire, n + 1, Len(wire)) /\ buffer' = SubSeq(wire, 1, n)
      BY <1>6, <2>1, ReadFacts
    <2>3. wire \in Seq(1..Len(said))
      BY DEF Known
    <2>4. /\ Len(buffer') = n /\ \A i \in 1..n : i \in 1..Len(wire) /\ buffer'[i] = wire[i]
          /\ Len(wire') = Len(wire) - n
          /\ \A i \in 1..Len(wire) - n : i + n \in 1..Len(wire) /\ wire'[i] = wire[i + n]
      BY <2>1, <2>2, <2>3, CutSeq
    <2>5. Done' = Done
      BY <1>6, NoFrameHandled
    <2>6. ASSUME NEW i \in 1..Len(buffer') PROVE buffer'[i] = Done' + i
      <3>1. i \in 1..Len(wire) /\ buffer'[i] = wire[i]
        BY <2>4
      <3>2. wire[i] = Done + 0 + i
        BY <1>2, <2>1, <3>1
      <3> QED
        BY <1>1, <2>5, <3>1, <3>2
    <2>7. ASSUME NEW i \in 1..Len(wire') PROVE wire'[i] = Done' + Len(buffer') + i
      <3>1. i + n \in 1..Len(wire) /\ wire'[i] = wire[i + n]
        BY <2>4
      <3>2. wire[i + n] = Done + 0 + (i + n)
        BY <1>2, <2>1, <3>1
      <3>3. n \in Int /\ i \in Int
        BY <2>1
      <3>4. Done + 0 + (i + n) = Done + n + i
        BY <1>1, <3>3
      <3> QED
        BY <2>4, <2>5, <3>1, <3>2, <3>4
    <2> QED
      BY <2>6, <2>7
  <1>7. CASE Quiet /\ ~FeedFrame
    <2>1. Done' = Done /\ UNCHANGED <<buffer, wire>>
      BY <1>7, NoFrameHandled DEF Quiet
    <2> QED
      BY <1>2, <2>1
  <1>8. ~FeedFrame => Done' = Done
    BY NoFrameHandled
  <1> QED
    BY <1>2, <1>4, <1>5, <1>6, <1>7, <1>8, StepCases

\* What a session that is still Established has in hand.
LEMMA Established ==
  ASSUME TypeOK, Known, Handshake, InOrder, [Next]_vars, state' = "Established"
  PROVE  /\ Goes /\ Goes' /\ state = "Established" /\ Done \in 0..Len(said)
         /\ FeedFrame => Head(buffer) = Done + 1 /\ Done' = Done + 1
         /\ ~FeedFrame => Done' = Done /\ fragment' = fragment
         /\ \A i \in 1..Len(said) : said'[i] = said[i]
         /\ Len(said) \in Nat /\ Len(said') \in Nat /\ Len(said) <= Len(said')
  <1>1. Goes' /\ Goes
    BY HandshakeStep, GoesOn DEF Goes, Handshake
  <1>2. Len(said) \in Nat /\ Len(buffer) \in Nat /\ Len(wire) \in Nat
    BY LenProperties DEF TypeOK
  <1>3. Done \in 0..Len(said) /\ Done \in Int /\ \A i \in 1..Len(buffer) : buffer[i] = Done + i
    BY <1>1, <1>2 DEF InOrder, Goes, Done
  <1>4. FeedFrame => Head(buffer) = Done + 1 /\ Done' = Done + 1
    BY <1>1, <1>3, HeadKnown, FeedAdvances DEF FeedFrame
  <1>5. ASSUME ~FeedFrame PROVE Done' = Done /\ fragment' = fragment
    <2>1. \A f \in Frames : ClientSends(f) => fragment' = fragment
      BY DEF ClientSends, sessionVars
    <2>2. \A n \in 0..MaxFrames : ReadFrames(n) => fragment' = fragment
      BY DEF ReadFrames, sessionVars
    <2> QED
      BY <1>1, <1>5, <2>1, <2>2, NoFrameHandled, StepCases DEF Quiet
  <1>6. /\ \A i \in 1..Len(said) : said'[i] = said[i]
        /\ Len(said') \in Nat /\ Len(said) <= Len(said')
    <2>1. ASSUME NEW f \in Frames, ClientSends(f)
          PROVE  /\ \A i \in 1..Len(said) : said'[i] = said[i]
                 /\ Len(said') \in Nat /\ Len(said) <= Len(said')
      <3>1. Len(said') = Len(said) + 1 /\ \A i \in 1..Len(said) : said'[i] = said[i]
        BY <2>1, SendsFacts
      <3> QED
        BY <1>2, <3>1
    <2>2. CASE said' = said
      BY <1>2, <2>2
    <2>3. \A n \in 0..MaxFrames : ReadFrames(n) => said' = said
      BY DEF ReadFrames
    <2> QED
      BY <2>1, <2>2, <2>3, StepCases DEF Quiet, FeedFrame
  <1>7. state = "Established"
    <2>1. CASE FeedFrame
      <3> DEFINE id == Head(buffer)
      <3>1. id \in 1..Len(said)
        BY <2>1, HeadKnown DEF FeedFrame
      <3>2. Ignores(id) \/ Fails \/ PeerCloses(id) \/ Echoes(id) \/ Gathers(id) \/ Pongs(id)
        BY <2>1, <3>1, FeedCases
      <3> QED
        BY <3>2 DEF Handshake, TypeOK, Ignores, Fails, PeerCloses, Echoes, Gathers, Pongs
    <2>2. \A f \in Frames : ClientSends(f) => state' = state
      BY DEF ClientSends, sessionVars
    <2>3. \A n \in 0..MaxFrames : ReadFrames(n) => state' = state
      BY DEF ReadFrames, sessionVars
    <2>4. \A n \in 0..Len(out) : Write(n) => state' = state
      BY DEF Write, sessionVars
    <2>5. EndFeed \/ MaintainPing \/ PeerGone \/ Expire \/ UNCHANGED vars => state' = state
      BY DEF EndFeed, MaintainPing, PeerGone, Expire, vars, sessionVars
    <2>6. Shutdown => state' = state \/ state' = "Closing"
      BY ShutdownFacts
    <2> QED
      BY <2>1, <2>2, <2>3, <2>4, <2>5, <2>6, StepCases
  <1> QED
    BY <1>1, <1>2, <1>3, <1>4, <1>5, <1>6, <1>7

\* A message in the making is kept whole.
LEMMA PartialStep ==
  ASSUME TypeOK, Known, Handshake, InOrder, Partial, [Next]_vars
  PROVE  Partial'
  <1> SUFFICES ASSUME state' = "Established", fragment' # <<>>
               PROVE  Gathered(fragment, Done)'
    BY DEF Partial
  <1>1. /\ state = "Established" /\ Done \in 0..Len(said) /\ Goes'
        /\ Len(said) \in Nat
        /\ \A i \in 1..Len(said) : said'[i] = said[i]
    BY Established
  <1>2. CASE ~FeedFrame
    <2>1. Done' = Done /\ fragment' = fragment
      BY <1>2, Established
    <2>2. Gathered(fragment, Done)
      BY <1>1, <2>1 DEF Partial
    <2>3. \A i \in 1..Done : said'[i] = said[i]
      BY <1>1
    <2>4. 1 \in 1..Len(fragment)
      BY <2>1, EmptySeq DEF Known
    <2> QED
      BY <2>1, <2>2, <2>3, <2>4 DEF Gathered
  <1>3. CASE FeedFrame
    <2>1. PICK id : id = Head(buffer)
      OBVIOUS
    <2>2. id \in 1..Len(said) /\ id = Done + 1 /\ Done' = Done + 1 /\ said' = said
      BY <1>3, <2>1, HeadKnown, Established, FeedBuffers DEF FeedFrame
    <2>3. Ignores(id) \/ Fails \/ PeerCloses(id) \/ Echoes(id) \/ Gathers(id) \/ Pongs(id)
      BY <1>3, <2>1, <2>2, FeedCases
    <2>4. \A i \in 1..Done + 1 : i \in 1..Done \/ i = id
      BY <1>1, <2>2
    <2>5. CASE fragment' = fragment /\ said[id].op \notin DataOps
      <3>1. Gathered(fragment, Done)
        BY <1>1, <2>5 DEF Partial
      <3>2. Gathered(fragment, Done + 1)
        BY <1>1, <2>4, <2>5, <3>1 DEF Gathered
      <3> QED
        BY <2>2, <2>5, <3>2 DEF Gathered
    <2>6. CASE fragment = <<>> /\ said[id].op \in {"text", "binary"} /\ ~said[id].fin /\ fragment' = <<id>>
      <3>1. Gathered(<<id>>, Done + 1)
        BY <1>1, <2>2, <2>4, <2>6 DEF Gathered, DataOps
      <3> QED
        BY <2>2, <2>6, <3>1 DEF Gathered
    <2>7. CASE /\ fragment # <<>> /\ said[id].op = "continuation" /\ ~said[id].fin
               /\ fragment' = Append(fragment, id)
      <3>1. Gathered(fragment, Done)
        BY <1>1, <2>7 DEF Partial
      <3>2. fragment \in Seq(1..Len(said)) /\ Len(fragment) \in Nat /\ 1 \in 1..Len(fragment)
        BY <2>7, EmptySeq DEF Known
      <3>3. PICK ids : ids = Append(fragment, id)
        OBVIOUS
      <3>4. /\ Len(ids) = Len(fragment) + 1 /\ ids[Len(fragment) + 1] = id
            /\ \A j \in 1..Len(fragment) : j \in 1..Len(ids) /\ ids[j] = fragment[j]
        BY <2>2, <3>2, <3>3, AppendProperties
      <3>5. ids[1] = fragment[1] /\ fragment[1] \in 1..Done
        BY <3>1, <3>2, <3>4 DEF Gathered
      <3>6. ASSUME NEW j \in 1..Len(ids)
            PROVE  /\ ids[j] \in 1..Done + 1 /\ ids[j] >= ids[1]
                   /\ said[ids[j]].op \in DataOps /\ ~said[ids[j]].fin
                   /\ j > 1 => said[ids[j]].op = "continuation"
        <4>1. CASE j \in 1..Len(fragment)
          BY <1>1, <3>1, <3>4, <3>5, <4>1 DEF Gathered
        <4>2. CASE j = Len(fragment) + 1
          BY <1>1, <2>2, <2>7, <3>4, <3>5, <4>2 DEF DataOps
        <4> QED
          BY <3>2, <3>4, <4>1, <4>2
      <3>7. ASSUME NEW i \in 1..Done + 1, i >= ids[1], said[i].op \in DataOps
            PROVE  \E j \in 1..Len(ids) : ids[j] = i
        <4>1. CASE i = id
          BY <3>2, <3>4, <4>1
        <4>2. CASE i \in 1..Done
          BY <3>1, <3>4, <3>5, <3>7, <4>2 DEF Gathered
        <4> QED
          BY <2>4, <4>1, <4>2
      <3>8. said[ids[1]].op # "continuation"
        BY <3>1, <3>5 DEF Gathered
      <3>9. Gathered(ids, Done + 1)
        BY <3>6, <3>7, <3>8 DEF Gathered
      <3> QED
        BY <2>2, <2>7, <3>3, <3>9 DEF Gathered
    <2>8. ~protocolError
      BY Established DEF Goes
    <2>9. ~Fails /\ ~PeerCloses(id) /\ ~Echoes(id)
      BY <1>1 DEF Fails, PeerCloses, Echoes, TypeOK
    <2> QED
      BY <1>1, <2>3, <2>5, <2>6, <2>7, <2>8, <2>9 DEF Ignores, Gathers, Pongs, DataOps
  <1> QED
    BY <1>2, <1>3

-----------------------------------------------------------------------------
(* What is said to the client *)

\* What the client said is never unsaid.
LEMMA SaidGrows ==
  ASSUME TypeOK, Known, [Next]_vars
  PROVE  /\ \A i \in 1..Len(said) : said'[i] = said[i]
         /\ Len(said) \in Nat /\ Len(said') \in Nat /\ Len(said) <= Len(said')
  <1>1. Len(said) \in Nat
    BY LenProperties DEF TypeOK
  <1>2. ASSUME NEW f \in Frames, ClientSends(f)
        PROVE  /\ \A i \in 1..Len(said) : said'[i] = said[i]
               /\ Len(said') \in Nat /\ Len(said) <= Len(said')
    <2>1. Len(said') = Len(said) + 1 /\ \A i \in 1..Len(said) : said'[i] = said[i]
      BY <1>2, SendsFacts
    <2> QED
      BY <1>1, <2>1
  <1>3. CASE said' = said
    BY <1>1, <1>3
  <1>4. \A n \in 0..MaxFrames : ReadFrames(n) => said' = said
    BY DEF ReadFrames
  <1> QED
    BY <1>1, <1>2, <1>3, <1>4, StepCases DEF Quiet, FeedFrame

\* A message stays one whatever the client says next.
LEMMA MessageGrows ==
  ASSUME TypeOK, Known, [Next]_vars, NEW ids \in Seq(Nat), Message(ids)
  PROVE  Message(ids)'
  <1>1. /\ \A i \in 1..Len(said) : said'[i] = said[i]
        /\ Len(said) \in Nat /\ Len(said') \in Nat /\ Len(said) <= Len(said')
    BY SaidGrows
  <1>2. Len(ids) \in Nat \ {0} /\ DOMAIN ids = 1..Len(ids) /\ 1 \in 1..Len(ids) /\ Len(ids) \in 1..Len(ids)
    BY EmptySeq, LenProperties DEF Message
  <1>3. \A j \in 1..Len(ids) : /\ ids[j] \in 1..Len(said) /\ ids[j] \in 1..Len(said')
                               /\ said'[ids[j]] = said[ids[j]]
    BY <1>1 DEF Message
  <1>4. Last(ids) \in 1..Len(said) /\ ids[1] \in 1..Len(said)
    BY <1>2, <1>3 DEF Last
  <1>5. \A i \in ids[1]..Last(ids) : said'[i] = said[i]
    BY <1>1, <1>4
  <1>6. [i \in DOMAIN ids |-> said'[ids[i]].size] = [i \in DOMAIN ids |-> said[ids[i]].size]
    BY <1>2, <1>3
  <1>7. TooLong(ids)' <=> TooLong(ids)
    BY <1>2, <1>3, <1>6 DEF TooLong, SizeOf
  <1> QED
    BY <1>2, <1>3, <1>4, <1>5, <1>7 DEF Message

\* A Close that was sent has been sent.
LEMMA CloseStaysSent ==
  ASSUME TypeOK, Known, Handshake, [Next]_vars, closeSent
  PROVE  closeSent'
  <1>1. CASE FeedFrame
    <2> DEFINE id == Head(buffer)
    <2>1. id \in 1..Len(said)
      BY <1>1, HeadKnown DEF FeedFrame
    <2>2. Ignores(id) \/ Fails \/ PeerCloses(id) \/ Echoes(id) \/ Gathers(id) \/ Pongs(id)
      BY <1>1, <2>1, FeedCases
    <2> QED
      BY <2>2 DEF TypeOK, Ignores, Fails, PeerCloses, Echoes, Gathers, Pongs
  <1>2. \A f \in Frames : ClientSends(f) => closeSent' = closeSent
    BY DEF ClientSends, sessionVars
  <1>3. \A n \in 0..MaxFrames : ReadFrames(n) => closeSent' = closeSent
    BY DEF ReadFrames, sessionVars
  <1>4. \A n \in 0..Len(out) : Write(n) => closeSent' = closeSent
    BY DEF Write, sessionVars
  <1>5. EndFeed \/ MaintainPing \/ PeerGone \/ Expire \/ UNCHANGED vars => closeSent' = closeSent
    BY DEF EndFeed, MaintainPing, PeerGone, Expire, vars, sessionVars
  <1>6. Shutdown => closeSent'
    BY ShutdownFacts
  <1> QED
    BY <1>1, <1>2, <1>3, <1>4, <1>5, <1>6, StepCases

\* What was fit to be said before a step is fit after it.
LEMMA GoodKept ==
  ASSUME TypeOK, Known, Handshake, InOrder, [Next]_vars,
         NEW s \in Seq(ServerFrames), Good(s)
  PROVE  Good(s)'
  <1>1. \A k \in 1..Len(s) : s[k].op = "close" => closeSent' /\ k = Len(s)
    BY CloseStaysSent DEF Good
  <1>2. ASSUME NEW k \in 1..Len(s), s[k].op = "echo" PROVE Message(s[k].of)'
    <2> s[k] \in ServerFrames
      BY ElementOfSeq
    <2>1. s[k].of \in Seq(Nat)
      BY DEF ServerFrames
    <2>2. Message(s[k].of)
      BY <1>2 DEF Good
    <2>3. PICK ids : ids = s[k].of
      OBVIOUS
    <2>4. Message(ids)'
      BY <2>1, <2>2, <2>3, MessageGrows
    <2> QED
      BY <2>3, <2>4
  <1>3. \A i, j \in 1..Len(s) : Asks(s[i]) /\ Asks(s[j]) /\ i < j => Last(s[i].of) < Last(s[j].of)
    BY DEF Good
  <1>4. ASSUME state' = "Established", NEW k \in 1..Len(s), Asks(s[k])
        PROVE  Last(s[k].of) \in 1..Done'
    <2>1. state = "Established" /\ Done \in Nat /\ (Done' = Done \/ Done' = Done + 1)
      BY <1>4, Established
    <2>2. Last(s[k].of) \in 1..Done
      BY <1>4, <2>1 DEF Good
    <2> QED
      BY <2>1, <2>2
  <1> QED
    BY <1>1, <1>2, <1>3, <1>4 DEF Good

\* One more frame.
LEMMA GoodAppend ==
  ASSUME NEW s \in Seq(ServerFrames), NEW f \in ServerFrames, Good(s)',
         \A k \in 1..Len(s) : s[k].op # "close",
         f.op = "close" => closeSent',
         f.op = "echo" => Message(f.of)',
         Asks(f) => \A k \in 1..Len(s) : Asks(s[k]) => Last(s[k].of) < Last(f.of),
         state' = "Established" /\ Asks(f) => Last(f.of) \in 1..Done'
  PROVE  Good(Append(s, f))'
  <1>1. PICK t : t = Append(s, f)
    OBVIOUS
  <1>2. /\ Len(s) \in Nat /\ Len(t) = Len(s) + 1 /\ t[Len(s) + 1] = f
        /\ \A k \in 1..Len(s) : t[k] = s[k]
    BY <1>1, AppendProperties, LenProperties
  <1>3. \A k \in 1..Len(t) : k \in 1..Len(s) \/ k = Len(s) + 1
    BY <1>2
  <1>4. \A k \in 1..Len(t) : t[k].op = "close" => closeSent' /\ k = Len(t)
    BY <1>2, <1>3
  <1>5. ASSUME NEW k \in 1..Len(t), t[k].op = "echo" PROVE Message(t[k].of)'
    <2>1. CASE k = Len(s) + 1
      BY <1>2, <1>5, <2>1
    <2>2. CASE k \in 1..Len(s)
      BY <1>2, <1>5, <2>2 DEF Good
    <2> QED
      BY <1>3, <2>1, <2>2
  <1>6. ASSUME NEW i \in 1..Len(t), NEW j \in 1..Len(t), Asks(t[i]), Asks(t[j]), i < j
        PROVE  Last(t[i].of) < Last(t[j].of)
    <2>1. i \in 1..Len(s)
      BY <1>2, <1>3, <1>6
    <2>2. CASE j = Len(s) + 1
      BY <1>2, <1>6, <2>1, <2>2
    <2>3. CASE j \in 1..Len(s)
      BY <1>2, <1>6, <2>1, <2>3 DEF Good
    <2> QED
      BY <1>3, <2>2, <2>3
  <1>7. ASSUME state' = "Established", NEW k \in 1..Len(t), Asks(t[k]) PROVE Last(t[k].of) \in 1..Done'
    <2>1. CASE k = Len(s) + 1
      BY <1>2, <1>7, <2>1
    <2>2. CASE k \in 1..Len(s)
      BY <1>2, <1>7, <2>2 DEF Good
    <2> QED
      BY <1>3, <2>1, <2>2
  <1>8. Good(t)'
    BY <1>4, <1>5, <1>6, <1>7 DEF Good
  <1> QED
    BY <1>1, <1>8

\* What the client has of it when the connection ends.
LEMMA GoodPrefix ==
  ASSUME NEW s, NEW t, Len(s) \in Nat, Len(t) \in Nat, Len(t) <= Len(s),
         \A k \in 1..Len(t) : t[k] = s[k], Good(s)'
  PROVE  Good(t)'
  <1>1. \A k \in 1..Len(t) : k \in 1..Len(s) /\ (k = Len(s) => k = Len(t))
    OBVIOUS
  <1> QED
    BY <1>1 DEF Good

LEMMA ConcatAppend ==
  ASSUME NEW S, NEW q \in Seq(S), NEW r \in Seq(S), NEW f \in S
  PROVE  q \o Append(r, f) = Append(q \o r, f)
  <1>1. Append(r, f) = r \o <<f>> /\ <<f>> \in Seq(S) /\ q \o r \in Seq(S)
    BY AppendIsConcat, ConcatProperties
  <1>2. Append(q \o r, f) = (q \o r) \o <<f>>
    BY <1>1, AppendIsConcat
  <1> QED
    BY <1>1, <1>2, ConcatAssociative

LEMMA SplitConcat ==
  ASSUME NEW S, NEW q \in Seq(S), NEW r \in Seq(S), NEW n \in 0..Len(r)
  PROVE  (q \o SubSeq(r, 1, n)) \o SubSeq(r, n + 1, Len(r)) = q \o r
  <1>1. SubSeq(r, 1, n) \in Seq(S) /\ SubSeq(r, n + 1, Len(r)) \in Seq(S)
    BY CutSeq
  <1>2. SubSeq(r, 1, n) \o SubSeq(r, n + 1, Len(r)) = r
    <2> DEFINE a == SubSeq(r, 1, n)
               b == SubSeq(r, n + 1, Len(r))
    <2>1. Len(a) = n /\ Len(b) = Len(r) - n /\ Len(r) \in Nat /\ n \in Nat /\ n <= Len(r)
      BY CutSeq, LenProperties
    <2>2. /\ \A i \in 1..n : a[i] = r[i]
          /\ \A i \in 1..Len(r) - n : b[i] = r[i + n]
      BY CutSeq
    <2>3. a \in Seq(S) /\ b \in Seq(S)
      BY <1>1
    <2> HIDE DEF a, b
    <2>4. a \o b \in Seq(S) /\ Len(a \o b) = Len(r)
      <3>1. a \o b \in Seq(S) /\ Len(a \o b) = Len(a) + Len(b)
        BY <2>3, ConcatProperties
      <3> QED
        BY <2>1, <3>1
    <2>5. ASSUME NEW i \in 1..Len(r) PROVE (a \o b)[i] = r[i]
      <3>1. (a \o b)[i] = IF i <= Len(a) THEN a[i] ELSE b[i - Len(a)]
        BY <2>1, <2>3, ConcatProperties
      <3>2. CASE i <= n
        BY <2>1, <2>2, <3>1, <3>2
      <3>3. CASE ~(i <= n)
        <4>1. i - n \in 1..Len(r) - n /\ i - n + n = i
          BY <2>1, <3>3
        <4>2. b[i - n] = r[i - n + n]
          BY <2>2, <4>1
        <4> QED
          BY <2>1, <3>1, <3>3, <4>1, <4>2
      <3> QED
        BY <3>2, <3>3
    <2> QED
      BY <2>4, <2>5, SeqEqual DEF a, b
  <1>3. (q \o SubSeq(r, 1, n)) \o SubSeq(r, n + 1, Len(r)) = q \o (SubSeq(r, 1, n) \o SubSeq(r, n + 1, Len(r)))
    <2>1. \A a, b \in Seq(S) : (q \o a) \o b = q \o (a \o b)
      BY ConcatAssociative
    <2> QED
      BY <1>1, <2>1, Zenon
  <1> QED
    BY <1>2, <1>3

\* The first elements of a concatenation.
LEMMA ConcatPrefix ==
  ASSUME NEW S, NEW q \in Seq(S), NEW r \in Seq(S), NEW n \in 0..Len(r)
  PROVE  /\ Len(q \o SubSeq(r, 1, n)) \in Nat /\ Len(q \o r) \in Nat
         /\ Len(q \o SubSeq(r, 1, n)) <= Len(q \o r)
         /\ \A k \in 1..Len(q \o SubSeq(r, 1, n)) : (q \o SubSeq(r, 1, n))[k] = (q \o r)[k]
  <1> DEFINE a == SubSeq(r, 1, n)
  <1>1. a \in Seq(S) /\ Len(a) = n /\ \A i \in 1..n : a[i] = r[i]
    BY CutSeq
  <1> HIDE DEF a
  <1>2. Len(q) \in Nat /\ Len(r) \in Nat /\ n \in Nat /\ n <= Len(r)
    BY LenProperties
  <1>3. /\ Len(q \o a) = Len(q) + n /\ Len(q \o r) = Len(q) + Len(r)
    BY <1>1, ConcatProperties
  <1>4. ASSUME NEW k \in 1..Len(q) + n PROVE (q \o a)[k] = (q \o r)[k]
    <2>1. (q \o a)[k] = IF k <= Len(q) THEN q[k] ELSE a[k - Len(q)]
      BY <1>1, <1>2, ConcatProperties
    <2>2. k \in 1..Len(q) + Len(r)
      BY <1>2
    <2>3. (q \o r)[k] = IF k <= Len(q) THEN q[k] ELSE r[k - Len(q)]
      BY <1>1, <1>2, <2>2, ConcatProperties
    <2>4. ~(k <= Len(q)) => k - Len(q) \in 1..n
      BY <1>2
    <2> QED
      BY <1>1, <2>1, <2>3, <2>4
  <1> QED
    BY <1>2, <1>3, <1>4 DEF a

LEMMA StreamTyped ==
  ASSUME TypeOK
  PROVE  /\ got \o out \in Seq(ServerFrames) /\ Stream \in Seq(ServerFrames)
         /\ output = <<>> => Stream = got \o out
  <1>1. got \o out \in Seq(ServerFrames)
    BY ConcatProperties DEF TypeOK
  <1>2. Stream \in Seq(ServerFrames)
    BY <1>1, ConcatProperties DEF TypeOK, Stream
  <1>3. output = <<>> => Stream = got \o out
    BY <1>1, ConcatEmptySeq DEF Stream
  <1> QED
    BY <1>1, <1>2, <1>3

\* What a step does to the stream: it moves it along, adds a frame to its end,
\* or cuts it when the connection ends.
LEMMA StreamMoves ==
  ASSUME TypeOK, Handshake, [Next]_vars, ~FeedFrame, ~MaintainPing, ~PeerGone, ~Expire, ~Shutdown
  PROVE  Stream' = Stream
  <1>1. /\ got \in Seq(ServerFrames) /\ out \in Seq(ServerFrames) /\ output \in Seq(ServerFrames)
        /\ got \o out \in Seq(ServerFrames)
    BY StreamTyped DEF TypeOK
  <1>2. CASE UNCHANGED <<got, out, output>>
    BY <1>2 DEF Stream
  <1>3. ASSUME NEW n \in 0..Len(out), Write(n) PROVE Stream' = Stream
    <2>1. (got \o SubSeq(out, 1, n)) \o SubSeq(out, n + 1, Len(out)) = got \o out
      BY <1>1, SplitConcat
    <2> QED
      BY <1>3, <2>1 DEF Write, Stream
  <1>4. CASE EndFeed
    <2>1. got \o (out \o output) = (got \o out) \o output
      BY <1>1, ConcatAssociative
    <2>2. (got \o out) \o output \in Seq(ServerFrames)
      BY <1>1, ConcatProperties
    <2>3. ((got \o out) \o output) \o <<>> = (got \o out) \o output
      BY <2>2, ConcatEmptySeq
    <2> QED
      BY <1>4, <2>1, <2>3 DEF EndFeed, Stream
  <1>5. \A f \in Frames : ClientSends(f) => UNCHANGED <<got, out, output>>
    BY DEF ClientSends, connVars
  <1>6. \A n \in 0..MaxFrames : ReadFrames(n) => UNCHANGED <<got, out, output>>
    BY DEF ReadFrames
  <1>7. UNCHANGED vars => UNCHANGED <<got, out, output>>
    BY DEF vars, connVars
  <1> QED
    BY <1>2, <1>3, <1>4, <1>5, <1>6, <1>7, StepCases

LEMMA FeedStream ==
  ASSUME TypeOK, FeedFrame
  PROVE  /\ output' = output => Stream' = Stream
         /\ \A f \in ServerFrames : output' = Append(output, f) => Stream' = Append(Stream, f)
  <1>1. UNCHANGED <<got, out>>
    BY DEF FeedFrame, connVars
  <1>2. \A f \in ServerFrames : (got \o out) \o Append(output, f) = Append((got \o out) \o output, f)
    <2>1. PICK q : q = got \o out
      OBVIOUS
    <2>2. q \in Seq(ServerFrames) /\ output \in Seq(ServerFrames)
      BY <2>1, StreamTyped DEF TypeOK
    <2>3. \A f \in ServerFrames : q \o Append(output, f) = Append(q \o output, f)
      BY <2>2, ConcatAppend
    <2> QED
      BY <2>1, <2>3
  <1> QED
    BY <1>1, <1>2 DEF Stream

LEMMA PingStream ==
  ASSUME TypeOK, Handshake, MaintainPing
  PROVE  Stream' = Append(Stream, Ping) /\ Ping \in ServerFrames
  <1>1. output = <<>> /\ output' = <<>> /\ got' = got /\ out' = Append(out, Ping)
    BY DEF MaintainPing, Handshake
  <1>2. Ping \in ServerFrames
    BY RepliesTyped, EmptySeq
  <1>3. got \o Append(out, Ping) = Append(got \o out, Ping)
    BY <1>2, ConcatAppend DEF TypeOK
  <1>4. Append(got \o out, Ping) \in Seq(ServerFrames)
    BY <1>2, StreamTyped, AppendProperties
  <1>5. Append(got \o out, Ping) \o <<>> = Append(got \o out, Ping)
    BY <1>4, ConcatEmptySeq
  <1>6. Stream = got \o out
    BY <1>1, StreamTyped
  <1> QED
    BY <1>1, <1>2, <1>3, <1>5, <1>6 DEF Stream

\* The client keeps what it got, and with a shutdown the start of the rest.
LEMMA CutStream ==
  ASSUME TypeOK, Handshake, PeerGone \/ Expire \/ Shutdown
  PROVE  \E s \in Seq(ServerFrames) :
           /\ \/ s = Stream
              \/ /\ state = "Established" /\ ~closeSent /\ closeSent' /\ state' = "Closing"
                 /\ s = Append(Stream, Close(<<>>))
           /\ Len(s) \in Nat /\ Len(Stream') \in Nat /\ Len(Stream') <= Len(s)
           /\ \A k \in 1..Len(Stream') : Stream'[k] = s[k]
  <1>1. output = <<>> /\ output' = <<>> /\ out' = <<>>
    BY DEF PeerGone, Expire, Shutdown, CloseConnection, Handshake
  <1>2. got \in Seq(ServerFrames) /\ out \in Seq(ServerFrames) /\ Stream = got \o out
    BY <1>1, StreamTyped DEF TypeOK
  <1>3. got' \in Seq(ServerFrames)
    BY ShutdownFacts DEF PeerGone, Expire, TypeOK
  <1>4. Stream' = got'
    <2>1. got' \o <<>> = got'
      BY <1>3, ConcatEmptySeq
    <2> QED
      BY <1>1, <2>1 DEF Stream
  <1>5. CASE PeerGone \/ Expire
    <2>1. got' = got
      BY <1>5 DEF PeerGone, Expire
    <2>2. 0 \in 0..Len(out)
      BY <1>2, LenProperties
    <2>3. Len(SubSeq(out, 1, 0)) = 0 /\ SubSeq(out, 1, 0) \in Seq(ServerFrames)
      BY <1>2, <2>2, CutSeq
    <2>4. SubSeq(out, 1, 0) = <<>>
      BY <2>3, EmptySeq
    <2>5. got \o SubSeq(out, 1, 0) = got
      BY <1>2, <2>4, ConcatEmptySeq
    <2>6. /\ Len(got \o SubSeq(out, 1, 0)) \in Nat /\ Len(got \o out) \in Nat
          /\ Len(got \o SubSeq(out, 1, 0)) <= Len(got \o out)
          /\ \A k \in 1..Len(got \o SubSeq(out, 1, 0)) : (got \o SubSeq(out, 1, 0))[k] = (got \o out)[k]
      BY <1>2, <2>2, ConcatPrefix
    <2>7. Stream' = got /\ Stream \in Seq(ServerFrames)
      BY <1>4, <2>1, StreamTyped
    <2> QED
      BY <1>2, <2>5, <2>6, <2>7
  <1>6. CASE Shutdown
    <2>1. PICK all \in Seq(ServerFrames) :
              /\ \/ state = "Established" /\ ~closeSent /\ all = Append(out, Close(<<>>)) /\ closeSent' /\ state' = "Closing"
                 \/ all = out /\ UNCHANGED <<closeSent, state>>
              /\ \E n \in 0..Len(all) : got' = got \o SubSeq(all, 1, n)
      BY <1>6, ShutdownFacts
    <2>2. PICK n \in 0..Len(all) : got' = got \o SubSeq(all, 1, n)
      BY <2>1
    <2>3. PICK s : s = got \o all
      OBVIOUS
    <2>4. s \in Seq(ServerFrames)
      BY <1>2, <2>1, <2>3, ConcatProperties
    <2>5. /\ Len(Stream') \in Nat /\ Len(s) \in Nat /\ Len(Stream') <= Len(s)
          /\ \A k \in 1..Len(Stream') : Stream'[k] = s[k]
      <3>1. /\ Len(got \o SubSeq(all, 1, n)) \in Nat /\ Len(got \o all) \in Nat
            /\ Len(got \o SubSeq(all, 1, n)) <= Len(got \o all)
            /\ \A k \in 1..Len(got \o SubSeq(all, 1, n)) : (got \o SubSeq(all, 1, n))[k] = (got \o all)[k]
        BY <1>2, ConcatPrefix, Zenon
      <3>2. Stream' = got \o SubSeq(all, 1, n)
        BY <1>4, <2>2
      <3> QED
        BY <2>3, <3>1, <3>2, Zenon
    <2>6. Close(<<>>) \in ServerFrames
      BY RepliesTyped, EmptySeq
    <2>7. got \o Append(out, Close(<<>>)) = Append(Stream, Close(<<>>))
      BY <1>2, <2>6, ConcatAppend
    <2> QED
      BY <1>2, <2>1, <2>3, <2>4, <2>5, <2>7
  <1> QED
    BY <1>5, <1>6

\* What feed echoes is a message that ends with the frame in hand.
LEMMA EchoMessage ==
  ASSUME TypeOK, Known, Partial, NEW id \in 1..Len(said), id = Done + 1, Done \in Nat, Echoes(id)
  PROVE  \E ids \in Seq(Nat) : /\ output' = Append(output, Echo(ids))
                               /\ Message(ids) /\ Last(ids) = id /\ Len(ids) \in Nat \ {0}
  <1>1. CASE fragment = <<>> /\ said[id].op \in {"text", "binary"} /\ output' = Append(output, Echo(<<id>>))
    <2>1. Len(<<id>>) = 1 /\ <<id>>[1] = id /\ Last(<<id>>) = id /\ <<id>> # <<>> /\ <<id>> \in Seq(Nat)
      BY DEF Last
    <2>2. ~TooLong(<<id>>)
      BY <2>1 DEF TooLong, Echoes
    <2>3. \A i \in id..id : i = id
      OBVIOUS
    <2>4. Message(<<id>>)
      BY <1>1, <2>1, <2>2, <2>3 DEF Message, Echoes, DataOps
    <2> QED
      <3>1. PICK ids : ids = <<id>>
        OBVIOUS
      <3>2. ids \in Seq(Nat) /\ Message(ids) /\ Last(ids) = id /\ Len(ids) \in Nat \ {0}
        BY <2>1, <2>4, <3>1
      <3> QED
        BY <1>1, <3>1, <3>2, Zenon
  <1>2. CASE /\ fragment # <<>> /\ said[id].op = "continuation"
             /\ ~(SizeOf(Append(fragment, id)) > MaxMessage)
             /\ output' = Append(output, Echo(Append(fragment, id)))
    <2>1. Gathered(fragment, Done)
      BY <1>2 DEF Partial, Echoes
    <2>2. fragment \in Seq(1..Len(said)) /\ Len(fragment) \in Nat /\ 1 \in 1..Len(fragment)
      BY <1>2, EmptySeq DEF Known
    <2>3. PICK ids : ids = Append(fragment, id)
      OBVIOUS
    <2>4. /\ Len(ids) = Len(fragment) + 1 /\ ids[Len(fragment) + 1] = id
          /\ \A j \in 1..Len(fragment) : j \in 1..Len(ids) /\ ids[j] = fragment[j]
          /\ ids \in Seq(1..Len(said))
      BY <2>2, <2>3, AppendProperties
    <2>5. ids[1] = fragment[1] /\ fragment[1] \in 1..Done /\ Last(ids) = id
      BY <2>1, <2>2, <2>4 DEF Gathered, Last
    <2>6. Len(ids) # 1 /\ Len(ids) \in Nat \ {0}
      BY <2>2, <2>4
    <2>7. ~TooLong(ids)
      BY <1>2, <2>3, <2>6 DEF TooLong
    <2>8. ASSUME NEW j \in 1..Len(ids)
          PROVE  /\ ids[j] \in 1..Len(said) /\ ids[j] \in ids[1]..Last(ids)
                 /\ j > 1 => said[ids[j]].op = "continuation"
                 /\ said[ids[j]].fin <=> j = Len(ids)
                 /\ said[ids[j]].op \in DataOps
      <3>1. CASE j \in 1..Len(fragment)
        <4>1. j # Len(ids)
          BY <2>2, <2>4, <3>1
        <4>2. ids[j] \in 1..Done /\ ids[j] >= ids[1] /\ ids[1] \in 1..Done
          BY <2>1, <2>4, <2>5, <3>1 DEF Gathered
        <4>3. ids[j] \in 1..Len(said) /\ ids[j] \in ids[1]..Last(ids)
          BY <2>5, <4>2
        <4> QED
          BY <2>1, <2>4, <3>1, <4>1, <4>3 DEF Gathered
      <3>2. CASE j = Len(fragment) + 1
        <4>1. ids[j] \in ids[1]..Last(ids)
          BY <2>4, <2>5, <3>2
        <4> QED
          BY <1>2, <2>4, <3>2, <4>1 DEF Echoes, DataOps
      <3> QED
        BY <2>2, <2>4, <3>1, <3>2
    <2>9. ASSUME NEW i \in ids[1]..Last(ids), said[i].op \in DataOps
          PROVE  \E j \in 1..Len(ids) : ids[j] = i
      <3>1. CASE i = id
        BY <2>2, <2>4, <3>1
      <3>2. CASE i # id
        <4>1. i \in 1..Done /\ i >= fragment[1]
          BY <2>5, <3>2
        <4> QED
          BY <2>1, <2>4, <2>9, <4>1 DEF Gathered
      <3> QED
        BY <3>1, <3>2
    <2>10. said[ids[1]].op # "continuation" /\ ids # <<>>
      BY <2>1, <2>5, <2>6, EmptySeq DEF Gathered
    <2>11. Message(ids)
      BY <2>7, <2>8, <2>9, <2>10 DEF Message
    <2>12. ids \in Seq(Nat)
      BY <2>4, SeqMonotonic
    <2> QED
      BY <1>2, <2>3, <2>5, <2>6, <2>11, <2>12
  <1> QED
    BY <1>1, <1>2 DEF Echoes

\* feed says nothing after a Close, and answers the frame in hand.
LEMMA FeedSaid ==
  ASSUME SessionInv, [Next]_vars, FeedFrame
  PROVE  Said'
  <1> USE DEF SessionInv
  <1>1. PICK id : id = Head(buffer)
    OBVIOUS
  <1>2. PICK s : s = Stream
    OBVIOUS
  <1>3. id \in 1..Len(said) /\ id \in Nat /\ s \in Seq(ServerFrames)
    BY <1>1, <1>2, HeadKnown, StreamTyped DEF FeedFrame
  <1>4. Ignores(id) \/ Fails \/ PeerCloses(id) \/ Echoes(id) \/ Gathers(id) \/ Pongs(id)
    BY <1>1, <1>3, FeedCases
  <1>5. Good(s) /\ Good(s)'
    BY <1>2, <1>3, GoodKept DEF Said
  <1>6. ~closeSent => \A k \in 1..Len(s) : s[k].op # "close"
    BY <1>5 DEF Good
  <1>7. CASE output' = output
    BY <1>2, <1>5, <1>7, FeedStream DEF Said
  <1>8. ASSUME NEW f \in ServerFrames, output' = Append(output, f), Good(Append(s, f))' PROVE Said'
    BY <1>2, <1>8, FeedStream DEF Said
  <1>9. ASSUME NEW ids \in Seq(Nat), output' = Append(output, Close(ids)), ~closeSent, closeSent'
        PROVE  Said'
    <2>1. PICK f : f = Close(ids)
      OBVIOUS
    <2>2. f \in ServerFrames /\ f.op = "close"
      BY <2>1, RepliesTyped DEF Close
    <2>3. Good(Append(s, f))'
      BY <1>3, <1>5, <1>6, <1>9, <2>2, GoodAppend DEF Asks
    <2> QED
      BY <1>8, <1>9, <2>1, <2>2, <2>3
  <1>10. ASSUME NEW f \in ServerFrames, output' = Append(output, f), f.op \in {"echo", "pong"},
                Last(f.of) = id, f.op = "echo" => Message(f.of)',
                state = "Established", state' = "Established"
         PROVE  Said'
    <2>1. ~closeSent /\ Done \in Nat /\ Done + 1 = id /\ Done' = id
      BY <1>1, <1>10, Established DEF Handshake
    <2>2. \A k \in 1..Len(s) : Asks(s[k]) => Last(s[k].of) < id
      BY <1>5, <1>10, <2>1 DEF Good
    <2>3. Last(f.of) \in 1..Done'
      BY <1>3, <1>10, <2>1
    <2>4. Good(Append(s, f))'
      BY <1>3, <1>5, <1>6, <1>10, <2>1, <2>2, <2>3, GoodAppend
    <2> QED
      BY <1>8, <1>10, <2>4
  <1>11. CASE Fails
    <2>1. <<>> \in Seq(Nat)
      BY EmptySeq
    <2> QED
      BY <1>7, <1>9, <1>11, <2>1 DEF Fails
  <1>12. CASE PeerCloses(id)
    <2>1. <<id>> \in Seq(Nat)
      BY <1>3
    <2> QED
      BY <1>7, <1>9, <1>12, <2>1 DEF PeerCloses, Handshake, TypeOK
  <1>13. CASE Echoes(id)
    <2>1. state = "Established" /\ state' = "Established"
      BY <1>13 DEF Echoes
    <2>2. Done \in Nat /\ id = Done + 1
      BY <1>1, <2>1, Established
    <2>3. PICK ids \in Seq(Nat) : output' = Append(output, Echo(ids)) /\ Message(ids) /\ Last(ids) = id
      BY <1>3, <1>13, <2>2, EchoMessage
    <2>4. Message(ids)'
      BY <2>3, MessageGrows
    <2>5. PICK f : f = Echo(ids)
      OBVIOUS
    <2>6. f \in ServerFrames /\ f.op = "echo" /\ f.of = ids
      BY <2>5, RepliesTyped DEF Echo
    <2>7. Message(f.of)'
      BY <2>4, <2>6
    <2> QED
      BY <1>10, <2>1, <2>3, <2>5, <2>6, <2>7
  <1>14. CASE Pongs(id)
    <2>1. state = "Established" /\ state' = "Established" /\ output' = Append(output, Pong(id))
      BY <1>14 DEF Pongs
    <2>2. Pong(id) \in ServerFrames
      BY <1>3, RepliesTyped, EmptySeq
    <2>3. Pong(id).op = "pong" /\ Last(Pong(id).of) = id
      BY DEF Pong, Last
    <2> QED
      BY <1>10, <2>1, <2>2, <2>3
  <1>15. CASE Ignores(id) \/ Gathers(id)
    BY <1>7, <1>15 DEF Ignores, Gathers
  <1> QED
    BY <1>4, <1>11, <1>12, <1>13, <1>14, <1>15

\* No step spoils what is said to the client.
LEMMA SaidStep ==
  ASSUME SessionInv, [Next]_vars
  PROVE  Said'
  <1> USE DEF SessionInv
  <1>1. PICK s : s = Stream
    OBVIOUS
  <1>2. s \in Seq(ServerFrames)
    BY <1>1, StreamTyped
  <1>3. Good(s) /\ Good(s)'
    BY <1>1, <1>2, GoodKept DEF Said
  <1>4. ~closeSent => \A k \in 1..Len(s) : s[k].op # "close"
    BY <1>3 DEF Good
  <1>5. CASE FeedFrame
    BY <1>5, FeedSaid
  <1>6. CASE MaintainPing
    <2>1. PICK f : f = Ping
      OBVIOUS
    <2>2. f \in ServerFrames /\ f.op = "ping" /\ Stream' = Append(s, f)
      BY <1>1, <1>6, <2>1, PingStream DEF Ping
    <2>3. ~closeSent
      BY <1>6 DEF MaintainPing, PingDue, Handshake
    <2>4. Good(Append(s, f))'
      BY <1>2, <1>3, <1>4, <2>2, <2>3, GoodAppend DEF Asks
    <2> QED
      BY <2>2, <2>4 DEF Said
  <1>7. CASE PeerGone \/ Expire \/ Shutdown
    <2>1. PICK u \in Seq(ServerFrames) :
           /\ \/ u = Stream
              \/ /\ state = "Established" /\ ~closeSent /\ closeSent' /\ state' = "Closing"
                 /\ u = Append(Stream, Close(<<>>))
           /\ Len(u) \in Nat /\ Len(Stream') \in Nat /\ Len(Stream') <= Len(u)
           /\ \A k \in 1..Len(Stream') : Stream'[k] = u[k]
      BY <1>7, CutStream
    <2>3. Good(u)'
      <3>1. CASE u = Stream
        BY <1>1, <1>3, <3>1
      <3>2. CASE u # Stream
        <4>1. PICK f : f = Close(<<>>)
          OBVIOUS
        <4>2. f \in ServerFrames /\ f.op = "close"
          BY <4>1, RepliesTyped, EmptySeq DEF Close
        <4>3. Good(Append(s, f))'
          BY <1>2, <1>3, <1>4, <2>1, <3>2, <4>2, GoodAppend DEF Asks
        <4> QED
          BY <1>1, <2>1, <3>2, <4>1, <4>3
      <3> QED
        BY <3>1, <3>2
    <2>4. PICK v : v = Stream'
      OBVIOUS
    <2>5. Good(v)'
      BY <2>1, <2>3, <2>4, GoodPrefix
    <2> QED
      BY <2>4, <2>5 DEF Said
  <1>8. CASE ~FeedFrame /\ ~MaintainPing /\ ~PeerGone /\ ~Expire /\ ~Shutdown
    BY <1>1, <1>3, <1>8, StreamMoves DEF Said
  <1> QED
    BY <1>5, <1>6, <1>7, <1>8

-----------------------------------------------------------------------------
(* The theorems *)

\* The session keeps its invariant: frames are handled in the order the client
\* sent them, a message in the making lacks none of its fragments, and whoever
\* sends a Close (fail_connection, handle_close_payload, initiate_close) leaves
\* the Established state.
THEOREM SessionCorrect == Spec => []SessionInv
  <1>1. Init => SessionInv
    <2> SUFFICES ASSUME Init PROVE SessionInv
      OBVIOUS
    <2> USE DEF Init
    <2>1. Switching \in ServerFrames
      BY RepliesTyped, EmptySeq
    <2>2. TypeOK
      <3>1. /\ said \in Seq(Frames) /\ wire \in Seq(Ids) /\ buffer \in Seq(Ids) /\ fragment \in Seq(Ids)
            /\ output \in Seq(ServerFrames) /\ got \in Seq(ServerFrames)
        BY EmptySeq
      <3>2. out \in Seq(ServerFrames)
        BY <2>1
      <3>3. budget \in Budgets /\ pings \in 0..MaxPings
        <4>1. budget \in Budgets
          BY DEF Budget, Budgets, Flushing
        <4>2. MaxPings \in Nat /\ pings = 0
          BY SessionAssumption
        <4>3. pings \in 0..MaxPings
          BY ONLY <4>2
        <4> QED
          BY <4>1, <4>3
      <3> QED
        BY <3>1, <3>2, <3>3 DEF TypeOK, SessionStates, WriteStates
    <2>3. Known
      BY EmptySeq, SessionAssumption DEF Known
    <2>4. Handshake /\ Partial
      BY DEF Handshake, Partial
    <2>5. InOrder
      BY DEF InOrder, Done
    <2>6. Stream = <<Switching>>
      <3>1. <<Switching>> \in Seq(ServerFrames)
        BY <2>1
      <3>2. (<<>> \o <<Switching>>) \o <<>> = <<Switching>>
        BY <3>1, ConcatEmptySeq
      <3> QED
        BY <3>2 DEF Stream
    <2>7. Said
      <3>1. Len(<<Switching>>) = 1 /\ <<Switching>>[1].op = "101"
        BY DEF Switching
      <3>2. Good(<<Switching>>)
        BY <3>1 DEF Good, Asks
      <3> QED
        BY <2>6, <3>2 DEF Said
    <2> QED
      BY <2>2, <2>3, <2>4, <2>5, <2>7 DEF SessionInv
  <1>2. SessionInv /\ [Next]_vars => SessionInv'
    BY TypeStep, KnownStep, HandshakeStep, InOrderStep, PartialStep, SaidStep DEF SessionInv
  <1> QED
    BY <1>1, <1>2, PTL DEF Spec

\* A Close ends what the server says, whichever of the read handler, the
\* keepalive round and the shutdown sent it, for any traffic.
THEOREM CloseEndsTheStream == Spec => []CloseIsLast
  <1>1. SessionInv => CloseIsLast
    <2> SUFFICES ASSUME SessionInv PROVE CloseIsLast
      OBVIOUS
    <2>1. DOMAIN Stream = 1..Len(Stream)
      BY StreamTyped, LenProperties DEF SessionInv
    <2> QED
      BY <2>1 DEF SessionInv, Said, Good, CloseIsLast
  <1> QED
    BY <1>1, SessionCorrect, PTL

\* Every echo of deliver_message is one whole message within the limit, however
\* the client fragments, interleaves control frames and the reads cut them.
THEOREM EchoIsAlwaysOneMessage == Spec => []EchoIsOneMessage
  <1>1. SessionInv => EchoIsOneMessage
    <2> SUFFICES ASSUME SessionInv, NEW k \in DOMAIN Stream, Stream[k].op = "echo"
                 PROVE  LET ids == Stream[k].of
                            Data == {i \in DOMAIN said : said[i].op \in {"text", "binary", "continuation"}}
                        IN /\ said[ids[1]].op # "continuation"
                           /\ ~TooLong(ids)
                           /\ Data \cap ids[1]..Last(ids) = Range(ids)
                           /\ \A j \in DOMAIN ids : /\ j > 1 => said[ids[j]].op = "continuation"
                                                    /\ said[ids[j]].fin <=> j = Len(ids)
      BY DEF EchoIsOneMessage
    <2>1. Stream \in Seq(ServerFrames)
      BY StreamTyped DEF SessionInv
    <2>2. DOMAIN Stream = 1..Len(Stream) /\ Stream[k] \in ServerFrames
      BY <2>1, LenProperties, ElementOfSeq
    <2>3. PICK ids : ids = Stream[k].of
      OBVIOUS
    <2>4. ids \in Seq(Nat) /\ Message(ids)
      BY <2>2, <2>3 DEF SessionInv, Said, Good, ServerFrames
    <2>5. DOMAIN ids = 1..Len(ids)
      BY <2>4, LenProperties
    <2>6. said \in Seq(Frames) /\ DOMAIN said = 1..Len(said) /\ Len(said) \in Nat
      BY LenProperties DEF SessionInv, TypeOK
    <2> DEFINE Data == {i \in DOMAIN said : said[i].op \in {"text", "binary", "continuation"}}
    <2>7. Data \cap ids[1]..Last(ids) = Range(ids)
      <3>1. ASSUME NEW i \in Data \cap ids[1]..Last(ids) PROVE i \in Range(ids)
        <4>1. i \in ids[1]..Last(ids) /\ said[i].op \in DataOps
          BY <3>1 DEF DataOps
        <4>2. PICK j \in 1..Len(ids) : ids[j] = i
          BY <2>4, <4>1 DEF Message
        <4> QED
          BY <2>5, <4>2 DEF Range
      <3>2. ASSUME NEW i \in Range(ids) PROVE i \in Data \cap ids[1]..Last(ids)
        <4>1. PICK j \in 1..Len(ids) : ids[j] = i
          BY <2>5 DEF Range
        <4>2. i \in ids[1]..Last(ids) /\ i \in DOMAIN said
          BY <2>4, <2>6, <4>1 DEF Message
        <4>3. said[i].op \in DataOps
          BY <2>4, <4>1, <4>2 DEF Message
        <4> QED
          BY <4>2, <4>3 DEF DataOps
      <3> QED
        BY <3>1, <3>2
    <2>8. /\ said[ids[1]].op # "continuation" /\ ~TooLong(ids)
          /\ \A j \in DOMAIN ids : /\ j > 1 => said[ids[j]].op = "continuation"
                                   /\ said[ids[j]].fin <=> j = Len(ids)
      BY <2>4, <2>5 DEF Message
    <2> QED
      BY <2>3, <2>7, <2>8
  <1> QED
    BY <1>1, SessionCorrect, PTL

\* Replies leave in the order of the frames that asked for them, and no frame
\* is answered twice.
THEOREM RepliesAlwaysInOrder == Spec => []RepliesInOrder
  <1>1. SessionInv => RepliesInOrder
    <2> SUFFICES ASSUME SessionInv PROVE RepliesInOrder
      OBVIOUS
    <2>1. DOMAIN Stream = 1..Len(Stream)
      BY StreamTyped, LenProperties DEF SessionInv
    <2> QED
      BY <2>1 DEF SessionInv, Said, Good, Asks, RepliesInOrder, Asking
  <1> QED
    BY <1>1, SessionCorrect, PTL
=============================================================================
