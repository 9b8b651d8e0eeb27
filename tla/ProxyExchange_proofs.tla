------------------------ MODULE ProxyExchange_proofs ------------------------
(***************************************************************************)
(* Proofs about ProxyExchange for any set of clients and requests, any     *)
(* number of upstream sockets and any configurations: who owns an upstream *)
(* socket, what is left on it when it is pooled, whose answer a client     *)
(* gets, and that the exchanges implement CompletionService.               *)
(***************************************************************************)
EXTENDS ProxyExchange, SequenceTheorems, FiniteSetTheorems, TLAPS

-----------------------------------------------------------------------------
(* The inductive invariant *)

\* Exchanges are kept by socket and by request; a request with an exchange has
\* not been settled, and there are exchanges only while the event loop runs.
Exclusive ==
  /\ \A x \in pending : fate[x.job] = "pending"
  /\ \A x, y \in pending : x.sock = y.sock \/ x.job = y.job => x = y
  /\ ~up => pending = {}

\* The pool holds each socket once, and none of an exchange.
Pooled ==
  /\ \A i, k \in 1..Len(idle) : idle[i] = idle[k] => i = k
  /\ \A x \in pending : \A i \in 1..Len(idle) : idle[i] # x.sock

\* What was read and what is on its way are together the parts of one answer,
\* in order and for this request.
InOrder(x) ==
  /\ tx[x.sock].replied <= 2
  /\ tx[x.sock].replied = Len(x.got) + Len(rx[x.sock])
  /\ \A i \in 1..Len(x.got) : x.got[i].job = x.job /\ x.got[i].part = i
  /\ \A i \in 1..Len(rx[x.sock]) :
       rx[x.sock][i].job = x.job /\ rx[x.sock][i].part = Len(x.got) + i

\* Reading starts when the request has been written; as long as the upstream
\* has sent nothing but its answers, they are read in order.
Stream(x) ==
  /\ tx[x.sock].job = x.job
  /\ x.phase = "Reading" => tx[x.sock].parts = 2
  /\ x.sock \notin stray => InOrder(x)

\* A socket is at a message boundary (see PooledIsClean).
Clean(s) == /\ tx[s].parts = 2 \/ fin[s]
            /\ s \notin stray => tx[s].replied = 2 /\ rx[s] = <<>>

\* What waits on a socket, whoever owns it.
Boundaries ==
  /\ \A x \in pending : Stream(x)
  /\ \A i \in 1..Len(idle) : Clean(idle[i])
  /\ \A s \in Sockets : ~InUse(s) => rx[s] = <<>>

ExchangeInv == TypeOK /\ Exclusive /\ Pooled /\ Boundaries /\ RightAnswer

-----------------------------------------------------------------------------
(* Types *)

\* The fields of an exchange, and what is known of its socket.
LEMMA ExchangeTyped ==
  ASSUME TypeOK, NEW x \in pending
  PROVE  /\ x.job \in Jobs /\ x.sock \in Sockets /\ x.phase \in Phases /\ x.timed \in BOOLEAN
         /\ x.got \in Seq(Parts) /\ Len(x.got) \in Nat
         /\ rx[x.sock] \in Seq(Parts) /\ Len(rx[x.sock]) \in Nat
         /\ tx[x.sock] \in Views /\ tx[x.sock].parts \in 0..2 /\ tx[x.sock].replied \in Nat
  <1>1. x \in Exchanges
    BY DEF TypeOK
  <1>2. /\ x.job \in Jobs /\ x.sock \in Sockets /\ x.phase \in Phases /\ x.timed \in BOOLEAN
        /\ x.got \in Seq(Parts)
    BY <1>1 DEF Exchanges
  <1>3. rx[x.sock] \in Seq(Parts) /\ tx[x.sock] \in Views
    BY <1>2 DEF TypeOK
  <1>4. tx[x.sock].parts \in 0..2 /\ tx[x.sock].replied \in Nat
    BY <1>3, ProxyAssumption DEF Views
  <1> QED
    BY <1>2, <1>3, <1>4, LenProperties

\* The fields of an exchange after a change of its phase or its parser.
LEMMA ExchangeChanged ==
  ASSUME TypeOK, NEW x \in pending
  PROVE  /\ \A p \in Phases, b \in BOOLEAN :
              LET y == [x EXCEPT !.phase = p, !.timed = b]
              IN  y \in Exchanges /\ y.job = x.job /\ y.sock = x.sock /\ y.got = x.got /\ y.phase = p
         /\ \A g \in Seq(Parts) :
              LET y == [x EXCEPT !.got = g]
              IN  y \in Exchanges /\ y.job = x.job /\ y.sock = x.sock /\ y.got = g /\ y.phase = x.phase
  <1>1. x \in Exchanges
    BY DEF TypeOK
  <1> QED
    BY <1>1 DEF Exchanges

\* on_writable changes the phase and the deadline of its exchange.
LEMMA FlushChanges ==
  ASSUME TypeOK, NEW x \in pending, NEW n \in 0..2, Flush(x, n)
  PROVE  \E p \in Phases, b \in BOOLEAN :
           /\ pending' = (pending \ {x}) \cup {[x EXCEPT !.phase = p, !.timed = b]}
           /\ p = "Reading" <=> n = 2
  <1>1. Renewed(x, n) \in BOOLEAN
    BY ExchangeTyped DEF Renewed, HasDeadline
  <1>2. PICK b, p : b = Renewed(x, n) /\ p = IF n = 2 THEN "Reading" ELSE "Writing"
    OBVIOUS
  <1>3. p \in Phases /\ (p = "Reading" <=> n = 2)
    BY <1>2 DEF Phases
  <1>4. pending' = (pending \ {x}) \cup {[x EXCEPT !.phase = p, !.timed = b]}
    BY <1>2 DEF Flush
  <1> QED
    BY <1>1, <1>2, <1>3, <1>4

\* What the parser has after n parts of q, and what is left of q.
Fed(got, q, n) == got \o SubSeq(q, 1, n)
Left(q, n) == SubSeq(q, n + 1, Len(q))

\* What read_available has when it fed n parts to the parser: what was read
\* before followed by them, and the rest.
LEMMA ReadSplits ==
  ASSUME NEW got \in Seq(Parts), NEW q \in Seq(Parts), NEW n \in 0..Len(q)
  PROVE  /\ Fed(got, q, n) \in Seq(Parts) /\ Len(Fed(got, q, n)) = Len(got) + n
         /\ Left(q, n) \in Seq(Parts) /\ Len(Left(q, n)) = Len(q) - n
         /\ \A i \in 1..Len(got) : Fed(got, q, n)[i] = got[i]
         /\ \A i \in 1..n : i \in 1..Len(q) /\ Fed(got, q, n)[Len(got) + i] = q[i]
         /\ \A i \in 1..Len(Left(q, n)) : i + n \in 1..Len(q) /\ Left(q, n)[i] = q[i + n]
  <1> DEFINE front == SubSeq(q, 1, n)
             rest == SubSeq(q, n + 1, Len(q))
  <1>1. Len(q) \in Nat /\ Len(got) \in Nat /\ n \in Nat /\ n <= Len(q)
    BY LenProperties
  <1>2. \A i \in 1..Len(q) : q[i] \in Parts
    BY ElementOfSeq
  <1>3. front \in Seq(Parts) /\ Len(front) = n /\ \A i \in 1..n : front[i] = q[i]
    <2>1. \A i \in 1..n : i \in 1..Len(q) /\ 1 + i - 1 = i
      BY <1>1
    <2> QED
      BY <1>1, <1>2, <2>1, SubSeqProperties
  <1>4. rest \in Seq(Parts) /\ Len(rest) = Len(q) - n /\ \A i \in 1..Len(rest) : rest[i] = q[i + n]
    <2>1. \A i \in n + 1..Len(q) : q[i] \in Parts
      BY <1>1, <1>2
    <2>2. /\ rest \in Seq(Parts)
          /\ Len(rest) = IF n + 1 <= Len(q) THEN Len(q) - (n + 1) + 1 ELSE 0
          /\ \A i \in 1..Len(q) - (n + 1) + 1 : rest[i] = q[n + 1 + i - 1]
      BY <1>1, <2>1, SubSeqProperties
    <2>3. Len(rest) = Len(q) - n /\ Len(q) - (n + 1) + 1 = Len(q) - n
      BY <1>1, <2>2
    <2>4. \A i \in 1..Len(rest) : n + 1 + i - 1 = i + n
      BY <1>1
    <2> QED
      BY <2>2, <2>3, <2>4
  <1> HIDE DEF front, rest
  <1>5. /\ got \o front \in Seq(Parts) /\ Len(got \o front) = Len(got) + n
        /\ \A i \in 1..Len(got) + n :
             (got \o front)[i] = IF i <= Len(got) THEN got[i] ELSE front[i - Len(got)]
    BY <1>3, ConcatProperties
  <1>6. \A i \in 1..Len(got) : (got \o front)[i] = got[i]
    BY <1>1, <1>5
  <1>7. ASSUME NEW i \in 1..n PROVE i \in 1..Len(q) /\ (got \o front)[Len(got) + i] = q[i]
    <2>1. Len(got) + i \in 1..Len(got) + n /\ ~(Len(got) + i <= Len(got)) /\ Len(got) + i - Len(got) = i
      BY <1>1
    <2> QED
      BY <1>1, <1>3, <1>5, <2>1
  <1>8. \A i \in 1..Len(rest) : i + n \in 1..Len(q)
    BY <1>1, <1>4
  <1> QED
    BY <1>4, <1>5, <1>6, <1>7, <1>8 DEF front, rest, Fed, Left

\* The pool without its most recent connection, or without its oldest ones.
LEMMA IdleShrinks ==
  ASSUME NEW q \in Seq(Sockets), NEW m \in 0..Len(q), NEW n \in 0..Len(q)
  PROVE  LET r == SubSeq(q, m + 1, n)
         IN  /\ r \in Seq(Sockets) /\ Len(r) <= Len(q)
             /\ Len(r) = IF m < n THEN n - m ELSE 0
             /\ \A i \in 1..Len(r) : i + m \in 1..n /\ i + m \in 1..Len(q) /\ r[i] = q[i + m]
  <1> DEFINE r == SubSeq(q, m + 1, n)
  <1>1. Len(q) \in Nat
    BY LenProperties
  <1>2. \A i \in m + 1..n : q[i] \in Sockets
    BY <1>1, ElementOfSeq
  <1>3. /\ r \in Seq(Sockets)
        /\ Len(r) = IF m + 1 <= n THEN n - (m + 1) + 1 ELSE 0
        /\ \A i \in 1..n - (m + 1) + 1 : r[i] = q[m + 1 + i - 1]
    BY <1>1, <1>2, SubSeqProperties
  <1> HIDE DEF r
  <1>4. ASSUME NEW i \in 1..Len(r)
        PROVE  i + m \in 1..n /\ i + m \in 1..Len(q) /\ r[i] = q[i + m]
    <2>1. i \in 1..n - (m + 1) + 1 /\ m + 1 + i - 1 = i + m
      BY <1>1, <1>3
    <2> QED
      BY <1>1, <1>3, <2>1
  <1>5. Len(r) <= Len(q) /\ Len(r) = IF m < n THEN n - m ELSE 0
    BY <1>1, <1>3
  <1> QED
    BY <1>3, <1>4, <1>5 DEF r

FateType == /\ fate \in [Jobs -> {"idle", "pending", "applied", "discarded"}]
            /\ answer \in [Jobs -> Answers]
PoolType == idle \in Seq(Sockets) /\ config \in Configs
SockType == /\ tx \in [Sockets -> Views]
            /\ rx \in [Sockets -> Seq(Parts)]
            /\ fin \in [Sockets -> BOOLEAN]
            /\ stray \subseteq Sockets
ConnType == conn \in [Conns -> {"new", "open", "closed"}] /\ up \in BOOLEAN

LEMMA TypeSplit ==
  TypeOK <=> ConnType /\ FateType /\ pending \subseteq Exchanges /\ PoolType /\ SockType
  BY DEF TypeOK, ConnType, FateType, PoolType, SockType

LEMMA NothingTyped == \A j \in Jobs \cup {NoJob} : Nothing(j) \in Views
  BY ProxyAssumption DEF Nothing, Views, Framings

LEMMA SettleTyped ==
  ASSUME TypeOK, NEW j \in Jobs, NEW a \in Answers, Settle(j, a)
  PROVE  FateType'
  BY TypeSplit DEF FateType, Settle

LEMMA NoAnswerTyped == NoAnswer \in Answers
  BY DEF NoAnswer, Answers

LEMMA ReleaseTyped ==
  ASSUME TypeOK, NEW s \in Sockets, Release(s) \/ UNCHANGED idle, UNCHANGED config
  PROVE  PoolType'
  BY TypeSplit, AppendProperties DEF PoolType, Release

LEMMA BeginTyped ==
  ASSUME TypeOK, NEW j \in Jobs, NEW s \in Sockets, NEW p \in Phases, NEW t, Begin(j, s, p, t)
  PROVE  ConnType' /\ FateType' /\ pending' \subseteq Exchanges /\ SockType'
  <1>1. [job |-> j, sock |-> s, phase |-> p, timed |-> HasDeadline(t), got |-> <<>>] \in Exchanges
    BY EmptySeq DEF Exchanges, HasDeadline
  <1>2. SockType'
    BY NothingTyped, TypeSplit DEF Begin, SockType
  <1> QED
    BY <1>1, <1>2, TypeSplit DEF Begin, ConnType, FateType

\* Closing what nobody owns preserves the types.
LEMMA CloseTyped ==
  ASSUME TypeOK, NEW received \in [Sockets -> Seq(Parts)], CloseUnowned(received)
  PROVE  SockType'
  <1>1. tx' \in [Sockets -> Views]
    BY NothingTyped DEF CloseUnowned, TypeOK
  <1>2. rx' \in [Sockets -> Seq(Parts)]
    BY EmptySeq DEF CloseUnowned
  <1>3. fin' \in [Sockets -> BOOLEAN]
    <2> DEFINE b(s) == InUse(s)' /\ fin[s]
    <2>1. \A s \in Sockets : b(s) \in BOOLEAN
      OBVIOUS
    <2>2. fin' = [s \in Sockets |-> b(s)]
      BY DEF CloseUnowned
    <2> HIDE DEF b
    <2> QED
      BY <2>1, <2>2
  <1>4. stray' \subseteq Sockets
    BY DEF CloseUnowned, TypeOK
  <1> QED
    BY <1>1, <1>2, <1>3, <1>4 DEF SockType

\* Every step preserves the types of the variables.
LEMMA TypeStep == TypeOK /\ [Next]_vars => TypeOK'
  <1> SUFFICES ASSUME TypeOK, [Next]_vars PROVE TypeOK'
    OBVIOUS
  <1>t. ConnType /\ FateType /\ pending \subseteq Exchanges /\ PoolType /\ SockType
    BY TypeSplit
  <1>p. ConnType' /\ FateType' /\ pending' \subseteq Exchanges /\ PoolType' /\ SockType' => TypeOK'
    BY DEF TypeOK, ConnType, FateType, PoolType, SockType
  <1>l. idle \in Seq(Sockets) /\ Len(idle) \in Nat /\ (idle # <<>> => Len(idle) >= 1)
    BY <1>t DEF PoolType
  <1>r. rx \in [Sockets -> Seq(Parts)]
    BY <1>t DEF SockType
  <1>1. ASSUME NEW j \in Jobs, StartRefused(j) PROVE TypeOK'
    <2>1. Front(idle) \in Seq(Sockets) \/ idle = <<>>
      BY <1>l, IdleShrinks, 0 \in 0..Len(idle), Len(idle) - 1 \in 0..Len(idle) \/ idle = <<>>, 0 + 1 = 1 DEF Front
    <2>2. PoolType'
      BY <1>1, <1>t, <2>1 DEF StartRefused, PoolType
    <2>3. FateType' /\ SockType'
      BY <1>1, <1>r, SettleTyped, NoAnswerTyped, CloseTyped DEF StartRefused
    <2> QED
      BY <1>1, <1>t, <1>p, <2>2, <2>3 DEF StartRefused, ConnType
  <1>2. ASSUME NEW j \in Jobs, StartReused(j) PROVE TypeOK'
    <2>1. Front(idle) \in Seq(Sockets)
      BY <1>2, <1>l, IdleShrinks, 0 \in 0..Len(idle), Len(idle) - 1 \in 0..Len(idle), 0 + 1 = 1 DEF Front, StartReused
    <2>2. Last(idle) \in Sockets
      BY <1>2, <1>l, ElementOfSeq DEF Last, StartReused
    <2>3. PoolType'
      BY <1>2, <1>t, <2>1 DEF StartReused, PoolType, Begin
    <2> QED
      BY <1>2, <1>p, <2>2, <2>3, BeginTyped DEF StartReused, Phases
  <1>3. ASSUME NEW j \in Jobs, StartNew(j) PROVE TypeOK'
    <2>1. PICK s \in Sockets : Begin(j, s, "Connecting", config.connect)
      BY <1>3 DEF StartNew
    <2>2. PoolType'
      BY <1>3, <1>t, <2>1 DEF StartNew, PoolType, Begin
    <2> QED
      BY <1>p, <2>1, <2>2, BeginTyped DEF Phases
  <1>4. ASSUME NEW x \in pending, NEW n \in 0..2, Flush(x, n) PROVE TypeOK'
    <2>1. pending' \subseteq Exchanges
      <3>1. PICK p \in Phases, b \in BOOLEAN :
              pending' = (pending \ {x}) \cup {[x EXCEPT !.phase = p, !.timed = b]}
        BY <1>4, FlushChanges
      <3>2. PICK y : y = [x EXCEPT !.phase = p, !.timed = b]
        OBVIOUS
      <3>3. y \in Exchanges
        BY <3>2, ExchangeChanged
      <3> QED
        BY <1>t, <3>1, <3>2, <3>3
    <2>2. SockType'
      <3>1. [tx[x.sock] EXCEPT !.parts = n] \in Views
        BY ExchangeTyped DEF Views
      <3>2. tx' = [tx EXCEPT ![x.sock] = [tx[x.sock] EXCEPT !.parts = n]] /\ UNCHANGED <<rx, fin, stray>>
        BY <1>4, <1>t DEF Flush, SockType
      <3> QED
        BY <1>t, <3>1, <3>2 DEF SockType
    <2> QED
      BY <1>4, <1>t, <1>p, <2>1, <2>2 DEF Flush, ConnType, FateType, PoolType, poolVars
  <1>5. ASSUME NEW x \in pending, SocketError(x) \/ ExchangeTimeout(x) PROVE TypeOK'
    <2>1. FateType' /\ SockType'
      BY <1>5, <1>r, SettleTyped, NoAnswerTyped, ExchangeTyped, CloseTyped
        DEF SocketError, ExchangeTimeout, Fail
    <2> QED
      BY <1>5, <1>t, <1>p, <2>1 DEF SocketError, ExchangeTimeout, Fail, ConnType, PoolType
  <1>6. ASSUME NEW x \in pending, ReadAvailable(x) PROVE TypeOK'
    <2> DEFINE q == rx[x.sock]
               parts(n) == Fed(x.got, q, n)
               rest(n) == Left(q, n)
    <2>1. PICK n \in 0..Len(q) :
            /\ CloseUnowned([rx EXCEPT ![x.sock] = rest(n)])
            /\ \/ parts(n) # <<>> /\ Complete(x, parts(n))
               \/ Fail(x)
               \/ /\ pending' = (pending \ {x}) \cup {[x EXCEPT !.got = parts(n)]}
                  /\ UNCHANGED <<idle, fate, answer>>
      <3>1. \A p : Whole(p) \/ CompleteAtEof(p) => p # <<>>
        BY EmptySeq DEF Whole, CompleteAtEof
      <3> QED
        BY <1>6, <3>1 DEF ReadAvailable, Fed, Left
    <2>2. parts(n) \in Seq(Parts) /\ rest(n) \in Seq(Parts)
      BY ExchangeTyped, ReadSplits
    <2>3. UNCHANGED <<conn, config, up>>
      BY <1>6 DEF ReadAvailable
    <2> HIDE DEF q, parts, rest
    <2>4. ConnType' /\ SockType'
      <3>1. [rx EXCEPT ![x.sock] = rest(n)] \in [Sockets -> Seq(Parts)]
        BY <1>r, <2>2
      <3> QED
        BY <1>t, <2>1, <2>3, <3>1, CloseTyped DEF ConnType
    <2>5. CASE parts(n) # <<>> /\ Complete(x, parts(n))
      <3>1. [from |-> Head(parts(n)).job, stray |-> x.sock \in stray] \in Answers
        <4>1. Head(parts(n)) \in Parts
          BY <2>2, <2>5, HeadTailProperties
        <4>2. Head(parts(n)).job \in Jobs \cup {NoJob}
          BY <4>1 DEF Parts
        <4> QED
          BY <4>2 DEF Answers
      <3>2. FateType'
        BY <2>5, <3>1, SettleTyped, ExchangeTyped DEF Complete
      <3>3. PoolType'
        BY <2>3, <2>5, ReleaseTyped, ExchangeTyped DEF Complete
      <3> QED
        BY <1>t, <1>p, <2>4, <2>5, <3>2, <3>3 DEF Complete
    <2>6. CASE Fail(x)
      <3>1. FateType'
        BY <2>6, SettleTyped, NoAnswerTyped, ExchangeTyped DEF Fail
      <3>2. PoolType'
        BY <1>t, <2>3, <2>6 DEF Fail, PoolType
      <3> QED
        BY <1>t, <1>p, <2>4, <2>6, <3>1, <3>2 DEF Fail
    <2>7. CASE /\ pending' = (pending \ {x}) \cup {[x EXCEPT !.got = parts(n)]}
               /\ UNCHANGED <<idle, fate, answer>>
      <3>1. pending' \subseteq Exchanges
        BY <1>t, <2>2, <2>7, ExchangeChanged
      <3> QED
        BY <1>t, <1>p, <2>3, <2>4, <2>7, <3>1 DEF FateType, PoolType
    <2> QED
      BY <2>1, <2>5, <2>6, <2>7
  <1>7. ASSUME NEW n \in 1..MaxSocket, SweepIdle(n) PROVE TypeOK'
    <2>1. idle' \in Seq(Sockets)
      BY <1>7, <1>l, IdleShrinks, n \in 0..Len(idle), Len(idle) \in 0..Len(idle) DEF SweepIdle
    <2>2. SockType'
      BY <1>7, <1>r, CloseTyped DEF SweepIdle
    <2> QED
      BY <1>7, <1>t, <1>p, <2>1, <2>2 DEF SweepIdle, ConnType, FateType, PoolType
  <1>8. CASE Reload
    BY <1>8, <1>t, <1>p DEF Reload, ConnType, FateType, PoolType, SockType, sockVars
  <1>9. CASE Shutdown
    <2>1. SockType'
      BY <1>9, <1>r, CloseTyped DEF Shutdown
    <2> QED
      BY <1>9, <1>t, <1>p, <2>1, EmptySeq DEF Shutdown, ConnType, FateType, PoolType
  <1>10. CASE UNCHANGED vars
    BY <1>10, <1>t, <1>p DEF vars, poolVars, sockVars, ConnType, FateType, PoolType, SockType
  <1>11. ASSUME NEW c \in Conns, Accept(c) \/ RemoveConnection(c) PROVE TypeOK'
    BY <1>11, <1>t, <1>p
      DEF Accept, RemoveConnection, poolVars, sockVars, ConnType, FateType, PoolType, SockType
  <1>12. ASSUME NEW s \in Sockets, UpstreamCloses(s) PROVE TypeOK'
    BY <1>12, <1>t, <1>p DEF UpstreamCloses, poolVars, ConnType, FateType, PoolType, SockType
  <1>13. ASSUME NEW s \in Sockets, NEW f \in Framings, UpstreamReplies(s, f) PROVE TypeOK'
    <2> DEFINE part == [job |-> tx[s].job, part |-> 1 + (tx[s].replied % 2), framing |-> f]
               new == [tx[s] EXCEPT !.replied = tx[s].replied + 1, !.framing = f]
    <2>1. tx[s] \in Views /\ tx[s].replied < MaxReplies
      BY <1>13, <1>t DEF UpstreamReplies, SockType
    <2>2. tx[s].replied \in Nat /\ tx[s].job \in Jobs \cup {NoJob}
      BY <2>1, ProxyAssumption DEF Views
    <2>3. part \in Parts
      <3>1. 1 + (tx[s].replied % 2) \in 1..2
        BY <2>2
      <3> QED
        BY <2>2, <3>1 DEF Parts
    <2>4. new \in Views
      <3>1. tx[s].replied + 1 \in 0..MaxReplies
        BY <2>1, <2>2, ProxyAssumption
      <3> QED
        BY <2>1, <3>1 DEF Views
    <2>5. /\ tx' = [tx EXCEPT ![s] = new] /\ rx' = [rx EXCEPT ![s] = Append(rx[s], part)]
          /\ UNCHANGED fin /\ stray' \subseteq stray \cup {s}
      BY <1>13, <1>t DEF UpstreamReplies, SockType
    <2>6. Append(rx[s], part) \in Seq(Parts)
      BY <1>r, <2>3, AppendProperties
    <2> HIDE DEF part, new
    <2>7. SockType'
      BY <1>t, <2>4, <2>5, <2>6 DEF SockType
    <2> QED
      BY <1>13, <1>t, <1>p, <2>7 DEF UpstreamReplies, poolVars, ConnType, FateType, PoolType
  <1> QED
    BY <1>1, <1>2, <1>3, <1>4, <1>5, <1>6, <1>7, <1>8, <1>9, <1>10, <1>11, <1>12, <1>13
      DEF Next, Stopped

-----------------------------------------------------------------------------
(* Ownership of sockets and requests *)

\* An exchange ends: complete and fail, whoever calls them.
LEMMA EndExclusive ==
  ASSUME TypeOK, Exclusive, NEW x \in pending, NEW a, Settle(x.job, a),
         pending' = pending \ {x}, UNCHANGED up
  PROVE  Exclusive'
  <1>1. ASSUME NEW y \in pending' PROVE y \in pending /\ y.job # x.job /\ fate'[y.job] = fate[y.job]
    BY <1>1, ExchangeTyped DEF Exclusive, Settle, TypeOK
  <1> QED
    BY <1>1 DEF Exclusive

\* An exchange changes its phase or what it has read.
LEMMA ChangeExclusive ==
  ASSUME Exclusive, NEW x \in pending, NEW y, y.job = x.job, y.sock = x.sock, up,
         pending' = (pending \ {x}) \cup {y}, UNCHANGED <<fate, up>>
  PROVE  Exclusive'
  BY DEF Exclusive

\* An exchange begins on a socket that no other exchange has.
LEMMA BeginExclusive ==
  ASSUME TypeOK, Exclusive, NEW j \in Jobs, NEW s \in Sockets, NEW p, NEW t, Begin(j, s, p, t),
         MayStart(j), \A x \in pending : x.sock # s
  PROVE  Exclusive'
  <1>1. PICK y : y = [job |-> j, sock |-> s, phase |-> p, timed |-> HasDeadline(t), got |-> <<>>]
    OBVIOUS
  <1>2. pending' = pending \cup {y} /\ y.job = j /\ y.sock = s /\ fate'[j] = "pending" /\ up'
    BY <1>1 DEF Begin, TypeOK, MayStart
  <1>3. \A x \in pending : x.job # j /\ fate'[x.job] = fate[x.job]
    BY ExchangeTyped DEF Exclusive, MayStart, Begin, TypeOK
  <1> QED
    BY <1>2, <1>3 DEF Exclusive

\* The pool lost connections and no exchange got a socket.
LEMMA PoolShrinks ==
  ASSUME Pooled, NEW d \in Nat, Len(idle) \in Nat, Len(idle') \in Nat,
         \A i \in 1..Len(idle') : i + d \in 1..Len(idle) /\ idle'[i] = idle[i + d],
         \A y \in pending' : \E x \in pending : x.sock = y.sock
  PROVE  Pooled'
  <1>1. \A i, k \in 1..Len(idle') : i + d = k + d => i = k
    OBVIOUS
  <1> QED
    BY <1>1 DEF Pooled

\* The pool is as it was and no exchange got a socket.
LEMMA PoolStays ==
  ASSUME Pooled, \A y \in pending' : \E x \in pending : x.sock = y.sock, UNCHANGED idle
  PROVE  Pooled'
  BY DEF Pooled

\* The socket of an exchange that ended is put into the pool, or closed.
LEMMA PoolGrows ==
  ASSUME TypeOK, Exclusive, Pooled, NEW x \in pending, pending' = pending \ {x},
         Release(x.sock)
  PROVE  Pooled'
  <1>1. CASE idle' = idle
    BY <1>1, PoolStays
  <1>2. CASE idle' = Append(idle, x.sock)
    <2>1. /\ idle \in Seq(Sockets) /\ x.sock \in Sockets /\ Len(idle) \in Nat
          /\ \A y \in pending' : y \in pending /\ y.sock # x.sock
      BY ExchangeTyped DEF TypeOK, Exclusive
    <2>2. /\ Len(idle') = Len(idle) + 1 /\ idle'[Len(idle) + 1] = x.sock
          /\ \A i \in 1..Len(idle) : idle'[i] = idle[i]
      BY <1>2, <2>1, AppendProperties
    <2>3. \A i \in 1..Len(idle') : i \in 1..Len(idle) \/ i = Len(idle) + 1
      BY <2>1, <2>2
    <2>4. \A i \in 1..Len(idle) : idle[i] # x.sock
      BY DEF Pooled
    <2> QED
      BY <2>1, <2>2, <2>3, <2>4 DEF Pooled
  <1> QED
    BY <1>1, <1>2 DEF Release

\* Taking the most recent connection leaves the others.
LEMMA PoolPops ==
  ASSUME TypeOK, idle # <<>>, idle' = Front(idle)
  PROVE  /\ Len(idle) \in Nat /\ Len(idle) \in 1..Len(idle) /\ Len(idle') \in Nat /\ Last(idle) \in Sockets
         /\ Len(idle') = Len(idle) - 1
         /\ \A i \in 1..Len(idle') : i \in 1..Len(idle) /\ i # Len(idle) /\ idle'[i] = idle[i]
  <1>1. idle \in Seq(Sockets) /\ Len(idle) \in Nat /\ Len(idle) \in 1..Len(idle)
    BY EmptySeq, LenProperties DEF TypeOK
  <1>2. 0 \in 0..Len(idle) /\ Len(idle) - 1 \in 0..Len(idle) /\ idle' = SubSeq(idle, 0 + 1, Len(idle) - 1)
    BY <1>1 DEF Front
  <1>3. /\ idle' \in Seq(Sockets) /\ Len(idle') = IF 0 < Len(idle) - 1 THEN (Len(idle) - 1) - 0 ELSE 0
        /\ \A i \in 1..Len(idle') : i + 0 \in 1..Len(idle) - 1 /\ idle'[i] = idle[i + 0]
    BY <1>1, <1>2, IdleShrinks
  <1>4. Len(idle') \in Nat /\ Last(idle) \in Sockets
    BY <1>1, <1>3, LenProperties, ElementOfSeq DEF Last
  <1>5. /\ Len(idle') = Len(idle) - 1
        /\ \A i \in 1..Len(idle') : i + 0 = i /\ i \in 1..Len(idle) /\ i # Len(idle)
    <2>1. PICK m, k : m = Len(idle) /\ k = Len(idle')
      OBVIOUS
    <2>2. m \in Nat /\ m >= 1 /\ k = IF 0 < m - 1 THEN (m - 1) - 0 ELSE 0
      BY <1>1, <1>3, <2>1
    <2>3. k = m - 1
      BY <2>2
    <2>4. \A i \in 1..k : i + 0 = i /\ i \in 1..m /\ i # m
      BY <2>2, <2>3
    <2> QED
      BY <2>1, <2>3, <2>4
  <1> QED
    BY <1>1, <1>3, <1>4, <1>5

-----------------------------------------------------------------------------
(* read_available *)

\* The parts that the parser has and those left on the socket are the ones that
\* the upstream sent, in order and for this request.
OrderedFor(x, parts, rest) ==
  /\ tx[x.sock].replied = Len(parts) + Len(rest)
  /\ \A i \in 1..Len(parts) : parts[i].job = x.job /\ parts[i].part = i
  /\ \A i \in 1..Len(rest) : rest[i].job = x.job /\ rest[i].part = Len(parts) + i

\* What the parser has after n more parts, and what is left on the socket, are
\* still the parts that the upstream sent, in order and for this request.
LEMMA OrderKept ==
  ASSUME TypeOK, NEW x \in pending, InOrder(x), NEW n \in 0..Len(rx[x.sock])
  PROVE  LET parts == Fed(x.got, rx[x.sock], n)
             rest == Left(rx[x.sock], n)
         IN  OrderedFor(x, parts, rest)
  <1>0. PICK got, q, j, replied :
          got = x.got /\ q = rx[x.sock] /\ j = x.job /\ replied = tx[x.sock].replied
    OBVIOUS
  <1>1. /\ q \in Seq(Parts) /\ got \in Seq(Parts)
        /\ Len(q) \in Nat /\ Len(got) \in Nat /\ n \in Nat /\ n \in 0..Len(q)
    BY <1>0, ExchangeTyped
  <1>2. /\ replied = Len(got) + Len(q)
        /\ \A i \in 1..Len(got) : got[i].job = j /\ got[i].part = i
        /\ \A i \in 1..Len(q) : q[i].job = j /\ q[i].part = Len(got) + i
    BY <1>0 DEF InOrder
  <1> DEFINE parts == Fed(got, q, n)
             rest == Left(q, n)
  <1>3. /\ parts \in Seq(Parts) /\ Len(parts) = Len(got) + n
        /\ rest \in Seq(Parts) /\ Len(rest) = Len(q) - n
        /\ \A i \in 1..Len(got) : parts[i] = got[i]
        /\ \A i \in 1..n : i \in 1..Len(q) /\ parts[Len(got) + i] = q[i]
        /\ \A i \in 1..Len(rest) : i + n \in 1..Len(q) /\ rest[i] = q[i + n]
    <2>1. parts \in Seq(Parts) /\ Len(parts) = Len(got) + n
      BY <1>1, ReadSplits
    <2>2. rest \in Seq(Parts) /\ Len(rest) = Len(q) - n
      BY <1>1, ReadSplits
    <2>3. \A i \in 1..Len(got) : parts[i] = got[i]
      BY <1>1, ReadSplits
    <2>4. \A i \in 1..n : i \in 1..Len(q) /\ parts[Len(got) + i] = q[i]
      BY <1>1, ReadSplits
    <2>5. \A i \in 1..Len(rest) : i + n \in 1..Len(q) /\ rest[i] = q[i + n]
      BY <1>1, ReadSplits
    <2> QED
      BY <2>1, <2>2, <2>3, <2>4, <2>5
  <1> HIDE DEF parts, rest
  <1>5. replied = Len(parts) + Len(rest)
    BY <1>1, <1>2, <1>3
  <1>6. ASSUME NEW i \in 1..Len(parts) PROVE parts[i].job = j /\ parts[i].part = i
    <2>1. CASE i \in 1..Len(got)
      BY <2>1, <1>2, <1>3
    <2>2. CASE i \notin 1..Len(got)
      <3>1. i - Len(got) \in 1..n /\ Len(got) + (i - Len(got)) = i
        BY <1>1, <1>3, <2>2
      <3>2. parts[i] = q[i - Len(got)] /\ i - Len(got) \in 1..Len(q)
        BY <1>3, <3>1
      <3> QED
        BY <1>2, <3>1, <3>2
    <2> QED
      BY <2>1, <2>2
  <1>7. ASSUME NEW i \in 1..Len(rest) PROVE rest[i].job = j /\ rest[i].part = Len(parts) + i
    <2>1. Len(got) + (i + n) = Len(parts) + i
      BY <1>1, <1>3
    <2> QED
      BY <1>2, <1>3, <2>1
  <1> QED
    BY <1>0, <1>3, <1>5, <1>6, <1>7 DEF parts, rest, OrderedFor

\* When the upstream has sent nothing but its answer, a whole response is all
\* there is.
LEMMA WholeIsLast ==
  ASSUME NEW parts \in Seq(Parts), NEW rest \in Seq(Parts), Len(parts) + Len(rest) <= 2,
         Whole(parts)
  PROVE  rest = <<>> /\ Len(parts) = 2
  <1>1. Len(parts) \in Nat /\ Len(parts) >= 2 /\ Len(rest) \in Nat
    BY LenProperties DEF Whole
  <1>2. Len(parts) = 2 /\ Len(rest) = 0
    <2>1. PICK m, k : m = Len(parts) /\ k = Len(rest)
      OBVIOUS
    <2>2. m \in Nat /\ k \in Nat /\ m >= 2 /\ m + k <= 2
      BY <1>1, <2>1
    <2>3. m = 2 /\ k = 0
      BY <2>2
    <2> QED
      BY <2>1, <2>3
  <1> QED
    BY <1>2, EmptySeq

\* A connection that goes to the pool after its response is at a boundary.
PoolsClean(x, rest) ==
  /\ tx[x.sock].parts = 2 \/ fin[x.sock]
  /\ x.sock \notin stray => rest = <<>> /\ tx[x.sock].replied = 2

\* The three outcomes of read_available.
LEMMA ReadCases ==
  ASSUME TypeOK, Boundaries, NEW x \in pending, ReadAvailable(x)
  PROVE  \E parts, rest \in Seq(Parts) :
           /\ CloseUnowned([rx EXCEPT ![x.sock] = rest])
           /\ x.sock \notin stray => OrderedFor(x, parts, rest)
           /\ \/ /\ parts # <<>> /\ Complete(x, parts)
                 /\ Head(parts).framing = "keep" => PoolsClean(x, rest)
              \/ Fail(x)
              \/ /\ pending' = (pending \ {x}) \cup {[x EXCEPT !.got = parts]}
                 /\ UNCHANGED <<idle, fate, answer>>
  <1> DEFINE P(n) == Fed(x.got, rx[x.sock], n)
             R(n) == Left(rx[x.sock], n)
  <1>1. PICK n \in 0..Len(rx[x.sock]) :
          /\ x.phase # "Reading" => fin[x.sock]
          /\ CloseUnowned([rx EXCEPT ![x.sock] = R(n)])
          /\ \/ /\ Whole(P(n)) \/ CompleteAtEof(P(n))
                /\ Complete(x, P(n))
             \/ Fail(x)
             \/ /\ pending' = (pending \ {x}) \cup {[x EXCEPT !.got = P(n)]}
                /\ UNCHANGED <<idle, fate, answer>>
    BY DEF ReadAvailable, Fed, Left
  <1>2. PICK parts, rest \in Seq(Parts) :
          /\ parts = P(n) /\ rest = R(n)
          /\ x.sock \notin stray => OrderedFor(x, parts, rest)
    <2>1. x.sock \notin stray => InOrder(x)
      BY DEF Boundaries, Stream
    <2>2. P(n) \in Seq(Parts) /\ R(n) \in Seq(Parts)
      BY ExchangeTyped, ReadSplits
    <2>3. x.sock \notin stray => OrderedFor(x, P(n), R(n))
      BY <2>1, OrderKept
    <2> HIDE DEF P, R
    <2> QED
      BY <2>2, <2>3
  <1> HIDE DEF P, R
  <1>4. ASSUME Whole(parts) \/ CompleteAtEof(parts), Head(parts).framing = "keep"
        PROVE  PoolsClean(x, rest)
    <2>1. Whole(parts)
      BY <1>4 DEF CompleteAtEof
    <2>2. ASSUME x.sock \notin stray PROVE rest = <<>> /\ tx[x.sock].replied = 2
      <3>1. tx[x.sock].replied <= 2 /\ tx[x.sock].replied = Len(parts) + Len(rest)
        BY <1>2, <2>2 DEF Boundaries, Stream, InOrder, OrderedFor
      <3>2. rest = <<>> /\ Len(parts) = 2
        BY <2>1, <3>1, WholeIsLast
      <3> QED
        BY <3>1, <3>2, EmptySeq
    <2>3. x.phase = "Reading" => tx[x.sock].parts = 2
      BY DEF Boundaries, Stream
    <2> QED
      BY <1>1, <2>2, <2>3 DEF PoolsClean
  <1>5. Whole(parts) \/ CompleteAtEof(parts) => parts # <<>>
    BY EmptySeq DEF Whole, CompleteAtEof
  <1> QED
    BY <1>1, <1>2, <1>4, <1>5

-----------------------------------------------------------------------------
(* Every step preserves the ownership of sockets and requests *)

LEMMA OwnershipStep ==
  ASSUME TypeOK, Exclusive, Pooled, Boundaries, [Next]_vars
  PROVE  Exclusive' /\ Pooled'
  <1>l. idle \in Seq(Sockets) /\ Len(idle) \in Nat
    BY DEF TypeOK
  <1>1. ASSUME NEW j \in Jobs, StartRefused(j) PROVE Exclusive' /\ Pooled'
    <2>1. /\ \A x \in pending : x.job # j /\ fate'[x.job] = fate[x.job]
          /\ UNCHANGED <<pending, up>>
      BY <1>1, ExchangeTyped DEF StartRefused, Settle, MayStart, Exclusive, TypeOK
    <2>2. Exclusive'
      BY <2>1 DEF Exclusive
    <2>3. CASE idle' = idle
      BY <2>1, <2>2, <2>3, PoolStays
    <2>4. CASE idle # <<>> /\ idle' = Front(idle)
      <3>1. Len(idle') \in Nat /\ \A i \in 1..Len(idle') : i + 0 \in 1..Len(idle) /\ idle'[i] = idle[i + 0]
        BY <2>4, PoolPops
      <3> QED
        BY <1>l, <2>1, <2>2, <3>1, PoolShrinks
    <2> QED
      BY <1>1, <2>3, <2>4 DEF StartRefused
  <1>2. ASSUME NEW j \in Jobs, StartReused(j) PROVE Exclusive' /\ Pooled'
    <2>1. /\ idle # <<>> /\ idle' = Front(idle) /\ MayStart(j)
          /\ Begin(j, Last(idle), "Writing", config.read)
      BY <1>2 DEF StartReused
    <2>2. PICK s, y : /\ s = Last(idle)
                      /\ y = [job |-> j, sock |-> s, phase |-> "Writing",
                              timed |-> HasDeadline(config.read), got |-> <<>>]
      OBVIOUS
    <2>3. /\ Len(idle) \in 1..Len(idle) /\ Len(idle') \in Nat /\ s \in Sockets
          /\ \A i \in 1..Len(idle') : i \in 1..Len(idle) /\ i # Len(idle) /\ idle'[i] = idle[i]
      BY <2>1, <2>2, PoolPops
    <2>4. s = idle[Len(idle)]
      BY <2>2 DEF Last
    <2>5. /\ \A x \in pending : x.sock # s
          /\ \A i \in 1..Len(idle') : idle'[i] # s
      BY <2>3, <2>4 DEF Pooled
    <2>6. pending' = pending \cup {y} /\ y.sock = s
      BY <2>1, <2>2 DEF Begin
    <2>7. Exclusive'
      BY <2>1, <2>2, <2>3, <2>5, BeginExclusive
    <2>8. Pooled'
      BY <2>3, <2>5, <2>6 DEF Pooled
    <2> QED
      BY <2>7, <2>8
  <1>3. ASSUME NEW j \in Jobs, StartNew(j) PROVE Exclusive' /\ Pooled'
    <2>1. PICK s \in Sockets : Begin(j, s, "Connecting", config.connect) /\ ~InUse(s)
      BY <1>3 DEF StartNew
    <2>2. MayStart(j) /\ idle' = <<>> /\ \A x \in pending : x.sock # s
      BY <1>3, <2>1 DEF StartNew, InUse
    <2>3. Exclusive'
      BY <2>1, <2>2, BeginExclusive
    <2>4. Pooled'
      BY <2>2 DEF Pooled
    <2> QED
      BY <2>3, <2>4
  <1>4. ASSUME NEW x \in pending, NEW n \in 0..2, Flush(x, n) PROVE Exclusive' /\ Pooled'
    <2>1. PICK p \in Phases, b \in BOOLEAN :
            pending' = (pending \ {x}) \cup {[x EXCEPT !.phase = p, !.timed = b]}
      BY <1>4, FlushChanges
    <2>2. PICK y : y = [x EXCEPT !.phase = p, !.timed = b]
      OBVIOUS
    <2>3. y.job = x.job /\ y.sock = x.sock
      <3>1. x \in Exchanges
        BY DEF TypeOK
      <3> QED
        BY <2>2, <3>1 DEF Exchanges
    <2>4. UNCHANGED <<fate, up, idle>> /\ up
      BY <1>4 DEF Flush, poolVars
    <2>5. Exclusive'
      BY <2>1, <2>2, <2>3, <2>4, ChangeExclusive
    <2>6. Pooled'
      BY <2>1, <2>2, <2>3, <2>4, PoolStays
    <2> QED
      BY <2>5, <2>6
  <1>5. ASSUME NEW x \in pending, Fail(x), UNCHANGED up PROVE Exclusive' /\ Pooled'
    BY <1>5, EndExclusive, PoolStays DEF Fail
  <1>6. ASSUME NEW x \in pending, ReadAvailable(x) PROVE Exclusive' /\ Pooled'
    <2>1. PICK parts \in Seq(Parts) :
            \/ Complete(x, parts)
            \/ Fail(x)
            \/ /\ pending' = (pending \ {x}) \cup {[x EXCEPT !.got = parts]}
               /\ UNCHANGED <<idle, fate, answer>>
      BY <1>6, ReadCases
    <2>2. UNCHANGED up /\ up
      BY <1>6 DEF ReadAvailable
    <2>3. CASE Complete(x, parts)
      BY <2>2, <2>3, EndExclusive, PoolGrows, PoolStays DEF Complete
    <2>4. CASE Fail(x)
      BY <1>5, <2>2, <2>4
    <2>5. CASE /\ pending' = (pending \ {x}) \cup {[x EXCEPT !.got = parts]}
               /\ UNCHANGED <<idle, fate, answer>>
      <3>1. PICK y : y = [x EXCEPT !.got = parts]
        OBVIOUS
      <3>2. y.job = x.job /\ y.sock = x.sock
        BY <3>1, ExchangeChanged
      <3> QED
        BY <2>2, <2>5, <3>1, <3>2, ChangeExclusive, PoolStays
    <2> QED
      BY <2>1, <2>3, <2>4, <2>5
  <1>7. ASSUME NEW n \in 1..MaxSocket, SweepIdle(n) PROVE Exclusive' /\ Pooled'
    <2>1. n \in 0..Len(idle) /\ n \in Nat /\ Len(idle) \in 0..Len(idle) /\ idle' = SubSeq(idle, n + 1, Len(idle))
      BY <1>7, <1>l DEF SweepIdle
    <2>2. idle' \in Seq(Sockets) /\ \A i \in 1..Len(idle') : i + n \in 1..Len(idle) /\ idle'[i] = idle[i + n]
      BY <1>l, <2>1, IdleShrinks
    <2>3. UNCHANGED <<pending, fate, up>> /\ Len(idle') \in Nat
      BY <1>7, <2>2, LenProperties DEF SweepIdle
    <2> QED
      BY <1>l, <2>1, <2>2, <2>3, PoolShrinks DEF Exclusive
  <1>8. CASE Shutdown
    BY <1>8 DEF Shutdown, Exclusive, Pooled
  <1>9. ASSUME UNCHANGED <<pending, fate, idle, up>> PROVE Exclusive' /\ Pooled'
    BY <1>9 DEF Exclusive, Pooled
  <1>10. CASE Reload \/ UNCHANGED vars
    BY <1>9, <1>10 DEF Reload, vars, poolVars
  <1>11. ASSUME NEW c \in Conns, Accept(c) \/ RemoveConnection(c) PROVE Exclusive' /\ Pooled'
    BY <1>9, <1>11 DEF Accept, RemoveConnection, poolVars
  <1>12. ASSUME NEW s \in Sockets, UpstreamCloses(s) \/ \E f \in Framings : UpstreamReplies(s, f)
         PROVE  Exclusive' /\ Pooled'
    BY <1>9, <1>12 DEF UpstreamCloses, UpstreamReplies, poolVars
  <1> QED
    BY <1>1, <1>2, <1>3, <1>4, <1>5, <1>6, <1>7, <1>8, <1>10, <1>11, <1>12
      DEF Next, Stopped, SocketError, ExchangeTimeout

-----------------------------------------------------------------------------
(* Every step preserves the message boundaries *)

\* Socket s is as it was, but for the upstream closing its side or sending more
\* than its answer.
Same(s) == /\ tx'[s] = tx[s] /\ rx'[s] = rx[s]
           /\ fin[s] => fin'[s]
           /\ s \in stray => s \in stray'

LEMMA StreamLocal ==
  ASSUME NEW y, Stream(y), Same(y.sock)
  PROVE  Stream(y)'
  BY DEF Stream, InOrder, Same

LEMMA CleanLocal ==
  ASSUME NEW s, Clean(s), Same(s)
  PROVE  Clean(s)'
  BY DEF Clean, Same

\* Who uses a socket after the step.
LEMMA InUseNext ==
  ASSUME TypeOK'
  PROVE  \A s : InUse(s)' <=> \/ \E i \in 1..Len(idle') : s = idle'[i]
                             \/ \E x \in pending' : x.sock = s
  <1>1. idle' \in Seq(Sockets)
    BY DEF TypeOK
  <1>2. Range(idle') = {idle'[i] : i \in 1..Len(idle')}
    BY <1>1, RangeEquality
  <1> QED
    BY <1>2 DEF InUse

\* What closing the unowned sockets leaves of the others, and of them.
LEMMA Closed ==
  ASSUME NEW received \in [Sockets -> Seq(Parts)], CloseUnowned(received), NEW s \in Sockets
  PROVE  /\ InUse(s)' => /\ tx'[s] = tx[s] /\ rx'[s] = received[s] /\ (fin[s] => fin'[s])
                         /\ s \in stray <=> s \in stray'
         /\ ~InUse(s)' => rx'[s] = <<>>
  <1>1. tx'[s] = IF InUse(s)' THEN tx[s] ELSE Nothing(NoJob)
    BY DEF CloseUnowned
  <1>2. rx'[s] = IF InUse(s)' THEN received[s] ELSE <<>>
    BY DEF CloseUnowned
  <1>3. fin'[s] = (InUse(s)' /\ fin[s])
    BY DEF CloseUnowned
  <1>4. s \in stray' <=> s \in stray /\ InUse(s)'
    BY DEF CloseUnowned
  <1> QED
    BY <1>1, <1>2, <1>3, <1>4

\* No socket got another owner.
LEMMA SocketsStay ==
  ASSUME TypeOK, TypeOK', Boundaries, pending' \subseteq pending,
         \A i \in 1..Len(idle') : \E k \in 1..Len(idle) : idle'[i] = idle[k],
         \A s \in Sockets : InUse(s)' => Same(s),
         \A s \in Sockets : ~InUse(s)' => rx'[s] = <<>>
  PROVE  Boundaries'
  <1>1. ASSUME NEW y \in pending' PROVE Stream(y)'
    <2>1. y.sock \in Sockets /\ InUse(y.sock)' /\ Stream(y)
      BY InUseNext, ExchangeTyped DEF Boundaries
    <2> QED
      BY <2>1, StreamLocal
  <1>2. ASSUME NEW i \in 1..Len(idle'), NEW s, s = idle'[i] PROVE Clean(s)'
    <2>1. InUse(s)'
      BY <1>2, InUseNext
    <2>2. s \in Sockets /\ Clean(s)
      BY <1>2, ElementOfSeq DEF Boundaries, TypeOK
    <2> QED
      BY <2>1, <2>2, CleanLocal
  <1> QED
    BY <1>1, <1>2 DEF Boundaries, Clean

\* The same when the sockets that lost their owner are closed.
LEMMA SocketsClose ==
  ASSUME TypeOK, TypeOK', Boundaries, CloseUnowned(rx), pending' \subseteq pending,
         \A i \in 1..Len(idle') : \E k \in 1..Len(idle) : idle'[i] = idle[k]
  PROVE  Boundaries'
  <1>1. rx \in [Sockets -> Seq(Parts)]
    BY DEF TypeOK
  <1>2. \A s \in Sockets : (InUse(s)' => Same(s)) /\ (~InUse(s)' => rx'[s] = <<>>)
    BY <1>1, Closed DEF Same
  <1> QED
    BY <1>2, SocketsStay

\* The same when the sockets are as they were.
LEMMA SocketsKept ==
  ASSUME TypeOK, TypeOK', Boundaries, UNCHANGED <<pending, idle, tx, rx, stray>>,
         \A s \in Sockets : fin[s] => fin'[s]
  PROVE  Boundaries'
  <1>1. \A s \in Sockets : Same(s)
    BY DEF Same
  <1>2. \A s : InUse(s)' <=> InUse(s)
    BY DEF InUse
  <1>3. \A s \in Sockets : ~InUse(s)' => rx'[s] = <<>>
    BY <1>2 DEF Boundaries
  <1> QED
    BY <1>1, <1>3, SocketsStay

\* Only the socket of exchange x changed: the others are as they were.
LEMMA OneSocket ==
  ASSUME TypeOK, Exclusive, Pooled, Boundaries, NEW x \in pending,
         \A y \in pending : y # x => Same(y.sock),
         \A i \in 1..Len(idle) : Same(idle[i])
  PROVE  /\ \A y \in pending : y # x => Stream(y)'
         /\ \A s : (\E i \in 1..Len(idle) : s = idle[i]) => Clean(s)'
  <1>1. ASSUME NEW y \in pending, y # x PROVE Stream(y)'
    BY <1>1, StreamLocal DEF Boundaries
  <1>2. ASSUME NEW s, NEW i \in 1..Len(idle), s = idle[i] PROVE Clean(s)'
    <2>1. Clean(s) /\ Same(s)
      BY <1>2 DEF Boundaries
    <2> QED
      BY <2>1, CleanLocal
  <1> QED
    BY <1>1, <1>2

\* The others are other sockets.
LEMMA Others ==
  ASSUME TypeOK, Exclusive, Pooled, NEW x \in pending
  PROVE  /\ \A y \in pending : y # x => y.sock \in Sockets /\ y.sock # x.sock
         /\ \A i \in 1..Len(idle) : idle[i] \in Sockets /\ idle[i] # x.sock
  <1>1. \A i \in 1..Len(idle) : idle[i] \in Sockets
    BY ElementOfSeq DEF TypeOK
  <1> QED
    BY <1>1, ExchangeTyped DEF Exclusive, Pooled

\* An exchange begins on a socket with nothing on it that is not stray.
LEMMA BeginBoundaries ==
  ASSUME TypeOK, TypeOK', Boundaries, NEW j \in Jobs, NEW s \in Sockets,
         NEW p \in {"Connecting", "Writing"}, NEW t, Begin(j, s, p, t),
         s \notin stray => rx[s] = <<>>, \A x \in pending : x.sock # s,
         \A i \in 1..Len(idle') : idle'[i] # s /\ \E k \in 1..Len(idle) : idle'[i] = idle[k],
         \A i \in 1..Len(idle) : idle[i] = s \/ \E k \in 1..Len(idle') : idle[i] = idle'[k]
  PROVE  Boundaries'
  <1>1. PICK y : y = [job |-> j, sock |-> s, phase |-> p, timed |-> HasDeadline(t), got |-> <<>>]
    OBVIOUS
  <1>2. /\ pending' = pending \cup {y} /\ tx' = [tx EXCEPT ![s] = Nothing(j)]
        /\ UNCHANGED <<rx, fin, stray>>
    BY <1>1 DEF Begin
  <1>3. /\ tx'[s].job = j /\ tx'[s].replied = 0
        /\ \A r \in Sockets : r # s => Same(r)
    BY <1>2 DEF TypeOK, Nothing, Same
  <1>4. y.job = j /\ y.sock = s /\ y.got = <<>> /\ y.phase # "Reading"
    BY <1>1
  <1>5. Stream(y)'
    BY <1>2, <1>3, <1>4 DEF Stream, InOrder
  <1>6. ASSUME NEW x \in pending PROVE Stream(x)'
    <2>1. x.sock \in Sockets /\ x.sock # s
      BY ExchangeTyped
    <2> QED
      BY <1>3, <2>1, StreamLocal DEF Boundaries
  <1>7. ASSUME NEW i \in 1..Len(idle'), NEW r, r = idle'[i] PROVE Clean(r)'
    <2>1. PICK k \in 1..Len(idle) : r = idle[k]
      BY <1>7
    <2>2. idle \in Seq(Sockets)
      BY DEF TypeOK
    <2>3. r \in Sockets /\ r # s /\ Clean(r)
      BY <1>7, <2>1, <2>2, ElementOfSeq DEF Boundaries
    <2> QED
      BY <1>3, <2>3, CleanLocal
  <1>8. ASSUME NEW r \in Sockets, ~InUse(r)' PROVE rx'[r] = <<>>
    <2>1. r # s /\ (\A x \in pending : x.sock # r) /\ (\A k \in 1..Len(idle') : r # idle'[k])
      BY <1>2, <1>4, <1>8, InUseNext
    <2>2. \A i \in 1..Len(idle) : idle[i] # r
      BY <2>1
    <2>3. ~InUse(r)
      <3>1. idle \in Seq(Sockets)
        BY DEF TypeOK
      <3>2. Range(idle) = {idle[i] : i \in 1..Len(idle)}
        BY <3>1, RangeEquality
      <3>3. r \notin Range(idle)
        BY <2>2, <3>2
      <3> QED
        BY <2>1, <3>3 DEF InUse
    <2> QED
      BY <1>2, <2>3 DEF Boundaries
  <1> QED
    BY <1>2, <1>5, <1>6, <1>7, <1>8 DEF Boundaries, Clean

\* The upstream sends the next part of its answer, or surplus.
LEMMA RepliesBoundaries ==
  ASSUME TypeOK, TypeOK', Exclusive, Pooled, Boundaries, NEW s \in Sockets, NEW f \in Framings,
         UpstreamReplies(s, f)
  PROVE  Boundaries'
  <1>1. PICK part : part = [job |-> tx[s].job, part |-> 1 + (tx[s].replied % 2), framing |-> f]
    OBVIOUS
  <1>2. /\ tx' = [tx EXCEPT ![s].replied = @ + 1, ![s].framing = f]
        /\ rx' = [rx EXCEPT ![s] = Append(@, part)]
        /\ stray' = IF Surplus(s) THEN stray \cup {s} ELSE stray
        /\ UNCHANGED <<pending, idle, fin>> /\ InUse(s)
    BY <1>1 DEF UpstreamReplies, poolVars
  <1>3. /\ tx'[s].job = tx[s].job /\ tx'[s].replied = tx[s].replied + 1 /\ tx'[s].parts = tx[s].parts
        /\ rx'[s] = Append(rx[s], part)
        /\ \A r \in Sockets : r # s => Same(r)
    BY <1>2 DEF TypeOK, Views, Same
  <1>4. tx[s].replied \in Nat /\ tx[s].job \in Jobs \cup {NoJob} /\ rx[s] \in Seq(Parts)
    <2>1. tx[s] \in Views
      BY DEF TypeOK
    <2> QED
      BY <2>1, ProxyAssumption DEF Views, TypeOK
  <1>5. ASSUME NEW x \in pending, x.sock = s, s \notin stray' PROVE InOrder(x)'
    <2>0. tx[s].replied \in 0..1
      BY <1>2, <1>4, <1>5 DEF Surplus
    <2>1. part.job = x.job /\ part.part = tx[s].replied + 1 /\ part \in Parts
      <3>1. tx[s].job = x.job /\ x.job \in Jobs
        BY <1>5, ExchangeTyped DEF Boundaries, Stream
      <3>2. 1 + (tx[s].replied % 2) = tx[s].replied + 1 /\ tx[s].replied + 1 \in 1..2
        BY <2>0
      <3> QED
        BY <1>1, <3>1, <3>2 DEF Parts
    <2>2. /\ Len(rx[s]) \in Nat /\ Len(x.got) \in Nat
          /\ tx[s].replied = Len(x.got) + Len(rx[s])
          /\ \A i \in 1..Len(x.got) : x.got[i].job = x.job /\ x.got[i].part = i
          /\ \A i \in 1..Len(rx[s]) : rx[s][i].job = x.job /\ rx[s][i].part = Len(x.got) + i
      <3>1. s \notin stray
        BY <1>2, <1>5
      <3> QED
        BY <1>5, <3>1, ExchangeTyped DEF Boundaries, Stream, InOrder
    <2>3. PICK q, n : q = rx'[s] /\ n = Len(rx[s])
      OBVIOUS
    <2>4. /\ Len(q) = n + 1 /\ n \in Nat /\ q[n + 1] = part
          /\ \A i \in 1..n : q[i] = rx[s][i]
      BY <1>3, <1>4, <2>1, <2>2, <2>3, AppendProperties
    <2>5. \A i \in 1..Len(q) : i \in 1..n \/ i = n + 1
      BY <2>4
    <2>6. part.part = Len(x.got) + (n + 1) /\ tx[s].replied + 1 = Len(x.got) + Len(q)
      <3>1. PICK g, k : g = Len(x.got) /\ k = tx[s].replied
        OBVIOUS
      <3>2. g \in Nat /\ n \in Nat /\ k = g + n
        BY <2>2, <2>3, <3>1
      <3>3. k + 1 = g + (n + 1)
        BY <3>2
      <3> QED
        BY <2>1, <2>4, <3>1, <3>3
    <2>7. \A i \in 1..Len(q) : q[i].job = x.job /\ q[i].part = Len(x.got) + i
      BY <2>1, <2>2, <2>3, <2>4, <2>5, <2>6
    <2>8. tx'[s].replied <= 2
      BY <1>3, <2>0
    <2> QED
      BY <1>3, <1>5, <2>2, <2>3, <2>6, <2>7, <2>8 DEF InOrder
  <1>6. ASSUME NEW x \in pending PROVE Stream(x)'
    <2>1. Stream(x) /\ x.sock \in Sockets
      BY ExchangeTyped DEF Boundaries
    <2>2. CASE x.sock = s
      BY <1>3, <1>5, <2>1, <2>2 DEF Stream
    <2>3. CASE x.sock # s
      BY <1>3, <2>1, <2>3, StreamLocal
    <2> QED
      BY <2>2, <2>3
  <1>7. ASSUME NEW i \in 1..Len(idle), NEW r, r = idle[i] PROVE Clean(r)'
    <2>1. Clean(r) /\ r \in Sockets
      BY <1>7, ElementOfSeq DEF Boundaries, TypeOK
    <2>2. CASE r = s
      <3>1. s \in stray'
        BY <1>2, <1>4, <2>1, <2>2 DEF Clean, Surplus
      <3> QED
        BY <1>2, <1>3, <2>1, <2>2, <3>1 DEF Clean
    <2>3. CASE r # s
      BY <1>3, <2>1, <2>3, CleanLocal
    <2> QED
      BY <2>2, <2>3
  <1>8. ASSUME NEW r \in Sockets, ~InUse(r)' PROVE rx'[r] = <<>>
    <2>1. ~InUse(r) /\ r # s
      BY <1>2, <1>8 DEF InUse
    <2> QED
      BY <1>3, <2>1 DEF Boundaries, Same
  <1> QED
    BY <1>2, <1>6, <1>7, <1>8 DEF Boundaries, Clean

\* Every step preserves the boundaries.  The pool gets a socket only when its
\* last part was read, so a request that reuses it finds nothing on it, unless
\* the upstream has sent more than its answer.
LEMMA BoundariesStep ==
  ASSUME TypeOK, TypeOK', Exclusive, Pooled, Boundaries, [Next]_vars
  PROVE  Boundaries'
  <1>l. idle \in Seq(Sockets) /\ Len(idle) \in Nat /\ rx \in [Sockets -> Seq(Parts)]
    BY DEF TypeOK
  <1>1. ASSUME NEW j \in Jobs, StartRefused(j) PROVE Boundaries'
    <2>1. \A i \in 1..Len(idle') : \E k \in 1..Len(idle) : idle'[i] = idle[k]
      BY <1>1, PoolPops DEF StartRefused
    <2> QED
      BY <1>1, <2>1, SocketsClose DEF StartRefused
  <1>2. ASSUME NEW j \in Jobs, StartReused(j) PROVE Boundaries'
    <2>1. /\ idle # <<>> /\ idle' = Front(idle) /\ Begin(j, Last(idle), "Writing", config.read)
      BY <1>2 DEF StartReused
    <2>2. /\ Len(idle) \in 1..Len(idle) /\ Last(idle) \in Sockets
          /\ \A i \in 1..Len(idle') : i \in 1..Len(idle) /\ i # Len(idle) /\ idle'[i] = idle[i]
      BY <2>1, PoolPops
    <2>3. PICK s : s = Last(idle)
      OBVIOUS
    <2>4. s = idle[Len(idle)] /\ s \in Sockets /\ Begin(j, s, "Writing", config.read)
      BY <2>1, <2>2, <2>3 DEF Last
    <2>5. s \notin stray => rx[s] = <<>>
      BY <2>2, <2>4 DEF Boundaries, Clean
    <2>6. \A x \in pending : x.sock # s
      BY <2>2, <2>4 DEF Pooled
    <2>7. \A i \in 1..Len(idle') : idle'[i] # s /\ \E k \in 1..Len(idle) : idle'[i] = idle[k]
      BY <2>2, <2>4 DEF Pooled
    <2>8. ASSUME NEW i \in 1..Len(idle), idle[i] # s
          PROVE  \E k \in 1..Len(idle') : idle[i] = idle'[k]
      <3>1. Len(idle') = Len(idle) - 1
        BY <2>1, PoolPops
      <3>2. i \in 1..Len(idle')
        BY <1>l, <2>4, <2>8, <3>1
      <3> QED
        BY <2>2, <3>2
    <2> QED
      BY <2>4, <2>5, <2>6, <2>7, <2>8, BeginBoundaries
  <1>3. ASSUME NEW j \in Jobs, StartNew(j) PROVE Boundaries'
    <2>1. PICK s \in Sockets : ~InUse(s) /\ Begin(j, s, "Connecting", config.connect)
      BY <1>3 DEF StartNew
    <2>2. idle' = <<>> /\ idle = <<>>
      BY <1>3 DEF StartNew
    <2>3. rx[s] = <<>> /\ \A x \in pending : x.sock # s
      BY <2>1 DEF Boundaries, InUse
    <2>4. 1..Len(idle) = {} /\ 1..Len(idle') = {}
      BY <2>2
    <2> QED
      BY <2>1, <2>3, <2>4, BeginBoundaries
  <1>4. ASSUME NEW x \in pending, NEW n \in 0..2, Flush(x, n) PROVE Boundaries'
    <2>1. PICK p \in Phases, b \in BOOLEAN :
            /\ pending' = (pending \ {x}) \cup {[x EXCEPT !.phase = p, !.timed = b]}
            /\ p = "Reading" <=> n = 2
      BY <1>4, FlushChanges
    <2>2. PICK y : y = [x EXCEPT !.phase = p, !.timed = b]
      OBVIOUS
    <2>3. y.job = x.job /\ y.sock = x.sock /\ y.got = x.got /\ y.phase = p
      <3>1. x \in Exchanges
        BY DEF TypeOK
      <3> QED
        BY <2>2, <3>1 DEF Exchanges
    <2>4. /\ pending' = (pending \ {x}) \cup {y} /\ UNCHANGED <<rx, fin, idle, stray>>
          /\ tx' = [tx EXCEPT ![x.sock].parts = n]
      BY <1>4, <2>1, <2>2 DEF Flush, poolVars
    <2>5. /\ tx'[x.sock].parts = n /\ tx'[x.sock].job = tx[x.sock].job
          /\ tx'[x.sock].replied = tx[x.sock].replied
      BY <2>4, ExchangeTyped DEF TypeOK, Views
    <2>6. \A r \in Sockets : r # x.sock => Same(r)
      BY <2>4 DEF TypeOK, Same
    <2>7. Stream(y)'
      <3>1. Stream(x)
        BY DEF Boundaries
      <3>2. /\ rx'[y.sock] = rx[x.sock] /\ tx'[y.sock] = tx'[x.sock]
            /\ y.sock \in stray' <=> x.sock \in stray
        BY <2>3, <2>4
      <3>3. x.sock \notin stray => InOrder(y)'
        BY <2>3, <2>5, <3>1, <3>2 DEF Stream, InOrder
      <3> QED
        BY <2>1, <2>3, <2>5, <3>1, <3>2, <3>3 DEF Stream
    <2>8. /\ \A z \in pending : z # x => Stream(z)'
          /\ \A s : (\E i \in 1..Len(idle) : s = idle[i]) => Clean(s)'
      BY <2>6, Others, OneSocket
    <2>9. \A s \in Sockets : ~InUse(s)' => rx'[s] = <<>>
      <3>1. \A s : InUse(s)' <=> InUse(s)
        BY <2>3, <2>4 DEF InUse
      <3> QED
        BY <2>4, <3>1 DEF Boundaries
    <2> QED
      BY <2>4, <2>7, <2>8, <2>9 DEF Boundaries, Clean
  <1>5. ASSUME NEW x \in pending, SocketError(x) \/ ExchangeTimeout(x) PROVE Boundaries'
    BY <1>5, SocketsClose DEF SocketError, ExchangeTimeout, Fail
  <1>6. ASSUME NEW x \in pending, ReadAvailable(x) PROVE Boundaries'
    <2>1. PICK parts, rest \in Seq(Parts) :
           /\ CloseUnowned([rx EXCEPT ![x.sock] = rest])
           /\ x.sock \notin stray => OrderedFor(x, parts, rest)
           /\ \/ /\ parts # <<>> /\ Complete(x, parts)
                 /\ Head(parts).framing = "keep" => PoolsClean(x, rest)
              \/ Fail(x)
              \/ /\ pending' = (pending \ {x}) \cup {[x EXCEPT !.got = parts]}
                 /\ UNCHANGED <<idle, fate, answer>>
      BY <1>6, ReadCases
    <2>2. PICK received : received = [rx EXCEPT ![x.sock] = rest]
      OBVIOUS
    <2>3. /\ received \in [Sockets -> Seq(Parts)] /\ received[x.sock] = rest
          /\ \A s \in Sockets : s # x.sock => received[s] = rx[s]
      BY <1>l, <2>2, ExchangeTyped
    <2>4. /\ \A s \in Sockets : s # x.sock /\ InUse(s)' => Same(s)
          /\ \A s \in Sockets : ~InUse(s)' => rx'[s] = <<>>
          /\ InUse(x.sock)' => /\ tx'[x.sock] = tx[x.sock] /\ rx'[x.sock] = rest
                               /\ (fin[x.sock] => fin'[x.sock]) /\ (x.sock \in stray <=> x.sock \in stray')
      BY <2>1, <2>2, <2>3, ExchangeTyped, Closed DEF Same
    <2>5. ASSUME \A y \in pending : y # x => y \in pending',
                 \A i \in 1..Len(idle) : \E k \in 1..Len(idle') : idle[i] = idle'[k]
          PROVE  /\ \A z \in pending : z # x => Stream(z)'
                 /\ \A s : (\E i \in 1..Len(idle) : s = idle[i]) => Clean(s)'
      <3>1. \A y \in pending : y # x => Same(y.sock)
        BY <2>4, <2>5, Others, InUseNext
      <3>2. \A i \in 1..Len(idle) : Same(idle[i])
        BY <2>4, <2>5, Others, InUseNext
      <3> QED
        BY <3>1, <3>2, OneSocket
    <2>6. ASSUME pending' = pending \ {x}, idle' = idle PROVE Boundaries'
      BY <2>4, <2>5, <2>6 DEF Boundaries, Clean
    <2>7. CASE /\ Complete(x, parts)
               /\ Head(parts).framing = "keep" => PoolsClean(x, rest)
      <3>1. CASE idle' = idle
        BY <2>6, <2>7, <3>1 DEF Complete
      <3>2. CASE Head(parts).framing = "keep" /\ idle' = Append(idle, x.sock)
        <4>1. PICK s : s = x.sock
          OBVIOUS
        <4>2. /\ Len(idle') = Len(idle) + 1 /\ idle'[Len(idle) + 1] = s
              /\ \A i \in 1..Len(idle) : idle'[i] = idle[i]
          BY <1>l, <3>2, <4>1, ExchangeTyped, AppendProperties
        <4>3. /\ \A i \in 1..Len(idle') : i \in 1..Len(idle) \/ i = Len(idle) + 1
              /\ \A i \in 1..Len(idle) : i \in 1..Len(idle')
              /\ Len(idle) + 1 \in 1..Len(idle')
          BY <1>l, <4>2
        <4>4. InUse(s)'
          BY <4>2, <4>3, InUseNext
        <4>5. Clean(s)'
          BY <2>4, <2>7, <3>2, <4>1, <4>4 DEF Clean, PoolsClean
        <4>6. pending' = pending \ {x}
          BY <2>7 DEF Complete
        <4>7. /\ \A z \in pending : z # x => Stream(z)'
              /\ \A r : (\E i \in 1..Len(idle) : r = idle[i]) => Clean(r)'
          BY <2>5, <4>2, <4>3, <4>6
        <4>8. ASSUME NEW i \in 1..Len(idle'), NEW r, r = idle'[i] PROVE Clean(r)'
          BY <4>2, <4>3, <4>5, <4>7, <4>8
        <4> QED
          BY <2>4, <4>6, <4>7, <4>8 DEF Boundaries, Clean
      <3> QED
        BY <2>7, <3>1, <3>2 DEF Complete, Release
    <2>8. CASE Fail(x)
      BY <2>6, <2>8 DEF Fail
    <2>9. CASE /\ pending' = (pending \ {x}) \cup {[x EXCEPT !.got = parts]}
               /\ UNCHANGED <<idle, fate, answer>>
      <3>1. PICK y : y = [x EXCEPT !.got = parts]
        OBVIOUS
      <3>2. y.job = x.job /\ y.sock = x.sock /\ y.got = parts /\ y.phase = x.phase
        BY <3>1, ExchangeChanged
      <3>3. InUse(x.sock)'
        BY <2>9, <3>1, <3>2, InUseNext
      <3>4. Stream(y)'
        <4>1. Stream(x)
          BY DEF Boundaries
        <4>2. x.sock \notin stray => InOrder(y)'
          <5>1. PICK t, g, q : t = tx[x.sock].replied /\ g = parts /\ q = rest
            OBVIOUS
          <5>2. /\ tx'[y.sock].replied = t /\ y.got = g /\ rx'[y.sock] = q /\ y.job = x.job
            BY <2>4, <3>2, <3>3, <5>1
          <5> SUFFICES ASSUME x.sock \notin stray PROVE InOrder(y)'
            OBVIOUS
          <5>3. t <= 2
            BY <4>1, <5>1 DEF Stream, InOrder
          <5>4. /\ t = Len(g) + Len(q)
                /\ \A i \in 1..Len(g) : g[i].job = x.job /\ g[i].part = i
                /\ \A i \in 1..Len(q) : q[i].job = x.job /\ q[i].part = Len(g) + i
            BY <2>1, <5>1 DEF OrderedFor
          <5> QED
            BY <5>2, <5>3, <5>4 DEF InOrder
        <4> QED
          BY <2>4, <3>2, <3>3, <4>1, <4>2 DEF Stream
      <3> QED
        BY <2>4, <2>5, <2>9, <3>1, <3>4 DEF Boundaries, Clean
    <2> QED
      BY <2>1, <2>7, <2>8, <2>9
  <1>7. ASSUME NEW n \in 1..MaxSocket, SweepIdle(n) PROVE Boundaries'
    <2>1. n \in 0..Len(idle) /\ Len(idle) \in 0..Len(idle) /\ idle' = SubSeq(idle, n + 1, Len(idle))
      BY <1>7, <1>l DEF SweepIdle
    <2>2. \A i \in 1..Len(idle') : \E k \in 1..Len(idle) : idle'[i] = idle[k]
      BY <1>l, <2>1, IdleShrinks
    <2> QED
      BY <1>7, <2>2, SocketsClose DEF SweepIdle
  <1>8. CASE Shutdown
    <2>1. pending' \subseteq pending /\ 1..Len(idle') = {} /\ CloseUnowned(rx)
      BY <1>8 DEF Shutdown
    <2> QED
      BY <2>1, SocketsClose
  <1>9. CASE Reload \/ UNCHANGED vars
    BY <1>9, SocketsKept DEF Reload, vars, poolVars, sockVars
  <1>10. ASSUME NEW c \in Conns, Accept(c) \/ RemoveConnection(c) PROVE Boundaries'
    BY <1>10, SocketsKept DEF Accept, RemoveConnection, poolVars, sockVars
  <1>11. ASSUME NEW s \in Sockets, UpstreamCloses(s) PROVE Boundaries'
    BY <1>11, SocketsKept DEF UpstreamCloses, poolVars, TypeOK
  <1>12. ASSUME NEW s \in Sockets, NEW f \in Framings, UpstreamReplies(s, f) PROVE Boundaries'
    BY <1>12, RepliesBoundaries
  <1> QED
    BY <1>1, <1>2, <1>3, <1>4, <1>5, <1>6, <1>7, <1>8, <1>9, <1>10, <1>11, <1>12 DEF Next, Stopped

-----------------------------------------------------------------------------
(* Answers *)

LEMMA SettleRight ==
  ASSUME TypeOK, RightAnswer, NEW j \in Jobs, NEW a, Settle(j, a), a.from \in {j, NoJob} \/ a.stray
  PROVE  RightAnswer'
  BY DEF RightAnswer, Settle, TypeOK

\* Only a request's own exchange settles it, with parts that all are its own
\* unless the upstream has sent more than its answers.
LEMMA AnswerStep ==
  ASSUME TypeOK, Boundaries, RightAnswer, [Next]_vars
  PROVE  RightAnswer'
  <1>0. NoAnswer.from = NoJob
    BY DEF NoAnswer
  <1>1. ASSUME NEW j \in Jobs, StartRefused(j) PROVE RightAnswer'
    BY <1>0, <1>1, SettleRight DEF StartRefused
  <1>2. ASSUME NEW x \in pending, Fail(x) PROVE RightAnswer'
    BY <1>0, <1>2, SettleRight, ExchangeTyped DEF Fail
  <1>3. ASSUME NEW x \in pending, ReadAvailable(x) PROVE RightAnswer'
    <2>1. PICK parts, rest \in Seq(Parts) :
            /\ x.sock \notin stray => OrderedFor(x, parts, rest)
            /\ \/ parts # <<>> /\ Complete(x, parts)
               \/ Fail(x)
               \/ UNCHANGED answer
      BY <1>3, ReadCases
    <2>2. ASSUME parts # <<>>, Complete(x, parts) PROVE RightAnswer'
      <3>1. PICK a : a = [from |-> Head(parts).job, stray |-> x.sock \in stray]
        OBVIOUS
      <3>2. a.from = Head(parts).job /\ a.stray = (x.sock \in stray) /\ Settle(x.job, a)
        BY <2>2, <3>1 DEF Complete
      <3>3. x.sock \notin stray => Head(parts).job = x.job
        <4>1. 1 \in 1..Len(parts) /\ Head(parts) = parts[1]
          BY <2>2, EmptySeq, LenProperties
        <4> QED
          BY <2>1, <4>1 DEF OrderedFor
      <3> QED
        BY <3>2, <3>3, ExchangeTyped, SettleRight
    <2> QED
      BY <1>2, <2>1, <2>2 DEF RightAnswer
  <1>4. ASSUME UNCHANGED answer PROVE RightAnswer'
    BY <1>4 DEF RightAnswer
  <1>5. ASSUME NEW j \in Jobs, StartReused(j) \/ StartNew(j) PROVE UNCHANGED answer
    BY <1>5 DEF StartReused, StartNew, Begin
  <1>6. ASSUME NEW x \in pending, NEW n \in 0..2, Flush(x, n) PROVE UNCHANGED answer
    BY <1>6 DEF Flush
  <1>7. ASSUME NEW n \in 1..MaxSocket, SweepIdle(n) PROVE UNCHANGED answer
    BY <1>7 DEF SweepIdle
  <1>8. CASE Reload \/ Shutdown \/ UNCHANGED vars
    BY <1>4, <1>8 DEF Reload, Shutdown, vars
  <1>9. ASSUME NEW c \in Conns, Accept(c) \/ RemoveConnection(c) PROVE UNCHANGED answer
    BY <1>9 DEF Accept, RemoveConnection
  <1>10. ASSUME NEW s \in Sockets, UpstreamCloses(s) \/ \E f \in Framings : UpstreamReplies(s, f)
         PROVE  UNCHANGED answer
    BY <1>10 DEF UpstreamCloses, UpstreamReplies
  <1> QED
    BY <1>1, <1>2, <1>3, <1>4, <1>5, <1>6, <1>7, <1>8, <1>9, <1>10
      DEF Next, Stopped, SocketError, ExchangeTimeout

-----------------------------------------------------------------------------
(* The theorems *)

LEMMA ExchangeInit == Init => ExchangeInv
  <1> SUFFICES ASSUME Init PROVE ExchangeInv
    OBVIOUS
  <1>1. TypeOK
    <2>1. Nothing(NoJob) \in Views /\ NoAnswer \in Answers
      BY NothingTyped, NoAnswerTyped
    <2> QED
      BY <2>1, EmptySeq DEF Init, TypeOK
  <1>2. Exclusive /\ Pooled
    BY DEF Init, Exclusive, Pooled
  <1>3. Boundaries /\ RightAnswer
    BY DEF Init, Boundaries, RightAnswer, NoAnswer
  <1> QED
    BY <1>1, <1>2, <1>3 DEF ExchangeInv

LEMMA ExchangeStep == ExchangeInv /\ [Next]_vars => ExchangeInv'
  BY TypeStep, OwnershipStep, BoundariesStep, AnswerStep DEF ExchangeInv

\* The exchanges, the pool and the sockets, always: one owner per socket, and as
\* long as the upstream sends nothing but its answers, in order and for the
\* request of the exchange.
THEOREM ExchangeCorrect == Spec => []ExchangeInv
  BY ExchangeInit, ExchangeStep, PTL DEF Spec

\* A client gets the answer to its own request, or none, or one that came over a
\* connection on which the upstream had sent more than its answer.
THEOREM AnswerIsRight == Spec => []RightAnswer
  <1>1. ExchangeInv => RightAnswer
    BY DEF ExchangeInv
  <1> QED
    BY <1>1, ExchangeCorrect, PTL

\* An upstream socket has one owner: an exchange, or the pool once.
THEOREM SocketAlwaysOwnedOnce == Spec => []SocketOwnedOnce
  <1>1. ExchangeInv => SocketOwnedOnce
    <2> SUFFICES ASSUME TypeOK, Exclusive, Pooled PROVE SocketOwnedOnce
      BY DEF ExchangeInv
    <2> DEFINE n == Len(idle)
    <2>1. idle \in Seq(Sockets) /\ n \in Nat /\ idle \in [1..n -> Sockets]
      BY LenProperties DEF TypeOK
    <2>2. Range(idle) = {idle[i] : i \in 1..n}
      BY <2>1, RangeEquality
    <2>3. \A i, k \in 1..n : idle[i] = idle[k] => i = k
      BY DEF Pooled
    <2>4. \A x \in pending : x.sock \notin Range(idle)
      BY <2>2 DEF Pooled
    <2> HIDE DEF n
    <2>5. idle \in Bijection(1..n, Range(idle))
      <3>1. idle \in [1..n -> Range(idle)] /\ DOMAIN idle = 1..n
        BY <2>1, <2>2
      <3> QED
        BY <2>2, <2>3, <3>1 DEF Bijection, Injection, Surjection, IsInjective
    <2>6. ExistsBijection(1..n, Range(idle))
      BY <2>5 DEF ExistsBijection
    <2>7. Cardinality(Range(idle)) = n
      BY <2>1, <2>6, FS_CountingElements
    <2> QED
      BY <2>4, <2>7 DEF SocketOwnedOnce, Exclusive, n
  <1> QED
    BY <1>1, ExchangeCorrect, PTL

\* Every pooled connection is at a message boundary, or carries what the upstream
\* sent beyond its answer.
THEOREM PooledIsAlwaysClean == Spec => []PooledIsClean
  <1>1. ExchangeInv => PooledIsClean
    <2> SUFFICES ASSUME TypeOK, Boundaries PROVE PooledIsClean
      BY DEF ExchangeInv
    <2>1. idle \in Seq(Sockets)
      BY DEF TypeOK
    <2>2. Range(idle) = {idle[i] : i \in 1..Len(idle)}
      BY <2>1, RangeEquality
    <2> QED
      BY <2>2 DEF PooledIsClean, Boundaries, Clean
  <1> QED
    BY <1>1, ExchangeCorrect, PTL

\* Every step is one of CompletionService, or changes nothing it can see.
LEMMA ExchangeSimulates == ExchangeInv /\ [Next]_vars => [CS!CSNext]_(CS!cvars)
  <1> SUFFICES ASSUME TypeOK, Exclusive, Boundaries, [Next]_vars PROVE [CS!CSNext]_(CS!cvars)
    BY DEF ExchangeInv
  <1>0. ASSUME UNCHANGED <<conn, fate, up>> PROVE [CS!CSNext]_(CS!cvars)
    BY <1>0 DEF CS!cvars
  <1>1. ASSUME NEW j \in Jobs, StartRefused(j) PROVE CS!CSNext
    <2>1. CS!Refuse(j)
      BY <1>1 DEF StartRefused, Settle, MayStart, CS!Refuse
    <2> QED
      BY <2>1 DEF CS!CSNext
  <1>2. ASSUME NEW j \in Jobs, StartReused(j) \/ StartNew(j) PROVE CS!CSNext
    <2>1. CS!Request(j)
      BY <1>2 DEF StartReused, StartNew, Begin, MayStart, CS!Request
    <2> QED
      BY <2>1 DEF CS!CSNext
  <1>3. ASSUME NEW x \in pending, NEW a, Settle(x.job, a), UNCHANGED <<conn, up>> PROVE CS!CSNext
    <2>1. CS!Settle(x.job)
      BY <1>3 DEF Settle, Exclusive, CS!Settle
    <2> QED
      BY <2>1, ExchangeTyped DEF CS!CSNext
  <1>4. ASSUME NEW x \in pending, SocketError(x) \/ ExchangeTimeout(x) PROVE CS!CSNext
    BY <1>3, <1>4 DEF SocketError, ExchangeTimeout, Fail
  <1>5. ASSUME NEW x \in pending, ReadAvailable(x) PROVE [CS!CSNext]_(CS!cvars)
    <2>1. UNCHANGED <<conn, up>>
      BY <1>5 DEF ReadAvailable
    <2>2. PICK parts \in Seq(Parts) : Complete(x, parts) \/ Fail(x) \/ UNCHANGED fate
      BY <1>5, ReadCases
    <2> QED
      BY <1>0, <1>3, <2>1, <2>2 DEF Complete, Fail
  <1>6. CASE Shutdown
    BY <1>6 DEF Shutdown, CS!Stop, CS!CSNext
  <1>7. ASSUME NEW c \in Conns, Accept(c) \/ RemoveConnection(c) PROVE CS!CSNext
    BY <1>7 DEF Accept, RemoveConnection, CS!Open, CS!Close, CS!CSNext
  <1>8. ASSUME NEW x \in pending, NEW n \in 0..2, Flush(x, n) PROVE UNCHANGED <<conn, fate, up>>
    BY <1>8 DEF Flush
  <1>9. ASSUME NEW n \in 1..MaxSocket, SweepIdle(n) PROVE UNCHANGED <<conn, fate, up>>
    BY <1>9 DEF SweepIdle
  <1>10. CASE Reload \/ UNCHANGED vars
    BY <1>0, <1>10 DEF Reload, vars
  <1>11. ASSUME NEW s \in Sockets, UpstreamCloses(s) \/ \E f \in Framings : UpstreamReplies(s, f)
         PROVE  UNCHANGED <<conn, fate, up>>
    BY <1>11 DEF UpstreamCloses, UpstreamReplies
  <1> QED
    BY <1>0, <1>1, <1>2, <1>4, <1>5, <1>6, <1>7, <1>8, <1>9, <1>10, <1>11 DEF Next, Stopped

\* The reverse proxy implements CompletionService: an accepted request is
\* settled at most once, for the client that asked if it is still there, and
\* never after the event loop has gone.
THEOREM ExchangeImplementsService == Spec => ImplementsCompletionService
  <1>1. Init => CS!CSInit
    BY DEF Init, CS!CSInit
  <1> QED
    BY <1>1, ExchangeSimulates, ExchangeCorrect, PTL
      DEF Spec, ImplementsCompletionService, CS!CSSpec
=============================================================================
