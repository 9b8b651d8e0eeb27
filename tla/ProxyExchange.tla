--------------------------- MODULE ProxyExchange ----------------------------
(***************************************************************************)
(* The upstream half of proxied requests: ProxyHandler's exchanges and the *)
(* UpstreamPool of idle connections.  The upstream server is the           *)
(* environment: it answers a request in any framing, may send more than    *)
(* its answer, at once or while the connection is in the pool, and may     *)
(* close its side of a connection at any moment.                           *)
(*                                                                         *)
(* Requests and responses are made of two parts, so that either side can   *)
(* be interrupted in the middle.  A socket is named by its descriptor      *)
(* number, which is used again once the socket is closed.                  *)
(***************************************************************************)
EXTENDS Naturals, Sequences, FiniteSets, SequencesExt

CONSTANTS Conns,        \* client connection ids
          Jobs,         \* client requests below the proxy prefix
          ConnOf,       \* the connection each request came from
          MaxSocket,    \* bound: upstream sockets open at once
          MaxReplies,   \* bound: parts the upstream sends between two requests
          MaxUnread,    \* bound: parts on their way on one socket
          Configs,      \* the configurations that reloads bring, see below
          NoJob         \* no request

\* What a configuration says of the exchanges: proxy_max_idle_connections,
\* proxy_connect_timeout_ms and proxy_read_timeout_ms.
Configurations == [maxIdle : Nat, connect : Nat, read : Nat]

ASSUME ProxyAssumption ==
  /\ ConnOf \in [Jobs -> Conns]
  /\ MaxSocket \in Nat
  /\ MaxReplies \in Nat /\ MaxUnread \in Nat
  /\ Configs \subseteq Configurations /\ Configs # {}
  /\ NoJob \notin Jobs

VARIABLES
  conn,     \* conn[c]: "new", "open" or "closed"
  fate,     \* fate[j]: what became of the request
  answer,   \* answer[j]: the request whose response the outcome of j carried,
            \* and whether the upstream had sent something else before
  pending,  \* pending_: the exchanges, each with its socket, phase and parser
  idle,     \* the pool's bucket; acquire takes the last
  config,   \* the active configuration
  tx,       \* tx[s]: the upstream's view of s: the request, how many parts of it
            \* were written, how many parts were sent since, and how
  rx,       \* rx[s]: response parts on their way to us
  fin,      \* fin[s]: the upstream has closed its side
  stray,    \* the sockets on which the upstream sent what was not its answer
  up        \* the event loop still runs

poolVars == <<idle, config>>
sockVars == <<tx, rx, fin, stray>>
vars == <<conn, fate, answer, pending, poolVars, sockVars, up>>

Sockets == 1..MaxSocket
Phases == {"Connecting", "Writing", "Reading"}

\* keep: delimited and reusable; close: delimited, "Connection: close";
\* eof: delimited by the end of the connection; bad: not a response.
Framings == {"keep", "close", "eof", "bad"}
Parts == [job : Jobs \cup {NoJob}, part : 1..2, framing : Framings]

\* timed: the deadline of the exchange is not time_point::max.
Exchanges == [job : Jobs, sock : Sockets, phase : Phases, timed : BOOLEAN, got : Seq(Parts)]

\* What the upstream has seen of a request, and sent.
Views == [job : Jobs \cup {NoJob}, parts : 0..2, replied : 0..MaxReplies, framing : Framings]

\* What became of a request: whose response it got, and over what connection.
Answers == [from : Jobs \cup {NoJob}, stray : BOOLEAN]
NoAnswer == [from |-> NoJob, stray |-> FALSE]

TypeOK ==
  /\ conn \in [Conns -> {"new", "open", "closed"}]
  /\ fate \in [Jobs -> {"idle", "pending", "applied", "discarded"}]
  /\ answer \in [Jobs -> Answers]
  /\ pending \subseteq Exchanges
  /\ idle \in Seq(Sockets)
  /\ config \in Configs
  /\ tx \in [Sockets -> Views]
  /\ rx \in [Sockets -> Seq(Parts)]
  /\ fin \in [Sockets -> BOOLEAN]
  /\ stray \subseteq Sockets
  /\ up \in BOOLEAN

\* The upstream has seen nothing of request j yet.
Nothing(j) == [job |-> j, parts |-> 0, replied |-> 0, framing |-> "keep"]

Init ==
  /\ conn = [c \in Conns |-> "new"]
  /\ fate = [j \in Jobs |-> "idle"]
  /\ answer = [j \in Jobs |-> NoAnswer]
  /\ pending = {}
  /\ idle = <<>>
  /\ config \in Configs
  /\ tx = [s \in Sockets |-> Nothing(NoJob)]
  /\ rx = [s \in Sockets |-> <<>>]
  /\ fin = [s \in Sockets |-> FALSE]
  /\ stray = {}
  /\ up = TRUE

-----------------------------------------------------------------------------
(* How an exchange ends *)

\* A socket belongs to an exchange or to the pool.
InUse(s) == s \in Range(idle) \/ \E x \in pending : x.sock = s

\* A socket that has lost its owner is closed (UniqueFd), and with it goes what
\* was on it; "received" is what the others have to read.
CloseUnowned(received) ==
  /\ tx' = [s \in Sockets |-> IF InUse(s)' THEN tx[s] ELSE Nothing(NoJob)]
  /\ rx' = [s \in Sockets |-> IF InUse(s)' THEN received[s] ELSE <<>>]
  /\ fin' = [s \in Sockets |-> InUse(s)' /\ fin[s]]
  /\ stray' = {s \in stray : InUse(s)'}

\* on_complete_: the callback of main.cpp looks the client up by id.
Settle(j, a) ==
  /\ fate' = [fate EXCEPT ![j] = IF conn[ConnOf[j]] = "open" THEN "applied" ELSE "discarded"]
  /\ answer' = [answer EXCEPT ![j] = a]

\* UpstreamPool::release, which drops (and so closes) what it may not keep.
Release(s) == idle' = IF Len(idle) < config.maxIdle THEN Append(idle, s) ELSE idle

\* Mutant of Complete: the exchange stays in pending_.
CompleteKeepEntry(x, parts) ==
  /\ pending' = (pending \ {x}) \cup {[x EXCEPT !.got = parts]}
  /\ IF Head(parts).framing = "keep" THEN Release(x.sock) ELSE UNCHANGED idle
  /\ Settle(x.job, [from |-> Head(parts).job, stray |-> x.sock \in stray])

\* ProxyHandler::complete: a keep-alive connection goes to the pool, any
\* other is closed; then the callback.
Complete(x, parts) ==
  /\ pending' = pending \ {x}
  /\ IF Head(parts).framing = "keep" THEN Release(x.sock) ELSE UNCHANGED idle
  /\ Settle(x.job, [from |-> Head(parts).job, stray |-> x.sock \in stray])

\* Mutant of Fail: the connection of a failed exchange is pooled too.
FailPooled(x) ==
  /\ pending' = pending \ {x}
  /\ Release(x.sock)
  /\ Settle(x.job, NoAnswer)

\* ProxyHandler::fail: the connection is closed; then the callback.
Fail(x) ==
  /\ pending' = pending \ {x}
  /\ UNCHANGED idle
  /\ Settle(x.job, NoAnswer)

-----------------------------------------------------------------------------
(* ProxyHandler::start, called from the client's read handler *)

MayStart(j) == up /\ fate[j] = "idle" /\ conn[ConnOf[j]] = "open"

\* Not configured, no socket, or no registration: the callback runs at once,
\* and a connection taken from the pool is closed.
StartRefused(j) ==
  /\ MayStart(j)
  /\ Settle(j, NoAnswer)
  /\ \/ UNCHANGED idle
     \/ idle # <<>> /\ idle' = Front(idle)
  /\ UNCHANGED <<conn, pending, config, up>>
  /\ CloseUnowned(rx)

\* deadline_after: a timeout of zero is no deadline at all.
HasDeadline(timeout) == timeout # 0

\* The exchange of request j on socket s is entered in pending_, with the budget
\* of the active configuration.
Begin(j, s, phase, timeout) ==
  /\ pending' = pending \cup {[job |-> j, sock |-> s, phase |-> phase,
                               timed |-> HasDeadline(timeout), got |-> <<>>]}
  /\ tx' = [tx EXCEPT ![s] = Nothing(j)]
  /\ fate' = [fate EXCEPT ![j] = "pending"]
  /\ UNCHANGED <<conn, answer, config, rx, fin, stray, up>>

\* Mutant of StartReused: the connection stays in the bucket (back without
\* pop_back).
StartReusedShared(j) ==
  /\ MayStart(j)
  /\ idle # <<>>
  /\ Begin(j, Last(idle), "Writing", config.read)
  /\ UNCHANGED idle

\* The pool hands out its most recent connection as it is: connected, and with
\* nothing on it, as far as anybody looked.
StartReused(j) ==
  /\ MayStart(j)
  /\ idle # <<>>
  /\ idle' = Front(idle)
  /\ Begin(j, Last(idle), "Writing", config.read)

\* A new socket, with the lowest free number and with connect in progress.
StartNew(j) ==
  /\ MayStart(j)
  /\ idle = <<>>
  /\ \E s \in Sockets : /\ ~InUse(s) /\ \A r \in 1..(s - 1) : InUse(r)
                       /\ Begin(j, s, "Connecting", config.connect)
  /\ UNCHANGED idle

-----------------------------------------------------------------------------
(* Events of an upstream socket *)

\* The budget of an exchange is renewed when it is connected and when its
\* request is written.
Renewed(x, n) ==
  IF x.phase = "Connecting" \/ n = 2 THEN HasDeadline(config.read) ELSE x.timed

\* on_writable: finish_connect if it is due, then flush_request up to part n.
Flush(x, n) ==
  /\ up
  /\ x.phase \in {"Connecting", "Writing"}
  /\ n >= tx[x.sock].parts
  /\ tx' = [tx EXCEPT ![x.sock].parts = n]
  /\ pending' = (pending \ {x})
                  \cup {[x EXCEPT !.phase = IF n = 2 THEN "Reading" ELSE "Writing",
                                  !.timed = Renewed(x, n)]}
  /\ pending' # pending \/ tx' # tx
  /\ UNCHANGED <<conn, fate, answer, poolVars, rx, fin, stray, up>>

\* connect, send, recv or modify_fd failed, or epoll reported an error.
SocketError(x) ==
  /\ up
  /\ Fail(x)
  /\ UNCHANGED <<conn, config, up>>
  /\ CloseUnowned(rx)

\* What the parser makes of the parts it was fed.  The first decides: it is no
\* status line (the second half of an answer is none either), or it announces
\* a length, which is reached with one more part whatever that is, or it runs
\* to the end of the connection.  Parts beyond a whole response are dropped.
Invalid(parts) == parts # <<>> /\ (Head(parts).framing = "bad" \/ Head(parts).part = 2)
Whole(parts) == /\ Len(parts) >= 2 /\ ~Invalid(parts)
                /\ Head(parts).framing \in {"keep", "close"}
CompleteAtEof(parts) == parts # <<>> /\ ~Invalid(parts) /\ Head(parts).framing = "eof"

\* read_available: n of the parts that arrived are fed to the parser, then the
\* response is whole, or invalid, or the end of the connection was seen, or
\* more must come.  on_readable calls it only while Reading; a hangup calls it
\* in any phase, when everything the upstream sent has arrived.
ReadAvailable(x) ==
  /\ up
  /\ \E n \in 0..Len(rx[x.sock]) :
       LET parts == x.got \o SubSeq(rx[x.sock], 1, n)
           rest == SubSeq(rx[x.sock], n + 1, Len(rx[x.sock]))
           atEof == fin[x.sock] /\ rest = <<>>
       IN /\ IF x.phase = "Reading" THEN n > 0 \/ atEof
             ELSE fin[x.sock] /\ (rest = <<>> \/ Whole(parts) \/ Invalid(parts))
          /\ \/ /\ ~Invalid(parts)
                /\ Whole(parts) \/ (atEof /\ CompleteAtEof(parts))
                /\ Complete(x, parts)
             \/ /\ Invalid(parts) \/ (atEof /\ ~Whole(parts) /\ ~CompleteAtEof(parts))
                /\ Fail(x)
             \/ /\ ~Invalid(parts) /\ ~Whole(parts) /\ ~atEof
                /\ pending' = (pending \ {x}) \cup {[x EXCEPT !.got = parts]}
                /\ UNCHANGED <<idle, fate, answer>>
          /\ CloseUnowned([rx EXCEPT ![x.sock] = rest])
  /\ UNCHANGED <<conn, config, up>>

-----------------------------------------------------------------------------
(* Maintenance *)

\* Mutant of ExchangeTimeout: only the connect phase is swept.
ExchangeTimeoutConnecting(x) ==
  /\ up
  /\ x.timed /\ x.phase = "Connecting"
  /\ Fail(x)
  /\ UNCHANGED <<conn, config, up>>
  /\ CloseUnowned(rx)

\* sweep_timeouts: the exchange has a deadline, and it has passed.
ExchangeTimeout(x) ==
  /\ up
  /\ x.timed
  /\ Fail(x)
  /\ UNCHANGED <<conn, config, up>>
  /\ CloseUnowned(rx)

\* sweep_idle: the connections idle for longest go.
SweepIdle(n) ==
  /\ up
  /\ n <= Len(idle)
  /\ idle' = SubSeq(idle, n + 1, Len(idle))
  /\ UNCHANGED <<conn, fate, answer, pending, config, up>>
  /\ CloseUnowned(rx)

\* A reload brings another configuration, and refresh_runtime_limits.
Reload ==
  /\ up
  /\ config' \in Configs \ {config}
  /\ UNCHANGED <<conn, fate, answer, pending, idle, sockVars, up>>

\* ProxyHandler::shutdown: exchanges are dropped without a callback.
Shutdown ==
  /\ up
  /\ up' = FALSE
  /\ pending' = {}
  /\ idle' = <<>>
  /\ conn' = [c \in Conns |-> IF conn[c] = "open" THEN "closed" ELSE conn[c]]
  /\ UNCHANGED <<fate, answer, config>>
  /\ CloseUnowned(rx)

-----------------------------------------------------------------------------
(* Environment: clients and the upstream server *)

Accept(c) ==
  /\ up /\ conn[c] = "new"
  /\ conn' = [conn EXCEPT ![c] = "open"]
  /\ UNCHANGED <<fate, answer, pending, poolVars, sockVars, up>>

RemoveConnection(c) ==
  /\ up /\ conn[c] = "open"
  /\ conn' = [conn EXCEPT ![c] = "closed"]
  /\ UNCHANGED <<fate, answer, pending, poolVars, sockVars, up>>

\* What the upstream sends next is not the answer to its request.
Surplus(s) == tx[s].replied >= 2

\* The upstream sends the next part of its answer, in one framing, when it has
\* received a part of the request, or after its answer more than it was asked
\* for.  After any other framing than "keep" surplus changes nothing: it is the
\* rest of a body, or the connection is closed without another read.
UpstreamReplies(s, framing) ==
  LET part == 1 + (tx[s].replied % 2)
  IN  /\ InUse(s) /\ ~fin[s]
      /\ tx[s].replied < MaxReplies /\ Len(rx[s]) < MaxUnread
      /\ IF Surplus(s) THEN tx[s].framing = "keep" ELSE tx[s].parts > 0
      /\ part = 2 => framing = tx[s].framing
      /\ tx' = [tx EXCEPT ![s].replied = @ + 1, ![s].framing = framing]
      /\ rx' = [rx EXCEPT ![s] =
           Append(@, [job |-> tx[s].job, part |-> part, framing |-> framing])]
      /\ stray' = IF Surplus(s) THEN stray \cup {s} ELSE stray
      /\ UNCHANGED <<conn, fate, answer, pending, poolVars, fin, up>>

UpstreamCloses(s) ==
  /\ InUse(s) /\ ~fin[s]
  /\ fin' = [fin EXCEPT ![s] = TRUE]
  /\ UNCHANGED <<conn, fate, answer, pending, poolVars, tx, rx, stray, up>>

Stopped == ~up /\ UNCHANGED vars

Next == \/ \E j \in Jobs : StartRefused(j) \/ StartReused(j) \/ StartNew(j)
        \/ \E x \in pending : \/ \E n \in 0..2 : Flush(x, n)
                              \/ SocketError(x) \/ ReadAvailable(x) \/ ExchangeTimeout(x)
        \/ \E n \in 1..MaxSocket : SweepIdle(n)
        \/ Reload \/ Shutdown \/ Stopped
        \/ \E c \in Conns : Accept(c) \/ RemoveConnection(c)
        \/ \E s \in Sockets : UpstreamCloses(s) \/ \E f \in Framings : UpstreamReplies(s, f)

Spec == Init /\ [][Next]_vars

\* The main loop calls sweep_timeouts in every round, which finds the exchanges
\* that have a deadline, and epoll reports an upstream socket as long as there
\* is something to read on it, or its end.
FairSpec == /\ Spec
            /\ WF_vars(\E x \in pending : ExchangeTimeout(x))
            /\ WF_vars(\E x \in pending : ReadAvailable(x))

-----------------------------------------------------------------------------
(* Properties *)

\* Whatever is pooled, reused, timed out or closed half-way, the response that
\* a client gets is the one its own request was answered with, except over a
\* connection on which the upstream has once sent what it was not asked for.
\* There the code has no defence: "trailing bytes would indicate a
\* desynchronised peer" (proxy_response_parser.cpp:628), they are dropped, and
\* the connection is kept for the next request.
RightAnswer == \A j \in Jobs : answer[j].from \in {j, NoJob} \/ answer[j].stray

\* An upstream socket has one owner: an exchange, or the pool once.
SocketOwnedOnce ==
  /\ \A x, y \in pending : x.sock = y.sock => x = y
  /\ \A x \in pending : x.sock \notin Range(idle)
  /\ Cardinality(Range(idle)) = Len(idle)

\* "Pool the connection only when the upstream is at a clean message boundary":
\* its request was written to the last byte, unless the upstream has hung up
\* (then the next request fails on it rather than continue half of another
\* one), and its answer was read to the last byte, unless the upstream has once
\* sent more than its answer, which nobody looks for.
PooledIsClean ==
  \A s \in Range(idle) : /\ tx[s].parts = 2 \/ fin[s]
                         /\ s \notin stray => tx[s].replied = 2 /\ rx[s] = <<>>

CS == INSTANCE CompletionService

\* "Called exactly once per accepted proxy request": the callback settles a
\* request at most once, for the client that asked, and never after shutdown.
ImplementsCompletionService == CS!CSSpec

\* An exchange has all it needs to settle its request: the end of the
\* connection, or a response that ends by itself, or what is no response.
Answered(x) ==
  \/ fin[x.sock]
  \/ /\ x.phase = "Reading"
     /\ LET parts == x.got \o rx[x.sock] IN Whole(parts) \/ Invalid(parts)

\* An accepted request is settled, unless the server stops, when its exchange
\* has a deadline, in whatever phase it stalls, and also without one when the
\* upstream has answered or hung up.  Without a deadline (a timeout of zero,
\* which the code accepts) a stalled upstream does hold its client for ever.
RequestSettled ==
  \A j \in Jobs :
     []<>~(up /\ \E x \in pending : x.job = j /\ (x.timed \/ Answered(x)))
=============================================================================
