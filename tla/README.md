# TLA+ specification of Aevrix

Aevrix is a C++20 HTTP/1.1 server: one event-loop thread over epoll, a pool of
worker threads for file reads, an asynchronous reverse proxy, WebSocket
sessions, TLS and hot configuration reload.  This directory models the parts of
it that keep state, checks them with TLC on small instances and proves every
safety property of the passing runs with TLAPS for every instance.  `PROJECT.json` lists
components, runs, mutants, the map from definitions to source lines, findings,
hazards and theorems.

## The system

| Part | State | Operations | Module |
|---|---|---|---|
| `BoundedQueue`, `WorkerPool` | queue, shutdown flag, threads | push, pop, submit, shutdown | `WorkerPipeline` |
| `WorkerCompletionHandler` | result queue, eventfd counter | enqueue, clear, dequeue | `WorkerPipeline` |
| `EventLoop` | `fd_callbacks_`, epoll set, batch | add, modify, remove, run | `EventLoop` |
| `ConnectionManager` | descriptor -> connection, ids | register, remove, lookup, sweep, keepalive, WebSocket shutdown | `EventLoop`, `WebSocketSession` |
| `Connection` | states, parser, output buffer, deadline, flags | read, write, `set_deadline`, keep-alive | `Deadline`, `HttpExchange`, `WebSocketSession` |
| read / write / accept / handshake callbacks of `main.cpp` | none of their own | dispatch of a request | `HttpExchange`, `RequestHandling` |
| `HttpRequestParser`, `HttpRequest`, `HttpHeaders` | parser state, buffer, request so far | feed, reset | `RequestParser`, `HttpMessage` |
| `HttpResponse` and its serializer, `Router`, admin routes | headers, body, policy; the route table | answer | `HttpMessage`, `RequestHandling` |
| `evaluate_upgrade`, `parse_proxy_target`, `build_upstream_request`, `build_proxy_response` | none | pure functions | `UpgradeHandshake`, `ProxyRequest` |
| `StaticFileServer`, `execute_filesystem_task` | none; the filesystem | serve a file | `StaticFiles` |
| `main`, `TcpListener`, `UniqueFd` | locals, their descriptors, the exit code | start, restart, shut down, unwind | `ServerLifecycle` |
| `ProxyHandler`, `UpstreamPool` | exchanges, idle connections, bound | start, flush, read, complete, fail, sweep, reload, shutdown | `ProxyExchange` |
| `ProxyResponseParser` | parser state, framing flags, body | feed, end of file | `ProxyResponseParser` |
| `WebSocketConnection`, `FrameParser` | session state, fragments, output | feed, close, ping | `WebSocketSession` |
| `SignalHandler`, `ServerConfigStore` | flags, eventfd, active configuration, generation | SIGHUP, reload, publish | `ConfigReload` |

Everything but the worker threads and the signal handler runs on the loop
thread.  What makes the system hard is therefore not shared memory but order:
events of one batch that are older than what earlier callbacks did, results that
arrive for connections which are gone or busy again, partial reads and writes,
deadlines that are suspended and resumed, and signals between any two steps.

How the parts interact:

* the read handler gives a file request to the pool (`submit`) or a proxied one
  to `ProxyHandler::start`, marks the connection worker-active and returns;
* workers push a result and write an eventfd; the proxy runs on upstream events;
  both end in a callback that looks the client up by id and fills its output
  buffer;
* both promise the same thing, stated once in `CompletionService`: a request is
  settled at most once, applied only to a connection that is still open,
  otherwise discarded, and not at all after shutdown;
* the sweep drops connections whose deadline has passed, between two batches;
* a reload replaces the configuration that later events read.

## Modules

* `CompletionService` - abstract specification of an asynchronous request.
* `WorkerPipeline` - queue, workers, completion queue, eventfd, loop thread and
  shutdown.  A condition variable is a set of sleeping threads; `notify_one`
  wakes any of them, and spurious wakeups are actions.  Critical sections are
  single steps; the eventfd write after the section, and the `notify_all` after
  the unlock in `shutdown`, are steps of their own.
* `EventLoop` - who owns a descriptor number.  Sockets have serial numbers,
  numbers are reused as soon as they are closed, and a batch is collected before
  its first callback runs.
* `Deadline` - `set_deadline` and `has_deadline_exceeded`, shared by the next
  two.  Time is abstract: a connection has the name of a budget, and any budget
  may run out.
* `HttpExchange` - one client connection from accept to close on either
  listener.  Requests travel in two pieces and responses in two chunks, so every
  read and write can stop in the middle.
* `WebSocketSession` - an upgraded connection on either listener, frame by frame.
  On TLS a read may leave decrypted frames inside OpenSSL (`silent`), as in
  `HttpExchange`: it is the same `read_nonblocking`.
* `ProxyExchange` - exchanges with the upstream and the pool of idle
  connections.  The upstream server is the environment: it may answer in any
  framing, send more than its answer, at once or once the connection is pooled,
  stall, or close at any time.  Timeouts belong to the configuration and may be
  zero, which is no deadline.  Sockets are named by descriptor number, and a
  closed number is used again.
* `ProxyResponseParser` - the parser of upstream responses, one step per line or
  body byte.
* `ConfigReload` - signals, the reload eventfd, the maintenance round, the admin
  route and the store.  A configuration maps representative keys to small
  values: one key per way a key can behave (restart, hot, pushed, secret,
  captured at startup, read from two places, read by nobody, validated or not).  A file holds integers, and a numeric
  key is converted as `load_from_parser` does it: cast to its width first,
  validated afterwards.
* `HttpMessage` - text, header sets, methods, responses and the serializer.
  Text is a sequence of symbols, one per word, delimiter or numeral, so that
  splitting, trimming and comparing are modelled and spelling is not.
* `RequestParser` - `feed` as a function of the parser and the bytes that come.
* `UpgradeHandshake` - the checks of `evaluate_upgrade`, in their order, and the
  number of bytes a key decodes to.
* `ProxyRequest` - the proxy's target, prefix match, upstream path and request,
  and the response made from what the upstream did.
* `StaticFiles` - a file job, one look at the filesystem per step, while the
  operator deploys and withdraws files.  The filesystem is a tree with links;
  `std::filesystem` is modelled from what the server calls.
* `RequestHandling` - composes these: a connection reads a request in any
  segmentation, dispatches it, waits for the upstream or the job, serializes the
  answer and resets the parser.  `HttpExchange` has the same connection with its
  events, deadlines and partial writes, and requests as opaque values; here one
  request is seen from its bytes to the bytes of its answer.
* `ServerLifecycle` - `main` from its first line to its exit code.  Descriptors
  are numbers that the kernel hands out lowest first; objects are destroyed in
  the reverse order of their construction; a job holds a reference to the
  completion handler, and the signal handler a number.
* `MC*` modules give constants that a `.cfg` cannot express; the other modules
  are run directly.  `*_proofs` modules hold the theorems.

Mutants are operators kept just before the definition they would replace; each
is a plausible slip in that code and breaks the property named in
`PROJECT.json`.

## Runs that pass

| Run | Bounds | What it shows |
|---|---|---|
| `pipeline` | 2 workers, 2 connections, 3 jobs (two on one connection), capacity 1 | no lost wakeup, stranded job or lost result; refinement of `CompletionService`; every job is settled; shutdown ends with the workers joined; submit never throws |
| `loop` | 2 descriptors, 3 sockets, batches of 3, limits 1 and 2 | a connection, its registration and its callback always belong together; while proxied responses serialize, no event reaches a later owner of its number |
| `exchange` | 2 requests of every kind, with and without pipelining, both listeners | to a client that waits: responses whole and in order, every request accounted for and (plain listener) answered; to any client: every open connection has a deadline or a result to come |
| `proxy` | 2 requests of 2 clients, 2 sockets open at once, pool and timeouts present or all zero, 3 parts from the upstream per request (one more than its answer), 2 of them unread | no client gets another's answer, unless the upstream has sent more than its answer on that connection; one owner per socket; a pooled connection is at a message boundary, with the same exception; refinement of `CompletionService`; a request whose exchange has a deadline, or all it needs, is settled |
| `parser` | lengths up to 4, bodies up to 3, 3 header lines | a complete response is whole and without conflicting framing; bodies are bounded; a connection is reused only when the response agrees |
| `websocket` | 3 frames out of 12 kinds, one ping, plain and TLS | nothing after a Close; echoes are whole messages, in order and within the limit; close handshakes end, messages are echoed unless they rest inside OpenSSL |
| `reload` | 2 edits, 2 signals, 1 admin request; eight keys; files with numbers that wrap to zero, are negative, or are no value at all, and a zero that is accepted | no SIGHUP forgotten, no reload unasked, the active configuration is always one that was validated, counted and pushed, and what a reload reports as applied is what the server does, but for four keys; edits made before a SIGHUP are read in the end |
| `request` | 7 configurations (`MCRequestHandling`): requests at the edges of the grammar cut at every point, into any number of segments; upgrades; prefixes with and without stripping; a tree with links out of the root, one of them dangling, and a sibling whose name begins like it; one deployment, also where the dangling link leads; admin requests with and without token | the request that is handled is the one that was sent, however it is cut; the upstream gets what was asked for, with its own framing; only files inside the root are served, with one stated exception, and those always; the client can tell where an answer ends, with two stated exceptions; an admin reload has the token and stays in the configured directory |
| `lifecycle` | with and without TLS, 2 jobs, 2 SIGHUPs, every step that can fail failing or not | the loop runs only with every listener open, non-blocking and watched; a SIGHUP never writes to a descriptor that is not the reload eventfd; every exit joins the workers and closes everything, and unless the loop was left by an exception no worker touches a destroyed object; a requested shutdown ends the process |

In `request` a length is one numeral, since a text is a sequence of symbols:
body limits up to 9 are meaningful (`LimitsAssumption`), and the largest length a
client can announce exceeds the limit of 8 by one.

The bounds are the smallest in which the interesting case exists: two jobs of
one connection and a queue that is full; a number that is closed by one event of
a batch, reused by the next and named by the third; a connection that is pooled,
reused and overtaken by a timeout, or carrying what its upstream sent beyond its
answer; a fragmented message interrupted by a control
frame or followed by a Close; a SIGHUP that arrives while the file of the
previous one is being read; a CRLF, a header and a body cut by a segment; a file
that appears between the check of its path and its opening; a descriptor number
that is free when the signal handler writes to it.

Two properties are conditional on who is on the other side, and say so in the
initial state rather than in a constant: `NoStaleEvent` on an upstream whose
headers always serialize (`mayFail`), and the three properties of sequential
clients in `HttpExchange` on `~pipelines`.

## Runs that find a disagreement

Each checks one sentence of the documentation or of a comment and shows a
behaviour of the code that contradicts it; `findings` in `PROJECT.json` quotes
both.

| Run | What happens |
|---|---|
| `loop_leak` | a client refused at capacity leaves its descriptor open for ever |
| `exchange_tls` | one `SSL_read` per event strands decrypted bytes inside OpenSSL, and the request waits for the next packet |
| `parser_interim` | framing headers of an interim response frame the final one |

More disagreements are kept as the stated exceptions of passing properties.
Without its exception each of these properties is violated:

* the result of a pipelined request replaces a response that is still being
  written (`set_output_buffer`), against docs/ARCHITECTURE.md:130; this is why
  `ResponsesInOrder` speaks of clients that wait;
* four keys are reported as applied by a reload and are not, or not everywhere,
  against the comment at server_config_store.cpp:300: `proxy_strip_prefix` keeps
  its startup value (proxy_handler.cpp:258), `write_timeout_ms` keeps it for
  keepalive pings (connection_manager.cpp:259), and `max_buffer_size` and
  `max_request_body` are read by nobody, as docs/CONFIGURATION.md:60-64 admits;
  `HotIsEffective` excepts them as `NotApplied`.  `get_timeout_reason` reads the
  startup copy too, for the wording of a log line only;
* an upstream that sends more than its answer can give a later client the wrong
  one: the parser drops the bytes it has read past the end of a response and
  leaves the connection reusable (proxy_response_parser.cpp:626-632, whose comment
  calls the peer "desynchronised"; tests/proxy_response_parser_tests.cpp:559-573
  has the case), `complete` pools it (proxy_handler.cpp:555-559), and `acquire`
  does not look whether anything has arrived (upstream_pool.cpp:34-52).
  `RightAnswer` and `PooledIsClean` except the connections in `stray`, on which
  the upstream has sent such bytes;
* a proxy timeout of zero passes validation (server_config.cpp:208-209 and the
  checks after them), against docs/CONFIGURATION.md:51, and means no deadline
  (proxy_handler.cpp:196-199): a stalled upstream then holds its client, which is
  exempt from the sweep, for ever.  `RequestSettled` speaks of exchanges that have
  a deadline, or all they need to settle;
* on the TLS listener the cause of `exchange_tls` also holds up WebSocket frames;
  `MessageEchoed` excepts a session whose bytes rest inside OpenSSL;
* a link below the document root that dangles when `validate_path` looks is taken
  for a name inside the root (static_file_server.cpp:228); if a file appears where
  it leads before the file is opened, it is served, wherever it is, against
  docs/ARCHITECTURE.md:135-137.  `FilesStayInRoot` excepts such a file
  (`AppearedBehindLink`);
* a proxied response with an empty body goes out without `Content-Length` on a
  connection that stays open, so that the client waits for bytes or for a close
  that do not come, against docs/HTTP.md:28; and after HEAD, the text of the
  server's own error answers is sent.  `BodiesDelimited` excepts both.

`CleanExit` has an exception too: when a callback throws, `main` returns at once,
and the completion handler, constructed after the pool, is destroyed before the
workers are joined; a job that is still running then uses it.

Two more contradict a doc, and no property is about them.  An error answer to a
file request announces a close, and a keep-alive connection stays open all the same
(`FileSettles`, `Flush`), where docs/ARCHITECTURE.md:90-92 says that errors close
the connection; `BodiesDelimited` holds, since the answer has its length.  `submit`
blocks the loop thread while the queue is full, where docs/ARCHITECTURE.md:57-65
says that nothing there blocks; `BlockedPushHasWorker` and `JobSettled` say why it
is not a deadlock.

Other behaviours the models have and a reader may not expect: the first of two results ends the exemption from the
sweep of a connection whose second job still runs; a swept connection leaves its
callback in `fd_callbacks_` until its number is reused (`ConnectionIsWatched`
says why that is harmless); a proxied response that does not serialize closes a
client whose own event may still be in the batch; a pipelined request is executed
early or thrown away, depending on where the segment ends; asynchronous responses are
flushed under the header budget; a TLS handshake that ends on a writable event
closes the connection; a connection can be pooled with half a request written,
though only once the upstream has hung up (`PooledIsClean`); the pool is not
trimmed when its bound is lowered; a close handshake that the peer completes waits
for the close timeout; an admin reload from another file redirects later SIGHUPs.

From the request side: the `?path=` of an admin reload is never seen, because the
router matches the whole target, query included, and only a path in the body
names a file; the limit on the request line is applied only while the line
is incomplete; headers that `Connection` names are forwarded unless they are in
the fixed list; a header value with a byte above 0x7f is invalid, since `char` is
signed, and a proxied response with one closes the client; the TLS listener stays
open until `main` returns, although step 1 of the shutdown is to stop accepting;
both listeners are closed and opened again before the loop, and a client that
connected in between is reset; the results of `add_fd` for an accepted client and
for the completion eventfd are ignored; `request_shutdown` logs from a signal
handler, which libc does not allow, so the liveness of every shutdown here holds
for signals that do not interrupt an allocation or a log line.

## Fairness

* `WorkerPipeline`: every runnable thread runs, a file job ends, and `epoll_wait`
  returns within a second.  Spurious wakeups, clients and signals have none.
* `HttpExchange`, `WebSocketSession`: the loop serves what level-triggered epoll
  reports, which on the TLS listener is not what OpenSSL has decrypted already;
  exchanges end (see `JobSettled`, and `RequestSettled` with its exception), and a
  client that is there reads.  No timeout has to fire.
* `ProxyExchange`: the sweep, which every round of the main loop runs, settles
  exchanges that have a deadline, and only those; epoll reports a socket with
  something to read or with its end.  The upstream owes nothing.
* `ConfigReload`: signals are delivered and the loop runs.
* `ServerLifecycle`: `main`, the workers and a signal handler in progress go on,
  and the loop notices the flag, since `epoll_wait` returns within a second.
  Failures, exceptions and signals have no fairness.
* `RequestHandling` has safety properties only.

## Proofs

Eight `_proofs` modules hold the theorems.  Each names an inductive invariant,
proves it preserved action by action, and derives the properties from it, for
every value of the constants.  Every safety and action property of a passing run
is stated by a theorem.  TLC has checked the inductive invariants on the bounds
of their runs, except those of `RequestHandling_proofs`, which quantify over all
texts or all filesystems.

* `WorkerPipeline_proofs`.  `TypeCorrect` first; then `WakeInv`, the inductive
  invariant of the wakeup protocol.  `NoLostWakeup` and `NoStrandedJob` are not
  inductive alone: that a queued job has an awake worker depends on what a
  worker holds when it wakes (`HoldsJob`), on the order of the shutdown's steps
  (`OrderlyExit`) and on the queue being non-empty while push waits.  From it
  follow the four properties, for any workers, jobs and capacity.
  `PipelineImplementsService` is the refinement of `CompletionService`; its
  invariant `JobInv` says that a job anywhere in the pipeline is unsettled and is
  in one place only, without which a drain could settle a job twice.
* `EventLoop_proofs`.  `ConnectionIsWatched` is inductive with the types of the
  four tables.  `NoStaleEvent` looks at the event being dispatched; its
  inductive form `BatchInv` speaks of every event left in the batch (its
  descriptor still has the connection it was reported for, and no other event
  names the number), since that is what lets a callback close a connection
  without harming a later event.
* `HttpExchange_proofs`.  `NoImmortalConnection` follows from what `set_deadline`
  computes: it yields no deadline only for a connection with the exemption.  For
  a client that waits, `InTurn` lists the six places the exchange can be in
  (`Idle`, `Arriving`, `Begun`, `InExchange`, `Answering`, `Upgraded`) with what
  the wire, the decrypted bytes, the parser, the output buffer and the histories
  hold in each; `ResponsesInOrder` and `RequestsAccounted` are read off it.  Its
  `Disarmed` (EPOLLOUT is armed only while there is something to write) is
  essential: a write event with an empty buffer would reset the parser in the
  middle of a request.
* `ProxyExchange_proofs`.  `RightAnswer`, `SocketOwnedOnce` and `PooledIsClean`
  hold only together: an answer is right because the socket's stream belongs to
  the one exchange that owns it (`Exclusive`, `Boundaries`), and it does because
  a socket is at a message boundary when it enters the pool and has no second
  owner (`Pooled`).  All of it is said of sockets whose upstream has sent nothing
  but its answers (`stray` has the others), for any bounds and configurations.  `ExchangeImplementsService` is the second refinement of
  `CompletionService`.
* `ProxyResponseParser_proofs`.  `BodyBounded` needs that a length is checked
  before it is stored and that no body byte precedes the end of the headers.
  `CompleteMeansWhole` and `ReuseIsAgreed` need that the flags the parser goes by
  are exactly what the final header block has said (`FlagsAreFinal`,
  `NothingSaid`), that chunks add up, and that the state fits the framing.  These
  two assume `InterimHeaders = FALSE`, as the run `parser` does; without it they
  are false, which is what the run `parser_interim` shows.
* `WebSocketSession_proofs`.  `SessionInv` relates the frames that have been
  handled (`Done`) to the fragments in hand (`Partial`), to what was said
  (`Said`) and to who has sent a Close (`Handshake`).  A fragment list must be
  known to be gap-free before its last frame turns it into an echo, and the
  order of replies follows from each being newer than all that was handled
  before.
* `EventLoop_proofs`, second part: `ConfigReload`, which shares no state with
  `EventLoop` (its initial predicate, next-state relation and type invariant have
  names of their own, so that one module can hold the proofs of both).
  `NoReloadForgotten` is inductive together with the
  counters; `ReloadsAreRequested` follows from an accounting invariant: a request
  is in at most one of pending signal, flag and reload in progress.
  `ReloadIsAtomic` rests on the same counters and on `TryReload` building its
  candidate on the side; it holds for any files, since the configuration that is
  validated is the one after conversion.  `HotIsEffective` needs that keys which
  require a restart are kept out of the report (`HotIsHot`), and that what was
  pushed is what is active; its four exceptions are not provable.
* `ServerLifecycle_proofs`.  `LifeInv` says who owns each descriptor (`Owned`),
  what has been constructed at each line of `main` (`Existing`), which threads
  and jobs there are (`Working`), which number the signal handler keeps and what
  that number can be (`Notified`) and how far the listeners are (`Listening`).
  `CleanExit` needs the first three: destruction in reverse order closes
  everything only because nothing open lacks an owner that exists.
  `WakeupsReachReload` needs `Notified` and `Owned`: between the close of the
  reload eventfd and the end of the process the number may only be reused by the
  file a worker reads, to which a write fails.  That the kernel always has a number to give is a
  pigeonhole lemma (`LowestIsFree`).

* `RequestHandling_proofs`.  Text is a sequence over any alphabet, of any length,
  and a feed may cut it anywhere.

  What splitting, flattening, trimming, the parser's turns and the walk along a
  path compute is proved by induction over sequences.  The library's induction
  theorems take a predicate as a parameter, which no prover here can instantiate;
  `NatSetInduction` and `SeqSetInduction` say the same of sets (a set of sequences
  that holds the empty one and every extension of a member holds them all) and
  follow from the well-foundedness of numbers.  For this the operators on text are
  recursive functions over positions, and each has a lemma that its recursion
  defines a function (`SplitParts`, `TurnsFollow`, `WalkParts`, `NormalParts`) and
  one that says what one more symbol does (`SplitStep`, `WalkStep`, `NormalStep`).

  `ParsesAsSent` rests on `Reads(p, w, m)`: what parser `p` has in its buffer,
  followed by what is still on the wire `w`, is the rest of message `m` from where
  the parser's state says it is, and what it has stored is what went before.  One
  turn of the loop in `feed` keeps it.  A feed makes as many turns as it needs:
  with the whole message in the buffer every turn takes two symbols at least, so
  that after turn i twice i and what is left are no more than the buffer's first
  length (`Advances`).

  `ForwardedAsAsked` compares the code's search for the prefix in the text with a
  comparison of components (`MatchesBelow`, `PathSent`): a target matches when its
  components continue those of the prefix, and stripping gives the components
  below.  A prefix that ends in a slash takes one slash more when two follow each
  other; `BelowPrefix` says so.

  `BodiesDelimited` follows every answer through the serializer, with `JobSettles`
  (a file that is served has bytes) and `AnswersInTurn`.  `AdminReloadGuarded`
  needs that a path that begins with a directory and holds no ".." is inside it
  component by component (`AllowedIsInside`).

  `FilesStayInRoot` is about a race: `validate_path` canonicalizes a path, and the
  file is opened four questions later.  What survives between them is `Confined`:
  in every filesystem that differs from the first in deployed files only
  (`SameTree`), a file the path leads to is below the directory the root leads to,
  or, if the path led nowhere at the check, behind a link below that directory
  (`BehindLink`).  It holds when `validate_path` accepts, because the directories and links along a
  path stay (`WayStays`), so that only the last component can come or go, and a
  missing last component is canonicalized as the name it will have, or as the link's
  own name when it is a link that dangles (`CanonicalMissing`).  The second half, that a target which names a file gets it,
  holds because a path without ".." leads where it leads without its dots
  (`NormalWalk`, `WalkDown`).

Assumptions are the named `ASSUME`s of the specifications, and
`InterimHeaders = FALSE` in the two theorems that say so.  Most only say that
sizes are natural numbers and that sets are what they are called.  These say more:

* `HandlingAssumption`: a client that sends a body announces it, with a method that
  has one, and no line of a message holds a CR or is empty.  The server leaves any
  other body on the wire, where it is the next request; that request is then what
  the property is about.
* `TextAssumption`: messages and configuration values are text.
* `PrefixAssumption`: `proxy_prefix` is absolute, as configuration validation
  demands.
* `OutcomesAssumption`: an upstream's answer is one `ProxyResponseParser` accepts:
  never a 101, and with no body where the status has none.
* `FilesAssumption`: the filesystem is a tree of named entries.
* `DeployAssumption`: deployments put regular files into directories that exist
  and replace regular files only.  Links may lead to the files that come and go.

The second half of `FilesStayInRoot` is about a document root whose path has no
"..": `resolve_path` removes a ".." with the component before it, which is
another directory when that component is a link.

Only model-checked: liveness under fairness, everywhere, since the prover has no
rules for it (`JobSettled`, `ShutdownCompletes`, `RequestAnswered`,
`RequestSettled`, `CloseAnswered`, `MessageEchoed`, `HupHonoured`, `StopEnds`); and
the type invariants of modules whose inductive invariant does not contain them
(`HttpExchange`, `ConfigReload`, `ProxyResponseParser`): the proofs use the part
of them that they need.

## Not modelled

* The HTTP cache helpers, metrics and observability: nothing in the server calls
  them.
* The logger: output only, but for its level, which `ConfigReload` has as a
  pushed value.
* OpenSSL, certificates, SHA-1, base64 alphabets, UTF-8 tables and MIME types:
  external or tables, abstracted to their verdicts.
* The `select` loop and the blocking loop for other systems; the checks are about
  the Linux build.
* Time: which budget applies is modelled, how long it lasts is not.
* In `StaticFiles` links do not change during a request; only regular files come
  and go.
* In `ProxyExchange`: an upstream that speaks on a fresh connection before any of
  the request was written, and what a stray upstream sends beyond the bounds
  `MaxReplies` and `MaxUnread`.  A closed socket has no event left, so the
  generation check of `on_upstream_event` is never needed there.
* In `RequestHandling` a client sends its next request after the answer, and a
  `Content-Length` with a sign or a suffix is parsed as `stoul` does (`Stoul`) but
  is outside `ParsesAsSent`, which is about well-formed messages; the stripping of
  hop-by-hop fields is checked towards the upstream.

## Plan

1. Done: the pipeline, descriptor ownership, exchanges on both listeners, proxy
   and its parser, WebSocket sessions, reload with its conversions, requests from
   their bytes to their answers, startup and shutdown.
2. Done: every safety and action property of the passing runs, and both
   refinements of `CompletionService`, proved.
3. Open: the behaviours under "Not modelled"; links that change during a request;
   a proof of the liveness properties, for which the prover has no rules.
