--------------------------- MODULE ServerLifecycle --------------------------
(***************************************************************************)
(* main(), from its first line to its exit code: what it builds, in which  *)
(* order, which step may fail, and what is destroyed on every way out.     *)
(* Worker threads run jobs meanwhile, and SIGHUP and SIGTERM arrive at any *)
(* point.                                                                  *)
(*                                                                         *)
(* A descriptor is a number, and the kernel gives the lowest free one, so  *)
(* a number that is kept too long comes to mean something else.  Clients   *)
(* and upstreams have their sockets in EventLoop and ProxyExchange.        *)
(***************************************************************************)
EXTENDS Naturals, FiniteSets, Sequences, SequencesExt, FiniteSetsExt

CONSTANTS Tls,       \* the choices for tls_enabled
          MaxJobs,   \* bound: jobs submitted
          MaxHups    \* bound: SIGHUPs

ASSUME LifecycleAssumption == Tls \subseteq BOOLEAN /\ MaxJobs \in Nat /\ MaxHups \in Nat

\* What main constructs; locals are destroyed in the reverse order.
Order == <<"http", "pool", "completion", "tls", "epoll", "reload">>
Objects == Range(Order)
Numbers == 1..Cardinality(Objects)
None == 0

VARIABLES
  pc,        \* where main is
  tls,       \* tls_enabled
  alive,     \* the objects that are constructed
  open,      \* number -> who opened it, or "free"
  held,      \* object -> the descriptor it owns, or None
  blocking,  \* listeners whose socket is blocking
  watch,     \* number -> the callback epoll has for it, or "none"
  notify,    \* SignalHandler::reload_notify_fd_
  hup,       \* the descriptor a SIGHUP handler has loaded and not written, or None
  hups,      \* SIGHUPs so far
  stray,     \* whom a wake-up was written to, other than the reload eventfd
  stop,      \* shutdown_requested_
  pool,      \* the worker pool: "none", "running", "shutdown" or "joined"
  jobs,      \* jobs waiting
  submitted, \* jobs submitted
  worker,    \* a worker thread: "idle", "opens", "reads" or "delivers"
  dangling,  \* whether a result was put into a destroyed completion handler
  code       \* what main will return

mainVars == <<pc, tls, alive, blocking, watch, code>>
fdVars == <<open, held>>
signalVars == <<notify, hup, hups, stray, stop>>
poolVars == <<pool, jobs, submitted, worker, dangling>>
vars == <<mainVars, fdVars, signalVars, poolVars>>

Listeners == {"http"} \cup (IF tls THEN {"tls"} ELSE {})

Init ==
  /\ pc = "config" /\ tls \in Tls /\ alive = {} /\ code = 2
  /\ open = [n \in Numbers |-> "free"] /\ held = [o \in Objects |-> None]
  /\ blocking = {} /\ watch = [n \in Numbers |-> "none"]
  /\ notify = None /\ hup = None /\ hups = 0 /\ stray = {} /\ stop = FALSE
  /\ pool = "none" /\ jobs = 0 /\ submitted = 0 /\ worker = "idle" /\ dangling = FALSE

-----------------------------------------------------------------------------
(* Descriptors and UniqueFd *)

Lowest(fds) == Min({n \in Numbers : fds[n] = "free"})
Opened(o, fds) == [fds EXCEPT ![Lowest(fds)] = o]
Closed(n, fds) == IF n = None THEN fds ELSE [fds EXCEPT ![n] = "free"]

\* The kernel forgets a closed descriptor.
Unwatched(n) == IF n = None THEN watch ELSE [watch EXCEPT ![n] = "none"]

\* o opens a descriptor and owns it; and o closes what it owns.
Acquire(o) == open' = Opened(o, open) /\ held' = [held EXCEPT ![o] = Lowest(open)]
Reset(o) ==
  /\ open' = Closed(held[o], open)
  /\ held' = [held EXCEPT ![o] = None]
  /\ watch' = Unwatched(held[o])

-----------------------------------------------------------------------------
(* main: the way in *)

\* A handler that interrupted the only thread there is holds main up.
MainAt(p) == pc = p /\ (hup # None => pool \in {"running", "shutdown"})
Construct(o) == alive' = alive \cup {o}

\* return 1, or an exception on its way to the catch.
GiveUp(p) ==
  /\ MainAt(p)
  /\ pc' = "unwind" /\ code' = 1
  /\ UNCHANGED <<tls, alive, blocking, watch, fdVars, signalVars, poolVars>>

\* Arguments, file and log level; the store has no descriptor.
Configure ==
  /\ MainAt("config")
  /\ pc' = "listen"
  /\ UNCHANGED <<tls, alive, blocking, watch, code, fdVars, signalVars, poolVars>>

\* TcpListener::start, as the constructor calls it: the socket is blocking.
\* A start that fails closes what it opened, so it is GiveUp.
Listen(p, o, next) ==
  /\ MainAt(p)
  /\ Construct(o) /\ Acquire(o) /\ blocking' = blocking \cup {o}
  /\ pc' = next
  /\ UNCHANGED <<tls, watch, code, signalVars, poolVars>>

StartPool ==
  /\ MainAt("pool")
  /\ Construct("pool") /\ pool' = "running"
  /\ pc' = "completion"
  /\ UNCHANGED <<tls, blocking, watch, code, fdVars, signalVars, jobs, submitted, worker, dangling>>

\* A thread that cannot be created, after one that could: the vector of
\* joinable threads is destroyed, and std::terminate is called.
PoolTerminates ==
  /\ MainAt("pool")
  /\ pc' = "aborted"
  /\ UNCHANGED <<tls, alive, blocking, watch, code, fdVars, signalVars, poolVars>>

\* WorkerCompletionHandler: without an eventfd it stays silent.
StartCompletion(works) ==
  /\ MainAt("completion")
  /\ Construct("completion")
  /\ IF works THEN Acquire("completion") ELSE UNCHANGED fdVars
  /\ pc' = IF tls THEN "tls" ELSE "epoll"
  /\ UNCHANGED <<tls, blocking, watch, code, signalVars, poolVars>>

StartEpoll ==
  /\ MainAt("epoll")
  /\ Construct("epoll") /\ Acquire("epoll")
  /\ pc' = "stopHttp"
  /\ UNCHANGED <<tls, blocking, watch, code, signalVars, poolVars>>

\* The listener is stopped, and then started again for the event loop.
StopListener(p, o, next) ==
  /\ MainAt(p)
  /\ Reset(o)
  /\ pc' = next
  /\ UNCHANGED <<tls, alive, blocking, code, signalVars, poolVars>>

\* Mutant of Restart: the second start keeps the default mode.
RestartBlocking(p, o, next) ==
  /\ MainAt(p)
  /\ Acquire(o)
  /\ pc' = next
  /\ UNCHANGED <<tls, alive, blocking, watch, code, signalVars, poolVars>>

Restart(p, o, next) ==
  /\ MainAt(p)
  /\ Acquire(o) /\ blocking' = blocking \ {o}
  /\ pc' = next
  /\ UNCHANGED <<tls, alive, watch, code, signalVars, poolVars>>

\* The result of this add_fd is not looked at.
WatchCompletion(works) ==
  /\ MainAt("watchCompletion")
  /\ watch' = IF works /\ held["completion"] # None
              THEN [watch EXCEPT ![held["completion"]] = "completion"] ELSE watch
  /\ pc' = "reload"
  /\ UNCHANGED <<tls, alive, blocking, code, fdVars, signalVars, poolVars>>

StartReload(works) ==
  /\ MainAt("reload")
  /\ Construct("reload")
  /\ IF works THEN Acquire("reload") ELSE UNCHANGED fdVars
  /\ pc' = IF works THEN "notify" ELSE "watchHttp"
  /\ UNCHANGED <<tls, blocking, watch, code, signalVars, poolVars>>

SetNotify ==
  /\ MainAt("notify")
  /\ notify' = held["reload"]
  /\ pc' = "watchReload"
  /\ UNCHANGED <<tls, alive, blocking, watch, code, fdVars, hup, hups, stray, stop, poolVars>>

\* Mutant of WatchReload: an eventfd that cannot be watched is closed.
WatchReloadCloses(works) ==
  /\ MainAt("watchReload")
  /\ IF works
     THEN watch' = [watch EXCEPT ![held["reload"]] = "reload"] /\ UNCHANGED fdVars
     ELSE Reset("reload")
  /\ pc' = "watchHttp"
  /\ UNCHANGED <<tls, alive, blocking, code, signalVars, poolVars>>

\* Without epoll the handler is told not to write, and the maintenance round
\* polls the flag.
WatchReload(works) ==
  /\ MainAt("watchReload")
  /\ watch' = IF works THEN [watch EXCEPT ![held["reload"]] = "reload"] ELSE watch
  /\ notify' = IF works THEN notify ELSE None
  /\ pc' = "watchHttp"
  /\ UNCHANGED <<tls, alive, blocking, code, fdVars, hup, hups, stray, stop, poolVars>>

WatchListener(p, o, next) ==
  /\ MainAt(p)
  /\ watch' = [watch EXCEPT ![held[o]] = o]
  /\ pc' = next
  /\ UNCHANGED <<tls, alive, blocking, code, fdVars, signalVars, poolVars>>

Startup ==
  \/ Configure
  \/ Listen("listen", "http", "pool")
  \/ StartPool
  \/ PoolTerminates
  \/ \E works \in BOOLEAN : StartCompletion(works)
  \/ Listen("tls", "tls", "epoll")
  \/ StartEpoll
  \/ StopListener("stopHttp", "http", "startHttp")
  \/ Restart("startHttp", "http", "watchCompletion")
  \/ \E works \in BOOLEAN : WatchCompletion(works)
  \/ \E works \in BOOLEAN : StartReload(works)
  \/ SetNotify
  \/ \E works \in BOOLEAN : WatchReload(works)
  \/ WatchListener("watchHttp", "http", IF tls THEN "stopTls" ELSE "loop")
  \/ StopListener("stopTls", "tls", "startTls")
  \/ Restart("startTls", "tls", "watchTls")
  \/ WatchListener("watchTls", "tls", "loop")
  \/ \E p \in {"config", "listen", "pool", "tls", "epoll", "startHttp", "watchHttp",
               "startTls", "watchTls"} : GiveUp(p)

-----------------------------------------------------------------------------
(* main: the loop and the ways out *)

\* A file request goes to the pool, until the flag is read.
Submit ==
  /\ MainAt("loop")
  /\ submitted < MaxJobs
  /\ submitted' = submitted + 1 /\ jobs' = jobs + 1
  /\ UNCHANGED <<mainVars, fdVars, signalVars, pool, worker, dangling>>

\* Mutant of LeaveLoop: a shutdown is noticed only through the reload eventfd.
LeaveLoopByEventfd ==
  /\ MainAt("loop") /\ notify # None
  /\ pc' = "scope" /\ code' = 0
  /\ UNCHANGED <<tls, alive, blocking, watch, fdVars, signalVars, poolVars>>

\* The flag is seen, or epoll_wait fails.
LeaveLoop ==
  /\ MainAt("loop")
  /\ pc' = "scope" /\ code' = 0
  /\ UNCHANGED <<tls, alive, blocking, watch, fdVars, signalVars, poolVars>>

\* A callback or the maintenance round throws.
LoopThrows == GiveUp("loop")

Destroy(o) == alive' = alive \ {o} /\ Reset(o)

\* The end of the block that holds the loop: the reload eventfd, then epoll.
EndScope ==
  /\ MainAt("scope")
  /\ IF alive \cap {"reload", "epoll"} = {}
     THEN pc' = "stopListening" /\ UNCHANGED <<alive, watch, fdVars>>
     ELSE /\ Destroy(IF "reload" \in alive THEN "reload" ELSE "epoll")
          /\ pc' = pc
  /\ UNCHANGED <<tls, blocking, code, signalVars, poolVars>>

StopListening == StopListener("stopListening", "http", "shutdownPool")

\* WorkerPool::shutdown: the queue is shut, and the workers are joined.
ShutdownQueue ==
  /\ pool = "running"
  /\ pool' = "shutdown"
  /\ UNCHANGED <<mainVars, fdVars, signalVars, jobs, submitted, worker, dangling>>

Join(next) ==
  /\ pool = "joined"
  /\ pc' = next
  /\ UNCHANGED <<tls, alive, blocking, watch, code, fdVars, signalVars, poolVars>>

\* Mutant of ShutdownPool: it is left to the destructor.
ShutdownPoolLater ==
  /\ MainAt("shutdownPool")
  /\ pc' = "unwind"
  /\ UNCHANGED <<tls, alive, blocking, watch, code, fdVars, signalVars, poolVars>>

ShutdownPool == MainAt("shutdownPool") /\ (ShutdownQueue \/ Join("unwind"))

\* main returns: what is left is destroyed, the latest first.
Unwind ==
  /\ MainAt("unwind")
  /\ LET last == Order[Max({i \in DOMAIN Order : Order[i] \in alive})]
     IN IF alive = {}
        THEN /\ pc' = "exited"
             /\ UNCHANGED <<tls, alive, blocking, watch, code, fdVars, signalVars, poolVars>>
        ELSE IF last = "pool" /\ pool = "running" THEN ShutdownQueue
        ELSE /\ last = "pool" => pool = "joined"
             /\ Destroy(last)
             /\ UNCHANGED <<pc, tls, blocking, code, signalVars, poolVars>>

Shutdown == LeaveLoop \/ LoopThrows \/ EndScope \/ StopListening \/ ShutdownPool \/ Unwind

-----------------------------------------------------------------------------
(* A worker thread *)

WorkerStep(from, to) ==
  /\ pool \in {"running", "shutdown"}
  /\ worker = from /\ worker' = to
  /\ UNCHANGED <<mainVars, held, signalVars, pool, submitted>>

TakeJob == WorkerStep("idle", "opens") /\ jobs > 0 /\ jobs' = jobs - 1 /\ UNCHANGED <<open, dangling>>

\* read_file opens the file for reading, and closes it.
OpenFile == WorkerStep("opens", "reads") /\ open' = Opened("file", open) /\ UNCHANGED <<jobs, dangling>>
CloseFile ==
  /\ WorkerStep("reads", "delivers")
  /\ open' = [n \in Numbers |-> IF open[n] = "file" THEN "free" ELSE open[n]]
  /\ UNCHANGED <<jobs, dangling>>

\* enqueue_result: the job holds a reference to the completion handler.
Deliver ==
  /\ WorkerStep("delivers", "idle")
  /\ dangling' = (dangling \/ "completion" \notin alive)
  /\ UNCHANGED <<open, jobs>>

\* The queue is shut and empty: the thread ends.
WorkerExits ==
  /\ pool = "shutdown" /\ jobs = 0 /\ worker = "idle"
  /\ pool' = "joined"
  /\ UNCHANGED <<mainVars, fdVars, signalVars, jobs, submitted, worker, dangling>>

WorkerThread == TakeJob \/ OpenFile \/ CloseFile \/ Deliver \/ WorkerExits

-----------------------------------------------------------------------------
(* Signals, on whichever thread *)

SigTerm ==
  /\ pc \notin {"exited", "aborted"} /\ ~stop
  /\ stop' = TRUE
  /\ UNCHANGED <<mainVars, fdVars, notify, hup, hups, stray, poolVars>>

\* request_reload loads the descriptor, and then writes to it.
SigHup ==
  /\ pc \notin {"exited", "aborted"} /\ hup = None /\ hups < MaxHups
  /\ hups' = hups + 1
  /\ hup' = notify
  /\ UNCHANGED <<mainVars, fdVars, notify, stray, stop, poolVars>>

\* A write to a closed descriptor, or to one opened for reading, fails.
WriteWakeup ==
  /\ hup # None
  /\ hup' = None
  /\ stray' = stray \cup ({open[hup]} \ {"reload", "free", "file"})
  /\ UNCHANGED <<mainVars, fdVars, notify, hups, stop, poolVars>>

Ended == pc \in {"exited", "aborted"} /\ UNCHANGED vars

Next ==
  \/ Startup
  \/ Submit
  \/ Shutdown
  \/ WorkerThread
  \/ SigTerm
  \/ SigHup
  \/ WriteWakeup
  \/ Ended

Spec == Init /\ [][Next]_vars

\* The threads and a signal handler go on; main leaves its loop once it is told
\* to, within the second epoll_wait may take.
FairSpec ==
  /\ Spec
  /\ WF_vars(Startup) /\ WF_vars(EndScope \/ StopListening \/ ShutdownPool \/ Unwind)
  /\ WF_vars(WorkerThread) /\ WF_vars(WriteWakeup)
  /\ WF_vars(stop /\ LeaveLoop)

-----------------------------------------------------------------------------
(* Properties *)

\* "Every socket handled by the loop is non-blocking": whatever failed on the
\* way, the loop runs only with every configured listener open, non-blocking
\* and watched under its own number.
ListensWhole ==
  pc = "loop" => \A l \in Listeners : /\ held[l] # None /\ open[held[l]] = l
                                      /\ l \notin blocking /\ watch[held[l]] = l

\* A wake-up of request_reload reaches the reload eventfd or nobody: the number
\* the handler keeps is never one that a listener, epoll or the completion
\* eventfd was given; and while the loop runs it is one the loop watches.
WakeupsReachReload ==
  /\ stray = {}
  /\ pc = "loop" /\ notify # None => watch[notify] = "reload"

\* "Clean shutdown without detached threads": every way out that returns a code
\* joins the workers after their last job and leaves no descriptor open; and
\* unless the loop was left by an exception, no worker ever puts a result into
\* a completion handler that is gone.
CleanExit ==
  /\ pc = "exited" => /\ pool \in {"none", "joined"} /\ jobs = 0
                      /\ \A n \in Numbers : open[n] = "free"
  /\ dangling => code = 1

\* A shutdown that is requested, at any point, ends the process.
StopEnds == stop ~> (pc \in {"exited", "aborted"})
=============================================================================
