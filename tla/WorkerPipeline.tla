--------------------------- MODULE WorkerPipeline ---------------------------
(***************************************************************************)
(* The path of a file request through the server: the event loop submits a *)
(* job to the BoundedQueue, a worker thread pops and runs it, enqueues the *)
(* result and wakes the event loop through an eventfd, and the event loop  *)
(* applies the result to the connection that asked, found by id.           *)
(*                                                                         *)
(* One thread runs the event loop, Workers are the threads of WorkerPool.  *)
(* Every step is what happens between two points at which another thread   *)
(* can interfere: a critical section of the queue's mutex, a critical      *)
(* section of the completion handler's mutex, or one system call.          *)
(***************************************************************************)
EXTENDS Naturals, Sequences, FiniteSets

CONSTANTS Workers,   \* worker threads
          Conns,     \* connection ids
          Jobs,      \* the requests that clients send
          ConnOf,    \* ConnOf[j] is WorkerTask::connection_id of job j
          Capacity,  \* max_size_ of the BoundedQueue
          NoJob      \* a thread holds no job

ASSUME PipelineAssumption ==
  /\ Workers # {}
  /\ ConnOf \in [Jobs -> Conns]
  /\ Capacity \in Nat \ {0}
  /\ NoJob \notin Jobs

VARIABLES
  queue,      \* BoundedQueue::queue_
  qshut,      \* BoundedQueue::shutdown_
  wpc,        \* wpc[w]: where worker w is in worker_loop
  wjob,       \* wjob[w]: the job worker w runs
  results,    \* WorkerCompletionHandler::result_queue_
  event,      \* the counter behind event_fd_
  lpc,        \* where the event-loop thread is
  cur,        \* the job the event-loop thread is pushing
  conn,       \* conn[c]: "new", "open" (in connections_) or "closed"
  active,     \* active[c]: Connection::worker_active_
  fate,       \* fate[j]: what became of job j (history)
  stopReq     \* SignalHandler::shutdown_requested_

poolVars == <<queue, qshut, wpc, wjob>>
doneVars == <<results, event>>
loopVars == <<lpc, cur, stopReq>>
connVars == <<conn, active, fate>>
vars == <<poolVars, doneVars, loopVars, connVars>>

WorkerStates == {"pop", "wait", "run", "notify", "exited"}
LoopStates == {"poll", "push", "pushWait", "drain", "flag", "wake", "join", "stopped"}
ConnStates == {"new", "open", "closed"}
Fates == {"idle", "pending", "applied", "discarded"}

TypeOK ==
  /\ queue \in Seq(Jobs)
  /\ qshut \in BOOLEAN
  /\ wpc \in [Workers -> WorkerStates]
  /\ wjob \in [Workers -> Jobs \cup {NoJob}]
  /\ results \in Seq(Jobs)
  /\ event \in Nat
  /\ lpc \in LoopStates
  /\ cur \in Jobs \cup {NoJob}
  /\ conn \in [Conns -> ConnStates]
  /\ active \in [Conns -> BOOLEAN]
  /\ fate \in [Jobs -> Fates]
  /\ stopReq \in BOOLEAN

Init ==
  /\ queue = <<>>
  /\ qshut = FALSE
  /\ wpc = [w \in Workers |-> "pop"]
  /\ wjob = [w \in Workers |-> NoJob]
  /\ results = <<>>
  /\ event = 0
  /\ lpc = "poll"
  /\ cur = NoJob
  /\ conn = [c \in Conns |-> "new"]
  /\ active = [c \in Conns |-> FALSE]
  /\ fate = [j \in Jobs |-> "idle"]
  /\ stopReq = FALSE

-----------------------------------------------------------------------------
(* Worker threads: worker_loop, BoundedQueue::pop and the submitted lambda. *)

Sleeping == {w \in Workers : wpc[w] = "wait"}

\* Mutant of NotifyNotFull: pop forgets not_full_.notify_one().
NotifyNobody == lpc' = lpc

\* not_full_.notify_one() at the end of pop: the only thread that can wait on
\* not_full_ is the event loop.
NotifyNotFull == lpc' = IF lpc = "pushWait" THEN "push" ELSE lpc

PopTake(w) ==
  /\ wpc[w] = "pop"
  /\ queue # <<>>
  /\ queue' = Tail(queue)
  /\ wjob' = [wjob EXCEPT ![w] = Head(queue)]
  /\ wpc' = [wpc EXCEPT ![w] = "run"]
  /\ NotifyNotFull
  /\ UNCHANGED <<qshut, doneVars, cur, stopReq, connVars>>

PopWait(w) ==
  /\ wpc[w] = "pop"
  /\ queue = <<>>
  /\ ~qshut
  /\ wpc' = [wpc EXCEPT ![w] = "wait"]
  /\ UNCHANGED <<queue, qshut, wjob, doneVars, loopVars, connVars>>

PopExit(w) ==
  /\ wpc[w] = "pop"
  /\ queue = <<>>
  /\ qshut
  /\ wpc' = [wpc EXCEPT ![w] = "exited"]
  /\ UNCHANGED <<queue, qshut, wjob, doneVars, loopVars, connVars>>

\* A condition variable may wake a thread without a notification; wait()
\* then evaluates its predicate again.
SpuriousWake(w) ==
  /\ wpc[w] = "wait"
  /\ wpc' = [wpc EXCEPT ![w] = "pop"]
  /\ UNCHANGED <<queue, qshut, wjob, doneVars, loopVars, connVars>>

\* Mutant of RunJob: enqueue_result returns to pop without the eventfd write.
RunJobSilently(w) ==
  /\ wpc[w] = "run"
  /\ results' = Append(results, wjob[w])
  /\ wjob' = [wjob EXCEPT ![w] = NoJob]
  /\ wpc' = [wpc EXCEPT ![w] = "pop"]
  /\ UNCHANGED <<queue, qshut, event, loopVars, connVars>>

\* execute_filesystem_task, which touches nothing shared and always returns a
\* result, then the critical section of enqueue_result.
RunJob(w) ==
  /\ wpc[w] = "run"
  /\ results' = Append(results, wjob[w])
  /\ wjob' = [wjob EXCEPT ![w] = NoJob]
  /\ wpc' = [wpc EXCEPT ![w] = "notify"]
  /\ UNCHANGED <<queue, qshut, event, loopVars, connVars>>

\* The write to event_fd_ that ends enqueue_result; then back to pop.
NotifyLoop(w) ==
  /\ wpc[w] = "notify"
  /\ event' = event + 1
  /\ wpc' = [wpc EXCEPT ![w] = "pop"]
  /\ UNCHANGED <<queue, qshut, wjob, results, loopVars, connVars>>

Worker(w) == PopTake(w) \/ PopWait(w) \/ PopExit(w) \/ RunJob(w) \/ NotifyLoop(w)

-----------------------------------------------------------------------------
(* The event-loop thread. *)

\* The listener callback: register_connection gives the next id.
Accept(c) ==
  /\ lpc = "poll"
  /\ conn[c] = "new"
  /\ conn' = [conn EXCEPT ![c] = "open"]
  /\ UNCHANGED <<poolVars, doneVars, loopVars, active, fate>>

\* The peer closed, the socket failed, or a response without keep-alive was
\* flushed: the connection is removed whether or not a job is outstanding.
RemoveConnection(c) ==
  /\ lpc = "poll"
  /\ conn[c] = "open"
  /\ conn' = [conn EXCEPT ![c] = "closed"]
  /\ UNCHANGED <<poolVars, doneVars, loopVars, active, fate>>

\* sweep_timeouts: has_deadline_exceeded is false while worker_active_ is set,
\* and any other open connection may have reached its deadline.
SweepTimeout(c) ==
  /\ lpc = "poll"
  /\ conn[c] = "open"
  /\ ~active[c]
  /\ conn' = [conn EXCEPT ![c] = "closed"]
  /\ UNCHANGED <<poolVars, doneVars, loopVars, active, fate>>

\* handle_read_event reaches the worker path: set_worker_active(true), then
\* submit calls push.
SubmitTask(j) ==
  /\ lpc = "poll"
  /\ conn[ConnOf[j]] = "open"
  /\ fate[j] = "idle"
  /\ active' = [active EXCEPT ![ConnOf[j]] = TRUE]
  /\ fate' = [fate EXCEPT ![j] = "pending"]
  /\ cur' = j
  /\ lpc' = "push"
  /\ UNCHANGED <<poolVars, doneVars, conn, stopReq>>

\* The predicate of not_full_.wait does not hold.
PushWait ==
  /\ lpc = "push"
  /\ Len(queue) >= Capacity
  /\ ~qshut
  /\ lpc' = "pushWait"
  /\ UNCHANGED <<poolVars, doneVars, cur, stopReq, connVars>>

\* Mutant of PushAppend: push forgets not_empty_.notify_one().
PushAppendSilently ==
  /\ lpc = "push"
  /\ Len(queue) < Capacity
  /\ ~qshut
  /\ queue' = Append(queue, cur)
  /\ cur' = NoJob
  /\ lpc' = "poll"
  /\ UNCHANGED <<wpc, qshut, wjob, doneVars, stopReq, connVars>>

\* queue_.push, then not_empty_.notify_one() with the mutex held.
PushAppend ==
  /\ lpc = "push"
  /\ Len(queue) < Capacity
  /\ ~qshut
  /\ queue' = Append(queue, cur)
  /\ IF Sleeping = {}
     THEN UNCHANGED wpc
     ELSE \E w \in Sleeping : wpc' = [wpc EXCEPT ![w] = "pop"]
  /\ cur' = NoJob
  /\ lpc' = "poll"
  /\ UNCHANGED <<qshut, wjob, doneVars, stopReq, connVars>>

PushSpuriousWake ==
  /\ lpc = "pushWait"
  /\ lpc' = "push"
  /\ UNCHANGED <<poolVars, doneVars, cur, stopReq, connVars>>

\* The completion callback: clear_event resets the counter before the queue
\* is looked at.
ClearEvent ==
  /\ lpc = "poll"
  /\ event > 0
  /\ event' = 0
  /\ lpc' = "drain"
  /\ UNCHANGED <<poolVars, results, cur, stopReq, connVars>>

\* Mutant of DequeueResult: the result is applied without looking the
\* connection up.
DequeueResultBlindly ==
  /\ lpc = "drain"
  /\ results # <<>>
  /\ results' = Tail(results)
  /\ active' = [active EXCEPT ![ConnOf[Head(results)]] = FALSE]
  /\ fate' = [fate EXCEPT ![Head(results)] = "applied"]
  /\ UNCHANGED <<poolVars, event, loopVars, conn>>

\* dequeue_result returned a result: get_connection_by_id decides whether it
\* is applied (worker_active_ is cleared) or discarded.
DequeueResult ==
  /\ lpc = "drain"
  /\ results # <<>>
  /\ results' = Tail(results)
  /\ LET j == Head(results)
         c == ConnOf[j]
     IN IF conn[c] = "open"
        THEN /\ active' = [active EXCEPT ![c] = FALSE]
             /\ fate' = [fate EXCEPT ![j] = "applied"]
        ELSE /\ fate' = [fate EXCEPT ![j] = "discarded"]
             /\ UNCHANGED active
  /\ UNCHANGED <<poolVars, event, loopVars, conn>>

DrainDone ==
  /\ lpc = "drain"
  /\ results = <<>>
  /\ lpc' = "poll"
  /\ UNCHANGED <<poolVars, doneVars, cur, stopReq, connVars>>

-----------------------------------------------------------------------------
(* Shutdown: a signal, the end of the main loop and WorkerPool::shutdown. *)

\* Mutant of RequestShutdown: the signal handler shuts the queue down itself.
RequestShutdownOfPool ==
  /\ ~stopReq
  /\ stopReq' = TRUE
  /\ qshut' = TRUE
  /\ UNCHANGED <<queue, wpc, wjob, doneVars, lpc, cur, connVars>>

\* request_shutdown, from SIGINT or SIGTERM, at any moment.
RequestShutdown ==
  /\ ~stopReq
  /\ stopReq' = TRUE
  /\ UNCHANGED <<poolVars, doneVars, lpc, cur, connVars>>

\* The while condition of the main loop fails; leaving the block destroys the
\* ConnectionManager, which closes every connection.
LeaveLoop ==
  /\ lpc = "poll"
  /\ stopReq
  /\ conn' = [c \in Conns |-> IF conn[c] = "open" THEN "closed" ELSE conn[c]]
  /\ lpc' = "flag"
  /\ UNCHANGED <<poolVars, doneVars, cur, stopReq, active, fate>>

\* BoundedQueue::shutdown sets the flag under the mutex ...
ShutdownFlag ==
  /\ lpc = "flag"
  /\ qshut' = TRUE
  /\ lpc' = "wake"
  /\ UNCHANGED <<queue, wpc, wjob, doneVars, cur, stopReq, connVars>>

\* Mutant of ShutdownNotify: shutdown() forgets not_empty_.notify_all().
ShutdownNotifyNobody ==
  /\ lpc = "wake"
  /\ lpc' = "join"
  /\ UNCHANGED <<poolVars, doneVars, cur, stopReq, connVars>>

\* ... and calls notify_all after it has released it.
ShutdownNotify ==
  /\ lpc = "wake"
  /\ wpc' = [w \in Workers |-> IF wpc[w] = "wait" THEN "pop" ELSE wpc[w]]
  /\ lpc' = "join"
  /\ UNCHANGED <<queue, qshut, wjob, doneVars, cur, stopReq, connVars>>

\* worker.join() has returned for every thread.
JoinWorkers ==
  /\ lpc = "join"
  /\ \A w \in Workers : wpc[w] = "exited"
  /\ lpc' = "stopped"
  /\ UNCHANGED <<poolVars, doneVars, cur, stopReq, connVars>>

\* The process has ended; stuttering here lets TLC's deadlock check see every
\* other state in which nothing can happen.
Terminated == lpc = "stopped" /\ UNCHANGED vars

Loop == \/ PushWait \/ PushAppend \/ ClearEvent \/ DequeueResult \/ DrainDone
        \/ LeaveLoop \/ ShutdownFlag \/ ShutdownNotify \/ JoinWorkers

Clients == \/ \E c \in Conns : Accept(c) \/ RemoveConnection(c) \/ SweepTimeout(c)
           \/ \E j \in Jobs : SubmitTask(j)

Next == \/ \E w \in Workers : Worker(w) \/ SpuriousWake(w)
        \/ Loop
        \/ PushSpuriousWake
        \/ Clients
        \/ RequestShutdown
        \/ Terminated

Spec == Init /\ [][Next]_vars

\* The scheduler runs every runnable thread, a job of the file server ends,
\* and epoll_wait returns at the latest after one second.
Fairness == /\ \A w \in Workers : WF_vars(Worker(w))
            /\ WF_vars(Loop)

FairSpec == Spec /\ Fairness

-----------------------------------------------------------------------------
(* Properties *)

\* No wake-up is lost between enqueue_result (push, then eventfd write) and
\* the completion callback (eventfd read, then pop until empty): while a
\* result waits, the eventfd is readable, a worker is about to make it so, or
\* the callback is still popping.
NoLostWakeup ==
  results # <<>> => \/ event > 0
                    \/ lpc = "drain"
                    \/ \E w \in Workers : wpc[w] = "notify"

\* A worker that is neither asleep on not_empty_ nor gone.
Awake(w) == wpc[w] \notin {"wait", "exited"}

\* One notify_one per push is enough, and workers leave only once the queue is
\* drained: a queued job always has a worker that will come back for it.
NoStrandedJob == queue # <<>> => \E w \in Workers : Awake(w)

\* The event loop never sleeps in push with nobody left to make room: the
\* threads cannot all wait on each other.
BlockedPushHasWorker ==
  lpc = "pushWait" => Len(queue) >= Capacity /\ \E w \in Workers : Awake(w)

\* A thread between taking a job and passing it on holds one.
HoldsJob == /\ \A w \in Workers : wpc[w] = "run" => wjob[w] \in Jobs
            /\ lpc \in {"push", "pushWait"} => cur \in Jobs

\* Threads leave, and the queue is shut down, only in this order: the loop
\* ends, the flag is set, the queue drains.
OrderlyExit == /\ qshut => lpc \in {"wake", "join", "stopped"}
               /\ \A w \in Workers : wpc[w] = "exited" => qshut /\ queue = <<>>

\* The inductive invariant behind the three wake-up properties.
WakeInv == /\ TypeOK
           /\ HoldsJob
           /\ OrderlyExit
           /\ NoLostWakeup
           /\ NoStrandedJob
           /\ BlockedPushHasWorker

\* Only the event-loop thread pushes and only it shuts the queue down, after
\* its loop: push never returns false, so the 503 branch of handle_read_event
\* is dead.
PushNeverRefused == qshut => lpc \notin {"push", "pushWait"}

Up == lpc \in {"poll", "push", "pushWait", "drain"}

CS == INSTANCE CompletionService WITH up <- Up

\* The pipeline implements the abstract service: a job is settled at most once,
\* to the connection that asked if it still exists, never after the loop ended.
ImplementsCompletionService == CS!CSSpec

\* Unless the server is told to stop, the answer to every submitted job
\* reaches the event loop.
JobSettled ==
  \A j \in Jobs : fate[j] = "pending" ~> fate[j] # "pending" \/ stopReq

\* A requested shutdown ends with all worker threads joined.
ShutdownCompletes == stopReq ~> lpc = "stopped"
=============================================================================
