------------------------ MODULE WorkerPipeline_proofs -----------------------
(***************************************************************************)
(* Proofs about WorkerPipeline for any number of workers, connections and  *)
(* jobs and any queue capacity.                                            *)
(***************************************************************************)
EXTENDS WorkerPipeline, SequenceTheorems, TLAPS

\* The initial state is typed.
LEMMA InitTyped == Init => TypeOK /\ HoldsJob
  <1> SUFFICES ASSUME Init PROVE TypeOK /\ HoldsJob
    OBVIOUS
  <1>1. queue \in Seq(Jobs) /\ results \in Seq(Jobs)
    BY EmptySeq DEF Init
  <1>2. active \in [Conns -> BOOLEAN] /\ qshut \in BOOLEAN /\ stopReq \in BOOLEAN
    BY Zenon DEF Init
  <1>3. conn \in [Conns -> ConnStates] /\ fate \in [Jobs -> Fates]
    BY DEF Init, ConnStates, Fates
  <1>4. /\ wpc \in [Workers -> WorkerStates]
        /\ wjob \in [Workers -> Jobs \cup {NoJob}]
        /\ event \in Nat /\ lpc \in LoopStates /\ cur \in Jobs \cup {NoJob}
    BY DEF Init, WorkerStates, LoopStates
  <1>5. HoldsJob
    BY DEF Init, HoldsJob
  <1> QED
    BY <1>1, <1>2, <1>3, <1>4, <1>5 DEF TypeOK

\* Every step preserves the types of the variables.
LEMMA TypeStep == TypeOK /\ HoldsJob /\ [Next]_vars => TypeOK' /\ HoldsJob'
  <1> SUFFICES ASSUME TypeOK, HoldsJob, [Next]_vars
               PROVE  TypeOK' /\ HoldsJob'
    OBVIOUS
  <1> USE PipelineAssumption DEF TypeOK, HoldsJob, WorkerStates, LoopStates, ConnStates, Fates
  <1>1. ASSUME NEW w \in Workers, PopTake(w) PROVE TypeOK' /\ HoldsJob'
    BY <1>1, HeadTailProperties DEF PopTake, NotifyNotFull, doneVars, connVars
  <1>2. ASSUME NEW w \in Workers, PopWait(w) \/ PopExit(w) \/ SpuriousWake(w)
        PROVE TypeOK' /\ HoldsJob'
    BY <1>2 DEF PopWait, PopExit, SpuriousWake, doneVars, connVars, loopVars
  <1>3. ASSUME NEW w \in Workers, RunJob(w) PROVE TypeOK' /\ HoldsJob'
    BY <1>3, AppendProperties DEF RunJob, connVars, loopVars
  <1>4. ASSUME NEW w \in Workers, NotifyLoop(w) PROVE TypeOK' /\ HoldsJob'
    BY <1>4 DEF NotifyLoop, connVars, loopVars
  <1>5. CASE PushWait
    BY <1>5 DEF PushWait, poolVars, doneVars, connVars
  <1>6. CASE PushAppend
    BY <1>6, AppendProperties DEF PushAppend, Sleeping, doneVars, connVars
  <1>7. CASE ClearEvent
    BY <1>7 DEF ClearEvent, poolVars, connVars
  <1>8. CASE DequeueResult
    BY <1>8, HeadTailProperties DEF DequeueResult, poolVars, loopVars
  <1>9. CASE DrainDone \/ PushSpuriousWake
    BY <1>9 DEF DrainDone, PushSpuriousWake, poolVars, doneVars, connVars
  <1>10. CASE LeaveLoop
    BY <1>10 DEF LeaveLoop, poolVars, doneVars
  <1>11. CASE ShutdownFlag \/ ShutdownNotify \/ JoinWorkers
    BY <1>11 DEF ShutdownFlag, ShutdownNotify, JoinWorkers, poolVars, doneVars, connVars
  <1>12. ASSUME NEW c \in Conns, Accept(c) \/ RemoveConnection(c) \/ SweepTimeout(c)
         PROVE TypeOK' /\ HoldsJob'
    BY <1>12 DEF Accept, RemoveConnection, SweepTimeout, poolVars, doneVars, loopVars
  <1>13. ASSUME NEW j \in Jobs, SubmitTask(j) PROVE TypeOK' /\ HoldsJob'
    BY <1>13 DEF SubmitTask, poolVars, doneVars
  <1>14. CASE RequestShutdown
    BY <1>14 DEF RequestShutdown, poolVars, doneVars, connVars
  <1>15. CASE UNCHANGED vars
    BY <1>15 DEF vars, poolVars, doneVars, loopVars, connVars
  <1> QED
    BY <1>1, <1>2, <1>3, <1>4, <1>5, <1>6, <1>7, <1>8, <1>9, <1>10, <1>11, <1>12,
       <1>13, <1>14, <1>15 DEF Next, Worker, Loop, Clients, Terminated

\* Type correctness of the pipeline.
THEOREM TypeCorrect == Spec => [](TypeOK /\ HoldsJob)
  <1>1. Init => TypeOK /\ HoldsJob
    BY InitTyped
  <1> QED
    BY <1>1, TypeStep, PTL DEF Spec

-----------------------------------------------------------------------------
\* The step of the induction: every action preserves the wake-up invariants.
LEMMA WakeStep == WakeInv /\ [Next]_vars => WakeInv'
  <1> SUFFICES ASSUME WakeInv, [Next]_vars
               PROVE  OrderlyExit' /\ NoLostWakeup' /\ NoStrandedJob' /\ BlockedPushHasWorker'
    BY TypeStep DEF WakeInv
  <1>0. TypeOK /\ HoldsJob /\ TypeOK' /\ HoldsJob'
    BY TypeStep DEF WakeInv
  <1> DEFINE Goal == OrderlyExit' /\ NoLostWakeup' /\ NoStrandedJob' /\ BlockedPushHasWorker'
  <1> USE <1>0, PipelineAssumption
      DEF TypeOK, HoldsJob, WakeInv, OrderlyExit, NoLostWakeup, NoStrandedJob,
          BlockedPushHasWorker, Awake, WorkerStates, LoopStates
  <1>1. ASSUME NEW w \in Workers, PopTake(w) PROVE Goal
    <2>1. wpc'[w] = "run" /\ Awake(w)'
      BY <1>1 DEF PopTake
    <2>2. lpc' # "pushWait"
      BY <1>1 DEF PopTake, NotifyNotFull
    <2>3. \A v \in Workers : wpc'[v] = "exited" => wpc[v] = "exited"
      BY <1>1 DEF PopTake
    <2>4. OrderlyExit'
      BY <1>1, <2>3 DEF PopTake, NotifyNotFull
    <2>5. NoLostWakeup'
      BY <1>1 DEF PopTake, NotifyNotFull, doneVars
    <2> QED
      BY <2>1, <2>2, <2>4, <2>5
  <1>2. ASSUME NEW w \in Workers, PopWait(w) \/ PopExit(w) PROVE Goal
    <2>1. queue = <<>> /\ queue' = <<>> /\ Len(queue) = 0
      BY <1>2 DEF PopWait, PopExit
    <2> QED
      BY <1>2, <2>1 DEF PopWait, PopExit, doneVars, loopVars
  <1>3. ASSUME NEW w \in Workers, SpuriousWake(w) PROVE Goal
    BY <1>3 DEF SpuriousWake, doneVars, loopVars
  <1>4. ASSUME NEW w \in Workers, RunJob(w) PROVE Goal
    BY <1>4 DEF RunJob, loopVars
  <1>5. ASSUME NEW w \in Workers, NotifyLoop(w) PROVE Goal
    BY <1>5 DEF NotifyLoop, loopVars
  <1>6. CASE PushWait
    <2>1. Len(queue) # 0 /\ queue # <<>>
      BY <1>6 DEF PushWait
    <2> QED
      BY <1>6, <2>1 DEF PushWait, poolVars, doneVars
  <1>7. CASE PushAppend
    <2>1. ~qshut /\ ~qshut' /\ lpc' = "poll"
      BY <1>7 DEF PushAppend
    <2>2. \A v \in Workers : wpc[v] # "exited"
      BY <2>1
    <2>3. \E v \in Workers : Awake(v)'
      BY <1>7, <2>2 DEF PushAppend, Sleeping
    <2>4. \A v \in Workers : wpc'[v] = "exited" => wpc[v] = "exited"
      BY <1>7 DEF PushAppend, Sleeping
    <2>5. \A v \in Workers : wpc[v] = "notify" => wpc'[v] = "notify"
      BY <1>7 DEF PushAppend, Sleeping
    <2>6. NoLostWakeup'
      BY <1>7, <2>5 DEF PushAppend, doneVars
    <2> QED
      BY <2>1, <2>2, <2>3, <2>4, <2>6
  <1>8. CASE ClearEvent \/ DequeueResult \/ DrainDone \/ PushSpuriousWake
    BY <1>8 DEF ClearEvent, DequeueResult, DrainDone, PushSpuriousWake, poolVars,
                doneVars, loopVars
  <1>9. CASE LeaveLoop \/ ShutdownFlag \/ JoinWorkers
    BY <1>9 DEF LeaveLoop, ShutdownFlag, JoinWorkers, poolVars, doneVars
  <1>10. CASE ShutdownNotify
    <2>1. \A v \in Workers : /\ wpc'[v] = "exited" <=> wpc[v] = "exited"
                             /\ wpc'[v] = "notify" <=> wpc[v] = "notify"
                             /\ Awake(v) => Awake(v)'
      BY <1>10 DEF ShutdownNotify
    <2> QED
      BY <1>10, <2>1 DEF ShutdownNotify, doneVars
  <1>11. ASSUME NEW c \in Conns, Accept(c) \/ RemoveConnection(c) \/ SweepTimeout(c)
         PROVE Goal
    BY <1>11 DEF Accept, RemoveConnection, SweepTimeout, poolVars, doneVars, loopVars
  <1>12. ASSUME NEW j \in Jobs, SubmitTask(j) PROVE Goal
    BY <1>12 DEF SubmitTask, poolVars, doneVars
  <1>13. CASE RequestShutdown \/ UNCHANGED vars
    BY <1>13 DEF RequestShutdown, vars, poolVars, doneVars, loopVars
  <1> QED
    BY <1>1, <1>2, <1>3, <1>4, <1>5, <1>6, <1>7, <1>8, <1>9, <1>10, <1>11, <1>12, <1>13
       DEF Next, Worker, Loop, Clients, Terminated

\* The wake-up invariants of the queue, the completion eventfd and the blocked
\* push hold together, with the order in which the pool is shut down.
THEOREM WakeCorrect == Spec => []WakeInv
  <1>1. Init => WakeInv
    BY InitTyped DEF Init, WakeInv, OrderlyExit, NoLostWakeup, NoStrandedJob,
                     BlockedPushHasWorker
  <1> QED
    BY <1>1, WakeStep, PTL DEF Spec

\* A finished result never waits for an event loop that sleeps: enqueue_result
\* writes the eventfd after the push and the callback reads it before it pops.
THEOREM NoWakeupIsLost == Spec => []NoLostWakeup
  BY WakeCorrect, PTL DEF WakeInv

\* A queued job always has a worker that will come back for it, through
\* shutdown included.
THEOREM NoJobIsStranded == Spec => []NoStrandedJob
  BY WakeCorrect, PTL DEF WakeInv

\* The event loop and the workers never all wait for each other.
THEOREM PushIsServed == Spec => []BlockedPushHasWorker
  BY WakeCorrect, PTL DEF WakeInv

\* BoundedQueue::push never returns false: the 503 branch is unreachable.
THEOREM PushIsNeverRefused == Spec => []PushNeverRefused
  <1>1. WakeInv => PushNeverRefused
    BY DEF WakeInv, OrderlyExit, PushNeverRefused
  <1> QED
    BY <1>1, WakeCorrect, PTL

-----------------------------------------------------------------------------
(* The pipeline implements CompletionService *)

\* Wherever a job is, in the queue, with a thread or among the results, it has
\* not been settled ...
InPipeline(j) ==
  \/ \E i \in 1..Len(queue) : queue[i] = j
  \/ \E i \in 1..Len(results) : results[i] = j
  \/ \E w \in Workers : wjob[w] = j
  \/ cur = j

AllPending == \A j \in Jobs : InPipeline(j) => fate[j] = "pending"

\* ... and it is in one place only, so that it is not settled twice.
OnePlace ==
  /\ \A i, k \in 1..Len(queue) : queue[i] = queue[k] => i = k
  /\ \A i, k \in 1..Len(results) : results[i] = results[k] => i = k
  /\ \A v, w \in Workers : wjob[v] = wjob[w] /\ wjob[v] # NoJob => v = w
  /\ \A i \in 1..Len(queue), k \in 1..Len(results) : queue[i] # results[k]
  /\ \A i \in 1..Len(queue), w \in Workers : queue[i] # wjob[w]
  /\ \A i \in 1..Len(results), w \in Workers : results[i] # wjob[w]
  /\ cur # NoJob => /\ \A i \in 1..Len(queue) : queue[i] # cur
                    /\ \A i \in 1..Len(results) : results[i] # cur
                    /\ \A w \in Workers : wjob[w] # cur

\* cur is the job in the hands of the event loop while it pushes, and no other.
CurIsPushed == cur # NoJob => lpc \in {"push", "pushWait"}

JobInv == TypeOK /\ HoldsJob /\ CurIsPushed /\ AllPending /\ OnePlace

\* Every step preserves it: a job moves from one place to the next, and is
\* settled as it leaves the last.
LEMMA JobStep == JobInv /\ [Next]_vars => JobInv'
  <1> SUFFICES ASSUME JobInv, [Next]_vars
               PROVE  CurIsPushed' /\ AllPending' /\ OnePlace'
    BY TypeStep DEF JobInv
  <1>0. TypeOK /\ HoldsJob /\ TypeOK' /\ HoldsJob'
    BY TypeStep DEF JobInv
  <1>l. /\ Len(queue) \in Nat /\ \A i \in 1..Len(queue) : queue[i] \in Jobs
        /\ Len(results) \in Nat /\ \A i \in 1..Len(results) : results[i] \in Jobs
        /\ NoJob \notin Jobs /\ cur \in Jobs \cup {NoJob}
        /\ wjob \in [Workers -> Jobs \cup {NoJob}]
    BY <1>0, PipelineAssumption DEF TypeOK
  <1> DEFINE Goal == CurIsPushed' /\ AllPending' /\ OnePlace'
  <1> USE DEF JobInv, CurIsPushed, AllPending, InPipeline, OnePlace
  <1>1. ASSUME NEW w \in Workers, PopTake(w) PROVE Goal
    <2>1. /\ Len(queue) > 0 /\ Len(queue') = Len(queue) - 1
          /\ \A i \in 1..Len(queue') : queue'[i] = queue[i + 1]
      BY <1>0, <1>1 DEF PopTake, TypeOK
    <2>2. wjob' = [wjob EXCEPT ![w] = queue[1]]
      BY <1>0, <1>1 DEF PopTake, TypeOK
    <2>3. UNCHANGED <<results, cur, fate>> /\ (lpc' = lpc \/ lpc' = "push")
      BY <1>1 DEF PopTake, NotifyNotFull, doneVars, connVars
    <2>4. CurIsPushed'
      BY <2>3
    <2>5. /\ 1 \in 1..Len(queue)
          /\ \A i \in 1..Len(queue') : i + 1 \in 1..Len(queue) /\ i + 1 # 1
          /\ \A i, k \in 1..Len(queue') : i + 1 = k + 1 => i = k
      BY <1>l, <2>1
    <2>6. \A k \in Jobs : InPipeline(k)' => InPipeline(k)
      BY <1>l, <2>1, <2>2, <2>3, <2>5
    <2>7. AllPending'
      BY <2>3, <2>6
    <2>8. \A i, k \in 1..Len(queue') : queue'[i] = queue'[k] => i = k
      BY <2>1, <2>5
    <2>9. \A v, x \in Workers : wjob'[v] = wjob'[x] /\ wjob'[v] # NoJob => v = x
      BY <1>l, <2>2, <2>5
    <2>10. \A i \in 1..Len(queue') : /\ \A k \in 1..Len(results) : queue'[i] # results[k]
                                     /\ \A v \in Workers : queue'[i] # wjob'[v]
                                     /\ cur # NoJob => queue'[i] # cur
      BY <1>l, <2>1, <2>2, <2>5
    <2>11. \A v \in Workers : /\ \A k \in 1..Len(results) : results[k] # wjob'[v]
                              /\ cur # NoJob => wjob'[v] # cur
      BY <1>l, <2>2, <2>5
    <2>12. OnePlace'
      BY <2>3, <2>8, <2>9, <2>10, <2>11
    <2> QED
      BY <2>4, <2>7, <2>12
  <1>2. ASSUME NEW w \in Workers, PopWait(w) \/ PopExit(w) \/ SpuriousWake(w) \/ NotifyLoop(w)
        PROVE Goal
    BY <1>2 DEF PopWait, PopExit, SpuriousWake, NotifyLoop, doneVars, loopVars, connVars
  <1>3. ASSUME NEW w \in Workers, RunJob(w) PROVE Goal
    <2>1. wjob[w] \in Jobs
      BY <1>0, <1>3 DEF RunJob, HoldsJob
    <2>2. /\ Len(results') = Len(results) + 1
          /\ \A i \in 1..Len(results) : results'[i] = results[i]
          /\ results'[Len(results) + 1] = wjob[w]
      BY <1>0, <1>3 DEF RunJob, TypeOK
    <2>3. wjob' = [wjob EXCEPT ![w] = NoJob] /\ UNCHANGED <<queue, lpc, cur, fate>>
      BY <1>3 DEF RunJob, loopVars, connVars
    <2>4. \A i \in 1..Len(results') : i \in 1..Len(results) \/ i = Len(results) + 1
      BY <1>l, <2>2
    <2>5. AllPending'
      BY <1>l, <2>1, <2>2, <2>3, <2>4
    <2>6. OnePlace'
      BY <1>l, <2>1, <2>2, <2>3, <2>4
    <2> QED
      BY <2>3, <2>5, <2>6
  <1>4. CASE PushWait \/ PushSpuriousWake
    BY <1>4 DEF PushWait, PushSpuriousWake, poolVars, doneVars, connVars
  <1>5. CASE PushAppend
    <2>1. cur \in Jobs /\ cur' = NoJob
      BY <1>0, <1>5 DEF PushAppend, HoldsJob
    <2>2. /\ Len(queue') = Len(queue) + 1
          /\ \A i \in 1..Len(queue) : queue'[i] = queue[i]
          /\ queue'[Len(queue) + 1] = cur
      BY <1>0, <1>5 DEF PushAppend, TypeOK
    <2>3. UNCHANGED <<wjob, results, fate>>
      BY <1>5 DEF PushAppend, doneVars, connVars
    <2>4. \A i \in 1..Len(queue') : i \in 1..Len(queue) \/ i = Len(queue) + 1
      BY <1>l, <2>2
    <2>5. AllPending'
      BY <1>l, <2>1, <2>2, <2>3, <2>4
    <2>6. OnePlace'
      BY <1>l, <2>1, <2>2, <2>3, <2>4
    <2> QED
      BY <2>1, <2>5, <2>6
  <1>6. CASE ClearEvent \/ DrainDone
    BY <1>6 DEF ClearEvent, DrainDone, poolVars, doneVars, connVars
  <1>7. CASE DequeueResult
    <2> DEFINE j == Head(results)
    <2>1. /\ Len(results) > 0 /\ Len(results') = Len(results) - 1
          /\ \A i \in 1..Len(results') : results'[i] = results[i + 1]
          /\ j = results[1] /\ j \in Jobs
      BY <1>0, <1>7 DEF DequeueResult, TypeOK
    <2>2. UNCHANGED <<queue, wjob, lpc, cur>>
      BY <1>7 DEF DequeueResult, poolVars, loopVars
    <2>3. \A k \in Jobs : k # j => fate'[k] = fate[k]
      BY <1>0, <1>7, <2>1 DEF DequeueResult, TypeOK
    <2>4. \A k \in Jobs : InPipeline(k)' => InPipeline(k) /\ k # j
      BY <1>l, <2>1, <2>2
    <2>5. AllPending'
      BY <2>3, <2>4
    <2>6. /\ \A i \in 1..Len(results') : i + 1 \in 1..Len(results)
          /\ \A i, k \in 1..Len(results') : i + 1 = k + 1 => i = k
      BY <1>l, <2>1
    <2>7. OnePlace'
      BY <2>1, <2>2, <2>6
    <2> QED
      BY <2>2, <2>5, <2>7
  <1>8. CASE LeaveLoop \/ ShutdownFlag \/ ShutdownNotify \/ JoinWorkers
    BY <1>8 DEF LeaveLoop, ShutdownFlag, ShutdownNotify, JoinWorkers, poolVars, doneVars, connVars
  <1>9. ASSUME NEW c \in Conns, Accept(c) \/ RemoveConnection(c) \/ SweepTimeout(c)
        PROVE Goal
    BY <1>9 DEF Accept, RemoveConnection, SweepTimeout, poolVars, doneVars, loopVars
  <1>10. ASSUME NEW j \in Jobs, SubmitTask(j) PROVE Goal
    <2>1. fate[j] = "idle" /\ ~InPipeline(j) /\ cur' = j /\ lpc' = "push"
      BY <1>10 DEF SubmitTask
    <2>2. UNCHANGED <<queue, wjob, results>>
      BY <1>10 DEF SubmitTask, poolVars, doneVars
    <2>3. fate'[j] = "pending" /\ \A i \in Jobs : i # j => fate'[i] = fate[i]
      BY <1>0, <1>10 DEF SubmitTask, TypeOK
    <2>4. AllPending'
      BY <2>1, <2>2, <2>3
    <2>5. OnePlace'
      BY <2>1, <2>2
    <2> QED
      BY <2>1, <2>4, <2>5
  <1>11. CASE RequestShutdown \/ UNCHANGED vars
    BY <1>11 DEF RequestShutdown, vars, poolVars, doneVars, loopVars, connVars
  <1> QED
    BY <1>1, <1>2, <1>3, <1>4, <1>5, <1>6, <1>7, <1>8, <1>9, <1>10, <1>11
       DEF Next, Worker, Loop, Clients, Terminated

\* Init establishes it.
LEMMA JobInit == Init => JobInv
  <1> SUFFICES ASSUME Init PROVE JobInv
    OBVIOUS
  <1>1. Len(queue) = 0 /\ Len(results) = 0
    BY DEF Init
  <1> QED
    BY <1>1, InitTyped, PipelineAssumption DEF Init, JobInv, CurIsPushed, AllPending, InPipeline, OnePlace

\* Every job is in at most one place, and not settled while it is in one.
THEOREM JobCorrect == Spec => []JobInv
  BY JobInit, JobStep, PTL DEF Spec

\* Every step of the pipeline is a step of CompletionService, or does not concern
\* it.
LEMMA PipelineSimulates == JobInv /\ [Next]_vars => [CS!CSNext]_(CS!cvars)
  <1> SUFFICES ASSUME JobInv, [Next]_vars PROVE CS!CSNext \/ UNCHANGED <<conn, fate, Up>>
    BY DEF CS!cvars
  <1> USE PipelineAssumption DEF JobInv, TypeOK
  <1>1. ASSUME NEW w \in Workers, Worker(w) \/ SpuriousWake(w)
        PROVE UNCHANGED <<conn, fate, Up>>
    BY <1>1 DEF Worker, PopTake, NotifyNotFull, PopWait, PopExit, SpuriousWake, RunJob,
                NotifyLoop, loopVars, connVars, Up
  <1>2. CASE PushWait \/ PushAppend \/ PushSpuriousWake \/ ClearEvent \/ DrainDone
             \/ ShutdownFlag \/ ShutdownNotify \/ JoinWorkers \/ RequestShutdown
    BY <1>2 DEF PushWait, PushAppend, PushSpuriousWake, ClearEvent, DrainDone, ShutdownFlag,
                ShutdownNotify, JoinWorkers, RequestShutdown, connVars, Up
  <1>3. CASE DequeueResult
    <2> DEFINE j == Head(results)
    <2>1. j \in Jobs /\ fate[j] = "pending"
      BY <1>3, HeadTailProperties DEF DequeueResult, AllPending, InPipeline
    <2>2. CS!Settle(j)
      BY <1>3, <2>1 DEF DequeueResult, CS!Settle, Up, loopVars
    <2> QED
      BY <2>1, <2>2 DEF CS!CSNext
  <1>4. CASE LeaveLoop
    BY <1>4 DEF LeaveLoop, CS!CSNext, CS!Stop, Up
  <1>5. ASSUME NEW c \in Conns, Accept(c) PROVE CS!CSNext
    <2>1. CS!Open(c)
      BY <1>5 DEF Accept, CS!Open, Up, loopVars
    <2> QED
      BY <2>1 DEF CS!CSNext
  <1>6. ASSUME NEW c \in Conns, RemoveConnection(c) \/ SweepTimeout(c) PROVE CS!CSNext
    <2>1. CS!Close(c)
      BY <1>6 DEF RemoveConnection, SweepTimeout, CS!Close, Up, loopVars
    <2> QED
      BY <2>1 DEF CS!CSNext
  <1>7. ASSUME NEW j \in Jobs, SubmitTask(j) PROVE CS!CSNext
    <2>1. CS!Request(j)
      BY <1>7 DEF SubmitTask, CS!Request, Up
    <2> QED
      BY <2>1 DEF CS!CSNext
  <1>8. CASE UNCHANGED vars
    BY <1>8 DEF vars, loopVars, connVars, Up
  <1> QED
    BY <1>1, <1>2, <1>3, <1>4, <1>5, <1>6, <1>7, <1>8 DEF Next, Loop, Clients, Terminated

\* The worker pool and its completion handler keep the promise of the abstract
\* service: a job is settled at most once, to the connection that asked if it is
\* still there, and never after the event loop has ended.
THEOREM PipelineImplementsService == Spec => ImplementsCompletionService
  <1>1. Init => CS!CSInit
    BY DEF Init, CS!CSInit, Up
  <1> QED
    BY <1>1, JobCorrect, PipelineSimulates, PTL
       DEF Spec, ImplementsCompletionService, CS!CSSpec
=============================================================================
