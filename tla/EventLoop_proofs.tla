-------------------------- MODULE EventLoop_proofs --------------------------
(***************************************************************************)
(* Proofs about the loop thread: EventLoop, for any set of descriptor      *)
(* numbers, any batch size, any number of accepted sockets and any limits  *)
(* on connections, and ConfigReload, for any set of keys and any number of *)
(* edits, signals and admin requests.                                      *)
(***************************************************************************)
EXTENDS EventLoop, ConfigReload, SequenceTheorems, TLAPS

-----------------------------------------------------------------------------
(* Descriptors, callbacks and Connections *)

\* The four tables have an entry for every descriptor number.
Tables ==
  /\ sock \in [Fds -> Nat] /\ reg \in [Fds -> Nat]
  /\ cbs \in [Fds -> Nat] /\ conns \in [Fds -> Nat]
  /\ accepted \in Nat

WatchInv == Tables /\ ConnectionIsWatched

\* Closing a connection, whoever does it, takes it out of every table.
LEMMA CloseKeepsWatch ==
  ASSUME WatchInv, NEW f, CloseConnection(f), UNCHANGED accepted
  PROVE  WatchInv'
  BY DEF WatchInv, Tables, ConnectionIsWatched, CloseConnection

\* Steps that leave the tables alone.
LEMMA TableKeepsWatch ==
  ASSUME WatchInv, UNCHANGED <<table, accepted>>
  PROVE  WatchInv'
  BY DEF WatchInv, Tables, ConnectionIsWatched, table

\* Every step preserves the invariant.  register_connection gets a number whose
\* socket is closed, so no Connection has it and whatever callback is left over
\* is overwritten.
LEMMA WatchStep == WatchInv /\ [Next]_vars => WatchInv'
  <1> SUFFICES ASSUME WatchInv, [Next]_vars PROVE WatchInv'
    OBVIOUS
  <1>1. CASE EpollWait \/ BatchDone \/ Reload \/ NextRound
    BY <1>1, TableKeepsWatch, Zenon DEF EpollWait, BatchDone, Reload, NextRound
  <1>2. CASE SkipEvent \/ ClientKeeps \/ AcceptFails \/ UpstreamCompletes
    BY <1>2, TableKeepsWatch, Zenon DEF SkipEvent, ClientKeeps, AcceptFails, UpstreamCompletes
  <1>3. CASE ClientCloses
    BY <1>3, CloseKeepsWatch DEF ClientCloses
  <1>4. CASE UpstreamClosesClient
    BY <1>4, CloseKeepsWatch DEF UpstreamClosesClient
  <1>5. CASE AcceptClient
    <2>1. PICK f \in Fds : sock[f] = 0 /\ (RejectClient(f) \/ AdmitClient(f))
      BY <1>5 DEF AcceptClient
    <2>2. accepted' = accepted + 1
      BY <1>5 DEF AcceptClient
    <2>3. CASE RejectClient(f)
      BY <2>1, <2>2, <2>3 DEF RejectClient, WatchInv, Tables, ConnectionIsWatched
    <2>4. CASE AdmitClient(f)
      BY <2>1, <2>2, <2>4 DEF AdmitClient, AddFd, WatchInv, Tables, ConnectionIsWatched
    <2> QED
      BY <2>1, <2>3, <2>4
  <1>6. CASE Sweep
    BY <1>6 DEF Sweep, WatchInv, Tables, ConnectionIsWatched
  <1>7. CASE UNCHANGED vars
    BY <1>7, TableKeepsWatch DEF vars, table
  <1> QED
    BY <1>1, <1>2, <1>3, <1>4, <1>5, <1>6, <1>7 DEF Next, Dispatch

\* The tables of EventLoop and ConnectionManager, always.
THEOREM WatchCorrect == Spec => []WatchInv
  <1>1. Init => WatchInv
    BY DEF Init, WatchInv, Tables, ConnectionIsWatched
  <1> QED
    BY <1>1, WatchStep, PTL DEF Spec

\* However numbers are closed, swept and given out again, epoll watches exactly
\* the sockets of live Connections, each with the callback of its own accept.
THEOREM ConnectionAlwaysWatched == Spec => []ConnectionIsWatched
  BY WatchCorrect, PTL DEF WatchInv

-----------------------------------------------------------------------------
(* A batch and what happens while it is dispatched *)

\* What epoll_wait reports are events of the declared kinds.
LEMMA ReadyTyped ==
  ASSUME TypeOK
  PROVE  Ready \subseteq ClientEvents \cup OtherEvents
  <1>1. ASSUME NEW n \in 1..accepted
        PROVE  [src |-> "upstream", client |-> n] \in OtherEvents
    BY <1>1, EventLoopAssumption DEF TypeOK, OtherEvents, Serials
  <1>2. ASSUME NEW f \in Fds, reg[f] # 0, NEW h \in BOOLEAN
        PROVE  [src |-> "client", fd |-> f, serial |-> reg[f], hup |-> h] \in ClientEvents
    <2>1. reg[f] \in Serials
      BY <1>2, EventLoopAssumption DEF TypeOK, Serials
    <2> QED
      BY <1>2, <2>1 DEF ClientEvents
  <1> QED
    BY <1>1, <1>2 DEF Ready, OtherEvents

\* Every step preserves the types of the variables.
LEMMA TypeStep == TypeOK /\ [Next]_vars => TypeOK'
  <1> SUFFICES ASSUME TypeOK, [Next]_vars PROVE TypeOK'
    OBVIOUS
  <1> DEFINE Types == /\ sock \in [Fds -> 0..MaxSerial] /\ reg \in [Fds -> 0..MaxSerial]
                      /\ cbs \in [Fds -> 0..MaxSerial] /\ conns \in [Fds -> 0..MaxSerial]
                      /\ accepted \in 0..MaxSerial
             Rest == limit \in Limits /\ phase \in {"wait", "dispatch", "maintain"} /\ mayFail \in BOOLEAN
             Events == ClientEvents \cup OtherEvents
  <1>t. TypeOK <=> Types /\ Rest /\ batch \in Seq(Events)
    BY DEF TypeOK
  <1>p. Types' /\ Rest' /\ batch' \in Seq(Events) => TypeOK'
    BY DEF TypeOK
  <1> HIDE DEF Rest, Events
  <1> USE EventLoopAssumption
  <1>1. CASE EpollWait
    <2>1. PICK n \in 0..BatchSize : \E b \in [1..n -> Ready] : batch' = b
      BY <1>1 DEF EpollWait
    <2>2. PICK b \in [1..n -> Ready] : batch' = b
      BY <2>1
    <2>3. b \in [1..n -> Events]
      BY ReadyTyped, <2>2 DEF Events
    <2>4. batch' \in Seq(Events)
      BY <2>2, <2>3
    <2> QED
      BY <1>1, <1>t, <1>p, <2>4 DEF EpollWait, table, Rest
  <1>2. ASSUME NEW src, TakeEvent(src) PROVE Rest' /\ batch' \in Seq(Events)
    BY <1>2, <1>t, HeadTailProperties DEF TakeEvent, Rest
  <1>3. CASE SkipEvent \/ ClientKeeps \/ AcceptFails \/ UpstreamCompletes
    <2>1. Types'
      BY <1>3, <1>t DEF SkipEvent, ClientKeeps, AcceptFails, UpstreamCompletes, table
    <2> QED
      BY <1>2, <1>3, <1>p, <2>1 DEF SkipEvent, ClientKeeps, AcceptFails, UpstreamCompletes
  <1>e. \A g \in [Fds -> 0..MaxSerial], n \in 0..MaxSerial :
          \A f : [g EXCEPT ![f] = n] \in [Fds -> 0..MaxSerial]
    OBVIOUS
  <1>z. 0 \in 0..MaxSerial
    OBVIOUS
  <1>c. ASSUME NEW f, CloseConnection(f), UNCHANGED accepted PROVE Types'
    BY <1>c, <1>t, <1>e, <1>z DEF CloseConnection
  <1>4. CASE ClientCloses \/ UpstreamClosesClient
    <2>1. Types'
      BY <1>4, <1>c DEF ClientCloses, UpstreamClosesClient
    <2> QED
      BY <1>2, <1>4, <1>p, <2>1 DEF ClientCloses, UpstreamClosesClient
  <1>5. CASE AcceptClient
    <2>1. PICK f \in Fds : sock[f] = 0 /\ (RejectClient(f) \/ AdmitClient(f))
      BY <1>5 DEF AcceptClient
    <2>2. accepted' = accepted + 1 /\ accepted + 1 \in 0..MaxSerial
      BY <1>5, <1>t DEF AcceptClient
    <2>3. Types'
      <3>1. CASE RejectClient(f)
        BY <1>t, <1>e, <2>2, <3>1 DEF RejectClient
      <3>2. CASE AdmitClient(f)
        BY <1>t, <1>e, <2>2, <3>2 DEF AdmitClient, AddFd
      <3> QED
        BY <2>1, <3>1, <3>2
    <2> QED
      BY <1>2, <1>5, <1>p, <2>3 DEF AcceptClient
  <1>6. CASE BatchDone \/ NextRound \/ Reload
    BY <1>6, <1>t, <1>p DEF BatchDone, NextRound, Reload, table, Rest
  <1>7. CASE Sweep
    BY <1>7, <1>t, <1>p DEF Sweep, Rest
  <1>8. CASE UNCHANGED vars
    BY <1>8, <1>t, <1>p DEF vars, Rest
  <1> QED
    BY <1>1, <1>3, <1>4, <1>5, <1>6, <1>7, <1>8 DEF Next, Dispatch

\* Type correctness.
THEOREM TypeCorrect == Spec => []TypeOK
  <1>1. Init => TypeOK
    BY EmptySeq, EventLoopAssumption DEF Init, TypeOK
  <1> QED
    BY <1>1, TypeStep, PTL DEF Spec

\* Outside the dispatch of a batch there is no event left.  Without responses
\* that cannot be serialized, every event of a client in the batch is about the
\* Connection its descriptor number has now, and no two are about one number.
BatchInv ==
  /\ phase # "dispatch" => batch = <<>>
  /\ ~mayFail => \A i \in 1..Len(batch) : batch[i].src = "client" =>
       /\ conns[batch[i].fd] = batch[i].serial
       /\ \A k \in 1..Len(batch) :
            k # i /\ batch[k].src = "client" => batch[k].fd # batch[i].fd

DispatchInv == TypeOK /\ WatchInv /\ BatchInv

\* Events of clients carry a descriptor number and a serial number.
LEMMA ClientEventTyped ==
  ASSUME TypeOK, NEW i \in 1..Len(batch), batch[i].src = "client"
  PROVE  batch[i].fd \in Fds /\ batch[i].serial \in Nat \ {0}
  <1>1. batch[i] \in ClientEvents \cup OtherEvents
    BY DEF TypeOK
  <1>2. batch[i] \in ClientEvents
    BY <1>1 DEF OtherEvents
  <1> QED
    BY <1>2, EventLoopAssumption DEF ClientEvents, Serials

\* Dispatching the first event leaves the others as they were, provided that
\* the Connections they are about are left alone.
LEMMA TakeKeepsBatch ==
  ASSUME TypeOK, BatchInv, NEW src, TakeEvent(src),
         ~mayFail => \A i \in 2..Len(batch) : batch[i].src = "client" =>
                       conns'[batch[i].fd] = conns[batch[i].fd]
  PROVE  BatchInv'
  <1>1. batch # <<>> /\ batch' = Tail(batch) /\ phase = "dispatch" /\ phase' = phase /\ mayFail' = mayFail
    BY DEF TakeEvent
  <1>2. Len(batch') = Len(batch) - 1 /\ \A i \in 1..Len(batch') : batch'[i] = batch[i + 1]
    BY <1>1, HeadTailProperties DEF TypeOK
  <1>3. \A i \in 1..Len(batch') : i + 1 \in 2..Len(batch) /\ i + 1 \in 1..Len(batch)
    BY <1>2 DEF TypeOK
  <1>4. \A i, k \in 1..Len(batch') : i # k => i + 1 # k + 1
    OBVIOUS
  <1> QED
    BY <1>1, <1>2, <1>3, <1>4 DEF BatchInv

\* Every step preserves the batch invariant.  Within a batch a Connection is
\* closed only by its own event, of which there is one, and an accept gets a
\* number without a Connection, which no event still waiting can carry; the
\* sweep runs when the batch is over.
LEMMA BatchStep == DispatchInv /\ [Next]_vars => BatchInv'
  <1> SUFFICES ASSUME TypeOK, WatchInv, BatchInv, [Next]_vars PROVE BatchInv'
    BY DEF DispatchInv
  <1>b. ASSUME UNCHANGED <<conns, batch, mayFail>>, phase # "dispatch" \/ phase' = phase
        PROVE  BatchInv'
    BY <1>b DEF BatchInv
  <1>1. CASE EpollWait
    <2>1. PICK n \in 0..BatchSize : \E b \in [1..n -> Ready] :
              /\ \A i, k \in 1..n :
                   i # k => (b[i].src = "client" /\ b[k].src = "client" => b[i].fd # b[k].fd)
              /\ batch' = b
      BY <1>1 DEF EpollWait
    <2>2. batch' \in [1..n -> Ready] /\ n \in Nat
      BY <2>1, EventLoopAssumption
    <2>3. Len(batch') = n
      BY <2>2
    <2>4. \A e \in Ready : e.src = "client" => e.serial = reg[e.fd] /\ e.fd \in Fds
      BY DEF Ready
    <2>5. \A f \in Fds : conns'[f] = reg[f]
      BY <1>1 DEF EpollWait, table, WatchInv, ConnectionIsWatched
    <2>6. phase' = "dispatch"
      BY <1>1 DEF EpollWait
    <2> QED
      BY <2>1, <2>2, <2>3, <2>4, <2>5, <2>6 DEF BatchInv
  <1>2. CASE SkipEvent \/ ClientKeeps \/ AcceptFails \/ UpstreamCompletes
    BY <1>2, TakeKeepsBatch DEF SkipEvent, ClientKeeps, AcceptFails, UpstreamCompletes, table
  <1>3. CASE ClientCloses
    <2>1. TakeEvent("client") /\ conns' = [conns EXCEPT ![Event.fd] = 0]
      BY <1>3 DEF ClientCloses, CloseConnection
    <2>2. batch # <<>> /\ Event = batch[1] /\ batch[1].src = "client" /\ Len(batch) \in Nat /\ Len(batch) >= 1
      BY <2>1, HeadTailProperties DEF TakeEvent, Event, TypeOK
    <2>3. \A i \in 2..Len(batch) : i \in 1..Len(batch) /\ i # 1
      BY <2>2
    <2>4. ASSUME ~mayFail, NEW i \in 2..Len(batch), batch[i].src = "client"
          PROVE  conns'[batch[i].fd] = conns[batch[i].fd]
      <3>1. batch[1].fd # batch[i].fd
        BY <2>2, <2>3, <2>4 DEF BatchInv
      <3>2. batch[i].fd \in Fds
        BY <2>3, <2>4, ClientEventTyped
      <3> QED
        BY <2>1, <2>2, <3>1, <3>2 DEF TypeOK
    <2> QED
      BY <2>1, <2>4, TakeKeepsBatch
  <1>4. CASE UpstreamClosesClient
    BY <1>4, TakeKeepsBatch DEF UpstreamClosesClient
  <1>5. CASE AcceptClient
    <2>1. PICK f \in Fds : RejectClient(f) \/ AdmitClient(f)
      BY <1>5 DEF AcceptClient
    <2>2. conns' = conns \/ (conns[f] = 0 /\ \A g \in Fds : g # f => conns'[g] = conns[g])
      BY <2>1 DEF RejectClient, AdmitClient, TypeOK
    <2>3. ASSUME ~mayFail, NEW i \in 2..Len(batch), batch[i].src = "client"
          PROVE  conns'[batch[i].fd] = conns[batch[i].fd]
      <3>1. i \in 1..Len(batch)
        BY DEF TypeOK
      <3>2. batch[i].fd \in Fds /\ conns[batch[i].fd] # 0
        BY <2>3, <3>1, ClientEventTyped DEF BatchInv
      <3> QED
        BY <2>2, <3>2
    <2> QED
      BY <1>5, <2>3, TakeKeepsBatch DEF AcceptClient
  <1>6. CASE BatchDone
    BY <1>6 DEF BatchDone, BatchInv, table
  <1>7. CASE Sweep
    <2>1. batch' = <<>>
      BY <1>7 DEF Sweep, BatchInv
    <2> QED
      BY <2>1 DEF BatchInv
  <1>8. CASE Reload \/ NextRound
    BY <1>8, <1>b DEF Reload, NextRound, table
  <1>9. CASE UNCHANGED vars
    BY <1>9, <1>b DEF vars
  <1> QED
    BY <1>1, <1>2, <1>3, <1>4, <1>5, <1>6, <1>7, <1>8, <1>9 DEF Next, Dispatch

\* Descriptors, Connections and the batch, always.
THEOREM DispatchCorrect == Spec => []DispatchInv
  <1>1. Init => BatchInv
    BY DEF Init, BatchInv
  <1>2. DispatchInv /\ [Next]_vars => BatchInv'
    BY BatchStep
  <1> QED
    BY <1>1, <1>2, TypeCorrect, WatchCorrect, PTL DEF Spec, DispatchInv

\* No event of a batch reaches a later owner of its descriptor number, as long
\* as proxied responses serialize.
THEOREM NoEventIsStale == Spec => []NoStaleEvent
  <1>1. DispatchInv => NoStaleEvent
    <2> SUFFICES ASSUME TypeOK, BatchInv, ~mayFail, batch # <<>>, Event.src = "client"
                 PROVE  conns[Event.fd] = Event.serial
      BY DEF DispatchInv, NoStaleEvent
    <2>1. 1 \in 1..Len(batch) /\ Event = batch[1]
      BY HeadTailProperties DEF Event, TypeOK
    <2> QED
      BY <2>1 DEF BatchInv
  <1> QED
    BY <1>1, DispatchCorrect, PTL

-----------------------------------------------------------------------------
(* Reload requests and configurations *)

\* The counters are numbers, and a SIGHUP asks for no edit yet to be made.
Counts ==
  /\ edits \in Nat /\ signals \in Nat /\ admins \in Nat
  /\ wanted \in Nat /\ tried \in Nat
  /\ successes \in Nat /\ failures \in Nat /\ generation \in Nat
  /\ wanted <= edits

\* Reloads that have been asked for and not been made.
Owed(b) == IF b THEN 1 ELSE 0
ReloadsOwed == Owed(pending) + Owed(flag) + Owed(pc \in {"reload", "tickReload"})

\* The accounting behind ReloadsAreRequested: a request is in at most one of
\* the three places, and moves from one to the next.
RequestsAccounted == successes + failures + ReloadsOwed <= signals + admins

ReloadInv == Counts /\ NoReloadForgotten /\ RequestsAccounted

\* A reload attempt is counted once, and adds one to the generation when it
\* succeeds.
LEMMA ReloadCounted ==
  ASSUME Counts, NEW path, PerformReload(path)
  PROVE  /\ successes' \in Nat /\ failures' \in Nat /\ generation' \in Nat
         /\ successes' + failures' = successes + failures + 1
         /\ generation' - generation = successes' - successes
         /\ pushed' = active' \/ (pushed' = pushed /\ active' = active)
         /\ path = source => tried' = edits
         /\ path # source => tried' = tried
  BY DEF PerformReload, TryReload, Publish, Counts

\* Init establishes the invariant.
LEMMA ReloadBegins == ReloadInit => ReloadInv
  <1> SUFFICES ASSUME ReloadInit PROVE ReloadInv
    OBVIOUS
  <1>1. ~pending /\ ~flag
    BY Zenon DEF ReloadInit
  <1>2. Counts /\ pc = "setup"
    BY DEF ReloadInit, Counts
  <1>3. wanted = 0 /\ tried = 0 /\ successes + failures = 0 /\ signals + admins = 0
    BY DEF ReloadInit
  <1> QED
    BY <1>1, <1>2, <1>3
       DEF ReloadInv, NoReloadForgotten, RequestsAccounted, ReloadsOwed, Owed

\* Every step preserves it: the signal handler moves a request from the pending
\* signal to the flag, the loop from the flag to the reload it then makes, and
\* a reload reads the file after the flag was cleared.
LEMMA ReloadStep == ReloadInv /\ [ReloadNext]_reloadVars => ReloadInv'
  <1> SUFFICES ASSUME ReloadInv, [ReloadNext]_reloadVars PROVE ReloadInv'
    OBVIOUS
  <1> USE ReloadAssumption
      DEF ReloadInv, Counts, NoReloadForgotten, RequestsAccounted, ReloadsOwed, Owed
  <1>1. ASSUME NEW p, NEW c, Edit(p, c) PROVE ReloadInv'
    BY <1>1 DEF Edit, signalVars, storeVars
  <1>2. CASE SendHup
    BY <1>2 DEF SendHup, storeVars
  <1>3. CASE SendTerm
    BY <1>3 DEF SendTerm, signalVars, storeVars
  <1>4. CASE HandlerStores
    <2>1. pending /\ ~pending' /\ flag'
      BY <1>4, Zenon DEF HandlerStores
    <2> QED
      BY <1>4, <2>1 DEF HandlerStores, operatorVars, storeVars
  <1>5. CASE HandlerWrites
    BY <1>5 DEF HandlerWrites, operatorVars, storeVars
  <1>6. ASSUME NEW ok, Setup(ok) PROVE ReloadInv'
    BY <1>6 DEF Setup, operatorVars, signalVars, storeVars
  <1>7. CASE EnterRun \/ Drain \/ EndBatch \/ LeaveLoop
    BY <1>7 DEF EnterRun, Drain, EndBatch, LeaveLoop, operatorVars, signalVars, storeVars
  <1>8. CASE Consume
    <2>1. ~flag'
      BY <1>8, Zenon DEF Consume
    <2>2. pc' \in {"reload", "tickReload"} <=> flag
      BY <1>8 DEF Consume
    <2> QED
      BY <1>8, <2>1, <2>2 DEF Consume, operatorVars, storeVars
  <1>9. CASE ReloadSource
    BY <1>9, ReloadCounted DEF ReloadSource, operatorVars, signalVars
  <1>10. ASSUME NEW p, AdminReload(p) PROVE ReloadInv'
    BY <1>10, ReloadCounted DEF AdminReload, operatorVars, signalVars
  <1>11. CASE UNCHANGED reloadVars
    BY <1>11 DEF reloadVars, operatorVars, signalVars, storeVars
  <1> QED
    BY <1>1, <1>2, <1>3, <1>4, <1>5, <1>6, <1>7, <1>8, <1>9, <1>10, <1>11
       DEF ReloadNext, Handler, Loop

\* The invariant holds always.
THEOREM ReloadCorrect == ReloadSpec => []ReloadInv
  BY ReloadBegins, ReloadStep, PTL DEF ReloadSpec

\* No SIGHUP is forgotten by request_reload, the eventfd callback and the
\* maintenance round, in whatever order they run.
THEOREM NoHupIsForgotten == ReloadSpec => []NoReloadForgotten
  BY ReloadCorrect, PTL DEF ReloadInv

\* consume_reload_request makes at most one reload of each request.
THEOREM NoReloadUnasked == ReloadSpec => []ReloadsAreRequested
  <1>1. ReloadInv => ReloadsAreRequested
    BY DEF ReloadInv, Counts, RequestsAccounted, ReloadsOwed, Owed, ReloadsAreRequested
  <1> QED
    BY <1>1, ReloadCorrect, PTL

-----------------------------------------------------------------------------
\* perform_reload is atomic: what is active was validated after its conversion to
\* numbers, is counted by the generation and was pushed before the next event,
\* whatever files try_reload rejected in between.
THEOREM ReloadAlwaysAtomic == ReloadSpec => []ReloadIsAtomic
  <1>1. ReloadInit => ReloadIsAtomic
    BY DEF ReloadInit, Default, ReloadIsAtomic, Valid, Validated
  <1>2. ReloadInv /\ ReloadIsAtomic /\ [ReloadNext]_reloadVars => ReloadIsAtomic'
    <2> SUFFICES ASSUME Counts, ReloadIsAtomic, [ReloadNext]_reloadVars PROVE ReloadIsAtomic'
      BY DEF ReloadInv
    <2>1. ASSUME NEW path, PerformReload(path) PROVE ReloadIsAtomic'
      <3>1. generation' = 1 + successes'
        BY <2>1, ReloadCounted DEF ReloadIsAtomic, Counts
      <3>2. pushed' = active' \/ (pushed' = pushed /\ active' = active)
        BY <2>1, ReloadCounted
      <3>3. Valid(active)'
        BY <2>1 DEF PerformReload, TryReload, Publish, ReloadIsAtomic, Valid
      <3> QED
        BY <3>1, <3>2, <3>3 DEF ReloadIsAtomic
    <2>2. CASE UNCHANGED storeVars
      BY <2>2 DEF ReloadIsAtomic, Valid, storeVars
    <2> QED
      BY <2>1, <2>2 DEF ReloadNext, Handler, Loop, Edit, SendHup, SendTerm, HandlerStores,
         HandlerWrites, Setup, EnterRun, Drain, EndBatch, Consume, LeaveLoop, ReloadSource,
         AdminReload, reloadVars
  <1> QED
    BY <1>1, <1>2, ReloadCorrect, PTL DEF ReloadSpec

\* What is_restart_required keeps out of the keys reported as applied.
HotIsHot == outcome.hot \subseteq {k \in Keys : ~IsRestartRequired(k)}

\* What a reload reports as applied is in effect from then on, through later
\* reloads that fail, wherever the code reads the key: from the active
\* configuration, or, for what refresh_runtime_limits and the logger were given,
\* from a copy made with it.  Excepted are the four keys of NotApplied, which the
\* reload reports too and which are read from the startup configuration or not
\* at all.
THEOREM HotIsAlwaysEffective == ReloadSpec => []HotIsEffective
  <1>1. ReloadInit => HotIsHot
    BY DEF ReloadInit, Idle, HotIsHot
  <1>2. HotIsHot /\ [ReloadNext]_reloadVars => HotIsHot'
    <2> SUFFICES ASSUME HotIsHot, [ReloadNext]_reloadVars PROVE HotIsHot'
      OBVIOUS
    <2>1. ASSUME NEW path, PerformReload(path) PROVE HotIsHot'
      BY <2>1 DEF PerformReload, TryReload, Publish, DiffKeys, HotIsHot
    <2>2. CASE UNCHANGED storeVars
      BY <2>2 DEF HotIsHot, storeVars
    <2> QED
      BY <2>1, <2>2 DEF ReloadNext, Handler, Loop, Edit, SendHup, SendTerm, HandlerStores,
         HandlerWrites, Setup, EnterRun, Drain, EndBatch, Consume, LeaveLoop, ReloadSource,
         AdminReload, reloadVars
  <1>3. HotIsHot /\ ReloadIsAtomic => HotIsEffective
    <2> SUFFICES ASSUME HotIsHot, ReloadIsAtomic, NEW k \in outcome.hot \ NotApplied
                 PROVE  InEffect(k)
      BY DEF HotIsEffective
    <2>1. k \in Keys /\ k # "workers"
      BY DEF HotIsHot, IsRestartRequired
    <2>2. CASE k \in Pushed
      <3>1. ReadFrom(k) = {"pushed"}
        BY <2>2 DEF ReadFrom, Pushed
      <3>2. pushed[k] = active[k]
        BY <2>1, <2>2 DEF ReloadIsAtomic
      <3> QED
        BY <3>1, <3>2 DEF InEffect, Copy
    <2>3. CASE k \notin Pushed
      <3>1. ReadFrom(k) = {"active"}
        BY <2>1, <2>3 DEF ReadFrom, NotApplied
      <3> QED
        BY <3>1 DEF InEffect, Copy
    <2> QED
      BY <2>2, <2>3
  <1> QED
    BY <1>1, <1>2, <1>3, ReloadAlwaysAtomic, PTL DEF ReloadSpec
=============================================================================
