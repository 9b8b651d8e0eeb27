----------------------------- MODULE EventLoop ------------------------------
(***************************************************************************)
(* Who owns a descriptor: EventLoop (fd_callbacks_ and the kernel's epoll  *)
(* set), ConnectionManager (fd -> Connection) and the callbacks that       *)
(* main.cpp registers.  Descriptors are numbers the kernel hands out again *)
(* as soon as they are closed; serial numbers identify the sockets behind  *)
(* them.  One thread runs everything, but a batch of events is collected   *)
(* before its first callback runs, so later events of a batch can be older *)
(* than what earlier callbacks did.                                        *)
(***************************************************************************)
EXTENDS Naturals, Sequences, FiniteSets, SequencesExt

CONSTANTS Fds,              \* descriptor numbers the process may get
          MaxSerial,        \* bound: sockets accepted in a behaviour
          Limits,           \* values of max_connections, over reloads
          BatchSize,        \* MAX_EVENTS of epoll_wait
          Upstreams         \* mayFail may be any of these

ASSUME EventLoopAssumption ==
  /\ MaxSerial \in Nat
  /\ Limits \subseteq Nat \ {0} /\ Limits # {}
  /\ BatchSize \in Nat \ {0}
  /\ Upstreams \subseteq BOOLEAN /\ Upstreams # {}

VARIABLES
  sock,    \* sock[f]: serial of the open socket behind f, 0 when f is closed
  reg,     \* reg[f]: serial whose registration epoll holds for f, 0 for none
  cbs,     \* cbs[f]: serial whose accept stored fd_callbacks_[f], 0 for none
  conns,   \* conns[f]: serial of the Connection in connections_[f], 0 for none
  accepted,\* number of sockets accepted so far
  limit,   \* max_connections of the current snapshot
  batch,   \* events of the current epoll_wait still to be dispatched
  phase,   \* "wait", "dispatch" or "maintain" (after EventLoop::run)
  mayFail  \* does the upstream send headers that cannot be serialized?

vars == <<sock, reg, cbs, conns, accepted, limit, batch, phase, mayFail>>
table == <<sock, reg, cbs, conns>>

Serials == 1..MaxSerial
ClientEvents == [src : {"client"}, fd : Fds, serial : Serials, hup : BOOLEAN]
OtherEvents == {[src |-> "listener"]} \cup [src : {"upstream"}, client : Serials]

TypeOK ==
  /\ sock \in [Fds -> 0..MaxSerial]
  /\ reg \in [Fds -> 0..MaxSerial]
  /\ cbs \in [Fds -> 0..MaxSerial]
  /\ conns \in [Fds -> 0..MaxSerial]
  /\ accepted \in 0..MaxSerial
  /\ limit \in Limits
  /\ batch \in Seq(ClientEvents \cup OtherEvents)
  /\ phase \in {"wait", "dispatch", "maintain"}
  /\ mayFail \in BOOLEAN

Init ==
  /\ sock = [f \in Fds |-> 0]
  /\ reg = [f \in Fds |-> 0]
  /\ cbs = [f \in Fds |-> 0]
  /\ conns = [f \in Fds |-> 0]
  /\ accepted = 0
  /\ limit \in Limits
  /\ batch = <<>>
  /\ phase = "wait"
  /\ mayFail \in Upstreams

Live == {f \in Fds : conns[f] # 0}
AtCapacity == Cardinality(Live) >= limit

\* get_connection_by_id: the descriptor of the Connection, if it is still there.
ClientById(n) == {f \in Live : conns[f] = n}

-----------------------------------------------------------------------------
(* epoll_wait *)

\* What may be ready: the listener, upstream sockets that finish an exchange
\* for some client accepted so far (possibly gone by now), and every
\* registered client.  HUP and ERR are reported whatever the interest mask.
Ready ==
  {[src |-> "listener"]}
  \cup {[src |-> "upstream", client |-> n] : n \in 1..accepted}
  \cup {[src |-> "client", fd |-> f, serial |-> reg[f], hup |-> h] :
          f \in {g \in Fds : reg[g] # 0}, h \in BOOLEAN}

\* One batch: each source is reported once, in any order; an empty batch is
\* the one-second timeout or EINTR.
EpollWait ==
  /\ phase = "wait"
  /\ \E n \in 0..BatchSize : \E b \in [1..n -> Ready] :
       /\ \A i, k \in 1..n :
            i # k => /\ b[i].src # b[k].src \/ b[i].src # "listener"
                     /\ b[i].src = "client" /\ b[k].src = "client" => b[i].fd # b[k].fd
       /\ batch' = b
  /\ phase' = "dispatch"
  /\ UNCHANGED <<table, accepted, limit, mayFail>>

Event == Head(batch)

\* The next event of the batch is taken; its callback runs to completion.
TakeEvent(src) ==
  /\ phase = "dispatch"
  /\ batch # <<>>
  /\ Event.src = src
  /\ batch' = Tail(batch)
  /\ UNCHANGED <<limit, phase, mayFail>>

-----------------------------------------------------------------------------
(* EventLoop and ConnectionManager operations, on one descriptor *)

\* Mutant of AddFd: a callback that is already stored is kept (emplace).
AddFdKeep(f, n) ==
  /\ cbs' = [cbs EXCEPT ![f] = IF @ = 0 THEN n ELSE @]
  /\ reg' = [reg EXCEPT ![f] = n]

\* add_fd overwrites whatever callback the number had.
AddFd(f, n) ==
  /\ cbs' = [cbs EXCEPT ![f] = n]
  /\ reg' = [reg EXCEPT ![f] = n]

\* remove_fd then remove_connection: the Connection's destructor closes the
\* descriptor.
CloseConnection(f) ==
  /\ reg' = [reg EXCEPT ![f] = 0]
  /\ cbs' = [cbs EXCEPT ![f] = 0]
  /\ conns' = [conns EXCEPT ![f] = 0]
  /\ sock' = [sock EXCEPT ![f] = 0]

-----------------------------------------------------------------------------
(* Dispatch *)

\* No callback is stored for the descriptor: the event is skipped.
SkipEvent ==
  /\ TakeEvent("client")
  /\ cbs[Event.fd] = 0
  /\ UNCHANGED <<table, accepted>>

\* The client callback; it captured only the descriptor number.  One event may
\* invoke it twice, as Readable and as Writable or Hangup; when the first call
\* closes the connection the second finds it gone and has nothing to remove,
\* so both are one step.  No other event reaches a callback whose Connection is
\* gone: the kernel reports nothing for a closed descriptor, and every close
\* inside a batch erases the callback too.
ClientKeeps ==
  /\ TakeEvent("client")
  /\ cbs[Event.fd] # 0
  /\ conns[Event.fd] # 0
  /\ ~Event.hup
  /\ UNCHANGED <<table, accepted>>

\* A handler returned false, or the event was an error or a hangup.
ClientCloses ==
  /\ TakeEvent("client")
  /\ cbs[Event.fd] # 0
  /\ conns[Event.fd] # 0
  /\ CloseConnection(Event.fd)
  /\ UNCHANGED accepted

\* accept gave descriptor f, but register_connection returns nullptr: at
\* capacity.  The number is dropped, the socket stays open.
RejectClient(f) ==
  /\ AtCapacity
  /\ sock' = [sock EXCEPT ![f] = accepted + 1]
  /\ UNCHANGED <<reg, cbs, conns>>

AdmitClient(f) ==
  /\ ~AtCapacity
  /\ conns[f] = 0
  /\ sock' = [sock EXCEPT ![f] = accepted + 1]
  /\ conns' = [conns EXCEPT ![f] = accepted + 1]
  /\ AddFd(f, accepted + 1)

\* The listener callback: one accept per event.
AcceptClient ==
  /\ TakeEvent("listener")
  /\ accepted < MaxSerial
  /\ \E f \in Fds : /\ sock[f] = 0
                    /\ RejectClient(f) \/ AdmitClient(f)
  /\ accepted' = accepted + 1

\* accept failed: nobody is waiting any more, or no descriptor is free.
AcceptFails ==
  /\ TakeEvent("listener")
  /\ UNCHANGED <<table, accepted>>

\* The proxy's completion callback.  The client is looked up by id; its
\* response is queued (or there is no such client any more) ...
UpstreamCompletes ==
  /\ TakeEvent("upstream")
  /\ UNCHANGED <<table, accepted>>

\* ... or cannot be serialized, and the client is closed from within an event
\* of another descriptor.
UpstreamClosesClient ==
  /\ mayFail
  /\ TakeEvent("upstream")
  /\ \E f \in ClientById(Event.client) : CloseConnection(f)
  /\ UNCHANGED accepted

BatchDone ==
  /\ phase = "dispatch"
  /\ batch = <<>>
  /\ phase' = "maintain"
  /\ UNCHANGED <<table, accepted, limit, batch, mayFail>>

-----------------------------------------------------------------------------
(* The maintenance part of the main loop *)

\* Mutant of Sweep: timeouts are enforced between two callbacks of a batch.
SweepMidBatch ==
  /\ phase # "wait"
  /\ \E dead \in SUBSET Live \ {{}} :
       /\ sock' = [f \in Fds |-> IF f \in dead THEN 0 ELSE sock[f]]
       /\ conns' = [f \in Fds |-> IF f \in dead THEN 0 ELSE conns[f]]
       /\ reg' = [f \in Fds |-> IF f \in dead THEN 0 ELSE reg[f]]
  /\ UNCHANGED <<cbs, accepted, limit, batch, phase, mayFail>>

\* ConnectionManager::sweep_timeouts erases whatever timed out.  Destroying a
\* Connection closes its descriptor, and the kernel forgets the registration
\* of a closed descriptor; fd_callbacks_ is not touched.
Sweep ==
  /\ phase = "maintain"
  /\ \E dead \in SUBSET Live \ {{}} :
       /\ sock' = [f \in Fds |-> IF f \in dead THEN 0 ELSE sock[f]]
       /\ conns' = [f \in Fds |-> IF f \in dead THEN 0 ELSE conns[f]]
       /\ reg' = [f \in Fds |-> IF f \in dead THEN 0 ELSE reg[f]]
  /\ UNCHANGED <<cbs, accepted, limit, batch, phase, mayFail>>

\* perform_reload: the next register_connection reads the new limit.
Reload ==
  /\ phase = "maintain"
  /\ limit' \in Limits \ {limit}
  /\ UNCHANGED <<table, accepted, batch, phase, mayFail>>

NextRound ==
  /\ phase = "maintain"
  /\ phase' = "wait"
  /\ UNCHANGED <<table, accepted, limit, batch, mayFail>>

Dispatch == \/ SkipEvent \/ ClientKeeps \/ ClientCloses
            \/ AcceptClient \/ AcceptFails \/ UpstreamCompletes \/ UpstreamClosesClient
            \/ BatchDone

Next == EpollWait \/ Dispatch \/ Sweep \/ Reload \/ NextRound

Spec == Init /\ [][Next]_vars

-----------------------------------------------------------------------------
(* Properties *)

\* Whatever was closed, swept and accepted again on the same number, epoll
\* watches exactly the sockets that some Connection owns (an event nobody can
\* consume would make the loop spin), and the callback stored for the number of
\* a live Connection is the one its own accept registered.
ConnectionIsWatched ==
  \A f \in Fds : /\ reg[f] = conns[f]
                 /\ conns[f] # 0 => sock[f] = conns[f] /\ cbs[f] = conns[f]

\* A callback acts only on the socket its event was reported for: no event of
\* a batch reaches a later owner of its descriptor number.  This rests on
\* proxied responses that serialize; one that does not closes a client whose
\* own event may still be in the batch, and a later accept inherits the event.
NoStaleEvent ==
  ~mayFail /\ phase = "dispatch" /\ batch # <<>> /\ Event.src = "client" =>
    conns[Event.fd] \in {0, Event.serial}

\* "One owner per descriptor": an open client socket belongs to a Connection,
\* which will close it.
EveryDescriptorOwned == \A f \in Fds : sock[f] # 0 => conns[f] = sock[f]
=============================================================================
