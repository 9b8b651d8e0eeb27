---------------------------- MODULE ConfigReload ----------------------------
(***************************************************************************)
(* Hot reload: the operator edits files and sends SIGHUP, the handler sets *)
(* a flag and writes an eventfd, and the loop thread consumes the flag and *)
(* reloads, in the eventfd's callback or in its maintenance round.  The    *)
(* admin route reloads too, from any file of the configuration directory.  *)
(*                                                                         *)
(* A configuration is a function from keys to small values, 0 being zero   *)
(* (for log_level, an unknown name).  A file holds the text of each key:   *)
(* <<>> if it is not there or no number can be read from it, else <<n>>.   *)
(*                                                                         *)
(* The loop thread is also EventLoop's: what a specification is made of is *)
(* named after the reload here, so that a module can extend both.          *)
(***************************************************************************)
EXTENDS Integers, FiniteSets

CONSTANTS Keys,       \* the configuration keys considered
          Written,    \* what the operator may write into a file
          MaxEdits,   \* bound: edits by the operator
          MaxSignals, \* bound: SIGHUPs sent
          MaxAdmin    \* bound: admin reloads

AllKeys == {"workers", "document_root", "header_timeout_ms", "write_timeout_ms",
            "max_buffer_size", "max_request_body", "log_level", "admin_token",
            "proxy_strip_prefix", "proxy_read_timeout_ms", "proxy_max_idle_connections"}

\* Values are as wide as their type: 0..Modulus - 1.
Modulus == 3
Values == 0..(Modulus - 1)
Configs == [Keys -> Values]
Texts == {<<>>} \cup {<<n>> : n \in -Modulus..(2 * Modulus)}
Default == [k \in Keys |-> 1]
Paths == {"main", "other"}
NoPath == "none"

ASSUME ReloadAssumption ==
  /\ Keys \subseteq AllKeys
  /\ Written \subseteq [Keys -> Texts]
  /\ MaxEdits \in Nat /\ MaxSignals \in Nat /\ MaxAdmin \in Nat

\* A file that is not there cannot be opened.
Contents == {<<>>} \cup {<<text>> : text \in Written}

VARIABLES
  files,      \* the configuration files on disk
  edits,      \* edits so far
  signals,    \* SIGHUPs sent so far
  pending,    \* a SIGHUP waits for delivery
  handler,    \* "stored" between the flag and the write of request_reload
  flag,       \* reload_requested_
  notify,     \* reload_notify_fd_ is set
  eventfd,    \* counter of the reload eventfd
  pc,         \* where the loop thread is
  admins,     \* admin reloads so far
  stop,       \* shutdown_requested_
  startup,    \* the configuration the process was started with
  active,     \* active_
  generation, \* generation_
  source,     \* source_path_
  successes, failures, lastError,
  pushed,     \* the values handed to the logger and the upstream pool
  outcome,    \* the last ConfigReloadOutcome: keys reported as applied and as
              \* needing a restart
  wanted,     \* history: the edits made before the last SIGHUP
  tried       \* history: the edits the last reload of source has seen

operatorVars == <<files, edits, signals, stop, wanted>>
signalVars == <<pending, handler, flag, eventfd>>
storeVars == <<active, generation, source, successes, failures, lastError,
               pushed, outcome, tried>>
reloadVars == <<operatorVars, signalVars, notify, pc, admins, startup, storeVars>>

Idle == [hot |-> {}, restart |-> {}]

ReloadTypeOK ==
  /\ files \in [Paths -> Contents \cup {<<[k \in Keys |-> <<>>]>>}]
  /\ edits \in 0..MaxEdits /\ signals \in 0..MaxSignals /\ admins \in 0..MaxAdmin
  /\ pending \in BOOLEAN /\ handler \in {"none", "stored"} /\ flag \in BOOLEAN
  /\ notify \in BOOLEAN /\ eventfd \in 0..MaxSignals
  /\ pc \in {"setup", "poll", "batch", "drained", "reload", "tick", "tickReload", "stopped"}
  /\ stop \in BOOLEAN
  /\ startup \in Configs /\ active \in Configs
  /\ generation \in 1..(1 + MaxSignals + MaxAdmin)
  /\ source \in Paths \cup {NoPath}
  /\ successes \in Nat /\ failures \in Nat /\ lastError \in BOOLEAN
  /\ pushed \in Configs
  /\ outcome.hot \subseteq Keys /\ outcome.restart \subseteq Keys
  /\ wanted \in 0..MaxEdits /\ tried \in 0..MaxEdits

\* main: the file, then --root, if given, on top of it.
ReloadInit ==
  /\ files = [p \in Paths |-> <<[k \in Keys |-> <<>>]>>]
  /\ startup \in {Default, [k \in Keys |-> IF k = "document_root" THEN 2 ELSE 1]}
  /\ active = startup /\ pushed = startup
  /\ generation = 1 /\ source \in {"main", NoPath}
  /\ successes = 0 /\ failures = 0 /\ lastError = FALSE
  /\ outcome = Idle
  /\ edits = 0 /\ signals = 0 /\ admins = 0 /\ wanted = 0 /\ tried = 0
  /\ pending = FALSE /\ handler = "none" /\ flag = FALSE
  /\ notify = FALSE /\ eventfd = 0
  /\ pc = "setup"
  /\ stop = FALSE

-----------------------------------------------------------------------------
(* The operator *)

Edit(p, c) ==
  /\ edits < MaxEdits
  /\ edits' = edits + 1
  /\ files' = [files EXCEPT ![p] = c]
  /\ UNCHANGED <<signals, stop, wanted, signalVars, notify, pc, admins, startup, storeVars>>

\* A SIGHUP sent while one is pending is merged with it.
SendHup ==
  /\ signals < MaxSignals
  /\ signals' = signals + 1
  /\ pending' = TRUE
  /\ wanted' = edits
  /\ UNCHANGED <<files, edits, stop, handler, flag, eventfd, notify, pc, admins, startup, storeVars>>

\* SIGTERM, and request_shutdown.
SendTerm ==
  /\ stop' = TRUE
  /\ UNCHANGED <<files, edits, signals, wanted, signalVars, notify, pc, admins, startup, storeVars>>

-----------------------------------------------------------------------------
(* The signal handler, on whichever thread *)

\* request_reload stores the flag, then writes the eventfd if it knows one.
HandlerStores ==
  /\ pending /\ handler = "none"
  /\ pending' = FALSE
  /\ handler' = "stored"
  /\ flag' = TRUE
  /\ UNCHANGED <<operatorVars, eventfd, notify, pc, admins, startup, storeVars>>

HandlerWrites ==
  /\ handler = "stored"
  /\ handler' = "none"
  /\ eventfd' = IF notify THEN eventfd + 1 ELSE eventfd
  /\ UNCHANGED <<operatorVars, pending, flag, notify, pc, admins, startup, storeVars>>

-----------------------------------------------------------------------------
(* ServerConfigStore *)

\* Handed to the logger and to the upstream pool when a reload succeeds.
Pushed == {"log_level", "proxy_max_idle_connections"}

\* The copies of the configuration a key is read from: the pool is built and the
\* target rewritten (ProxyHandler::start) from the startup one, a keepalive ping
\* sets its write deadline from the startup one too (maintain_websockets), and
\* nobody reads the two sizes.
ReadFrom(k) ==
  CASE k \in {"workers", "proxy_strip_prefix"} -> {"startup"}
    [] k = "write_timeout_ms" -> {"active", "startup"}
    [] k \in {"max_buffer_size", "max_request_body"} -> {}
    [] k \in Pushed -> {"pushed"}
    [] OTHER -> {"active"}

\* Mutant of IsRestartRequired: a key is missing from the table.
IsRestartRequiredNot(k) == FALSE

IsRestartRequired(k) == k = "workers"

Copy(from) == CASE from = "startup" -> startup [] from = "pushed" -> pushed [] from = "active" -> active

\* Wherever the key is read, the value is that of the last reload.
InEffect(k) == ReadFrom(k) # {} /\ \A from \in ReadFrom(k) : Copy(from)[k] = active[k]

\* get_int and the cast that follows it: 2^w and more wraps around, and so does
\* a negative number.
Numeric == AllKeys \ {"document_root", "log_level", "admin_token", "proxy_strip_prefix"}
Convert(k, n) ==
  IF k \in Numeric THEN n % Modulus
  ELSE IF n \in Values THEN n
  ELSE IF k = "proxy_strip_prefix" THEN Default[k] ELSE 0

\* load_from_parser, on a fresh ServerConfig: what the file does not say has its
\* default, not the active value.
Load(text) == [k \in Keys |-> IF text[k] = <<>> THEN Default[k] ELSE Convert(k, text[k][1])]

\* It refuses these at zero, once all are converted; the proxy's timeouts are not
\* among them.
Validated == {"workers", "header_timeout_ms", "write_timeout_ms", "max_buffer_size",
              "max_request_body", "log_level"}
Valid(c) == \A k \in Keys \cap Validated : c[k] # 0

\* flatten renders a secret by its length: here, set or not.
Rendered(k, v) == IF k = "admin_token" THEN (IF v = 0 THEN 0 ELSE 1) ELSE v
DiffKeys(old, new) == {k \in Keys : Rendered(k, old[k]) # Rendered(k, new[k])}

Publish(path, c) ==
  /\ active' = c
  /\ generation' = generation + 1
  /\ outcome' = [hot |-> {k \in DiffKeys(active, c) : ~IsRestartRequired(k)},
                 restart |-> {k \in DiffKeys(active, c) : IsRestartRequired(k)}]
  /\ source' = path
  /\ lastError' = FALSE
  /\ successes' = successes + 1

\* Mutant of TryReload: the numbers are validated as they are written.
TryReloadEager(path) ==
  LET text == files[path][1]
      AsWritten == [k \in Keys |-> IF text[k] = <<>> THEN Default[k] ELSE text[k][1]]
  IN IF path # NoPath /\ files[path] # <<>> /\ Valid(AsWritten)
     THEN Publish(path, Load(text)) /\ UNCHANGED failures
     ELSE /\ failures' = failures + 1
          /\ lastError' = TRUE
          /\ UNCHANGED <<active, generation, source, successes, outcome>>

\* try_reload and try_reload_from_parser: the candidate is built on the side.
TryReload(path) ==
  IF path # NoPath /\ files[path] # <<>> /\ Valid(Load(files[path][1]))
  THEN Publish(path, Load(files[path][1])) /\ UNCHANGED failures
  ELSE /\ failures' = failures + 1
       /\ lastError' = TRUE
       /\ UNCHANGED <<active, generation, source, successes, outcome>>

\* perform_reload: a success is pushed to the logger and to the upstream pool.
PerformReload(path) ==
  /\ TryReload(path)
  /\ pushed' = IF generation' # generation THEN active' ELSE pushed
  /\ tried' = IF path = source THEN edits ELSE tried

-----------------------------------------------------------------------------
(* The loop thread *)

\* The eventfd is created and registered, or the loop falls back to polling.
Setup(ok) ==
  /\ pc = "setup"
  /\ notify' = ok
  /\ pc' = "poll"
  /\ UNCHANGED <<operatorVars, signalVars, admins, startup, storeVars>>

\* The loop condition holds: EventLoop::run waits for a batch of events.
EnterRun ==
  /\ pc = "poll" /\ ~stop
  /\ pc' = "batch"
  /\ UNCHANGED <<operatorVars, signalVars, notify, admins, startup, storeVars>>

\* The eventfd is in the batch: its callback drains the counter.
Drain ==
  /\ pc = "batch"
  /\ eventfd > 0
  /\ eventfd' = 0
  /\ pc' = "drained"
  /\ UNCHANGED <<operatorVars, pending, handler, flag, notify, admins, startup, storeVars>>

\* The batch is done, or nothing came within a second.
EndBatch ==
  /\ pc = "batch"
  /\ pc' = "tick"
  /\ UNCHANGED <<operatorVars, signalVars, notify, admins, startup, storeVars>>

\* Mutant of Consume: the callback clears the flag and leaves the reload to the
\* maintenance round, which then finds nothing to do.
ConsumeInCallback ==
  /\ pc \in {"drained", "tick"}
  /\ flag' = FALSE
  /\ pc' = IF pc = "drained" THEN "batch" ELSE IF flag THEN "tickReload" ELSE "poll"
  /\ UNCHANGED <<operatorVars, pending, handler, eventfd, notify, admins, startup, storeVars>>

\* Mutant of Consume: the flag is read and not cleared.
ConsumeKeeps ==
  /\ pc \in {"drained", "tick"}
  /\ pc' = CASE pc = "drained" /\ flag -> "reload"
             [] pc = "drained" /\ ~flag -> "batch"
             [] pc = "tick" /\ flag -> "tickReload"
             [] pc = "tick" /\ ~flag -> "poll"
  /\ UNCHANGED <<operatorVars, signalVars, notify, admins, startup, storeVars>>

\* consume_reload_request: compare-and-swap on the flag, in the callback or in
\* the maintenance round that follows it.
Consume ==
  /\ pc \in {"drained", "tick"}
  /\ flag' = FALSE
  /\ pc' = CASE pc = "drained" /\ flag -> "reload"
             [] pc = "drained" /\ ~flag -> "batch"
             [] pc = "tick" /\ flag -> "tickReload"
             [] pc = "tick" /\ ~flag -> "poll"
  /\ UNCHANGED <<operatorVars, pending, handler, eventfd, notify, admins, startup, storeVars>>

ReloadSource ==
  /\ pc \in {"reload", "tickReload"}
  /\ PerformReload(source)
  /\ pc' = IF pc = "reload" THEN "batch" ELSE "poll"
  /\ UNCHANGED <<operatorVars, signalVars, notify, admins, startup>>

\* reload_path_allowed: no override, or a configured file whose directory the
\* path is in (both Paths are).
ReloadPathAllowed(path) == path = source \/ (path # NoPath /\ source # NoPath)

\* POST /admin/reload-config, with or without a path, among the loop's events.
AdminReload(path) ==
  /\ pc = "batch"
  /\ ReloadPathAllowed(path)
  /\ admins < MaxAdmin
  /\ admins' = admins + 1
  /\ PerformReload(path)
  /\ UNCHANGED <<operatorVars, signalVars, notify, pc, startup>>

LeaveLoop ==
  /\ pc = "poll" /\ stop
  /\ pc' = "stopped"
  /\ UNCHANGED <<operatorVars, signalVars, notify, admins, startup, storeVars>>

Handler == HandlerStores \/ HandlerWrites
Loop == \/ \E ok \in BOOLEAN : Setup(ok)
        \/ EnterRun \/ Drain \/ EndBatch \/ Consume \/ ReloadSource \/ LeaveLoop

ReloadNext ==
  \/ \E p \in Paths, c \in Contents : Edit(p, c)
  \/ SendHup \/ SendTerm
  \/ Handler
  \/ Loop
  \/ \E p \in Paths \cup {NoPath} : AdminReload(p)

ReloadSpec == ReloadInit /\ [][ReloadNext]_reloadVars

\* Signals are delivered and the loop thread runs: epoll_wait never blocks for
\* more than a second.
FairSpec == ReloadSpec /\ WF_reloadVars(Handler) /\ WF_reloadVars(Loop)

-----------------------------------------------------------------------------
(* Properties *)

\* No SIGHUP is forgotten, however it falls between the drain, the compare-and-
\* swap and the reading of the file: unless a reload of the configured file has
\* read every edit made before the signal, one is still on its way.
NoReloadForgotten ==
  wanted > tried => pending \/ flag \/ pc \in {"reload", "tickReload"}

\* Bursts collapse: there are never more reloads than requests for one.
ReloadsAreRequested == successes + failures <= signals + admins

\* A reload happens as a whole or not at all, whoever asked for it and whatever
\* is in the files: what is served passed validation, the generation counts the
\* swaps, and the values that had to be pushed are those of the active
\* configuration.
ReloadIsAtomic ==
  /\ Valid(active)
  /\ generation = 1 + successes
  /\ \A k \in Keys \cap Pushed : pushed[k] = active[k]

\* A SIGHUP is honoured: the edits made before it are read, in the end.
HupHonoured ==
  \A v \in 1..MaxEdits : wanted = v ~> tried >= v \/ stop

\* Reported as applied, and not in effect, or not everywhere: the handler and
\* the ping read the startup configuration, and nothing reads the sizes.
NotApplied == {"proxy_strip_prefix", "write_timeout_ms", "max_buffer_size", "max_request_body"}

\* "Everything else is read from a fresh snapshot per request or per maintenance
\* pass and therefore applies immediately" (is_restart_required): what a reload
\* reports as applied is in effect wherever the code reads it, later reloads
\* that fail included, but for the four keys above, of which it is not true.
HotIsEffective == \A k \in outcome.hot \ NotApplied : InEffect(k)
=============================================================================
