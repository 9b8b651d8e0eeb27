------------------------------ MODULE Deadline ------------------------------
(***************************************************************************)
(* Which timeout a connection is held to: Connection::set_deadline turns   *)
(* the connection's states into one of the configured budgets, and         *)
(* has_deadline_exceeded lets the sweep drop the connection.  Time itself  *)
(* is left out: a deadline that is set may pass at any moment.             *)
(***************************************************************************)

ConnectionStates == {"New", "TlsHandshake", "Reading", "Writing", "Waiting", "Closing", "Closed"}
ReadStates == {"Idle", "Headers", "Body", "Complete", "Error"}
WriteStates == {"Idle", "Headers", "Body", "Complete", "Error"}

\* WebSocketState, "none" before the upgrade.
SessionStates == {"none", "Established", "Closing", "Closed"}

\* The timeouts set_deadline chooses from.
Budgets == {"unlimited", "header", "body", "write", "keepAlive", "wsClose"}

Flushing(wstate) == wstate \in {"Headers", "Body"}

\* Connection::set_deadline.  session is "none" until begin_websocket.
Budget(active, cstate, rstate, wstate, session) ==
  CASE active -> "unlimited"
    [] ~active /\ cstate = "TlsHandshake" -> "header"
    [] ~active /\ cstate # "TlsHandshake" /\ session # "none" ->
         IF Flushing(wstate) THEN "write"
         ELSE IF session = "Closing" THEN "wsClose" ELSE "keepAlive"
    [] ~active /\ cstate # "TlsHandshake" /\ session = "none" ->
         IF rstate = "Headers" THEN "header"
         ELSE IF rstate = "Body" THEN "body"
         ELSE IF Flushing(wstate) THEN "write"
         ELSE IF cstate = "Waiting" THEN "keepAlive" ELSE "unlimited"

\* Connection::has_deadline_exceeded, at a moment when a deadline that is set
\* has passed.
MayExpire(active, budget) == ~active /\ budget # "unlimited"
=============================================================================
