------------------------- MODULE CompletionService -------------------------
(***************************************************************************)
(* What the two asynchronous back ends of the server promise to the event  *)
(* loop, the worker pool (worker_pool.h, worker_completion_handler.cpp)    *)
(* and the reverse proxy (proxy_handler.cpp): a request that was handed    *)
(* over is settled at most once, its answer reaches the connection that    *)
(* asked if that connection still exists and is dropped otherwise, and     *)
(* nothing is settled once the event loop has gone.                        *)
(*                                                                         *)
(* The detailed modules WorkerPipeline and ProxyExchange are shown to      *)
(* implement this specification.                                           *)
(***************************************************************************)
CONSTANTS Conns,     \* connection ids; next_connection_id_ never reuses one
          Jobs,      \* requests handed to the back end
          ConnOf     \* the connection each request came from

VARIABLES conn,      \* conn[c]: "new", "open" (in connections_) or "closed"
          fate,      \* fate[j]: "idle", "pending", "applied" or "discarded"
          up         \* the event loop still runs

cvars == <<conn, fate, up>>

CSInit == /\ conn = [c \in Conns |-> "new"]
          /\ fate = [j \in Jobs |-> "idle"]
          /\ up = TRUE

Open(c) == /\ up
           /\ conn[c] = "new"
           /\ conn' = [conn EXCEPT ![c] = "open"]
           /\ UNCHANGED <<fate, up>>

Close(c) == /\ up
            /\ conn[c] = "open"
            /\ conn' = [conn EXCEPT ![c] = "closed"]
            /\ UNCHANGED <<fate, up>>

Request(j) == /\ up
              /\ fate[j] = "idle"
              /\ conn[ConnOf[j]] = "open"
              /\ fate' = [fate EXCEPT ![j] = "pending"]
              /\ UNCHANGED <<conn, up>>

\* The back end cannot start and answers within the call.
Refuse(j) == /\ up
             /\ fate[j] = "idle"
             /\ conn[ConnOf[j]] = "open"
             /\ fate' = [fate EXCEPT ![j] = "applied"]
             /\ UNCHANGED <<conn, up>>

Settle(j) == /\ up
             /\ fate[j] = "pending"
             /\ fate' = [fate EXCEPT ![j] = IF conn[ConnOf[j]] = "open"
                                            THEN "applied" ELSE "discarded"]
             /\ UNCHANGED <<conn, up>>

Stop == /\ up
        /\ up' = FALSE
        /\ conn' = [c \in Conns |-> IF conn[c] = "open" THEN "closed" ELSE conn[c]]
        /\ UNCHANGED fate

CSNext == \/ \E c \in Conns : Open(c) \/ Close(c)
          \/ \E j \in Jobs : Request(j) \/ Refuse(j) \/ Settle(j)
          \/ Stop

CSSpec == CSInit /\ [][CSNext]_cvars
=============================================================================
