-------------------------- MODULE MCProxyExchange ---------------------------
(* A small instance of ProxyExchange. *)
EXTENDS ProxyExchange, TLC

CONSTANTS c1, c2, j1, j2

\* Two requests of two clients: one can be answered on the connection that the
\* other left in the pool.
MCConns == {c1, c2}
MCJobs == {j1, j2}
MCConnOf == (j1 :> c1) @@ (j2 :> c2)

\* One idle connection and both timeouts; neither pool nor timeouts.
MCConfigs == { [maxIdle |-> 1, connect |-> 1, read |-> 1],
               [maxIdle |-> 0, connect |-> 0, read |-> 0] }
=============================================================================
