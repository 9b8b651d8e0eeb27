-------------------------- MODULE MCWorkerPipeline --------------------------
(* A small instance of WorkerPipeline. *)
EXTENDS WorkerPipeline, TLC

CONSTANTS w1, w2, c1, c2, j1, j2, j3

MCWorkers == {w1, w2}
MCConns == {c1, c2}
MCJobs == {j1, j2, j3}

\* Two requests of one connection (the second arrives while the first is in
\* flight) and one of another.
MCConnOf == (j1 :> c1) @@ (j2 :> c1) @@ (j3 :> c2)
=============================================================================
