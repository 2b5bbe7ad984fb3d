---------------------------- MODULE MCWorkQueue ----------------------------
(* A workload in the shape the upstairs produces: reads and writes depend  *)
(* on the writes since the last flush, a flush depends on every job since  *)
(* the previous flush, and jobs after a flush depend on it.  Job 2 is an   *)
(* independent read, so acks may come out of id order.                     *)
EXTENDS WorkQueue

MCJobIds == 1..5
MCKind == (1 :> "Write" @@ 2 :> "Read" @@ 3 :> "WriteUnwritten"
           @@ 4 :> "Flush" @@ 5 :> "Write")
MCDeps == (1 :> {} @@ 2 :> {} @@ 3 :> {1} @@ 4 :> {1, 2, 3} @@ 5 :> {4})

\* A workload in which a write sent after a flush does not depend on it:
\* write 3 may complete while flush 2 still waits for write 1, and job 4
\* depends on write 3 alone.
MCJobIdsHorizon == 1..4
MCKindHorizon == (1 :> "Write" @@ 2 :> "Flush" @@ 3 :> "Write" @@ 4 :> "Write")
MCDepsHorizon == (1 :> {} @@ 2 :> {1} @@ 3 :> {} @@ 4 :> {3})
=============================================================================
