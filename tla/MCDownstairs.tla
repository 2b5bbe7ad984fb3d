--------------------------- MODULE MCDownstairs ---------------------------
(* Read-write node.  c1 and c2 are two sessions of upstairs u1 (c2 sends   *)
(* gen 1 in HereIAm and 2 in PromoteToActive, so it takes over from c1);   *)
(* c3 is upstairs u2 at gen 2, which races c2 at the same gen.             *)
EXTENDS Downstairs

CONSTANTS c1, c2, c3   \* the connections, as model values

MCHello ==
    (c1 :> [upstairs_id |-> "u1", session_id |-> "s1", gen |-> 1, read_only |-> FALSE])
 @@ (c2 :> [upstairs_id |-> "u1", session_id |-> "s2", gen |-> 1, read_only |-> FALSE])
 @@ (c3 :> [upstairs_id |-> "u2", session_id |-> "s3", gen |-> 2, read_only |-> FALSE])
MCPromoteGen == (c1 :> 1) @@ (c2 :> 2) @@ (c3 :> 2)

\* A write and a flush that depends on it: the flush moves last_flush and
\* empties completed, and the ids of the two sessions collide.
MCJobIds == 1..2
MCKind == (1 :> "Write") @@ (2 :> "Flush")
MCDeps == (1 :> {}) @@ (2 :> {1})

\* Every upstairs sends the whole workload ...
MCLoad == [c \in {c1, c2, c3} |-> MCJobIds]
\* ... or the one taking over sends only the write, whose id collides with
\* the first job of the session it evicts.
MCLoadShortTakeover == (c2 :> {1}) @@ MCLoad

\* An upstairs that reconnects with the very same UpstairsConnection (same
\* upstairs_id, session_id and gen) on a new socket c2, as after a network
\* blip; it resends its outstanding jobs.
MCHelloReconnect ==
    (c2 :> [upstairs_id |-> "u1", session_id |-> "s1", gen |-> 1, read_only |-> FALSE])
 @@ MCHello
MCPromoteGenReconnect == (c2 :> 1) @@ MCPromoteGen

\* The same upstairs, each asking for a read-only session.
MCHelloReadOnly == [c \in {c1, c2, c3} |-> [MCHello[c] EXCEPT !.read_only = TRUE]]
\* A read and a flush depending on it, what a read-only session may send.
MCKindRead == (1 :> "Read") @@ (2 :> "Flush")
\* A repair frame (id 3, an ExtentClose) after the write and the flush, as
\* the upstairs sends them when it reconciles the extents of a region.
MCJobIdsRepair == 1..3
MCKindRepair == (3 :> "ExtentClose") @@ MCKind
MCDepsRepair == (3 :> {}) @@ MCDeps
MCLoadRepair == [c \in {c1, c2, c3} |-> MCJobIdsRepair]
MCLoadRepairShortTakeover == (c2 :> {1}) @@ MCLoadRepair
\* The same load with the repair frame an ExtentFlush, which is always
\* answered (RepairAckId or ExtentError) ...
MCKindRepairFlush == (3 :> "ExtentFlush") @@ MCKind
\* ... and, on a read-only node, an ExtentClose after the read and the flush.
MCKindReadRepair == (3 :> "ExtentClose") @@ MCKindRead
=============================================================================
