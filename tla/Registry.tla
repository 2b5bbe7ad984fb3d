------------------------------ MODULE Registry ------------------------------
(***************************************************************************)
(* The session registry: Downstairs.active_upstairs, a map from            *)
(* upstairs_id to an ActiveUpstairs entry [conn, work, tx], where conn is  *)
(* the registered UpstairsConnection [upstairs_id, session_id, gen], work  *)
(* its Work and tx names the connection whose terminate channel the entry  *)
(* holds the sender of.  The registry lives inside the Downstairs mutex,   *)
(* so every operator here is applied in one atomic step.                   *)
(***************************************************************************)
EXTENDS Naturals, FiniteSets, Functions, Work

\* A fresh ActiveUpstairs entry (promote_to_active inserts one).
NewEntry(ident, tx) == [conn |-> ident, work |-> WorkNew, tx |-> tx]

\* A fault model of is_active that compares only the upstairs_id.
IsActiveUpstairsOnly(reg, ident) == ident.upstairs_id \in DOMAIN reg

\* Downstairs::is_active: an entry is registered under the upstairs_id and
\* its connection equals ident in all three fields.  Downstairs::work_lock
\* succeeds exactly when this holds.
IsActive(reg, ident) ==
    /\ ident.upstairs_id \in DOMAIN reg
    /\ reg[ident.upstairs_id].conn = ident

\* Downstairs::work_lock: whether the caller gets the lock.
WorkLockOk(reg, ident) == IsActive(reg, ident)

\* Downstairs::clear_active: the entry of ident's upstairs_id is removed.
ClearActive(reg, ident) == Restrict(reg, DOMAIN reg \ {ident.upstairs_id})

\* promote_to_active, read-only node: the entries evicted (the one under
\* the same upstairs_id, if any) and the registry after the promotion.
PromoteROEvicted(reg, ident) ==
    {reg[u] : u \in DOMAIN reg \cap {ident.upstairs_id}}

\* A fault model of the read-only promotion that replaces the connection
\* of an existing entry in place and keeps its Work.
PromoteROKeepsWork(reg, ident, tx) ==
    IF ident.upstairs_id \in DOMAIN reg
    THEN [reg EXCEPT ![ident.upstairs_id].conn = ident,
                     ![ident.upstairs_id].tx = tx]
    ELSE (ident.upstairs_id :> NewEntry(ident, tx)) @@ reg
PromoteRO(reg, ident, tx) == (ident.upstairs_id :> NewEntry(ident, tx)) @@ reg

\* The current read-write owner's connection (defined with one entry).
CurrentConn(reg) == reg[CHOOSE u \in DOMAIN reg : TRUE].conn

\* promote_to_active, read-write node: the match on the number of entries
\* panics on more than one.
PromoteRWPanics(reg) == Cardinality(DOMAIN reg) > 1

\* A fault model of the refusal that only compares the session of an equal
\* gen and lets a lower gen through.
PromoteRWRefusedSameGenOnly(reg, ident) ==
    /\ Cardinality(DOMAIN reg) = 1
    /\ ident.gen = CurrentConn(reg).gen /\ CurrentConn(reg) # ident

\* promote_to_active, read-write node, one entry: a lower gen is refused,
\* and an equal gen unless all three fields match.
PromoteRWRefused(reg, ident) ==
    /\ Cardinality(DOMAIN reg) = 1
    /\ \/ ident.gen < CurrentConn(reg).gen
       \/ ident.gen = CurrentConn(reg).gen /\ CurrentConn(reg) # ident

\* The entries a successful read-write promotion evicts: the current one.
PromoteRWEvicted(reg) == {reg[u] : u \in DOMAIN reg}

\* A fault model of the read-write promotion that updates the entry of the
\* same upstairs in place, so the new session inherits the old one's Work.
PromoteRWKeepsWork(reg, ident, tx) ==
    IF ident.upstairs_id \in DOMAIN reg
    THEN ident.upstairs_id :> [NewEntry(ident, tx) EXCEPT
                                  !.work = reg[ident.upstairs_id].work]
    ELSE ident.upstairs_id :> NewEntry(ident, tx)

\* A successful read-write promotion: the current entry (if any) is removed
\* and the new one inserted, so the registry holds exactly the new entry.
PromoteRW(reg, ident, tx) == ident.upstairs_id :> NewEntry(ident, tx)

=============================================================================
