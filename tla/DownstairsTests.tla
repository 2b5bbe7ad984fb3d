--------------------------- MODULE DownstairsTests ---------------------------
(* The unit tests of the Downstairs methods in src/downstairs/src/lib.rs   *)
(* (mod test): promote_to_active on read-write and read-only nodes, the    *)
(* terminate channels it signals, and the work_lock-guarded methods        *)
(* add_work, new_work, in_progress, do_work and complete_work, run on the  *)
(* operators of Registry and Work.  As in WorkTests, a test is a script of *)
(* steps, and the state is the test being run.                             *)
(*                                                                         *)
(* A test's Downstairs is a record [reg, ro, q, passed]: the registry,     *)
(* read_only, the messages queued on each terminate channel, and the       *)
(* senders the test has moved into promote_to_active (a sender no longer   *)
(* held by the test or by a registry entry is dropped).  The Region is a   *)
(* real one in the tests; reopen_all_extents and the reads succeed.        *)
EXTENDS Registry, Sequences

VARIABLE dtest   \* the index in DownstairsTests of the test being run

\* The tests' terminate channels: (tx1, rx1) and (tx2, rx2).
Txs == {"tx1", "tx2"}

\* build_test_downstairs(read_only), with the test holding both senders.
TestDownstairs(ro) ==
    [reg |-> <<>>, ro |-> ro, q |-> [t \in Txs |-> <<>>], passed |-> {}]

UC(u, s, g) == [upstairs_id |-> u, session_id |-> s, gen |-> g]

\* block_on(terminate_sender.send(conn)) on the sender of each evicted
\* entry (the tests' receivers are alive and never full).
Signalled(q, evicted, conn) ==
    [t \in Txs |-> IF \E e \in evicted : e.tx = t THEN Append(q[t], conn)
                   ELSE q[t]]

\* Downstairs::promote_to_active(conn, tx): the Downstairs after it, and
\* whether it returned Ok.  A refusal bails and drops tx.
DsPromote(ds, conn, tx) ==
    LET d == [ds EXCEPT !.passed = @ \cup {tx}]
    IN IF ds.ro
       THEN [ds |-> [d EXCEPT !.reg = PromoteRO(ds.reg, conn, tx),
                        !.q = Signalled(ds.q, PromoteROEvicted(ds.reg, conn), conn)],
             ok |-> TRUE]
       ELSE IF PromoteRWRefused(ds.reg, conn)
       THEN [ds |-> d, ok |-> FALSE]
       ELSE [ds |-> [d EXCEPT !.reg = PromoteRW(ds.reg, conn, tx),
                        !.q = Signalled(ds.q, PromoteRWEvicted(ds.reg), conn)],
             ok |-> TRUE]

\* rx.try_recv(): the queued connection, or Empty while a sender lives,
\* or Disconnected once every sender was dropped.
Msg(conn) == [kind |-> "msg", conn |-> conn]
NoUC == UC("none", "none", 0)
Empty == [kind |-> "empty", conn |-> NoUC]
Disconnected == [kind |-> "disconnected", conn |-> NoUC]
SenderAlive(ds, tx) ==
    tx \notin ds.passed \/ \E u \in DOMAIN ds.reg : ds.reg[u].tx = tx
TryRecv(ds, tx) ==
    IF ds.q[tx] # <<>> THEN Msg(Head(ds.q[tx]))
    ELSE IF SenderAlive(ds, tx) THEN Empty ELSE Disconnected
Received(ds, tx) == [ds EXCEPT !.q[tx] = IF @ = <<>> THEN @ ELSE Tail(@)]

\* The Work of conn's entry, for the methods that passed work_lock.
WorkOf(ds, conn) == ds.reg[conn.upstairs_id].work
WithWork(ds, conn, w) == [ds EXCEPT !.reg[conn.upstairs_id].work = w]

\* Downstairs::add_work: a write on a read-only node, or a failed
\* work_lock, is an error; otherwise the job is added.
DsAddWork(ds, conn, id, kind, deps) ==
    IF ds.ro /\ kind \in {"Write", "WriteUnwritten"} THEN [ds |-> ds, ok |-> FALSE]
    ELSE IF ~WorkLockOk(ds.reg, conn) THEN [ds |-> ds, ok |-> FALSE]
    ELSE [ds |-> WithWork(ds, conn, AddWork(WorkOf(ds, conn), conn, id, kind, deps)),
          ok |-> TRUE]

\* Downstairs::in_progress: Some(id) (here id) when the job starts, None
\* (here 0) otherwise.
DsStarts(ds, conn, id) ==
    LET w == WorkOf(ds, conn)
    IN /\ id \in DOMAIN w.active
       /\ w.active[id].state \in {NewState, DepWaitState}
       /\ DepsMet(w, w.active[id].deps)
DsInProgress(ds, conn, id) ==
    [ds |-> WithWork(ds, conn, InProgress(WorkOf(ds, conn), id)),
     res |-> IF DsStarts(ds, conn, id) THEN id ELSE 0]

\* Downstairs::do_work: Some(ack) for a resident job (get_ready_job's
\* assertions must hold), None for one promote_to_active cleared.
DsDoWorkSome(ds, conn, id) == id \in DOMAIN WorkOf(ds, conn).active
DsDoWorkOk(ds, conn, id) == ReadyJobAssertsHold(WorkOf(ds, conn), id)

\* Downstairs::complete_work: UpstairsInactive when work_lock fails;
\* otherwise Ok, removing the job if it is still resident.
DsCompleteWork(ds, conn, id) ==
    IF ~WorkLockOk(ds.reg, conn) THEN [ds |-> ds, res |-> "inactive"]
    ELSE LET w == WorkOf(ds, conn)
             flush == id \in DOMAIN w.active /\ w.active[id].op = "Flush"
         IN [ds |-> WithWork(ds, conn, CompleteWork(w, id, flush)), res |-> "ok"]

\* The steps of a script.
SPromote(conn, tx, ok) == [op |-> "promote", conn |-> conn, tx |-> tx, expect |-> ok]
SActiveLen(n) == [op |-> "active_len", expect |-> n]
SIsActive(conn, b) == [op |-> "is_active", conn |-> conn, expect |-> b]
SRecv(tx, r) == [op |-> "recv", tx |-> tx, expect |-> r]
SAddWork(conn, id, kind, deps) ==
    [op |-> "add_work", conn |-> conn, id |-> id, kind |-> kind, deps |-> deps]
SNewWork(conn, ids) == [op |-> "new_work", conn |-> conn, expect |-> ids]
SInProgress(conn, id) == [op |-> "in_progress", conn |-> conn, id |-> id]
SDoWork(conn, id) == [op |-> "do_work", conn |-> conn, id |-> id]
SComplete(conn, id, res) ==
    [op |-> "complete", conn |-> conn, id |-> id, expect |-> res]
SJob(conn, id) == [op |-> "get_job", conn |-> conn, id |-> id]

\* Runs a script; FALSE as soon as an assertion (or a `?`) of the test
\* fails.
RECURSIVE DsRun(_, _)
DsRun(ds, s) ==
    IF s = <<>> THEN TRUE
    ELSE LET st == Head(s)
             rest == Tail(s)
         IN CASE st.op = "promote" ->
                   LET r == DsPromote(ds, st.conn, st.tx)
                   IN r.ok = st.expect /\ DsRun(r.ds, rest)
              [] st.op = "active_len" ->
                   Cardinality(DOMAIN ds.reg) = st.expect /\ DsRun(ds, rest)
              [] st.op = "is_active" ->
                   IsActive(ds.reg, st.conn) = st.expect /\ DsRun(ds, rest)
              [] st.op = "recv" ->
                   TryRecv(ds, st.tx) = st.expect /\ DsRun(Received(ds, st.tx), rest)
              [] st.op = "add_work" ->
                   LET r == DsAddWork(ds, st.conn, st.id, st.kind, st.deps)
                   IN r.ok /\ DsRun(r.ds, rest)
              [] st.op = "new_work" ->
                   /\ WorkLockOk(ds.reg, st.conn)
                   /\ NewWork(WorkOf(ds, st.conn)) = st.expect
                   /\ DsRun(ds, rest)
              [] st.op = "in_progress" ->
                   LET r == DsInProgress(ds, st.conn, st.id)
                   IN WorkLockOk(ds.reg, st.conn) /\ r.res = st.id /\ DsRun(r.ds, rest)
              [] st.op = "do_work" ->
                   /\ WorkLockOk(ds.reg, st.conn)
                   /\ DsDoWorkOk(ds, st.conn, st.id)
                   /\ DsDoWorkSome(ds, st.conn, st.id)
                   /\ DsRun(ds, rest)
              [] st.op = "complete" ->
                   LET r == DsCompleteWork(ds, st.conn, st.id)
                   IN r.res = st.expect /\ DsRun(r.ds, rest)
              [] st.op = "get_job" ->
                   /\ WorkLockOk(ds.reg, st.conn)
                   /\ LET j == WorkOf(ds, st.conn).active[st.id]
                      IN j.owner = st.conn /\ j.ds_id = st.id /\ j.state = NewState
                   /\ DsRun(ds, rest)

DsRunTest(t) == DsRun(TestDownstairs(t.ro), t.steps)

-----------------------------------------------------------------------------
(* The tests, step by step.                                                *)

C1 == UC("u1", "s1", 1)

\* Two promotions where the second must be refused: nothing is signalled,
\* the refused sender is dropped, the first connection stays active.
RefusedSecond(c1, c2) ==
    << SPromote(c1, "tx1", TRUE), SActiveLen(1), SRecv("tx1", Empty),
       SRecv("tx2", Empty), SPromote(c2, "tx2", FALSE), SRecv("tx1", Empty),
       SRecv("tx2", Disconnected), SActiveLen(1), SIsActive(c1, TRUE),
       SIsActive(c2, FALSE) >>

\* Two promotions where the second takes over: the first is told.
TakenOver(c1, c2) ==
    << SPromote(c1, "tx1", TRUE), SActiveLen(1), SRecv("tx1", Empty),
       SRecv("tx2", Empty), SPromote(c2, "tx2", TRUE), SRecv("tx1", Msg(c2)),
       SRecv("tx2", Empty), SActiveLen(1), SIsActive(c1, FALSE),
       SIsActive(c2, TRUE) >>

\* Two read-only promotions of different upstairs that coexist.
Coexist(c1, c2) ==
    << SPromote(c1, "tx1", TRUE), SActiveLen(1), SRecv("tx1", Empty),
       SRecv("tx2", Empty), SPromote(c2, "tx2", TRUE), SRecv("tx1", Empty),
       SRecv("tx2", Empty), SActiveLen(2) >>

test_promote_to_active_one_read_write ==
    [ro |-> FALSE, steps |-> << SPromote(C1, "tx1", TRUE), SActiveLen(1) >>]

test_promote_to_active_one_read_only ==
    [ro |-> TRUE, steps |-> << SPromote(C1, "tx1", TRUE), SActiveLen(1) >>]

test_promote_to_active_multi_read_write_different_uuid_same_gen ==
    [ro |-> FALSE, steps |-> RefusedSecond(C1, UC("u2", "s2", 1))]

test_promote_to_active_multi_read_write_different_uuid_lower_gen ==
    [ro |-> FALSE, steps |-> RefusedSecond(UC("u1", "s1", 2), UC("u2", "s2", 1))]

test_promote_to_active_multi_read_write_same_uuid_same_gen ==
    [ro |-> FALSE, steps |-> RefusedSecond(C1, UC("u1", "s2", 1))]

test_promote_to_active_multi_read_write_same_uuid_larger_gen ==
    [ro |-> FALSE, steps |-> TakenOver(C1, UC("u1", "s2", 2))]

test_promote_to_active_multi_read_only_different_uuid ==
    [ro |-> TRUE, steps |-> Coexist(C1, UC("u2", "s2", 1))
                            \o << SIsActive(C1, TRUE),
                                  SIsActive(UC("u2", "s2", 1), TRUE) >>]

test_promote_to_active_multi_read_only_same_uuid ==
    [ro |-> TRUE, steps |-> TakenOver(C1, UC("u1", "s2", 1))]

test_multiple_read_only_no_job_id_collision ==
    LET c2 == UC("u2", "s2", 1)
    IN [ro |-> TRUE,
        steps |-> Coexist(C1, c2)
                  \o << SAddWork(C1, 1000, "Read", {}),
                        SAddWork(c2, 1000, "Read", {}),
                        SNewWork(C1, <<1000>>), SNewWork(c2, <<1000>>),
                        SJob(C1, 1000), SJob(c2, 1000) >>]

\* The do_work_task steps of the complete_work tests, for job 1000 of
\* connection c at gen 10.
C10 == UC("u1", "s1", 10)
StartedRead ==
    << SPromote(C10, "tx1", TRUE), SAddWork(C10, 1000, "Read", {}),
       SNewWork(C10, <<1000>>), SInProgress(C10, 1000), SDoWork(C10, 1000) >>

test_complete_work_cannot_see_none_same_upstairs_id ==
    [ro |-> FALSE,
     steps |-> StartedRead
               \o << SPromote(UC("u1", "s2", 11), "tx2", TRUE),
                     SRecv("tx1", Msg(UC("u1", "s2", 11))),
                     SComplete(C10, 1000, "inactive") >>]

test_complete_work_cannot_see_none_different_upstairs_id ==
    [ro |-> FALSE,
     steps |-> StartedRead
               \o << SPromote(UC("u2", "s2", 11), "tx2", TRUE),
                     SRecv("tx1", Msg(UC("u2", "s2", 11))),
                     SComplete(C10, 1000, "inactive") >>]

test_complete_work_can_see_none ==
    [ro |-> FALSE,
     steps |-> StartedRead
               \o << SPromote(C10, "tx2", TRUE), SRecv("tx1", Msg(C10)),
                     SComplete(C10, 1000, "ok") >>]

test_simple_read ==
    [ro |-> FALSE,
     steps |-> << SPromote(C10, "tx1", TRUE), SAddWork(C10, 1000, "Read", {}),
                  SAddWork(C10, 1001, "Read", {1000}),
                  SNewWork(C10, <<1000, 1001>>),
                  SInProgress(C10, 1000), SDoWork(C10, 1000),
                  SComplete(C10, 1000, "ok"),
                  SInProgress(C10, 1001), SDoWork(C10, 1001),
                  SComplete(C10, 1001, "ok") >>]

DownstairsTests ==
    << test_simple_read,
       test_promote_to_active_one_read_write,
       test_promote_to_active_one_read_only,
       test_promote_to_active_multi_read_write_different_uuid_same_gen,
       test_promote_to_active_multi_read_write_different_uuid_lower_gen,
       test_promote_to_active_multi_read_write_same_uuid_same_gen,
       test_promote_to_active_multi_read_write_same_uuid_larger_gen,
       test_promote_to_active_multi_read_only_different_uuid,
       test_promote_to_active_multi_read_only_same_uuid,
       test_multiple_read_only_no_job_id_collision,
       test_complete_work_cannot_see_none_same_upstairs_id,
       test_complete_work_cannot_see_none_different_upstairs_id,
       test_complete_work_can_see_none >>

DsTestInit == dtest \in DOMAIN DownstairsTests
DsTestNext == dtest' \in DOMAIN DownstairsTests

-----------------------------------------------------------------------------
(* Properties                                                              *)

\* Every assertion of the Downstairs unit tests holds of the model:
\* promote_to_active's refusals by gen and identity, its takeovers and the
\* terminate message the evicted session receives, read-only coexistence
\* without job-id collisions, and complete_work failing for an evicted
\* session but succeeding (as a no-op) for one that reconnected with the
\* same identity.
DownstairsTestsHold == DsRunTest(DownstairsTests[dtest])
=============================================================================
