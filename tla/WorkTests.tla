------------------------------ MODULE WorkTests ------------------------------
(* The unit tests of Work in src/downstairs/src/lib.rs (mod test), run on  *)
(* the operators of Work.  A test is a script of steps; its helpers        *)
(* (add_work, add_work_rf, test_push_next_jobs, complete, test_do_work)    *)
(* are operators over a Work value, and each assert_eq! is a step that     *)
(* compares what the model computes with what the test expects.            *)
(* completed is a set in Work, so the tests' Vec comparisons compare the   *)
(* ids, not their order.  The state is the test being run; every step     *)
(* picks another, as a test runner would.                                  *)
EXTENDS Work

VARIABLE test   \* the index in WorkTests of the test being run

\* The tests' one UpstairsConnection.
TestConn == "conn"

\* add_work (a Read, or a Flush when is_flush) and add_work_rf (a
\* WriteUnwritten): a New job of the test's connection.
TestAddWork(w, id, deps, kind) == AddWork(w, TestConn, id, kind, deps)

\* in_progress returns Some exactly when it moves the job to InProgress.
Starts(w, id) ==
    /\ id \in DOMAIN w.active
    /\ w.active[id].state \in {NewState, DepWaitState}
    /\ DepsMet(w, w.active[id].deps)

\* test_push_next_jobs: in_progress on each id of the sorted new_work, in
\* order; the queue after it and the ids that were started.
RECURSIVE PushFrom(_, _, _)
PushFrom(w, ids, started) ==
    IF ids = <<>> THEN [work |-> w, jobs |-> started]
    ELSE PushFrom(InProgress(w, Head(ids)), Tail(ids),
                  IF Starts(w, Head(ids)) THEN Append(started, Head(ids))
                  ELSE started)

TestPushNextJobs(w) == PushFrom(w, NewWork(w), <<>>)

\* complete: the test's own completion, which asserts every dependency is
\* met and then does what complete_work does.
TestCompleteOk(w, id) == DepsMet(w, w.active[id].deps)
TestComplete(w, id) == CompleteWork(w, id, w.active[id].op = "Flush")

\* test_do_work: complete each job of a push, in order.
RECURSIVE TestDoWork(_, _)
TestDoWork(w, jobs) ==
    IF jobs = <<>> THEN [work |-> w, ok |-> TRUE]
    ELSE LET r == TestDoWork(TestComplete(w, Head(jobs)), Tail(jobs))
         IN [work |-> r.work, ok |-> TestCompleteOk(w, Head(jobs)) /\ r.ok]

\* The steps of a script.
Add(id, deps) == [op |-> "add", id |-> id, deps |-> deps, kind |-> "Read"]
AddFlush(id, deps) == [op |-> "add", id |-> id, deps |-> deps, kind |-> "Flush"]
AddRF(id, deps) == [op |-> "add", id |-> id, deps |-> deps, kind |-> "WriteUnwritten"]
Push(expect) == [op |-> "push", expect |-> expect]
DoWork == [op |-> "do"]
NewIs(expect) == [op |-> "new", expect |-> expect]
CompletedIs(expect) == [op |-> "completed", expect |-> expect]
LastFlushIs(n) == [op |-> "last_flush", expect |-> n]
StateIs(id, st) == [op |-> "state", id |-> id, expect |-> st]

\* Runs a script from queue w; last holds the jobs of the latest push.
\* FALSE as soon as an assertion of the test fails.
RECURSIVE RunScript(_, _, _)
RunScript(w, last, s) ==
    IF s = <<>> THEN TRUE
    ELSE LET st == Head(s)
             rest == Tail(s)
         IN CASE st.op = "add" ->
                   RunScript(TestAddWork(w, st.id, st.deps, st.kind), last, rest)
              [] st.op = "push" ->
                   LET r == TestPushNextJobs(w)
                   IN r.jobs = st.expect /\ RunScript(r.work, r.jobs, rest)
              [] st.op = "do" ->
                   LET r == TestDoWork(w, last)
                   IN r.ok /\ RunScript(r.work, <<>>, rest)
              [] st.op = "new" ->
                   NewWork(w) = st.expect /\ RunScript(w, last, rest)
              [] st.op = "completed" ->
                   w.completed = st.expect /\ RunScript(w, last, rest)
              [] st.op = "last_flush" ->
                   w.last_flush = st.expect /\ RunScript(w, last, rest)
              [] st.op = "state" ->
                   w.active[st.id].state = st.expect /\ RunScript(w, last, rest)

RunTest(s) == RunScript(WorkNew, <<>>, s)

-----------------------------------------------------------------------------
(* The tests, step by step.                                                *)

you_had_one_job ==
    << Add(1000, {}), NewIs(<<1000>>), Push(<<1000>>), DoWork,
       CompletedIs({1000}), Push(<<>>) >>

jobs_write_unwritten ==
    << AddRF(1000, {}), NewIs(<<1000>>), Push(<<1000>>), DoWork,
       CompletedIs({1000}), Push(<<>>) >>

jobs_independent ==
    << Add(1000, {}), Add(1001, {}), NewIs(<<1000, 1001>>),
       Push(<<1000, 1001>>), NewIs(<<>>), DoWork,
       CompletedIs({1000, 1001}), Push(<<>>) >>

unblock_job ==
    << Add(1000, {}), Add(1001, {1000}), NewIs(<<1000, 1001>>),
       Push(<<1000>>), NewIs(<<1001>>), DoWork, CompletedIs({1000}),
       Push(<<1001>>) >>

\* unblock_job_chain and its variants with a flush first or second.
ChainTest(k1, k2, k3) ==
    << [Add(1000, {}) EXCEPT !.kind = k1], [Add(1001, {1000}) EXCEPT !.kind = k2],
       [Add(1002, {1000, 1001}) EXCEPT !.kind = k3],
       NewIs(<<1000, 1001, 1002>>), CompletedIs({}),
       Push(<<1000>>), NewIs(<<1001, 1002>>), DoWork >>

unblock_job_chain ==
    ChainTest("Read", "Read", "Read")
    \o << CompletedIs({1000}), Push(<<1001>>), NewIs(<<1002>>), DoWork,
          CompletedIs({1000, 1001}), Push(<<1002>>), NewIs(<<>>), DoWork,
          CompletedIs({1000, 1001, 1002}) >>

unblock_job_chain_first_is_flush ==
    ChainTest("Flush", "Read", "Read")
    \o << LastFlushIs(1000), CompletedIs({}), Push(<<1001>>), NewIs(<<1002>>),
          DoWork, LastFlushIs(1000), CompletedIs({1001}), Push(<<1002>>),
          NewIs(<<>>), DoWork, LastFlushIs(1000), CompletedIs({1001, 1002}) >>

unblock_job_chain_second_is_flush ==
    ChainTest("Read", "Flush", "Read")
    \o << CompletedIs({1000}), Push(<<1001>>), NewIs(<<1002>>), DoWork,
          LastFlushIs(1001), CompletedIs({}), Push(<<1002>>), NewIs(<<>>),
          DoWork, LastFlushIs(1001), CompletedIs({1002}) >>

\* The three jobs of unblock_job_upstairs_sends_big_deps and
\* job_dep_not_satisfied, run to the end of the flush.
FlushChain ==
    << Add(1000, {}), Add(1001, {1000}), AddFlush(1002, {1000, 1001}) >>
RunFlushChain ==
    << Push(<<1000>>), DoWork, Push(<<1001>>), DoWork, Push(<<1002>>), DoWork,
       LastFlushIs(1002), CompletedIs({}) >>

unblock_job_upstairs_sends_big_deps ==
    FlushChain \o RunFlushChain
    \o << Add(1003, {1000, 1001, 1002}), Add(1004, {1000, 1001, 1002, 1003}),
          Push(<<1003>>), DoWork, Push(<<1004>>), DoWork, LastFlushIs(1002),
          CompletedIs({1003, 1004}) >>

job_dep_not_satisfied ==
    FlushChain \o << Add(1003, {2000}) >> \o RunFlushChain
    \o << NewIs(<<1003>>), StateIs(1003, DepWaitState) >>

two_job_chains ==
    << Add(1000, {}), Add(1001, {1000}), Add(1002, {1000, 1001}),
       Add(2000, {}), Add(2001, {2000}), AddFlush(2002, {2000, 2001}),
       Push(<<1000, 2000>>), DoWork, CompletedIs({1000, 2000}),
       Push(<<1001, 2001>>), DoWork, CompletedIs({1000, 2000, 1001, 2001}),
       Push(<<1002, 2002>>), DoWork, LastFlushIs(2002), CompletedIs({}) >>

\* The out_of_order_arrives_* tests: job 1002 arrives after 1003, which
\* depends on it, at three points of the run.
OutOfOrderStart ==
    << Add(1000, {}), Add(1001, {1000}), Add(1003, {1000, 1001, 1002}),
       Push(<<1000>>) >>
OutOfOrderEnd ==
    << Push(<<1002>>), DoWork, Push(<<1003>>), DoWork,
       CompletedIs({1000, 1001, 1002, 1003}) >>

out_of_order_arrives_after_first_push_next_jobs ==
    OutOfOrderStart
    \o << Add(1002, {1000, 1001}), DoWork, CompletedIs({1000}),
          Push(<<1001>>), DoWork >>
    \o OutOfOrderEnd

out_of_order_arrives_after_first_do_work ==
    OutOfOrderStart
    \o << DoWork, Add(1002, {1000, 1001}), CompletedIs({1000}),
          Push(<<1001>>), DoWork >>
    \o OutOfOrderEnd

out_of_order_arrives_after_1001_completes ==
    OutOfOrderStart
    \o << DoWork, CompletedIs({1000}), Push(<<1001>>), DoWork,
          Push(<<>>), DoWork, Add(1002, {1000, 1001}) >>
    \o OutOfOrderEnd

WorkTests ==
    << you_had_one_job, jobs_write_unwritten, jobs_independent, unblock_job,
       unblock_job_chain, unblock_job_chain_first_is_flush,
       unblock_job_chain_second_is_flush, unblock_job_upstairs_sends_big_deps,
       job_dep_not_satisfied, two_job_chains,
       out_of_order_arrives_after_first_push_next_jobs,
       out_of_order_arrives_after_first_do_work,
       out_of_order_arrives_after_1001_completes >>

TestInit == test \in DOMAIN WorkTests
TestNext == test' \in DOMAIN WorkTests

-----------------------------------------------------------------------------
(* Properties                                                              *)

\* Every assertion of the Work unit tests holds of the model: new_work,
\* in_progress (Some only for a job whose dependencies are met, DepWait
\* for a New job whose are not) and complete_work, on dependency chains,
\* flushes that move last_flush, and jobs that arrive after the jobs that
\* depend on them.
WorkTestsHold == RunTest(WorkTests[test])
=============================================================================
