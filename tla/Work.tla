-------------------------------- MODULE Work --------------------------------
(***************************************************************************)
(* The per-session work queue of the downstairs (struct Work and the       *)
(* Downstairs methods that reach it), as operators over a Work value.      *)
(*                                                                         *)
(* A Work value is a record                                                *)
(*   active     : a function from the resident job ids to their            *)
(*                DownstairsWork record [owner, ds_id, op, deps, state]    *)
(*   last_flush : the ds_id of the last completed flush (or the number     *)
(*                the upstairs sent in LastFlush)                          *)
(*   completed  : the ids completed since last_flush.                      *)
(* The code keeps `completed` as a Vec and only ever asks whether it       *)
(* contains an id, so it is a set here.  The diagnostic map                *)
(* `outstanding_deps` only rate-limits a log line and is left out.         *)
(* An IOop is abstracted to its variant and its dependency list.           *)
(***************************************************************************)
EXTENDS Naturals, FiniteSets, Sequences, SequencesExt, Functions

\* The variants of IOop and the states of WorkState the code assigns
\* (Done and Error exist in the enum but no code path sets them).
OpKinds == {"Read", "Write", "WriteUnwritten", "Flush"}
NewState == "New"
DepWaitState == "DepWait"
InProgressState == "InProgress"

\* Work::new and Work::clear: an empty queue with last_flush 0.
WorkNew == [active |-> <<>>, last_flush |-> 0, completed |-> {}]

\* Work::jobs: the number of resident jobs.
Jobs(w) == Cardinality(DOMAIN w.active)

\* A fault model of Work::new_work that lists only New jobs, so a job
\* parked in DepWait is never looked at again.
NewWorkOnlyNew(w) ==
    SetToSortSeq({id \in DOMAIN w.active : w.active[id].state = NewState}, <)

\* Work::new_work: the ids of resident jobs that are New or DepWait,
\* sorted ascending (the code sorts here and again in do_work_task).
NewWork(w) ==
    SetToSortSeq({id \in DOMAIN w.active :
                    w.active[id].state \in {NewState, DepWaitState}}, <)

\* The owner check of Work::new_work: it panics on a job of another
\* UpstairsConnection.
NewWorkPanics(w, conn) == \E id \in DOMAIN w.active : w.active[id].owner # conn

\* Downstairs::add_work builds a DownstairsWork in state New and
\* Work::add_work inserts it, overwriting a resident job with that id
\* (HashMap::insert).
AddWork(w, conn, id, kind, deps) ==
    [w EXCEPT !.active =
        (id :> [owner |-> conn, ds_id |-> id, op |-> kind,
                deps |-> deps, state |-> NewState]) @@ w.active]

\* A fault model of the dependency test that looks only at the lowest
\* dependency in the list.
DepsMetFirstOnly(w, deps) ==
    deps = {} \/ Min(deps) <= w.last_flush \/ Min(deps) \in w.completed

\* The dependency test of Work::in_progress: a dependency is met when it is
\* at or below last_flush or is in completed.
DepsMet(w, deps) == \A d \in deps : d <= w.last_flush \/ d \in w.completed

\* A fault model of Work::in_progress that leaves a New job with unmet
\* dependencies New instead of moving it to DepWait.
InProgressNoDepWait(w, id) ==
    IF id \notin DOMAIN w.active
       \/ w.active[id].state \notin {NewState, DepWaitState}
    THEN w
    ELSE IF DepsMet(w, w.active[id].deps)
         THEN [w EXCEPT !.active[id].state = InProgressState]
         ELSE w

\* Work::in_progress: the queue after the call.  A startable job becomes
\* InProgress; a New job with unmet dependencies becomes DepWait; an absent
\* job, or one already started, is left alone.
InProgress(w, id) ==
    IF id \notin DOMAIN w.active
       \/ w.active[id].state \notin {NewState, DepWaitState}
    THEN w
    ELSE IF DepsMet(w, w.active[id].deps)
         THEN [w EXCEPT !.active[id].state = InProgressState]
         ELSE IF w.active[id].state = NewState
              THEN [w EXCEPT !.active[id].state = DepWaitState]
              ELSE w

\* The assertions of Work::get_ready_job on a resident job: it is
\* InProgress and every dependency is still met.
ReadyJobAssertsHold(w, id) ==
    id \in DOMAIN w.active =>
        /\ w.active[id].state = InProgressState
        /\ DepsMet(w, w.active[id].deps)

\* A fault model of complete_work that forgets to record a completed
\* non-flush job in completed.
CompleteWorkNoPush(w, id, isFlush) ==
    IF id \notin DOMAIN w.active THEN w
    ELSE [active |-> Restrict(w.active, DOMAIN w.active \ {id}),
          last_flush |-> IF isFlush THEN id ELSE w.last_flush,
          completed |-> IF isFlush THEN {} ELSE w.completed]

\* The Work part of Downstairs::complete_work: if the job is resident it is
\* removed; a flush moves last_flush to its id and empties completed, any
\* other job is appended to completed.  An absent job is a no-op.
CompleteWork(w, id, isFlush) ==
    IF id \notin DOMAIN w.active THEN w
    ELSE [active |-> Restrict(w.active, DOMAIN w.active \ {id}),
          last_flush |-> IF isFlush THEN id ELSE w.last_flush,
          completed |-> IF isFlush THEN {} ELSE w.completed \cup {id}]

=============================================================================
