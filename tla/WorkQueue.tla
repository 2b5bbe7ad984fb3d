----------------------------- MODULE WorkQueue -----------------------------
(***************************************************************************)
(* One active session in steady state (resp_loop): the frame dispatcher    *)
(* task (proc_frame) adding the upstairs' IO jobs to the session's Work    *)
(* and posting a wake token on the bounded job channel, and the worker     *)
(* task (do_work_task) draining the queue.  The session stays active, so   *)
(* every work_lock succeeds; eviction is modelled in Downstairs.           *)
(*                                                                         *)
(* Each call the worker makes through `ads.lock()` is one atomic step:     *)
(* the snapshot of new_work, in_progress, do_work, sending the ack (under  *)
(* the frame-writer lock) and complete_work.                               *)
(***************************************************************************)
EXTENDS Naturals, Sequences, SequencesExt, Work

CONSTANTS JobIds,        \* the ds_ids of the upstairs' workload
          Kind,          \* Kind[j]: the IOop variant of job j
          Deps,          \* Deps[j]: the dependency list of job j
          LastFlushNum,  \* the number the upstairs sent in LastFlush
          WakeCap,       \* capacity of the job channel (200 in the code)
          Conn,          \* the session's UpstairsConnection
          Lossy,         \* the Downstairs' lossy test flag
          NoJob          \* "no job" for the tasks' registers

ASSUME /\ JobIds \subseteq Nat \ {0}
       /\ Kind \in [JobIds -> OpKinds]
       /\ \A j \in JobIds : Deps[j] \subseteq {d \in JobIds : d < j}
       /\ \A j \in JobIds : j > LastFlushNum
       /\ WakeCap \in Nat \ {0}
       /\ NoJob \notin JobIds
       /\ Lossy \in BOOLEAN

VARIABLES work,       \* the session's Work
          submitted,  \* the jobs the upstairs has sent so far
          pending,    \* the job proc_frame added and has not yet woken for
          tokens,     \* wake tokens in the job channel
          wpc,        \* where do_work_task is: idle, start, do, ack, complete
          wlist,      \* the rest of the sorted new_work list of this pass
          wcur,       \* the job the worker is working on
          acked       \* the acks written to the socket, in order

vars == <<work, submitted, pending, tokens, wpc, wlist, wcur, acked>>

Init ==
    \* Negotiation ended with LastFlush: work.last_flush = last_flush_number.
    /\ work = [WorkNew EXCEPT !.last_flush = LastFlushNum]
    /\ submitted = {}
    /\ pending = NoJob
    /\ tokens = 0
    /\ wpc = "idle"
    /\ wlist = <<>>
    /\ wcur = NoJob
    /\ acked = <<>>

(* proc_frame on an IO frame whose ids match the session: build the IOop   *)
(* and add_work it.  The upstairs sends each job of its workload once.      *)
Dispatch(j) ==
    /\ pending = NoJob
    /\ j \notin submitted
    /\ work' = AddWork(work, Conn, j, Kind[j], Deps[j])
    /\ submitted' = submitted \cup {j}
    /\ pending' = j
    /\ UNCHANGED <<tokens, wpc, wlist, wcur, acked>>

(* A fault model of the job channel with no bound.                        *)
WakeUnbounded ==
    /\ pending # NoJob
    /\ tokens' = tokens + 1
    /\ pending' = NoJob
    /\ UNCHANGED <<work, submitted, wpc, wlist, wcur, acked>>

(* The tail of proc_frame: post the id on the job channel; the send waits  *)
(* while the channel is full.                                              *)
Wake ==
    /\ pending # NoJob
    /\ tokens < WakeCap
    /\ tokens' = tokens + 1
    /\ pending' = NoJob
    /\ UNCHANGED <<work, submitted, wpc, wlist, wcur, acked>>

(* do_work_task: receive a token; the session is active, so take the       *)
(* sorted new_work list for this pass.                                     *)
WorkerWake ==
    /\ wpc = "idle"
    /\ tokens > 0
    /\ tokens' = tokens - 1
    /\ wlist' = NewWork(work)
    /\ wpc' = "start"
    /\ UNCHANGED <<work, submitted, pending, wcur, acked>>

(* Downstairs::in_progress on the next id of the pass; Some(id) sends the  *)
(* worker on to do_work, None to the next id.                              *)
WorkerStart ==
    /\ wpc = "start"
    /\ wlist # <<>>
    /\ LET id == Head(wlist)
           started == /\ id \in DOMAIN work.active
                      /\ work.active[id].state # InProgressState
                      /\ InProgress(work, id).active[id].state = InProgressState
       IN /\ work' = InProgress(work, id)
          /\ wlist' = Tail(wlist)
          /\ wcur' = IF started THEN id ELSE NoJob
          /\ wpc' = IF started THEN "do" ELSE "start"
    /\ UNCHANGED <<submitted, pending, tokens, acked>>

(* With lossy set, random() && random() may make the pass skip an id      *)
(* (continue) without calling in_progress.                                 *)
WorkerSkip ==
    /\ Lossy
    /\ wpc = "start"
    /\ wlist # <<>>
    /\ wlist' = Tail(wlist)
    /\ UNCHANGED <<work, submitted, pending, tokens, wpc, wcur, acked>>

(* A fault model of resp_loop's lossy timer arm with its flag inverted.    *)
LossyWakeInverted ==
    /\ ~Lossy
    /\ tokens < WakeCap
    /\ tokens' = tokens + 1
    /\ UNCHANGED <<work, submitted, pending, wpc, wlist, wcur, acked>>

(* resp_loop's select, with lossy set: every 5 seconds send 0 on the job   *)
(* channel (waiting while it is full), so that a pass that skipped jobs is *)
(* followed by another.                                                    *)
LossyWake ==
    /\ Lossy
    /\ tokens < WakeCap
    /\ tokens' = tokens + 1
    /\ UNCHANGED <<work, submitted, pending, wpc, wlist, wcur, acked>>

(* The end of the for loop over the pass: wait for the next token.         *)
WorkerPassDone ==
    /\ wpc = "start"
    /\ wlist = <<>>
    /\ wpc' = "idle"
    /\ UNCHANGED <<work, submitted, pending, tokens, wlist, wcur, acked>>

(* Downstairs::do_work: get_ready_job, then the Region call.  A missing    *)
(* job gives None and the loop moves on.  An I/O error only changes the    *)
(* result carried in the ack.                                              *)
WorkerDoWork ==
    /\ wpc = "do"
    /\ wpc' = IF wcur \in DOMAIN work.active THEN "ack" ELSE "start"
    /\ UNCHANGED <<work, submitted, pending, tokens, wlist, wcur, acked>>

(* complete_work_stat (counters only), then send the ack on the socket.    *)
WorkerAck ==
    /\ wpc = "ack"
    /\ acked' = Append(acked, wcur)
    /\ wpc' = "complete"
    /\ UNCHANGED <<work, submitted, pending, tokens, wlist, wcur>>

(* Downstairs::complete_work, after the ack has been sent.                 *)
WorkerComplete ==
    /\ wpc = "complete"
    /\ work' = CompleteWork(work, wcur, Kind[wcur] = "Flush")
    /\ wpc' = "start"
    /\ UNCHANGED <<submitted, pending, tokens, wlist, wcur, acked>>

Next ==
    \/ \E j \in JobIds : Dispatch(j)
    \/ Wake
    \/ WorkerWake
    \/ WorkerStart
    \/ WorkerSkip
    \/ LossyWake
    \/ WorkerPassDone
    \/ WorkerDoWork
    \/ WorkerAck
    \/ WorkerComplete

(* The tokio tasks are scheduled whenever they can run, and the upstairs   *)
(* goes on sending its workload; the lossy timer fires every 5 seconds.    *)
(* The skip is two fresh coin flips each time, so an id offered again and  *)
(* again is eventually not skipped: in_progress on each id is strongly     *)
(* fair.  proc_frame and the lossy timer send on the job channel through  *)
(* the same tokio Mutex and the channel's semaphore, both of which serve   *)
(* waiters first come, first served: a send waiting for room is strongly   *)
(* fair, not starved by the timer's sends.                                 *)
Fairness ==
    /\ WF_vars(\E j \in JobIds : Dispatch(j))
    /\ SF_vars(Wake)
    /\ WF_vars(WorkerWake \/ WorkerStart \/ WorkerPassDone)
    /\ WF_vars(WorkerDoWork \/ WorkerAck \/ WorkerComplete)
    /\ WF_vars(LossyWake)
    /\ \A j \in JobIds : SF_vars(WorkerStart /\ Head(wlist) = j)

Spec == Init /\ [][Next]_vars /\ Fairness

-----------------------------------------------------------------------------

TypeOK ==
    /\ DOMAIN work.active \subseteq JobIds
    /\ \A id \in DOMAIN work.active :
          work.active[id].state \in {NewState, DepWaitState, InProgressState}
    /\ work.completed \subseteq JobIds
    /\ submitted \subseteq JobIds
    /\ pending \in JobIds \cup {NoJob}
    /\ tokens \in 0..WakeCap
    /\ wpc \in {"idle", "start", "do", "ack", "complete"}
    /\ wcur \in JobIds \cup {NoJob}
    /\ acked \in Seq(JobIds)

(* P1, as a refinement: the acks the worker writes to the socket are a     *)
(* behaviour of DepOrder -- each job is acked once, after every job in its *)
(* dependency list was acked, although in_progress only consults the       *)
(* last_flush horizon and the completed set, which every completed flush   *)
(* empties.                                                                *)
Abstract == INSTANCE DepOrder WITH sent <- submitted, acked <- acked
AcksRespectDeps == Abstract!Spec

(* Every job the upstairs sends is eventually acknowledged: a job parked   *)
(* in DepWait is retried by a later pass once its dependencies complete,   *)
(* although completing a job posts no wake token of its own, and with     *)
(* lossy set a job the pass skipped is retried after the upstairs has     *)
(* stopped sending, by the pass the lossy timer's token starts.           *)
EveryJobAcked == \A j \in JobIds : j \in submitted ~> j \in ToSet(acked)

=============================================================================
