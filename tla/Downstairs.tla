----------------------------- MODULE Downstairs -----------------------------
(***************************************************************************)
(* The downstairs process with several upstairs connections: for each TCP  *)
(* connection c the negotiation in proc(), and after it resp_loop with its *)
(* two spawned tasks, the frame dispatcher (pf_task running proc_frame)    *)
(* and the worker (do_work_task).  All of them share the registry, which   *)
(* sits with the Work queues behind the single Downstairs mutex, so each   *)
(* `ads.lock()` call is one atomic step.                                   *)
(*                                                                         *)
(* When resp_loop returns, the JoinHandles of its tasks are dropped but    *)
(* the tasks are not aborted: pf_task drains the message channel and the   *)
(* worker the job channel before they see their channels closed.  Their   *)
(* steps are modelled to the end.                                          *)
(*                                                                         *)
(* The upstairs side of each connection sends the negotiation messages in  *)
(* order, then each job of its workload once, and may close the socket at  *)
(* any time.  Region calls do not change modelled state, except that       *)
(* reopen_all_extents may fail after promotion; the extent repair frames   *)
(* are recorded with whether their connection was the active one.         *)
(***************************************************************************)
EXTENDS Naturals, FiniteSets, Sequences, SequencesExt, Functions, Work, Registry

CONSTANTS Conns,        \* the TCP connections
          Hello,        \* Hello[c]: the HereIAm of c: [upstairs_id, session_id, gen, read_only]
          PromoteGen,   \* PromoteGen[c]: the gen c sends in PromoteToActive
          ReadOnly,     \* Downstairs.read_only
          JobIds,       \* the ds_ids jobs may have
          Load,         \* Load[c]: the ds_ids the upstairs sends on c
          Kind,         \* Kind[j]: the IOop variant of job j
          Deps,         \* Deps[j]: the dependency list of job j
          LastFlushNum, \* the number the upstairs sends in LastFlush
          WakeCap,      \* capacity of the job channel (200 in the code)
          NoConn,       \* "no UpstairsConnection yet"
          NoJob         \* "no job" for the tasks' registers

\* The extent repair frames, handled inline by proc_frame.
RepairKinds == {"ExtentFlush", "ExtentClose", "ExtentRepair", "ExtentReopen"}

ASSUME /\ \A c \in Conns : Hello[c].gen \in Nat /\ PromoteGen[c] \in Nat
       /\ ReadOnly \in BOOLEAN
       /\ Kind \in [JobIds -> OpKinds \cup RepairKinds]
       /\ \A c \in Conns : Load[c] \subseteq JobIds
       /\ \A j \in JobIds : Deps[j] \subseteq {d \in JobIds : d < j}
       /\ \A j \in JobIds : j > LastFlushNum
       /\ WakeCap \in Nat \ {0}

VARIABLES registry,   \* Downstairs.active_upstairs
          phase,      \* phase[c]: "neg" (proc), "resp" (resp_loop), "gone"
          negotiated, \* negotiated[c]: the negotiation step, 0..4
          ident,      \* ident[c]: the UpstairsConnection proc recorded
          termq,      \* termq[c]: messages in c's terminate channel (capacity 1)
          eof,        \* eof[c]: the upstairs has closed its socket
          sent,       \* sent[c]: the jobs the upstairs sent on c
          msgq,       \* msgq[c]: frames resp_loop passed to pf_task
          pfAlive,    \* pfAlive[c]: pf_task is running
          pending,    \* pending[c]: the job pf_task added and has not woken for
          tokens,     \* tokens[c]: wake tokens in c's job channel
          wAlive,     \* wAlive[c]: do_work_task is running
          wpc,        \* wpc[c]: idle, start, do, ack, complete
          wlist,      \* wlist[c]: the rest of the worker's new_work list
          wmsg,       \* wmsg[c]: the job the worker works on, and its ack
          acks,       \* acks written: [on: connection, job: id, via: connection]
          retired,    \* jobs complete_work removed: [via: connection, job: id]
          told,       \* connections that sent YouAreNoLongerActive
          fault,      \* the panic, failed assertion or hang reached, or "none"
          repairs,    \* repair frames run on the region: [on, job, conn, owners]
          ios         \* region changes do_work made: [on, job, owners]

vars == <<registry, phase, negotiated, ident, termq, eof, sent, msgq, pfAlive,
          pending, tokens, wAlive, wpc, wlist, wmsg, acks, retired, told,
          fault, repairs, ios>>

NoMsg == [job |-> NoJob, flush |-> FALSE, via |-> NoConn]

Init ==
    /\ registry = <<>>
    /\ phase = [c \in Conns |-> "neg"]
    /\ negotiated = [c \in Conns |-> 0]
    /\ ident = [c \in Conns |-> NoConn]
    /\ termq = [c \in Conns |-> <<>>]
    /\ eof = [c \in Conns |-> FALSE]
    /\ sent = [c \in Conns |-> {}]
    /\ msgq = [c \in Conns |-> <<>>]
    /\ pfAlive = [c \in Conns |-> FALSE]
    /\ pending = [c \in Conns |-> NoJob]
    /\ tokens = [c \in Conns |-> 0]
    /\ wAlive = [c \in Conns |-> FALSE]
    /\ wpc = [c \in Conns |-> "idle"]
    /\ wlist = [c \in Conns |-> <<>>]
    /\ wmsg = [c \in Conns |-> NoMsg]
    /\ acks = {}
    /\ retired = {}
    /\ told = {}
    /\ fault = "none"
    /\ repairs = {}
    /\ ios = {}

\* The terminate receiver of c exists while proc/resp_loop runs.
RxOpen(c) == phase[c] \in {"neg", "resp"}

\* The registry entry c's recorded connection owns.
MyEntry(c) == registry[ident[c].upstairs_id]

(* Signal the evicted entries over their terminate channels, as            *)
(* promote_to_active does with block_on(send): a closed receiver is        *)
(* tolerated, a full channel would block with the Downstairs lock held.    *)
Signal(evicted, new) ==
    LET txs == {e.tx : e \in evicted}
    IN /\ termq' = [c \in Conns |->
                      IF c \in txs /\ RxOpen(c) /\ termq[c] = <<>>
                      THEN <<new>> ELSE termq[c]]
       /\ fault' = IF \E c \in txs : RxOpen(c) /\ termq[c] # <<>>
                   THEN "terminate send blocks" ELSE fault

-----------------------------------------------------------------------------
(* Negotiation (proc).                                                     *)

(* HereIAm at step 0: a read_only flag that disagrees with the node gets   *)
(* ReadOnlyMismatch and the connection is closed; otherwise the            *)
(* UpstairsConnection is recorded and YesItsMe sent.                       *)
HereIAm(c) ==
    /\ phase[c] = "neg" /\ negotiated[c] = 0 /\ ~eof[c]
    /\ IF Hello[c].read_only # ReadOnly
       THEN /\ phase' = [phase EXCEPT ![c] = "gone"]
            /\ UNCHANGED <<negotiated, ident>>
       ELSE /\ negotiated' = [negotiated EXCEPT ![c] = 1]
            /\ ident' = [ident EXCEPT ![c] =
                  [upstairs_id |-> Hello[c].upstairs_id,
                   session_id |-> Hello[c].session_id, gen |-> Hello[c].gen]]
            /\ UNCHANGED phase
    /\ UNCHANGED <<registry, termq, eof, sent, msgq, pfAlive, pending, tokens,
                   wAlive, wpc, wlist, wmsg, acks, retired, told, fault,
                   repairs, ios>>

(* PromoteToActive at step 1 (the ids match the recorded ones): the gen is *)
(* updated to the one sent, then promote_to_active.  A refusal, or a       *)
(* failure of reopen_all_extents after the new entry is in, fails proc.    *)
PromoteToActive(c) ==
    /\ phase[c] = "neg" /\ negotiated[c] = 1 /\ ~eof[c]
    /\ LET me == [ident[c] EXCEPT !.gen = PromoteGen[c]]
       IN /\ ident' = [ident EXCEPT ![c] = me]
          /\ IF ReadOnly
             THEN /\ registry' = PromoteRO(registry, me, c)
                  /\ Signal(PromoteROEvicted(registry, me), me)
                  /\ negotiated' = [negotiated EXCEPT ![c] = 2]
                  /\ UNCHANGED phase
             ELSE IF PromoteRWPanics(registry)
             THEN /\ fault' = "more than one read-write upstairs"
                  /\ UNCHANGED <<registry, termq, phase, negotiated>>
             ELSE IF PromoteRWRefused(registry, me)
             THEN /\ phase' = [phase EXCEPT ![c] = "gone"]
                  /\ UNCHANGED <<registry, termq, negotiated, fault>>
             ELSE /\ registry' = PromoteRW(registry, me, c)
                  /\ Signal(PromoteRWEvicted(registry), me)
                  /\ \/ negotiated' = [negotiated EXCEPT ![c] = 2]
                        /\ UNCHANGED phase
                     \/ phase' = [phase EXCEPT ![c] = "gone"]
                        /\ UNCHANGED negotiated
    /\ UNCHANGED <<eof, sent, msgq, pfAlive, pending, tokens, wAlive, wpc,
                   wlist, wmsg, acks, retired, told, repairs, ios>>

(* RegionInfoPlease at step 2.                                             *)
RegionInfoPlease(c) ==
    /\ phase[c] = "neg" /\ negotiated[c] = 2 /\ ~eof[c]
    /\ negotiated' = [negotiated EXCEPT ![c] = 3]
    /\ UNCHANGED <<registry, phase, ident, termq, eof, sent, msgq, pfAlive,
                   pending, tokens, wAlive, wpc, wlist, wmsg, acks, retired,
                   told, fault, repairs, ios>>

(* Negotiation done: resp_loop spawns the worker and pf_task.             *)
StartResp(c) ==
    /\ phase' = [phase EXCEPT ![c] = "resp"]
    /\ pfAlive' = [pfAlive EXCEPT ![c] = TRUE]
    /\ wAlive' = [wAlive EXCEPT ![c] = TRUE]

(* LastFlush at step 3: last_flush of the session's Work is set through    *)
(* work_lock, whose failure (the session was evicted) fails proc.          *)
LastFlush(c) ==
    /\ phase[c] = "neg" /\ negotiated[c] = 3 /\ ~eof[c]
    /\ negotiated' = [negotiated EXCEPT ![c] = 4]
    /\ IF WorkLockOk(registry, ident[c])
       THEN /\ registry' = [registry EXCEPT
                 ![ident[c].upstairs_id].work.last_flush = LastFlushNum]
            /\ StartResp(c)
       ELSE /\ phase' = [phase EXCEPT ![c] = "gone"]
            /\ UNCHANGED <<registry, pfAlive, wAlive>>
    /\ UNCHANGED <<ident, termq, eof, sent, msgq, pending, tokens, wpc, wlist,
                   wmsg, acks, retired, told, fault, repairs, ios>>

(* ExtentVersionsPlease at step 3: only the region is read.                *)
ExtentVersionsPlease(c) ==
    /\ phase[c] = "neg" /\ negotiated[c] = 3 /\ ~eof[c]
    /\ negotiated' = [negotiated EXCEPT ![c] = 4]
    /\ StartResp(c)
    /\ UNCHANGED <<registry, ident, termq, eof, sent, msgq, pending, tokens,
                   wpc, wlist, wmsg, acks, retired, told, fault, repairs, ios>>

-----------------------------------------------------------------------------
(* The select of proc and resp_loop: eviction, end of stream, timeout,     *)
(* and (resp_loop) the end of one of its tasks.                            *)

(* The terminate channel delivers the new connection: send                 *)
(* YouAreNoLongerActive and return.                                        *)
Evicted(c) ==
    /\ RxOpen(c)
    /\ termq[c] # <<>>
    /\ termq' = [termq EXCEPT ![c] = Tail(termq[c])]
    /\ told' = told \cup {c}
    /\ phase' = [phase EXCEPT ![c] = "gone"]
    /\ UNCHANGED <<registry, negotiated, ident, eof, sent, msgq, pfAlive,
                   pending, tokens, wAlive, wpc, wlist, wmsg, acks, retired,
                   fault, repairs, ios>>

(* The frame reader returns None.  With a recorded connection, jobs()      *)
(* takes the work lock (failing, and so returning Err, when the session is *)
(* not active); an active session is cleared from the registry.            *)
EndOfStream(c) ==
    /\ RxOpen(c)
    /\ eof[c]
    /\ registry' = IF ident[c] # NoConn /\ IsActive(registry, ident[c])
                   THEN ClearActive(registry, ident[c]) ELSE registry
    /\ phase' = [phase EXCEPT ![c] = "gone"]
    /\ UNCHANGED <<negotiated, ident, termq, eof, sent, msgq, pfAlive, pending,
                   tokens, wAlive, wpc, wlist, wmsg, acks, retired, told,
                   fault, repairs, ios>>

(* The 50 second deadline of the select passes: bail without touching the *)
(* registry.                                                               *)
Timeout(c) ==
    /\ RxOpen(c)
    /\ phase' = [phase EXCEPT ![c] = "gone"]
    /\ UNCHANGED <<registry, negotiated, ident, termq, eof, sent, msgq,
                   pfAlive, pending, tokens, wAlive, wpc, wlist, wmsg, acks,
                   retired, told, fault, repairs, ios>>

(* resp_loop: the worker or pf_task has ended, so resp_loop bails.         *)
TaskEnded(c) ==
    /\ phase[c] = "resp"
    /\ ~pfAlive[c] \/ ~wAlive[c]
    /\ phase' = [phase EXCEPT ![c] = "gone"]
    /\ UNCHANGED <<registry, negotiated, ident, termq, eof, sent, msgq,
                   pfAlive, pending, tokens, wAlive, wpc, wlist, wmsg, acks,
                   retired, told, fault, repairs, ios>>

(* resp_loop reads an IO frame of the upstairs and passes it to pf_task.   *)
(* The upstairs sends its jobs in ds_id order on the one socket.           *)
ReadFrame(c, j) ==
    /\ phase[c] = "resp"
    /\ ~eof[c]
    /\ j = Min(Load[c] \ sent[c])
    /\ sent' = [sent EXCEPT ![c] = sent[c] \cup {j}]
    /\ msgq' = [msgq EXCEPT ![c] = Append(msgq[c], j)]
    /\ UNCHANGED <<registry, phase, negotiated, ident, termq, eof, pfAlive,
                   pending, tokens, wAlive, wpc, wlist, wmsg, acks, retired,
                   told, fault, repairs, ios>>

(* The upstairs closes its socket (once proc or resp_loop has returned,    *)
(* the server side is closed and nothing reads it any more).              *)
CloseSocket(c) ==
    /\ RxOpen(c)
    /\ ~eof[c]
    /\ eof' = [eof EXCEPT ![c] = TRUE]
    /\ UNCHANGED <<registry, phase, negotiated, ident, termq, sent, msgq,
                   pfAlive, pending, tokens, wAlive, wpc, wlist, wmsg, acks,
                   retired, told, fault, repairs, ios>>

-----------------------------------------------------------------------------
(* pf_task: proc_frame on each frame of the message channel.               *)

(* An IO frame with the session's ids: add_work.  On a read-only node a    *)
(* Write or WriteUnwritten makes add_work fail; so does work_lock when the *)
(* session is no longer active.  Either error ends pf_task.  The job       *)
(* records the connection it came in on (via) for the properties.         *)
PfAddWork(c) ==
    /\ pfAlive[c]
    /\ pending[c] = NoJob
    /\ msgq[c] # <<>>
    /\ Kind[Head(msgq[c])] \in OpKinds
    /\ LET j == Head(msgq[c])
           refused == ReadOnly /\ Kind[j] \in {"Write", "WriteUnwritten"}
       IN /\ msgq' = [msgq EXCEPT ![c] = Tail(msgq[c])]
          /\ IF refused \/ ~WorkLockOk(registry, ident[c])
             THEN /\ pfAlive' = [pfAlive EXCEPT ![c] = FALSE]
                  /\ UNCHANGED <<registry, pending>>
             ELSE /\ registry' = [registry EXCEPT ![ident[c].upstairs_id].work =
                        LET w == AddWork(@, ident[c], j, Kind[j], Deps[j])
                        IN [w EXCEPT !.active[j] = @ @@ [via |-> c]]]
                  /\ pending' = [pending EXCEPT ![c] = j]
                  /\ UNCHANGED pfAlive
    /\ UNCHANGED <<phase, negotiated, ident, termq, eof, sent, tokens, wAlive,
                   wpc, wlist, wmsg, acks, retired, told, fault, repairs, ios>>

(* An extent repair frame (ExtentFlush, ExtentClose, ExtentRepair,        *)
(* ExtentReopen): under the Downstairs lock the Region operation runs on   *)
(* the extent.  Neither the frame's ids nor the session's activity are     *)
(* checked, and no wake token is posted.  The record keeps c's session and *)
(* the sessions registered when the region was changed.                    *)
RepairRuns(c, j) ==
    /\ msgq' = [msgq EXCEPT ![c] = Tail(msgq[c])]
    /\ repairs' = repairs \cup
          {[on |-> c, job |-> j, conn |-> ident[c],
            owners |-> {registry[u].conn : u \in DOMAIN registry}]}

(* The frame is answered: RepairAckId on success, ExtentError with the      *)
(* Region's error otherwise (or InvalidExtent for an ExtentClose of a      *)
(* missing extent); the model does not tell the two replies apart.         *)
PfRepair(c) ==
    /\ pfAlive[c]
    /\ pending[c] = NoJob
    /\ msgq[c] # <<>>
    /\ Kind[Head(msgq[c])] \in RepairKinds
    /\ RepairRuns(c, Head(msgq[c]))
    /\ acks' = acks \cup {[on |-> c, job |-> Head(msgq[c]), via |-> c]}
    /\ UNCHANGED <<registry, phase, negotiated, ident, termq, eof, sent,
                   pfAlive, pending, tokens, wAlive, wpc, wlist, wmsg, retired,
                   told, fault, ios>>

(* ExtentClose of a present extent whose close() fails: the ? returns the  *)
(* error from proc_frame, pf_task ends, and no reply is written.  What the *)
(* failed close did to the extent is not known, so it counts as a change.  *)
PfRepairCloseFails(c) ==
    /\ pfAlive[c]
    /\ pending[c] = NoJob
    /\ msgq[c] # <<>>
    /\ Kind[Head(msgq[c])] = "ExtentClose"
    /\ RepairRuns(c, Head(msgq[c]))
    /\ pfAlive' = [pfAlive EXCEPT ![c] = FALSE]
    /\ UNCHANGED <<registry, phase, negotiated, ident, termq, eof, sent,
                   pending, tokens, wAlive, wpc, wlist, wmsg, acks, retired,
                   told, fault, ios>>

(* A fault model of the job channel with no bound.                        *)
PfWakeUnbounded(c) ==
    /\ pfAlive[c]
    /\ pending[c] # NoJob
    /\ pending' = [pending EXCEPT ![c] = NoJob]
    /\ tokens' = [tokens EXCEPT ![c] = tokens[c] + 1]
    /\ UNCHANGED <<pfAlive, registry, phase, negotiated, ident, termq, eof,
                   sent, msgq, wAlive, wpc, wlist, wmsg, acks, retired, told,
                   fault, repairs, ios>>

(* The tail of proc_frame: post the id on the job channel, waiting while   *)
(* it is full; a closed channel (the worker has ended) is an error that    *)
(* ends pf_task.                                                           *)
PfWake(c) ==
    /\ pfAlive[c]
    /\ pending[c] # NoJob
    /\ pending' = [pending EXCEPT ![c] = NoJob]
    /\ IF wAlive[c]
       THEN /\ tokens[c] < WakeCap
            /\ tokens' = [tokens EXCEPT ![c] = tokens[c] + 1]
            /\ UNCHANGED pfAlive
       ELSE /\ pfAlive' = [pfAlive EXCEPT ![c] = FALSE]
            /\ UNCHANGED tokens
    /\ UNCHANGED <<registry, phase, negotiated, ident, termq, eof, sent, msgq,
                   wAlive, wpc, wlist, wmsg, acks, retired, told, fault,
                   repairs, ios>>

(* resp_loop has returned and dropped the message channel's sender: once   *)
(* the channel is drained, recv gives None and pf_task ends.               *)
PfExit(c) ==
    /\ pfAlive[c]
    /\ phase[c] # "resp"
    /\ pending[c] = NoJob
    /\ msgq[c] = <<>>
    /\ pfAlive' = [pfAlive EXCEPT ![c] = FALSE]
    /\ UNCHANGED <<registry, phase, negotiated, ident, termq, eof, sent, msgq,
                   pending, tokens, wAlive, wpc, wlist, wmsg, acks, retired,
                   told, fault, repairs, ios>>

-----------------------------------------------------------------------------
(* do_work_task.                                                           *)

WorkerUnchanged == UNCHANGED <<phase, negotiated, ident, termq, eof, sent,
                               msgq, pfAlive, pending, told, repairs, ios>>

(* A fault model of the wake that takes the new_work list of the entry     *)
(* under the upstairs_id without asking whether c's session is active.    *)
WorkerWakeUnchecked(c) ==
    /\ wAlive[c]
    /\ wpc[c] = "idle"
    /\ tokens[c] > 0
    /\ tokens' = [tokens EXCEPT ![c] = tokens[c] - 1]
    /\ IF ident[c].upstairs_id \in DOMAIN registry
       THEN /\ wlist' = [wlist EXCEPT ![c] = NewWork(MyEntry(c).work)]
            /\ wpc' = [wpc EXCEPT ![c] = "start"]
            /\ fault' = IF NewWorkPanics(MyEntry(c).work, ident[c])
                        THEN "old upstairs job in new_work" ELSE fault
       ELSE UNCHANGED <<wlist, wpc, fault>>
    /\ UNCHANGED <<registry, wAlive, wmsg, acks, retired>>
    /\ WorkerUnchanged

(* A wake token: if the session is active, take the sorted new_work list   *)
(* (new_work panics on a job of another connection); otherwise continue.   *)
WorkerWake(c) ==
    /\ wAlive[c]
    /\ wpc[c] = "idle"
    /\ tokens[c] > 0
    /\ tokens' = [tokens EXCEPT ![c] = tokens[c] - 1]
    /\ IF IsActive(registry, ident[c])
       THEN /\ wlist' = [wlist EXCEPT ![c] = NewWork(MyEntry(c).work)]
            /\ wpc' = [wpc EXCEPT ![c] = "start"]
            /\ fault' = IF NewWorkPanics(MyEntry(c).work, ident[c])
                        THEN "old upstairs job in new_work" ELSE fault
       ELSE UNCHANGED <<wlist, wpc, fault>>
    /\ UNCHANGED <<registry, wAlive, wmsg, acks, retired>>
    /\ WorkerUnchanged

(* Downstairs::in_progress on the next id: a failing work_lock ends the    *)
(* worker (the `?`); Some(id) leads to do_work, None to the next id.  A    *)
(* started job whose owner is not the active connection is a panic.       *)
WorkerStart(c) ==
    /\ wAlive[c]
    /\ wpc[c] = "start"
    /\ wlist[c] # <<>>
    /\ wlist' = [wlist EXCEPT ![c] = Tail(wlist[c])]
    /\ IF ~WorkLockOk(registry, ident[c])
       THEN /\ wAlive' = [wAlive EXCEPT ![c] = FALSE]
            /\ UNCHANGED <<registry, wpc, wmsg, fault>>
       ELSE LET id == Head(wlist[c])
                w == MyEntry(c).work
                started == /\ id \in DOMAIN w.active
                           /\ w.active[id].state # InProgressState
                           /\ InProgress(w, id).active[id].state = InProgressState
            IN /\ registry' = [registry EXCEPT
                     ![ident[c].upstairs_id].work = InProgress(w, id)]
               /\ wpc' = [wpc EXCEPT ![c] = IF started THEN "do" ELSE "start"]
               /\ wmsg' = [wmsg EXCEPT ![c] = [NoMsg EXCEPT !.job = id]]
               /\ fault' = IF started /\ ~IsActive(registry, w.active[id].owner)
                           THEN "job for a non-active connection" ELSE fault
               /\ UNCHANGED wAlive
    /\ UNCHANGED <<tokens, acks, retired>>
    /\ WorkerUnchanged

(* The pass is over: wait for the next token.                              *)
WorkerPassDone(c) ==
    /\ wAlive[c]
    /\ wpc[c] = "start"
    /\ wlist[c] = <<>>
    /\ wpc' = [wpc EXCEPT ![c] = "idle"]
    /\ UNCHANGED <<registry, tokens, wAlive, wlist, wmsg, acks, retired, fault>>
    /\ WorkerUnchanged

(* Downstairs::do_work: a failing work_lock ends the worker; a job no      *)
(* longer resident gives None; otherwise get_ready_job's assertions and    *)
(* the ack message built from the job.  Before the Region call, each IOop  *)
(* arm asks is_active of the job's own connection: an inactive one gets    *)
(* UpstairsInactive in its ack, an active one runs region_write (Write,   *)
(* WriteUnwritten) or region_flush, which change the region and are        *)
(* recorded with the connections registered at that instant (region_read   *)
(* changes nothing).                                                       *)
WorkerDoWork(c) ==
    /\ wAlive[c]
    /\ wpc[c] = "do"
    /\ LET id == wmsg[c].job
           w == MyEntry(c).work
       IN IF ~WorkLockOk(registry, ident[c])
          THEN /\ wAlive' = [wAlive EXCEPT ![c] = FALSE]
               /\ UNCHANGED <<wpc, wmsg, fault, ios>>
          ELSE IF id \notin DOMAIN w.active
          THEN /\ wpc' = [wpc EXCEPT ![c] = "start"]
               /\ UNCHANGED <<wAlive, wmsg, fault, ios>>
          ELSE LET job == w.active[id]
               IN /\ wpc' = [wpc EXCEPT ![c] = "ack"]
                  /\ wmsg' = [wmsg EXCEPT ![c] =
                        [job |-> id, flush |-> job.op = "Flush", via |-> job.via]]
                  /\ fault' = IF ReadyJobAssertsHold(w, id) THEN fault
                              ELSE "get_ready_job assertion"
                  /\ ios' = IF job.op # "Read" /\ IsActive(registry, job.owner)
                            THEN ios \cup {[on |-> c, job |-> id,
                                   owners |-> {registry[u].tx : u \in DOMAIN registry}]}
                            ELSE ios
                  /\ UNCHANGED wAlive
    /\ UNCHANGED <<registry, tokens, wlist, acks, retired>>
    /\ UNCHANGED <<phase, negotiated, ident, termq, eof, sent, msgq, pfAlive,
                   pending, told, repairs>>

(* complete_work_stat, then the ack is written to c's socket.              *)
WorkerSendAck(c) ==
    /\ wAlive[c]
    /\ wpc[c] = "ack"
    /\ acks' = acks \cup {[on |-> c, job |-> wmsg[c].job, via |-> wmsg[c].via]}
    /\ wpc' = [wpc EXCEPT ![c] = "complete"]
    /\ UNCHANGED <<registry, tokens, wAlive, wlist, wmsg, retired, fault>>
    /\ WorkerUnchanged

(* A fault model of complete_work that looks the Work up by upstairs_id    *)
(* alone, as if the entry were still c's.                                  *)
WorkerCompleteUnlocked(c) ==
    /\ wAlive[c]
    /\ wpc[c] = "complete"
    /\ LET id == wmsg[c].job
           w == MyEntry(c).work
       IN IF ident[c].upstairs_id \notin DOMAIN registry
          THEN /\ wAlive' = [wAlive EXCEPT ![c] = FALSE]
               /\ UNCHANGED <<registry, wpc, retired>>
          ELSE /\ registry' = [registry EXCEPT ![ident[c].upstairs_id].work =
                     CompleteWork(w, id, wmsg[c].flush)]
               /\ retired' = IF id \in DOMAIN w.active
                             THEN retired \cup {[via |-> w.active[id].via,
                                                 job |-> id]}
                             ELSE retired
               /\ wpc' = [wpc EXCEPT ![c] = "start"]
               /\ UNCHANGED wAlive
    /\ UNCHANGED <<tokens, wlist, wmsg, acks, fault>>
    /\ WorkerUnchanged

(* Downstairs::complete_work: a failing work_lock ends the worker;         *)
(* otherwise the job with this id, if resident, is removed.                *)
WorkerComplete(c) ==
    /\ wAlive[c]
    /\ wpc[c] = "complete"
    /\ LET id == wmsg[c].job
           w == MyEntry(c).work
       IN IF ~WorkLockOk(registry, ident[c])
          THEN /\ wAlive' = [wAlive EXCEPT ![c] = FALSE]
               /\ UNCHANGED <<registry, wpc, retired>>
          ELSE /\ registry' = [registry EXCEPT ![ident[c].upstairs_id].work =
                     CompleteWork(w, id, wmsg[c].flush)]
               /\ retired' = IF id \in DOMAIN w.active
                             THEN retired \cup {[via |-> w.active[id].via,
                                                 job |-> id]}
                             ELSE retired
               /\ wpc' = [wpc EXCEPT ![c] = "start"]
               /\ UNCHANGED wAlive
    /\ UNCHANGED <<tokens, wlist, wmsg, acks, fault>>
    /\ WorkerUnchanged

(* Every sender of the job channel is gone (resp_loop returned, pf_task    *)
(* ended) and it is drained: recv gives None and the worker ends.          *)
WorkerExit(c) ==
    /\ wAlive[c]
    /\ wpc[c] = "idle"
    /\ tokens[c] = 0
    /\ phase[c] # "resp"
    /\ ~pfAlive[c]
    /\ wAlive' = [wAlive EXCEPT ![c] = FALSE]
    /\ UNCHANGED <<registry, tokens, wpc, wlist, wmsg, acks, retired, fault>>
    /\ WorkerUnchanged

-----------------------------------------------------------------------------

\* A panic, failed assertion or blocked send stops the process.
Running == fault = "none"

Next ==
    /\ Running
    /\ \E c \in Conns :
          \/ HereIAm(c)
          \/ PromoteToActive(c)
          \/ RegionInfoPlease(c)
          \/ LastFlush(c)
          \/ ExtentVersionsPlease(c)
          \/ Evicted(c)
          \/ EndOfStream(c)
          \/ Timeout(c)
          \/ TaskEnded(c)
          \/ \E j \in Load[c] \ sent[c] : ReadFrame(c, j)
          \/ CloseSocket(c)
          \/ PfAddWork(c)
          \/ PfRepair(c)
          \/ PfRepairCloseFails(c)
          \/ PfWake(c)
          \/ PfExit(c)
          \/ WorkerWake(c)
          \/ WorkerStart(c)
          \/ WorkerPassDone(c)
          \/ WorkerDoWork(c)
          \/ WorkerSendAck(c)
          \/ WorkerComplete(c)
          \/ WorkerExit(c)

(* The tasks a connection spawned run whenever one of them can: while the  *)
(* frame dispatcher or the worker of c can take a step, one of them does.  *)
(* This is weaker than fairness to each task and is all the liveness       *)
(* properties need; nothing is assumed of negotiation, the upstairs, a     *)
(* timeout or resp_loop's select.                                          *)
TaskStep(c) ==
    \/ PfAddWork(c) \/ PfRepair(c) \/ PfRepairCloseFails(c)
    \/ PfWake(c) \/ PfExit(c)
    \/ WorkerWake(c) \/ WorkerStart(c) \/ WorkerPassDone(c)
    \/ WorkerDoWork(c) \/ WorkerSendAck(c) \/ WorkerComplete(c)
    \/ WorkerExit(c)

Fairness == \A c \in Conns : WF_vars(Running /\ TaskStep(c))

Spec == Init /\ [][Next]_vars /\ Fairness

-----------------------------------------------------------------------------

UpstairsConnections ==
    [upstairs_id : {Hello[c].upstairs_id : c \in Conns},
     session_id : {Hello[c].session_id : c \in Conns},
     gen : {Hello[c].gen : c \in Conns} \cup {PromoteGen[c] : c \in Conns}]

TypeOK ==
    /\ \A u \in DOMAIN registry :
          /\ registry[u].conn \in UpstairsConnections
          /\ registry[u].tx \in Conns
          /\ DOMAIN registry[u].work.active \subseteq JobIds
    /\ phase \in [Conns -> {"neg", "resp", "gone"}]
    /\ negotiated \in [Conns -> 0..4]
    /\ ident \in [Conns -> UpstairsConnections \cup {NoConn}]
    /\ \A c \in Conns : Len(termq[c]) <= 1
    /\ sent \in [Conns -> SUBSET JobIds]
    /\ tokens \in [Conns -> 0..WakeCap]
    /\ wpc \in [Conns -> {"idle", "start", "do", "ack", "complete"}]
    /\ acks \subseteq [on : Conns, job : JobIds, via : Conns]
    /\ retired \subseteq [via : Conns, job : JobIds]

(* No panic (new_work's owner check, promote_to_active's "more than one    *)
(* active upstairs"), no failed assertion of get_ready_job, and no         *)
(* block_on(send) on a full terminate channel under the Downstairs lock is *)
(* reached, whatever the order of promotions, disconnects and the steps of *)
(* the tasks of evicted connections that are still running.                *)
NoFault == fault = "none"

(* A job leaves a session's queue (complete_work) only after its ack was   *)
(* written on the connection that sent it: no task of another connection  *)
(* retires it, and no ack of it goes to another socket.                    *)
RetiredAfterOwnAck ==
    \A r \in retired : [on |-> r.via, job |-> r.job, via |-> r.via] \in acks

(* Every job resident in a registered session's queue was sent on a        *)
(* connection with that session's identity: work of an evicted or        *)
(* disconnected session never lands in its successor's queue.              *)
WorkIsolation ==
    \A u \in DOMAIN registry :
        \A j \in DOMAIN registry[u].work.active :
            ident[registry[u].work.active[j].via] = registry[u].conn

(* P4, fencing: on a read-write node, a step that replaces the registered  *)
(* owner by another connection gives it to a higher gen; a lower gen, or   *)
(* an equal gen with another session, never displaces the owner.           *)
FencedTakeover ==
    [][~ReadOnly =>
         \A u \in DOMAIN registry, v \in DOMAIN registry' :
             registry'[v].conn # registry[u].conn =>
                 registry'[v].conn.gen > registry[u].conn.gen
      ]_registry

(* The spec's clear(conn), "drop on disconnect": a session stays in the    *)
(* registry only while the connection that registered it is still served  *)
(* by proc or resp_loop.  Once proc has returned, whatever the reason      *)
(* (end of stream, inactivity timeout, an ended task, a failed             *)
(* reopen_all_extents), nobody answers for the entry.                      *)
DropOnDisconnect ==
    \A u \in DOMAIN registry : RxOpen(registry[u].tx)

(* Repair fencing, the region's counterpart of P4 and P7: on a read-write  *)
(* node, once another session has been promoted, no frame of an earlier    *)
(* session changes the region any more; an extent repair frame never runs *)
(* while a session other than its own owns the region.                    *)
FencedRepair == ~ReadOnly => \A r \in repairs : r.owners \subseteq {r.conn}

(* P7 on the region: on a read-write node, a write, write_unwritten or      *)
(* flush that do_work runs is for the one registered session.  The workers *)
(* of evicted or cleared sessions go on draining their queues (their tasks *)
(* are not aborted), and work_lock and do_work's is_active, taken under    *)
(* the Downstairs lock, are all that keeps them off the region: the change *)
(* is made on a connection whose own registration is the one registered.   *)
FencedIO == ~ReadOnly => \A r \in ios : r.owners = {r.on}

(* Every job the upstairs sends on a connection is eventually acknowledged *)
(* on that connection, unless the connection stops being the active one.   *)
JobsAnswered ==
    \A c \in Conns, j \in JobIds :
        j \in sent[c] ~>
            \/ [on |-> c, job |-> j, via |-> c] \in acks
            \/ ~(ident[c] # NoConn /\ IsActive(registry, ident[c]))

=============================================================================
