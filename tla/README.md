# TLA+ models of the Crucible downstairs

This directory models the concurrency core of the downstairs server in
`src/downstairs/src/lib.rs`. That is the process that serves one region to one
or more remote "upstairs" clients over TCP. It also models the downstairs'
import and export of a file, and the parts of the upstairs test client in
`src/upstairs/src` that have state or arithmetic worth checking. The models
are checked with TLC.

## The system

The parts of the downstairs, and what they share:

| Part | Code | State |
|------|------|-------|
| Work queue | `struct Work`, `DownstairsWork`, `Work::{new, clear, new_work, add_work, in_progress, get_ready_job}`, `Downstairs::complete_work` | per session: `active` (ds_id → job with state New / DepWait / InProgress), `last_flush`, `completed` |
| Session registry | `Downstairs::{promote_to_active, work_lock, is_active, clear_active}` | `active_upstairs`: upstairs_id → (UpstairsConnection, Work, terminate sender) |
| Negotiation | `proc` | per connection: `negotiated` step 0..4, the recorded `UpstairsConnection`, a capacity-1 terminate channel |
| Steady state | `resp_loop`, `proc_frame` (in `pf_task`), `do_work_task` | per connection: the message channel, the job channel (capacity 200, wake tokens), the worker's list and current job |
| Extent repair frames | `proc_frame`'s `ExtentFlush/Close/Repair/Reopen` arms | none of their own; they act on the region under the Downstairs lock |
| Import/export | `downstairs_import`, `downstairs_export` | the file, the region's blocks, the chunk buffer and its LBA offset |
| Upstairs test client | `FileBlockIO` and `ReqwestBlockIO` (`block_io.rs`) | the file, its one seek cursor and the tokio Mutex around it; the object behind the URL and the `total_size` its HEAD measured |
| Region I/O, stats, SMF | `Region` (other crate), `complete_work_stat`, `src/smf` | not modelled |

### How the parts interact

- The whole `Downstairs` sits behind one `futures::Mutex`. Every
  `ads.lock().await.f(...)` call is therefore one atomic step. The tasks of
  different connections interleave only between such calls.
- Each TCP connection runs `proc`. After negotiation it runs `resp_loop`,
  which spawns two tasks:
  - `pf_task` runs `proc_frame` on each frame, which calls `add_work` and then
    posts a wake token on the job channel.
  - `do_work_task`, on each token, snapshots `new_work` and then, one lock at
    a time for each id, calls `in_progress`, `do_work`, writes the ack to the
    socket and calls `complete_work`.
- A promotion of another connection evicts the owner:
  - it removes the owner's registry entry and clears the owner's Work;
  - it sends the new connection on the owner's terminate channel
    (`block_on(send)` with the lock held).
- The evicted `proc`/`resp_loop` answers `YouAreNoLongerActive` and returns.
  Its spawned tasks are not aborted:
  - `pf_task` drains the message channel;
  - the worker drains the job channel;
  - both fail `work_lock` (and stop) only when their identity no longer
    matches the registry.
- `work_lock` compares all three fields (upstairs_id, session_id, gen).
- The extent repair frames are not queued. `pf_task` runs the Region
  operation under the Downstairs lock and writes `RepairAckId` (or
  `ExtentError`) at once, with no `work_lock` or `is_active` check. The
  exception is an `ExtentClose` whose `close()` fails: its `?` returns the
  error from `proc_frame`, `pf_task` ends, and the frame is never answered.
- `FileBlockIO` is shared by the test client's tasks. Its `std::fs::File` has
  one cursor, so each call is a seek followed by `read_exact` or `write_all`,
  both under the File's tokio Mutex.

### Hard behaviours

- Orphaned tasks of an evicted connection acting on the registry after the
  new owner is in.
- Job ids that collide between an old session and the session replacing it.
- The ack written between `do_work` and `complete_work`.
- DepWait jobs that are retried only on later wake tokens.
- The flush horizon, which empties `completed`.
- `block_on` on the terminate channel under the global lock.
- `reopen_all_extents` failing after the registry was already changed.
- Disconnects, timeouts and task failures at every step.

## Modules

| Module | Models | Role |
|--------|--------|------|
| `Work.tla` | `Work` and the Downstairs methods that reach it | Operators over a Work value, one per method: `WorkNew`, `NewWork`, `AddWork`, `DepsMet`, `InProgress`, `ReadyJobAssertsHold`, `CompleteWork` |
| `Registry.tla` | `active_upstairs`, `promote_to_active`, `is_active`, `work_lock`, `clear_active` | Operators over the registry: read-only and read-write promotion, refusal, panic, eviction |
| `DepOrder.tla` | the spec's P1 | Abstract spec: a sent job is acked once, after all its dependencies were acked |
| `WorkQueue.tla` | `proc_frame` + `do_work_task` for one active session | Dispatcher and worker over one Work; refines `DepOrder` |
| `Downstairs.tla` | `proc`, `resp_loop`, `proc_frame` (IO and repair frames), `do_work_task` for several connections | Composes `Work` and `Registry`; models eviction, orphaned tasks, disconnects and timeouts |
| `ImportExport.tla` | `downstairs_import`, `downstairs_export` | The import as one action per turn of its loops (any short read); the export as one action |
| `AtomicBlockIO.tla` | what a BlockIO promises | Abstract spec: each read, write and flush takes effect at one instant between call and return |
| `FileBlockIO.tla` | `FileBlockIO::{new, read, write, write_unwritten, flush}` | One action per await point; refines `AtomicBlockIO` |
| `ReqwestBlockIO.tla` | `ReqwestBlockIO::{new, read, write, write_unwritten, flush}` | The HEAD in `new`; `read`'s Range header in u64 (debug panics on overflow, release wraps), the server's RFC 7233 answer as a choice, the Content-Length `assert_eq!` |
| `Negotiation.tla` | `proc`'s negotiation loop | One connection against a peer that sends any frame in any order: every arm of the select, its out-of-order and mismatch bails and replies; the registry reduced to whether this connection's entry is the registered one |
| `MCWorkQueue.tla`, `MCDownstairs.tla`, `MCFileBlockIO.tla` | | Constants for TLC |
| `WorkTests.tla` | the Work unit tests of `lib.rs` (`mod test`) | The tests' helpers as operators over Work, each test a script of steps, the state the test being run |
| `DownstairsTests.tla` | the Downstairs-method unit tests of `lib.rs` (`mod test`) | `build_test_downstairs`, `promote_to_active` with its terminate channels (`try_recv`: a message, `Empty`, or `Disconnected` once every sender is dropped), `add_work`, `in_progress`, `do_work`, `complete_work` as operators over `Registry` and `Work`; each test a script of steps |
| `MCSequentialParts.tla` | | `ImportExport`, `WorkTests`, `DownstairsTests`, `ReqwestBlockIO` and `Negotiation` in one run: each behaviour runs one of them (they share no state) |

### How the state and actions correspond to the code

**WorkQueue.** There is one action per step of the code:

| Action | Code |
|--------|------|
| `Dispatch` | proc_frame's `add_work` |
| `Wake` | the job-channel send |
| `WorkerWake` | the `new_work` snapshot |
| `WorkerStart` | `in_progress` |
| `WorkerSkip` | with `lossy` set, the pass skipping an id |
| `LossyWake` | with `lossy` set, `resp_loop`'s 5 s timer sending 0 on the job channel |
| `WorkerDoWork` | `do_work` |
| `WorkerAck` | the socket write |
| `WorkerComplete` | `complete_work` |

Jobs may arrive in any order, as the code's own tests submit them.

**Downstairs.** Each connection `c` has a `phase`:

- `"neg"` is `proc`; `negotiated[c]` is the step.
- `"resp"` is `resp_loop`.
- `"gone"` means `proc` has returned.

`pfAlive[c]` and `wAlive[c]` are its two tasks, which outlive `"resp"`. The
actions are:

- Negotiation: `HereIAm`, `PromoteToActive`, `RegionInfoPlease`,
  `LastFlush`, `ExtentVersionsPlease`.
- The select arms: `Evicted`, `EndOfStream`, `Timeout`, `TaskEnded`,
  `ReadFrame`.
- The tasks: `PfAddWork`, `PfWake`, `PfExit`, `WorkerWake`, `WorkerStart`,
  `WorkerPassDone`, `WorkerDoWork`, `WorkerSendAck`, `WorkerComplete`,
  `WorkerExit`.
- The peer closing its socket: `CloseSocket`.
- A repair frame: `RepairRuns` records the Region operation; `PfRepair`
  answers it at once (`RepairAckId` or `ExtentError`, not told apart), and
  `PfRepairCloseFails` is an `ExtentClose` whose `close()?` fails, ending
  `pf_task` with no reply.

History variables record what the properties need:

- `acks` holds (socket, job, connection the job came in on);
- `retired` holds the jobs `complete_work` removed;
- `fault` holds a panic, a failed assertion or a blocked `block_on` send;
- `repairs` holds, for each repair frame run, the session it came in on and
  the sessions registered at that moment;
- `ios` holds, for each write, write_unwritten or flush `do_work` ran on
  the region (its `is_active` check passed), the connection it ran on and
  the connections registered at that moment.

Each job remembers the connection it came in on (`via`). This is a model
field, not a field of the code.

**ImportExport.** The file of length L holds the bytes 1..L, so every byte
is told apart from the zero padding. The region is a map from LBA to the
block's bytes.

| Action | Code |
|--------|------|
| `Extend` | `extents_needed` and `region.extend` |
| `ReadSome` | `f.read` returning 0 < n bytes (any n that fits the buffer) |
| `ReadEof` | `f.read` returning 0: zero padding to a block multiple |
| `ReadFull` | the buffer reaching `CHUNK_SIZE` |
| `WriteChunk` | `extent_from_offset`, the per-block writes, `region_write` (fails past the last extent) and `offset.advance` |
| `ImportDone` | `total == 0` |
| `Export` | the whole export loop, as the pure function `Exported` |

**FileBlockIO.** Each caller has a `pc` with one value per await point:
`Invoke`, `Lock` (`self.file.lock().await`), `Seek`, `ReadExact` or
`WriteAll` or `FlushFile`, `Bail` (`write_unwritten`'s `crucible_bail!`) and
`Return` (the guard is dropped). The refinement mapping sends every `pc`
before the I/O step to "pending" and "ret" to "applied". So the
`read_exact`/`write_all` step is the linearization point.

## Runs

| Run | Config | Expect | Checks |
|-----|--------|--------|--------|
| workqueue | `MCWorkQueue.cfg` | pass | `TypeOK`, `AcksRespectDeps` (refinement of `DepOrder`), `EveryJobAcked` |
| flush_horizon | `MCWorkQueueHorizon.cfg` | violation | `EveryJobAcked` |
| sessions_rw | `MCDownstairs.cfg` | pass | `TypeOK`, `NoFault`, `RetiredAfterOwnAck`, `WorkIsolation` |
| sessions_rw_live | `MCDownstairsLive.cfg` | pass | `FencedIO`, `JobsAnswered` (with an `ExtentFlush` repair frame in the first session's load) |
| sessions_ro | `MCDownstairsRO.cfg` | pass | `NoFault`, `RetiredAfterOwnAck`, `WorkIsolation` |
| same_triple_reconnect | `MCDownstairsReconnect.cfg` | violation | `RetiredAfterOwnAck` |
| read_only_write | `MCDownstairsROWrite.cfg` | violation | `JobsAnswered` |
| stale_registration | `MCDownstairsStale.cfg` | violation | `DropOnDisconnect` |
| repair_fencing | `MCDownstairsRepair.cfg` | violation | `FencedRepair` |
| sequential_parts | `MCSequentialParts.cfg` | pass | `TypeOK`, `ImportFits`, `RoundTrip`, `WorkTestsHold`, `DownstairsTestsHold`, `InRangeReadExact`, `NegotiationReplies` |
| export_start_block | `MCImportExportStart.cfg` | violation | `ExportRange` |
| file_block_io | `MCFileBlockIO.cfg` | pass | `Linearizable` (refinement of `AtomicBlockIO`) |

What the passing runs show:

- **Dependency order.** Acks respect dependencies even though `in_progress`
  only sees `last_flush` and a `completed` set that every flush empties.
- **Progress.** Every job of an upstairs-shaped workload (jobs after a flush
  depend on it) is eventually acked, although completion posts no wake
  token. With the `lossy` test flag set, the worker's pass may skip any id;
  a skipped job is still acked once the upstairs has stopped sending,
  because `resp_loop`'s lossy timer starts another pass. The timer arm with
  its `if lossy` flag inverted leaves a skipped job unacked.
- **Eviction safety.** Whatever the order of promotions, disconnects,
  timeouts and steps of orphaned tasks, with the identities the code
  distinguishes:
  - no panic and no blocked terminate send is reached;
  - no foreign job enters a session's queue;
  - no job is retired before its ack was written on its own connection;
  - a job sent on the active connection is answered, an `ExtentFlush`
    repair frame included (an `ExtentClose` is not: see hazard
    lib.rs:562 in `PROJECT.json`);
  - no write, write_unwritten or flush of `do_work` reaches the region
    except on the connection whose registration is the registered one
    (`FencedIO`, the spec's P7 carried to the region). The workers of
    evicted sessions go on draining their lists; `work_lock` and
    `do_work`'s `is_active`, taken under the Downstairs lock, keep them off.
    Both compare the full triple: with `is_active` comparing the
    upstairs_id alone, the evicted worker writes. Contrast finding 6: the
    repair frames have no such check.
- **Import/export.** Whatever sizes `f.read` returns:
  - the rounded-up extent count always leaves room for the padded last
    chunk;
  - exporting ceil(L / block_size) blocks from block 0 gives the file back,
    padded with zeros (with `start_block` 0; other starts are the
    export_start_block run).
- **Work against its unit tests.** The operators of `Work.tla` pass every
  assertion of the thirteen Work unit tests of `lib.rs`. This ties the model
  of `new_work`, `in_progress` and `complete_work` to the behaviour the code's
  authors pinned down. The tests' `completed` is a Vec, and the model
  compares it as a set.
- **The Downstairs methods against their unit tests.** `Registry.tla`'s
  `promote_to_active`, `is_active` and `work_lock` and `Work.tla`'s queue
  pass every assertion of thirteen Downstairs tests of `lib.rs`: the
  read-write and read-only promotion tests (who is refused, who is evicted
  and told on its terminate channel, which sender is dropped), the job-id
  collision test of two read-only upstairs, and the `complete_work` tests
  where a newer session takes over between `do_work` and `complete_work`.
  The mutant that makes `is_active` compare only the upstairs_id fails
  `test_complete_work_cannot_see_none_same_upstairs_id`.
- **ReqwestBlockIO.** A non-empty read inside the object that `new`
  measured never panics and, when Ok, returns the object's bytes from
  `offset * block_size` on (`InRangeReadExact`). The inclusive Range end
  `start + len - 1` is what makes this so: a half-open end makes every
  in-range answer a byte too long. The run also reaches what the property
  leaves out: an empty read underflows the header (a panic in a debug
  build; in a release build a header naming the rest of the object, then
  the `assert_eq!`), a read past the end panics, and a read past the end
  whose 416 page happens to have the buffer's length is returned as Ok with
  the page's bytes, since the status is never checked.
- **Negotiation.** Whatever frames the peer sends, in whatever order,
  `proc`'s replies other than `Imok` follow the handshake
  (`NegotiationReplies`): `YesItsMe`, `YouAreNowActive`, `RegionInfo`, then
  `LastFlushAck` or `ExtentVersions`, each at most once and in order; a
  `ReadOnlyMismatch` or `EncryptedMismatch` only as the first and last
  reply, `UuidMismatch` only right after `YesItsMe`, and
  `YouAreNoLongerActive` only after `YouAreNowActive`; `resp_loop` starts
  only after the full handshake, with a recorded connection (the `assert!`
  after the loop). A `HereIAm` arm without its `negotiated != 0` check
  breaks it: a second greeting is answered again. The model also reaches
  the `LastFlush` whose `work_lock` fails because another upstairs took
  over after the promotion, and `ExtentVersionsPlease` entering
  `resp_loop` in that case with the eviction already queued.
- **FileBlockIO.** Two callers with interleaved reads, writes past the end,
  short reads and flushes see the file as if each call ran at one instant.

### Findings (the violation runs)

1. **Same-triple reconnect.** This is a code bug against the spec's "without
   corrupting newly-arriving work under the same identity".
   - An upstairs can reconnect with the identical (upstairs_id, session_id,
     gen). `promote_to_active` accepts it (lib.rs:1884).
   - The old connection's worker still passes `work_lock`.
   - That worker completes the job the upstairs resent on the new socket
     under the same ds_id. Its ack went only to the old socket. The job
     leaves the queue without running and is never answered on the new
     connection.
   - The code's tests acknowledge the two tasks
     (`test_complete_work_can_see_none`). The comment in `complete_work`
     assumes the removed job is always absent, but here it is present.
2. **Write on a read-only node.** The code and the spec disagree.
   - `add_work` bails (lib.rs:1479).
   - `pf_task` and then the connection end. The session stays registered,
     and the write is never answered.
   - The spec says to reply with a `ModifyingReadOnlyRegion` ack and not to
     close the connection.
3. **Flush horizon.** This is a spec gap.
   - Completing a flush empties `completed` (lib.rs:1691), also of jobs with
     higher ids that finished before the flush.
   - A later job depending on such a job stays in DepWait forever.
   - The spec's horizon rationale assumes such jobs depend on the flush, but
     does not require it of the upstairs.

4. **Export from a start_block.** This is a code bug.
   - `downstairs_export` computes `extent_offset = space_per_extent * eid`,
     which is in bytes (lib.rs:96).
   - It then compares `extent_offset + block_offset >= start_block`, which
     is in blocks (lib.rs:98).
   - With blocks of 2 bytes and extents of 2 blocks, an export from block 3
     writes blocks 2 and 3. Its own comment says it starts from start_block.
5. **Stale registration.** The code and the spec disagree.
   - The spec drops a session's entry on disconnect (`clear(conn)`).
   - If `reopen_all_extents` fails right after a promotion (lib.rs:1976),
     the entry stays, and no connection serves it.
   - The same happens when `resp_loop` returns on a timeout (lib.rs:1233)
     or a task ending. Only a later promotion of the same upstairs removes
     the entry.
6. **Repair frames are not fenced.** This is a spec gap.
   - The spec's eviction fences the previous owner, and it says the
     steady-state tasks validate ownership before they act.
   - The repair arms of `proc_frame` (lib.rs:516-630) check neither
     `work_lock` nor `is_active`.
   - An evicted session's `pf_task` keeps draining its message channel.
     So an `ExtentClose` it read before the eviction closes an extent of
     the region after a higher gen was promoted.
   - TLC's trace: c1 (gen 1) is active; c2 promotes at gen 2 and evicts c1;
     c1's `pf_task` then runs its queued `ExtentClose`.

## Bounds and why they suffice

- **WorkQueue.** Five jobs (write, independent read, write-unwritten, flush,
  write after the flush) cover:
  - out-of-order arrival;
  - DepWait and later retry;
  - the flush that empties `completed` and moves `last_flush`;
  - a dependency met through `last_flush` rather than `completed`.

  `WakeCap = 2` makes the channel fill up, and the lossy timer's tokens
  compete with `proc_frame`'s for it. `Lossy = TRUE` (skips are a choice,
  so the non-lossy behaviours are included); the horizon run keeps
  `Lossy = FALSE`.
- **Downstairs.** Two connections of the same upstairs_id with different
  session ids, at gens 1 and 2, and two jobs (a write and a flush depending on
  it). This is enough for:
  - a takeover, and a refused takeover at a lower gen;
  - eviction during every negotiation step and every worker step;
  - ds_id collisions between the two sessions;
  - a flush moving `last_flush`.

  `WakeCap = 1` makes the job channel full after one token. A third
  connection (another upstairs_id) exceeds TLC's reach within the time
  budget. The read-write `>1 entries` panic is therefore reachable only with
  it, and `NoFault` states it is not reached with two.
- **Liveness run.** In the liveness run the taking-over connection sends only
  the write whose id collides with the first session's. The first session
  sends the write, the flush and an `ExtentFlush` repair frame. This keeps
  the behaviour graph within reach (351k states) while a repair frame is in
  flight at every eviction point. The repair frame is an `ExtentFlush`
  because an `ExtentClose` may go unanswered through its failing `close()`
  alone.
- **Read-only run.** The first session sends a read, a flush and an
  `ExtentClose` (whose failing `close()` is reached here); the second sends
  the read whose id collides. With both sending everything the run exceeds
  TLC's reach within five minutes.
- **Repair run.** The same two connections, each sending the write, the
  flush and an `ExtentClose`.
- **Import/export.** Blocks of 2 bytes, extents of 2 blocks, chunks of 2
  blocks, a region created with 1 extent and files of 0..9 bytes. The file
  then needs 0..3 extents, so the import extends the region, spans up to
  three chunks, and pads a short last block. Export counts 0..5 reach past
  the end of the region. The start-block run tries starts 0..5, which cross
  an extent boundary.
- **ReqwestBlockIO.** Objects of 0..9 bytes, blocks of 2 bytes, reads of
  0, 2 or 4 bytes at blocks 0..5: inside the object, across its end and
  wholly past it. Integers are 5 bits wide; every offset and end fits, so
  only the empty read's `- 1` leaves the range, as only it does with 64
  bits. 416 pages of 0 and 2 bytes let an error page match a buffer.
- **Negotiation.** A read-write, unencrypted node; a peer sending up to 5
  frames, each any of the frame kinds (HereIAm of version 1 or 2 with
  either flag, PromoteToActive, the three capability requests, Ruok and an
  ignored frame), with one upstairs_id, two session_ids and two gens. Five
  frames are the four steps plus one frame out of place, a Ruok or an
  ignored frame anywhere; the second session_id makes `UuidMismatch` and
  the second gen the gen update happen. The deadline is 2 ticks: a tick
  that passes without firing it and the tick that fires it.
- **FileBlockIO.** Two callers, two calls each, a file of up to 4 blocks,
  reads and writes of 1..2 blocks at offsets 0..2. This covers a read
  racing a write, a short read at the end, and a write that extends the file.

## Fairness

- The tokio runtime polls a spawned task whenever it can make progress, so
  each connection's pair of tasks is weakly fair as a whole
  (`WF_vars(Running /\ TaskStep(c))`). This is weaker than fairness per task.
- FileBlockIO, ReqwestBlockIO, ImportExport and Negotiation assume no
  fairness. Their properties are safety properties and refinement.
- WorkQueue gives weak fairness to `Dispatch`, to the worker's steps and to
  the lossy timer, and strong fairness to two steps:
  - `Wake`: `proc_frame` and the lossy timer send on the job channel
    through the same tokio Mutex and the channel's semaphore, both of which
    serve waiters first come, first served, so a waiting send is not
    starved by the timer's sends;
  - `WorkerStart` on each id: the lossy skip is two fresh coin flips at
    each offer, so an id offered again and again is eventually not
    skipped.
- No fairness is assumed for the following, so the liveness properties hold
  even if they never act:
  - the upstairs (it may stop sending or close at any time);
  - negotiation in `Downstairs.tla`;
  - timeouts in `Downstairs.tla`;
  - `resp_loop`'s select.
- `CHECK_DEADLOCK FALSE` is used because the server really may stop doing
  anything. An idle session is held open by the upstairs' `Ruok` pings, and
  once every connection has closed the process waits in `accept`. Stuck jobs
  are caught by the liveness properties instead.

## What is not modelled, and why

- **Region I/O.** The read, write and flush data live in the `crucible`
  crate. Region calls do not change modelled state; only the failure of
  `reopen_all_extents` after a promotion is a nondeterministic outcome.
- **Frames and checks not modelled.**
  - the Region operation of a repair frame: `ExtentFlush`, `ExtentRepair`
    and `ExtentReopen` answer `RepairAckId` or `ExtentError`, which the
    model does not tell apart; an `ExtentClose` that fails is modelled
    (no reply, `pf_task` ends);
  - `UuidMismatch` on IO frames: the frame is dropped after the reply and
    no modelled state changes (the modelled upstairs sends its own ids);
  - in `Downstairs.tla`, the negotiation paths a well-behaved upstairs does
    not take (the version and encryption checks, `UuidMismatch` on
    `PromoteToActive`, `Ruok`, out-of-order frames). `Negotiation.tla`
    models them for one connection.
- **The `return_errors` test hook.** It replaces the Region call's result
  with an error in the ack, which the model does not carry. The `lossy`
  hook is modelled in `WorkQueue.tla` (its one-second sleeps are delays
  only); `Downstairs.tla` runs without it.
- **Region creation, startup, TLS, stats and SMF.** These are sequential
  I/O or bindings without shared state.
- **The rest of the upstairs test client.** `ReqwestBlockIO`'s object is
  fixed: its `total_size` is cached at construction and would be stale if
  the object changed, which nothing in the repository says it may, and
  nothing in the repository calls `total_size`. Its probe
  counter (`next_count`) feeds only DTrace. A server that ignores Range on a
  valid header is left out (the client is meant for servers that honour
  it). `main`, `run_single_workload` and the workload generators are
  sequential drivers.
- **do_work's read path and errors.** `region_read` changes nothing; the
  `UpstairsInactive` and Region errors go into the ack's result, which the
  model does not carry.
- **The Region's extent files in import/export.** The region is modelled as
  a map from LBA to the block's bytes.
- **`extent_from_offset`.** It lives in the `crucible` crate, outside this
  repository, and its tests in `main.rs` are not modelled: a model of them
  would check the model against itself.
- **Time.** Only `Negotiation.tla` has a clock, the ticks since the select
  last created its sleep. Elsewhere a timeout is a step that may happen at
  any point. The deadline bounds only silence: a peer that pings with
  `Ruok` stays in negotiation indefinitely (here, until its `MaxFrames`),
  where the spec says 50 s from the connection's start to step 4. No run
  checks either: that silence ends negotiation would hold by the model's
  frame bound alone.
- **Frames buffered in the socket when a connection closes.** They are
  dropped. The model reads the frames the upstairs sends one at a time.

## Plan for further work

1. A clock from the connection's start, to state the spec's negotiation
   deadline.
2. Add a third connection (another upstairs_id) in a bounded run, to check the
   `>1` panic and read-only coexistence.
3. The `lossy` hook in `Downstairs.tla`, for the worker of an evicted
   session.
4. A property for the connection that only greets with the active
   session's (upstairs_id, session_id, gen) and then disconnects: its
   `clear_active` (lib.rs:899) empties the other connection's Work without
   telling it. `Downstairs.tla` takes this step under the same-triple
   reconnect configuration, but no property checks it, since the spec too
   calls such connections equal.
5. A run of `JobsAnswered` with an `ExtentClose` repair frame, where a
   failing `close()` leaves the frame unanswered and ends `pf_task`, against
   the spec's "surface Region errors in the reply, keep the connection".
