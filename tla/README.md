# Ourios: a TLA+ model of the durable path of a log

Ourios is a log backend written in Rust. It receives OTLP log batches, writes
each to a write-ahead log, acknowledges it once an fsync covers it, mines
templates out of it, publishes the records as Parquet files in an object store,
and answers queries over those files. This project models what makes the
program safe to run: an acknowledged batch is never lost and the log never
forgets one too early, through concurrent requests, failing syncs, panics,
kills, power losses and restarts.

Source paths below are relative to `src/crates/`.

## The system

| Part | State it keeps | Operations | Talks to |
|---|---|---|---|
| Receiver transports (`ourios-ingester/src/receiver/{grpc,http,admission}.rs`) | none that lasts | decode, admit, spawn one ingest task per request | ingest turn |
| Ingest turn (`receiver/pipeline.rs`) | `last_durable`, the rotation hook, the barrier exclusion | commit, take the turn, rotate, fold, submit, mark | commit, miner, encode pool, barrier |
| Group commit (`receiver/commit.rs`) | arm flag, sequence numbers, the outcome and gate channels | `commit`, `arm_flush`, `flush`, `await_ingest_turn`, `complete_ingest`, `maintain` | WAL behind a mutex |
| WAL (`ourios-wal/src/lib.rs`, `rotation.rs`) | segments, current segment, owed directory fsync, retry budget, checkpoint | `open`, `append`, `sync`, `rotate`, `replay`, `checkpoint` | the file system |
| WAL reclamation (`ourios-wal/src/{housekeeping,reconcile,reclaim,retain,pass}.rs`) | the RECLAIM record, the segment ledger, the outstanding pass | prepare, unlink, commit, reconcile at open | WAL, barrier's horizons |
| Barrier and cadence (`ourios-ingester/src/{barrier,cadence}.rs`) | the pending cut, the epoch counter and the failure latch, installed horizons | `capture`, `capture_rotation`, `run_pending`, `tick`, `install`, `stamp` | sinks, snapshot store, WAL checkpoint |
| Sinks and publishing (`record_sink.rs`, `publish.rs`, `publisher.rs`, `encode_pool.rs`, `lane.rs`) | record buffers, registered publishes, settlements, queues | encode, drain, publish, requeue, park, quiesce | object store, audit sink |
| Audit sink (`audit_sink.rs`) | audit buffers, the ledger of flushes in limbo | issue, clear, abandon, clear in turn | object store |
| Recovery (`recovery.rs`, `snapshot_store.rs`) | snapshots on disk | `recover`, `route`, `write_folded_snapshots` | WAL replay, miner |
| Receiver process (`ourios-server/src/receiver.rs`) | task handles, the shutdown signal | start, age sweep, barrier task, housekeeping task, shutdown | all of the above |
| Template ids (`template_ids/`) | reserved ranges, the high-water in the store | seat, reserve, seal | object store, miner |
| Miner (`ourios-miner`) | template tree per tenant, folded horizon | `ingest`, snapshot, restore | sinks |
| Storage and compaction (`ourios-parquet`, `compactor/`) | Parquet files, the manifest | write, compact, commit, erase | object store |
| Querier (`ourios-querier`) | template map, file set | refresh, plan, execute | object store |
| Replicated backend (`replicated/`, `ourios-wal/src/replicated.rs`) | Raft log, votes, state machine | append, vote, apply, forward | other nodes |

What is hard in it, and what makes each part correct:

* **Group commit**: several flushes overlap, a request is decided by a
  broadcast it may see late. Correct when success means durable, nobody waits
  for a flush that will not run, and frames reach the miner in append order.
* **WAL**: a rotation fails between any two of its steps, a process is killed
  with dirty pages, power fails. Correct when whatever a sync covered is
  replayed and recovery never needs an operator.
* **Publication**: six actors take records out of the same buffers and put some
  back later, while a barrier decides that "everything up to here is stored".
  Correct when the decision is true, nothing is dropped, and nobody waits for a
  guard that only the waiter can release.
* **Recovery**: three marks (synced prefix, snapshot horizon, checkpoint) and
  the store must agree across crashes. Correct when an acknowledged frame is
  stored or will be published again.
* **Audit order**: records leave the buffers with one take, the audit events
  they depend on with another, and a take may fail after later ones were cut.
  Correct when no record is visible before its events, no event is lost, and
  the takes that wait for one another all settle.
* **Reclamation**: a pass plans under one lock, unlinks under none and commits
  under another, and may be superseded, abandoned or cut by a crash between any
  two steps. Correct when whatever is gone is accounted for in every record a
  crash can leave, and nothing needed is unlinked.
* **Lane**: a panic retires a generation of threads while callers enqueue.
  Correct when every item is settled exactly once and the drop returns.
* **Template ids**: several receivers reserve blocks of one id domain in one
  object of the store, across upgrades, tampering and restarts. Correct when no
  id comes to stand for two templates.
* **Compaction and queries**: compactors race for the manifest while flush files
  arrive late or twice and queries list, resolve and open. Correct when every
  row is in one live file and every answer holds it once; and when an erased
  row stays gone.
* **Replicated log storage**: openraft counts an answer as a promise. Correct
  when an answered vote or entry survives every crash, a vote never overtakes
  the log it was cast on, and a replica that lost its log does not start empty.

## Modules

A name with an underscore (`Mark_Eof`) is a faulty variant of the definition
that follows it, the form a plausible bug would take. No specification uses
one; substituting it must break the property it is paired with.

### GroupCommit

One request is one export call. `pc[r]` follows it through `ingest_batch`:
`new`, `appended` (after the journal mutex), `waiting` (after `arm_flush`),
`covered`, `turn`, `answered`, `done`. `task[r]` is the flush task that `r`
spawned, if it found none armed. `FlushCapture`, `FlushSync` and `FlushPublish`
are the three critical sections of `flush`; other tasks run between them. The
window timer and the segment-fill cut only decide when a task runs, so an armed
task may run at any time. `outcome` and `gate` are the two watch channels.
`synced` is ghost state: what a successful sync covered.

### Wal

Segments are numbered in the order of their UUIDv7 names; a frame has an
identity, a length and the bytes that reached the file. `durable`, `headed` and
`linked` record what fsyncs proved of frames, headers and directory entries. All
operations hold the journal mutex, so each is one step that chooses its first
failing site: the owed directory fsync, the closing data sync, the creation,
header sync and rename of the fresh segment (one disjunct: they leave the same
state), the parent fsync. `attempts` is `RotationState`. `Kill` keeps the page
cache, `PowerLoss` drops any suffix of a file that no fsync covered, cut inside
a frame or between two, and any directory entry that no fsync covered.
`replay_segment` is `Readable`, `TornTail` and `Corrupt`: a torn frame is read
together with the bytes behind it, so a short remainder is a torn tail and a
long one a checksum failure. The `*.wal.partial` files are left out
(`list_segments` never returns them).

### Publication

A frame holds one record; a batch is a set of records out of the buffers with
its publish guard, its epoch and the actor that has it (`at`): an encode worker,
the publisher lane, the sweep, the rotation hook, the timer's capture, the
pending slot, the running cut, or the way back into the buffers (`park`).
`Put`, `Return`, `Release` and `Unwind` are what happens to a batch; the other
actions are the critical sections of the turn, the barrier task (`phase`) and
the shutdown (`stop`). `next` and `failed` are `BarrierEpochs`; `settlements`
are the dated returns and the unwinds that `all_ok` reads. The exclusion and the
miner lock are guards. One tenant stands for all, so its folded horizon is the
mark. An ingest task may outlive its connection: turns run until the shutdown
holds the miner lock, and `late` records that the rotation hook of one filled the
slot behind the shutdown. The audit half of a publish is in AuditOrder: a failed
audit flush is a `Return` here.

### Recovery

Composes the other three at the grain the question needs: the log is a sequence
with a synced prefix, a commit is a sync and a turn, a cut is one step (module
Publication shows that nothing unstored is stamped), a reclamation is one step.
An offset is a position; after a power loss the lost positions are used again,
as the byte offsets of a reopened segment are. `Recover` is `recover` with the
three routes of `route`; `PostRecovery` and `Shutdown` share
`FlushThenSnapshot`. `ledger` is what `Barrier::snapshot_horizons` reports to
housekeeping. Reclamation is at the grain of frames: it may unlink any prefix
that a placement of segment boundaries allows.

### AuditOrder

The other half of a publish. Line `i` may emit the template event `i` and always
emits the record `i`, which may depend on any event up to `i`. A take is one
ticket of the `Ledger`: `open[t]` says whether it stands, whether it is in limbo
(its events are out of the buffer and not yet written) and whether an abandoned
take before it doomed it. `Write`, `Return`, `Abandon`, `Clear` and `ClearInTurn`
are the ends of a take; the sweep, the barrier's captures and the shutdown are
its three sources. `Append` is the inline detach of the encode pool, allowed only
when `Settled`.

### Reclaim

The retention ledger, the two-phase pass, the RECLAIM record, the CHECKPOINT
sidecar and the open-time matrix. `ledger` is `SegmentLedger`; `half[p]` is the
file half of a pass, of which a superseded one may still be running; `live` is
the live-pass cell, read by `CheckPermit` one step before `Unlink`. `rec` is the
live slot and `recAlt` the other record a power loss may bring back: the one a
failed slot write left, and after a kill the one an unsynced write replaced, since
an open fsyncs the record only when it rewrites it (`Rewrite`).
`Prepare`, `WritePlan`, `CheckPermit`, `Unlink`, `SyncParent`, `Commit` are a
pass; `OpenRoot` and its helpers the matrix of `reconcile.rs`; the `Checkpoint...`
actions the failing sites of `Wal::checkpoint`. The loop that pops candidates is
`Pops`, which says what it ends with instead of how: a candidate is out exactly
when those whose `Turn` comes before its own left it a row. `lost` counts the snapshots and the sidecars
an operator or a disk took away. Passes are offered restorable horizons only
(`retain.rs:92`); a horizon that is merely recorded comes from the start-up check
of `recovery.rs`, before there is a pass, so `LegacyGap` has no case for it.

### Lane

`slot`, `open` and `handles` are the slot; each generation has a queue and its
threads. A sender that finds the queue full is between its failed `try_send` and
its wait while it holds `mutex`, which is the window a wake could be lost in.

### TemplateIds

`hw` is the high-water object, `marker` and `snap` each root's files. A start is
`Decide` (which snapshots to trust), `Seat`, `Create`, `RecordSeat`, the replay
and the seal; the refiller reads, writes (compare-and-swap, or overwrite on a
local store), records and makes a block ready; a shutdown may leave a write in
flight (`ghost`). A receiver publishes from its replay on: `ReplayCapture::settle`
hands the sink what a frame emitted, and the sink publishes inline, before
`seal_root` writes a root's first marker. `blind` remembers that a start without a
marker took a high-water below an id its root had published or snapshotted.

### Compaction, FileSet

One partition. A flush file is named by its row, a compacted file by generation
and serial number. Every store request of a sweep is a step: plan, read, list,
sort, put, commit, delete, the orphan pass, and the rows phase of an erasure with
its confirming rounds. FileSet adds a query that lists entry by entry, reads the
manifest and opens file by file, and rechecks its file set when a file is gone. On
a local partition a resolution, the recheck's included, first canonicalizes what it
found (`Canonicalize`): a file that vanished makes it list again, and the last of
its `LocalResolveAttempts` listings ends the query with an error, whichever attempt
it was made for. `Settle` is what follows a resolution: the scan or, after a failed
scan, the comparison of the two file sets.

### VoteLog, GroupLog, DurableLog

VoteLog is `votes.log`: sectors of slots, one writer thread, a batch per fsync,
the rewrite with its rename, recovery. A power loss keeps or zeroes each unsynced
sector on its own. GroupLog extends it with the log of one group: the index, the
writer's channel, batches, markers, the fence of `save_vote`, replay and the
refusal to start empty; the other groups vote beside it. openraft is the
environment: it makes one call at a time and never truncates below its committed
entry, though it may truncate to the purge point; an append carries one or two
entries of one term, longer runs being several appends in a row. DurableLog is the promise: records grow at the end and lose only a suffix
that no answer and no recovery covered, unless the disk itself is lost.
`GroupLog!ImplementsDurableLog` is the refinement (`records` is what the index
has accepted, `kept` the answered or exposed prefix).

### The proof modules (QueueProof, WalProof, PublicationProof, RecoveryProof, AuditOrderProof, TemplateIdsProof, FileSetProof, GroupLogProof)

The theorems and their proofs. QueueProof covers GroupCommit and Lane, WalProof
Wal and Reclaim, FileSetProof Compaction and FileSet, GroupLogProof VoteLog,
GroupLog and the refinement of DurableLog; the others the module of their name.
Each defines its inductive invariants, proves them of the initial states and of
every action, and states the theorems behind them.

## What is checked

Some modules take a set of `Sites`: the first state chooses one, and it stays.
One run then covers deployments that differ in who runs, what the store can do
and which faults come, each with bounds of its own.

| Run | Bounds | Shows |
|---|---|---|
| `group_commit` | 3 requests | `AckImpliesDurable`, `NoStrandedWaiter`, `HandoffInv` (`MinedInAppendOrder`, `MarkCoversOnlyFoldedFrames`), `EveryAppendIsAnswered` |
| `wal` | 4 frames of 1 or 3 units, segments of 4, 3 segments, budget 2, 2 crashes | `CoveredFramesAreReplayable`, `SegmentInv` (`ClosedSegmentsAreDurable`, `DeliveredFramesStay`), `RecoveryRefusesOnlyBrokenRoots`, `BudgetIsRefilledByDischarge` |
| `publication` | 2 kinds of limits: 3 epochs and a slot that coalesces, 1 and one that is full; 2 frames, 1 unwind | `StampedFramesAreStored`, `RecordInv` (`RecordsAreAccountedFor`), `RunNeverWaitsOnSlot`, `ShutdownCompletes` |
| `recovery` | 4 frames, 3 crashes | `CheckpointNeverAtLosableOffset`, `AckedFramesSurvive`, `MinerFoldsAckedFrames` |
| `audit_order` | 2 lines, 3 takes | `AuditBeforeRecord`, `LedgerInv` (`EventsAreKept`), `EveryTakeSettles` |
| `reclaim` | 6 kinds of root: 3 segments, 2 or 3 frames, 0 to 3 faults | `GoneIsAccounted`, `ReclaimedIsGone`, `RefusalMeansLoss`, `PassInv` (`RowsFit`, `AtMostOneLateRemoval`, `MissingIsExpected`), `UnlinksOnlyUnneeded` |
| `lane` | 3 items, 2 threads, queue of 1, 2 panics | `LaneInv` (`OpenIsServed`, `NothingStranded`, `AcceptedIsHeldOnce`), `DropSettlesAll`, `CallsComplete` |
| `template_ids` | 5 kinds of site: 1 or 2 receivers, 4 to 7 ids, up to 3 starts | `ReserveInv` (`UsableIsReserved`, `BlocksAreDisjoint`), `OneTemplatePerId`, `MarkerCoversUsable` |
| `file_set` | 8 kinds of partition: 2 or 3 flush files, 1 or 2 compactors, 2 to 4 outputs, 0 to 2 faults, 0 or 1 query of 2 scans, 2 listings a resolution | `RowsOnce`, `FilesInv` (`NamedFilesExist`), `ErasedStayGone`, `QueryInv` (`AnswersAreWhole`, `OnlyPersistentErrors`) |
| `vote_log` | 3 groups, 2 votes each, 2 slots a sector, 2 crashes | `VotesAreKept`, `VoteInv` (`SmallBatchesReopen`), `SavesAreAnswered` |
| `group_log` | 2 groups, 2 terms, indexes 0..2, 3 writes, 2 crashes, 1 disk loss | `IndexInv` (`IndexIsReplay`, `EveryPrefixReplays`), `VotesFollowTheLog`, `VotersHaveTheirLog` (`VotersKeepTheirLog`, `LostLogsAreRefused`), `ImplementsDurableLog` |

An invariant whose name ends in `Inv` is a conjunction: its named parts are in
parentheses, and the module's type invariant is one of them (`QueryInv` has none:
`FilesInv` is checked in the same run). Recovery's types are proved instead
(`RecoveryProof!TypeCorrect`).

Why the bounds are enough for the cases they are meant for:

* Three requests give two flushes in flight plus a request that appended behind
  both; a stale outcome needs exactly that.
* Frames of one and three units over segments of four reach a rotation forced
  by size, one chosen by age, and a torn frame that swallows a later one; the
  budget of two separates retrying from terminal; two crashes reach a crash of
  the recovery.
* Two frames and three epochs reach a cut that waits while another is pending, a
  coalesced cut and the end of the epochs; a ceiling of zero, a parked one. The safety invariants
  were also checked once with three frames, epochs 0..2 and one unwind (14
  million states, too long to keep as a run).
* The shortest way to reuse an offset takes two crashes and two frames; the
  others follow the reuse.
* Three takes are one in limbo, one cut behind it and one that waits.
* Three segments are one reclaimed, one planned and the append target. A cap of
  one makes a withdrawn row block the record, a cap of two and two file halves
  let a superseded pass meet its successor in the middle of its unlinks. Three
  faults are a slot write whose fsync fails, a kill, and a power loss after the
  next open.
* Two panics retire a generation while another is draining; a queue of one and
  three items make senders wait.
* Five ids in blocks of two exhaust the domain with a shortened last block; three
  starts cross a deletion or rollback; two receivers with old snapshots both
  bootstrap.
* Three flush files and two compactors reach an input that arrives between a
  listing and a commit and two outputs for the same inputs; two puts of one file
  bring a consumed one back; two confirming rounds separate the last from the
  others. Two scans and two listings tell a first loss from the last one; the
  queried local partitions reach the error of the scan, of a first resolution and
  of a recheck.
* Two slots a sector and three groups make a batch span sectors; a rewrite comes
  after two sectors.

Deadlock checking is off where the inputs are bounded: a model ends when they
are used up. That no actor is stuck before is what the liveness properties and
`NoStrandedWaiter`, `RunNeverWaitsOnSlot`, `NothingStranded` say.

### Fairness

* GroupCommit: weak fairness of each request's own steps and of each flush
  task. The tokio runtime polls every ready task, and both handlers run
  `ingest` in a spawned task, so a request that appended is not abandoned when
  its client goes away. No fairness on `AppendFrame`: nothing makes a request
  come.
* Publication: weak fairness of each thread or task: the encode workers, the
  lane and the sweep with their batches (they only wait for store I/O, which
  returns), a turn that began with its hook's batch, the barrier task with the
  batches of its cut once a tick began, and the shutdown once it was signalled. None on the tick, on arrivals, on the sweep or on the signal. The store
  may fail forever: a batch then returns to the buffers, which is progress of
  the batch.
* AuditOrder: weak fairness of the steps of each take that was issued, which is a
  task or thread under way. None on new takes.
* Lane: weak fairness of each thread, of a sender that was woken or is about to
  wait, and of the joins of the drop. A serve ends, with or without a panic.
* VoteLog: weak fairness of the writer thread. None on the callers.

In AuditOrder, Lane and VoteLog the calls are bounded and each ends for good, so
"every call ends" is stated as "again and again no call is under way".

### Where the code and its comments disagree

`recovery_snapshot_horizon` is expected to end in a counterexample
(`NoAckedFrameIsLost`): the post-recovery snapshot stands at a frame that replay
delivered and nothing synced. A power loss takes the frame, an acknowledged frame
uses its offset, and the next recovery skips it as folded. `acknowledged_durable`
keeps such offsets out of the checkpoint and says that "a snapshot only bounds
replay depth"; `route` uses it to withhold publication too. `undercuts` counts
such power losses, and `AckedFramesSurvive` is the promise without them.

Six other properties name an exception the code has; each is part of the model,
so the rest of the property is checked in its presence:

* `RecoveryRefusesOnlyBrokenRoots`, "header": `create_fresh_segment`
  (`ourios-wal/src/lib.rs:1827`) creates the first segment of a root under its
  final name, header unsynced. RFC 0052 asks for a temporary name, a header
  fsync, then the rename. After a power loss the name can be there with a header
  that does not read, and `open` refuses.
* `CoveredFramesAreReplayable`, "rollback": after a failed write and a failed
  `set_len` (`lib.rs:742`) a partial frame stays; a later frame, synced and
  acknowledged, may be read as part of it, taken for a torn tail, and truncated
  by the healing. The comment there says that the walk reports corruption.
* `ShutdownCompletes`, `late`: an ingest task that outlives its connection fills
  the pending slot after the shutdown began to empty it; the last quiesce may
  then wait for a guard that nobody will release. The comment at
  `ourios-server/src/receiver.rs:505` says that no more records reach the sink
  once the listeners are joined.
* `GoneIsAccounted`, both sidecars lost: a root whose RECLAIM record and CHECKPOINT
  are both gone and whose remaining segments are all of version 1 opens as one that
  was never reclaimed (`open_without_sidecars`, `reconcile.rs:298`), so nothing
  accounts for its unlinked segments any more. With a version-2 segment left, or
  with one sidecar, `open` refuses or still has the account.
* `UnlinksOnlyUnneeded`, a root with both modes: `withdraw_across_modes`
  (`housekeeping.rs:238`) withdraws the one outstanding plan. A `NoConsumer` plan
  abandoned before its write, a second `NoConsumer` pass that is skipped, then a
  `Known` pass: the segments of the first are unlinked without a horizon. The
  receiver only offers `Known`, so this is reachable through the crate's
  interface and not in the shipped program.
* `OneTemplatePerId`, `blind`: the marker is "raised before each new block is used"
  (`marker.rs:12`), but a root has none before its first replay is over, and that
  replay publishes (`recovery.rs:487`, `record_sink.rs:1375`) before `seal_root`
  writes one (`recovery.rs:304`). A crash in between and a high-water rolled back
  below the published ids: the next start has nothing to compare it with, and
  issues them again. The rollback itself is unsupported (`marker.rs:14`).

## What is proved

For every value of the constants, by TLAPS:

* `QueueProof!TypeCorrect` and `AckDurability`: `Spec => []TypeOK`,
  `Spec => []AckImpliesDurable`, for any set of requests. A request's result
  comes from the outcome, the outcome from a task, and the task's claim was
  fixed before its sync; `AckImpliesDurable` alone says nothing of the first
  two. `DurInv` follows the claim back: a captured claim is bounded by what is
  appended, a claim whose sync succeeded and a successful outcome by what is
  synced. It needs that sequence numbers and journal agree
  (`appended_seq = next_seq - 1`).
* `QueueProof!NobodyIsStranded`: `Spec => []NoStrandedWaiter`. `ArmInv`
  adds what the property leaves out: a raised `flush_pending` stands for an
  armed task, a request spawns a task at most once, every sequence number is at
  most what the next flush captures, and the seed outcome covers nothing. The
  step that needs them is the broadcast, where a task ends and may drop its
  outcome as stale.
* `QueueProof!HandoffIsOrdered`: `Spec => []HandoffInv`. `TurnInv` says
  where each sequence number stands against the gate, that what the miner has
  was synced and is below every frame still to be mined, and that a finished
  success was folded.
* `QueueProof!LaneIsSound` and `DropLeavesNothing`: `LaneSpec => []LaneInv`,
  `LaneSpec => []DropSettlesAll`, for any items, threads, bound and number of
  panics. `LaneInv` counts the places that hold an item; `LaneIInv` says instead
  where the places are and that no two hold the same (`PlaceInv`, `OnceInv`), from
  which the count follows. The drop settles everything because a thread that runs
  has a handle the slot can join (`JoinInv`) and a generation not yet started has
  nothing (`FreshInv`).
* `WalProof!SegmentsHold`, `CoveredIsReplayable` and `RefusalMeansBroken`:
  `Spec => []SegmentInv`, `[]CoveredFramesAreReplayable` and
  `[]RecoveryRefusesOnlyBrokenRoots`, for any frame and segment sizes and any
  retry budget. The properties speak of what a replay would read; `WalInv` speaks
  of what is durable. A covered frame is whole, durable, and in a segment whose
  header and name are (`CoveredInv`); only the newest segment, or a first one
  rotated before any directory fsync, can lack its name, and only the first its
  header (`NamesInv`); while every rollback succeeded, a torn frame is the last
  of the newest segment of a log that does not run (`TornInv`), so replay reads
  every whole frame (`WholeIsReadable`) and finds a short read, never a failed
  checksum (`IntactIsNotCorrupt`).
* `WalProof!RefillIsEarned`: `Spec => BudgetIsRefilledByDischarge`, an action
  property, by the cases of the rotation's fault sites.
* `WalProof!PassIsSound`, `GoneStaysAccounted`, `ReclaimedStaysGone`,
  `OnlyLossRefuses`: `ReclaimSpec => []PassInv`, `[]GoneIsAccounted`,
  `[]ReclaimedIsGone`, `[]RefusalMeansLoss`, and `UnlinksAreUnneeded`:
  `ReclaimSpec => UnlinksOnlyUnneeded`, an action property; for any tenants, roots,
  cap and number of passes at once. The inductive invariant is `ReclaimInv`. That
  what is gone is accounted for is not inductive: the account must be there before
  the unlink. `AccountInv` says it of the exposed segments, those gone and those a
  permit already covers, and of every record a crash can leave. `reclaimed_through`
  is raised only over unlinks an fsync made durable (`ReclaimedInv`, which rests on
  what `HalfInv` says of a pass between its steps). A record becomes terminal only
  beside a durable version-2 sidecar (`LossInv`), so no crash leaves a root that
  `open` refuses. What is planned lies below the append target and the durable
  checkpoint, and no tenant with a consumer pins it (`LedgerSound`). A file that is
  missing, or that a superseded pass may still remove, is known to the ledger and
  to the live pass (`RiskInv`).
* `PublicationProof!RecordsAreKept`, `NothingIsForgotten`, `NoCutWaitsOnItself`:
  `Spec => []RecordInv`, `[]StampedFramesAreStored`, `[]RunNeverWaitsOnSlot`.
  `CutInv` says of every cut under way, from its capture to its decision, where
  a record at or below its mark can be: stored, in a batch the cut writes or
  waits for, or lost in a way that makes the latch or a settlement refuse the
  cut. The other parts keep the cuts, batches and epochs in the order of their
  capture and say what the latch saw.
* `RecoveryProof!TypeCorrect` and `CheckpointIsDurable`:
  `Spec => []CheckpointNeverAtLosableOffset`, power losses included. The
  invariant `MarkInv` orders reclaimed, checkpoint, synced prefix and log, and
  keeps the acknowledged mark within the synced prefix.
* `RecoveryProof!AckedFramesAreKept`: `Spec => []AckedFramesSurvive`, power
  losses included. `SurviveInv` says where an acknowledged frame is: in the store
  or the buffers while the process lives, in the store if the checkpoint or the
  snapshot covers it; and that while no power loss undercut a snapshot, no offset
  at or below its horizon is used twice.
* `RecoveryProof!MinerIsComplete`: `Spec => []MinerFoldsAckedFrames`. `FoldInv`
  says what a snapshot folds (the frames of the log up to its horizon), that
  names in the log are distinct and below the next one, and that the folded
  horizon and the next turn meet.
* `AuditOrderProof!NoEventIsLost` and `EventsComeFirst`: `Spec => []LedgerInv`,
  `Spec => []AuditBeforeRecord`. A record is published long after its drain;
  `Accounted` says of every open take that an event one of its records may depend
  on is durable, given up, or in this take or an earlier one in limbo, or that
  the take is doomed.
* `FileSetProof!FilesAreKept`, `RowsAreOnce`, `ErasureHolds`: `Spec => []FilesInv`,
  `[]RowsOnce`, `[]ErasedStayGone`, for any number of flush files, compactors and
  faults. `CompactionInv` says what a sweep may still rely on when it acts: its
  base is the manifest or an older one (`BaseInv`), its rewrite is what base and
  inputs make it (`RewriteInv`), what it deletes is dead for good (`TodoInv`),
  what its erasure has established still holds (`EraseInv`), and no two sweeps
  name one output (`NameInv`).
* `FileSetProof!QueriesOnlyRead`: `QuerySpec => Spec`, the refinement that
  carries those results to the composition with queries, and `AnswersHold`:
  `QuerySpec => []QueryInv`. `ResolveInv` says that what a query has listed and
  what is consumed cover its floor (`ListInv`), that a failed open means a dead
  file (`ScanInv`), and that every scan or listing lost so far was paid for by a
  commit of its own (`TriesInv`): the generation is at least the one the query was
  asked at plus its losses and, where the two are equal, none of the files it
  resolved is dead, so that the next loss takes another commit. From
  this follows that an error takes as many commits as there are scans, or listings
  of one local resolution, and that a recheck after a failed scan never finds the
  file set unmoved.
* `TemplateIdsProof!IdsAreUnique`, `BlocksAreReserved`, `MarkersCover`:
  `Spec => []OneTemplatePerId`, `[]ReserveInv`, `[]MarkerCoversUsable`, for any
  receivers, domain, block size, number of starts and store faults. Uniqueness
  has two reasons, and the invariant states both. While nobody tampers with the
  high-water it covers every template that is or may come to be exposed and every
  id a receiver may still issue, and the two are disjoint (`HighWaterCovers`); a
  reservation that lands is above it. A receiver alone has its marker, which,
  once there is one, covers what it ever published or snapshotted, and a counter
  above all of it (`MarkerCovers`), so a rolled back or deleted object does no harm;
  before there is one, a start that could be misled makes `blind` true. The parts
  for one receiver (`BlocksInv`, `OpInv`, `StartInv`) order its blocks, bound the
  reservation in flight and say what a start has decided.
* `GroupLogProof!LogIsDurable`: `Spec => ImplementsDurableLog`, the refinement.
  `PrefixInv` (`AnsweredIsSynced` states it) orders the kept records, the synced
  prefix, the WAL and what the writer and its channel still hold; each step of
  GroupLog is then an `Accept`, `Keep`, `Forget` or `Wipe` of DurableLog, or a
  stutter.
* `GroupLogProof!VotesSurvive` and `VoteLogReopens`: `VoteSpec => []VotesAreKept`,
  `VoteSpec => []VoteInv`, for any groups, sector size and number of power losses.
  A scan takes the last record of a group for its vote, so the file must be in
  order, group by group; `VoteFileInv` says so of the file, of what a power loss
  may leave of it (`FileInv`), of a file whose rename is not durable (`RenamedInv`)
  and of the batch under way (`BatchInv`), and bounds what is unsynced while no
  batch spanned two sectors (`TailInv`).
* `GroupLogProof!VotesComeAfterTheLog` and `VotersStartWithTheirLog`:
  `Spec => []VotesFollowTheLog`, `Spec => []VotersHaveTheirLog`. A vote is followed
  from the call of `save_vote` through its fence to the shared file: which answer
  the caller waits for (`CallInv`), that what no fsync has covered is covered by the
  next answer (`SyncInv`), and that a vote that can be read back follows a synced
  prefix (`FollowInv`). `VoterInv` says the same of a log that is new or was lost.
* `GroupLogProof!IndexAgreesWithWal`: `Spec => []IndexInv`. `ReplayInv` says that
  every prefix of the log, the frames still in the channel included, replays to a
  sound index, and that the index in memory is that replay; `KindInv` completes the
  types.

The assumptions are the ones on the constants, named in the modules that declare
them: bounds are natural numbers, queues, sectors and the rows of a record have
room for one, a root has room for its legacy segments and a pass is not `NoPass`,
the group is one of the groups, a frame fits a segment, names and compactors are
finite in number, the name of a flush file does not parse as a compacted one's, and
a store without compare-and-swap has one
compactor, and one receiver that reserves ids. Where several receivers share a
high-water, nobody deletes it or puts an older copy back: the code calls that
unsupported (`template_ids/marker.rs:14`), and a receiver whose marker is older
than the copy could not notice it. In WalProof the read of a torn tail rests on
`Bytes` of a single frame (`BytesOfOne`), the one place where a fold had to be
unfolded. Minima and maxima rest on the least element of a set of numbers
(`LeastExists`, from the well-foundedness of the order) and on its mirror image
(`GreatestExists`).

Only model-checked: the liveness properties `EveryAppendIsAnswered`,
`ShutdownCompletes`, `EveryTakeSettles`, `CallsComplete` and `SavesAreAnswered`
(TLAPS does not treat fairness), and the counterexample of
`recovery_snapshot_horizon`. Every invariant and action property of the other runs
is a theorem.

## Not modelled

* **Kernel behaviour after a failed fsync.** A later successful sync is taken to
  cover the whole file.
* **Clock**: UUIDv7 names are taken to increase across restarts.
* **Several tenants** in Publication and Recovery: horizons per tenant differ
  only in how far each lags. Reclaim has two.
* **Retries inside the object-store client**: a conditional put that the
  transport repeats after it took effect is decided by a library.
* **The Raft protocol itself**, snapshots of the state machine, transport,
  placement and forwarding: openraft, and calls around it.
* **The refresh of the template map** in the querier (`map_flight.rs`).
* **The miner's algorithm, decoding, admission, authentication, telemetry,
  configuration, the query planner**: sequential code without protocol state, or
  thin layers over libraries.
* **Benchmarks, generators, fuzz targets**: not part of the program.

## Plan

Models to follow: the single-flight refresh of the template map; an abstract
specification of the ingest path (a set of acknowledged batches that only grows
and is always recoverable), refined by Recovery.
