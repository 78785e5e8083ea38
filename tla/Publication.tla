---------------------------- MODULE Publication ----------------------------
(***************************************************************************)
(* From a mined frame to the checkpoint that lets the log forget it        *)
(* (ourios-ingester: barrier.rs, cadence.rs, publish.rs, publisher.rs,     *)
(* record_sink.rs, encode_pool.rs, and the tasks and the shutdown of       *)
(* ourios-server/src/receiver.rs).                                         *)
(*                                                                         *)
(* Six actors share the record buffers: the ingest turn with its rotation  *)
(* hook, the encode workers, the publisher lane, the age sweep, the        *)
(* barrier task and the shutdown.  Each takes records out of the buffers   *)
(* under a publish guard that carries the epoch it was registered in, and  *)
(* writes them, or puts them back, later.  A cut may stamp the checkpoint  *)
(* at its mark only when every record at or below the mark is stored.      *)
(*                                                                         *)
(* A frame holds one record, named by the frame's number, and a set of     *)
(* records stands for the partitions that hold them.  A batch is a set of  *)
(* records in flight with its guard: its records leave it as they are      *)
(* stored or put back, and the guard is released in a step of its own.     *)
(* One tenant stands for all: its folded horizon is then the acknowledged  *)
(* mark.  A step is a critical section of the handoff mutex, of the        *)
(* pending slot, of the sink, or of the cadence word; the exclusion and    *)
(* the miner lock, which span several of them, are guards.                 *)
(***************************************************************************)
EXTENDS Integers, FiniteSets

CONSTANTS
  MaxFrames,    \* bound: frames folded
  MaxPanics,    \* bound: unwinds in a behaviour
  Sites         \* the limits to consider: the last epoch and the ceiling

ASSUME PublicationAssumption ==
  /\ {MaxFrames, MaxPanics} \subseteq Nat
  /\ \A s \in Sites : s.reserved \in Nat \ {0} /\ s.ceiling \in Nat

VARIABLES
  site,         \* the limits of this behaviour, one of Sites
  frame,        \* frames folded so far
  acked,        \* the frames whose turn was acknowledged
  last_durable, \* the acknowledged mark, 0 for none
  turn,         \* the ingest turn
  hook,         \* the cut the rotation hook is capturing
  late,         \* whether it filled the slot once the shutdown had begun to empty it (history)
  buffer,       \* the records in the sink's buffers
  batches,      \* the records in flight, with their guards
  next,         \* BarrierEpochs: the number of the next cut
  failed,       \* BarrierEpochs: the lowest epoch reported failed
  settlements,  \* InFlightPublishes: the dated returns and the unwinds
  pending,      \* Barrier: the pending slot
  phase,        \* the barrier task
  run,          \* the cut it captures or runs
  published,    \* whether every batch of the cut was written
  tickEpoch,    \* the epoch read when its tick began
  sweeping,     \* whether the age sweep is alive
  stop,         \* the shutdown
  store,        \* the records in the object store
  snap,         \* the highest horizon of an installed snapshot
  installed,    \* Barrier: the mark of the last complete install
  checkpoint,   \* the journal's checkpoint
  panics

ingestVars == <<frame, acked, last_durable, turn, hook, late>>
cadenceVars == <<next, failed, settlements>>
barrierVars == <<pending, phase, run, published, tickEpoch>>
durableVars == <<store, snap, installed, checkpoint>>
taskVars == <<sweeping, stop, panics>>
vars == <<site, ingestVars, buffer, batches, cadenceVars, barrierVars, taskVars, durableVars>>
-----------------------------------------------------------------------------
Reserved == site.reserved      \* Epoch::RESERVED (u32::MAX): the clear latch, never a cut
CeilingBytes == site.ceiling   \* the most a pending cut may hold after coalescing

Epoch == 0..(Reserved - 1)
Frame == 1..MaxFrames
Places == {"encode", "lane", "sweep", "hook", "timer", "slot", "run", "park"}
Batch(recs, epoch, at) == [recs |-> recs, epoch |-> epoch, at |-> at]
Cut(epoch, mark) == [epoch |-> epoch, mark |-> mark]
NoCut == Cut(Reserved, 0)
Returned(registered, at) == [registered |-> registered, at |-> at]
Unwound(registered) == [registered |-> registered, at |-> Reserved]

At(p) == {b \in batches : b.at = p}
Move(p, q) == {IF b.at = p THEN [b EXCEPT !.at = q] ELSE b : b \in batches}
Bytes(p) == Cardinality(UNION {b.recs : b \in At(p)})

Phases == {"idle", "ticked", "opened", "drained", "parkback", "take", "write",
           "parkrun", "install", "stamp", "invalidate", "parking", "settle",
           "latched", "parkLatched", "panicked", "parkPanic"}

TypeOK ==
  /\ site \in Sites
  /\ frame \in 0..MaxFrames /\ acked \subseteq Frame /\ last_durable \in 0..MaxFrames
  /\ turn \in {"idle", "rotated", "parking", "mine"}
  /\ {pending, run, hook} \subseteq [epoch : 0..Reserved, mark : 0..MaxFrames]
  /\ batches \subseteq [recs : SUBSET Frame, epoch : Epoch, at : Places]
  /\ next \in Epoch /\ failed \in 0..Reserved /\ tickEpoch \in Epoch
  /\ settlements \subseteq [registered : Epoch, at : 0..Reserved]
  /\ phase \in Phases
  /\ {published, sweeping} \subseteq BOOLEAN
  /\ stop \in {"no", "stopping", "cut", "locked", "done"}
  /\ buffer \subseteq Frame /\ store \subseteq Frame
  /\ {snap, installed, checkpoint} \subseteq 0..MaxFrames
  /\ panics \in 0..MaxPanics

Init ==
  /\ site \in Sites
  /\ frame = 0 /\ acked = {} /\ last_durable = 0 /\ turn = "idle" /\ late = FALSE
  /\ buffer = {} /\ batches = {} /\ store = {}
  /\ next = 0 /\ failed = Reserved /\ settlements = {}
  /\ pending = NoCut /\ run = NoCut /\ hook = NoCut
  /\ phase = "idle" /\ published = TRUE /\ tickEpoch = 0
  /\ sweeping = TRUE /\ stop = "no" /\ panics = 0
  /\ snap = 0 /\ installed = 0 /\ checkpoint = 0
-----------------------------------------------------------------------------
(* cadence.rs.  open_cut hands out the next epoch and stops one below the  *)
(* reserved one; at the end it reports, which refuses that cut and all     *)
(* that follow.                                                            *)
Lowest(a, b) == IF a < b THEN a ELSE b
Refuses(epoch) == failed <= epoch

OpenCut ==
  IF next + 1 < Reserved
  THEN next' = next + 1 /\ UNCHANGED failed
  ELSE failed' = Lowest(failed, next) /\ UNCHANGED next

(* Settlement::refuses and all_ok, and Settlement::spent.  An unwind is    *)
(* dated at the reserved epoch: it refuses every cut from its own on and   *)
(* is never spent.                                                         *)
SettlementRefuses(s, epoch) == s.registered <= epoch /\ epoch < s.at
AllOk(epoch) == \A s \in settlements : ~SettlementRefuses(s, epoch)
Unspent(epoch) == {s \in settlements : s.at > epoch}

(* note_resettled: a return in the epoch of its registration refuses no    *)
(* cut and is not kept.                                                    *)
Dated_Never(b) == {}
Dated(b) == IF next > b.epoch THEN {Returned(b.epoch, next)} ELSE {}

(* The exclusion, held by the timer's capture.                             *)
Excluded == phase \in {"opened", "drained", "parkback"}
-----------------------------------------------------------------------------
(* The records of a batch in flight.  A put stores one of them; a return   *)
(* puts what is left back into the buffers and dates it, under the handoff *)
(* mutex; the guard goes last.                                             *)
CanPut(b) ==
  \/ b.at \in {"lane", "sweep"}
  \/ b.at = "run" /\ phase = "write"

Put(b, r) ==
  /\ CanPut(b) /\ r \in b.recs
  /\ store' = store \cup {r}
  /\ batches' = (batches \ {b}) \cup {[b EXCEPT !.recs = @ \ {r}]}
  /\ UNCHANGED <<site, ingestVars, buffer, cadenceVars, barrierVars, taskVars, snap,
                 installed, checkpoint>>

CanReturn(b) ==
  \/ CanPut(b)
  \/ b.at = "park"
  \/ b.at = "hook" /\ turn = "parking"
  \/ b.at = "timer" /\ phase = "parkback"

Return(b) ==
  /\ CanReturn(b) /\ b.recs # {}
  /\ buffer' = buffer \cup b.recs
  /\ settlements' = settlements \cup Dated(b)
  /\ batches' = (batches \ {b}) \cup {[b EXCEPT !.recs = {}]}
  /\ published' = (published /\ b.at # "run")
  /\ UNCHANGED <<site, ingestVars, next, failed, pending, phase, run, tickEpoch,
                 taskVars, durableVars>>

(* PublishGuard::drop.  A batch that still sits in the slot, or that its   *)
(* capture has not offered yet, keeps its guard even when it is empty.     *)
MayRelease(b) ==
  /\ b.recs = {}
  /\ \/ CanReturn(b) \/ b.at = "encode"
     \/ b.at \in {"run", "timer"} /\ phase = "panicked"

Release(b) ==
  /\ MayRelease(b)
  /\ batches' = batches \ {b}
  /\ UNCHANGED <<site, ingestVars, buffer, cadenceVars, barrierVars, taskVars,
                 durableVars>>

(* An unwinding publish: its records are in neither the buffers nor the    *)
(* store, and the guard reports its epoch to the latch and leaves an       *)
(* Unwound settlement before it is released.  Unwinding the barrier's      *)
(* write drops every batch of the cut; the sweep's stops its loop; the     *)
(* hook's, in serialise, is caught in the turn.                            *)
Reported(B) ==
  {e \in {failed} \cup {b.epoch : b \in B} : e <= failed /\ \A b \in B : e <= b.epoch}

CanUnwind(b) ==
  \/ CanPut(b) \/ b.at = "encode"
  \/ b.at = "hook" /\ turn = "rotated"
  \/ b.at = "timer" /\ phase = "drained"

Unwind(b) ==
  LET B == IF b.at = "run" THEN At("run") ELSE {b} IN
  /\ CanUnwind(b) /\ b.recs # {} /\ panics < MaxPanics
  /\ panics' = panics + 1
  /\ failed' \in Reported(B)
  /\ settlements' = settlements \cup {Unwound(c.epoch) : c \in B}
  /\ batches' = (batches \ B) \cup {[c EXCEPT !.recs = {}, !.at = IF @ = "hook" THEN "park" ELSE @] : c \in B}
  /\ phase' = IF b.at \in {"run", "timer"} THEN "panicked" ELSE phase
  /\ sweeping' = (sweeping /\ b.at # "sweep")
  /\ turn' = IF b.at = "hook" THEN "mine" ELSE turn
  /\ UNCHANGED <<site, frame, acked, last_durable, hook, late, buffer, next, pending,
                 run, published, tickEpoch, stop, durableVars>>
-----------------------------------------------------------------------------
(* The ingest turn (pipeline.rs).  It holds the exclusion in shared mode,  *)
(* and the miner lock while it folds.  A segment change since the last     *)
(* acknowledged frame fires the rotation hook, once the encode pool is     *)
(* idle and before the frame is mined.  Each request is ingested in a task *)
(* of its own, which may outlive its connection and run until the shutdown *)
(* holds the miner lock.                                                   *)
TurnMayRun ==
  /\ ~Excluded /\ frame < MaxFrames
  /\ stop \in {"no", "stopping", "cut"}

(* capture_rotation: the drain, then the epoch, under one handoff.         *)
TurnRotates ==
  /\ turn = "idle" /\ TurnMayRun
  /\ last_durable # 0 /\ At("encode") = {}
  /\ batches' = batches \cup {Batch(buffer, next, "hook")}
  /\ buffer' = {}
  /\ hook' = Cut(next, last_durable)
  /\ OpenCut
  /\ turn' = "rotated"
  /\ UNCHANGED <<site, frame, acked, last_durable, late, settlements, barrierVars,
                 taskVars, durableVars>>

(* place: fill the slot, or coalesce, or leave the slot alone and park.    *)
(* absorb keeps the epoch and the mark of the later capture.               *)
Later(c, d) ==
  IF c.epoch > d.epoch
  THEN Cut(c.epoch, IF c.mark # 0 THEN c.mark ELSE d.mark)
  ELSE Cut(d.epoch, IF d.mark # 0 THEN d.mark ELSE c.mark)

Fits(p) == pending = NoCut \/ Bytes("slot") + Bytes(p) <= CeilingBytes

PlaceCut(cut, p) ==
  /\ Fits(p)
  /\ pending' = IF pending = NoCut THEN cut ELSE Later(cut, pending)
  /\ batches' = Move(p, "slot")

HookOffers ==
  /\ turn = "rotated" /\ PlaceCut(hook, "hook")
  /\ turn' = "mine" /\ hook' = NoCut
  /\ late' = (late \/ stop = "cut")
  /\ UNCHANGED <<site, frame, acked, last_durable, buffer, cadenceVars, phase, run,
                 published, tickEpoch, taskVars, durableVars>>

HookParks ==
  \/ /\ turn = "rotated" /\ ~Fits("hook")
     /\ turn' = "parking" /\ hook' = NoCut
     /\ UNCHANGED <<site, frame, acked, last_durable, late, buffer, batches,
                    cadenceVars, barrierVars, taskVars, durableVars>>
  \/ /\ turn = "parking" /\ At("hook") = {}
     /\ turn' = "mine"
     /\ UNCHANGED <<site, frame, acked, last_durable, hook, late, buffer, batches,
                    cadenceVars, barrierVars, taskVars, durableVars>>

(* The frame is mined, its encode batch submitted with its guard, and the  *)
(* mark moved; or the miner panics, and the frame is neither acknowledged  *)
(* nor marked.                                                             *)
TurnFolds ==
  /\ turn = "mine" \/ (turn = "idle" /\ TurnMayRun)
  /\ frame' = frame + 1
  /\ \/ /\ batches' = batches \cup {Batch({frame + 1}, next, "encode")}
        /\ acked' = acked \cup {frame + 1}
        /\ last_durable' = frame + 1
        /\ UNCHANGED panics
     \/ /\ panics < MaxPanics /\ panics' = panics + 1
        /\ UNCHANGED <<batches, acked, last_durable>>
  /\ turn' = "idle" /\ hook' = NoCut
  /\ UNCHANGED <<site, late, buffer, cadenceVars, barrierVars, sweeping, stop,
                 durableVars>>

(* An encode worker appends the record to the buffers and hands to the     *)
(* publisher whatever the size and ceiling triggers detach; the detached   *)
(* partitions share the guard of its batch.  A full or retired lane parks  *)
(* them, which is a Return of the lane's batch.                            *)
Encode(b) ==
  /\ b.at = "encode" /\ b.recs # {}
  /\ \E D \in SUBSET (buffer \cup b.recs) :
       /\ buffer' = (buffer \cup b.recs) \ D
       /\ batches' = (batches \ {b}) \cup
                     (IF D = {} THEN {} ELSE {Batch(D, b.epoch, "lane")})
  /\ UNCHANGED <<site, ingestVars, cadenceVars, barrierVars, taskVars, durableVars>>

(* The age sweep drains the aged partitions under the shared exclusion and *)
(* the miner lock, and writes them off the lock.                           *)
SweepDrains(D) ==
  /\ sweeping /\ stop = "no" /\ At("sweep") = {}
  /\ ~Excluded /\ turn = "idle" /\ D # {} /\ D \subseteq buffer
  /\ batches' = batches \cup {Batch(D, next, "sweep")}
  /\ buffer' = buffer \ D
  /\ UNCHANGED <<site, ingestVars, cadenceVars, barrierVars, taskVars, durableVars>>
-----------------------------------------------------------------------------
(* The barrier task: one tick, caught as a whole.                          *)
Tick ==
  /\ phase = "idle" /\ stop = "no"
  /\ tickEpoch' = next
  /\ phase' = IF Refuses(next) THEN "latched" ELSE "ticked"
  /\ UNCHANGED <<site, ingestVars, buffer, batches, cadenceVars, pending, run,
                 published, taskVars, durableVars>>

(* capture, under the exclusive exclusion and with the encode pool idle:   *)
(* the epoch first, then the drain, whose guard therefore carries the next *)
(* epoch, then the offer.                                                  *)
MayCapture == phase = "ticked" /\ turn = "idle" /\ At("encode") = {}

TimerOpens ==
  /\ MayCapture
  /\ run' = Cut(next, 0)
  /\ OpenCut
  /\ phase' = "opened"
  /\ UNCHANGED <<site, ingestVars, buffer, batches, settlements, pending, published,
                 tickEpoch, taskVars, durableVars>>

TimerDrains ==
  /\ phase = "opened"
  /\ run' = [run EXCEPT !.mark = last_durable]
  /\ batches' = batches \cup {Batch(buffer, next, "timer")}
  /\ buffer' = {}
  /\ phase' = "drained"
  /\ UNCHANGED <<site, ingestVars, cadenceVars, pending, published, tickEpoch, taskVars,
                 durableVars>>

TimerOffers ==
  /\ phase = "drained" /\ PlaceCut(run, "timer")
  /\ phase' = "take"
  /\ UNCHANGED <<site, ingestVars, buffer, cadenceVars, run, published, tickEpoch,
                 taskVars, durableVars>>

TimerParks ==
  \/ /\ phase = "drained" /\ ~Fits("timer")
     /\ phase' = "parkback"
     /\ UNCHANGED <<site, ingestVars, buffer, batches, cadenceVars, pending, run,
                    published, tickEpoch, taskVars, durableVars>>
  \/ /\ phase = "parkback" /\ At("timer") = {}
     /\ phase' = "take"
     /\ UNCHANGED <<site, ingestVars, buffer, batches, cadenceVars, pending, run,
                    published, tickEpoch, taskVars, durableVars>>

(* run_taken: the slot is emptied, and the latch consulted.                *)
TakePending ==
  /\ phase = "take"
  /\ run' = pending /\ pending' = NoCut
  /\ published' = TRUE
  /\ \/ pending = NoCut /\ phase' = "idle" /\ UNCHANGED batches
     \/ /\ pending # NoCut /\ Refuses(pending.epoch)
        /\ phase' = "parkrun" /\ batches' = Move("slot", "park")
     \/ /\ pending # NoCut /\ ~Refuses(pending.epoch)
        /\ phase' = "write" /\ batches' = Move("slot", "run")
  /\ UNCHANGED <<site, ingestVars, buffer, cadenceVars, tickEpoch, taskVars,
                 durableVars>>

(* run_cut: once the cut's batches are written or put back, wait for every *)
(* publish registered at or below its epoch; then the latch again, and the *)
(* outcomes.                                                               *)
WaitedFor_All == batches
WaitedFor == {b \in batches : b.epoch <= run.epoch}

Decide ==
  /\ phase = "write" /\ At("run") = {} /\ WaitedFor = {}
  /\ phase' = IF ~Refuses(run.epoch) /\ published /\ AllOk(run.epoch)
              THEN "install" ELSE "invalidate"
  /\ published' = TRUE
  /\ UNCHANGED <<site, ingestVars, buffer, batches, cadenceVars, pending, run,
                 tickEpoch, taskVars, durableVars>>

(* install: monotone in the mark, and nothing without one.  A failed write *)
(* may leave some tenants at their new horizons; the cut is then retained. *)
Supersedes == run.mark # 0 /\ run.mark >= installed

Install ==
  /\ phase = "install"
  /\ \/ ~Supersedes /\ phase' = "stamp" /\ UNCHANGED <<snap, installed>>
     \/ /\ Supersedes /\ phase' = "stamp"
        /\ snap' = run.mark /\ installed' = run.mark
     \/ /\ Supersedes /\ phase' = "invalidate"
        /\ snap' \in {snap, run.mark} /\ UNCHANGED installed
  /\ UNCHANGED <<site, ingestVars, buffer, batches, cadenceVars, pending, run,
                 published, tickEpoch, taskVars, store, checkpoint>>

(* stamp: the journal refuses to move its checkpoint back; a failed write  *)
(* is left to a later cut.                                                 *)
Stamp ==
  /\ phase = "stamp" /\ phase' = "settle"
  /\ checkpoint' \in {checkpoint} \cup (IF run.mark > checkpoint THEN {run.mark} ELSE {})
  /\ UNCHANGED <<site, ingestVars, buffer, batches, cadenceVars, pending, run,
                 published, tickEpoch, taskVars, store, snap, installed>>

(* invalidate_pending, after a cut that did not stamp, on a latched node   *)
(* and after a panic: the slot's batches go back into the buffers.         *)
Discarded_Dropped == {b \in batches : b.at # "slot"}
Discarded == Move("slot", "park")

InvalidatePending ==
  /\ \/ phase = "parkrun" /\ At("park") = {} /\ phase' = "parking" /\ UNCHANGED failed
     \/ phase = "invalidate" /\ phase' = "parking" /\ UNCHANGED failed
     \/ phase = "latched" /\ phase' = "parkLatched" /\ UNCHANGED failed
     \/ /\ phase = "panicked" /\ At("run") = {} /\ At("timer") = {} /\ stop # "cut"
        /\ phase' = "parkPanic" /\ failed' = Lowest(failed, tickEpoch)
  /\ pending' = NoCut /\ batches' = Discarded
  /\ UNCHANGED <<site, ingestVars, buffer, next, settlements, run, published, tickEpoch,
                 taskVars, durableVars>>

(* A panic of the cut that the shutdown runs latches the current epoch.    *)
ShutdownCutPanics ==
  /\ phase = "panicked" /\ At("run") = {} /\ stop = "cut"
  /\ phase' = "idle" /\ failed' = Lowest(failed, next)
  /\ UNCHANGED <<site, ingestVars, buffer, batches, next, settlements, pending, run,
                 published, tickEpoch, taskVars, durableVars>>

(* settle_cut, at the end of a run or of a latched tick; the panic's path  *)
(* has none.                                                               *)
Settle ==
  /\ \/ phase = "settle" /\ settlements' = Unspent(run.epoch)
     \/ phase = "parking" /\ At("park") = {} /\ settlements' = Unspent(run.epoch)
     \/ phase = "parkLatched" /\ At("park") = {} /\ settlements' = Unspent(next)
     \/ phase = "parkPanic" /\ At("park") = {} /\ UNCHANGED settlements
  /\ phase' = "idle" /\ run' = NoCut /\ tickEpoch' = 0 /\ published' = TRUE
  /\ UNCHANGED <<site, ingestVars, buffer, batches, next, failed, pending, taskVars,
                 durableVars>>
-----------------------------------------------------------------------------
(* ReceiverHandle::shutdown: signal, join the listeners, the sweep and the *)
(* barrier, run what is left in the slot, quiesce the encodes, then, under *)
(* the miner lock, quiesce every publish, flush, and install the snapshots *)
(* if nothing was retained and no latch is set.                            *)
ShutdownSignals ==
  /\ stop = "no" /\ stop' = "stopping"
  /\ UNCHANGED <<site, ingestVars, buffer, batches, cadenceVars, barrierVars, sweeping,
                 panics, durableVars>>

ShutdownCut_Skipped == "idle"
ShutdownCut == "take"

ShutdownRunsPending ==
  /\ stop = "stopping" /\ turn = "idle" /\ phase = "idle" /\ At("sweep") = {}
  /\ stop' = "cut" /\ phase' = ShutdownCut
  /\ UNCHANGED <<site, ingestVars, buffer, batches, cadenceVars, pending, run,
                 published, tickEpoch, sweeping, panics, durableVars>>

ShutdownLocks ==
  /\ stop = "cut" /\ phase = "idle" /\ turn = "idle" /\ At("encode") = {}
  /\ stop' = "locked"
  /\ UNCHANGED <<site, ingestVars, buffer, batches, cadenceVars, barrierVars, sweeping,
                 panics, durableVars>>

FlushThenSnapshot ==
  /\ stop = "locked" /\ batches = {}
  /\ stop' = "done"
  /\ \/ Refuses(next) /\ UNCHANGED <<buffer, store, snap>>
     \/ /\ ~Refuses(next)
        /\ \E S \in SUBSET buffer :
             /\ buffer' = buffer \ S
             /\ store' = store \cup S
             /\ snap' \in {snap} \cup (IF S = buffer THEN {last_durable} ELSE {})
  /\ UNCHANGED <<site, ingestVars, batches, cadenceVars, barrierVars, sweeping, panics,
                 installed, checkpoint>>
-----------------------------------------------------------------------------
Publish(p) ==
  \E b \in At(p) :
    \/ \E r \in b.recs : Put(b, r)
    \/ Return(b) \/ Release(b) \/ Unwind(b) \/ Encode(b)

Ingest == TurnRotates \/ HookOffers \/ HookParks \/ TurnFolds

BarrierTask ==
  \/ TimerOpens \/ TimerDrains \/ TimerOffers \/ TimerParks
  \/ TakePending \/ Decide \/ Install \/ Stamp
  \/ InvalidatePending \/ ShutdownCutPanics \/ Settle

Shutdown ==
  ShutdownRunsPending \/ ShutdownLocks \/ FlushThenSnapshot

Next ==
  \/ \E p \in Places : Publish(p)
  \/ Ingest \/ Tick \/ BarrierTask
  \/ ShutdownSignals \/ Shutdown
  \/ \E D \in SUBSET buffer : SweepDrains(D)

Spec == Init /\ [][Next]_vars

(* The threads and the tasks keep running: what each of them has in flight *)
(* is written, put back or released, a turn that began ends, and so do the *)
(* tick and the shutdown.  Nothing makes a tick come, a request arrive, or *)
(* the operator stop the node.                                             *)
Fairness ==
  /\ \A p \in {"encode", "lane", "sweep"} : WF_vars(Publish(p))
  /\ WF_vars((turn # "idle" /\ Ingest) \/ Publish("hook"))
  /\ WF_vars(BarrierTask \/ \E p \in {"timer", "run", "park"} : Publish(p))
  /\ WF_vars(Shutdown)

FairSpec == Spec /\ Fairness
-----------------------------------------------------------------------------
(* Every acknowledged frame at or below the checkpoint, or at or below the *)
(* horizon of an installed snapshot, is in the store: whatever is in       *)
(* flight, put back, parked, coalesced or unwound while a cut is captured  *)
(* and run, the log never forgets, and recovery never withholds from the   *)
(* sinks, a frame whose records exist nowhere else (barrier.rs, run_cut,   *)
(* install and stamp; receiver.rs, flush_then_snapshot).                   *)
StampedFramesAreStored ==
  \A f \in acked : f <= checkpoint \/ f <= snap => f \in store

(* An acknowledged record is in the store, in the buffers, or in a         *)
(* registered publish, unless the latch is set: nothing on the park, the   *)
(* requeue and the invalidation paths drops one (publish.rs, park and      *)
(* write; barrier.rs, invalidate_pending).                                 *)
RecordsAreAccountedFor ==
  failed > next =>
    acked \subseteq store \cup buffer \cup UNION {b.recs : b \in batches}

(* A cut never waits for the guard of a batch that only the barrier itself *)
(* can release: the one in the pending slot, or the one the rotation hook  *)
(* is about to put there (record_sink.rs, quiesce_publishes_through).      *)
RunNeverWaitsOnSlot ==
  phase = "write" => WaitedFor \cap (At("slot") \cup At("hook")) = {}

(* A shutdown that was signalled completes, whatever tick, turn and        *)
(* publishes it finds under way, so no cut waits for ever for a publish:   *)
(* the shutdown waits for the tick.  The exception is an ingest task that  *)
(* outlived its connection and whose rotation hook fills the slot behind   *)
(* it: then flush_then_snapshot may wait, under the miner lock, for a      *)
(* guard that nobody is left to release (receiver.rs, shutdown).           *)
ShutdownCompletes == stop = "stopping" ~> stop = "done" \/ late

(* What is in the buffers and in flight: types (no cut is given the        *)
(* reserved epoch), and no record is dropped (publish.rs, park and write;  *)
(* cadence.rs, open_cut).                                                  *)
RecordInv == TypeOK /\ RecordsAreAccountedFor
=============================================================================
