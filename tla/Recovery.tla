------------------------------ MODULE Recovery ------------------------------
(***************************************************************************)
(* An acknowledged frame across restarts: the log, the store, the          *)
(* checkpoint and the snapshots together (ourios-ingester/src/recovery.rs, *)
(* snapshot_store.rs, the start and the stop of                            *)
(* ourios-server/src/receiver.rs, and what they use of ourios-wal).        *)
(*                                                                         *)
(* The components are as coarse as this question allows: the log of Wal is *)
(* a sequence of frames with a synced prefix, the commit of GroupCommit a  *)
(* sync and a turn, and a cut of Publication one step that stores all it   *)
(* drained, for Publication shows that nothing less is stamped.  An offset *)
(* is a position in the log; after a power loss the positions that were    *)
(* lost are used again, as the byte offsets of a reopened segment are.     *)
(***************************************************************************)
EXTENDS Integers, Sequences, FiniteSets

CONSTANTS
  MaxFrames,    \* bound: frames ever appended
  MaxCrashes    \* bound: kills and power losses

ASSUME RecoveryAssumption == MaxFrames \in Nat /\ MaxCrashes \in Nat

VARIABLES
  mode,       \* "down", "recovered" (before the first snapshot), "up"
  log,        \* the frames in the files, in order
  flushed,    \* how many of them an fsync covered
  reclaimed,  \* how many of the oldest were unlinked
  snap,       \* the horizon of the snapshot on disk, 0 for none
  snapFolds,  \* the frames its miner state folds
  checkpoint, \* the checkpoint on disk
  store,      \* the frames whose records are in the object store
  nextId,     \* the name of the next frame
  acked,      \* the frames some turn acknowledged
  turnAt,     \* the position whose turn is next in this process
  folded,     \* the frames the miner's state folds
  horizon,    \* the miner's folded horizon
  mark,       \* last_durable when it is Acknowledged, 0 otherwise
  ledger,     \* the snapshot horizon this process knows to be installed
  buffer,     \* the frames whose records are in the sinks, not yet stored
  crashes,
  undercuts   \* history: power losses that took frames below the snapshot's horizon

diskVars == <<log, flushed, reclaimed, snap, snapFolds, checkpoint, store>>
memVars == <<turnAt, folded, horizon, mark, ledger, buffer>>
faultVars == <<crashes, undercuts>>
vars == <<mode, diskVars, nextId, acked, memVars, faultVars>>
-----------------------------------------------------------------------------
Frame == 1..MaxFrames
Live == (reclaimed + 1)..Len(log)
IdsOf(P) == {log[p] : p \in P}

TypeOK ==
  /\ mode \in {"down", "recovered", "up"}
  /\ log \in Seq(Frame)
  /\ flushed \in 0..MaxFrames /\ reclaimed \in 0..MaxFrames
  /\ snap \in 0..MaxFrames /\ checkpoint \in 0..MaxFrames
  /\ horizon \in 0..MaxFrames /\ mark \in 0..MaxFrames /\ ledger \in 0..MaxFrames
  /\ turnAt \in 1..(MaxFrames + 1) /\ nextId \in 1..(MaxFrames + 1)
  /\ snapFolds \subseteq Frame /\ folded \subseteq Frame /\ acked \subseteq Frame
  /\ store \subseteq Frame /\ buffer \subseteq Frame
  /\ crashes \in 0..MaxCrashes /\ undercuts \in 0..crashes
  /\ reclaimed <= flushed /\ flushed <= Len(log)

Init ==
  /\ mode = "down"
  /\ log = << >> /\ flushed = 0 /\ reclaimed = 0
  /\ snap = 0 /\ snapFolds = {} /\ checkpoint = 0 /\ store = {}
  /\ nextId = 1 /\ acked = {} /\ folded = {} /\ buffer = {}
  /\ turnAt = 1 /\ horizon = 0 /\ mark = 0 /\ ledger = 0
  /\ crashes = 0 /\ undercuts = 0
-----------------------------------------------------------------------------
(* The serving process.  A frame is named by its number among all that     *)
(* were ever appended, those a power loss took included.                   *)
AppendFrame ==
  /\ mode = "up" /\ nextId <= MaxFrames
  /\ log' = Append(log, nextId) /\ nextId' = nextId + 1
  /\ UNCHANGED <<mode, flushed, reclaimed, snap, snapFolds, checkpoint, store, acked, memVars, faultVars>>

Sync ==
  /\ mode = "up" /\ flushed < Len(log)
  /\ flushed' = Len(log)
  /\ UNCHANGED <<mode, log, reclaimed, snap, snapFolds, checkpoint, store, acked, memVars, nextId, faultVars>>

(* A turn of a frame whose sync succeeded: mined, folded, acknowledged,    *)
(* marked.  fold_through assigns the horizon, whatever it was.             *)
TurnAcks ==
  /\ mode = "up" /\ turnAt <= flushed
  /\ acked' = acked \cup {log[turnAt]}
  /\ folded' = folded \cup {log[turnAt]}
  /\ buffer' = buffer \cup {log[turnAt]}
  /\ horizon' = turnAt /\ mark' = turnAt /\ turnAt' = turnAt + 1
  /\ UNCHANGED <<mode, diskVars, ledger, nextId, faultVars>>

(* A turn of a frame whose sync failed, though a later one may cover it.   *)
TurnFails ==
  /\ mode = "up" /\ turnAt <= Len(log)
  /\ turnAt' = turnAt + 1
  /\ UNCHANGED <<mode, diskVars, acked, folded, horizon, mark, ledger, buffer, nextId, faultVars>>

(* The sweep and the publisher store records outside of any cut.           *)
PublishSome(D) ==
  /\ mode = "up" /\ D # {} /\ D \subseteq buffer
  /\ store' = store \cup D /\ buffer' = buffer \ D
  /\ UNCHANGED <<mode, log, flushed, reclaimed, snap, snapFolds, checkpoint, acked,
                 turnAt, folded, horizon, mark, ledger, nextId, faultVars>>

InstallSnapshot == snap' = horizon /\ snapFolds' = folded /\ ledger' = horizon
KeepSnapshot == UNCHANGED <<snap, snapFolds, ledger>>

(* A cut that stamps: everything drained is stored, the snapshots are      *)
(* installed and the checkpoint written, unless a crash or a failed write  *)
(* comes between.  Without an acknowledged mark a cut installs and stamps  *)
(* nothing, and the journal never moves its checkpoint back.               *)
StampMark_Replayed == horizon
StampMark == mark

CutStamps ==
  /\ mode = "up" /\ StampMark # 0
  /\ store' = store \cup buffer /\ buffer' = {}
  /\ InstallSnapshot
  /\ checkpoint' \in {checkpoint} \cup {m \in {StampMark} : m > checkpoint}
  /\ UNCHANGED <<mode, log, flushed, reclaimed, acked, turnAt, folded, horizon, mark, nextId, faultVars>>

(* Housekeeping unlinks what is covered both by the checkpoint and by the  *)
(* horizon of the snapshot that the process installed or restored.         *)
Reclaimable(n) == n <= checkpoint /\ n <= ledger /\ n <= Len(log)

Reclaim(n) ==
  /\ mode = "up" /\ reclaimed < n /\ Reclaimable(n)
  /\ reclaimed' = n
  /\ UNCHANGED <<mode, log, flushed, snap, snapFolds, checkpoint, store, acked, memVars, nextId, faultVars>>
-----------------------------------------------------------------------------
(* recover.  A frame the snapshot folds is not mined; one at or below the  *)
(* checkpoint is mined for the miner's state only; any other is published  *)
(* again.  A snapshot that does not restore is discarded.                  *)
IsFolded_OffByOne(p, S) == S # 0 /\ p <= S + 1
IsFolded(p, S) == S # 0 /\ p <= S
Mined(S) == {p \in Live : ~IsFolded(p, S)}
Republished(S) == {p \in Mined(S) : p > checkpoint}

Recover(restored) ==
  LET S == IF restored THEN snap ELSE 0
      kept == IF restored THEN snapFolds ELSE {}
  IN
  /\ mode = "down" /\ mode' = "recovered"
  /\ folded' = kept \cup IdsOf(Mined(S))
  /\ buffer' = IdsOf(Republished(S))
  /\ horizon' = IF Mined(S) = {} THEN S ELSE Len(log)
  /\ mark' = 0 /\ turnAt' = Len(log) + 1 /\ ledger' = S
  /\ flushed' \in {flushed, Len(log)}
  /\ UNCHANGED <<log, reclaimed, snap, snapFolds, checkpoint, store, acked, nextId, faultVars>>

(* flush_then_snapshot: the sinks are flushed, and a snapshot is written   *)
(* at the folded horizon only if nothing was retained.                     *)
MaySnapshot_Always(D) == TRUE
MaySnapshot(D) == D = buffer

FlushThenSnapshot ==
  \E D \in SUBSET buffer :
    /\ store' = store \cup D
    /\ KeepSnapshot \/ (MaySnapshot(D) /\ horizon # 0 /\ InstallSnapshot)
    /\ buffer' = buffer \ D

(* snapshot_post_recovery, before the listeners open.                      *)
PostRecovery ==
  /\ mode = "recovered" /\ mode' = "up"
  /\ FlushThenSnapshot
  /\ UNCHANGED <<log, flushed, reclaimed, checkpoint, acked, turnAt, folded, horizon, mark, nextId, faultVars>>

(* shutdown, once every turn is over.                                      *)
Shutdown ==
  /\ mode = "up" /\ mode' = "down" /\ turnAt > Len(log)
  /\ FlushThenSnapshot
  /\ UNCHANGED <<log, flushed, reclaimed, checkpoint, acked, turnAt, folded, horizon, mark, nextId, faultVars>>
-----------------------------------------------------------------------------
Forget == turnAt' = 1 /\ folded' = {} /\ horizon' = 0 /\ mark' = 0 /\ ledger' = 0 /\ buffer' = {}

Kill ==
  /\ mode # "down" /\ mode' = "down" /\ crashes < MaxCrashes
  /\ crashes' = crashes + 1 /\ Forget
  /\ UNCHANGED <<diskVars, nextId, acked, undercuts>>

(* Some of the frames that no fsync covered are gone.                      *)
PowerLoss(n) ==
  /\ crashes < MaxCrashes
  /\ crashes' = crashes + 1 /\ mode' = "down" /\ Forget
  /\ flushed <= n /\ n <= Len(log)
  /\ log' = SubSeq(log, 1, n) /\ flushed' = n
  /\ undercuts' = IF n < snap THEN undercuts + 1 ELSE undercuts
  /\ UNCHANGED <<reclaimed, snap, snapFolds, checkpoint, store, nextId, acked>>
-----------------------------------------------------------------------------
Next ==
  \/ AppendFrame \/ Sync \/ TurnAcks \/ TurnFails \/ CutStamps
  \/ \E D \in SUBSET buffer : PublishSome(D)
  \/ \E n \in 1..MaxFrames : Reclaim(n)
  \/ \E restored \in BOOLEAN : Recover(restored)
  \/ PostRecovery \/ Shutdown \/ Kill
  \/ \E n \in 0..MaxFrames : PowerLoss(n)

Spec == Init /\ [][Next]_vars
-----------------------------------------------------------------------------
Durable(f, p) == p \in Live /\ p <= flushed /\ log[p] = f

(* An acknowledged frame is in the store, or durable in the log at an      *)
(* offset that the next recovery publishes again (recovery.rs, route).     *)
NoAckedFrameIsLost ==
  \A f \in acked :
    f \in store \/ \E p \in Live : Durable(f, p) /\ p > checkpoint /\ p > snap

(* No sequence of syncs, failed turns, cuts, reclamations, restarts, kills *)
(* and power losses loses an acknowledged frame, as long as no power loss  *)
(* takes back frames below the horizon of the snapshot on disk: the        *)
(* snapshot is taken at an offset that was replayed and that no fsync      *)
(* covered, and recovery withholds whatever frame has that offset next     *)
(* (recovery.rs, route and recover; receiver.rs, flush_then_snapshot).     *)
AckedFramesSurvive == undercuts = 0 => NoAckedFrameIsLost

(* The checkpoint on disk names an offset that no crash can take back.  An *)
(* offset beyond the synced prefix can be lost and used again by another   *)
(* frame, which recovery would then withhold; replay delivers such frames  *)
(* after a kill, so what it delivered is never a cut's mark (pipeline.rs,  *)
(* acknowledged_durable).                                                  *)
CheckpointNeverAtLosableOffset == checkpoint <= flushed

(* While the process serves, the miner has folded every acknowledged frame *)
(* that is still in the log: the ones it mined, the ones recovery mined    *)
(* again and the ones its snapshot stands for (recovery.rs,                *)
(* consume_batch).                                                         *)
MinerFoldsAckedFrames ==
  mode # "down" /\ undercuts = 0 => \A p \in Live : log[p] \in acked => log[p] \in folded
=============================================================================
