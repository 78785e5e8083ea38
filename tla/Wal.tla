-------------------------------- MODULE Wal --------------------------------
(***************************************************************************)
(* The write-ahead log of one node (ourios-wal/src/lib.rs, rotation.rs):   *)
(* append, sync, rotation with its five fault sites and its retry budget,  *)
(* the directory fsync a rotation or an open owes, and open, replay and    *)
(* the healing of a torn tail after a crash.                               *)
(*                                                                         *)
(* A segment is a number in the order of the UUIDv7 file names; a frame    *)
(* has an identity in append order, a length and the bytes that reached    *)
(* the file.  What an fsync proved durable is kept apart from what is in   *)
(* the files: a killed process leaves the page cache behind, a power loss  *)
(* does not.                                                               *)
(*                                                                         *)
(* Every operation holds the journal mutex from beginning to end, so it is *)
(* one step with the first failing site as its choice; a crash between two *)
(* sites leaves the files as a failure at the second one does.             *)
(* The model starts from an empty root, so a RECLAIM record exists before  *)
(* the first segment and ensure_record has nothing to do in a rotation;    *)
(* the *.wal.partial files, which list_segments never returns, are left    *)
(* out.                                                                    *)
(***************************************************************************)
EXTENDS Integers, FiniteSets, FiniteSetsExt

CONSTANTS
  Sizes,            \* frame lengths
  SegmentSize,      \* segment_size_bytes, less the header
  Budget,           \* rotation_retry_attempts
  MaxFrames,        \* bound: frames appended in a behaviour
  MaxSegments,      \* bound: segments ever installed
  MaxCrashes        \* bound: crashes in a behaviour

ASSUME WalAssumption ==
  /\ Sizes \subseteq Nat \ {0}
  /\ SegmentSize \in Nat /\ \A n \in Sizes : n <= SegmentSize
  /\ Budget \in Nat \ {0}
  /\ {MaxFrames, MaxSegments, MaxCrashes} \subseteq Nat

VARIABLES
  mode,       \* "down", "opened" (before replay), "up", or "refused"
  frames,     \* the frames in the files
  cur,        \* the newest segment, 0 on an empty root
  durable,    \* identities of the frames an fsync has covered
  headed,     \* segments up to this one have a durable header
  linked,     \* segments up to this one have a durable directory entry
  dir_fsync,  \* the directory fsync owed
  attempts,   \* RotationState: failures charged since the last discharge
  nextId,     \* identity of the next frame
  covered,    \* frames at or below an offset that some sync returned
  delivered,  \* frames the last replay gave to its sink
  crashes,
  broken      \* history: "rollback" once a failed write left part of a frame,
              \* "header" once a power loss tore the header of the first segment

faultVars == <<crashes, broken>>
vars == <<mode, frames, cur, durable, headed, linked, dir_fsync, attempts,
          nextId, covered, delivered, faultVars>>
diskVars == <<frames, cur, durable, headed, linked>>
-----------------------------------------------------------------------------
Frame == [id : Nat, seg : Nat, len : Nat, got : Nat]
Torn(f) == f.got < f.len
InSeg(s) == {f \in frames : f.seg = s}
Ids(F) == {f.id : f \in F}
Bytes(F) == FoldSet(LAMBDA f, n : f.got + n, 0, F)

(* RotationState: Healthy at 0, Retrying below the budget, then Terminal.  *)
Terminal == attempts >= Budget

TypeOK ==
  /\ mode \in {"down", "opened", "up", "refused"}
  /\ frames \subseteq Frame
  /\ {cur, headed, linked, nextId, crashes} \subseteq Nat
  /\ attempts \in 0..Budget
  /\ dir_fsync \in {"Clean", "PendingOpen", "PendingRotation"}
  /\ {durable, covered, delivered} \subseteq SUBSET Nat
  /\ broken \subseteq {"rollback", "header"}

Init ==
  /\ mode = "down"
  /\ frames = {} /\ cur = 0 /\ headed = 0 /\ linked = 0
  /\ durable = {} /\ covered = {} /\ delivered = {}
  /\ dir_fsync = "Clean" /\ attempts = 0 /\ nextId = 1
  /\ crashes = 0 /\ broken = {}
-----------------------------------------------------------------------------
(* rotate_now.  An owed rotation fsync is discharged first and refills the *)
(* budget; the closing data sync covers the old segment; the fresh one is  *)
(* created, its header synced, renamed and installed, and only then is the *)
(* directory fsynced.  A failure at a site charges one attempt.            *)
Owed == dir_fsync = "PendingRotation"

OwedFsyncFails ==
  /\ Owed
  /\ attempts' = attempts + 1
  /\ UNCHANGED <<cur, durable, headed, linked, dir_fsync>>

(* What the owed fsync leaves when it succeeds.                            *)
Left == IF Owed THEN 0 ELSE attempts
Entry == IF Owed THEN cur ELSE linked
Owes == IF Owed THEN "Clean" ELSE dir_fsync

(* The closing data sync, and what the post-rename failure leaves owed;    *)
(* each with a faulty variant for the mutation runs.                       *)
CloseSync_Skipped == UNCHANGED durable
CloseSync == durable' = durable \cup Ids(InSeg(cur))
OwedAfterRename_Forgotten == "Clean"
OwedAfterRename == "PendingRotation"

CloseSyncFails ==
  /\ attempts' = Left + 1 /\ linked' = Entry /\ dir_fsync' = Owes
  /\ UNCHANGED <<cur, durable, headed>>

(* The Create, HeaderSync and Rename sites: all before the install.        *)
FreshSegmentFails ==
  /\ attempts' = Left + 1 /\ linked' = Entry /\ dir_fsync' = Owes
  /\ CloseSync /\ headed' = cur
  /\ UNCHANGED cur

(* The rename landed, so the fresh segment is installed all the same.      *)
ParentFsyncFails ==
  /\ cur < MaxSegments
  /\ attempts' = Left + 1 /\ linked' = Entry /\ dir_fsync' = OwedAfterRename
  /\ CloseSync
  /\ cur' = cur + 1 /\ headed' = cur + 1

RotateFails ==
  OwedFsyncFails \/ CloseSyncFails \/ FreshSegmentFails \/ ParentFsyncFails

RotateSucceeds ==
  /\ cur < MaxSegments
  /\ CloseSync
  /\ cur' = cur + 1 /\ headed' = cur + 1 /\ linked' = cur + 1
  /\ dir_fsync' = "Clean" /\ attempts' = 0

(* rotate(Discretionary), by way of rotate_if_aged: the owed fsync first,  *)
(* then nothing at all on a segment that holds no frame.                   *)
RotateDiscretionary ==
  /\ mode = "up" /\ ~Terminal
  /\ \/ InSeg(cur) # {} /\ (RotateFails \/ RotateSucceeds)
     \/ InSeg(cur) = {} /\ OwedFsyncFails
     \/ /\ InSeg(cur) = {} /\ Owed
        /\ linked' = cur /\ dir_fsync' = "Clean" /\ attempts' = 0
        /\ UNCHANGED <<cur, durable, headed>>
  /\ UNCHANGED <<mode, frames, nextId, covered, delivered, faultVars>>
-----------------------------------------------------------------------------
(* append.  The rotation is due when the frame does not fit, or when the   *)
(* segment holds a frame and has outlived its age, which may be any time.  *)
MustRotate(n) == Bytes(InSeg(cur)) + n > SegmentSize
MayRotate(n) == MustRotate(n) \/ InSeg(cur) # {}

AppendReady(n) == mode = "up" /\ ~Terminal /\ nextId <= MaxFrames /\ n \in Sizes

Write(n, got, seg) ==
  /\ frames' = frames \cup {[id |-> nextId, seg |-> seg, len |-> n, got |-> got]}
  /\ nextId' = nextId + 1
  /\ broken' = broken \cup (IF got < n THEN {"rollback"} ELSE {})
  /\ UNCHANGED <<mode, covered, delivered, crashes>>

(* The frame is written; or the write fails and the rollback with it, so   *)
(* part of the frame stays.  A write that fails and is rolled back leaves  *)
(* only what the rotation did.                                             *)
WriteOutcome(n, seg) ==
  \/ Write(n, n, seg)
  \/ \E got \in 1..(n - 1) : Write(n, got, seg)
  \/ UNCHANGED <<mode, frames, nextId, covered, delivered, faultVars>>

WalAppend(n) ==
  /\ AppendReady(n)
  /\ \/ /\ ~MustRotate(n)
        /\ WriteOutcome(n, cur)
        /\ UNCHANGED <<cur, durable, headed, linked, dir_fsync, attempts>>
     \/ /\ MayRotate(n)
        /\ RotateSucceeds
        /\ WriteOutcome(n, cur + 1)
     \/ /\ MayRotate(n)
        /\ RotateFails
        /\ UNCHANGED <<mode, frames, nextId, covered, delivered, faultVars>>
-----------------------------------------------------------------------------
(* sync.  The data sync of the current segment first; then the directory   *)
(* fsync owed, which charges the budget only when a rotation owes it.  The *)
(* offset returned covers every frame in the files.                        *)
SyncReturns ==
  covered' = covered \cup Ids({f \in frames : ~Torn(f)})

(* A spent budget on the owed fsync refuses; and a sync that discharges it *)
(* refills the budget, where a data sync alone does not.                   *)
SyncAllowed == ~(Terminal /\ Owed)
SyncRefill_ByDataSync == 0
SyncRefill == IF Owed THEN 0 ELSE attempts

Sync ==
  /\ mode = "up"
  /\ SyncAllowed
  /\ durable' = durable \cup Ids(InSeg(cur))
  /\ headed' = cur
  /\ \/ /\ dir_fsync = "Clean"
        /\ attempts' = SyncRefill
        /\ SyncReturns
        /\ UNCHANGED <<linked, dir_fsync>>
     \/ /\ dir_fsync # "Clean"
        /\ linked' = cur /\ dir_fsync' = "Clean"
        /\ attempts' = SyncRefill
        /\ SyncReturns
     \/ /\ dir_fsync # "Clean"
        /\ attempts' = IF Owed THEN attempts + 1 ELSE attempts
        /\ UNCHANGED <<linked, dir_fsync, covered>>
  /\ UNCHANGED <<mode, frames, cur, nextId, delivered, faultVars>>
-----------------------------------------------------------------------------
(* The process is killed: the page cache survives.  An append may be cut   *)
(* short by it.                                                            *)
Down ==
  /\ mode \in {"opened", "up"} /\ crashes < MaxCrashes
  /\ mode' = "down" /\ crashes' = crashes + 1
  /\ dir_fsync' = "Clean" /\ attempts' = 0
  /\ UNCHANGED <<covered, delivered, broken>>

Kill ==
  /\ Down
  /\ UNCHANGED <<frames, cur, durable, headed, linked, nextId>>

KillInAppend(n, got) ==
  /\ AppendReady(n) /\ got \in 1..(n - 1) /\ ~MustRotate(n)
  /\ Down
  /\ frames' = frames \cup {[id |-> nextId, seg |-> cur, len |-> n, got |-> got]}
  /\ nextId' = nextId + 1
  /\ UNCHANGED <<cur, durable, headed, linked>>

(* The power fails: of each file some suffix that no fsync covered is      *)
(* lost, cut inside a frame or between two.  What is left is on the disk,  *)
(* hence durable.                                                          *)
MayLose(L) ==
  \A f \in frames :
    f.id \in L => /\ f.id \notin durable
                  /\ \A g \in InSeg(f.seg) : g.id > f.id => g.id \in L

(* Part of the first frame a segment loses may still be there.             *)
CutFrames(L) ==
  {[p[1] EXCEPT !.got = p[2]] :
     p \in {q \in frames \X (1..SegmentSize) :
              /\ q[1].id \in L /\ q[2] < q[1].got
              /\ \A g \in InSeg(q[1].seg) : g.id < q[1].id => g.id \notin L}}

(* The names that no directory fsync covered may be gone, with all that is *)
(* in their files.                                                         *)
PowerLoss ==
  /\ Down
  /\ \E L \in SUBSET Ids(frames), gone \in SUBSET ((linked + 1)..cur) :
       /\ MayLose(L)
       /\ \E C \in {{}} \cup {{f} : f \in CutFrames(L)} :
            /\ frames' = {f \in {g \in frames : g.id \notin L} \cup C : f.seg \notin gone}
            /\ durable' = Ids(frames')
       /\ cur' = Max(0..cur \ gone)
       /\ headed' = cur' /\ linked' = cur'
  /\ UNCHANGED nextId

(* The header of the newest segment did not reach the disk: the next open  *)
(* cannot read it and refuses the root.                                    *)
PowerLossTearsHeader ==
  /\ headed < cur
  /\ mode \in {"opened", "up"} /\ crashes < MaxCrashes
  /\ mode' = "refused" /\ crashes' = crashes + 1
  /\ dir_fsync' = "Clean" /\ attempts' = 0
  /\ frames' = {f \in frames : f.seg < cur} /\ broken' = broken \cup {"header"}
  /\ UNCHANGED <<covered, delivered, cur, durable, headed, linked, nextId>>
-----------------------------------------------------------------------------
(* open: prepare_root fsyncs the directory; the newest segment is reopened *)
(* or, on an empty root, a first one is created under its final name and   *)
(* not synced.  The directory fsync is owed again either way.              *)
Open ==
  /\ mode = "down"
  /\ mode' = "opened"
  /\ linked' = cur
  /\ cur' = IF cur = 0 THEN 1 ELSE cur
  /\ dir_fsync' = "PendingOpen" /\ attempts' = 0
  /\ UNCHANGED <<frames, durable, headed, nextId, covered, delivered, faultVars>>

(* replay_segment reads the first torn frame of a segment together with    *)
(* whatever bytes follow it: a short read is a torn tail, a long enough    *)
(* one fails the checksum.                                                 *)
FirstTorn(s) == Min({f.id : f \in {g \in InSeg(s) : Torn(g)}})
HasTorn(s) == \E f \in InSeg(s) : Torn(f)
Readable(s) == {f \in InSeg(s) : HasTorn(s) => f.id < FirstTorn(s)}
TornTail(s) ==
  /\ HasTorn(s)
  /\ \A f \in InSeg(s) : f.id = FirstTorn(s) => Bytes(InSeg(s) \ Readable(s)) < f.len

Corrupt == \E s \in 1..cur : HasTorn(s) /\ ~(s = cur /\ TornTail(s))
Replayed == UNION {Readable(s) : s \in 1..cur}

(* heal_newest_segment: truncate to the last whole frame, sync the file    *)
(* and the directory.  The variants leave the torn bytes, or cut a whole   *)
(* frame too.                                                              *)
Healed_NoTruncate == frames
Healed == Replayed

ReplayHeals ==
  /\ mode = "opened" /\ ~Corrupt /\ HasTorn(cur)
  /\ frames' = Healed
  /\ durable' = durable \cup Ids(Readable(cur))
  /\ headed' = cur /\ linked' = cur /\ dir_fsync' = "Clean"
  /\ mode' = "up" /\ delivered' = Ids(Replayed)
  /\ UNCHANGED <<cur, attempts, nextId, covered, faultVars>>

(* replay over clean tails syncs nothing.                                  *)
ReplayClean ==
  /\ mode = "opened" /\ ~\E s \in 1..cur : HasTorn(s)
  /\ mode' = "up" /\ delivered' = Ids(Replayed)
  /\ UNCHANGED <<frames, cur, durable, headed, linked, dir_fsync, attempts,
                 nextId, covered, faultVars>>

(* replay halts on a torn closed segment or on a failed checksum.          *)
ReplayRefuses ==
  /\ mode = "opened" /\ Corrupt
  /\ mode' = "refused"
  /\ UNCHANGED <<diskVars, dir_fsync, attempts, nextId, covered, delivered, faultVars>>
-----------------------------------------------------------------------------
Next ==
  \/ \E n \in Sizes : WalAppend(n)
  \/ Sync \/ RotateDiscretionary
  \/ Kill \/ \E n \in Sizes : \E got \in 1..(n - 1) : KillInAppend(n, got)
  \/ PowerLoss \/ PowerLossTearsHeader
  \/ Open \/ ReplayHeals \/ ReplayClean \/ ReplayRefuses

Spec == Init /\ [][Next]_vars
-----------------------------------------------------------------------------
(* Every frame at or below an offset that a sync returned is found by      *)
(* every later replay, through kills, power losses, failed rotations and   *)
(* healed tails: it is whole, in a segment that is still there, with no    *)
(* torn frame before it (lib.rs, sync, rotate_now and replay_segment).     *)
(* Part of a frame that a failed rollback left behind voids the promise.   *)
CoveredFramesAreReplayable ==
  "rollback" \notin broken =>
    \A id \in covered :
      \E f \in frames : f.id = id /\ f.seg <= cur /\ f \in Readable(f.seg)

(* Only the newest segment can hold a torn frame or one that a power loss  *)
(* may cut: a closed segment never reads as torn.  A name that is not      *)
(* durable is always owed, so that no sync returns before it is (lib.rs,   *)
(* the CloseSync site of rotate_now and the directory fsync it owes).      *)
ClosedSegmentsAreDurable ==
  /\ headed >= cur - 1
  /\ mode = "up" /\ linked < cur => dir_fsync # "Clean"
  /\ \A f \in frames :
       f.seg < cur => f.id \in durable /\ (Torn(f) => "rollback" \in broken)

(* Neither open nor replay refuses the root unless a write and its         *)
(* rollback both failed, or a power loss tore the header of the first      *)
(* segment, which create_fresh_segment does not sync: no other sequence of *)
(* faults and crashes leaves files that need an operator (lib.rs,          *)
(* replay_segment and open_existing_segment).                              *)
RecoveryRefusesOnlyBrokenRoots ==
  mode = "refused" => "rollback" \in broken \/ ("header" \in broken /\ cur = 1)

(* While the process runs, what its replay delivered is still in the       *)
(* files, in the same place: the healing of a torn tail takes nothing that *)
(* the miner was given, and the appends that follow start after it         *)
(* (lib.rs, heal_newest_segment).                                          *)
DeliveredFramesStay ==
  mode = "up" => \A id \in delivered : \E f \in frames : f.id = id /\ ~Torn(f)

(* The rotation budget is refilled by a completed rotation or by the owed  *)
(* directory fsync alone, so a directory fsync that keeps failing behind   *)
(* succeeding data syncs reaches the terminal state; nothing but a restart *)
(* leaves that state (rotation.rs, RotationState::charge and discharged).  *)
BudgetIsRefilledByDischarge ==
  [][attempts' < attempts =>
       \/ mode' # "up"
       \/ cur' > cur /\ dir_fsync' = "Clean"
       \/ Owed /\ linked' >= cur]_vars

(* The files as an open finds them and as a running log leaves them: types *)
(* (the budget's bound is one), closed segments and delivered frames       *)
(* (lib.rs, rotate_now and heal_newest_segment).                           *)
SegmentInv == TypeOK /\ ClosedSegmentsAreDurable /\ DeliveredFramesStay
=============================================================================
