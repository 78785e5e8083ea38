--------------------------- MODULE RecoveryProof ---------------------------
(***************************************************************************)
(* Proofs about restarts, for any number of frames and crashes.            *)
(*                                                                         *)
(* The checkpoint stays within the synced prefix because the acknowledged  *)
(* mark does (MarkInv).  That an acknowledged frame survives crashes is    *)
(* not inductive: the process may hold it only in memory, and what         *)
(* recovery puts back there is decided by the snapshot and by the          *)
(* checkpoint.  SurviveInv says where each acknowledged frame is, in the   *)
(* process and on the disk, as long as no power loss cut the log below the *)
(* snapshot's horizon.  FoldInv does the same for the miner's state; it    *)
(* needs that no two offsets of the log hold the same frame.               *)
(***************************************************************************)
EXTENDS Recovery, TLAPS

(* The marks are ordered: reclaimed, checkpoint, synced, appended.         *)
MarkInv ==
  /\ TypeOK
  /\ Len(log) < nextId
  /\ mark <= flushed
  /\ reclaimed <= checkpoint
  /\ CheckpointNeverAtLosableOffset

LEMMA MarkInit == Init => MarkInv
<1> SUFFICES ASSUME Init PROVE MarkInv
  OBVIOUS
<1>1. log \in Seq(Frame) /\ Len(log) = 0
  BY DEF Init
<1> QED
  BY <1>1, RecoveryAssumption DEF Init, MarkInv, TypeOK, CheckpointNeverAtLosableOffset, Frame

(* One step per action; Recover and the crashes forget the mark, and only  *)
(* a cut, at a mark within the synced prefix, moves the checkpoint.        *)
LEMMA MarkStep == MarkInv /\ [Next]_vars => MarkInv'
<1> SUFFICES ASSUME MarkInv, [Next]_vars PROVE MarkInv'
  OBVIOUS
<1> USE RecoveryAssumption DEF MarkInv, TypeOK, CheckpointNeverAtLosableOffset, memVars, diskVars, faultVars
<1>1. CASE UNCHANGED vars
  BY <1>1 DEF vars
<1>2. CASE AppendFrame
  BY <1>2 DEF AppendFrame, Frame
<1>3. CASE Sync
  BY <1>3 DEF Sync
<1>4. CASE TurnAcks
  <2>1. log[turnAt] \in Frame
    BY <1>4 DEF TurnAcks
  <2> QED
    BY <1>4, <2>1 DEF TurnAcks
<1>5. CASE TurnFails
  BY <1>5 DEF TurnFails
<1>6. ASSUME NEW D \in SUBSET buffer, PublishSome(D) PROVE MarkInv'
  BY <1>6 DEF PublishSome
<1>7. CASE CutStamps
  BY <1>7 DEF CutStamps, StampMark, InstallSnapshot
<1>8. ASSUME NEW n \in 1..MaxFrames, Reclaim(n) PROVE MarkInv'
  BY <1>8 DEF Reclaim, Reclaimable
<1>9. ASSUME NEW restored \in BOOLEAN, Recover(restored) PROVE MarkInv'
  <2>1. \A S : IdsOf(Mined(S)) \subseteq Frame /\ IdsOf(Republished(S)) \subseteq Frame
    BY DEF IdsOf, Mined, Republished, Live
  <2> QED
    BY <1>9, <2>1 DEF Recover
<1>10. CASE PostRecovery
  BY <1>10 DEF PostRecovery, FlushThenSnapshot, KeepSnapshot, InstallSnapshot
<1>11. CASE Shutdown
  BY <1>11 DEF Shutdown, FlushThenSnapshot, KeepSnapshot, InstallSnapshot
<1>12. CASE Kill
  BY <1>12 DEF Kill, Forget
<1>13. ASSUME NEW n \in 0..MaxFrames, PowerLoss(n) PROVE MarkInv'
  <2>1. log' \in Seq(Frame) /\ Len(log') = n
    BY <1>13 DEF PowerLoss
  <2> QED
    BY <1>13, <2>1 DEF PowerLoss, Forget
<1> QED
  BY <1>1, <1>2, <1>3, <1>4, <1>5, <1>6, <1>7, <1>8, <1>9, <1>10, <1>11, <1>12, <1>13 DEF Next

(* What the arithmetic of the second proof needs of MarkInv.               *)
MarksAreNat ==
  /\ flushed \in Nat /\ reclaimed \in Nat /\ snap \in Nat /\ checkpoint \in Nat
  /\ horizon \in Nat /\ mark \in Nat /\ turnAt \in Nat /\ nextId \in Nat
  /\ Len(log) \in Nat /\ flushed <= Len(log) /\ reclaimed <= checkpoint

LEMMA MarkNat == MarkInv => MarksAreNat
  BY RecoveryAssumption DEF MarkInv, TypeOK, MarksAreNat

(* The state stays within its types (receiver.rs, serve_until to           *)
(* shutdown).                                                              *)
THEOREM TypeCorrect == Spec => []TypeOK
<1>1. MarkInv => TypeOK
  BY DEF MarkInv
<1> QED
  BY MarkInit, MarkStep, <1>1, PTL DEF Spec

(* The checkpoint never names an offset that a crash can take back, with   *)
(* or without power losses (pipeline.rs, acknowledged_durable).            *)
THEOREM CheckpointIsDurable == Spec => []CheckpointNeverAtLosableOffset
<1>1. MarkInv => CheckpointNeverAtLosableOffset
  BY DEF MarkInv
<1> QED
  BY MarkInit, MarkStep, <1>1, PTL DEF Spec
-----------------------------------------------------------------------------
(* Where an acknowledged frame is, unless a power loss undercut the        *)
(* snapshot.                                                               *)
SurviveInv ==
  /\ MarkInv
  /\ undercuts = 0 =>
       /\ NoAckedFrameIsLost
       /\ snap <= Len(log)
       /\ mode # "down" =>
            /\ acked \subseteq store \cup buffer
            /\ turnAt <= Len(log) + 1
            /\ snap < turnAt /\ checkpoint < turnAt /\ horizon < turnAt /\ mark < turnAt

LEMMA SurviveInit == Init => SurviveInv
<1> SUFFICES ASSUME Init PROVE SurviveInv
  OBVIOUS
<1>1. MarkInv
  BY MarkInit
<1> QED
  BY <1>1 DEF Init, SurviveInv, NoAckedFrameIsLost

(* What is stored, or stays at its offset in the synced log above the      *)
(* checkpoint and the snapshot, is not lost.                               *)
LEMMA StoredIsNotLost == acked \subseteq store => NoAckedFrameIsLost
  BY DEF NoAckedFrameIsLost

LEMMA KeptIsNotLost ==
  ASSUME MarksAreNat, MarksAreNat', NoAckedFrameIsLost,
         acked' = acked, store \subseteq store',
         snap' = snap, checkpoint' = checkpoint, reclaimed' <= checkpoint,
         flushed <= flushed', flushed <= Len(log'),
         \A p \in 1..flushed : log'[p] = log[p]
  PROVE  NoAckedFrameIsLost'
<1> SUFFICES ASSUME NEW f \in acked, f \notin store
             PROVE  \E p \in Live' : Durable(f, p)' /\ p > checkpoint /\ p > snap
  BY DEF NoAckedFrameIsLost
<1>1. PICK p \in Live : Durable(f, p) /\ p > checkpoint /\ p > snap
  BY DEF NoAckedFrameIsLost
<1>2. p \in 1..flushed /\ log'[p] = f
  BY <1>1 DEF Durable, Live, MarksAreNat
<1>3. p \in Live'
  <2>1. p \in Nat /\ p > reclaimed' /\ p <= Len(log')
    BY <1>1, <1>2 DEF MarksAreNat
  <2>2. Len(log') \in Nat /\ reclaimed' \in Nat
    BY DEF MarksAreNat
  <2>3. p \in (reclaimed' + 1)..Len(log')
    BY <2>1, <2>2
  <2> QED
    BY <2>3 DEF Live
<1> QED
  BY <1>1, <1>2, <1>3 DEF Durable, MarksAreNat

LEMMA SurviveStep == SurviveInv /\ [Next]_vars => SurviveInv'
<1> SUFFICES ASSUME SurviveInv, [Next]_vars PROVE SurviveInv'
  OBVIOUS
<1>0. MarkInv'
  BY MarkStep DEF SurviveInv
<1>t. MarksAreNat
  BY MarkNat DEF SurviveInv
<1>u. MarksAreNat'
  BY <1>0, MarkNat, PTL
<1> SUFFICES ASSUME undercuts' = 0
             PROVE  /\ NoAckedFrameIsLost'
                    /\ snap' <= Len(log')
                    /\ mode' # "down" =>
                         /\ acked' \subseteq store' \cup buffer'
                         /\ turnAt' <= Len(log') + 1
                         /\ snap' < turnAt' /\ checkpoint' < turnAt'
                         /\ horizon' < turnAt' /\ mark' < turnAt'
  BY <1>0 DEF SurviveInv
<1>b. undercuts \in Nat /\ undercuts' \in Nat /\ log \in Seq(Frame)
  BY <1>0, RecoveryAssumption DEF SurviveInv, MarkInv, TypeOK
<1> USE <1>t, <1>u, <1>b DEF SurviveInv, MarksAreNat, memVars, diskVars, faultVars
<1>1. CASE UNCHANGED vars
  BY <1>1 DEF vars, NoAckedFrameIsLost, Durable, Live
<1>2. CASE AppendFrame
  <2>1. Len(log') = Len(log) + 1 /\ \A p \in 1..Len(log) : log'[p] = log[p]
    BY <1>2 DEF AppendFrame
  <2>2. NoAckedFrameIsLost'
    BY <1>2, <2>1, KeptIsNotLost DEF AppendFrame
  <2> QED
    BY <1>2, <2>1, <2>2 DEF AppendFrame
<1>3. CASE Sync
  <2>1. NoAckedFrameIsLost'
    BY <1>3, KeptIsNotLost DEF Sync
  <2> QED
    BY <1>3, <2>1 DEF Sync
<1>4. CASE TurnAcks
  <2>1. turnAt \in Live /\ turnAt <= flushed /\ turnAt > checkpoint /\ turnAt > snap
    BY <1>4 DEF TurnAcks, Live
  <2>2. NoAckedFrameIsLost'
    <3> SUFFICES ASSUME NEW f \in acked', f \notin store
                 PROVE  \E p \in Live : Durable(f, p) /\ p > checkpoint /\ p > snap
      BY <1>4 DEF TurnAcks, NoAckedFrameIsLost, Live, Durable
    <3>1. CASE f \in acked
      BY <1>4, <3>1 DEF NoAckedFrameIsLost, TurnAcks
    <3>2. CASE f = log[turnAt]
      BY <2>1, <3>2 DEF Durable
    <3> QED
      BY <1>4, <3>1, <3>2 DEF TurnAcks
  <2> QED
    BY <1>4, <2>1, <2>2 DEF TurnAcks
<1>5. CASE TurnFails
  <2>1. NoAckedFrameIsLost'
    BY <1>5, KeptIsNotLost DEF TurnFails
  <2> QED
    BY <1>5, <2>1 DEF TurnFails
<1>6. ASSUME NEW D \in SUBSET buffer, PublishSome(D) PROVE SurviveInv'
  <2>1. NoAckedFrameIsLost'
    BY <1>6, KeptIsNotLost DEF PublishSome
  <2> QED
    BY <1>0, <1>6, <2>1 DEF PublishSome
<1>7. CASE CutStamps
  <2>1. acked' \subseteq store'
    BY <1>7 DEF CutStamps
  <2>2. NoAckedFrameIsLost'
    BY <2>1 DEF NoAckedFrameIsLost
  <2>3. horizon <= Len(log)
    BY <1>7 DEF CutStamps
  <2> QED
    BY <1>7, <2>1, <2>2, <2>3 DEF CutStamps, StampMark, InstallSnapshot
<1>8. ASSUME NEW n \in 1..MaxFrames, Reclaim(n) PROVE SurviveInv'
  <2>1. NoAckedFrameIsLost'
    BY <1>8, KeptIsNotLost DEF Reclaim, Reclaimable
  <2> QED
    BY <1>0, <1>8, <2>1 DEF Reclaim, Reclaimable
<1>9. ASSUME NEW restored \in BOOLEAN, Recover(restored) PROVE SurviveInv'
  <2> DEFINE S == IF restored THEN snap ELSE 0
  <2>0. undercuts = 0
    BY <1>9 DEF Recover
  <2>1. S \in Nat /\ S <= Len(log) /\ S <= snap
    BY <2>0
  <2>2. \A f \in acked : f \in store \/ f \in IdsOf(Republished(S))
    <3> SUFFICES ASSUME NEW f \in acked, f \notin store PROVE f \in IdsOf(Republished(S))
      OBVIOUS
    <3>1. PICK p \in Live : Durable(f, p) /\ p > checkpoint /\ p > snap
      BY <2>0 DEF NoAckedFrameIsLost
    <3>2. p \in Republished(S)
      BY <3>1, <2>1 DEF Republished, Mined, IsFolded, Live
    <3> QED
      BY <3>1, <3>2 DEF IdsOf, Durable
  <2>3. acked \subseteq store \cup buffer'
    BY <1>9, <2>2 DEF Recover
  <2>4. NoAckedFrameIsLost'
    BY <1>9, <2>0, KeptIsNotLost DEF Recover
  <2>5. /\ turnAt' = Len(log') + 1
        /\ snap' < turnAt' /\ checkpoint' < turnAt' /\ horizon' < turnAt' /\ mark' < turnAt'
    BY <1>9, <2>0, <2>1 DEF Recover, MarkInv, CheckpointNeverAtLosableOffset
  <2> QED
    BY <1>0, <1>9, <2>0, <2>3, <2>4, <2>5 DEF Recover
<1>10. ASSUME FlushThenSnapshot, mode # "down", acked' = acked, log' = log, turnAt' = turnAt,
              checkpoint' = checkpoint, horizon' = horizon, mark' = mark,
              flushed' = flushed, reclaimed' = reclaimed, undercuts' = undercuts
       PROVE  SurviveInv'
  <2>1. PICK D \in SUBSET buffer :
          /\ store' = store \cup D
          /\ KeepSnapshot \/ (MaySnapshot(D) /\ horizon # 0 /\ InstallSnapshot)
          /\ buffer' = buffer \ D
    BY <1>10 DEF FlushThenSnapshot
  <2>2. acked' \subseteq store' \cup buffer'
    BY <1>10, <2>1
  <2>3. CASE KeepSnapshot
    <3>1. NoAckedFrameIsLost'
      BY <1>10, <2>1, <2>3, KeptIsNotLost DEF KeepSnapshot
    <3> QED
      BY <1>0, <1>10, <2>2, <2>3, <3>1 DEF KeepSnapshot
  <2>4. CASE MaySnapshot(D) /\ InstallSnapshot
    <3>1. acked' \subseteq store'
      BY <1>10, <2>1, <2>2, <2>4 DEF MaySnapshot
    <3>2. NoAckedFrameIsLost'
      BY <3>1 DEF NoAckedFrameIsLost
    <3> QED
      BY <1>0, <1>10, <2>2, <2>4, <3>2 DEF InstallSnapshot
  <2> QED
    BY <2>1, <2>3, <2>4
<1>11. CASE PostRecovery
  BY <1>10, <1>11 DEF PostRecovery
<1>12. CASE Shutdown
  BY <1>10, <1>12 DEF Shutdown
<1>13. CASE Kill
  <2>1. NoAckedFrameIsLost'
    BY <1>13, KeptIsNotLost DEF Kill
  <2> QED
    BY <1>13, <2>1 DEF Kill, Forget
<1>14. ASSUME NEW n \in 0..MaxFrames, PowerLoss(n) PROVE SurviveInv'
  <2>1. Len(log') = n /\ \A p \in 1..n : log'[p] = log[p]
    BY <1>14 DEF PowerLoss
  <2>2. undercuts = 0 /\ snap <= n
    BY <1>14 DEF PowerLoss
  <2>3. NoAckedFrameIsLost'
    BY <1>14, <2>1, <2>2, KeptIsNotLost DEF PowerLoss
  <2> QED
    BY <1>0, <1>14, <2>1, <2>2, <2>3 DEF PowerLoss, Forget
<1> QED
  BY <1>1, <1>2, <1>3, <1>4, <1>5, <1>6, <1>7, <1>8, <1>9, <1>11, <1>12, <1>13, <1>14 DEF Next

(* No sequence of syncs, failed turns, cuts, reclamations, kills, power    *)
(* losses and restarts loses an acknowledged frame, as long as no power    *)
(* loss takes back frames below the snapshot's horizon (recovery.rs,       *)
(* recover; receiver.rs, flush_then_snapshot).                             *)
THEOREM AckedFramesAreKept == Spec => []AckedFramesSurvive
<1>1. SurviveInv => AckedFramesSurvive
  BY DEF SurviveInv, AckedFramesSurvive
<1> QED
  BY SurviveInit, SurviveStep, <1>1, PTL DEF Spec
-----------------------------------------------------------------------------
(* What the snapshot and the miner fold.                                   *)
NamesAreUnique ==
  /\ \A f \in acked : f < nextId
  /\ \A p \in 1..Len(log) : log[p] < nextId
  /\ \A p, q \in 1..Len(log) : log[p] = log[q] => p = q

SnapshotFolds == \A p \in Live : p <= snap /\ log[p] \in acked => log[p] \in snapFolds
MinerFolds == \A p \in Live : log[p] \in acked => log[p] \in folded

FoldInv ==
  /\ SurviveInv
  /\ NamesAreUnique
  /\ undercuts = 0 => SnapshotFolds /\ (mode # "down" => MinerFolds)

LEMMA FoldInit == Init => FoldInv
<1> SUFFICES ASSUME Init PROVE FoldInv
  OBVIOUS
<1>1. SurviveInv
  BY SurviveInit
<1>2. Len(log) = 0
  BY DEF Init
<1> QED
  BY <1>1, <1>2 DEF Init, FoldInv, NamesAreUnique, SnapshotFolds, MinerFolds, Live

(* Names are handed out once, whatever a power loss takes back.            *)
LEMMA NamesStep ==
  ASSUME MarkInv, NamesAreUnique, [Next]_vars
  PROVE  NamesAreUnique'
<1>t. nextId \in Nat /\ flushed <= Len(log) /\ log \in Seq(Frame) /\ turnAt \in 1..(MaxFrames + 1)
      /\ flushed \in Nat
  BY RecoveryAssumption DEF MarkInv, TypeOK
<1>1. CASE AppendFrame
  <2>1. Len(log') = Len(log) + 1 /\ log'[Len(log) + 1] = nextId
        /\ \A p \in 1..Len(log) : log'[p] = log[p]
    BY <1>1, <1>t DEF AppendFrame
  <2>2. \A p \in 1..Len(log') : p = Len(log) + 1 \/ p \in 1..Len(log)
    BY <1>t, <2>1
  <2>3. nextId' = nextId + 1 /\ acked' = acked
    BY <1>1 DEF AppendFrame
  <2>4. \A p \in 1..Len(log) : log[p] \in Nat
    BY <1>t, RecoveryAssumption DEF Frame
  <2>5. \A f \in acked' : f < nextId'
    BY <1>t, <2>3, RecoveryAssumption DEF NamesAreUnique, MarkInv, TypeOK, Frame
  <2>6. \A p \in 1..Len(log') : log'[p] < nextId'
    BY <1>t, <2>1, <2>2, <2>3, <2>4 DEF NamesAreUnique
  <2>7. \A p, q \in 1..Len(log') : log'[p] = log'[q] => p = q
    BY <1>t, <2>1, <2>2, <2>4 DEF NamesAreUnique
  <2> QED
    BY <2>5, <2>6, <2>7 DEF NamesAreUnique
<1>2. CASE TurnAcks
  <2>1. turnAt \in 1..Len(log)
    BY <1>2, <1>t, RecoveryAssumption DEF TurnAcks
  <2> QED
    BY <1>2, <2>1 DEF TurnAcks, NamesAreUnique, diskVars
<1>3. ASSUME NEW n \in 0..MaxFrames, PowerLoss(n) PROVE NamesAreUnique'
  <2>1. Len(log') = n /\ n <= Len(log) /\ \A p \in 1..n : log'[p] = log[p]
    BY <1>3, <1>t, RecoveryAssumption DEF PowerLoss
  <2>2. \A p \in 1..n : p \in 1..Len(log)
    BY <1>t, <2>1, RecoveryAssumption
  <2> QED
    BY <1>3, <2>1, <2>2 DEF PowerLoss, NamesAreUnique
<1>4. CASE UNCHANGED <<log, nextId, acked>>
  BY <1>4 DEF NamesAreUnique
<1> QED
  BY <1>1, <1>2, <1>3, <1>4
  DEF Next, vars, diskVars, memVars, Sync, TurnFails, PublishSome, CutStamps, Reclaim,
      Recover, PostRecovery, Shutdown, Kill

LEMMA FoldStep == FoldInv /\ [Next]_vars => FoldInv'
<1> SUFFICES ASSUME FoldInv, [Next]_vars PROVE FoldInv'
  OBVIOUS
<1>0. SurviveInv' /\ NamesAreUnique'
  BY SurviveStep, NamesStep DEF FoldInv, SurviveInv
<1> SUFFICES ASSUME undercuts' = 0 PROVE SnapshotFolds' /\ (mode' # "down" => MinerFolds')
  BY <1>0 DEF FoldInv
<1>t. MarksAreNat /\ log \in Seq(Frame) /\ undercuts \in Nat
  BY MarkNat, RecoveryAssumption DEF FoldInv, SurviveInv, MarkInv, TypeOK
<1>u. undercuts = 0
  BY <1>t DEF Next, PowerLoss, vars, diskVars, memVars, faultVars, AppendFrame, Sync, TurnAcks,
      TurnFails, PublishSome, CutStamps, Reclaim, Recover, PostRecovery, Shutdown, Kill
<1>s. SnapshotFolds /\ (mode # "down" => MinerFolds)
  BY <1>u DEF FoldInv
<1>1. CASE AppendFrame
  <2>1. Len(log') = Len(log) + 1 /\ log'[Len(log) + 1] = nextId
        /\ \A p \in 1..Len(log) : log'[p] = log[p]
    BY <1>1, <1>t DEF AppendFrame
  <2>2. \A p \in Live' : p = Len(log) + 1 \/ (p \in Live /\ log'[p] = log[p])
    BY <1>1, <1>t, <2>1 DEF AppendFrame, Live, MarksAreNat
  <2>3. nextId \notin acked
    BY <1>t DEF FoldInv, NamesAreUnique, MarksAreNat
  <2> QED
    BY <1>1, <1>s, <2>1, <2>2, <2>3 DEF AppendFrame, SnapshotFolds, MinerFolds, memVars
<1>2. CASE TurnAcks
  <2>1. turnAt \in 1..Len(log) /\ snap < turnAt
    BY <1>2, <1>t, <1>u DEF TurnAcks, FoldInv, SurviveInv, MarksAreNat, MarkInv, TypeOK
  <2>2. \A p \in Live : p \in 1..Len(log)
    BY <1>t DEF Live, MarksAreNat
  <2>3. \A p \in Live : p <= snap => log[p] # log[turnAt]
    BY <1>t, <2>1, <2>2 DEF FoldInv, NamesAreUnique, MarksAreNat
  <2>4. Live' = Live /\ log' = log /\ snap' = snap /\ snapFolds' = snapFolds
    BY <1>2 DEF TurnAcks, Live, diskVars
  <2>5. acked' = acked \cup {log[turnAt]} /\ folded' = folded \cup {log[turnAt]} /\ mode # "down"
    BY <1>2 DEF TurnAcks
  <2> QED
    BY <1>s, <2>3, <2>4, <2>5 DEF SnapshotFolds, MinerFolds
<1>3. ASSUME NEW restored \in BOOLEAN, Recover(restored)
      PROVE  SnapshotFolds' /\ MinerFolds'
  <2> DEFINE S == IF restored THEN snap ELSE 0
  <2>1. Live' = Live /\ log' = log /\ snap' = snap /\ snapFolds' = snapFolds /\ acked' = acked
    BY <1>3 DEF Recover, Live
  <2>2. \A p \in Live : log[p] \in acked => log[p] \in folded'
    <3> SUFFICES ASSUME NEW p \in Live, log[p] \in acked PROVE log[p] \in folded'
      OBVIOUS
    <3>1. CASE IsFolded(p, S)
      <4>1. restored /\ p <= snap
        BY <3>1 DEF IsFolded
      <4>2. log[p] \in snapFolds
        BY <1>s, <4>1 DEF SnapshotFolds
      <4> QED
        BY <1>3, <4>1, <4>2 DEF Recover
    <3>2. CASE ~IsFolded(p, S)
      <4>1. log[p] \in IdsOf(Mined(S))
        BY <3>2 DEF IdsOf, Mined
      <4> QED
        BY <1>3, <4>1 DEF Recover
    <3> QED
      BY <3>1, <3>2
  <2> QED
    BY <1>s, <2>1, <2>2 DEF SnapshotFolds, MinerFolds
<1>4. ASSUME NEW n \in 0..MaxFrames, PowerLoss(n) PROVE SnapshotFolds' /\ mode' = "down"
  <2>1. Len(log') = n /\ n <= Len(log) /\ \A p \in 1..n : log'[p] = log[p]
    BY <1>4, <1>t, RecoveryAssumption DEF PowerLoss
  <2>2. \A p \in Live' : p \in Live /\ log'[p] = log[p]
    BY <1>4, <1>t, <2>1, RecoveryAssumption DEF PowerLoss, Live, MarksAreNat
  <2> QED
    BY <1>4, <1>s, <2>2 DEF PowerLoss, SnapshotFolds
<1>5. ASSUME UNCHANGED <<log, acked, folded, flushed>>, mode # "down",
             \/ UNCHANGED <<snap, snapFolds>>
             \/ snapFolds' = folded,
             \A p \in Live' : p \in Live
      PROVE  SnapshotFolds' /\ MinerFolds'
  BY <1>5, <1>s DEF SnapshotFolds, MinerFolds
<1>6. CASE Kill
  BY <1>6, <1>s DEF Kill, SnapshotFolds, diskVars, Live
<1>7. CASE UNCHANGED vars
  BY <1>7, <1>s DEF vars, diskVars, memVars, SnapshotFolds, MinerFolds, Live
<1>8. CASE Sync \/ TurnFails \/ \E D \in SUBSET buffer : PublishSome(D)
  BY <1>8, <1>s DEF Sync, TurnFails, PublishSome, SnapshotFolds, MinerFolds, Live, memVars, diskVars
<1>9. CASE CutStamps
  BY <1>9, <1>5 DEF CutStamps, InstallSnapshot, Live
<1>10. ASSUME NEW n \in 1..MaxFrames, Reclaim(n) PROVE SnapshotFolds' /\ MinerFolds'
  <2>1. \A p \in Live' : p \in Live
    BY <1>10, <1>t DEF Reclaim, Live, MarksAreNat
  <2> QED
    BY <1>10, <1>5, <2>1 DEF Reclaim, memVars
<1>11. CASE PostRecovery \/ Shutdown
  <2>1. \A p \in Live' : p \in Live
    BY <1>11 DEF PostRecovery, Shutdown, Live
  <2> QED
    BY <1>11, <1>5, <2>1
    DEF PostRecovery, Shutdown, FlushThenSnapshot, KeepSnapshot, InstallSnapshot
<1> QED
  BY <1>1, <1>2, <1>3, <1>4, <1>6, <1>7, <1>8, <1>9, <1>10, <1>11 DEF Next

(* Under the same condition the miner of a serving process has folded      *)
(* every acknowledged frame of the log, by its own turns, by replay or     *)
(* through its snapshot (recovery.rs, consume_batch).                      *)
THEOREM MinerIsComplete == Spec => []MinerFoldsAckedFrames
<1>1. FoldInv => MinerFoldsAckedFrames
  BY DEF FoldInv, MinerFolds, MinerFoldsAckedFrames
<1> QED
  BY FoldInit, FoldStep, <1>1, PTL DEF Spec
=============================================================================
