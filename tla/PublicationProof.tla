-------------------------- MODULE PublicationProof --------------------------
(***************************************************************************)
(* Proofs about publication, for any number of frames and panics and for   *)
(* any limits.                                                             *)
(*                                                                         *)
(* StampedFramesAreStored says nothing of a cut before it stamps, so it is *)
(* not inductive.  Covered says of every cut under way, from its capture   *)
(* to its decision, where each record at or below its mark can still be:   *)
(* in the store, in a batch that the cut writes or waits for, or gone from *)
(* those in a way that makes the latch or a settlement refuse the cut.     *)
(***************************************************************************)
EXTENDS Publication, TLAPS

Located == acked \subseteq store \cup buffer \cup UNION {b.recs : b \in batches}

(* What a cut with this epoch and mark answers for, its own batches being  *)
(* at p.                                                                   *)
Covered(epoch, mark, p) ==
  \A f \in acked : f <= mark =>
    \/ f \in store \/ Refuses(epoch) \/ ~AllOk(epoch)
    \/ \E b \in batches : f \in b.recs /\ (b.epoch <= epoch \/ b.at = p)

(* The cuts that may still stamp, and where their batches are.             *)
Live(c, p) ==
  \/ p = "hook" /\ turn = "rotated" /\ c = hook
  \/ p = "slot" /\ pending # NoCut /\ c = pending
  \/ p = "timer" /\ phase \in {"opened", "drained"} /\ c = run
  \/ p = "run" /\ phase = "write" /\ published /\ c = run

(* A cut was captured before the one of this epoch, or the latch refuses   *)
(* both: at its end the counter stands still.                              *)
Before(c, epoch) == c.epoch < epoch \/ (c.epoch = epoch /\ Refuses(epoch))

(* A cut's epoch is behind the counter, unless the counter is at its end;  *)
(* no encode of an epoch it waits for is left.                             *)
CutOk(c, p) ==
  /\ c.mark <= last_durable
  /\ Before(c, next)
  /\ Refuses(c.epoch) \/ \A b \in At("encode") : b.epoch > c.epoch
  /\ Covered(c.epoch, c.mark, p)

CutInv == \A p \in Places : \A c \in {hook, pending, run} : Live(c, p) => CutOk(c, p)

RunPhases == {"write", "parkrun", "install", "stamp", "invalidate", "parking", "settle"}

(* The cuts under way are in the order of their capture.                   *)
OrderInv ==
  /\ phase \in RunPhases => Before(run, next)
  /\ phase \in RunPhases /\ pending # NoCut => Before(run, pending.epoch)
  /\ phase \in RunPhases /\ turn = "rotated" => Before(run, hook.epoch)
  /\ turn = "rotated" /\ pending # NoCut => Before(pending, hook.epoch) /\ pending.mark <= hook.mark
  /\ phase \in {"opened", "drained"} /\ pending # NoCut => Before(pending, run.epoch)
  /\ phase = "drained" /\ pending # NoCut => pending.mark <= run.mark

(* Batches and the turn.                                                   *)
TurnInv ==
  /\ acked \subseteq 1..last_durable /\ last_durable <= frame
  /\ \A b \in batches : b.epoch <= next
  /\ turn # "idle" => ~Excluded
  /\ turn \in {"idle", "mine"} => At("hook") = {}
  /\ turn = "rotated" => \A b \in batches : b.epoch <= hook.epoch
  /\ turn = "rotated" => \A b, c \in At("hook") : b = c
  /\ pending # NoCut /\ ~Refuses(pending.epoch) => \A b \in At("hook") : b.epoch > pending.epoch
  /\ phase = "write" => run.epoch < next /\ \A b \in At("slot") \cup At("hook") : b.epoch > run.epoch

(* The latch: a cut the latch cannot see refused when it latched.          *)
LatchInv ==
  /\ failed <= next \/ failed = Reserved
  /\ tickEpoch <= next
  /\ turn = "rotated" => Refuses(hook.epoch) \/ failed = Reserved
  /\ phase \in {"panicked", "latched", "parkLatched"} =>
       failed <= next /\ (turn = "rotated" => Refuses(hook.epoch))
  /\ phase = "parkLatched" /\ pending # NoCut => Refuses(pending.epoch)

(* Between the timer's epoch and its drain nothing is registered.          *)
OpenInv ==
  phase = "opened" =>
    Refuses(run.epoch) \/ (Located /\ \A b \in batches : b.epoch <= run.epoch /\ b.at # "encode")

(* What is stamped or about to be.                                         *)
StampInv ==
  /\ snap <= last_durable /\ checkpoint <= last_durable
  /\ phase \in {"install", "stamp"} =>
       run.mark <= last_durable /\ \A f \in acked : f <= run.mark => f \in store

PublicationInv ==
  /\ RecordsAreAccountedFor /\ StampedFramesAreStored
  /\ TurnInv /\ LatchInv /\ OrderInv /\ OpenInv /\ StampInv /\ CutInv

(* A turn that began has a frame to fold.                                  *)
TurnHasFrame == turn # "idle" => frame < MaxFrames
-----------------------------------------------------------------------------
BatchType == [recs : SUBSET Frame, epoch : Epoch, at : Places]
CutType == [epoch : 0..Reserved, mark : 0..MaxFrames]
SettlementType == [registered : Epoch, at : 0..Reserved]

(* TypeOK in parts: batches, cuts, the cadence, and the rest.              *)
BatchesTyped == batches \subseteq BatchType /\ buffer \subseteq Frame /\ store \subseteq Frame

CutsTyped ==
  /\ pending \in CutType /\ run \in CutType /\ hook \in CutType
  /\ snap \in 0..MaxFrames /\ installed \in 0..MaxFrames /\ checkpoint \in 0..MaxFrames

CadenceTyped ==
  /\ next \in Epoch /\ failed \in 0..Reserved /\ tickEpoch \in Epoch
  /\ settlements \subseteq SettlementType

TasksTyped ==
  /\ site \in Sites
  /\ frame \in 0..MaxFrames /\ acked \subseteq Frame /\ last_durable \in 0..MaxFrames
  /\ turn \in {"idle", "rotated", "parking", "mine"}
  /\ phase \in Phases
  /\ published \in BOOLEAN /\ sweeping \in BOOLEAN
  /\ stop \in {"no", "stopping", "cut", "locked", "done"}
  /\ panics \in 0..MaxPanics

LEMMA TypeParts == TypeOK <=> BatchesTyped /\ CutsTyped /\ CadenceTyped /\ TasksTyped
  BY DEF TypeOK, BatchesTyped, CutsTyped, CadenceTyped, TasksTyped, BatchType, CutType, SettlementType

LEMMA Numbers ==
  ASSUME TypeOK
  PROVE  /\ Reserved \in Nat /\ Reserved > 0 /\ MaxFrames \in Nat /\ MaxPanics \in Nat
         /\ next \in Nat /\ failed \in Nat /\ tickEpoch \in Nat /\ next < Reserved /\ failed <= Reserved
         /\ frame \in Nat /\ last_durable \in Nat
         /\ \A c \in {hook, pending, run} : c.epoch \in Nat /\ c.mark \in Nat
         /\ \A b \in batches : b.epoch \in Nat /\ b.epoch < Reserved
         /\ \A f \in acked : f \in Nat /\ f >= 1
         /\ \A s \in settlements : s.registered \in Nat /\ s.at \in Nat
<1>1. Reserved \in Nat /\ Reserved > 0 /\ MaxFrames \in Nat /\ MaxPanics \in Nat
  BY PublicationAssumption, TypeParts DEF TasksTyped, Reserved
<1>2. /\ next \in Nat /\ failed \in Nat /\ tickEpoch \in Nat /\ next < Reserved /\ failed <= Reserved
      /\ frame \in Nat /\ last_durable \in Nat
      /\ \A f \in acked : f \in Nat /\ f >= 1
  BY <1>1, TypeParts DEF CadenceTyped, TasksTyped, Epoch, Frame
<1>3. \A c \in {hook, pending, run} : c.epoch \in Nat /\ c.mark \in Nat
  BY <1>1, TypeParts DEF CutsTyped, CutType
<1>4. \A b \in batches : b.epoch \in Nat /\ b.epoch < Reserved
  BY <1>1, TypeParts DEF BatchesTyped, BatchType, Epoch
<1>5. \A s \in settlements : s.registered \in Nat /\ s.at \in Nat
  BY <1>1, TypeParts DEF CadenceTyped, SettlementType, Epoch
<1> QED
  BY <1>1, <1>2, <1>3, <1>4, <1>5

LEMMA TypeInit == Init => TypeOK
<1> SUFFICES ASSUME Init PROVE TypeOK
  OBVIOUS
<1>1. Reserved \in Nat /\ Reserved > 0 /\ MaxFrames \in Nat /\ MaxPanics \in Nat
  BY PublicationAssumption DEF Init, Reserved
<1>2. BatchesTyped
  BY DEF Init, BatchesTyped
<1>3. CutsTyped
  BY <1>1 DEF Init, CutsTyped, CutType, NoCut, Cut
<1>4. CadenceTyped
  BY <1>1 DEF Init, CadenceTyped, Epoch
<1>5. TasksTyped
  <2>1. published \in BOOLEAN /\ sweeping \in BOOLEAN
    BY DEF Init
  <2>2. frame \in 0..MaxFrames /\ last_durable \in 0..MaxFrames /\ panics \in 0..MaxPanics
    BY <1>1 DEF Init
  <2> QED
    BY <2>1, <2>2 DEF Init, TasksTyped, Phases
<1> QED
  BY <1>2, <1>3, <1>4, <1>5, TypeParts

LEMMA SiteFixed == [Next]_vars => site' = site
  BY DEF Next, Publish, Put, Return, Release, Unwind, Encode, Ingest, TurnRotates, HookOffers,
         HookParks, TurnFolds, SweepDrains, Tick, BarrierTask, TimerOpens, TimerDrains,
         TimerOffers, TimerParks, TakePending, Decide, Install, Stamp, InvalidatePending,
         ShutdownCutPanics, Settle, ShutdownSignals, Shutdown, ShutdownRunsPending,
         ShutdownLocks, FlushThenSnapshot, vars, ingestVars, cadenceVars, barrierVars,
         durableVars, taskVars

(* Move keeps the records and the epoch of every batch.                    *)
LEMMA MoveEffects ==
  ASSUME TypeOK, NEW p \in Places, NEW q \in Places
  PROVE  /\ Move(p, q) \subseteq BatchType
         /\ \A b \in batches : IF b.at = p
              THEN \E c \in Move(p, q) : c.recs = b.recs /\ c.epoch = b.epoch /\ c.at = q
              ELSE b \in Move(p, q)
         /\ \A c \in Move(p, q) : \E b \in batches :
              /\ c.recs = b.recs /\ c.epoch = b.epoch
              /\ IF b.at = p THEN c.at = q ELSE c = b
<1>1. batches \subseteq BatchType
  BY TypeParts DEF BatchesTyped
<1>2. ASSUME NEW b \in batches
      PROVE  /\ [b EXCEPT !.at = q] \in BatchType
             /\ [b EXCEPT !.at = q].recs = b.recs /\ [b EXCEPT !.at = q].epoch = b.epoch
             /\ [b EXCEPT !.at = q].at = q
  BY <1>1 DEF BatchType
<1> QED
  BY <1>1, <1>2 DEF Move

LEMMA BatchesTypedStep == TypeOK /\ TurnHasFrame /\ [Next]_vars => BatchesTyped'
<1> SUFFICES ASSUME TypeOK, TurnHasFrame, [Next]_vars PROVE BatchesTyped'
  OBVIOUS
<1>0. /\ batches \subseteq BatchType /\ buffer \subseteq Frame /\ store \subseteq Frame
      /\ BatchType' = BatchType
  BY TypeParts, SiteFixed DEF BatchesTyped, BatchType, Epoch, Reserved
<1>1. \A b \in batches : b.recs \subseteq Frame /\ b.epoch \in Epoch /\ b.at \in Places
  BY <1>0 DEF BatchType
<1>2. ASSUME NEW b \in batches, NEW R \in SUBSET Frame, NEW q \in Places
      PROVE  [b EXCEPT !.recs = R] \in BatchType /\ [b EXCEPT !.recs = R, !.at = q] \in BatchType
  BY <1>0, <1>2 DEF BatchType
<1>3. ASSUME NEW R \in SUBSET Frame, NEW e \in Epoch, NEW q \in Places PROVE Batch(R, e, q) \in BatchType
  BY <1>3 DEF BatchType, Batch
<1>4. next \in Epoch
  BY TypeParts DEF CadenceTyped
<1>5. "encode" \in Places /\ "lane" \in Places /\ "sweep" \in Places /\ "hook" \in Places
      /\ "timer" \in Places /\ "slot" \in Places /\ "run" \in Places /\ "park" \in Places
  BY DEF Places
<1> USE DEF BatchesTyped, durableVars
<1>6. ASSUME NEW b \in batches, NEW r \in b.recs, Put(b, r) PROVE BatchesTyped'
  <2>1. r \in Frame /\ b.recs \ {r} \in SUBSET Frame
    BY <1>1, <1>6
  <2> QED
    BY <1>0, <1>2, <1>5, <1>6, <2>1 DEF Put
<1>7. ASSUME NEW b \in batches, Return(b) \/ Release(b) PROVE BatchesTyped'
  BY <1>0, <1>1, <1>2, <1>5, <1>7 DEF Return, Release
<1>8. ASSUME NEW b \in batches, Unwind(b) PROVE BatchesTyped'
  <2>1. ASSUME NEW c \in batches
        PROVE  [c EXCEPT !.recs = {}, !.at = IF @ = "hook" THEN "park" ELSE @] \in BatchType
    BY <1>0, <2>1 DEF BatchType, Places
  <2>2. PICK B \in SUBSET batches :
          batches' = (batches \ B) \cup {[c EXCEPT !.recs = {}, !.at = IF @ = "hook" THEN "park" ELSE @] : c \in B}
    BY <1>8 DEF Unwind, At
  <2> QED
    BY <1>0, <1>8, <2>1, <2>2 DEF Unwind
<1>9. ASSUME NEW b \in batches, Encode(b) PROVE BatchesTyped'
  <2>1. PICK D \in SUBSET (buffer \cup b.recs) :
          /\ buffer' = (buffer \cup b.recs) \ D
          /\ batches' = (batches \ {b}) \cup (IF D = {} THEN {} ELSE {Batch(D, b.epoch, "lane")})
    BY <1>9 DEF Encode
  <2>2. D \in SUBSET Frame /\ Batch(D, b.epoch, "lane") \in BatchType
    BY <1>0, <1>1, <1>3, <1>5, <1>9
  <2> QED
    BY <1>0, <1>1, <1>9, <2>1, <2>2 DEF Encode
<1>10. CASE TurnRotates
  <2>1. Batch(buffer, next, "hook") \in BatchType
    BY <1>0, <1>3, <1>4, <1>5
  <2> QED
    BY <1>0, <1>10, <2>1 DEF TurnRotates
<1>11. CASE TurnFolds
  <2>1. frame + 1 \in Frame
    BY <1>11, Numbers DEF TurnFolds, Frame, TurnMayRun, TurnHasFrame
  <2>2. Batch({frame + 1}, next, "encode") \in BatchType
    BY <1>3, <1>4, <1>5, <2>1
  <2> QED
    BY <1>0, <1>11, <2>2 DEF TurnFolds
<1>12. ASSUME NEW D \in SUBSET buffer, SweepDrains(D) PROVE BatchesTyped'
  <2>1. Batch(D, next, "sweep") \in BatchType
    BY <1>0, <1>3, <1>4, <1>5, <1>12
  <2> QED
    BY <1>0, <1>12, <2>1 DEF SweepDrains
<1>13. CASE TimerDrains
  <2>1. Batch(buffer, next, "timer") \in BatchType
    BY <1>0, <1>3, <1>4, <1>5
  <2> QED
    BY <1>0, <1>13, <2>1 DEF TimerDrains
<1>14. CASE HookOffers \/ TimerOffers \/ TakePending \/ InvalidatePending
  <2>1. /\ \/ batches' = Move("hook", "slot") \/ batches' = Move("timer", "slot")
           \/ batches' = Move("slot", "park") \/ batches' = Move("slot", "run") \/ batches' = batches
        /\ buffer' = buffer /\ store' = store
    BY <1>14 DEF HookOffers, TimerOffers, TakePending, InvalidatePending, PlaceCut, Discarded
  <2> QED
    BY <1>0, <1>5, <2>1, MoveEffects
<1>15. CASE FlushThenSnapshot
  BY <1>0, <1>15 DEF FlushThenSnapshot
<1>16. CASE UNCHANGED <<batches, buffer, store>>
  BY <1>0, <1>16
<1> QED
  BY <1>6, <1>7, <1>8, <1>9, <1>10, <1>11, <1>12, <1>13, <1>14, <1>15, <1>16
  DEF Next, Publish, At, Ingest, HookParks, Tick, BarrierTask, TimerOpens, TimerParks, Decide,
      Install, Stamp, ShutdownCutPanics, Settle, ShutdownSignals, Shutdown, ShutdownRunsPending,
      ShutdownLocks, vars

LEMMA CutsTypedStep == TypeOK /\ [Next]_vars => CutsTyped'
<1> SUFFICES ASSUME TypeOK, [Next]_vars PROVE CutsTyped'
  OBVIOUS
<1>0. CutsTyped /\ CutType' = CutType
  BY TypeParts, SiteFixed DEF CutType, Reserved
<1>1. ASSUME NEW e \in 0..Reserved, NEW m \in 0..MaxFrames PROVE Cut(e, m) \in CutType
  BY <1>1 DEF Cut, CutType
<1>2. /\ next \in 0..Reserved /\ last_durable \in 0..MaxFrames /\ 0 \in 0..MaxFrames /\ Reserved \in 0..Reserved
  BY Numbers, TypeParts DEF TasksTyped
<1>3. ASSUME NEW c \in CutType
      PROVE  /\ c.epoch \in 0..Reserved /\ c.mark \in 0..MaxFrames
             /\ [c EXCEPT !.mark = last_durable] \in CutType
  BY <1>2, <1>3 DEF CutType
<1>4. ASSUME NEW c \in CutType, NEW d \in CutType PROVE Later(c, d) \in CutType
  BY <1>1, <1>3, <1>4 DEF Later
<1>5. NoCut \in CutType
  BY <1>1, <1>2 DEF NoCut
<1> USE DEF CutsTyped, durableVars, barrierVars, ingestVars
<1>6. CASE TurnRotates
  BY <1>0, <1>1, <1>2, <1>6 DEF TurnRotates
<1>7. CASE HookOffers \/ TimerOffers
  BY <1>0, <1>4, <1>5, <1>7 DEF HookOffers, TimerOffers, PlaceCut
<1>8. CASE TimerOpens \/ TimerDrains
  BY <1>0, <1>1, <1>2, <1>3, <1>8 DEF TimerOpens, TimerDrains
<1>9. CASE TakePending \/ InvalidatePending \/ Settle \/ TurnFolds \/ HookParks
  BY <1>0, <1>5, <1>9 DEF TakePending, InvalidatePending, Settle, TurnFolds, HookParks
<1>10. CASE Install \/ Stamp
  BY <1>0, <1>3, <1>10 DEF Install, Stamp
<1>11. CASE FlushThenSnapshot
  BY <1>0, <1>2, <1>11 DEF FlushThenSnapshot
<1>12. CASE UNCHANGED <<pending, run, hook, snap, installed, checkpoint>>
  BY <1>0, <1>12
<1> QED
  BY <1>6, <1>7, <1>8, <1>9, <1>10, <1>11, <1>12
  DEF Next, Publish, Put, Return, Release, Unwind, Encode, Ingest, SweepDrains, Tick,
      BarrierTask, TimerParks, Decide, ShutdownCutPanics, ShutdownSignals, Shutdown,
      ShutdownRunsPending, ShutdownLocks, vars, ingestVars, cadenceVars, barrierVars,
      durableVars, taskVars

LEMMA CadenceTypedStep == TypeOK /\ [Next]_vars => CadenceTyped'
<1> SUFFICES ASSUME TypeOK, [Next]_vars PROVE CadenceTyped'
  OBVIOUS
<1>0. CadenceTyped /\ Epoch' = Epoch /\ Reserved' = Reserved /\ SettlementType' = SettlementType
  BY TypeParts, SiteFixed DEF Epoch, Reserved, SettlementType
<1>1. \A b \in batches : b.epoch \in Epoch
  BY TypeParts DEF BatchesTyped, BatchType
<1>2. ASSUME NEW e \in Epoch PROVE Unwound(e) \in SettlementType /\ Returned(e, next) \in SettlementType
  BY <1>0, <1>2, Numbers DEF Unwound, Returned, SettlementType, CadenceTyped, Epoch
<1>3. ASSUME NEW e \in Epoch PROVE Lowest(failed, e) \in 0..Reserved
  BY <1>0, <1>3, Numbers DEF Lowest, CadenceTyped, Epoch
<1>4. OpenCut => next' \in Epoch /\ failed' \in 0..Reserved
  BY <1>0, <1>3, Numbers DEF OpenCut, CadenceTyped, Epoch
<1> USE DEF CadenceTyped, cadenceVars, barrierVars
<1>5. ASSUME NEW b \in batches, Return(b) PROVE CadenceTyped'
  BY <1>0, <1>1, <1>2, <1>5 DEF Return, Dated
<1>6. ASSUME NEW b \in batches, Unwind(b) PROVE CadenceTyped'
  <2>1. PICK B \in SUBSET batches :
          failed' \in Reported(B) /\ settlements' = settlements \cup {Unwound(c.epoch) : c \in B}
    BY <1>6 DEF Unwind, At
  <2>2. failed' \in 0..Reserved
    BY <1>0, <1>1, <2>1, Numbers DEF Reported, Epoch
  <2>3. settlements' \subseteq SettlementType
    BY <1>0, <1>1, <1>2, <2>1
  <2> QED
    BY <1>0, <1>6, <2>2, <2>3 DEF Unwind
<1>7. CASE TurnRotates \/ TimerOpens
  BY <1>0, <1>4, <1>7 DEF TurnRotates, TimerOpens
<1>8. CASE Tick
  BY <1>0, <1>8 DEF Tick
<1>9. CASE InvalidatePending \/ ShutdownCutPanics
  BY <1>0, <1>3, <1>9 DEF InvalidatePending, ShutdownCutPanics
<1>10. CASE Settle
  <2>1. 0 \in Epoch
    BY Numbers DEF Epoch
  <2> QED
    BY <1>0, <1>10, <2>1 DEF Settle, Unspent
<1>11. CASE UNCHANGED <<next, failed, tickEpoch, settlements>>
  BY <1>0, <1>11
<1> QED
  BY <1>5, <1>6, <1>7, <1>8, <1>9, <1>10, <1>11
  DEF Next, At, Publish, Put, Release, Encode, Ingest, HookOffers, HookParks, TurnFolds,
      SweepDrains, BarrierTask, TimerDrains, TimerOffers, TimerParks, TakePending, Decide,
      Install, Stamp, ShutdownSignals, Shutdown, ShutdownRunsPending, ShutdownLocks,
      FlushThenSnapshot, vars, ingestVars, cadenceVars, barrierVars, durableVars, taskVars

LEMMA TasksTypedStep == TypeOK /\ TurnHasFrame /\ [Next]_vars => TasksTyped' /\ TurnHasFrame'
<1> SUFFICES ASSUME TypeOK, TurnHasFrame, [Next]_vars PROVE TasksTyped' /\ TurnHasFrame'
  OBVIOUS
<1>0. TasksTyped
  BY TypeParts
<1>1. site' \in Sites
  BY <1>0, SiteFixed DEF TasksTyped
<1>2. frame' \in 0..MaxFrames /\ acked' \subseteq Frame /\ last_durable' \in 0..MaxFrames
  <2>1. CASE TurnFolds
    <3>1. frame + 1 \in Frame /\ frame + 1 \in 0..MaxFrames
      BY <2>1, Numbers DEF TurnFolds, Frame, TurnMayRun, TurnHasFrame
    <3> QED
      BY <1>0, <2>1, <3>1 DEF TurnFolds, TasksTyped
  <2>2. CASE UNCHANGED <<frame, acked, last_durable>>
    BY <1>0, <2>2 DEF TasksTyped
  <2> QED
    BY <2>1, <2>2
    DEF Next, Publish, Put, Return, Release, Unwind, Encode, Ingest, TurnRotates, HookOffers,
        HookParks, SweepDrains, Tick, BarrierTask, TimerOpens, TimerDrains, TimerOffers,
        TimerParks, TakePending, Decide, Install, Stamp, InvalidatePending, ShutdownCutPanics,
        Settle, ShutdownSignals, Shutdown, ShutdownRunsPending, ShutdownLocks, FlushThenSnapshot,
        vars, ingestVars, cadenceVars, barrierVars, durableVars, taskVars
<1>3. panics' \in 0..MaxPanics
  <2>1. CASE panics' = panics
    BY <1>0, <2>1 DEF TasksTyped
  <2>2. CASE panics' = panics + 1 /\ panics < MaxPanics
    BY <1>0, <2>2, Numbers DEF TasksTyped
  <2> QED
    BY <2>1, <2>2
    DEF Next, Publish, Put, Return, Release, Unwind, Encode, Ingest, TurnRotates, HookOffers,
        HookParks, TurnFolds, SweepDrains, Tick, BarrierTask, TimerOpens, TimerDrains,
        TimerOffers, TimerParks, TakePending, Decide, Install, Stamp, InvalidatePending,
        ShutdownCutPanics, Settle, ShutdownSignals, Shutdown, ShutdownRunsPending, ShutdownLocks,
        FlushThenSnapshot, vars, ingestVars, cadenceVars, barrierVars, durableVars, taskVars
<1>4. turn' \in {"idle", "rotated", "parking", "mine"} /\ TurnHasFrame'
  <2>1. ASSUME NEW b \in batches, Unwind(b)
        PROVE  turn' \in {"idle", "rotated", "parking", "mine"} /\ TurnHasFrame'
    BY <1>0, <2>1 DEF TasksTyped, TurnHasFrame, Unwind, CanUnwind, CanPut
  <2>2. CASE Ingest
    BY <1>0, <2>2 DEF TasksTyped, Ingest, TurnRotates, HookOffers, HookParks, TurnFolds, TurnHasFrame, TurnMayRun
  <2>3. CASE UNCHANGED <<turn, frame>>
    BY <1>0, <2>3 DEF TasksTyped, TurnHasFrame
  <2> QED
    BY <2>1, <2>2, <2>3
    DEF Next, At, Publish, Put, Return, Release, Encode, SweepDrains, Tick, BarrierTask,
        TimerOpens, TimerDrains, TimerOffers, TimerParks, TakePending, Decide, Install, Stamp,
        InvalidatePending, ShutdownCutPanics, Settle, ShutdownSignals, Shutdown,
        ShutdownRunsPending, ShutdownLocks, FlushThenSnapshot, vars, ingestVars, cadenceVars,
        barrierVars, durableVars, taskVars
<1>5. phase' \in Phases
  <2>1. CASE phase' = phase
    BY <1>0, <2>1 DEF TasksTyped
  <2>2. CASE phase' # phase
    <3>1. \/ \E b \in batches : Unwind(b)
          \/ Tick \/ BarrierTask \/ ShutdownRunsPending
      BY <2>2
      DEF Next, At, Publish, Put, Return, Release, Encode, Ingest, TurnRotates, HookOffers,
          HookParks, TurnFolds, SweepDrains, ShutdownSignals, Shutdown, ShutdownLocks,
          FlushThenSnapshot, Shutdown, vars, ingestVars, cadenceVars, barrierVars, durableVars,
          taskVars
    <3> QED
      BY <1>0, <2>2, <3>1
      DEF Phases, ShutdownCut,
          BarrierTask, Unwind, Tick, TimerOpens, TimerDrains, TimerOffers, TimerParks,
          TakePending, Decide, Install, Stamp, InvalidatePending, ShutdownCutPanics, Settle,
          ShutdownRunsPending
  <2> QED
    BY <2>1, <2>2
<1>6. stop' \in {"no", "stopping", "cut", "locked", "done"}
  <2>1. CASE ShutdownSignals \/ Shutdown
    BY <2>1 DEF ShutdownSignals, Shutdown, ShutdownRunsPending, ShutdownLocks, FlushThenSnapshot
  <2>2. CASE stop' = stop
    BY <1>0, <2>2 DEF TasksTyped
  <2> QED
    BY <2>1, <2>2
    DEF Next, Publish, Put, Return, Release, Unwind, Encode, Ingest, TurnRotates, HookOffers,
        HookParks, TurnFolds, SweepDrains, Tick, BarrierTask, TimerOpens, TimerDrains,
        TimerOffers, TimerParks, TakePending, Decide, Install, Stamp, InvalidatePending,
        ShutdownCutPanics, Settle, vars, ingestVars, cadenceVars, barrierVars, durableVars,
        taskVars
<1>7. published' \in BOOLEAN /\ sweeping' \in BOOLEAN
  BY <1>0
  DEF TasksTyped,
      Next, Publish, Put, Return, Release, Unwind, Encode, Ingest, TurnRotates, HookOffers,
      HookParks, TurnFolds, SweepDrains, Tick, BarrierTask, TimerOpens, TimerDrains, TimerOffers,
      TimerParks, TakePending, Decide, Install, Stamp, InvalidatePending, ShutdownCutPanics,
      Settle, ShutdownSignals, Shutdown, ShutdownRunsPending, ShutdownLocks, FlushThenSnapshot,
      vars, ingestVars, cadenceVars, barrierVars, durableVars, taskVars
<1> QED
  BY <1>1, <1>2, <1>3, <1>4, <1>5, <1>6, <1>7 DEF TasksTyped

LEMMA TypeStep == TypeOK /\ TurnHasFrame /\ [Next]_vars => TypeOK' /\ TurnHasFrame'
<1>1. TypeOK' <=> BatchesTyped' /\ CutsTyped' /\ CadenceTyped' /\ TasksTyped'
  BY DEF TypeOK, BatchesTyped, CutsTyped, CadenceTyped, TasksTyped, BatchType, CutType, SettlementType
<1> QED
  BY <1>1, BatchesTypedStep, CutsTypedStep, CadenceTypedStep, TasksTypedStep
-----------------------------------------------------------------------------
(* What only grows, and what only falls.                                   *)
LEMMA Monotone ==
  ASSUME TypeOK, [Next]_vars
  PROVE  /\ Reserved' = Reserved /\ next <= next' /\ failed' <= failed
         /\ store \subseteq store' /\ acked \subseteq acked'
         /\ \A f \in acked' : f \in acked \/ f = frame + 1
         /\ next' \in Nat /\ failed' \in Nat
<1>1. Reserved' = Reserved
  BY SiteFixed DEF Reserved
<1>2. next <= next' /\ failed' <= failed
  <2>1. CASE TurnRotates \/ TimerOpens
    BY <2>1, Numbers DEF TurnRotates, TimerOpens, OpenCut, Lowest
  <2>2. ASSUME NEW b \in batches, Unwind(b) PROVE next' = next /\ failed' <= failed
    <3>1. PICK B \in SUBSET batches : failed' \in Reported(B)
      BY <2>2 DEF Unwind, At
    <3> QED
      BY <2>2, <3>1 DEF Unwind, Reported
  <2>3. CASE InvalidatePending \/ ShutdownCutPanics
    BY <2>3, Numbers DEF InvalidatePending, ShutdownCutPanics, Lowest
  <2>4. CASE UNCHANGED <<next, failed>>
    BY <2>4, Numbers
  <2>5. \/ TurnRotates \/ TimerOpens \/ InvalidatePending \/ ShutdownCutPanics
        \/ UNCHANGED <<next, failed>>
        \/ \E b \in batches : Unwind(b)
    BY DEF Next, At, Publish, Put, Return, Release, Encode, Ingest, HookOffers, HookParks,
           TurnFolds, SweepDrains, Tick, BarrierTask, TimerDrains, TimerOffers, TimerParks,
           TakePending, Decide, Install, Stamp, Settle, ShutdownSignals, Shutdown,
           ShutdownRunsPending, ShutdownLocks, FlushThenSnapshot, vars, ingestVars, cadenceVars,
           barrierVars, durableVars, taskVars
  <2> QED
    BY <2>1, <2>2, <2>3, <2>4, <2>5, Numbers
<1>3. store \subseteq store'
  BY DEF Next, Publish, Put, Return, Release, Unwind, Encode, Ingest, TurnRotates, HookOffers,
         HookParks, TurnFolds, SweepDrains, Tick, BarrierTask, TimerOpens, TimerDrains,
         TimerOffers, TimerParks, TakePending, Decide, Install, Stamp, InvalidatePending,
         ShutdownCutPanics, Settle, ShutdownSignals, Shutdown, ShutdownRunsPending,
         ShutdownLocks, FlushThenSnapshot, vars, ingestVars, cadenceVars, barrierVars,
         durableVars, taskVars
<1>4. acked \subseteq acked' /\ \A f \in acked' : f \in acked \/ f = frame + 1
  BY DEF Next, Publish, Put, Return, Release, Unwind, Encode, Ingest, TurnRotates, HookOffers,
         HookParks, TurnFolds, SweepDrains, Tick, BarrierTask, TimerOpens, TimerDrains,
         TimerOffers, TimerParks, TakePending, Decide, Install, Stamp, InvalidatePending,
         ShutdownCutPanics, Settle, ShutdownSignals, Shutdown, ShutdownRunsPending,
         ShutdownLocks, FlushThenSnapshot, vars, ingestVars, cadenceVars, barrierVars,
         durableVars, taskVars
<1>5. next' \in Nat /\ failed' \in Nat
  BY <1>1, Numbers, CadenceTypedStep DEF CadenceTyped, Epoch
<1> QED
  BY <1>1, <1>2, <1>3, <1>4, <1>5

(* Only an unwind loses a record.                                          *)
LEMMA LocatedStays ==
  ASSUME TypeOK, Located, [Next]_vars, \A b \in batches : ~Unwind(b)
  PROVE  Located'
<1> DEFINE In(f, S, U, B) == f \in S \/ f \in U \/ \E b \in B : f \in b.recs
<1> SUFFICES ASSUME NEW f \in acked' PROVE In(f, store', buffer', batches')
  BY DEF Located
<1>1. f \in acked => In(f, store, buffer, batches)
  BY DEF Located
<1>2. \A b \in batches : b \in BatchType
  BY TypeParts DEF BatchesTyped
<1>3. ASSUME NEW b \in batches, NEW R PROVE [b EXCEPT !.recs = R].recs = R
  BY <1>2 DEF BatchType
<1>4. ASSUME NEW R, NEW e, NEW q PROVE Batch(R, e, q).recs = R
  BY DEF Batch
<1> USE DEF ingestVars, durableVars
<1>5. ASSUME NEW b \in batches, NEW r \in b.recs, Put(b, r) PROVE In(f, store', buffer', batches')
  <2>1. /\ store' = store \cup {r} /\ buffer' = buffer /\ acked' = acked
        /\ batches' = (batches \ {b}) \cup {[b EXCEPT !.recs = b.recs \ {r}]}
    BY <1>5 DEF Put
  <2>2. [b EXCEPT !.recs = b.recs \ {r}].recs = b.recs \ {r}
    BY <1>3, <1>5
  <2> QED
    BY <1>1, <2>1, <2>2
<1>6. ASSUME NEW b \in batches, Return(b) PROVE In(f, store', buffer', batches')
  BY <1>1, <1>6 DEF Return
<1>7. ASSUME NEW b \in batches, Release(b) PROVE In(f, store', buffer', batches')
  BY <1>1, <1>7 DEF Release, MayRelease
<1>8. ASSUME NEW b \in batches, Encode(b) PROVE In(f, store', buffer', batches')
  <2>1. PICK D \in SUBSET (buffer \cup b.recs) :
          /\ buffer' = (buffer \cup b.recs) \ D
          /\ batches' = (batches \ {b}) \cup (IF D = {} THEN {} ELSE {Batch(D, b.epoch, "lane")})
    BY <1>8 DEF Encode
  <2>2. acked' = acked /\ store' = store /\ Batch(D, b.epoch, "lane").recs = D
    BY <1>4, <1>8 DEF Encode
  <2> QED
    BY <1>1, <2>1, <2>2
<1>9. CASE TurnRotates
  <2>1. /\ batches' = batches \cup {Batch(buffer, next, "hook")} /\ acked' = acked /\ store' = store
        /\ Batch(buffer, next, "hook").recs = buffer
    BY <1>4, <1>9 DEF TurnRotates
  <2> QED
    BY <1>1, <2>1
<1>10. CASE TurnFolds
  <2>1. Batch({frame + 1}, next, "encode").recs = {frame + 1}
    BY <1>4
  <2> QED
    BY <1>1, <1>10, <2>1 DEF TurnFolds
<1>11. ASSUME NEW D \in SUBSET buffer, SweepDrains(D) PROVE In(f, store', buffer', batches')
  <2>1. Batch(D, next, "sweep").recs = D
    BY <1>4
  <2> QED
    BY <1>1, <1>11, <2>1 DEF SweepDrains
<1>12. CASE TimerDrains
  <2>1. Batch(buffer, next, "timer").recs = buffer
    BY <1>4
  <2> QED
    BY <1>1, <1>12, <2>1 DEF TimerDrains
<1>13. CASE HookOffers \/ TimerOffers \/ TakePending \/ InvalidatePending
  <2>1. /\ \/ batches' = Move("hook", "slot") \/ batches' = Move("timer", "slot")
           \/ batches' = Move("slot", "park") \/ batches' = Move("slot", "run") \/ batches' = batches
        /\ buffer' = buffer /\ store' = store /\ acked' = acked
    BY <1>13 DEF HookOffers, TimerOffers, TakePending, InvalidatePending, PlaceCut, Discarded
  <2>2. \A p, q \in Places : \A b \in batches : \E c \in Move(p, q) : c.recs = b.recs
    BY MoveEffects
  <2> QED
    BY <1>1, <2>1, <2>2 DEF Places
<1>14. CASE FlushThenSnapshot
  BY <1>1, <1>14 DEF FlushThenSnapshot
<1>15. CASE UNCHANGED <<acked, store, buffer, batches>>
  BY <1>1, <1>15
<1> QED
  BY <1>5, <1>6, <1>7, <1>8, <1>9, <1>10, <1>11, <1>12, <1>13, <1>14, <1>15
  DEF Next, Publish, At, Ingest, BarrierTask, Shutdown, HookParks, Tick, TimerOpens, TimerParks,
      Decide, Install, Stamp, ShutdownCutPanics, Settle, ShutdownSignals, ShutdownRunsPending,
      ShutdownLocks, vars, taskVars

LEMMA RecordsStep ==
  TypeOK /\ TurnInv /\ RecordsAreAccountedFor /\ [Next]_vars => RecordsAreAccountedFor'
<1> SUFFICES ASSUME TypeOK, TurnInv, RecordsAreAccountedFor, [Next]_vars, failed' > next' PROVE Located'
  BY DEF RecordsAreAccountedFor, Located
<1>1. ASSUME NEW b \in batches, Unwind(b) PROVE FALSE
  <2>1. failed' <= b.epoch /\ next' = next
    BY <1>1 DEF Unwind, Reported, At, cadenceVars
  <2> QED
    BY <1>1, <2>1, Numbers, Monotone DEF TurnInv
<1>2. failed > next
  BY Monotone, Numbers
<1> QED
  BY <1>1, <1>2, LocatedStays DEF RecordsAreAccountedFor, Located
-----------------------------------------------------------------------------
(* Which actions write a variable.                                         *)
LEMMA Writers ==
  ASSUME [Next]_vars
  PROVE  /\ \/ UNCHANGED <<turn, hook>>
            \/ TurnRotates \/ HookOffers \/ HookParks \/ TurnFolds \/ \E b \in batches : Unwind(b)
         /\ \/ UNCHANGED pending
            \/ HookOffers \/ TimerOffers \/ TakePending \/ InvalidatePending
         /\ \/ UNCHANGED <<phase, run>>
            \/ Tick \/ BarrierTask \/ ShutdownRunsPending \/ \E b \in batches : Unwind(b)
         /\ \/ UNCHANGED next
            \/ TurnRotates \/ TimerOpens
         /\ \/ UNCHANGED <<frame, acked, last_durable>>
            \/ TurnFolds
<1>1. \/ UNCHANGED <<turn, hook>>
      \/ TurnRotates \/ HookOffers \/ HookParks \/ TurnFolds \/ \E b \in batches : Unwind(b)
  BY DEF Next, At, Publish, Put, Return, Release, Encode, Ingest, SweepDrains, Tick, BarrierTask,
         TimerOpens, TimerDrains, TimerOffers, TimerParks, TakePending, Decide, Install, Stamp,
         InvalidatePending, ShutdownCutPanics, Settle, ShutdownSignals, Shutdown,
         ShutdownRunsPending, ShutdownLocks, FlushThenSnapshot, vars, ingestVars, cadenceVars,
         barrierVars, durableVars, taskVars
<1>2. UNCHANGED pending \/ HookOffers \/ TimerOffers \/ TakePending \/ InvalidatePending
  BY DEF Next, At, Publish, Put, Return, Release, Unwind, Encode, Ingest, TurnRotates, HookParks,
         TurnFolds, SweepDrains, Tick, BarrierTask, TimerOpens, TimerDrains, TimerParks, Decide,
         Install, Stamp, ShutdownCutPanics, Settle, ShutdownSignals, Shutdown,
         ShutdownRunsPending, ShutdownLocks, FlushThenSnapshot, vars, ingestVars, cadenceVars,
         barrierVars, durableVars, taskVars
<1>3. \/ UNCHANGED <<phase, run>>
      \/ Tick \/ BarrierTask \/ ShutdownRunsPending \/ \E b \in batches : Unwind(b)
  BY DEF Next, At, Publish, Put, Return, Release, Encode, Ingest, TurnRotates, HookOffers,
         HookParks, TurnFolds, SweepDrains, ShutdownSignals, Shutdown, ShutdownLocks,
         FlushThenSnapshot, vars, ingestVars, cadenceVars, barrierVars, durableVars, taskVars
<1>4. UNCHANGED next \/ TurnRotates \/ TimerOpens
  BY DEF Next, At, Publish, Put, Return, Release, Unwind, Encode, Ingest, HookOffers, HookParks,
         TurnFolds, SweepDrains, Tick, BarrierTask, TimerDrains, TimerOffers, TimerParks,
         TakePending, Decide, Install, Stamp, InvalidatePending, ShutdownCutPanics, Settle,
         ShutdownSignals, Shutdown, ShutdownRunsPending, ShutdownLocks, FlushThenSnapshot, vars,
         ingestVars, cadenceVars, barrierVars, durableVars, taskVars
<1>5. UNCHANGED <<frame, acked, last_durable>> \/ TurnFolds
  BY DEF Next, At, Publish, Put, Return, Release, Unwind, Encode, Ingest, TurnRotates,
         HookOffers, HookParks, SweepDrains, Tick, BarrierTask, TimerOpens, TimerDrains,
         TimerOffers, TimerParks, TakePending, Decide, Install, Stamp, InvalidatePending,
         ShutdownCutPanics, Settle, ShutdownSignals, Shutdown, ShutdownRunsPending,
         ShutdownLocks, FlushThenSnapshot, vars, ingestVars, cadenceVars, barrierVars,
         durableVars, taskVars
<1> QED
  BY <1>1, <1>2, <1>3, <1>4, <1>5

(* Where a batch comes from: an older one with its epoch, or the counter.  *)
Moved(b, c) ==
  \/ c.at = b.at /\ (b.at = "hook" /\ turn = "rotated" => c = b)
  \/ b.at = "hook" /\ turn = "rotated" /\ turn' = "mine" /\ c.at \in {"slot", "park"}
  \/ b.at = "timer" /\ c.at = "slot" /\ TimerOffers
  \/ b.at = "slot" /\ c.at \in {"park", "run"}
  \/ b.at = "encode" /\ c.at = "lane"

Registered(c) ==
  \/ c.at = "hook" /\ TurnRotates
  \/ c.at = "encode" /\ TurnFolds
  \/ c.at = "sweep" /\ ~Excluded /\ turn = "idle" /\ turn' = "idle"
  \/ c.at = "timer" /\ TimerDrains

LEMMA BatchOrigin ==
  ASSUME TypeOK, [Next]_vars, NEW c \in batches'
  PROVE  \/ \E b \in batches : c.epoch = b.epoch /\ Moved(b, c)
         \/ c.epoch = next /\ Registered(c)
<1> DEFINE Goal == \/ \E b \in batches : c.epoch = b.epoch /\ Moved(b, c)
                   \/ c.epoch = next /\ Registered(c)
<1> SUFFICES Goal
  OBVIOUS
<1>0. batches \subseteq BatchType
  BY TypeParts DEF BatchesTyped
<1>1. CASE c \in batches
  BY <1>1 DEF Moved
<1>2. ASSUME NEW b \in batches, NEW R, c = [b EXCEPT !.recs = R], ~(b.at = "hook" /\ turn = "rotated") PROVE Goal
  <2>1. c.epoch = b.epoch /\ c.at = b.at
    BY <1>0, <1>2 DEF BatchType
  <2> QED
    BY <1>2, <2>1 DEF Moved
<1>3. ASSUME NEW b \in batches, NEW r \in b.recs, Put(b, r) PROVE Goal
  BY <1>1, <1>2, <1>3 DEF Put, CanPut
<1>4. ASSUME NEW b \in batches, Return(b) \/ Release(b) PROVE Goal
  BY <1>1, <1>2, <1>4 DEF Return, Release, CanReturn, CanPut
<1>5. ASSUME NEW b \in batches, Unwind(b) PROVE Goal
  <2>1. CASE c \notin batches
    <3>1. PICK a \in batches : /\ c = [a EXCEPT !.recs = {}, !.at = IF @ = "hook" THEN "park" ELSE @]
                               /\ a = b \/ (b.at = "run" /\ a.at = "run")
      BY <1>5, <2>1 DEF Unwind, At
    <3>2. c.epoch = a.epoch /\ c.at = IF a.at = "hook" THEN "park" ELSE a.at
      BY <1>0, <3>1 DEF BatchType
    <3>3. a.at = "hook" => turn = "rotated" /\ turn' = "mine"
      BY <1>5, <3>1 DEF Unwind, CanUnwind, CanPut
    <3> QED
      BY <3>1, <3>2, <3>3 DEF Moved
  <2> QED
    BY <1>1, <2>1
<1>6. ASSUME NEW b \in batches, Encode(b) PROVE Goal
  <2>1. CASE c \notin batches
    <3>1. c.epoch = b.epoch /\ c.at = "lane" /\ b.at = "encode"
      BY <1>6, <2>1 DEF Encode, Batch
    <3> QED
      BY <1>6, <3>1 DEF Moved
  <2> QED
    BY <1>1, <2>1
<1>7. CASE TurnRotates
  <2>1. c \in batches \/ (c.epoch = next /\ c.at = "hook")
    BY <1>7 DEF TurnRotates, Batch
  <2> QED
    BY <1>1, <1>7, <2>1 DEF Registered
<1>8. CASE TurnFolds
  <2>1. c \in batches \/ (c.epoch = next /\ c.at = "encode")
    BY <1>8 DEF TurnFolds, Batch
  <2> QED
    BY <1>1, <1>8, <2>1 DEF Registered
<1>9. ASSUME NEW D \in SUBSET buffer, SweepDrains(D) PROVE Goal
  <2>1. c \in batches \/ (c.epoch = next /\ c.at = "sweep")
    BY <1>9 DEF SweepDrains, Batch
  <2> QED
    BY <1>1, <1>9, <2>1 DEF Registered, SweepDrains, ingestVars
<1>10. CASE TimerDrains
  <2>1. c \in batches \/ (c.epoch = next /\ c.at = "timer")
    BY <1>10 DEF TimerDrains, Batch
  <2> QED
    BY <1>1, <1>10, <2>1 DEF Registered
<1>11. ASSUME NEW p \in Places, NEW q \in Places, batches' = Move(p, q),
              \/ p = "hook" /\ q = "slot" /\ HookOffers
              \/ p = "timer" /\ q = "slot" /\ TimerOffers
              \/ p = "slot" /\ q \in {"park", "run"}
       PROVE  Goal
  <2>1. PICK b \in batches : c.epoch = b.epoch /\ IF b.at = p THEN c.at = q ELSE c = b
    BY <1>11, MoveEffects
  <2> QED
    BY <1>1, <1>11, <2>1 DEF Moved, HookOffers
<1>12. CASE HookOffers \/ TimerOffers \/ TakePending \/ InvalidatePending
  BY <1>1, <1>11, <1>12 DEF HookOffers, TimerOffers, TakePending, InvalidatePending, PlaceCut, Discarded, Places
<1>13. CASE batches' = batches
  BY <1>1, <1>13
<1> QED
  BY <1>3, <1>4, <1>5, <1>6, <1>7, <1>8, <1>9, <1>10, <1>12, <1>13
  DEF Next, Publish, At, Ingest, BarrierTask, Shutdown, HookParks, Tick, TimerOpens, TimerParks,
      Decide, Install, Stamp, ShutdownCutPanics, Settle, ShutdownSignals, ShutdownRunsPending,
      ShutdownLocks, FlushThenSnapshot, vars

(* What each write of the turn and of the barrier's phase says of the      *)
(* values it leaves.                                                       *)
LEMMA TurnWrites ==
  ASSUME [Next]_vars, UNCHANGED <<turn, hook>> => FALSE
  PROVE  \/ /\ TurnRotates /\ turn = "idle" /\ turn' = "rotated" /\ ~Excluded /\ UNCHANGED <<pending, phase, run>>
            /\ hook'.epoch = next /\ hook'.mark = last_durable
         \/ /\ HookOffers /\ turn = "rotated" /\ turn' = "mine" /\ UNCHANGED <<phase, run, next, failed>>
            /\ batches' = Move("hook", "slot")
         \/ /\ HookParks /\ turn = "rotated" /\ turn' = "parking"
            /\ UNCHANGED <<pending, phase, run, next, batches>>
         \/ /\ HookParks /\ turn = "parking" /\ turn' = "mine" /\ At("hook") = {}
            /\ UNCHANGED <<pending, phase, run, next, batches>>
         \/ /\ TurnFolds /\ turn \in {"mine", "idle"} /\ turn' = "idle"
            /\ UNCHANGED <<pending, phase, run, next>>
         \/ \E b \in batches :
              Unwind(b) /\ b.at = "hook" /\ turn = "rotated" /\ turn' = "mine" /\ UNCHANGED <<pending, run, phase, next>>
<1>1. TurnRotates \/ HookOffers \/ HookParks \/ TurnFolds \/ \E b \in batches : Unwind(b)
  BY Writers
<1>2. ASSUME NEW b \in batches, Unwind(b)
      PROVE  b.at = "hook" /\ turn = "rotated" /\ turn' = "mine" /\ UNCHANGED <<pending, run, phase, next>>
  BY <1>2 DEF Unwind, CanUnwind, CanPut
<1> USE DEF barrierVars, cadenceVars
<1>3. CASE TurnRotates
  BY <1>3 DEF TurnRotates, TurnMayRun, Cut
<1>4. CASE HookOffers
  BY <1>4 DEF HookOffers, PlaceCut
<1>5. CASE HookParks
  BY <1>5 DEF HookParks
<1>6. CASE TurnFolds
  BY <1>6 DEF TurnFolds
<1> QED
  BY <1>1, <1>2, <1>3, <1>4, <1>5, <1>6

LEMMA TurnStep ==
  TypeOK /\ TurnInv /\ CutInv /\ [Next]_vars => TurnInv'
<1> SUFFICES ASSUME TypeOK, TurnInv, CutInv, [Next]_vars PROVE TurnInv'
  OBVIOUS
<1>0. /\ acked \subseteq 1..last_durable /\ last_durable <= frame
      /\ \A b \in batches : b.epoch <= next
      /\ turn # "idle" => ~Excluded
      /\ turn \in {"idle", "mine"} => At("hook") = {}
      /\ turn = "rotated" => \A b \in batches : b.epoch <= hook.epoch
      /\ turn = "rotated" => \A b, c \in At("hook") : b = c
      /\ pending # NoCut /\ ~Refuses(pending.epoch) => \A b \in At("hook") : b.epoch > pending.epoch
      /\ phase = "write" => run.epoch < next /\ \A b \in At("slot") \cup At("hook") : b.epoch > run.epoch
  BY DEF TurnInv
<1>1. /\ next <= next' /\ failed' <= failed /\ Reserved' = Reserved /\ NoCut' = NoCut
      /\ next' \in Nat /\ failed' \in Nat
  BY Monotone DEF NoCut
<1>2. pending # NoCut => pending.epoch < next \/ (pending.epoch = next /\ Refuses(next))
  BY DEF CutInv, Live, CutOk, Before, Places
<1>3. acked' \subseteq 1..last_durable' /\ last_durable' <= frame'
  <2>1. CASE TurnFolds
    <3>1. 1..last_durable \subseteq 1..(frame + 1) /\ frame + 1 \in 1..(frame + 1)
      BY <1>0, Numbers
    <3>2. CASE acked' = acked \cup {frame + 1} /\ last_durable' = frame + 1
      <4>1. frame' = frame + 1 /\ last_durable' = frame'
        BY <2>1, <3>2 DEF TurnFolds
      <4>2. acked' \subseteq 1..last_durable'
        BY <1>0, <3>1, <3>2
      <4> QED
        BY <4>1, <4>2, Numbers
    <3>3. CASE acked' = acked /\ last_durable' = last_durable
      BY <1>0, <2>1, <3>3, Numbers DEF TurnFolds
    <3> QED
      BY <2>1, <3>2, <3>3 DEF TurnFolds
  <2> QED
    BY <1>0, <2>1, Writers
<1>4. ASSUME NEW c \in batches' PROVE c.epoch <= next'
  BY <1>0, <1>1, <1>4, BatchOrigin, Numbers
<1>5. turn' # "idle" => ~Excluded'
  <2>1. Excluded' => Excluded \/ TimerOpens
    <3>1. CASE UNCHANGED <<phase, run>>
      BY <3>1 DEF Excluded
    <3>2. CASE Tick \/ ShutdownRunsPending
      BY <3>2 DEF Tick, ShutdownRunsPending, Excluded, ShutdownCut
    <3>3. ASSUME NEW b \in batches, Unwind(b) PROVE Excluded' => Excluded
      BY <3>3 DEF Unwind, Excluded
    <3>4. CASE BarrierTask
      BY <3>4 DEF Excluded, BarrierTask, TimerOpens, TimerDrains, TimerOffers, TimerParks, TakePending,
                      Decide, Install, Stamp, InvalidatePending, ShutdownCutPanics, Settle
    <3> QED
      BY <3>1, <3>2, <3>3, <3>4, Writers
  <2>2. TimerOpens => turn' = "idle"
    BY DEF TimerOpens, MayCapture, ingestVars
  <2>3. CASE UNCHANGED <<turn, hook>>
    BY <1>0, <2>1, <2>2, <2>3
  <2>4. CASE ~UNCHANGED <<turn, hook>>
    BY <1>0, <2>4, TurnWrites DEF Excluded
  <2> QED
    BY <2>3, <2>4
<1>6. ASSUME NEW c \in batches', c.at = "hook"
      PROVE  \/ TurnRotates /\ c.epoch = next
             \/ \E b \in batches : b.at = "hook" /\ c.epoch = b.epoch /\ (turn = "rotated" => c = b)
  BY <1>6, BatchOrigin DEF Moved, Registered
<1>7. turn' \in {"idle", "mine"} => At("hook")' = {}
  <2> SUFFICES ASSUME turn' \in {"idle", "mine"}, NEW c \in batches', c.at = "hook" PROVE FALSE
    BY DEF At
  <2>1. CASE UNCHANGED <<turn, hook>>
    BY <1>0, <1>6, <2>1 DEF At, TurnRotates
  <2>2. CASE HookOffers
    <3>1. batches' = Move("hook", "slot")
      BY <2>2 DEF HookOffers, PlaceCut
    <3> QED
      BY <3>1, MoveEffects DEF Places
  <2>3. ASSUME NEW b \in batches, Unwind(b), b.at = "hook", turn = "rotated" PROVE FALSE
    <3>1. PICK a \in batches : a.at = "hook" /\ c = a
      BY <1>6, <2>3 DEF TurnRotates
    <3>2. a = b
      BY <1>0, <2>3, <3>1 DEF At
    <3>3. c # b
      <4>1. batches' = (batches \ {b}) \cup {[b EXCEPT !.recs = {}, !.at = "park"]}
        BY <2>3 DEF Unwind
      <4>2. [b EXCEPT !.recs = {}, !.at = "park"].at = "park"
        BY <2>3, TypeParts DEF BatchesTyped, BatchType
      <4> QED
        BY <2>3, <4>1, <4>2
    <3> QED
      BY <3>1, <3>2, <3>3
  <2>4. ~TurnRotates
    BY DEF TurnRotates
  <2>5. PICK b \in batches : b.at = "hook"
    BY <1>6, <2>4
  <2>6. CASE batches' = batches /\ At("hook") = {}
    BY <2>5, <2>6 DEF At
  <2>7. CASE turn \in {"mine", "idle"}
    BY <1>0, <2>5, <2>7 DEF At
  <2> QED
    BY <2>1, <2>2, <2>3, <2>4, <2>6, <2>7, TurnWrites
<1>8. ASSUME turn' = "rotated", NEW c \in batches' PROVE c.epoch <= hook'.epoch
  <2>1. CASE TurnRotates
    <3>1. c \in batches \/ c.epoch = next
      BY <1>8, <2>1 DEF TurnRotates, Batch
    <3> QED
      BY <1>0, <2>1, <3>1, Numbers DEF TurnRotates, Cut
  <2>2. CASE UNCHANGED <<turn, hook>>
    <3>1. ~Registered(c)
      BY <1>0, <1>8, <2>2 DEF Registered, TurnRotates, TurnFolds, TimerDrains, Excluded
    <3> QED
      BY <1>0, <1>8, <2>2, <3>1, BatchOrigin
  <2> QED
    BY <1>8, <2>1, <2>2, TurnWrites
<1>9. ASSUME turn' = "rotated", NEW b \in batches', NEW c \in batches', b.at = "hook", c.at = "hook" PROVE b = c
  <2>1. CASE TurnRotates
    <3>1. At("hook") = {} /\ batches' = batches \cup {Batch(buffer, next, "hook")}
      BY <1>0, <2>1 DEF TurnRotates
    <3> QED
      BY <1>9, <3>1 DEF At
  <2>2. CASE UNCHANGED <<turn, hook>>
    BY <1>0, <1>6, <1>9, <2>2 DEF TurnRotates, At
  <2> QED
    BY <1>9, <2>1, <2>2, TurnWrites
<1>10. ASSUME pending' # NoCut', ~(failed' <= pending'.epoch), NEW c \in batches', c.at = "hook"
       PROVE  c.epoch > pending'.epoch
  <2>1. CASE UNCHANGED pending
    <3>1. ~Refuses(pending.epoch)
      BY <1>1, <1>10, <2>1, Numbers DEF Refuses
    <3>2. c.epoch = next => c.epoch > pending.epoch
      BY <1>1, <1>2, <1>10, <2>1, <3>1, Numbers DEF Refuses
    <3> QED
      BY <1>0, <1>1, <1>6, <1>10, <2>1, <3>1, <3>2 DEF At
  <2>2. CASE HookOffers
    <3>1. turn' = "mine"
      BY <2>2 DEF HookOffers
    <3> QED
      BY <1>7, <1>10, <3>1 DEF At
  <2>3. CASE TimerOffers
    <3>1. turn' = "idle"
      BY <1>0, <2>3, TypeParts DEF TimerOffers, Excluded, ingestVars, TasksTyped
    <3> QED
      BY <1>7, <1>10, <3>1 DEF At
  <2>4. CASE TakePending \/ InvalidatePending
    BY <1>1, <1>10, <2>4 DEF TakePending, InvalidatePending
  <2> QED
    BY <2>1, <2>2, <2>3, <2>4, Writers
<1>11. ASSUME phase' = "write"
       PROVE  run'.epoch < next' /\ \A c \in batches' : c.at \in {"slot", "hook"} => c.epoch > run'.epoch
  <2>1. CASE UNCHANGED <<phase, run>>
    <3>1. ASSUME NEW c \in batches', c.at \in {"slot", "hook"} PROVE c.epoch > run'.epoch
      <4>1. \/ \E b \in batches : c.epoch = b.epoch /\ b.at \in {"slot", "hook"}
            \/ c.epoch = next
        BY <1>11, <2>1, <3>1, BatchOrigin DEF Moved, Registered, TimerOffers
      <4> QED
        BY <1>0, <1>11, <2>1, <4>1 DEF At
    <3> QED
      BY <1>0, <1>1, <1>11, <2>1, <3>1, Numbers
  <2>2. CASE TakePending
    <3>1. /\ pending # NoCut /\ ~Refuses(pending.epoch) /\ batches' = Move("slot", "run")
          /\ run' = pending /\ next' = next
      BY <1>11, <2>2 DEF TakePending, cadenceVars
    <3>2. pending.epoch < next
      BY <1>2, <3>1, Numbers DEF Refuses
    <3>3. ASSUME NEW c \in batches', c.at \in {"slot", "hook"} PROVE c.epoch > pending.epoch
      <4>1. PICK b \in batches : c.epoch = b.epoch /\ IF b.at = "slot" THEN c.at = "run" ELSE c = b
        BY <3>1, <3>3, MoveEffects DEF Places
      <4>2. b.at = "hook"
        BY <3>3, <4>1
      <4> QED
        BY <1>0, <3>1, <4>1, <4>2 DEF At
    <3> QED
      BY <3>1, <3>2, <3>3
  <2>3. ASSUME NEW b \in batches, Unwind(b) PROVE UNCHANGED <<phase, run>>
    BY <1>11, <2>3 DEF Unwind
  <2>4. CASE Tick \/ ShutdownRunsPending
    BY <1>11, <2>4 DEF Tick, ShutdownRunsPending, ShutdownCut
  <2>5. CASE BarrierTask /\ ~TakePending
    BY <1>11, <2>5 DEF BarrierTask, TimerOpens, TimerDrains, TimerOffers, TimerParks, Decide,
                         Install, Stamp, InvalidatePending, ShutdownCutPanics, Settle
  <2> QED
    BY <2>1, <2>2, <2>3, <2>4, <2>5, Writers
<1>12. \A c \in At("hook")' : c \in batches' /\ c.at = "hook"
  BY DEF At
<1>13. \A c \in (At("slot") \cup At("hook"))' : c \in batches' /\ c.at \in {"slot", "hook"}
  BY DEF At
<1> QED
  BY <1>3, <1>4, <1>5, <1>7, <1>8, <1>9, <1>10, <1>11, <1>12, <1>13 DEF TurnInv, Refuses

LEMMA Refusals ==
  ASSUME TypeOK, [Next]_vars, NEW e \in Nat, Refuses(e) PROVE failed' <= e
  BY Monotone, Numbers DEF Refuses

LEMMA LatchStep ==
  TypeOK /\ TurnInv /\ LatchInv /\ CutInv /\ [Next]_vars => LatchInv'
<1> SUFFICES ASSUME TypeOK, TurnInv, LatchInv, CutInv, [Next]_vars PROVE LatchInv'
  OBVIOUS
<1>0. /\ failed <= next \/ failed = Reserved
      /\ tickEpoch <= next
      /\ turn = "rotated" => failed <= hook.epoch \/ failed = Reserved
      /\ phase \in {"panicked", "latched", "parkLatched"} =>
           failed <= next /\ (turn = "rotated" => failed <= hook.epoch)
      /\ phase = "parkLatched" /\ pending # NoCut => failed <= pending.epoch
  BY DEF LatchInv, Refuses
<1>1. /\ next <= next' /\ failed' <= failed /\ Reserved' = Reserved /\ NoCut' = NoCut
      /\ next' \in Nat /\ failed' \in Nat
  BY Monotone DEF NoCut
<1>2. /\ \A b \in batches : b.epoch <= next
      /\ turn = "rotated" => \A b \in batches : b.epoch <= hook.epoch
  BY DEF TurnInv
<1>3. ASSUME NEW b \in batches, Unwind(b)
      PROVE  failed' <= b.epoch /\ failed' <= next' /\ (turn = "rotated" => failed' <= hook.epoch)
  <2>1. failed' <= b.epoch /\ next' = next
    BY <1>3 DEF Unwind, Reported, At
  <2> QED
    BY <1>1, <1>2, <1>3, <2>1, Numbers
<1>4. failed' <= next' \/ failed' = Reserved'
  <2>1. CASE UNCHANGED failed
    BY <1>0, <1>1, <2>1, Numbers
  <2>2. CASE TurnRotates \/ TimerOpens
    BY <1>0, <1>1, <2>2, Numbers DEF TurnRotates, TimerOpens, OpenCut, Lowest
  <2>3. CASE InvalidatePending \/ ShutdownCutPanics
    BY <1>0, <1>1, <2>3, Numbers DEF InvalidatePending, ShutdownCutPanics, Lowest
  <2> QED
    BY <1>3, <2>1, <2>2, <2>3
    DEF Next, At, Publish, Put, Return, Release, Encode, Ingest, HookOffers, HookParks,
        TurnFolds, SweepDrains, Tick, BarrierTask, TimerDrains, TimerOffers, TimerParks,
        TakePending, Decide, Install, Stamp, Settle, ShutdownSignals, Shutdown,
        ShutdownRunsPending, ShutdownLocks, FlushThenSnapshot, vars, ingestVars, cadenceVars,
        barrierVars, durableVars, taskVars
<1>5. tickEpoch' <= next'
  <2>1. CASE UNCHANGED tickEpoch
    BY <1>0, <1>1, <2>1, Numbers
  <2>2. CASE Tick
    BY <1>1, <2>2, Numbers DEF Tick
  <2>3. CASE Settle
    BY <1>1, <2>3 DEF Settle
  <2> QED
    BY <2>1, <2>2, <2>3
    DEF Next, At, Publish, Put, Return, Release, Unwind, Encode, Ingest, TurnRotates, HookOffers,
        HookParks, TurnFolds, SweepDrains, BarrierTask, TimerOpens, TimerDrains, TimerOffers,
        TimerParks, TakePending, Decide, Install, Stamp, InvalidatePending, ShutdownCutPanics,
        ShutdownSignals, Shutdown, ShutdownRunsPending, ShutdownLocks, FlushThenSnapshot, vars,
        ingestVars, cadenceVars, barrierVars, durableVars, taskVars
<1>6. turn' = "rotated" => failed' <= hook'.epoch \/ failed' = Reserved'
  <2>1. CASE TurnRotates
    BY <1>0, <1>1, <2>1, Numbers DEF TurnRotates, OpenCut, Lowest, Cut
  <2>2. CASE UNCHANGED <<turn, hook>>
    <3>1. CASE UNCHANGED failed
      BY <1>0, <1>1, <2>2, <3>1
    <3>2. CASE turn = "rotated" /\ failed <= hook.epoch
      BY <1>1, <2>2, <3>2, Numbers
    <3>3. CASE phase = "panicked" /\ turn = "rotated"
      BY <1>0, <1>1, <2>2, <3>3, Numbers
    <3>4. failed' = failed \/ TimerOpens \/ InvalidatePending \/ ShutdownCutPanics \/ (\E b \in batches : Unwind(b))
      BY <2>2
      DEF Next, At, Publish, Put, Return, Release, Encode, Ingest, TurnRotates, HookOffers,
          HookParks, TurnFolds, SweepDrains, Tick, BarrierTask, TimerDrains, TimerOffers,
          TimerParks, TakePending, Decide, Install, Stamp, Settle, ShutdownSignals, Shutdown,
          ShutdownRunsPending, ShutdownLocks, FlushThenSnapshot, vars, ingestVars, cadenceVars,
          barrierVars, durableVars, taskVars
    <3>5. TimerOpens => turn = "idle"
      BY DEF TimerOpens, MayCapture
    <3>6. InvalidatePending \/ ShutdownCutPanics => UNCHANGED failed \/ phase = "panicked"
      BY DEF InvalidatePending, ShutdownCutPanics
    <3> QED
      BY <1>0, <1>3, <2>2, <3>1, <3>2, <3>3, <3>4, <3>5, <3>6
  <2> QED
    BY <2>1, <2>2, TurnWrites
<1>7. ASSUME phase' \in {"panicked", "latched", "parkLatched"}
      PROVE  failed' <= next' /\ (turn' = "rotated" => failed' <= hook'.epoch)
  <2>1. CASE phase \in {"panicked", "latched", "parkLatched"}
    BY <1>0, <1>1, <2>1, Numbers, TurnWrites
  <2>2. CASE Tick
    <3>1. /\ failed' = failed /\ next' = next /\ failed <= next /\ turn' = turn /\ hook' = hook
      BY <1>7, <2>2 DEF Tick, Refuses, cadenceVars, ingestVars
    <3> QED
      BY <1>0, <3>1, Numbers
  <2>3. ASSUME NEW b \in batches, Unwind(b)
        PROVE  failed' <= next' /\ (turn' = "rotated" => failed' <= hook'.epoch)
    BY <1>3, <2>3 DEF Unwind
  <2>4. phase' = phase \/ Tick \/ (\E b \in batches : Unwind(b)) \/ phase \in {"panicked", "latched", "parkLatched"}
    BY <1>7, Writers DEF ShutdownRunsPending, ShutdownCut, BarrierTask, TimerOpens, TimerDrains, TimerOffers, TimerParks, TakePending,
                  Decide, Install, Stamp, InvalidatePending, ShutdownCutPanics, Settle
  <2> QED
    BY <1>7, <2>1, <2>2, <2>3, <2>4
<1>8. ASSUME phase' = "parkLatched", pending' # NoCut' PROVE failed' <= pending'.epoch
  <2>1. ~TimerOffers /\ ~TakePending /\ ~InvalidatePending
    BY <1>1, <1>8 DEF TimerOffers, TakePending, InvalidatePending
  <2>2. phase = "parkLatched"
    BY <1>8, <2>1, Writers
    DEF Tick, Unwind, ShutdownRunsPending, ShutdownCut,
        BarrierTask, TimerOpens, TimerDrains, TimerParks, Decide, Install, Stamp,
        ShutdownCutPanics, Settle
  <2>3. CASE HookOffers
    <3>1. turn = "rotated" /\ pending' = IF pending = NoCut THEN hook ELSE Later(hook, pending)
      BY <2>3 DEF HookOffers, PlaceCut
    <3>2. failed' <= hook.epoch /\ (pending # NoCut => failed' <= pending.epoch)
      BY <1>0, <1>1, <2>2, <3>1, Numbers
    <3> QED
      BY <3>1, <3>2 DEF Later, Cut
  <2> QED
    BY <1>0, <1>1, <1>8, <2>1, <2>2, <2>3, Writers, Numbers
<1> QED
  BY <1>4, <1>5, <1>6, <1>7, <1>8 DEF LatchInv, Refuses

LEMMA PhaseWrites ==
  ASSUME TypeOK, [Next]_vars, UNCHANGED <<phase, run>> => FALSE
  PROVE  \/ Tick /\ phase = "idle" /\ phase' \in {"latched", "ticked"} /\ UNCHANGED <<run, pending>>
         \/ TimerOpens /\ phase = "ticked" /\ turn = "idle" /\ phase' = "opened" /\ run'.epoch = next /\ run'.mark = 0 /\ UNCHANGED pending
         \/ TimerDrains /\ phase = "opened" /\ phase' = "drained" /\ run'.epoch = run.epoch /\ run'.mark = last_durable /\ UNCHANGED pending
         \/ TimerOffers /\ phase = "drained" /\ phase' = "take"
         \/ TimerParks /\ phase \in {"drained", "parkback"} /\ phase' \in {"parkback", "take"} /\ UNCHANGED <<run, pending>>
         \/ TakePending /\ phase = "take" /\ phase' \in {"idle", "parkrun", "write"} /\ run' = pending /\ pending' = NoCut
               /\ (phase' # "idle" => pending # NoCut) /\ (phase' = "write" <=> pending # NoCut /\ ~Refuses(pending.epoch))
         \/ Decide /\ phase = "write" /\ phase' \in {"install", "invalidate"} /\ UNCHANGED <<run, pending>>
         \/ Install /\ phase = "install" /\ phase' \in {"stamp", "invalidate"} /\ UNCHANGED <<run, pending>>
         \/ Stamp /\ phase = "stamp" /\ phase' = "settle" /\ UNCHANGED <<run, pending>>
         \/ InvalidatePending /\ phase \in {"parkrun", "invalidate", "latched", "panicked"} /\ phase' \in {"parking", "parkLatched", "parkPanic"}
               /\ (phase' = "parking" => phase \in {"parkrun", "invalidate"}) /\ run' = run /\ pending' = NoCut
         \/ ShutdownCutPanics /\ phase = "panicked" /\ phase' = "idle" /\ UNCHANGED <<run, pending>>
         \/ Settle /\ phase \in {"settle", "parking", "parkLatched", "parkPanic"} /\ phase' = "idle"
         \/ ShutdownRunsPending /\ phase = "idle" /\ phase' = "take" /\ UNCHANGED <<run, pending>>
         \/ (\E b \in batches : Unwind(b)) /\ phase' = "panicked" /\ UNCHANGED <<run, pending>>
<1>1. Tick \/ BarrierTask \/ ShutdownRunsPending \/ \E b \in batches : Unwind(b)
  BY Writers
<1>2. run \in CutType
  BY TypeParts DEF CutsTyped
<1>3. ASSUME NEW b \in batches, Unwind(b) PROVE phase' = "panicked" /\ UNCHANGED <<run, pending>>
  BY <1>3 DEF Unwind
<1> USE DEF barrierVars
<1>4. Tick => phase = "idle" /\ phase' \in {"latched", "ticked"} /\ UNCHANGED <<run, pending>>
  BY DEF Tick
<1>5. TimerOpens => phase = "ticked" /\ turn = "idle" /\ phase' = "opened" /\ run'.epoch = next /\ run'.mark = 0 /\ UNCHANGED pending
  BY DEF TimerOpens, MayCapture, Cut
<1>6. TimerDrains => phase = "opened" /\ phase' = "drained" /\ run'.epoch = run.epoch /\ run'.mark = last_durable /\ UNCHANGED pending
  BY <1>2 DEF TimerDrains, CutType
<1>7. TimerOffers => phase = "drained" /\ phase' = "take"
  BY DEF TimerOffers
<1>8. TimerParks => phase \in {"drained", "parkback"} /\ phase' \in {"parkback", "take"} /\ UNCHANGED <<run, pending>>
  BY DEF TimerParks
<1>9. TakePending => phase = "take" /\ phase' \in {"idle", "parkrun", "write"} /\ run' = pending /\ pending' = NoCut
        /\ (phase' # "idle" => pending # NoCut) /\ (phase' = "write" <=> pending # NoCut /\ ~Refuses(pending.epoch))
  BY DEF TakePending
<1>10. Decide => phase = "write" /\ phase' \in {"install", "invalidate"} /\ UNCHANGED <<run, pending>>
  BY DEF Decide
<1>11. Install => phase = "install" /\ phase' \in {"stamp", "invalidate"} /\ UNCHANGED <<run, pending>>
  BY DEF Install
<1>12. Stamp => phase = "stamp" /\ phase' = "settle" /\ UNCHANGED <<run, pending>>
  BY DEF Stamp
<1>13. InvalidatePending => phase \in {"parkrun", "invalidate", "latched", "panicked"} /\ phase' \in {"parking", "parkLatched", "parkPanic"}
        /\ (phase' = "parking" => phase \in {"parkrun", "invalidate"}) /\ run' = run /\ pending' = NoCut
  BY DEF InvalidatePending
<1>14. ShutdownCutPanics => phase = "panicked" /\ phase' = "idle" /\ UNCHANGED <<run, pending>>
  BY DEF ShutdownCutPanics
<1>15. Settle => phase \in {"settle", "parking", "parkLatched", "parkPanic"} /\ phase' = "idle"
  BY DEF Settle
<1>16. ShutdownRunsPending => phase = "idle" /\ phase' = "take" /\ UNCHANGED <<run, pending>>
  BY DEF ShutdownRunsPending, ShutdownCut
<1> QED
  BY <1>1, <1>3, <1>4, <1>5, <1>6, <1>7, <1>8, <1>9, <1>10, <1>11, <1>12, <1>13, <1>14, <1>15, <1>16 DEF BarrierTask

LEMMA OrderStep ==
  TypeOK /\ TurnInv /\ CutInv /\ OrderInv /\ [Next]_vars => OrderInv'
<1> SUFFICES ASSUME TypeOK, TurnInv, CutInv, OrderInv, [Next]_vars PROVE OrderInv'
  OBVIOUS
<1> DEFINE Pre(c, e, f) == c.epoch < e \/ (c.epoch = e /\ f <= e)
<1>0. /\ phase \in RunPhases => Pre(run, next, failed)
      /\ phase \in RunPhases /\ pending # NoCut => Pre(run, pending.epoch, failed)
      /\ phase \in RunPhases /\ turn = "rotated" => Pre(run, hook.epoch, failed)
      /\ turn = "rotated" /\ pending # NoCut => Pre(pending, hook.epoch, failed) /\ pending.mark <= hook.mark
      /\ phase \in {"opened", "drained"} /\ pending # NoCut => Pre(pending, run.epoch, failed)
      /\ phase = "drained" /\ pending # NoCut => pending.mark <= run.mark
  BY DEF OrderInv, Before, Refuses
<1>1. /\ next <= next' /\ failed' <= failed /\ NoCut' = NoCut /\ next' \in Nat /\ failed' \in Nat
  BY Monotone DEF NoCut
<1>2. pending # NoCut => Pre(pending, next, failed) /\ pending.mark <= last_durable
  BY DEF CutInv, Live, CutOk, Before, Refuses, Places
<1>3. turn # "idle" => phase \notin {"opened", "drained"}
  BY DEF TurnInv, Excluded
<1>4. ASSUME NEW c \in {hook, pending, run}, NEW e \in Nat, Pre(c, e, failed) PROVE Pre(c, e, failed')
  BY <1>1, <1>4, Numbers
<1>5. phase' \in RunPhases => Pre(run', next', failed')
  <2>1. CASE UNCHANGED <<phase, run>>
    BY <1>0, <1>1, <2>1, Numbers
  <2>2. CASE ~UNCHANGED <<phase, run>>
    BY <1>0, <1>1, <1>2, <2>2, PhaseWrites, Numbers DEF RunPhases
  <2> QED
    BY <2>1, <2>2
<1>6. ASSUME pending' # NoCut', phase' \in RunPhases PROVE Pre(run', pending'.epoch, failed')
  <2>1. phase \in RunPhases /\ run' = run
    BY <1>1, <1>6, PhaseWrites DEF RunPhases
  <2>2. CASE UNCHANGED pending
    BY <1>0, <1>1, <1>6, <2>1, <2>2, Numbers
  <2>3. CASE HookOffers
    <3>1. turn = "rotated" /\ pending' = IF pending = NoCut THEN hook ELSE Later(hook, pending)
      BY <2>3 DEF HookOffers, PlaceCut
    <3> QED
      BY <1>0, <1>1, <2>1, <3>1, Numbers DEF Later, Cut
  <2>4. ~TimerOffers /\ ~TakePending /\ ~InvalidatePending
    BY <1>1, <1>6 DEF TimerOffers, TakePending, InvalidatePending, RunPhases
  <2> QED
    BY <2>2, <2>3, <2>4, Writers
<1>7. ASSUME phase' \in RunPhases, turn' = "rotated" PROVE Pre(run', hook'.epoch, failed')
  <2>1. CASE TurnRotates
    BY <1>0, <1>1, <1>7, <2>1, Numbers DEF TurnRotates, Cut, barrierVars
  <2>2. (turn = "rotated" /\ hook' = hook) \/ TurnRotates
    BY <1>7, TurnWrites
  <2>3. CASE turn = "rotated" /\ hook' = hook
    BY <1>0, <1>1, <1>7, <2>3, PhaseWrites, Numbers DEF RunPhases
  <2> QED
    BY <2>1, <2>2, <2>3
<1>8. ASSUME turn' = "rotated", pending' # NoCut' PROVE Pre(pending', hook'.epoch, failed') /\ pending'.mark <= hook'.mark
  <2>1. UNCHANGED pending
    <3>1. ~HookOffers /\ ~TakePending /\ ~InvalidatePending
      BY <1>1, <1>8 DEF HookOffers, TakePending, InvalidatePending
    <3>2. ~TimerOffers
      BY <1>3, <1>8 DEF TimerOffers, ingestVars
    <3> QED
      BY <3>1, <3>2, Writers
  <2>2. CASE TurnRotates
    BY <1>1, <1>2, <1>8, <2>1, <2>2, Numbers DEF TurnRotates, Cut
  <2>3. CASE turn = "rotated" /\ hook' = hook
    BY <1>0, <1>1, <1>8, <2>1, <2>3, Numbers
  <2> QED
    BY <1>8, <2>2, <2>3, TurnWrites
<1>9. ASSUME phase' \in {"opened", "drained"}, pending' # NoCut'
      PROVE  Pre(pending', run'.epoch, failed') /\ (phase' = "drained" => pending'.mark <= run'.mark)
  <2>1. UNCHANGED pending
    <3>1. ~TimerOffers /\ ~TakePending /\ ~InvalidatePending
      BY <1>1, <1>9 DEF TimerOffers, TakePending, InvalidatePending
    <3>2. ~HookOffers
      BY <1>3, <1>9 DEF HookOffers
    <3> QED
      BY <3>1, <3>2, Writers
  <2>2. CASE UNCHANGED <<phase, run>>
    BY <1>0, <1>1, <1>9, <2>1, <2>2, Numbers
  <2>3. CASE ~UNCHANGED <<phase, run>>
    BY <1>0, <1>1, <1>2, <1>9, <2>1, <2>3, PhaseWrites, Numbers
  <2> QED
    BY <2>2, <2>3
<1> QED
  BY <1>5, <1>6, <1>7, <1>8, <1>9 DEF OrderInv, Before, Refuses

LEMMA OpenStep ==
  TypeOK /\ TurnInv /\ RecordsAreAccountedFor /\ OpenInv /\ [Next]_vars => OpenInv'
<1> SUFFICES ASSUME TypeOK, TurnInv, RecordsAreAccountedFor, OpenInv, [Next]_vars,
                    phase' = "opened", ~(failed' <= run'.epoch)
             PROVE  Located' /\ \A c \in batches' : c.epoch <= run'.epoch /\ c.at # "encode"
  BY DEF OpenInv, Refuses
<1>1. CASE UNCHANGED <<phase, run>>
  <2>1. /\ phase = "opened" /\ run' = run /\ Located
        /\ \A b \in batches : b.epoch <= run.epoch /\ b.at # "encode"
    BY <1>1, Monotone, Numbers DEF OpenInv, Refuses
  <2>2. ASSUME NEW b \in batches, Unwind(b) PROVE FALSE
    <3>1. failed' <= b.epoch
      BY <2>2 DEF Unwind, Reported, At
    <3> QED
      BY <2>1, <2>2, <3>1, Numbers, Monotone
  <2>3. Located'
    BY <2>1, <2>2, LocatedStays
  <2>4. ASSUME NEW c \in batches' PROVE c.epoch <= run'.epoch /\ c.at # "encode"
    <3>1. ~Registered(c)
      BY <2>1 DEF Registered, TurnInv, Excluded, TurnRotates, TurnFolds, TurnMayRun, TimerDrains
    <3>2. PICK b \in batches : c.epoch = b.epoch /\ Moved(b, c)
      BY <3>1, BatchOrigin
    <3> QED
      BY <2>1, <3>2 DEF Moved
  <2> QED
    BY <2>3, <2>4
<1>2. CASE ~UNCHANGED <<phase, run>>
  <2>1. TimerOpens /\ run'.epoch = next
    BY <1>2, PhaseWrites
  <2>2. failed' = failed /\ failed > next
    BY <2>1, Monotone, Numbers DEF TimerOpens, OpenCut, Lowest
  <2>3. Located /\ \A b \in batches : b.epoch <= next /\ b.at # "encode"
    BY <2>1, <2>2 DEF RecordsAreAccountedFor, Located, TurnInv, TimerOpens, MayCapture, At
  <2>4. UNCHANGED <<acked, store, buffer, batches>>
    BY <2>1 DEF TimerOpens, ingestVars, durableVars
  <2> QED
    BY <2>1, <2>3, <2>4 DEF Located
<1> QED
  BY <1>1, <1>2

LEMMA StampStep ==
  TypeOK /\ TurnInv /\ RecordsAreAccountedFor /\ CutInv /\ StampInv /\ StampedFramesAreStored /\ [Next]_vars
    => StampInv' /\ StampedFramesAreStored'
<1> SUFFICES ASSUME TypeOK, TurnInv, RecordsAreAccountedFor, CutInv, StampInv, StampedFramesAreStored, [Next]_vars
             PROVE  StampInv' /\ StampedFramesAreStored'
  OBVIOUS
<1> DEFINE Stored(m) == m <= last_durable /\ \A f \in acked : f <= m => f \in store
           StoredNext(m) == m <= last_durable' /\ \A f \in acked' : f <= m => f \in store'
<1>1. last_durable <= last_durable' /\ last_durable' \in Nat /\ \A f \in acked' : f \in acked \/ f > last_durable
  <2>1. CASE UNCHANGED <<acked, last_durable>>
    BY <2>1, Numbers
  <2>2. CASE TurnFolds
    BY <2>2, Numbers, Monotone DEF TurnFolds, TurnInv
  <2> QED
    BY <2>1, <2>2, Writers
<1>2. ASSUME NEW m \in Nat, Stored(m) PROVE StoredNext(m)
  <2>1. store \subseteq store'
    BY Monotone
  <2>2. ASSUME NEW f \in acked', f <= m PROVE f \in store'
    <3>1. f \in Nat
      BY <1>1, <2>2, Numbers, Monotone
    <3>2. f \in acked
      BY <1>1, <1>2, <2>2, <3>1, Numbers
    <3> QED
      BY <1>2, <2>1, <2>2, <3>2
  <2> QED
    BY <1>1, <1>2, <2>2, Numbers
<1>3. /\ checkpoint \in Nat /\ snap \in Nat /\ run.mark \in Nat
  BY Numbers, TypeParts DEF CutsTyped
<1>4. Stored(checkpoint) /\ Stored(snap) /\ (phase \in {"install", "stamp"} => Stored(run.mark))
  BY DEF StampInv, StampedFramesAreStored
<1>5. StoredNext(checkpoint')
  <2>1. CASE UNCHANGED checkpoint
    BY <1>2, <1>3, <1>4, <2>1
  <2>2. CASE Stamp
    <3>1. checkpoint' = checkpoint \/ (checkpoint' = run.mark /\ phase = "stamp")
      BY <2>2 DEF Stamp
    <3> QED
      BY <1>2, <1>3, <1>4, <3>1
  <2> HIDE DEF StoredNext
  <2> QED
    BY <2>1, <2>2 DEF Next, Publish, Put, Return, Release, Unwind, Encode, Ingest, TurnRotates, HookOffers,
      HookParks, TurnFolds, SweepDrains, Tick, BarrierTask, TimerOpens, TimerDrains, TimerOffers,
      TimerParks, TakePending, Decide, Install, InvalidatePending, ShutdownCutPanics, Settle,
      ShutdownSignals, Shutdown, ShutdownRunsPending, ShutdownLocks, FlushThenSnapshot, vars,
      ingestVars, cadenceVars, barrierVars, durableVars, taskVars
<1>6. StoredNext(snap')
  <2>1. CASE UNCHANGED snap
    BY <1>2, <1>3, <1>4, <2>1
  <2>2. CASE Install
    <3>1. snap' = snap \/ (snap' = run.mark /\ phase = "install")
      BY <2>2 DEF Install
    <3> QED
      BY <1>2, <1>3, <1>4, <3>1
  <2>3. CASE FlushThenSnapshot
    <3>1. CASE snap' # snap
      <4>1. /\ ~Refuses(next) /\ batches = {} /\ store' = store \cup buffer /\ snap' = last_durable
            /\ UNCHANGED <<acked, last_durable>>
        BY <2>3, <3>1 DEF FlushThenSnapshot, ingestVars
      <4>2. acked \subseteq store \cup buffer
        BY <4>1, Numbers DEF RecordsAreAccountedFor, Refuses
      <4> QED
        BY <4>1, <4>2, Numbers
    <3> QED
      BY <2>1, <3>1
  <2> HIDE DEF StoredNext
  <2> QED
    BY <2>1, <2>2, <2>3 DEF Next, Publish, Put, Return, Release, Unwind, Encode, Ingest, TurnRotates, HookOffers,
      HookParks, TurnFolds, SweepDrains, Tick, BarrierTask, TimerOpens, TimerDrains, TimerOffers,
      TimerParks, TakePending, Decide, Stamp, InvalidatePending, ShutdownCutPanics, Settle,
      ShutdownSignals, Shutdown, ShutdownRunsPending, ShutdownLocks, vars, ingestVars,
      cadenceVars, barrierVars, durableVars, taskVars
<1>7. phase' \in {"install", "stamp"} => StoredNext(run'.mark)
  <2>1. CASE phase \in {"install", "stamp"} /\ run' = run
    BY <1>2, <1>3, <1>4, <2>1
  <2>2. CASE Decide /\ phase' = "install"
    <3>1. /\ phase = "write" /\ published /\ ~Refuses(run.epoch) /\ AllOk(run.epoch) /\ run' = run
          /\ At("run") = {} /\ WaitedFor = {}
      BY <2>2 DEF Decide
    <3>2. run.mark <= last_durable /\ Covered(run.epoch, run.mark, "run")
      BY <3>1 DEF CutInv, Live, CutOk, Places
    <3>3. Stored(run.mark)
      BY <3>1, <3>2 DEF Covered, At, WaitedFor
    <3> QED
      BY <1>2, <1>3, <3>1, <3>3
  <2>3. phase' \in {"install", "stamp"} => (phase \in {"install", "stamp"} /\ run' = run) \/ Decide
    BY PhaseWrites
  <2>4. Decide => phase' \in {"install", "invalidate"}
    BY DEF Decide
  <2> HIDE DEF StoredNext
  <2> QED
    BY <2>1, <2>2, <2>3, <2>4
<1> QED
  BY <1>5, <1>6, <1>7 DEF StampInv, StampedFramesAreStored

(* What becomes of a record in flight: stored, still in flight in a batch  *)
(* of the same epoch, given to the buffers by its encode or by a return,   *)
(* or lost by an unwind, which latches its epoch.                          *)
Stays(b, d) ==
  /\ d.epoch = b.epoch
  /\ \/ d.at = b.at
     \/ b.at = "hook" /\ turn' = "mine"
     \/ b.at = "timer" /\ phase' = "take"
     \/ b.at = "slot" /\ pending' = NoCut

LEMMA BatchFate ==
  ASSUME TypeOK, [Next]_vars, NEW b \in batches, NEW f \in b.recs
  PROVE  \/ f \in store'
         \/ \E d \in batches' : f \in d.recs /\ Stays(b, d)
         \/ b.at = "encode" /\ Encode(b)
         \/ Return(b)
         \/ failed' <= b.epoch /\ b.at # "slot" /\ \E a \in batches : Unwind(a) /\ a.at = b.at
<1> DEFINE Goal ==
      \/ f \in store'
      \/ \E d \in batches' : f \in d.recs /\ Stays(b, d)
      \/ b.at = "encode" /\ Encode(b)
      \/ Return(b)
      \/ failed' <= b.epoch /\ b.at # "slot" /\ \E a \in batches : Unwind(a) /\ a.at = b.at
<1> SUFFICES Goal
  OBVIOUS
<1>0. batches \subseteq BatchType
  BY TypeParts DEF BatchesTyped
<1>1. CASE b \in batches'
  BY <1>1 DEF Stays
<1>2. ASSUME NEW a \in batches, NEW r \in a.recs, Put(a, r) PROVE Goal
  <2>1. CASE a = b /\ r # f
    <3> DEFINE d == [b EXCEPT !.recs = b.recs \ {r}]
    <3>1. d.recs = b.recs \ {r} /\ d.epoch = b.epoch /\ d.at = b.at
      BY <1>0 DEF BatchType
    <3>2. d \in batches'
      BY <1>2, <2>1 DEF Put
    <3> QED
      BY <2>1, <3>1, <3>2 DEF Stays
  <2> QED
    BY <1>1, <1>2, <2>1 DEF Put
<1>3. ASSUME NEW a \in batches, Return(a) \/ Release(a) \/ Encode(a) PROVE Goal
  BY <1>1, <1>3 DEF Return, Release, Encode, MayRelease
<1>4. ASSUME NEW a \in batches, Unwind(a) PROVE Goal
  <2>1. CASE b \notin batches'
    <3>1. b = a \/ (a.at = "run" /\ b.at = "run")
      BY <1>4, <2>1 DEF Unwind, At
    <3>2. failed' <= b.epoch
      BY <1>4, <3>1 DEF Unwind, Reported, At
    <3>3. a.at # "slot"
      BY <1>4 DEF Unwind, CanUnwind, CanPut
    <3> QED
      BY <1>4, <3>1, <3>2, <3>3
  <2> QED
    BY <1>1, <2>1
<1>5. CASE TurnRotates \/ TurnFolds \/ TimerDrains
  BY <1>1, <1>5 DEF TurnRotates, TurnFolds, TimerDrains
<1>6. ASSUME NEW D \in SUBSET buffer, SweepDrains(D) PROVE Goal
  BY <1>1, <1>6 DEF SweepDrains
<1>7. ASSUME NEW p \in Places, NEW q \in Places, batches' = Move(p, q),
             \/ p = "hook" /\ turn' = "mine"
             \/ p = "timer" /\ phase' = "take"
             \/ p = "slot" /\ pending' = NoCut
      PROVE  Goal
  <2>1. CASE b.at = p
    <3>1. PICK d \in batches' : d.recs = b.recs /\ d.epoch = b.epoch
      BY <1>7, <2>1, MoveEffects
    <3> QED
      BY <1>7, <2>1, <3>1 DEF Stays
  <2>2. CASE b.at # p
    BY <1>1, <1>7, <2>2, MoveEffects
  <2> QED
    BY <2>1, <2>2
<1>8. CASE HookOffers \/ TimerOffers \/ TakePending \/ InvalidatePending
  BY <1>1, <1>7, <1>8 DEF HookOffers, TimerOffers, TakePending, InvalidatePending, PlaceCut, Discarded, Places
<1>9. CASE batches' = batches
  BY <1>1, <1>9
<1> QED
  BY <1>2, <1>3, <1>4, <1>5, <1>6, <1>8, <1>9
  DEF Next, Publish, At, Ingest, BarrierTask, Shutdown, HookParks, Tick, TimerOpens, TimerParks,
      Decide, Install, Stamp, ShutdownCutPanics, Settle, ShutdownSignals, ShutdownRunsPending,
      ShutdownLocks, FlushThenSnapshot, vars

(* A settlement that refuses a cut under way is not swept before it.       *)
LEMMA SettlementsStay ==
  ASSUME TypeOK, LatchInv, OrderInv, [Next]_vars, NEW c \in {hook, pending, run}, NEW p \in Places,
         Live(c, p), ~Refuses(c.epoch), NEW s \in settlements, s.at > c.epoch
  PROVE  s \in settlements'
<1>1. CASE Settle
  <2>1. CASE phase \in {"settle", "parking"} /\ settlements' = Unspent(run.epoch)
    <3>1. run.epoch <= c.epoch
      BY <2>1, Numbers DEF Live, OrderInv, RunPhases, Before
    <3> QED
      BY <2>1, <3>1, Numbers DEF Unspent
  <2>2. phase # "parkLatched"
    BY DEF Live, LatchInv
  <2> QED
    BY <1>1, <2>1, <2>2 DEF Settle
<1>2. Settle \/ settlements \subseteq settlements'
  BY DEF Next, Publish, Put, Return, Release, Unwind, Encode, Ingest, TurnRotates, HookOffers,
         HookParks, TurnFolds, SweepDrains, Tick, BarrierTask, TimerOpens, TimerDrains,
         TimerOffers, TimerParks, TakePending, Decide, Install, Stamp, InvalidatePending,
         ShutdownCutPanics, ShutdownSignals, Shutdown, ShutdownRunsPending, ShutdownLocks,
         FlushThenSnapshot, vars, ingestVars, cadenceVars, barrierVars, durableVars, taskVars
<1> QED
  BY <1>1, <1>2

(* A cut under way stays sound through a step that leaves its own batches  *)
(* to it, at q.                                                            *)
LEMMA CutStays ==
  ASSUME TypeOK, TurnInv, LatchInv, OrderInv, [Next]_vars,
         NEW c \in {hook, pending, run}, NEW p \in Places, NEW q \in Places, Live(c, p), CutOk(c, p),
         \A b \in batches : b.at = p => \A f \in b.recs :
           \/ f \in store' \/ failed' <= c.epoch
           \/ \E s \in settlements' : s.registered <= c.epoch /\ c.epoch < s.at
           \/ \E d \in batches' : f \in d.recs /\ (d.epoch <= c.epoch \/ d.at = q)
  PROVE  CutOk(c, q)'
<1>0. /\ c.mark <= last_durable
      /\ c.epoch < next \/ (c.epoch = next /\ failed <= next)
      /\ failed <= c.epoch \/ \A b \in batches : b.at = "encode" => b.epoch > c.epoch
      /\ c.epoch \in Nat /\ c.mark \in Nat
  BY Numbers DEF CutOk, Before, Refuses, At
<1>1. /\ next <= next' /\ failed' <= failed /\ next' \in Nat /\ failed' \in Nat /\ store \subseteq store'
  BY Monotone
<1>2. c.mark <= last_durable' /\ \A f \in acked' : f \in Nat /\ (f \in acked \/ f > c.mark)
  <2>1. CASE UNCHANGED <<acked, last_durable>>
    BY <1>0, <2>1, Numbers
  <2>2. CASE TurnFolds
    <3>1. last_durable <= last_durable' /\ \A f \in acked' : f \in acked \/ (f \in Nat /\ f > last_durable)
      BY <2>2, Numbers, Monotone DEF TurnFolds, TurnInv
    <3>2. last_durable' \in Nat
      BY <2>2, Numbers DEF TurnFolds
    <3> QED
      BY <1>0, <3>1, <3>2, Numbers
  <2> QED
    BY <2>1, <2>2, Writers
<1>3. c.epoch < next' \/ (c.epoch = next' /\ failed' <= next')
  BY <1>0, <1>1, Numbers
<1>4. CASE failed' <= c.epoch
  BY <1>2, <1>3, <1>4 DEF CutOk, Before, Refuses, Covered
<1>5. CASE failed' > c.epoch
  <2>1. failed > c.epoch /\ c.epoch < next /\ \A b \in batches : b.at = "encode" => b.epoch > c.epoch
    BY <1>0, <1>1, <1>5, Numbers
  <2>2. ASSUME NEW d \in batches', d.at = "encode" PROVE d.epoch > c.epoch
    <3>1. CASE \E b \in batches : d.epoch = b.epoch /\ Moved(b, d)
      BY <2>1, <2>2, <3>1 DEF Moved
    <3>2. CASE d.epoch = next
      BY <2>1, <3>2, Numbers
    <3> QED
      BY <3>1, <3>2, BatchOrigin
  <2>3. ASSUME NEW f \in acked', f <= c.mark
        PROVE  \/ f \in store'
               \/ \E s \in settlements' : s.registered <= c.epoch /\ c.epoch < s.at
               \/ \E d \in batches' : f \in d.recs /\ (d.epoch <= c.epoch \/ d.at = q)
    <3>1. f \in acked
      BY <1>0, <1>2, <2>3
    <3>2. \/ f \in store \/ ~AllOk(c.epoch)
          \/ \E b \in batches : f \in b.recs /\ (b.epoch <= c.epoch \/ b.at = p)
      BY <1>0, <2>1, <2>3, <3>1, Numbers DEF CutOk, Covered, Refuses
    <3>3. CASE ~AllOk(c.epoch)
      <4>1. PICK s \in settlements : s.registered <= c.epoch /\ c.epoch < s.at
        BY <3>3 DEF AllOk, SettlementRefuses
      <4>2. s \in settlements'
        BY <1>0, <1>1, <2>1, <4>1, SettlementsStay, Numbers DEF Refuses
      <4> QED
        BY <4>1, <4>2
    <3>4. ASSUME NEW b \in batches, f \in b.recs, b.epoch <= c.epoch
          PROVE  \/ f \in store'
                 \/ \E s \in settlements' : s.registered <= c.epoch /\ c.epoch < s.at
                 \/ \E d \in batches' : f \in d.recs /\ d.epoch <= c.epoch
      <4>1. b.at # "encode"
        BY <1>0, <2>1, <3>4, Numbers
      <4>2. ~(failed' <= b.epoch)
        BY <1>0, <1>1, <1>5, <3>4, Numbers
      <4>3. CASE Return(b)
        <5>1. next > b.epoch
          BY <1>0, <2>1, <3>4, Numbers
        <5>2. Returned(b.epoch, next) \in settlements'
          BY <4>3, <5>1 DEF Return, Dated
        <5>3. Returned(b.epoch, next).registered = b.epoch /\ Returned(b.epoch, next).at = next
          BY DEF Returned
        <5> QED
          BY <2>1, <3>4, <5>2, <5>3
      <4>4. CASE \E d \in batches' : f \in d.recs /\ Stays(b, d)
        BY <3>4, <4>4 DEF Stays
      <4> QED
        BY <3>4, <4>1, <4>2, <4>3, <4>4, BatchFate
    <3>5. ASSUME NEW b \in batches, f \in b.recs, b.at = p
          PROVE  \/ f \in store'
                 \/ \E s \in settlements' : s.registered <= c.epoch /\ c.epoch < s.at
                 \/ \E d \in batches' : f \in d.recs /\ (d.epoch <= c.epoch \/ d.at = q)
      BY <1>0, <1>1, <1>5, <3>5
    <3> QED
      BY <1>1, <3>2, <3>3, <3>4, <3>5
  <2> QED
    BY <1>2, <1>3, <2>2, <2>3 DEF CutOk, Before, Refuses, Covered, At, AllOk, SettlementRefuses
<1> QED
  BY <1>0, <1>1, <1>4, <1>5

(* A cut that stays where it is keeps its batches.                         *)
LEMMA CutWaits ==
  ASSUME TypeOK, TurnInv, LatchInv, OrderInv, [Next]_vars,
         NEW c \in {hook, pending, run}, NEW p \in Places, Live(c, p), CutOk(c, p),
         p = "hook" => turn' = "rotated",
         p = "slot" => pending' # NoCut,
         p = "timer" => phase' \in {"opened", "drained"},
         p = "run" => phase' = "write" /\ published'
  PROVE  CutOk(c, p)'
<1>1. ASSUME NEW b \in batches, b.at = p, NEW f \in b.recs
      PROVE  f \in store' \/ \E d \in batches' : f \in d.recs /\ d.at = p
  <2>1. p \in {"hook", "slot", "timer", "run"}
    BY DEF Live
  <2>2. ~Return(b)
    BY <1>1, <2>1 DEF Live, Return, CanReturn, CanPut
  <2>3. ASSUME NEW a \in batches, Unwind(a), a.at = b.at, b.at # "slot" PROVE FALSE
    BY <1>1, <2>1, <2>3 DEF Unwind
  <2>4. ASSUME NEW d \in batches', Stays(b, d) PROVE d.at = p
    BY <1>1, <2>1, <2>4 DEF Stays
  <2> QED
    BY <1>1, <2>1, <2>2, <2>3, <2>4, BatchFate
<1> QED
  BY <1>1, CutStays

(* The later of two cuts answers for both.                                 *)
LEMMA LaterIsSound ==
  ASSUME NEW c, NEW d, NEW p \in Places, CutOk(c, p)', CutOk(d, p)',
         c.epoch \in Nat, d.epoch \in Nat, c.mark \in Nat, d.mark \in Nat,
         d.epoch < c.epoch \/ (d.epoch = c.epoch /\ failed' <= c.epoch), d.mark <= c.mark
  PROVE  CutOk(Later(c, d), p)'
<1>1. CASE d.epoch < c.epoch
  <2>1. Later(c, d).epoch = c.epoch /\ Later(c, d).mark = c.mark
    BY <1>1 DEF Later, Cut
  <2> QED
    BY <2>1 DEF CutOk, Before, Covered
<1>2. CASE d.epoch = c.epoch /\ failed' <= c.epoch
  <2>1. Later(c, d).epoch = c.epoch /\ Later(c, d).mark \in {c.mark, d.mark}
    BY <1>2 DEF Later, Cut
  <2> QED
    BY <1>2, <2>1 DEF CutOk, Before, Covered, Refuses
<1> QED
  BY <1>1, <1>2

LEMMA CutStep ==
  TypeOK /\ RecordsAreAccountedFor /\ TurnInv /\ LatchInv /\ OrderInv /\ OpenInv /\ CutInv /\ [Next]_vars
    => CutInv'
<1> SUFFICES ASSUME TypeOK, RecordsAreAccountedFor, TurnInv, LatchInv, OrderInv, OpenInv, CutInv, [Next]_vars
             PROVE  CutInv'
  OBVIOUS
<1>0. /\ next <= next' /\ failed' <= failed /\ NoCut' = NoCut /\ next' \in Nat /\ failed' \in Nat
  BY Monotone DEF NoCut
<1>1. /\ turn = "rotated" => Live(hook, "hook") /\ CutOk(hook, "hook")
      /\ pending # NoCut => Live(pending, "slot") /\ CutOk(pending, "slot")
      /\ phase \in {"opened", "drained"} => Live(run, "timer") /\ CutOk(run, "timer")
      /\ phase = "write" /\ published => Live(run, "run") /\ CutOk(run, "run")
  BY DEF CutInv, Live, Places
<1>2. "hook" \in Places /\ "slot" \in Places /\ "timer" \in Places /\ "run" \in Places
  BY DEF Places
<1>3. OpenCut => \/ next' = next + 1 /\ failed' = failed
                 \/ next' = next /\ failed' <= next
  BY Numbers DEF OpenCut, Lowest
<1>4. ASSUME failed' > next PROVE failed > next /\ Located
  BY <1>0, <1>4, Numbers DEF RecordsAreAccountedFor, Located
<1>5. ASSUME turn' = "rotated", NEW c, c = hook' PROVE CutOk(c, "hook")'
  <2>1. CASE UNCHANGED <<turn, hook>>
    BY <1>1, <1>2, <1>5, <2>1, CutWaits
  <2>2. CASE TurnRotates
    <3>1. /\ c.epoch = next /\ c.mark = last_durable /\ last_durable' = last_durable /\ acked' = acked
          /\ store' = store /\ OpenCut /\ At("encode") = {}
          /\ batches' = batches \cup {Batch(buffer, next, "hook")}
      BY <1>5, <2>2 DEF TurnRotates, Cut, durableVars
    <3>2. /\ Batch(buffer, next, "hook").recs = buffer /\ Batch(buffer, next, "hook").at = "hook"
      BY DEF Batch
    <3>3. c.epoch < next' \/ (c.epoch = next' /\ failed' <= next')
      BY <1>3, <3>1, Numbers
    <3>4. \A d \in batches' : d.at # "encode"
      BY <3>1, <3>2 DEF At
    <3>5. failed' <= next \/ failed' > next
      BY <1>0, Numbers
    <3>6. ASSUME NEW f \in acked', failed' > next
          PROVE  f \in store' \/ \E d \in batches' : f \in d.recs /\ (d.epoch <= c.epoch \/ d.at = "hook")
      BY <1>4, <3>1, <3>2, <3>6 DEF Located, TurnInv
    <3> QED
      BY <3>1, <3>3, <3>4, <3>5, <3>6, Numbers DEF CutOk, Before, Refuses, Covered, At
  <2> QED
    BY <1>5, <2>1, <2>2, TurnWrites
<1>6. ASSUME NEW p \in {"hook", "timer"}, NEW c \in {hook, run}, Live(c, p), CutOk(c, p), PlaceCut(c, p),
             NEW d, d = pending', d # NoCut,
             pending # NoCut => pending.mark <= c.mark /\ Before(pending, c.epoch)
      PROVE  CutOk(d, "slot")'
  <2>1. CutOk(c, "slot")'
    <3>1. ASSUME NEW b \in batches, b.at = p PROVE \E e \in batches' : e.recs = b.recs /\ e.at = "slot"
      BY <1>2, <1>6, <3>1, MoveEffects DEF PlaceCut
    <3> QED
      BY <1>2, <1>6, <3>1, CutStays
  <2>2. CASE pending = NoCut
    BY <1>6, <2>1, <2>2 DEF PlaceCut
  <2>3. ASSUME pending # NoCut, NEW e, e = pending PROVE CutOk(d, "slot")'
    <3>1. CutOk(e, "slot")'
      BY <1>1, <1>2, <1>6, <2>3, CutWaits
    <3>2. c.epoch \in Nat /\ e.epoch \in Nat /\ c.mark \in Nat /\ e.mark \in Nat
      BY <2>3, Numbers
    <3>3. e.mark <= c.mark /\ (e.epoch < c.epoch \/ (e.epoch = c.epoch /\ failed' <= c.epoch))
      BY <1>0, <1>6, <2>3, <3>2, Numbers DEF Before, Refuses
    <3>4. d = Later(c, e)
      BY <1>6, <2>3 DEF PlaceCut
    <3> QED
      BY <1>2, <2>1, <3>1, <3>2, <3>3, <3>4, LaterIsSound
  <2> QED
    BY <2>2, <2>3
<1>7. ASSUME pending' # NoCut', NEW c, c = pending' PROVE CutOk(c, "slot")'
  <2>1. CASE UNCHANGED pending
    BY <1>0, <1>1, <1>2, <1>7, <2>1, CutWaits
  <2>2. CASE HookOffers
    <3>1. turn = "rotated" /\ PlaceCut(hook, "hook")
      BY <2>2 DEF HookOffers
    <3>2. pending # NoCut => pending.mark <= hook.mark /\ Before(pending, hook.epoch)
      BY <3>1 DEF OrderInv
    <3> QED
      BY <1>0, <1>1, <1>6, <1>7, <3>1, <3>2
  <2>3. CASE TimerOffers
    <3>1. phase = "drained" /\ PlaceCut(run, "timer")
      BY <2>3 DEF TimerOffers
    <3>2. pending # NoCut => pending.mark <= run.mark /\ Before(pending, run.epoch)
      BY <3>1 DEF OrderInv
    <3> QED
      BY <1>0, <1>1, <1>6, <1>7, <3>1, <3>2
  <2>4. ~TakePending /\ ~InvalidatePending
    BY <1>0, <1>7 DEF TakePending, InvalidatePending
  <2> QED
    BY <2>1, <2>2, <2>3, <2>4, Writers
<1>8. ASSUME phase' \in {"opened", "drained"}, NEW c, c = run' PROVE CutOk(c, "timer")'
  <2>1. CASE UNCHANGED <<phase, run>>
    BY <1>1, <1>2, <1>8, <2>1, CutWaits
  <2>2. CASE TimerOpens
    <3>1. /\ c.epoch = next /\ c.mark = 0 /\ last_durable' = last_durable /\ acked' = acked
          /\ batches' = batches /\ OpenCut /\ At("encode") = {}
      BY <1>8, <2>2 DEF TimerOpens, MayCapture, Cut, ingestVars
    <3>2. c.epoch < next' \/ (c.epoch = next' /\ failed' <= next')
      BY <1>3, <3>1, Numbers
    <3> QED
      BY <3>1, <3>2, Numbers DEF CutOk, Before, Refuses, Covered, At
  <2>3. CASE TimerDrains
    <3>1. /\ phase = "opened" /\ last_durable' = last_durable /\ acked' = acked /\ store' = store
          /\ next' = next /\ failed' = failed /\ batches' = batches \cup {Batch(buffer, next, "timer")}
      BY <2>3 DEF TimerDrains, ingestVars, cadenceVars, durableVars
    <3>2. c.epoch = run.epoch /\ c.mark = last_durable
      <4>1. run \in CutType
        BY TypeParts DEF CutsTyped
      <4> QED
        BY <1>8, <2>3, <4>1 DEF TimerDrains, CutType
    <3>3. /\ Batch(buffer, next, "timer").recs = buffer /\ Batch(buffer, next, "timer").at = "timer"
      BY DEF Batch
    <3>4. c.epoch < next' \/ (c.epoch = next' /\ failed' <= next')
      BY <1>1, <3>1, <3>2 DEF CutOk, Before, Refuses
    <3>5. failed' <= c.epoch \/ (Located /\ \A b \in batches : b.epoch <= c.epoch /\ b.at # "encode")
      BY <3>1, <3>2 DEF OpenInv, Refuses
    <3>6. failed' <= c.epoch \/ \A d \in batches' : d.at # "encode"
      BY <3>1, <3>3, <3>5
    <3>7. ASSUME NEW f \in acked', ~(failed' <= c.epoch)
          PROVE  f \in store' \/ \E d \in batches' : f \in d.recs /\ (d.epoch <= c.epoch \/ d.at = "timer")
      BY <3>1, <3>3, <3>5, <3>7 DEF Located
    <3> QED
      BY <3>1, <3>2, <3>4, <3>6, <3>7, Numbers DEF CutOk, Before, Refuses, Covered, At
  <2> QED
    BY <1>8, <2>1, <2>2, <2>3, PhaseWrites
<1>9. ASSUME phase' = "write", published', NEW c, c = run' PROVE CutOk(c, "run")'
  <2>1. CASE UNCHANGED <<phase, run>>
    <3>1. published
      BY <1>9, <2>1 DEF Next, Publish, Put, Return, Release, Unwind, Encode, Ingest, TurnRotates, HookOffers,
         HookParks, TurnFolds, SweepDrains, Tick, BarrierTask, TimerOpens, TimerDrains,
         TimerOffers, TimerParks, TakePending, Decide, Install, Stamp, InvalidatePending,
         ShutdownCutPanics, Settle, ShutdownSignals, Shutdown, ShutdownRunsPending,
         ShutdownLocks, FlushThenSnapshot, vars, ingestVars, cadenceVars, barrierVars,
         durableVars, taskVars
    <3> QED
      BY <1>1, <1>2, <1>9, <2>1, <3>1, CutWaits
  <2>2. CASE TakePending
    <3>1. pending # NoCut /\ c = pending /\ batches' = Move("slot", "run")
      BY <1>9, <2>2 DEF TakePending
    <3>2. ASSUME NEW b \in batches, b.at = "slot" PROVE \E e \in batches' : e.recs = b.recs /\ e.at = "run"
      BY <1>2, <3>1, <3>2, MoveEffects
    <3> QED
      BY <1>1, <1>2, <3>1, <3>2, CutStays
  <2> QED
    BY <1>9, <2>1, <2>2, PhaseWrites
<1> QED
  BY <1>5, <1>7, <1>8, <1>9 DEF CutInv, Live
-----------------------------------------------------------------------------
LEMMA PublicationInit == Init => TypeOK /\ TurnHasFrame /\ PublicationInv
<1> SUFFICES ASSUME Init PROVE TurnHasFrame /\ PublicationInv
  BY TypeInit
<1>1. TypeOK
  BY TypeInit
<1>2. RecordsAreAccountedFor /\ StampedFramesAreStored /\ StampInv /\ OpenInv /\ TurnHasFrame
  BY <1>1, Numbers DEF Init, RecordsAreAccountedFor, StampedFramesAreStored, StampInv, OpenInv, TurnHasFrame
<1>3. TurnInv
  BY DEF Init, TurnInv, At
<1>4. LatchInv /\ OrderInv
  BY DEF Init, LatchInv, OrderInv, RunPhases
<1>5. CutInv
  BY DEF Init, CutInv, Live
<1> QED
  BY <1>2, <1>3, <1>4, <1>5 DEF PublicationInv

LEMMA PublicationStep ==
  TypeOK /\ TurnHasFrame /\ PublicationInv /\ [Next]_vars => TypeOK' /\ TurnHasFrame' /\ PublicationInv'
  BY TypeStep, RecordsStep, TurnStep, LatchStep, OrderStep, OpenStep, StampStep, CutStep DEF PublicationInv

LEMMA PublicationAlways == Spec => [](TypeOK /\ TurnHasFrame /\ PublicationInv)
  BY PublicationInit, PublicationStep, PTL DEF Spec

(* Through every park, requeue, coalescing and invalidation, with the      *)
(* encode workers, the publisher, the sweep, the barrier and the shutdown  *)
(* interleaved as they may be, an acknowledged record is in the store, in  *)
(* the buffers or in a registered publish unless the latch is set, and no  *)
(* cut is given the reserved epoch (publish.rs, park and write; cadence.rs,*)
(* open_cut; barrier.rs, invalidate_pending).                              *)
THEOREM RecordsAreKept == Spec => []RecordInv
<1>1. PublicationInv /\ TypeOK => RecordInv
  BY DEF PublicationInv, RecordInv
<1> QED
  BY <1>1, PublicationAlways, PTL

(* No checkpoint and no installed snapshot reaches past a frame whose      *)
(* records are not in the store (barrier.rs, run_cut, install and stamp;   *)
(* receiver.rs, flush_then_snapshot).                                      *)
THEOREM NothingIsForgotten == Spec => []StampedFramesAreStored
<1>1. PublicationInv => StampedFramesAreStored
  BY DEF PublicationInv
<1> QED
  BY <1>1, PublicationAlways, PTL

(* The cut that runs never waits for a guard that only the barrier can     *)
(* release (record_sink.rs, quiesce_publishes_through).                    *)
THEOREM NoCutWaitsOnItself == Spec => []RunNeverWaitsOnSlot
<1>1. TypeOK /\ PublicationInv => RunNeverWaitsOnSlot
  BY Numbers DEF PublicationInv, TurnInv, RunNeverWaitsOnSlot, WaitedFor, At
<1> QED
  BY <1>1, PublicationAlways, PTL
=============================================================================
