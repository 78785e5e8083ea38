----------------------------- MODULE QueueProof -----------------------------
(***************************************************************************)
(* Proofs about the two queues an acknowledged frame goes through: the     *)
(* group commit, for any set of requests, and the lane behind the encode   *)
(* pool and the publisher, for any items, threads, bound and number of     *)
(* panics.                                                                 *)
(*                                                                         *)
(* AckImpliesDurable is not inductive: a request learns its result from    *)
(* the broadcast outcome, the outcome comes from a flush task, and the     *)
(* task's claim was fixed before its sync.  DurInv follows the claim       *)
(* backwards along that path.  NoStrandedWaiter needs in turn that the arm *)
(* flag and the tasks agree, which is ArmInv, and the order of the         *)
(* hand-off that turns meet the gate one by one, which is TurnInv.         *)
(*                                                                         *)
(* For the lane, the counts of AcceptedIsHeldOnce are those of places that *)
(* hold distinct items (PlaceInv, OnceInv); that nothing is stranded rests *)
(* on the threads of an open slot, that Drop joins them all on the handles *)
(* spawn keeps (JoinInv).                                                  *)
(***************************************************************************)
EXTENDS GroupCommit, Lane, SequenceTheorems, FiniteSetTheorems, TLAPS

(* Every claim of durability, wherever it is on its way to a request, is   *)
(* bounded by what a successful sync covered.                              *)
DurInv ==
  /\ appended_seq = next_seq - 1
  /\ synced <= appended_seq
  /\ \A t \in Request : task[t].st = "captured" => task[t].covered <= appended_seq
  /\ \A t \in Request : task[t].st = "synced" /\ task[t].res = "ok" => task[t].covered <= synced
  /\ outcome.res = "ok" => outcome.covered <= synced
  /\ \A r \in Request : pc[r] \notin {"new", "done"} => 0 < seqOf[r]
  /\ \A r \in Request : result[r] = "ok" => pc[r] \in {"covered", "turn", "answered", "done"}
  /\ AckImpliesDurable

(* The state stays within its types (commit.rs, FlushState, FlushOutcome). *)
LEMMA TypeInit == Init => TypeOK
<1> SUFFICES ASSUME Init PROVE TypeOK
  OBVIOUS
<1>1. flush_pending \in BOOLEAN
  BY DEF Init
<1>2. mined \in Seq(Nat)
  BY DEF Init
<1> QED
  BY <1>1, <1>2 DEF Init, TypeOK, NoTask, Task, Stages, flushState

(* Every step keeps the types. *)
LEMMA TypeStep == TypeOK /\ [Next]_vars => TypeOK'
<1> SUFFICES ASSUME TypeOK, [Next]_vars PROVE TypeOK'
  OBVIOUS
<1> USE DEF TypeOK, NoTask, Task, Stages, flushState
<1>1. CASE UNCHANGED vars
  BY <1>1 DEF vars
<1>2. ASSUME NEW r \in Request, AppendFails(r) PROVE TypeOK'
  BY <1>2 DEF AppendFails
<1>3. ASSUME NEW r \in Request, AppendFrame(r) PROVE TypeOK'
  BY <1>3 DEF AppendFrame
<1>4. ASSUME NEW r \in Request, ArmFlush(r) PROVE TypeOK'
  BY <1>4 DEF ArmFlush
<1>5. ASSUME NEW r \in Request, FlushCapture(r) PROVE TypeOK'
  <2>1. flush_pending' \in BOOLEAN
    BY <1>5 DEF FlushCapture
  <2> QED
    BY <1>5, <2>1 DEF FlushCapture
<1>6. ASSUME NEW r \in Request, FlushSync(r) PROVE TypeOK'
  BY <1>6 DEF FlushSync, Frames
<1>7. ASSUME NEW r \in Request, FlushPublish(r) PROVE TypeOK'
  BY <1>7 DEF FlushPublish, NotStale, CoveredBy
<1>8. ASSUME NEW r \in Request, Observe(r) PROVE TypeOK'
  <2>1. outcome.res \in {"none", "ok", "error"}
    OBVIOUS
  <2> QED
    BY <1>8, <2>1 DEF Observe
<1>9. ASSUME NEW r \in Request, TakeTurn(r) PROVE TypeOK'
  BY <1>9 DEF TakeTurn, TurnReached
<1>10. ASSUME NEW r \in Request, FoldTurn(r) PROVE TypeOK'
  BY <1>10 DEF FoldTurn, Mark
<1>11. ASSUME NEW r \in Request, FoldPanics(r) PROVE TypeOK'
  BY <1>11 DEF FoldPanics
<1>12. ASSUME NEW r \in Request, SkipTurn(r) PROVE TypeOK'
  BY <1>12 DEF SkipTurn
<1>13. ASSUME NEW r \in Request, CompleteIngest(r) PROVE TypeOK'
  BY <1>13 DEF CompleteIngest, NextTurn
<1> QED
  BY <1>1, <1>2, <1>3, <1>4, <1>5, <1>6, <1>7, <1>8, <1>9, <1>10, <1>11,
     <1>12, <1>13 DEF Next

(* No claim is made at first. *)
LEMMA DurInit == Init => DurInv
  BY DEF Init, DurInv, AckImpliesDurable, NoTask, Task

(* Every step bounds every claim of durability by what a sync covered *)
(* (commit.rs, flush).                                                *)
LEMMA DurStep == TypeOK /\ TypeOK' /\ DurInv /\ [Next]_vars => DurInv'
<1> SUFFICES ASSUME TypeOK, TypeOK', DurInv, [Next]_vars PROVE DurInv'
  OBVIOUS
<1> USE DEF DurInv, AckImpliesDurable, NoTask, Task, TypeOK, flushState
<1>1. CASE UNCHANGED vars
  BY <1>1 DEF vars
<1>2. ASSUME NEW r \in Request, AppendFails(r) PROVE DurInv'
  BY <1>2 DEF AppendFails
<1>3. ASSUME NEW r \in Request, AppendFrame(r) PROVE DurInv'
  <2>1. result[r] # "ok"
    BY <1>3 DEF AppendFrame
  <2>2. seqOf'[r] = next_seq
    BY <1>3 DEF AppendFrame
  <2>3. next_seq > 0
    OBVIOUS
  <2>4. \A q \in Request \ {r} : seqOf'[q] = seqOf[q] /\ pc'[q] = pc[q]
    BY <1>3 DEF AppendFrame
  <2>5. AckImpliesDurable'
    BY <1>3, <2>1, <2>4 DEF AppendFrame
  <2> QED
    BY <1>3, <2>1, <2>2, <2>3, <2>4, <2>5 DEF AppendFrame
<1>4. ASSUME NEW r \in Request, ArmFlush(r) PROVE DurInv'
  BY <1>4 DEF ArmFlush
<1>5. ASSUME NEW r \in Request, FlushCapture(r) PROVE DurInv'
  BY <1>5 DEF FlushCapture
<1>6. ASSUME NEW r \in Request, FlushSync(r) PROVE DurInv'
  BY <1>6 DEF FlushSync, Frames
<1>7. ASSUME NEW r \in Request, FlushPublish(r) PROVE DurInv'
  BY <1>7 DEF FlushPublish, NotStale, CoveredBy
<1>8. ASSUME NEW r \in Request, Observe(r) PROVE DurInv'
  BY <1>8 DEF Observe
<1>9. ASSUME NEW r \in Request, TakeTurn(r) PROVE DurInv'
  BY <1>9 DEF TakeTurn, TurnReached
<1>10. ASSUME NEW r \in Request, FoldTurn(r) PROVE DurInv'
  BY <1>10 DEF FoldTurn, Mark
<1>11. ASSUME NEW r \in Request, FoldPanics(r) PROVE DurInv'
  BY <1>11 DEF FoldPanics
<1>12. ASSUME NEW r \in Request, SkipTurn(r) PROVE DurInv'
  BY <1>12 DEF SkipTurn
<1>13. ASSUME NEW r \in Request, CompleteIngest(r) PROVE DurInv'
  BY <1>13 DEF CompleteIngest, NextTurn
<1> QED
  BY <1>1, <1>2, <1>3, <1>4, <1>5, <1>6, <1>7, <1>8, <1>9, <1>10, <1>11,
     <1>12, <1>13 DEF Next

(* The coordinator's state never leaves its types.                         *)
THEOREM TypeCorrect == Spec => []TypeOK
  BY TypeInit, TypeStep, PTL DEF Spec

(* A commit resolves to success only for a frame that a successful sync    *)
(* covered (commit.rs, flush and covered_outcome), for any number of       *)
(* concurrent requests.                                                    *)
THEOREM AckDurability == Spec => []AckImpliesDurable
<1>1. DurInv => AckImpliesDurable
  BY DEF DurInv
<1> QED
  BY TypeInit, TypeStep, DurInit, DurStep, <1>1, PTL DEF Spec
-----------------------------------------------------------------------------
(* A raised arm flag stands for an armed task, a request spawns a task at  *)
(* most once, every frame's number is at most the one a flush captures,    *)
(* and an outcome that covers anything was broadcast.                      *)
ArmInv ==
  /\ flush_pending => \E t \in Request : task[t].st = "armed"
  /\ \A r \in Request : pc[r] \in {"new", "appended"} => task[r].st = "none"
  /\ \A r \in Request : seqOf[r] <= appended_seq
  /\ appended_seq < next_seq
  /\ outcome.generation = 0 => outcome.covered = 0
  /\ NoStrandedWaiter

(* No flush is armed at first. *)
LEMMA ArmInit == Init => ArmInv
  BY DEF Init, ArmInv, NoStrandedWaiter, Uncovered, NoTask, Task

(* Every step keeps the arm flag and the flush tasks in agreement *)
(* (commit.rs, arm and flush).                                    *)
LEMMA ArmStep == TypeOK /\ TypeOK' /\ ArmInv /\ [Next]_vars => ArmInv'
<1> SUFFICES ASSUME TypeOK, TypeOK', ArmInv, [Next]_vars PROVE ArmInv'
  OBVIOUS
<1> USE DEF ArmInv, NoStrandedWaiter, Uncovered, WillCover, NoTask, Task, TypeOK, flushState
<1>1. CASE UNCHANGED vars
  BY <1>1 DEF vars
<1>2. ASSUME NEW r \in Request, AppendFails(r) PROVE ArmInv'
  BY <1>2 DEF AppendFails
<1>3. ASSUME NEW r \in Request, AppendFrame(r) PROVE ArmInv'
  BY <1>3 DEF AppendFrame
<1>4. ASSUME NEW r \in Request, ArmFlush(r) PROVE ArmInv'
  BY <1>4 DEF ArmFlush
<1>5. ASSUME NEW r \in Request, FlushCapture(r) PROVE ArmInv'
  BY <1>5 DEF FlushCapture
<1>6. ASSUME NEW r \in Request, FlushSync(r) PROVE ArmInv'
  BY <1>6 DEF FlushSync, Frames
<1>7. ASSUME NEW r \in Request, FlushPublish(r) PROVE ArmInv'
  <2>1. /\ task[r].st = "synced" /\ task'[r].st = "none"
        /\ \A t \in Request \ {r} : task'[t] = task[t]
        /\ UNCHANGED <<pc, seqOf, flush_pending, next_seq, appended_seq>>
    BY <1>7 DEF FlushPublish
  <2>2. /\ outcome'.covered >= outcome.covered
        /\ outcome'.covered >= task[r].covered
        /\ outcome.generation = 1 => outcome'.generation = 1
        /\ outcome'.generation = 0 => outcome'.covered = 0
    <3>1. CASE NotStale(r)
      BY <1>7, <3>1 DEF FlushPublish, NotStale, CoveredBy
    <3>2. CASE ~NotStale(r)
      BY <1>7, <3>2 DEF FlushPublish, NotStale, CoveredBy
    <3> QED
      BY <3>1, <3>2
  <2>3. ASSUME flush_pending' PROVE \E t \in Request : task'[t].st = "armed"
    <3>1. flush_pending
      BY <2>1, <2>3
    <3>2. PICK t \in Request : task[t].st = "armed"
      BY <3>1
    <3>3. t # r /\ task'[t] = task[t]
      BY <2>1, <3>2
    <3> QED
      BY <3>2, <3>3
  <2>4. \A q \in Request : pc'[q] \in {"new", "appended"} => task'[q].st = "none"
    BY <2>1
  <2>5. ASSUME NEW q \in Request, Uncovered(q)'
        PROVE  \E t \in Request : WillCover(t, q)'
    <3>1. Uncovered(q)
      BY <2>1, <2>2, <2>5
    <3>2. PICK t \in Request : WillCover(t, q)
      BY <3>1
    <3>3. t # r
      <4> SUFFICES ASSUME t = r PROVE FALSE
        OBVIOUS
      <4>1. task[r].covered >= seqOf[q]
        BY <2>1, <3>2
      <4>2. outcome'.covered >= seqOf[q]
        BY <2>2, <4>1
      <4>3. outcome'.generation = 0
        BY <2>1, <2>5, <4>2
      <4>4. ~NotStale(r)
        BY <1>7, <4>3 DEF FlushPublish
      <4>5. outcome.generation = 0 /\ task[r].covered < outcome.covered
        BY <1>7, <4>3, <4>4 DEF FlushPublish, NotStale, CoveredBy
      <4> QED
        BY <4>5
    <3> QED
      BY <2>1, <3>2, <3>3
  <2>6. NoStrandedWaiter'
    BY <2>5
  <2> QED
    BY <2>1, <2>2, <2>3, <2>4, <2>6
<1>8. ASSUME NEW r \in Request, Observe(r) PROVE ArmInv'
  BY <1>8 DEF Observe
<1>9. ASSUME NEW r \in Request, TakeTurn(r) PROVE ArmInv'
  BY <1>9 DEF TakeTurn, TurnReached
<1>10. ASSUME NEW r \in Request, FoldTurn(r) PROVE ArmInv'
  BY <1>10 DEF FoldTurn, Mark
<1>11. ASSUME NEW r \in Request, FoldPanics(r) PROVE ArmInv'
  BY <1>11 DEF FoldPanics
<1>12. ASSUME NEW r \in Request, SkipTurn(r) PROVE ArmInv'
  BY <1>12 DEF SkipTurn
<1>13. ASSUME NEW r \in Request, CompleteIngest(r) PROVE ArmInv'
  BY <1>13 DEF CompleteIngest, NextTurn
<1> QED
  BY <1>1, <1>2, <1>3, <1>4, <1>5, <1>6, <1>7, <1>8, <1>9, <1>10, <1>11,
     <1>12, <1>13 DEF Next

(* No request waits for a flush that nobody will run, for any set of       *)
(* requests (commit.rs, arm_flush and flush).                              *)
THEOREM NobodyIsStranded == Spec => []NoStrandedWaiter
<1>1. ArmInv => NoStrandedWaiter
  BY DEF ArmInv
<1> QED
  BY TypeInit, TypeStep, ArmInit, ArmStep, <1>1, PTL DEF Spec
-----------------------------------------------------------------------------
Folded(r) == \E i \in 1..Len(mined) : mined[i] = seqOf[r]

(* The gate serialises the turns: sequence numbers are distinct, a frame   *)
(* whose turn has not come stands at or above the gate, the one in its     *)
(* turn stands exactly there, and the finished ones below.  Whatever the   *)
(* miner has was synced and is below every frame still to be mined.        *)
TurnInv ==
  /\ \A r, q \in Request : seqOf[r] = seqOf[q] /\ seqOf[r] # 0 => r = q
  /\ \A r \in Request : seqOf[r] <= appended_seq
  /\ \A r \in Request : pc[r] = "new" => seqOf[r] = 0
  /\ \A r \in Request : pc[r] \in {"appended", "waiting", "covered"} => gate <= seqOf[r]
  /\ \A r \in Request : pc[r] \in {"turn", "answered"} => seqOf[r] = gate
  /\ \A r \in Request : pc[r] = "done" => seqOf[r] < gate
  /\ gate <= next_seq
  /\ \A r \in Request : pc[r] \in {"answered", "done"} /\ result[r] = "ok" => Folded(r)
  /\ \A i \in 1..Len(mined) : mined[i] <= synced
  /\ \A r \in Request : pc[r] \in {"appended", "waiting", "covered", "turn"} =>
       \A i \in 1..Len(mined) : mined[i] < seqOf[r]
  /\ \A i, j \in 1..Len(mined) : i < j => mined[i] < mined[j]
  /\ last_durable <= synced
  /\ MarkCoversOnlyFoldedFrames

(* No turn is under way at first. *)
LEMMA TurnInit == Init => TurnInv
<1> SUFFICES ASSUME Init PROVE TurnInv
  OBVIOUS
<1>1. Len(mined) = 0
  BY DEF Init
<1> QED
  BY <1>1 DEF Init, TurnInv, MarkCoversOnlyFoldedFrames, Folded

(* A step that gives the miner nothing, moves neither the mark nor the     *)
(* gate, and hands out no sequence number.                                 *)
LEMMA TurnQuiet ==
  ASSUME TypeOK, TypeOK', DurInv, TurnInv,
         UNCHANGED <<seqOf, mined, last_durable, gate, next_seq, appended_seq>>,
         synced <= synced',
         \A r \in Request :
           \/ pc'[r] = pc[r] /\ result'[r] = result[r]
           \/ pc[r] = "new" /\ pc'[r] = "done" /\ result'[r] = "error"
           \/ pc[r] \in {"appended", "waiting"} /\ pc'[r] \in {"waiting", "covered"}
           \/ pc[r] = "covered" /\ pc'[r] = "turn" /\ seqOf[r] = gate /\ result'[r] = result[r]
           \/ pc[r] = "turn" /\ pc'[r] = "answered" /\ result'[r] = "error"
  PROVE  TurnInv'
<1> USE DEF TurnInv, DurInv, TypeOK, Stages
<1>1. \A r \in Request : Folded(r)' <=> Folded(r)
  BY DEF Folded
<1>2. \A r \in Request : pc'[r] \in {"answered", "done"} /\ result'[r] = "ok" => Folded(r)'
  BY <1>1
<1>3. MarkCoversOnlyFoldedFrames'
  BY <1>1 DEF MarkCoversOnlyFoldedFrames, Folded
<1>4. \A r \in Request : pc'[r] = "new" => seqOf'[r] = 0
  OBVIOUS
<1>5. \A r \in Request : pc'[r] \in {"appended", "waiting", "covered"} => gate' <= seqOf'[r]
  OBVIOUS
<1>6. \A r \in Request : pc'[r] \in {"turn", "answered"} => seqOf'[r] = gate'
  OBVIOUS
<1>7. ASSUME NEW r \in Request, pc'[r] = "done" PROVE seqOf'[r] < gate'
  <2>1. pc[r] = "done" \/ pc[r] = "new"
    BY <1>7
  <2>2. CASE pc[r] = "done"
    BY <2>2
  <2>3. CASE pc[r] = "new"
    <3>1. seqOf'[r] = 0 /\ gate' = gate /\ gate > 0
      BY <2>3
    <3> QED
      BY <3>1
  <2> QED
    BY <2>1, <2>2, <2>3
<1>8. \A i \in 1..Len(mined') : mined'[i] <= synced'
  OBVIOUS
<1>9. \A r \in Request : pc'[r] \in {"appended", "waiting", "covered", "turn"} =>
        \A i \in 1..Len(mined') : mined'[i] < seqOf'[r]
  OBVIOUS
<1> QED
  BY <1>2, <1>3, <1>4, <1>5, <1>6, <1>7, <1>8, <1>9

(* Every step keeps the turns in the order of their sequence numbers *)
(* (commit.rs, the ingest gate).                                     *)
LEMMA TurnStep == TypeOK /\ TypeOK' /\ DurInv /\ TurnInv /\ [Next]_vars => TurnInv'
<1> SUFFICES ASSUME TypeOK, TypeOK', DurInv, TurnInv, [Next]_vars PROVE TurnInv'
  OBVIOUS
<1> USE DEF flushState
<1>0. /\ seqOf \in [Request -> Nat] /\ next_seq \in Nat /\ appended_seq \in Nat
      /\ gate \in Nat /\ synced \in Nat /\ last_durable \in Nat /\ mined \in Seq(Nat)
      /\ Len(mined) \in Nat /\ \A i \in 1..Len(mined) : mined[i] \in Nat
  BY DEF TypeOK
<1>1. CASE UNCHANGED vars
  BY <1>1, TurnQuiet DEF vars, TypeOK
<1>2. ASSUME NEW r \in Request, AppendFails(r) PROVE TurnInv'
  BY <1>2, TurnQuiet DEF AppendFails, TypeOK
<1>3. ASSUME NEW r \in Request, AppendFrame(r) PROVE TurnInv'
  <2>1. /\ pc[r] = "new" /\ pc'[r] = "appended" /\ seqOf'[r] = next_seq
        /\ \A q \in Request \ {r} : pc'[q] = pc[q] /\ seqOf'[q] = seqOf[q]
        /\ next_seq' = next_seq + 1 /\ appended_seq' = next_seq
        /\ UNCHANGED <<result, gate, synced, mined, last_durable>>
    BY <1>3 DEF AppendFrame, TypeOK
  <2>2. /\ \A q \in Request : seqOf[q] < next_seq
        /\ synced < next_seq /\ last_durable < next_seq /\ gate <= next_seq
        /\ \A i \in 1..Len(mined) : mined[i] < next_seq
    <3>1. appended_seq < next_seq /\ synced <= appended_seq
      BY <1>0 DEF DurInv
    <3> QED
      BY <1>0, <3>1 DEF TurnInv
  <2>3. \A q \in Request \ {r} : Folded(q)' <=> Folded(q)
    BY <2>1 DEF Folded
  <2>4. MarkCoversOnlyFoldedFrames'
    <3> SUFFICES ASSUME NEW q \in Request, seqOf'[q] \in 1..(last_durable')
                 PROVE  /\ pc'[q] \in {"answered", "done"}
                        /\ result'[q] = "ok" => Folded(q)'
      BY DEF MarkCoversOnlyFoldedFrames, Folded
    <3>1. q # r
      BY <1>0, <2>1, <2>2
    <3> QED
      BY <2>1, <2>3, <3>1 DEF TurnInv, MarkCoversOnlyFoldedFrames, Folded
  <2>5. \A q \in Request : pc'[q] \in {"answered", "done"} /\ result'[q] = "ok" => Folded(q)'
    BY <2>1, <2>3 DEF TurnInv
  <2>6. \A p, q \in Request : seqOf'[p] = seqOf'[q] /\ seqOf'[p] # 0 => p = q
    BY <1>0, <2>1, <2>2 DEF TurnInv
  <2>7. \A q \in Request : seqOf'[q] <= appended_seq'
    BY <1>0, <2>1, <2>2
  <2>8. \A q \in Request : pc'[q] \in {"appended", "waiting", "covered"} => gate' <= seqOf'[q]
    BY <2>1, <2>2 DEF TurnInv
  <2>9. \A q \in Request : pc'[q] \in {"appended", "waiting", "covered", "turn"} =>
          \A i \in 1..Len(mined') : mined'[i] < seqOf'[q]
    BY <2>1, <2>2 DEF TurnInv
  <2>10. /\ gate' <= next_seq' /\ last_durable' <= synced'
         /\ \A i \in 1..Len(mined') : mined'[i] <= synced'
         /\ \A i, j \in 1..Len(mined') : i < j => mined'[i] < mined'[j]
    BY <1>0, <2>1, <2>2 DEF TurnInv
  <2>11. /\ \A q \in Request : pc'[q] = "new" => seqOf'[q] = 0
         /\ \A q \in Request : pc'[q] \in {"turn", "answered"} => seqOf'[q] = gate'
         /\ \A q \in Request : pc'[q] = "done" => seqOf'[q] < gate'
    BY <2>1 DEF TurnInv
  <2> QED
    BY <2>4, <2>5, <2>6, <2>7, <2>8, <2>9, <2>10, <2>11 DEF TurnInv
<1>4. ASSUME NEW r \in Request, ArmFlush(r) PROVE TurnInv'
  BY <1>4, TurnQuiet DEF ArmFlush, TypeOK
<1>5. ASSUME NEW r \in Request, FlushCapture(r) PROVE TurnInv'
  BY <1>5, TurnQuiet DEF FlushCapture, TypeOK
<1>6. ASSUME NEW r \in Request, FlushSync(r) PROVE TurnInv'
  BY <1>6, TurnQuiet DEF FlushSync, Frames, TypeOK, DurInv
<1>7. ASSUME NEW r \in Request, FlushPublish(r) PROVE TurnInv'
  BY <1>7, TurnQuiet DEF FlushPublish, TypeOK
<1>8. ASSUME NEW r \in Request, Observe(r) PROVE TurnInv'
  BY <1>8, TurnQuiet DEF Observe, TypeOK
<1>9. ASSUME NEW r \in Request, TakeTurn(r) PROVE TurnInv'
  <2>1. seqOf[r] = gate
    BY <1>9 DEF TakeTurn, TurnReached, TurnInv, TypeOK
  <2> QED
    BY <1>9, <2>1, TurnQuiet DEF TakeTurn, TypeOK
<1>10. ASSUME NEW r \in Request, FoldTurn(r) \/ FoldPanics(r) PROVE TurnInv'
  <2>1. /\ pc[r] = "turn" /\ result[r] = "ok" /\ pc'[r] = "answered"
        /\ \A q \in Request \ {r} : pc'[q] = pc[q] /\ result'[q] = result[q]
        /\ mined' = Append(mined, seqOf[r])
        /\ last_durable' \in {last_durable, seqOf[r]}
        /\ UNCHANGED <<seqOf, gate, synced, next_seq, appended_seq>>
    BY <1>10 DEF FoldTurn, FoldPanics, Mark, TypeOK
  <2>2. seqOf[r] = gate /\ seqOf[r] <= synced
    BY <2>1 DEF TurnInv, DurInv, AckImpliesDurable
  <2>3. /\ Len(mined') = Len(mined) + 1
        /\ \A i \in 1..Len(mined) : mined'[i] = mined[i]
        /\ mined'[Len(mined) + 1] = seqOf[r]
    BY <2>1 DEF TypeOK
  <2>4. \A q \in Request : Folded(q) => Folded(q)'
    BY <2>1, <2>3 DEF Folded, TypeOK
  <2>5. Folded(r)'
    BY <2>1, <2>3 DEF Folded, TypeOK
  <2>6. \A q \in Request \ {r} :
          pc[q] \in {"appended", "waiting", "covered", "turn"} => gate < seqOf[q]
    BY <2>1, <2>2 DEF TurnInv, TypeOK
  <2>7. ASSUME NEW q \in Request \ {r}, seqOf[q] \in 1..gate PROVE pc[q] = "done"
    <3>1. pc[q] \in Stages
      BY DEF TypeOK
    <3>2. seqOf[q] # gate /\ seqOf[q] # 0
      BY <1>0, <2>2, <2>7 DEF TurnInv
    <3>3. pc[q] \notin {"turn", "answered", "new"}
      BY <3>2 DEF TurnInv
    <3>4. pc[q] \notin {"appended", "waiting", "covered"}
      BY <1>0, <2>6, <2>7
    <3> QED
      BY <3>1, <3>3, <3>4 DEF Stages
  <2>8. \A q \in Request : pc'[q] \in {"answered", "done"} /\ result'[q] = "ok" => Folded(q)'
    BY <2>1, <2>4, <2>5 DEF TurnInv
  <2>9. MarkCoversOnlyFoldedFrames'
    <3> SUFFICES ASSUME NEW q \in Request, seqOf[q] \in 1..(last_durable')
                 PROVE  pc'[q] \in {"answered", "done"}
      BY <2>1, <2>8 DEF MarkCoversOnlyFoldedFrames, Folded
    <3>1. CASE q = r
      BY <2>1, <3>1
    <3>2. CASE q # r /\ last_durable' = seqOf[r]
      BY <2>1, <2>2, <2>7, <3>2
    <3>3. CASE q # r /\ last_durable' = last_durable
      BY <2>1, <3>3 DEF TurnInv, MarkCoversOnlyFoldedFrames
    <3> QED
      BY <2>1, <3>1, <3>2, <3>3
  <2>10. \A i \in 1..Len(mined') : mined'[i] <= synced'
    BY <1>0, <2>1, <2>2, <2>3 DEF TurnInv
  <2>11. \A q \in Request : pc'[q] \in {"appended", "waiting", "covered", "turn"} =>
           \A i \in 1..Len(mined') : mined'[i] < seqOf'[q]
    <3> SUFFICES ASSUME NEW q \in Request,
                        pc'[q] \in {"appended", "waiting", "covered", "turn"},
                        NEW i \in 1..Len(mined')
                 PROVE  mined'[i] < seqOf'[q]
      OBVIOUS
    <3>1. q # r /\ pc[q] \in {"appended", "waiting", "covered", "turn"} /\ seqOf'[q] = seqOf[q]
      BY <2>1
    <3>2. CASE i \in 1..Len(mined)
      BY <2>3, <3>1, <3>2 DEF TurnInv
    <3>3. CASE i = Len(mined) + 1
      BY <2>2, <2>3, <2>6, <3>1, <3>3
    <3> QED
      BY <1>0, <2>3, <3>2, <3>3
  <2>12. ASSUME NEW i \in 1..Len(mined'), NEW j \in 1..Len(mined'), i < j
         PROVE  mined'[i] < mined'[j]
    <3>1. i \in 1..Len(mined) /\ mined'[i] = mined[i]
      BY <1>0, <2>3, <2>12
    <3>2. CASE j \in 1..Len(mined)
      BY <2>3, <2>12, <3>1, <3>2 DEF TurnInv
    <3>3. CASE j = Len(mined) + 1
      BY <2>1, <2>3, <3>1, <3>3 DEF TurnInv
    <3> QED
      BY <1>0, <2>3, <3>2, <3>3
  <2>13. last_durable' <= synced'
    BY <2>1, <2>2 DEF TurnInv
  <2>14. /\ \A q \in Request : pc'[q] = "new" => seqOf'[q] = 0
         /\ \A q \in Request : pc'[q] \in {"appended", "waiting", "covered"} => gate' <= seqOf'[q]
         /\ \A q \in Request : pc'[q] \in {"turn", "answered"} => seqOf'[q] = gate'
         /\ \A q \in Request : pc'[q] = "done" => seqOf'[q] < gate'
    BY <2>1, <2>2 DEF TurnInv
  <2> QED
    BY <2>1, <2>8, <2>9, <2>10, <2>11, <2>12, <2>13, <2>14 DEF TurnInv
<1>11. ASSUME NEW r \in Request, SkipTurn(r) PROVE TurnInv'
  BY <1>11, TurnQuiet DEF SkipTurn, TypeOK
<1>12. ASSUME NEW r \in Request, CompleteIngest(r) PROVE TurnInv'
  <2>1. /\ pc[r] = "answered" /\ pc'[r] = "done"
        /\ \A q \in Request \ {r} : pc'[q] = pc[q]
        /\ gate' = seqOf[r] + 1 /\ seqOf[r] = gate
        /\ UNCHANGED <<seqOf, result, synced, next_seq, appended_seq, mined, last_durable>>
    BY <1>12 DEF CompleteIngest, NextTurn, TurnInv, TypeOK
  <2>2. \A q \in Request \ {r} : seqOf[q] # gate
    BY <2>1 DEF TurnInv, TypeOK
  <2>3. \A q \in Request : Folded(q)' <=> Folded(q)
    BY <2>1 DEF Folded
  <2>4. MarkCoversOnlyFoldedFrames'
    BY <2>1, <2>3 DEF TurnInv, MarkCoversOnlyFoldedFrames, Folded
  <2>5. gate' <= next_seq'
    BY <2>1 DEF TurnInv, DurInv, TypeOK
  <2>6. \A q \in Request : pc'[q] \in {"answered", "done"} /\ result'[q] = "ok" => Folded(q)'
    BY <2>1, <2>3 DEF TurnInv
  <2>7. ASSUME NEW q \in Request, pc'[q] \in {"appended", "waiting", "covered"}
        PROVE  gate' <= seqOf'[q]
    <3>1. q # r /\ gate <= seqOf[q]
      BY <2>1, <2>7 DEF TurnInv
    <3> QED
      BY <1>0, <2>1, <2>2, <3>1
  <2>8. \A q \in Request : pc'[q] \in {"turn", "answered"} => seqOf'[q] = gate'
    BY <1>0, <2>1, <2>2 DEF TurnInv
  <2>9. \A q \in Request : pc'[q] = "done" => seqOf'[q] < gate'
    BY <1>0, <2>1, <2>2 DEF TurnInv
  <2>10. \A q \in Request : pc'[q] \in {"appended", "waiting", "covered", "turn"} =>
           \A i \in 1..Len(mined') : mined'[i] < seqOf'[q]
    BY <2>1 DEF TurnInv
  <2> QED
    BY <2>1, <2>4, <2>5, <2>6, <2>7, <2>8, <2>9, <2>10 DEF TurnInv
<1> QED
  BY <1>1, <1>2, <1>3, <1>4, <1>5, <1>6, <1>7, <1>8, <1>9, <1>10, <1>11, <1>12 DEF Next

(* The miner is given the synced frames in append order, each once, and    *)
(* the acknowledged mark covers only frames whose turn is over, for any    *)
(* set of requests (pipeline.rs, ingest_bound; commit.rs, the gate).       *)
THEOREM HandoffIsOrdered == Spec => []HandoffInv
<1>1. TypeOK /\ TurnInv => HandoffInv
  BY DEF TurnInv, HandoffInv, MinedInAppendOrder
<1> QED
  BY TypeInit, TypeStep, DurInit, DurStep, TurnInit, TurnStep, <1>1, PTL DEF Spec

-----------------------------------------------------------------------------
(* The lane.                                                              *)

(* Whose hands hold an item. *)
Holding == {"received", "spaced", "serving"}

(* A generation not yet started has no threads and an empty channel. *)
FreshInv ==
  /\ \A g \in Gen : g >= generations => queue[g] = <<>>
  /\ \A t \in Thread : t[1] >= generations <=> thread[t] = "none"
  /\ slot = "Open" => open < generations

(* The slot can join every thread that runs, and a drop that returned has joined them. *)
JoinInv ==
  /\ \A t \in Thread : Runs(t) => t \in handles
  /\ slot = "Joined" => \A t \in Thread : ~Runs(t)

(* An accepted item is in one place: a place of a channel or the hands of a thread. *)
PlaceInv ==
  /\ \A t \in Thread : held[t] # NoItem <=> thread[t] \in Holding
  /\ \A t \in Thread : held[t] # NoItem => item[held[t]] = "accepted"
  /\ \A g \in Gen : \A k \in 1..Len(queue[g]) : item[queue[g][k]] = "accepted"
  /\ \A i \in Item : item[i] = "accepted" =>
       \/ \E t \in Thread : held[t] = i
       \/ \E g \in Gen : \E k \in 1..Len(queue[g]) : queue[g][k] = i
  /\ mutex # NoItem => item[mutex] = "full"

(* No two places hold the same item. *)
OnceInv ==
  /\ \A t, u \in Thread : held[t] # NoItem /\ held[t] = held[u] => t = u
  /\ \A t \in Thread, g \in Gen : \A k \in 1..Len(queue[g]) : queue[g][k] # held[t]
  /\ \A g, h \in Gen : \A k \in 1..Len(queue[g]), l \in 1..Len(queue[h]) :
       queue[g][k] = queue[h][l] => g = h /\ k = l

(* The inductive invariant of the lane. *)
LaneIInv ==
  LaneTypeOK /\ OpenIsServed /\ NothingStranded /\ FreshInv /\ JoinInv /\ PlaceInv /\ OnceInv

(* What a thread can be doing. *)
ThreadStates ==
  {"none", "idle", "recv", "received", "spaced", "serving", "panicked", "closed", "retired",
   "drain", "gone"}
(* Where an item can be. *)
ItemStates ==
  {"out", "back", "full", "waiting", "woken", "accepted", "served", "unwound", "salvaged"}

(* What the lane's assumptions say of its constants. *)
LEMMA LaneConstants ==
  /\ NoItem \notin Item /\ Worker # {} /\ Capacity \in Nat /\ Capacity > 0 /\ MaxPanics \in Nat
  /\ \A g \in Gen : g \in Nat /\ g \in Int
  /\ 0 \in Gen
  /\ \A t \in Thread : t[1] \in Gen /\ t[2] \in Worker /\ t = <<t[1], t[2]>>
  /\ \A g \in Gen, w \in Worker : <<g, w>> \in Thread /\ <<g, w>>[1] = g /\ <<g, w>>[2] = w
BY LaneAssumption DEF Gen, Thread

(* A fresh lane satisfies LaneIInv. *)
LEMMA LaneInitInv == LaneInit => LaneIInv
<1> SUFFICES ASSUME LaneInit PROVE LaneIInv
  OBVIOUS
<1>1. <<>> \in Seq(Item) /\ Len(<<>>) = 0
  BY EmptySeq
<1> USE LaneConstants, <1>1 DEF LaneInit
<1>2. LaneTypeOK
  BY DEF LaneTypeOK
<1>3. OpenIsServed /\ NothingStranded
  BY DEF OpenIsServed, NothingStranded
<1>4. FreshInv /\ JoinInv
  <2>1. \A t \in Thread : t[1] >= 0
    BY LaneConstants
  <2> QED
    BY <2>1 DEF FreshInv, JoinInv, Runs
<1>5. PlaceInv /\ OnceInv
  BY DEF PlaceInv, OnceInv, Holding
<1> QED
  BY <1>2, <1>3, <1>4, <1>5 DEF LaneIInv

(* A channel one item longer. *)
LEMMA Appended ==
  ASSUME NEW s \in Seq(Item), NEW i \in Item
  PROVE  LET u == Append(s, i)
         IN  /\ u \in Seq(Item) /\ Len(u) = Len(s) + 1 /\ Len(s) \in Nat /\ u # <<>>
             /\ u[Len(s) + 1] = i
             /\ \A k \in 1..Len(s) : u[k] = s[k] /\ s[k] \in Item
BY AppendProperties, LenProperties, ElementOfSeq, EmptySeq

(* A channel without its first item. *)
LEMMA Popped ==
  ASSUME NEW s \in Seq(Item), s # <<>>
  PROVE  /\ Tail(s) \in Seq(Item) /\ Len(Tail(s)) = Len(s) - 1 /\ Len(s) \in Nat /\ Len(s) > 0
         /\ Head(s) = s[1] /\ s[1] \in Item
         /\ \A k \in 1..(Len(s) - 1) : Tail(s)[k] = s[k + 1]
         /\ \A k \in 1..Len(s) : s[k] \in Item
BY HeadTailProperties, LenProperties, ElementOfSeq, EmptySeq

(* What an enqueue does to the places. *)
LEMMA EnqueueKeeps ==
  ASSUME LaneIInv, NEW i \in Item, item[i] # "accepted", NEW g \in Gen,
         Len(queue[g]) < Capacity, Enqueue(i, g), held' = held,
         item' \in [Item -> ItemStates], item'[i] = "accepted",
         \A j \in Item \ {i} : item'[j] = "accepted" <=> item[j] = "accepted",
         \A t \in Thread : thread'[t] \in Holding <=> thread[t] \in Holding,
         mutex' # NoItem => mutex' \in Item /\ item'[mutex'] = "full"
  PROVE  /\ queue' \in [Gen -> Seq(Item)] /\ \A h \in Gen : Len(queue'[h]) <= Capacity
         /\ \A h \in Gen \ {g} : queue'[h] = queue[h]
         /\ queue'[g] # <<>>
         /\ PlaceInv' /\ OnceInv'
<1>t. /\ queue \in [Gen -> Seq(Item)] /\ \A h \in Gen : Len(queue[h]) <= Capacity
      /\ held \in [Thread -> Item \cup {NoItem}]
  BY DEF LaneIInv, LaneTypeOK
<1> DEFINE n == Len(queue[g])
<1>1. /\ queue' \in [Gen -> Seq(Item)]
      /\ \A h \in Gen \ {g} : queue'[h] = queue[h]
      /\ queue'[g] # <<>> /\ n \in Nat /\ Len(queue'[g]) = n + 1 /\ queue'[g][n + 1] = i
      /\ \A k \in 1..n : queue'[g][k] = queue[g][k]
  <2>1. queue' = [queue EXCEPT ![g] = Append(queue[g], i)]
    BY DEF Enqueue
  <2>2. queue'[g] = Append(queue[g], i)
    BY <2>1, <1>t
  <2>3. queue[g] \in Seq(Item)
    BY <1>t
  <2>4. Append(queue[g], i) \in Seq(Item)
    BY <2>3, Appended
  <2>5. queue' \in [Gen -> Seq(Item)] /\ \A h \in Gen \ {g} : queue'[h] = queue[h]
    BY <2>1, <2>4, <1>t
  <2>6. LET u == Append(queue[g], i)
        IN  /\ Len(u) = n + 1 /\ n \in Nat /\ u # <<>> /\ u[n + 1] = i
            /\ \A k \in 1..n : u[k] = queue[g][k]
    BY <2>3, Appended
  <2> QED
    BY <2>2, <2>5, <2>6
<1>2. \A h \in Gen : \A k \in 1..Len(queue'[h]) :
        \/ h = g /\ k = n + 1 /\ queue'[h][k] = i
        \/ k \in 1..Len(queue[h]) /\ queue'[h][k] = queue[h][k]
  <2> SUFFICES ASSUME NEW h \in Gen, NEW k \in 1..Len(queue'[h])
               PROVE  \/ h = g /\ k = n + 1 /\ queue'[h][k] = i
                      \/ k \in 1..Len(queue[h]) /\ queue'[h][k] = queue[h][k]
    OBVIOUS
  <2>1. CASE h = g
    BY <2>1, <1>1
  <2>2. CASE h # g
    BY <2>2, <1>1
  <2> QED
    BY <2>1, <2>2
<1>3. \A h \in Gen : \A k \in 1..Len(queue[h]) :
        k \in 1..Len(queue'[h]) /\ queue'[h][k] = queue[h][k]
  <2> SUFFICES ASSUME NEW h \in Gen, NEW k \in 1..Len(queue[h])
               PROVE  k \in 1..Len(queue'[h]) /\ queue'[h][k] = queue[h][k]
    OBVIOUS
  <2>1. CASE h = g
    BY <2>1, <1>1
  <2>2. CASE h # g
    BY <2>2, <1>1
  <2> QED
    BY <2>1, <2>2
<1>4. n + 1 \in 1..Len(queue'[g])
  BY <1>1
<1>5. \A h \in Gen : \A k \in 1..Len(queue[h]) : queue[h][k] \in Item
  BY <1>t, ElementOfSeq
<1>6. /\ \A t \in Thread : held[t] # i
      /\ \A h \in Gen : \A k \in 1..Len(queue[h]) : queue[h][k] # i
  BY LaneConstants DEF LaneIInv, PlaceInv
<1>7. \A h \in Gen : Len(queue'[h]) <= Capacity
  BY <1>1, <1>t, LaneConstants
<1>8. PlaceInv'
  <2>1. \A t \in Thread : held'[t] # NoItem <=> thread'[t] \in Holding
    BY DEF LaneIInv, PlaceInv
  <2>2. \A t \in Thread : held'[t] # NoItem => item'[held'[t]] = "accepted"
    BY <1>t, <1>6 DEF LaneIInv, PlaceInv
  <2>3. \A h \in Gen : \A k \in 1..Len(queue'[h]) : item'[queue'[h][k]] = "accepted"
    <3>1. \A h \in Gen : \A k \in 1..Len(queue[h]) : item[queue[h][k]] = "accepted"
      BY DEF LaneIInv, PlaceInv
    <3>2. \A h \in Gen : \A k \in 1..Len(queue[h]) : item'[queue[h][k]] = "accepted"
      BY <3>1, <1>5, <1>6
    <3> QED
      BY <3>2, <1>2
  <2>4. ASSUME NEW j \in Item, item'[j] = "accepted"
        PROVE  \/ \E t \in Thread : held'[t] = j
               \/ \E h \in Gen : \E k \in 1..Len(queue'[h]) : queue'[h][k] = j
    <3>1. CASE j = i
      BY <3>1, <1>1, <1>4
    <3>2. CASE j # i
      <4>1. \/ \E t \in Thread : held[t] = j
            \/ \E h \in Gen : \E k \in 1..Len(queue[h]) : queue[h][k] = j
        BY <3>2, <2>4 DEF LaneIInv, PlaceInv
      <4> QED
        BY <4>1, <1>3
    <3> QED
      BY <3>1, <3>2
  <2> QED
    BY <2>1, <2>2, <2>3, <2>4 DEF PlaceInv
<1>9. OnceInv'
  <2>1. \A t, u \in Thread : held'[t] # NoItem /\ held'[t] = held'[u] => t = u
    BY DEF LaneIInv, OnceInv
  <2>2. \A t \in Thread, h \in Gen : \A k \in 1..Len(queue'[h]) : queue'[h][k] # held'[t]
    <3>1. \A t \in Thread, h \in Gen : \A k \in 1..Len(queue[h]) : queue[h][k] # held[t]
      BY DEF LaneIInv, OnceInv
    <3> QED
      BY <3>1, <1>2, <1>6
  <2>3. ASSUME NEW h \in Gen, NEW m \in Gen, NEW k \in 1..Len(queue'[h]), NEW l \in 1..Len(queue'[m]),
               queue'[h][k] = queue'[m][l]
        PROVE  h = m /\ k = l
    <3>1. \A a, b \in Gen : \A p \in 1..Len(queue[a]), q \in 1..Len(queue[b]) :
            queue[a][p] = queue[b][q] => a = b /\ p = q
      BY DEF LaneIInv, OnceInv
    <3>2. \/ h = g /\ k = n + 1 /\ queue'[h][k] = i
          \/ k \in 1..Len(queue[h]) /\ queue'[h][k] = queue[h][k]
      BY <1>2
    <3>3. \/ m = g /\ l = n + 1 /\ queue'[m][l] = i
          \/ l \in 1..Len(queue[m]) /\ queue'[m][l] = queue[m][l]
      BY <1>2
    <3>4. CASE h = g /\ k = n + 1 /\ queue'[h][k] = i
      <4>1. ~(l \in 1..Len(queue[m]) /\ queue'[m][l] = queue[m][l])
        BY <3>4, <2>3, <1>6
      <4> QED
        BY <4>1, <3>3, <3>4
    <3>5. CASE k \in 1..Len(queue[h]) /\ queue'[h][k] = queue[h][k]
      <4>1. ~(m = g /\ l = n + 1 /\ queue'[m][l] = i)
        BY <3>5, <2>3, <1>6
      <4>2. l \in 1..Len(queue[m]) /\ queue[h][k] = queue[m][l]
        BY <4>1, <3>3, <3>5, <2>3
      <4> QED
        BY <4>2, <3>1, <3>5
    <3> QED
      BY <3>2, <3>4, <3>5
  <2> QED
    BY <2>1, <2>2, <2>3 DEF OnceInv
<1> QED
  BY <1>1, <1>7, <1>8, <1>9

(* A step of one thread that neither takes nor settles an item. *)
LEMMA MoveKeeps ==
  ASSUME LaneIInv, NEW t \in Thread, NEW st \in ThreadStates \ {"none"}, Goes(t, st),
         thread[t] \notin {"none", "gone"}, thread[t] \in Holding <=> st \in Holding,
         st = "gone" => queue[t[1]] = <<>>,
         slot' = slot \/ (slot = "Open" /\ slot' = "Closed"),
         st \in {"closed", "retired", "drain", "gone"} => ~(slot' = "Open" /\ open = t[1]),
         item' = item \/ item' = Woken(item),
         UNCHANGED <<open, generations, handles, queue, held, mutex, panics>>
  PROVE  LaneIInv'
<1>t. LaneTypeOK
  BY DEF LaneIInv
<1>1. /\ thread' \in [Thread -> ThreadStates] /\ thread'[t] = st
      /\ \A u \in Thread \ {t} : thread'[u] = thread[u]
  BY <1>t DEF Goes, LaneTypeOK, ThreadStates
<1>2. /\ item' \in [Item -> ItemStates]
      /\ \A i \in Item : item'[i] = "accepted" <=> item[i] = "accepted"
      /\ \A i \in Item : item[i] = "full" => item'[i] = "full"
  BY <1>t DEF LaneTypeOK, ItemStates, Woken
<1>3. LaneTypeOK'
  BY <1>t, <1>1, <1>2 DEF LaneTypeOK, ThreadStates, ItemStates
<1>4. OpenIsServed'
  <2> SUFFICES ASSUME slot' = "Open", NEW w \in Worker
               PROVE  thread'[<<open, w>>] \notin {"none", "closed", "retired", "drain", "gone"}
    BY DEF OpenIsServed
  <2>1. slot = "Open" /\ <<open, w>> \in Thread /\ <<open, w>>[1] = open
    BY <1>t, LaneConstants DEF LaneTypeOK
  <2>2. thread[<<open, w>>] \notin {"none", "closed", "retired", "drain", "gone"}
    BY <2>1 DEF LaneIInv, OpenIsServed
  <2> QED
    BY <2>1, <2>2, <1>1
<1>5. \A u \in Thread : Runs(u)' => Runs(u)
  BY <1>1 DEF Runs
<1>6. \A u \in Thread : u # t \/ st # "gone" => (Runs(u)' <=> Runs(u))
  BY <1>1 DEF Runs
<1>7. NothingStranded'
  <2> SUFFICES ASSUME NEW g \in Gen, queue[g] # <<>>
               PROVE  \E w \in Worker : Runs(<<g, w>>)'
    BY DEF NothingStranded
  <2>1. PICK w \in Worker : Runs(<<g, w>>)
    BY DEF LaneIInv, NothingStranded
  <2>2. <<g, w>> # t \/ st # "gone"
    BY LaneConstants
  <2> QED
    BY <2>1, <2>2, <1>6, LaneConstants
<1>8. FreshInv'
  BY <1>1, LaneConstants DEF LaneIInv, FreshInv, LaneTypeOK
<1>9. JoinInv'
  BY <1>5 DEF LaneIInv, JoinInv, LaneTypeOK
<1>10. PlaceInv'
  <2>1. \A u \in Thread : held'[u] # NoItem <=> thread'[u] \in Holding
    BY <1>1 DEF LaneIInv, PlaceInv
  <2>2. \A u \in Thread : held[u] # NoItem => item'[held[u]] = "accepted"
    BY <1>2, <1>t DEF LaneIInv, PlaceInv, LaneTypeOK
  <2>3. \A g \in Gen : \A k \in 1..Len(queue[g]) : item'[queue[g][k]] = "accepted"
    <3>1. \A g \in Gen : \A k \in 1..Len(queue[g]) : queue[g][k] \in Item
      BY <1>t, ElementOfSeq DEF LaneTypeOK
    <3> QED
      BY <3>1, <1>2 DEF LaneIInv, PlaceInv
  <2>4. mutex # NoItem => item'[mutex] = "full"
    BY <1>2, <1>t DEF LaneIInv, PlaceInv, LaneTypeOK
  <2> QED
    BY <2>1, <2>2, <2>3, <2>4, <1>2 DEF LaneIInv, PlaceInv
<1>11. OnceInv'
  BY DEF LaneIInv, OnceInv
<1> QED
  BY <1>3, <1>4, <1>7, <1>8, <1>9, <1>10, <1>11 DEF LaneIInv

(* A thread that holds an item settles it. *)
LEMMA SettleKeeps ==
  ASSUME LaneIInv, NEW t \in Thread, NEW how \in {"served", "unwound"}, NEW st \in {"idle", "panicked"},
         thread[t] = "serving", Settle(t, how), Goes(t, st), panics' \in 0..MaxPanics,
         UNCHANGED <<slots, queue, mutex>>
  PROVE  LaneIInv'
<1>t. LaneTypeOK
  BY DEF LaneIInv
<1>1. /\ thread' \in [Thread -> ThreadStates] /\ thread'[t] = st
      /\ \A u \in Thread \ {t} : thread'[u] = thread[u]
  BY <1>t DEF Goes, LaneTypeOK, ThreadStates
<1>2. /\ held[t] \in Item
      /\ held' \in [Thread -> Item \cup {NoItem}] /\ held'[t] = NoItem
      /\ \A u \in Thread \ {t} : held'[u] = held[u]
  BY <1>t DEF LaneTypeOK, Settle, LaneIInv, PlaceInv, Holding
<1>3. /\ item' \in [Item -> ItemStates] /\ item'[held[t]] = how
      /\ \A i \in Item \ {held[t]} : item'[i] = item[i]
      /\ item[held[t]] = "accepted"
  BY <1>2, <1>t, LaneConstants DEF LaneTypeOK, ItemStates, Settle, LaneIInv, PlaceInv
<1>4. UNCHANGED <<slot, open, generations, handles>>
  BY DEF slots
<1>5. LaneTypeOK'
  BY <1>t, <1>1, <1>2, <1>3, <1>4 DEF LaneTypeOK, ThreadStates, ItemStates
<1>6. \A u \in Thread : Runs(u)' <=> Runs(u)
  BY <1>1 DEF Runs
<1>7. OpenIsServed' /\ NothingStranded'
  <2>1. OpenIsServed'
    BY <1>1, <1>4, <1>t, LaneConstants DEF LaneIInv, OpenIsServed, LaneTypeOK
  <2>2. NothingStranded'
    BY <1>6, LaneConstants DEF LaneIInv, NothingStranded
  <2> QED
    BY <2>1, <2>2
<1>8. FreshInv' /\ JoinInv'
  <2>1. FreshInv'
    BY <1>1, <1>4, LaneConstants DEF LaneIInv, FreshInv
  <2>2. JoinInv'
    BY <1>6, <1>4 DEF LaneIInv, JoinInv
  <2> QED
    BY <2>1, <2>2
<1>9. PlaceInv'
  <2>1. \A u \in Thread : held'[u] # NoItem <=> thread'[u] \in Holding
    BY <1>1, <1>2 DEF LaneIInv, PlaceInv, Holding
  <2>2. \A u \in Thread : held'[u] # NoItem => item'[held'[u]] = "accepted"
    <3> SUFFICES ASSUME NEW u \in Thread, held'[u] # NoItem PROVE item'[held'[u]] = "accepted"
      OBVIOUS
    <3>1. u # t /\ held'[u] = held[u] /\ held[u] \in Item /\ item[held[u]] = "accepted"
      BY <1>2, <1>t DEF LaneIInv, PlaceInv, LaneTypeOK
    <3>2. held[u] # held[t]
      BY <3>1, <1>2, LaneConstants DEF LaneIInv, OnceInv
    <3> QED
      BY <3>1, <3>2, <1>3
  <2>3. \A g \in Gen : \A k \in 1..Len(queue[g]) : item'[queue[g][k]] = "accepted"
    <3> SUFFICES ASSUME NEW g \in Gen, NEW k \in 1..Len(queue[g]) PROVE item'[queue[g][k]] = "accepted"
      OBVIOUS
    <3>1. queue[g][k] \in Item
      BY <1>t, ElementOfSeq DEF LaneTypeOK
    <3>2. queue[g][k] # held[t] /\ item[queue[g][k]] = "accepted"
      BY DEF LaneIInv, PlaceInv, OnceInv
    <3> QED
      BY <3>1, <3>2, <1>3
  <2>4. ASSUME NEW j \in Item, item'[j] = "accepted"
        PROVE  \/ \E u \in Thread : held'[u] = j
               \/ \E g \in Gen : \E k \in 1..Len(queue'[g]) : queue'[g][k] = j
    <3>1. j # held[t] /\ item[j] = "accepted"
      BY <2>4, <1>3
    <3>2. \/ \E u \in Thread : held[u] = j
          \/ \E g \in Gen : \E k \in 1..Len(queue[g]) : queue[g][k] = j
      BY <3>1 DEF LaneIInv, PlaceInv
    <3> QED
      BY <3>1, <3>2, <1>2
  <2>5. mutex # NoItem => item'[mutex] = "full"
    BY <1>3, <1>t DEF LaneIInv, PlaceInv, LaneTypeOK
  <2> QED
    BY <2>1, <2>2, <2>3, <2>4, <2>5 DEF PlaceInv
<1>10. OnceInv'
  <2>1. \A u, v \in Thread : held'[u] # NoItem /\ held'[u] = held'[v] => u = v
    BY <1>2 DEF LaneIInv, OnceInv
  <2>2. \A u \in Thread, g \in Gen : \A k \in 1..Len(queue[g]) : queue[g][k] # held'[u]
    <3>1. \A g \in Gen : \A k \in 1..Len(queue[g]) : queue[g][k] \in Item
      BY <1>t, ElementOfSeq DEF LaneTypeOK
    <3>2. \A u \in Thread : held'[u] = held[u] \/ held'[u] = NoItem
      BY <1>2
    <3>3. \A u \in Thread, g \in Gen : \A k \in 1..Len(queue[g]) : queue[g][k] # held[u]
      BY DEF LaneIInv, OnceInv
    <3> QED
      BY <3>1, <3>2, <3>3, LaneConstants
  <2> QED
    BY <2>1, <2>2 DEF LaneIInv, OnceInv
<1> QED
  BY <1>5, <1>7, <1>8, <1>9, <1>10 DEF LaneIInv

(* A thread takes the first item of its channel: into its hands, or to the salvage. *)
LEMMA PopKeeps ==
  ASSUME LaneIInv, NEW t \in Thread, queue[t[1]] # <<>>,
         queue' = [queue EXCEPT ![t[1]] = Tail(queue[t[1]])],
         \/ /\ thread[t] = "recv" /\ Goes(t, "received") /\ item' = item
            /\ held' = [held EXCEPT ![t] = Head(queue[t[1]])]
         \/ /\ thread[t] = "drain" /\ UNCHANGED <<thread, held>>
            /\ item' = [item EXCEPT ![Head(queue[t[1]])] = "salvaged"],
         UNCHANGED <<slots, mutex, panics>>
  PROVE  LaneIInv'
<1> DEFINE g == t[1]
           x == queue[g][1]
           n == Len(queue[g])
<1>t. LaneTypeOK
  BY DEF LaneIInv
<1>g. g \in Gen /\ queue[g] \in Seq(Item)
  BY <1>t, LaneConstants DEF LaneTypeOK
<1>1. /\ queue' \in [Gen -> Seq(Item)]
      /\ \A h \in Gen \ {g} : queue'[h] = queue[h]
      /\ n \in Nat /\ n > 0 /\ Len(queue'[g]) = n - 1
      /\ \A k \in 1..(n - 1) : queue'[g][k] = queue[g][k + 1]
      /\ x \in Item /\ Head(queue[g]) = x
  <2>1. queue'[g] = Tail(queue[g])
    BY <1>t, <1>g DEF LaneTypeOK
  <2>2. Tail(queue[g]) \in Seq(Item)
    BY <1>g, Popped
  <2>3. queue' \in [Gen -> Seq(Item)] /\ \A h \in Gen \ {g} : queue'[h] = queue[h]
    BY <2>2, <1>t, <1>g DEF LaneTypeOK
  <2> QED
    BY <2>1, <2>3, <1>g, Popped
<1>2. /\ thread' \in [Thread -> ThreadStates]
      /\ thread'[t] = "received" \/ thread'[t] = thread[t]
      /\ \A u \in Thread \ {t} : thread'[u] = thread[u]
  BY <1>t DEF Goes, LaneTypeOK, ThreadStates
<1>3. thread[t] \in {"recv", "drain"} /\ held[t] = NoItem
  BY DEF LaneIInv, PlaceInv, Holding
<1>4. UNCHANGED <<slot, open, generations, handles>>
  BY DEF slots
(* Where the items of the channels were. *)
<1>5. \A h \in Gen : \A k \in 1..Len(queue'[h]) :
        \E l \in 1..Len(queue[h]) : /\ queue'[h][k] = queue[h][l]
                                    /\ l = IF h = g THEN k + 1 ELSE k
  <2> SUFFICES ASSUME NEW h \in Gen, NEW k \in 1..Len(queue'[h])
               PROVE  \E l \in 1..Len(queue[h]) : /\ queue'[h][k] = queue[h][l]
                                                  /\ l = IF h = g THEN k + 1 ELSE k
    OBVIOUS
  <2>1. CASE h = g
    <3>1. k \in 1..(n - 1) /\ k + 1 \in 1..n
      BY <2>1, <1>1
    <3> QED
      BY <3>1, <2>1, <1>1
  <2>2. CASE h # g
    BY <2>2, <1>1
  <2> QED
    BY <2>1, <2>2
<1>6. \A h \in Gen : \A k \in 1..Len(queue[h]) :
        queue[h][k] # x => \E l \in 1..Len(queue'[h]) : queue'[h][l] = queue[h][k]
  <2> SUFFICES ASSUME NEW h \in Gen, NEW k \in 1..Len(queue[h]), queue[h][k] # x
               PROVE  \E l \in 1..Len(queue'[h]) : queue'[h][l] = queue[h][k]
    OBVIOUS
  <2>1. CASE h = g
    <3>1. k # 1
      BY <2>1
    <3>2. k - 1 \in 1..(n - 1)
      BY <2>1, <3>1, <1>1
    <3>3. queue'[g][k - 1] = queue[g][(k - 1) + 1] /\ (k - 1) + 1 = k
      BY <3>2, <1>1, <2>1
    <3> QED
      BY <3>2, <3>3, <2>1, <1>1
  <2>2. CASE h # g
    BY <2>2, <1>1
  <2> QED
    BY <2>1, <2>2
<1>7. \A h \in Gen : \A k \in 1..Len(queue[h]) : queue[h][k] \in Item /\ item[queue[h][k]] = "accepted"
  BY <1>t, ElementOfSeq DEF LaneTypeOK, LaneIInv, PlaceInv
<1>8. 1 \in 1..Len(queue[g]) /\ item[x] = "accepted" /\ \A u \in Thread : held[u] # x
  <2>1. 1 \in 1..Len(queue[g])
    BY <1>1
  <2> QED
    BY <2>1, <1>g DEF LaneIInv, PlaceInv, OnceInv
<1>9. \A h \in Gen : \A k \in 1..Len(queue'[h]) : queue'[h][k] # x
  <2> SUFFICES ASSUME NEW h \in Gen, NEW k \in 1..Len(queue'[h]), queue'[h][k] = x
               PROVE  FALSE
    OBVIOUS
  <2>1. PICK l \in 1..Len(queue[h]) : /\ queue'[h][k] = queue[h][l]
                                      /\ l = IF h = g THEN k + 1 ELSE k
    BY <1>5
  <2>2. h = g /\ l = 1
    BY <2>1, <1>8, <1>g DEF LaneIInv, OnceInv
  <2> QED
    BY <2>1, <2>2
(* The two kinds of step. *)
<1>10. /\ held' \in [Thread -> Item \cup {NoItem}]
       /\ \A u \in Thread \ {t} : held'[u] = held[u]
       /\ \/ thread'[t] = "received" /\ held'[t] = x /\ item' = item
          \/ /\ thread'[t] = "drain" /\ held' = held
             /\ item' = [item EXCEPT ![x] = "salvaged"]
  BY <1>1, <1>2, <1>t DEF Goes, LaneTypeOK
<1>11. /\ item' \in [Item -> ItemStates]
       /\ \A i \in Item \ {x} : item'[i] = item[i]
       /\ item'[x] = "accepted" => held'[t] = x
  BY <1>10, <1>1, <1>t DEF LaneTypeOK, ItemStates
<1> HIDE DEF x
<1>12. LaneTypeOK'
  <2>1. \A h \in Gen : Len(queue'[h]) <= Capacity
    BY <1>1, <1>t, LaneConstants DEF LaneTypeOK
  <2> QED
    BY <2>1, <1>1, <1>2, <1>4, <1>10, <1>11, <1>t DEF LaneTypeOK, ThreadStates, ItemStates
<1>13. \A u \in Thread : Runs(u)' <=> Runs(u)
  BY <1>2, <1>3 DEF Runs
<1>14. OpenIsServed'
  <2>1. thread'[t] \in {"closed", "retired", "drain", "gone", "none"} => thread'[t] = thread[t]
    BY <1>2
  <2> QED
    BY <2>1, <1>2, <1>4, <1>t, LaneConstants DEF LaneIInv, OpenIsServed, LaneTypeOK
<1>15. NothingStranded'
  <2>1. \A h \in Gen : queue'[h] # <<>> => queue[h] # <<>>
    BY <1>1
  <2> QED
    BY <2>1, <1>13, LaneConstants DEF LaneIInv, NothingStranded
<1>16. FreshInv'
  <2>1. \A h \in Gen : queue[h] = <<>> => queue'[h] = <<>>
    BY <1>1
  <2>2. \A u \in Thread : thread'[u] = "none" <=> thread[u] = "none"
    BY <1>2, <1>3
  <2> QED
    BY <2>1, <2>2, <1>4 DEF LaneIInv, FreshInv
<1>17. JoinInv'
  BY <1>13, <1>4 DEF LaneIInv, JoinInv
<1>18. PlaceInv'
  <2>1. \A u \in Thread : held'[u] # NoItem <=> thread'[u] \in Holding
    BY <1>2, <1>3, <1>10, <1>1, LaneConstants DEF LaneIInv, PlaceInv, Holding
  <2>2. \A u \in Thread : held'[u] # NoItem => item'[held'[u]] = "accepted"
    <3> SUFFICES ASSUME NEW u \in Thread, held'[u] # NoItem PROVE item'[held'[u]] = "accepted"
      OBVIOUS
    <3>1. CASE u = t /\ held'[t] = x
      BY <3>1, <1>10, <1>8, <1>3
    <3>2. CASE held'[u] = held[u]
      BY <3>2, <1>8, <1>11, <1>t DEF LaneIInv, PlaceInv, LaneTypeOK
    <3> QED
      BY <3>1, <3>2, <1>10
  <2>3. \A h \in Gen : \A k \in 1..Len(queue'[h]) : item'[queue'[h][k]] = "accepted"
    BY <1>5, <1>7, <1>9, <1>11
  <2>4. ASSUME NEW j \in Item, item'[j] = "accepted"
        PROVE  \/ \E u \in Thread : held'[u] = j
               \/ \E h \in Gen : \E k \in 1..Len(queue'[h]) : queue'[h][k] = j
    <3>1. CASE j = x
      BY <3>1, <2>4, <1>11
    <3>2. CASE j # x
      <4>1. item[j] = "accepted"
        BY <3>2, <2>4, <1>11
      <4>2. CASE \E u \in Thread : held[u] = j
        <5>1. PICK u \in Thread : held[u] = j
          BY <4>2
        <5>2. u # t
          BY <5>1, <1>3, LaneConstants
        <5> QED
          BY <5>1, <5>2, <1>10
      <4>3. CASE \E h \in Gen : \E k \in 1..Len(queue[h]) : queue[h][k] = j
        <5>1. PICK h \in Gen : \E k \in 1..Len(queue[h]) : queue[h][k] = j
          BY <4>3
        <5>2. PICK k \in 1..Len(queue[h]) : queue[h][k] = j
          BY <5>1
        <5>3. \E l \in 1..Len(queue'[h]) : queue'[h][l] = j
          BY <5>2, <3>2, <1>6
        <5> QED
          BY <5>3
      <4> QED
        BY <4>1, <4>2, <4>3 DEF LaneIInv, PlaceInv
    <3> QED
      BY <3>1, <3>2
  <2>5. mutex # NoItem => item'[mutex] = "full"
    BY <1>11, <1>8, <1>t DEF LaneIInv, PlaceInv, LaneTypeOK
  <2> QED
    BY <2>1, <2>2, <2>3, <2>4, <2>5 DEF PlaceInv
<1>19. OnceInv'
  <2>1. \A u, v \in Thread : held'[u] # NoItem /\ held'[u] = held'[v] => u = v
    BY <1>10, <1>8 DEF LaneIInv, OnceInv
  <2>2. \A u \in Thread, h \in Gen : \A k \in 1..Len(queue'[h]) : queue'[h][k] # held'[u]
    <3>1. \A u \in Thread : held'[u] = held[u] \/ held'[u] = x
      BY <1>10
    <3>2. \A u \in Thread, h \in Gen : \A k \in 1..Len(queue[h]) : queue[h][k] # held[u]
      BY DEF LaneIInv, OnceInv
    <3>3. \A u \in Thread, h \in Gen : \A k \in 1..Len(queue'[h]) : queue'[h][k] # held[u]
      BY <3>2, <1>5
    <3> QED
      <4> SUFFICES ASSUME NEW u \in Thread, NEW h \in Gen, NEW k \in 1..Len(queue'[h])
                   PROVE  queue'[h][k] # held'[u]
        OBVIOUS
      <4>1. queue'[h][k] # x
        BY <1>9
      <4>2. queue'[h][k] # held[u]
        BY <3>3
      <4> QED
        BY <4>1, <4>2, <3>1
  <2>3. ASSUME NEW h \in Gen, NEW m \in Gen, NEW k \in 1..Len(queue'[h]), NEW l \in 1..Len(queue'[m]),
               queue'[h][k] = queue'[m][l]
        PROVE  h = m /\ k = l
    <3>1. PICK p \in 1..Len(queue[h]) : queue'[h][k] = queue[h][p] /\ p = IF h = g THEN k + 1 ELSE k
      BY <1>5
    <3>2. PICK q \in 1..Len(queue[m]) : queue'[m][l] = queue[m][q] /\ q = IF m = g THEN l + 1 ELSE l
      BY <1>5
    <3>3. h = m /\ p = q
      BY <3>1, <3>2, <2>3 DEF LaneIInv, OnceInv
    <3>4. k \in Int /\ l \in Int
      OBVIOUS
    <3> QED
      BY <3>1, <3>2, <3>3, <3>4
  <2> QED
    BY <2>1, <2>2, <2>3 DEF OnceInv
<1> QED
  BY <1>12, <1>14, <1>15, <1>16, <1>17, <1>18, <1>19 DEF LaneIInv

(* A new generation, with or without a first item in its channel. *)
LEMMA SpawnKeeps ==
  ASSUME LaneIInv, slot \in {"Idle", "Closed"}, Spawned,
         held' = held, panics' = panics, mutex = NoItem, mutex' = NoItem,
         \/ queue' = queue /\ item' \in [Item -> ItemStates]
            /\ \A j \in Item : item'[j] = "accepted" <=> item[j] = "accepted"
         \/ \E i \in Item : /\ item[i] # "accepted" /\ Enqueue(i, generations)
                            /\ item' = [Woken(item) EXCEPT ![i] = "accepted"]
  PROVE  LaneIInv'
<1> DEFINE g == generations
<1>t. LaneTypeOK
  BY DEF LaneIInv
<1>1. /\ g \in Gen /\ g \in Nat /\ slot' = "Open" /\ open' = g /\ generations' = g + 1
      /\ handles' = Unfinished \cup {t \in Thread : t[1] = g}
      /\ thread' = [t \in Thread |-> IF t[1] = g THEN "idle" ELSE thread[t]]
  BY LaneConstants DEF Spawned
<1>2. \A t \in Thread : /\ t[1] = g => thread[t] = "none" /\ thread'[t] = "idle"
                        /\ t[1] # g => thread'[t] = thread[t]
  BY <1>1, LaneConstants DEF LaneIInv, FreshInv
<1>3. queue[g] = <<>>
  BY <1>1 DEF LaneIInv, FreshInv
<1>4. \A t \in Thread : thread'[t] \in Holding <=> thread[t] \in Holding
  BY <1>2 DEF Holding
<1>5. /\ queue' \in [Gen -> Seq(Item)] /\ \A h \in Gen : Len(queue'[h]) <= Capacity
      /\ \A h \in Gen \ {g} : queue'[h] = queue[h]
      /\ item' \in [Item -> ItemStates]
      /\ PlaceInv' /\ OnceInv'
  <2>1. CASE /\ queue' = queue /\ item' \in [Item -> ItemStates]
             /\ \A j \in Item : item'[j] = "accepted" <=> item[j] = "accepted"
    <3>1. \A h \in Gen : \A k \in 1..Len(queue[h]) : queue[h][k] \in Item
      BY <1>t, ElementOfSeq DEF LaneTypeOK
    <3>2. PlaceInv'
      <4>1. \A t \in Thread : held'[t] # NoItem <=> thread'[t] \in Holding
        BY <1>4 DEF LaneIInv, PlaceInv
      <4>2. \A t \in Thread : held'[t] # NoItem => item'[held'[t]] = "accepted"
        BY <2>1, <1>t DEF LaneIInv, PlaceInv, LaneTypeOK
      <4>3. \A h \in Gen : \A k \in 1..Len(queue[h]) : item'[queue[h][k]] = "accepted"
        BY <2>1, <3>1 DEF LaneIInv, PlaceInv
      <4> QED
        BY <4>1, <4>2, <4>3, <2>1 DEF LaneIInv, PlaceInv
    <3>3. OnceInv'
      BY <2>1 DEF LaneIInv, OnceInv
    <3> QED
      BY <2>1, <3>2, <3>3, <1>t DEF LaneTypeOK
  <2>2. CASE \E i \in Item : /\ item[i] # "accepted" /\ Enqueue(i, g)
                             /\ item' = [Woken(item) EXCEPT ![i] = "accepted"]
    <3>1. PICK i \in Item : /\ item[i] # "accepted" /\ Enqueue(i, g)
                            /\ item' = [Woken(item) EXCEPT ![i] = "accepted"]
      BY <2>2
    <3>2. /\ item' \in [Item -> ItemStates] /\ item'[i] = "accepted"
          /\ \A j \in Item \ {i} : item'[j] = "accepted" <=> item[j] = "accepted"
      BY <3>1, <1>t DEF Woken, LaneTypeOK, ItemStates
    <3>3. Len(queue[g]) < Capacity
      BY <1>3, EmptySeq, LaneConstants
    <3> QED
      BY <3>1, <3>2, <3>3, <1>1, <1>4, EnqueueKeeps
  <2> QED
    BY <2>1, <2>2
<1>6. LaneTypeOK'
  <2>1. handles' \subseteq Thread
    BY <1>1, <1>t DEF LaneTypeOK, Unfinished
  <2>2. thread' \in [Thread -> ThreadStates]
    BY <1>1, <1>t DEF LaneTypeOK, ThreadStates
  <2>3. generations' \in 0..(MaxPanics + 1)
    BY <1>1, LaneConstants DEF Gen
  <2> QED
    BY <2>1, <2>2, <2>3, <1>1, <1>5, <1>t DEF LaneTypeOK, ThreadStates, ItemStates
<1>7. OpenIsServed'
  BY <1>1, <1>2, LaneConstants DEF OpenIsServed
<1>8. NothingStranded'
  <2> SUFFICES ASSUME NEW h \in Gen, queue'[h] # <<>>
               PROVE  \E w \in Worker : Runs(<<h, w>>)'
    BY DEF NothingStranded
  <2>1. CASE h = g
    BY <2>1, <1>2, LaneConstants DEF Runs
  <2>2. CASE h # g
    <3>1. PICK w \in Worker : Runs(<<h, w>>)
      BY <2>2, <1>5 DEF LaneIInv, NothingStranded
    <3> QED
      BY <3>1, <2>2, <1>2, LaneConstants DEF Runs
  <2> QED
    BY <2>1, <2>2
<1>9. FreshInv'
  <2>1. \A h \in Gen : h >= generations' => queue'[h] = <<>>
    BY <1>1, <1>5, LaneConstants DEF LaneIInv, FreshInv
  <2>2. \A t \in Thread : t[1] >= generations' <=> thread'[t] = "none"
    <3> SUFFICES ASSUME NEW t \in Thread PROVE t[1] >= generations' <=> thread'[t] = "none"
      OBVIOUS
    <3>1. t[1] \in Int /\ (t[1] >= g <=> thread[t] = "none")
      BY LaneConstants DEF LaneIInv, FreshInv
    <3> QED
      BY <3>1, <1>1, <1>2
  <2>3. open' < generations'
    BY <1>1
  <2> QED
    BY <2>1, <2>2, <2>3 DEF FreshInv
<1>10. JoinInv'
  <2>1. ASSUME NEW t \in Thread, Runs(t)' PROVE t \in handles'
    <3>1. CASE t[1] = g
      BY <3>1, <1>1
    <3>2. CASE t[1] # g
      BY <3>2, <2>1, <1>1, <1>2 DEF Runs, Unfinished, LaneIInv, JoinInv
    <3> QED
      BY <3>1, <3>2
  <2> QED
    BY <2>1, <1>1 DEF JoinInv
<1> QED
  BY <1>5, <1>6, <1>7, <1>8, <1>9, <1>10 DEF LaneIInv

(* A step that moves no accepted item and no thread. *)
LEMMA IdleKeeps ==
  ASSUME LaneIInv, item' \in [Item -> ItemStates], mutex' \in Item \cup {NoItem},
         \A j \in Item : item'[j] = "accepted" <=> item[j] = "accepted",
         mutex' # NoItem => item'[mutex'] = "full",
         slot' = slot \/ slot' = "Stopped" \/ (slot' = "Joined" /\ \A t \in Thread : ~Runs(t)),
         UNCHANGED <<open, generations, handles, queue, thread, held, panics>>
  PROVE  LaneIInv'
<1>t. LaneTypeOK
  BY DEF LaneIInv
<1>1. LaneTypeOK'
  BY <1>t DEF LaneTypeOK, ItemStates
<1>2. OpenIsServed' /\ NothingStranded' /\ FreshInv' /\ JoinInv' /\ OnceInv'
  BY DEF LaneIInv, OpenIsServed, NothingStranded, FreshInv, JoinInv, OnceInv, Runs
<1>3. PlaceInv'
  <2>1. \A h \in Gen : \A k \in 1..Len(queue[h]) : queue[h][k] \in Item
    BY <1>t, ElementOfSeq DEF LaneTypeOK
  <2>2. \A t \in Thread : held[t] # NoItem => item'[held[t]] = "accepted"
    BY <1>t DEF LaneIInv, PlaceInv, LaneTypeOK
  <2>3. \A h \in Gen : \A k \in 1..Len(queue[h]) : item'[queue[h][k]] = "accepted"
    BY <2>1 DEF LaneIInv, PlaceInv
  <2> QED
    BY <2>2, <2>3 DEF LaneIInv, PlaceInv
<1> QED
  BY <1>1, <1>2, <1>3 DEF LaneIInv

(* An item goes into the channel of an open slot. *)
LEMMA RoomKeeps ==
  ASSUME LaneIInv, Room, NEW i \in Item, item[i] # "accepted", Enqueue(i, open),
         item' = [item EXCEPT ![i] = "accepted"], Unlocked,
         UNCHANGED <<slots, threads, mutex, panics>>
  PROVE  LaneIInv'
<1>t. LaneTypeOK
  BY DEF LaneIInv
<1>u. UNCHANGED <<slot, open, generations, handles, thread, held>>
  BY DEF slots, threads
<1>1. /\ item' \in [Item -> ItemStates] /\ item'[i] = "accepted"
      /\ \A j \in Item \ {i} : item'[j] = "accepted" <=> item[j] = "accepted"
  BY <1>t DEF LaneTypeOK, ItemStates
<1>2. open \in Gen /\ Len(queue[open]) < Capacity /\ slot = "Open" /\ mutex' = NoItem
  BY <1>t DEF Room, LaneTypeOK, Unlocked
<1>3. /\ queue' \in [Gen -> Seq(Item)] /\ \A h \in Gen : Len(queue'[h]) <= Capacity
      /\ \A h \in Gen \ {open} : queue'[h] = queue[h]
      /\ PlaceInv' /\ OnceInv'
  BY <1>1, <1>2, <1>u, EnqueueKeeps
<1>4. LaneTypeOK'
  BY <1>t, <1>u, <1>1, <1>3 DEF LaneTypeOK, ItemStates
<1>5. OpenIsServed' /\ JoinInv'
  BY <1>u DEF LaneIInv, OpenIsServed, JoinInv, Runs
<1>6. NothingStranded'
  <2> SUFFICES ASSUME NEW h \in Gen, queue'[h] # <<>>
               PROVE  \E w \in Worker : Runs(<<h, w>>)'
    BY DEF NothingStranded
  <2>1. CASE h = open
    BY <2>1, <1>u, <1>2, LaneConstants DEF LaneIInv, OpenIsServed, Runs
  <2>2. CASE h # open
    BY <2>2, <1>u, <1>3 DEF LaneIInv, NothingStranded, Runs
  <2> QED
    BY <2>1, <2>2
<1>7. FreshInv'
  <2>1. \A h \in Gen : h >= generations => queue'[h] = <<>>
    <3>1. open < generations
      BY <1>2 DEF LaneIInv, FreshInv
    <3>2. \A h \in Gen : h >= generations => h # open
      BY <3>1, <1>2, <1>t, LaneConstants DEF LaneTypeOK
    <3> QED
      BY <3>2, <1>3 DEF LaneIInv, FreshInv
  <2> QED
    BY <2>1, <1>u DEF LaneIInv, FreshInv
<1> QED
  BY <1>3, <1>4, <1>5, <1>6, <1>7 DEF LaneIInv

(* try_send and send, whatever they find the slot to be. *)
LEMMA EnqueuesKeeps ==
  ASSUME LaneIInv, NEW i \in Item, Enqueues(i)
  PROVE  LaneIInv'
<1>t. LaneTypeOK
  BY DEF LaneIInv
<1>1. item[i] \in {"out", "woken"} /\ Unlocked /\ held' = held /\ panics' = panics
  BY DEF Enqueues, TrySend, Send
<1>2. item[i] # "accepted" /\ mutex = NoItem
  BY <1>1 DEF Unlocked
<1>3. CASE /\ Room /\ Enqueue(i, open)
           /\ item' = [item EXCEPT ![i] = "accepted"] /\ UNCHANGED <<slots, thread, mutex>>
  BY <1>1, <1>2, <1>3, RoomKeeps DEF threads
<1>4. CASE /\ item' = [item EXCEPT ![i] = "back"] \/ (item' = [item EXCEPT ![i] = "full"] /\ mutex' = i)
           /\ mutex' \in {i, NoItem} /\ UNCHANGED <<slots, queue, thread>>
           /\ mutex' = i => item' = [item EXCEPT ![i] = "full"]
  <2>1. /\ item' \in [Item -> ItemStates] /\ mutex' \in Item \cup {NoItem}
        /\ \A j \in Item : item'[j] = "accepted" <=> item[j] = "accepted"
        /\ mutex' # NoItem => item'[mutex'] = "full"
    BY <1>2, <1>4, <1>t DEF LaneTypeOK, ItemStates
  <2>2. UNCHANGED <<slot, open, generations, handles, queue, thread, held, panics>>
    BY <1>1, <1>4 DEF slots
  <2> QED
    BY <2>1, <2>2, IdleKeeps
<1>5. CASE /\ slot \in {"Idle", "Closed"} /\ Spawned /\ mutex' = mutex
           /\ Enqueue(i, generations) /\ item' = [Woken(item) EXCEPT ![i] = "accepted"]
  BY <1>1, <1>2, <1>5, SpawnKeeps
<1>6. CASE /\ slot \in {"Idle", "Closed"} /\ Spawned /\ mutex' = mutex /\ queue' = queue
           /\ item' = [Woken(item) EXCEPT ![i] = "back"]
  <2>1. /\ item' \in [Item -> ItemStates]
        /\ \A j \in Item : item'[j] = "accepted" <=> item[j] = "accepted"
    BY <1>2, <1>6, <1>t DEF LaneTypeOK, ItemStates, Woken
  <2> QED
    BY <2>1, <1>1, <1>2, <1>6, SpawnKeeps
<1>7. CASE TrySend(i)
  <2>1. mutex' = mutex /\ mutex # i
    BY <1>7, <1>2, LaneConstants DEF TrySend
  <2>2. CASE Room /\ Enqueue(i, open) /\ item' = [item EXCEPT ![i] = "accepted"] /\ UNCHANGED <<slots, thread>>
    BY <2>1, <2>2, <1>3
  <2>3. CASE item' = [item EXCEPT ![i] = "back"] /\ UNCHANGED <<slots, queue, thread>>
    BY <2>1, <2>3, <1>2, <1>4
  <2> QED
    BY <2>1, <2>2, <2>3, <1>7, <1>5, <1>6 DEF TrySend
<1>8. CASE Send(i)
  BY <1>8, <1>2, <1>3, <1>4, <1>5 DEF Send
<1> QED
  BY <1>7, <1>8 DEF Enqueues

(* The steps of a thread (lane.rs, work and retire). *)
LEMMA WorksKeeps ==
  ASSUME LaneIInv, NEW t \in Thread, Works(t)
  PROVE  LaneIInv'
<1> USE DEF ThreadStates, Holding
<1>o. OpenIsServed /\ LaneTypeOK /\ t[1] \in Gen /\ t[2] \in Worker /\ t = <<t[1], t[2]>>
  BY LaneConstants DEF LaneIInv
<1>s. thread[t] \in {"closed", "retired", "drain"} => ~(slot = "Open" /\ open = t[1])
  BY <1>o DEF OpenIsServed
<1>1. CASE LockReceiver(t)
  <2>1. Goes(t, "recv") /\ UNCHANGED <<slot, open, generations, handles>>
    BY <1>1 DEF LockReceiver, slots
  <2> QED
    BY <1>1, <2>1, MoveKeeps DEF LockReceiver
<1>2. CASE Recv(t)
  BY <1>2, PopKeeps DEF Recv
<1>3. CASE RecvFails(t)
  <2>1. Goes(t, "gone") /\ UNCHANGED <<slot, open, generations, handles>>
    BY <1>3 DEF RecvFails, slots
  <2> QED
    BY <1>3, <2>1, MoveKeeps DEF RecvFails, SenderGone
<1>4. CASE MadeSpace(t)
  <2>1. Goes(t, "spaced") /\ UNCHANGED <<slot, open, generations, handles>>
    BY <1>4 DEF MadeSpace, slots
  <2> QED
    BY <1>4, <2>1, MoveKeeps DEF MadeSpace
<1>5. CASE NotifySpace(t)
  <2>1. Goes(t, "serving") /\ UNCHANGED <<slot, open, generations, handles>>
    BY <1>5 DEF NotifySpace, slots
  <2> QED
    BY <1>5, <2>1, MoveKeeps DEF NotifySpace
<1>6. CASE Serve(t)
  <2>1. panics' \in 0..MaxPanics
    BY <1>6, <1>o DEF Serve, LaneTypeOK
  <2> QED
    BY <1>6, <2>1, SettleKeeps DEF Serve
<1>7. CASE Panic(t)
  <2>1. panics' \in 0..MaxPanics
    BY <1>7, <1>o, LaneConstants DEF Panic, LaneTypeOK
  <2> QED
    BY <1>7, <2>1, SettleKeeps DEF Panic
<1>8. CASE Retire(t)
  <2>1. /\ Goes(t, "closed") /\ slot' = IF Closes(t) THEN "Closed" ELSE slot
        /\ UNCHANGED <<open, generations, handles, queue, held, mutex, panics>> /\ item' = item
    BY <1>8 DEF Retire
  <2> QED
    BY <1>8, <2>1, MoveKeeps DEF Retire, Closes
<1>9. CASE NotifyClosed(t)
  <2>1. Goes(t, "retired") /\ UNCHANGED <<slot, open, generations, handles>>
    BY <1>9 DEF NotifyClosed, slots
  <2> QED
    BY <1>9, <1>s, <2>1, MoveKeeps DEF NotifyClosed
<1>10. CASE BeginDrain(t)
  <2>1. Goes(t, "drain") /\ UNCHANGED <<slot, open, generations, handles>>
    BY <1>10 DEF BeginDrain, slots
  <2> QED
    BY <1>10, <1>s, <2>1, MoveKeeps DEF BeginDrain
<1>11. CASE Salvage(t)
  BY <1>11, PopKeeps DEF Salvage, threads
<1>12. CASE Drained(t)
  <2>1. Goes(t, "gone") /\ UNCHANGED <<slot, open, generations, handles>>
    BY <1>12 DEF Drained, slots
  <2> QED
    BY <1>12, <1>s, <2>1, MoveKeeps DEF Drained
<1> QED
  BY <1>1, <1>2, <1>3, <1>4, <1>5, <1>6, <1>7, <1>8, <1>9, <1>10, <1>11, <1>12 DEF Works, Retires

(* Every step of the lane keeps LaneIInv. *)
LEMMA LaneStep ==
  ASSUME LaneIInv, [LaneNext]_laneVars
  PROVE  LaneIInv'
<1>t. LaneTypeOK
  BY DEF LaneIInv
<1>1. CASE UNCHANGED laneVars
  BY <1>1 DEF laneVars, slots, threads, LaneIInv, LaneTypeOK, OpenIsServed, NothingStranded, FreshInv,
     JoinInv, PlaceInv, OnceInv, Runs
<1>2. CASE Start
  <2>1. /\ item' \in [Item -> ItemStates]
        /\ \A j \in Item : item'[j] = "accepted" <=> item[j] = "accepted"
    BY <1>2, <1>t DEF Start, Woken, LaneTypeOK, ItemStates
  <2> QED
    BY <1>2, <2>1, SpawnKeeps DEF Start, Unlocked
<1>3. CASE Drop
  <2>1. UNCHANGED <<thread, held>> /\ item \in [Item -> ItemStates] /\ mutex \in Item \cup {NoItem}
    BY <1>3, <1>t DEF Drop, threads, LaneTypeOK, ItemStates
  <2>2. mutex # NoItem => item[mutex] = "full"
    BY DEF LaneIInv, PlaceInv
  <2> QED
    BY <1>3, <2>1, <2>2, IdleKeeps DEF Drop
<1>4. CASE Joined
  <2>1. UNCHANGED <<thread, held>> /\ item \in [Item -> ItemStates] /\ mutex \in Item \cup {NoItem}
    BY <1>4, <1>t DEF Joined, threads, LaneTypeOK, ItemStates
  <2>2. mutex # NoItem => item[mutex] = "full"
    BY DEF LaneIInv, PlaceInv
  <2>3. \A t \in Thread : ~Runs(t)
    BY <1>4 DEF Joined, LaneIInv, JoinInv, Runs
  <2> QED
    BY <1>4, <2>1, <2>2, <2>3, IdleKeeps DEF Joined
<1>5. ASSUME NEW i \in Item, Enqueues(i) PROVE LaneIInv'
  BY <1>5, EnqueuesKeeps
<1>6. ASSUME NEW i \in Item, Wait(i) PROVE LaneIInv'
  <2>1. item[i] = "full"
    BY <1>6, LaneConstants DEF Wait, LaneIInv, PlaceInv
  <2>2. /\ item' \in [Item -> ItemStates] /\ mutex' = NoItem
        /\ \A j \in Item : item'[j] = "accepted" <=> item[j] = "accepted"
    BY <1>6, <2>1, <1>t DEF Wait, LaneTypeOK, ItemStates
  <2>3. UNCHANGED <<slot, open, generations, handles, queue, thread, held, panics>>
    BY <1>6 DEF Wait, slots, threads
  <2> QED
    BY <2>2, <2>3, IdleKeeps
<1>7. ASSUME NEW t \in Thread, Works(t) PROVE LaneIInv'
  BY <1>7, WorksKeeps
<1> QED
  BY <1>1, <1>2, <1>3, <1>4, <1>5, <1>6, <1>7 DEF LaneNext

(* From places to counts. *)
LEMMA PlacesCount == LaneIInv => AcceptedIsHeldOnce
<1> SUFFICES ASSUME LaneIInv, NEW i \in Item
             PROVE  Cardinality(InQueue(i)) + Cardinality(InHands(i)) =
                      IF item[i] = "accepted" THEN 1 ELSE 0
  BY DEF AcceptedIsHeldOnce
<1>t. LaneTypeOK
  BY DEF LaneIInv
<1>e. Cardinality({}) = 0 /\ \A x : Cardinality({x}) = 1
  BY FS_EmptySet, FS_Singleton
<1>q. \A p : p \in InQueue(i) <=> /\ p \in Gen \X (1..Capacity)
                                  /\ p[2] <= Len(queue[p[1]]) /\ queue[p[1]][p[2]] = i
  BY DEF InQueue
<1>r. \A p \in InQueue(i) : p[1] \in Gen /\ p[2] \in 1..Len(queue[p[1]]) /\ p = <<p[1], p[2]>>
  <2> SUFFICES ASSUME NEW p \in InQueue(i)
               PROVE  p[1] \in Gen /\ p[2] \in 1..Len(queue[p[1]]) /\ p = <<p[1], p[2]>>
    OBVIOUS
  <2>1. p[1] \in Gen /\ p[2] \in 1..Capacity /\ p = <<p[1], p[2]>> /\ p[2] <= Len(queue[p[1]])
    BY <1>q
  <2>2. Len(queue[p[1]]) \in Nat
    BY <2>1, <1>t, LenProperties DEF LaneTypeOK
  <2> QED
    BY <2>1, <2>2, LaneConstants
<1>1. CASE item[i] # "accepted"
  <2>1. InHands(i) = {}
    BY <1>1, LaneConstants DEF InHands, LaneIInv, PlaceInv
  <2>2. InQueue(i) = {}
    BY <1>1, <1>q, <1>r DEF LaneIInv, PlaceInv
  <2> QED
    BY <2>1, <2>2, <1>e, <1>1
<1>2. CASE \E t \in Thread : held[t] = i
  <2>1. PICK t \in Thread : held[t] = i
    BY <1>2
  <2>2. item[i] = "accepted"
    BY <2>1, LaneConstants DEF LaneIInv, PlaceInv
  <2>3. InHands(i) = {t}
    BY <2>1, LaneConstants DEF InHands, LaneIInv, OnceInv
  <2>4. InQueue(i) = {}
    BY <2>1, <1>q, <1>r DEF LaneIInv, OnceInv
  <2>5. Cardinality(InHands(i)) = 1 /\ Cardinality(InQueue(i)) = 0
    BY <2>3, <2>4, <1>e
  <2> QED
    BY <2>2, <2>5
<1>3. CASE \E g \in Gen : \E k \in 1..Len(queue[g]) : queue[g][k] = i
  <2>1. PICK g \in Gen : \E k \in 1..Len(queue[g]) : queue[g][k] = i
    BY <1>3
  <2>2. PICK k \in 1..Len(queue[g]) : queue[g][k] = i
    BY <2>1
  <2>3. item[i] = "accepted"
    BY <2>2 DEF LaneIInv, PlaceInv
  <2>4. InHands(i) = {}
    BY <2>2 DEF InHands, LaneIInv, OnceInv
  <2>5. InQueue(i) = {<<g, k>>}
    <3>1. Len(queue[g]) \in Nat /\ Len(queue[g]) <= Capacity
      BY <1>t, LenProperties DEF LaneTypeOK
    <3>2. k \in 1..Capacity /\ k <= Len(queue[g])
      BY <3>1, LaneConstants
    <3>3. <<g, k>> \in InQueue(i)
      BY <3>2, <2>2, <1>q
    <3>4. ASSUME NEW p \in InQueue(i) PROVE p = <<g, k>>
      <4>1. p[1] = g /\ p[2] = k
        BY <1>q, <1>r, <2>2 DEF LaneIInv, OnceInv
      <4> QED
        BY <4>1, <1>r
    <3> QED
      BY <3>3, <3>4
  <2>6. Cardinality(InHands(i)) = 0
    BY <2>4, <1>e
  <2>7. Cardinality(InQueue(i)) = 1
    BY <2>5, <1>e
  <2> QED
    BY <2>3, <2>6, <2>7
<1> QED
  BY <1>1, <1>2, <1>3 DEF LaneIInv, PlaceInv

(* For any items, threads, queue bound and number of panics: an open slot  *)
(* always has threads that receive, no accepted item is stranded behind a  *)
(* panic, and each is in exactly one channel or one pair of hands, so none *)
(* is lost and none settled twice (lane.rs, try_send, send, work and       *)
(* retire).                                                                *)
THEOREM LaneIsSound == LaneSpec => []LaneInv
<1>1. LaneIInv => LaneInv
  BY PlacesCount DEF LaneInv, LaneIInv
<1>2. LaneIInv /\ [LaneNext]_laneVars => LaneIInv'
  BY LaneStep
<1> QED
  BY <1>1, <1>2, LaneInitInv, PTL DEF LaneSpec

(* Drop returns only when every thread of every generation has ended and *)
(* every accepted item is settled: spawn keeps the unfinished handles of *)
(* the generations a panic retired (lane.rs, spawn and drop).            *)
THEOREM DropLeavesNothing == LaneSpec => []DropSettlesAll
<1>1. LaneIInv => DropSettlesAll
  <2> SUFFICES ASSUME LaneIInv, slot = "Joined"
               PROVE  (\A t \in Thread : ~Runs(t)) /\ \A i \in Item : item[i] # "accepted"
    BY DEF DropSettlesAll
  <2>1. \A t \in Thread : ~Runs(t)
    BY DEF LaneIInv, JoinInv
  <2>2. \A t \in Thread : held[t] = NoItem
    BY <2>1 DEF LaneIInv, PlaceInv, Runs, Holding
  <2>3. \A g \in Gen : queue[g] = <<>>
    BY <2>1, LaneConstants DEF LaneIInv, NothingStranded
  <2>4. \A g \in Gen : Len(queue[g]) = 0
    BY <2>3, EmptySeq
  <2>5. \A g \in Gen : 1..Len(queue[g]) = {}
    BY <2>4
  <2> QED
    BY <2>1, <2>2, <2>5, LaneConstants DEF LaneIInv, PlaceInv
<1>2. LaneIInv /\ [LaneNext]_laneVars => LaneIInv'
  BY LaneStep
<1> QED
  BY <1>1, <1>2, LaneInitInv, PTL DEF LaneSpec

=============================================================================
