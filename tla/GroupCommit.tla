---------------------------- MODULE GroupCommit ----------------------------
(***************************************************************************)
(* The windowed group commit of the receiver                               *)
(* (ourios-ingester/src/receiver/commit.rs) and the in-order hand-off to   *)
(* the miner that ingest_bound builds on it (receiver/pipeline.rs).        *)
(*                                                                         *)
(* Every request appends one frame under the journal mutex and takes a     *)
(* sequence number; a flush task fsyncs the journal for all the frames     *)
(* appended so far and broadcasts one outcome; a request that an outcome   *)
(* covers waits for its turn at the ingest gate, is mined when its sync    *)
(* succeeded, and passes the gate on.                                      *)
(*                                                                         *)
(* A step is what the code does between two points where another task may  *)
(* run: one critical section of the journal mutex, of the flush state or   *)
(* of a watch channel.  The window timer and the segment-fill cut only     *)
(* decide when an armed task runs, so an armed task runs at any time.      *)
(* The generation of an outcome only tells a broadcast from the channel's  *)
(* seed, so it is 0 for the seed and 1 for every broadcast.                *)
(***************************************************************************)
EXTENDS Integers, FiniteSets, Sequences

CONSTANT Request  \* the export requests that reach the receiver

VARIABLES
  pc,            \* where each request is in ingest_bound
  seqOf,         \* the sequence number its append took, 0 for none
  result,        \* what its commit, then its turn, resolved to
  flush_pending, \* FlushState: whether a flush task is armed
  next_seq,      \* FlushState: the next sequence number to hand out
  appended_seq,  \* FlushState: the highest sequence number appended
  task,          \* the flush task each request spawned, if it spawned one
  outcome,       \* the value of the outcome watch channel
  gate,          \* the value of the ingest_gate watch channel
  synced,        \* journal: the highest sequence a successful sync covered
  mined,         \* the sequence numbers the miner was given, in order
  last_durable   \* the acknowledged mark, as the frame's sequence number

flushState == <<flush_pending, next_seq, appended_seq>>
vars == <<pc, seqOf, result, flushState, task, outcome, gate, synced, mined,
          last_durable>>

Stages == {"new", "appended", "waiting", "covered", "turn", "answered", "done"}
Task(st, covered, res) == [st |-> st, covered |-> covered, res |-> res]
NoTask == Task("none", 0, "error")

(* The highest sequence number handed out is the number of frames in the   *)
(* journal: both change in the same critical section.                      *)
Frames == next_seq - 1

TypeOK ==
  /\ pc \in [Request -> Stages]
  /\ seqOf \in [Request -> Nat]
  /\ result \in [Request -> {"none", "ok", "error"}]
  /\ flush_pending \in BOOLEAN
  /\ next_seq \in Nat \ {0}
  /\ appended_seq \in Nat
  /\ task \in [Request -> [st : {"none", "armed", "captured", "synced"},
                           covered : Nat, res : {"ok", "error"}]]
  /\ outcome \in [generation : {0, 1}, covered : Nat, res : {"ok", "error"}]
  /\ gate \in Nat \ {0}
  /\ synced \in Nat
  /\ mined \in Seq(Nat)
  /\ last_durable \in Nat

Init ==
  /\ pc = [r \in Request |-> "new"]
  /\ seqOf = [r \in Request |-> 0]
  /\ result = [r \in Request |-> "none"]
  /\ flush_pending = FALSE
  /\ next_seq = 1
  /\ appended_seq = 0
  /\ task = [r \in Request |-> NoTask]
  /\ outcome = [generation |-> 0, covered |-> 0, res |-> "ok"]
  /\ gate = 1
  /\ synced = 0
  /\ mined = << >>
  /\ last_durable = 0
-----------------------------------------------------------------------------
(* commit: append_batch failed, so no sequence number is consumed and the  *)
(* request answers at once, without touching the gate.                     *)
AppendFails(r) ==
  /\ pc[r] = "new"
  /\ pc' = [pc EXCEPT ![r] = "done"]
  /\ result' = [result EXCEPT ![r] = "error"]
  /\ UNCHANGED <<seqOf, flushState, task, outcome, gate, synced, mined, last_durable>>

(* commit: the append and the sequence number, under the journal mutex.    *)
AppendFrame(r) ==
  /\ pc[r] = "new"
  /\ pc' = [pc EXCEPT ![r] = "appended"]
  /\ seqOf' = [seqOf EXCEPT ![r] = next_seq]
  /\ next_seq' = next_seq + 1
  /\ appended_seq' = next_seq
  /\ UNCHANGED <<result, flush_pending, task, outcome, gate, synced, mined, last_durable>>

(* arm_flush: the first arriver after a flush spawns the task; the others  *)
(* ride it.                                                                *)
ArmFlush(r) ==
  /\ pc[r] = "appended"
  /\ pc' = [pc EXCEPT ![r] = "waiting"]
  /\ flush_pending' = TRUE
  /\ task' = IF flush_pending THEN task ELSE [task EXCEPT ![r] = Task("armed", 0, "error")]
  /\ UNCHANGED <<seqOf, result, next_seq, appended_seq, outcome, gate, synced, mined, last_durable>>

(* flush, first half: reset the arm flag and capture covered_seq, before   *)
(* the journal mutex is taken for the sync.                                *)
FlushCapture(r) ==
  /\ task[r].st = "armed"
  /\ task' = [task EXCEPT ![r] = Task("captured", appended_seq, "error")]
  /\ flush_pending' = FALSE
  /\ UNCHANGED <<next_seq, appended_seq, pc, seqOf, result, outcome, gate, synced, mined, last_durable>>

(* flush: the blocking sync, under the journal mutex.  A success makes     *)
(* every frame in the journal durable; a failure (or a panic of the        *)
(* blocking task) proves nothing.                                          *)
FlushSync(r) ==
  /\ task[r].st = "captured"
  /\ \E res \in {"ok", "error"} :
       /\ task' = [task EXCEPT ![r] = Task("synced", task[r].covered, res)]
       /\ synced' = IF res = "ok" THEN Frames ELSE synced
  /\ UNCHANGED <<pc, seqOf, result, flushState, outcome, gate, mined, last_durable>>

(* flush, second half: broadcast the sequence captured before the sync,    *)
(* dropping an outcome that covers less than the one already there.  (A    *)
(* name with an underscore is a faulty variant of the definition after it, *)
(* for the mutation runs.)                                                 *)
CoveredBy_AfterSync(r) == appended_seq
CoveredBy(r) == task[r].covered
NotStale_Overwrite(r) == TRUE
NotStale(r) == CoveredBy(r) >= outcome.covered

FlushPublish(r) ==
  /\ task[r].st = "synced"
  /\ outcome' = IF NotStale(r)
                THEN [generation |-> 1, covered |-> CoveredBy(r), res |-> task[r].res]
                ELSE outcome
  /\ task' = [task EXCEPT ![r] = NoTask]
  /\ UNCHANGED <<pc, seqOf, result, flushState, gate, synced, mined, last_durable>>

(* covered_outcome, and the wait loop of commit: the request's durability  *)
(* is decided by the first outcome it sees that covers its sequence.       *)
Observe(r) ==
  /\ pc[r] = "waiting"
  /\ outcome.generation > 0 /\ outcome.covered >= seqOf[r]
  /\ pc' = [pc EXCEPT ![r] = "covered"]
  /\ result' = [result EXCEPT ![r] = outcome.res]
  /\ UNCHANGED <<seqOf, flushState, task, outcome, gate, synced, mined, last_durable>>

(* await_ingest_turn, then the guard that releases the gate on any exit.   *)
TurnReached(r) == gate >= seqOf[r]

TakeTurn(r) ==
  /\ pc[r] = "covered"
  /\ TurnReached(r)
  /\ pc' = [pc EXCEPT ![r] = "turn"]
  /\ UNCHANGED <<seqOf, result, flushState, task, outcome, gate, synced, mined, last_durable>>

(* The turn of a request whose sync succeeded: mine, then move the mark to *)
(* the request's own frame, never to the end of the journal.               *)
Mark_Eof(r) == synced
Mark(r) == seqOf[r]

FoldTurn(r) ==
  /\ pc[r] = "turn" /\ result[r] = "ok"
  /\ mined' = Append(mined, seqOf[r])
  /\ last_durable' = Mark(r)
  /\ pc' = [pc EXCEPT ![r] = "answered"]
  /\ UNCHANGED <<seqOf, result, flushState, task, outcome, gate, synced>>

(* The miner panics inside the turn: the request fails, the mark does not  *)
(* move, and the unwinding guard still releases the gate.                  *)
FoldPanics(r) ==
  /\ pc[r] = "turn" /\ result[r] = "ok"
  /\ mined' = Append(mined, seqOf[r])
  /\ result' = [result EXCEPT ![r] = "error"]
  /\ pc' = [pc EXCEPT ![r] = "answered"]
  /\ UNCHANGED <<seqOf, flushState, task, outcome, gate, synced, last_durable>>

(* The turn of a request whose sync failed: neither mined nor marked, but  *)
(* the gate is still passed on.                                            *)
SkipTurn_KeepsGate(r) ==
  /\ pc[r] = "turn" /\ result[r] = "error"
  /\ pc' = [pc EXCEPT ![r] = "done"]
  /\ UNCHANGED <<seqOf, result, flushState, task, outcome, gate, synced, mined, last_durable>>

SkipTurn(r) ==
  /\ pc[r] = "turn" /\ result[r] = "error"
  /\ pc' = [pc EXCEPT ![r] = "answered"]
  /\ UNCHANGED <<seqOf, result, flushState, task, outcome, gate, synced, mined, last_durable>>

(* complete_ingest, by the guard's drop.                                   *)
NextTurn(r) == seqOf[r] + 1

CompleteIngest(r) ==
  /\ pc[r] = "answered"
  /\ gate' = NextTurn(r)
  /\ pc' = [pc EXCEPT ![r] = "done"]
  /\ UNCHANGED <<seqOf, result, flushState, task, outcome, synced, mined, last_durable>>
-----------------------------------------------------------------------------
Next ==
  \E r \in Request :
    \/ AppendFails(r) \/ AppendFrame(r) \/ ArmFlush(r)
    \/ FlushCapture(r) \/ FlushSync(r) \/ FlushPublish(r)
    \/ Observe(r) \/ TakeTurn(r)
    \/ FoldTurn(r) \/ FoldPanics(r) \/ SkipTurn(r) \/ CompleteIngest(r)

Spec == Init /\ [][Next]_vars

(* The runtime polls every task that can make progress, and both handlers  *)
(* run ingest_bound in a task of its own, so a request that has appended   *)
(* is never abandoned.  Nothing makes a client send a request.             *)
Fairness ==
  \A r \in Request :
    /\ WF_vars(ArmFlush(r))
    /\ WF_vars(FlushCapture(r) \/ FlushSync(r) \/ FlushPublish(r))
    /\ WF_vars(Observe(r) \/ TakeTurn(r))
    /\ WF_vars(FoldTurn(r) \/ FoldPanics(r) \/ SkipTurn(r) \/ CompleteIngest(r))

FairSpec == Spec /\ Fairness
-----------------------------------------------------------------------------
(* A commit resolves to success only for a frame that a successful sync    *)
(* covered, however the flushes of several windows overlap and in whatever *)
(* order their outcomes are broadcast (commit.rs, covered_outcome and the  *)
(* monotone send of flush).                                                *)
AckImpliesDurable ==
  \A r \in Request : result[r] = "ok" => 0 < seqOf[r] /\ seqOf[r] <= synced

Uncovered(r) ==
  pc[r] = "waiting" /\ ~(outcome.generation > 0 /\ outcome.covered >= seqOf[r])

WillCover(t, r) ==
  \/ task[t].st = "armed"
  \/ task[t].st \in {"captured", "synced"} /\ task[t].covered >= seqOf[r]

(* A request whose frame no broadcast has covered yet has a flush task     *)
(* under way that will cover it: no request waits for a flush that nobody  *)
(* will run, even if no other request ever arrives (commit.rs, the flag    *)
(* reset before the sync and the dropped stale outcomes of flush).         *)
NoStrandedWaiter ==
  \A r \in Request : Uncovered(r) => \E t \in Request : WillCover(t, r)

(* The miner is given frames in the order of their appends, each once, and *)
(* only frames a successful sync covered (pipeline.rs, ingest_bound and    *)
(* commit.rs, await_ingest_turn).                                          *)
MinedInAppendOrder ==
  /\ \A i \in 1..Len(mined) : mined[i] <= synced
  /\ \A i, j \in 1..Len(mined) : i < j => mined[i] < mined[j]

(* When the acknowledged mark is at a frame, the turn of every frame up to *)
(* it is over, and those whose commit succeeded reached the miner.  A      *)
(* checkpoint at the mark therefore never covers a frame whose records     *)
(* nothing has mined (pipeline.rs, the mark is the turn's own offset and   *)
(* never the end of the journal that the group sync reports).              *)
MarkCoversOnlyFoldedFrames ==
  \A r \in Request :
    seqOf[r] \in 1..last_durable =>
      /\ pc[r] \in {"answered", "done"}
      /\ result[r] = "ok" => \E i \in 1..Len(mined) : mined[i] = seqOf[r]

(* Every request that appended a frame is answered, whatever syncs fail    *)
(* and whatever turns panic: the flush reaches it and the gate never       *)
(* stalls (commit.rs, arm_flush and complete_ingest).                      *)
EveryAppendIsAnswered ==
  \A r \in Request : pc[r] = "appended" ~> pc[r] = "done"

(* The hand-off to the miner: types, order and mark together.              *)
HandoffInv == TypeOK /\ MinedInAppendOrder /\ MarkCoversOnlyFoldedFrames
=============================================================================
