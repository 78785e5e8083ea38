---------------------------- MODULE AuditOrder ----------------------------
(***************************************************************************)
(* Audit-ordered publication: the audit buffer and its ledger of takes     *)
(* (ourios-ingester/src/audit_sink.rs), the coordinator that drains both   *)
(* sinks and writes events before records (publish.rs), and the inline     *)
(* detach of the encode pool (record_sink.rs).                             *)
(*                                                                         *)
(* Line i may emit the template event i and always emits the record i;     *)
(* the record may depend on any event emitted up to i.  A take is one      *)
(* ticket: the age sweep's drain, a capture of the barrier (which writes   *)
(* its drains one after another, in the order of capture), or the flush of *)
(* the shutdown.  A step is one critical section, or one store write.      *)
(* The events of several partitions reach the store independently.         *)
(* The count of abandoned takes is left out: only SharedParquetAuditSink:: *)
(* barrier reads it, and the receiver installs settled instead.            *)
(***************************************************************************)
EXTENDS Integers, FiniteSets

CONSTANTS
  MaxLines,  \* bound: lines mined
  MaxTakes   \* bound: tickets issued

ASSUME AuditOrderAssumption == MaxLines \in Nat /\ MaxTakes \in Nat

Line == 1..MaxLines
Id == 0..(MaxTakes - 1)

VARIABLES
  mined,      \* how many lines the miner has folded
  emitted,    \* the events those lines emitted (history)
  abuf,       \* the audit sink's buffer
  encoding,   \* records submitted to the encode pool and not yet appended
  rbuf,       \* the record sink's buffers
  lane,       \* records the pool detached, on their way through the publisher
  published,  \* records visible in the data store
  durable,    \* events in the audit stream
  given_up,   \* events dropped by a permanent error or lost by an unwind
  next,       \* Ledger: the next ticket
  open,       \* Ledger: the standing of each ticket
  take,       \* each ticket's batch, and how far its writer is
  swept,      \* whether the age sweep still runs
  stopping    \* whether the shutdown holds the miner lock

ledger == <<next, open>>
stores == <<published, durable, given_up>>
vars == <<mined, emitted, abuf, encoding, rbuf, lane, stores, ledger, take, swept, stopping>>

Closed == [open |-> FALSE, in_limbo |-> FALSE, doomed |-> FALSE]
NoTake == [by |-> "none", st |-> "closed", audit |-> {}, records |-> {}]

(* The types, and: a ticket is open from its take to its clear or its      *)
(* drop, so the ledger does not grow with settled takes.                   *)
TypeOK ==
  /\ mined \in 0..MaxLines
  /\ emitted \subseteq 1..mined
  /\ encoding \cup rbuf \cup lane \cup published \subseteq 1..mined
  /\ abuf \cup durable \cup given_up \subseteq emitted
  /\ next \in 0..MaxTakes
  /\ open \in [Id -> [open : BOOLEAN, in_limbo : BOOLEAN, doomed : BOOLEAN]]
  /\ take \in [Id -> [by : {"none", "sweep", "barrier", "stop"},
                      st : {"closed", "taking", "offered", "drained", "written", "waiting",
                            "failed", "returned", "publish", "held"},
                      audit : SUBSET emitted, records : SUBSET (1..mined)]]
  /\ \A t \in Id : open[t].open <=> take[t].st \notin {"closed", "publish", "held"}
  /\ swept \in BOOLEAN /\ stopping \in BOOLEAN

Init ==
  /\ mined = 0 /\ emitted = {} /\ abuf = {} /\ encoding = {} /\ rbuf = {} /\ lane = {}
  /\ published = {} /\ durable = {} /\ given_up = {}
  /\ next = 0
  /\ open = [t \in Id |-> Closed]
  /\ take = [t \in Id |-> NoTake]
  /\ swept = TRUE /\ stopping = FALSE
-----------------------------------------------------------------------------
(* The handoff mutex: held from the take of the events to the take of the  *)
(* records, and from the return of a batch to the end of its ticket.  The  *)
(* miner lock is held over the first of the two as well.                   *)
Draining == \E t \in Id : take[t].st = "taking"
HandoffFree == \A t \in Id : take[t].st \notin {"taking", "returned"}

(* Ledger::earlier_in_limbo, waiting and quiet.  (A name with an underscore *)
(* is a faulty variant of the definition after it, for the mutation runs.) *)
EarlierInLimbo(t) == \E s \in Id : s < t /\ open[s].in_limbo
Waiting_AnyTake(t) == ~open[t].doomed /\ \E s \in Id : s # t /\ open[s].in_limbo
Waiting(t) == ~open[t].doomed /\ EarlierInLimbo(t)
Quiet == \A t \in Id : ~open[t].in_limbo

(* SharedParquetAuditSink::settled: no store I/O.                          *)
Settled == abuf = {} /\ Quiet

(* Ledger::clear: whether the records taken with this ticket may publish.  *)
ClearOk(t) == ~open[t].doomed /\ ~EarlierInLimbo(t)

Cleared(t) == [open EXCEPT ![t] = Closed]

(* Ledger::abandon: every ticket taken later may lack an event of this     *)
(* one's.                                                                  *)
Abandoned_NobodyDoomed(t) == [open EXCEPT ![t] = Closed]
Abandoned(t) ==
  [s \in Id |-> IF s = t THEN Closed
                ELSE IF s > t /\ open[s].open /\ open[t].in_limbo
                     THEN [open[s] EXCEPT !.doomed = TRUE]
                ELSE open[s]]

TakeIs(t, st) == take' = [take EXCEPT ![t].st = st]
-----------------------------------------------------------------------------
(* MinerCluster::ingest under the miner lock: the event is buffered before *)
(* the record is submitted.                                                *)
Mine ==
  /\ mined < MaxLines /\ ~Draining /\ ~stopping
  /\ mined' = mined + 1
  /\ \E e \in {{}, {mined + 1}} : emitted' = emitted \cup e /\ abuf' = abuf \cup e
  /\ encoding' = encoding \cup {mined + 1}
  /\ UNCHANGED <<rbuf, lane, stores, ledger, take, swept, stopping>>

(* append_off_lock on an encode worker: append, and detach partitions by   *)
(* the size and ceiling triggers only while every event is durable.        *)
Append(r) ==
  /\ r \in encoding
  /\ encoding' = encoding \ {r}
  /\ \E out \in SUBSET (rbuf \cup {r}) :
       /\ out # {} => Settled
       /\ lane' = lane \cup out
       /\ rbuf' = (rbuf \cup {r}) \ out
  /\ UNCHANGED <<mined, emitted, abuf, stores, ledger, take, swept, stopping>>

(* The publisher writes what the pool detached; a partition whose put      *)
(* fails is requeued.                                                      *)
PublishLane ==
  /\ lane # {} /\ HandoffFree
  /\ \E ok \in SUBSET lane :
       /\ published' = published \cup ok
       /\ rbuf' = rbuf \cup (lane \ ok)
  /\ lane' = {}
  /\ UNCHANGED <<mined, emitted, abuf, encoding, durable, given_up, ledger, take, swept, stopping>>
-----------------------------------------------------------------------------
(* Ledger::issue: whether the take's events are out of the buffer and not  *)
(* durable.                                                                *)
Standing_Settled == [open |-> TRUE, in_limbo |-> FALSE, doomed |-> FALSE]
Standing == [open |-> TRUE, in_limbo |-> abuf # {}, doomed |-> FALSE]

(* take_ticketed: the buffer and the ticket in one critical section.       *)
Issue(by, st) ==
  /\ next < MaxTakes
  /\ next' = next + 1
  /\ open' = [open EXCEPT ![next] = Standing]
  /\ take' = [take EXCEPT ![next] = [by |-> by, st |-> st, audit |-> abuf, records |-> {}]]
  /\ abuf' = {}
  /\ UNCHANGED <<mined, emitted, encoding, rbuf, lane, stores, swept>>

Active(by) == \E t \in Id : take[t].by = by /\ take[t].st # "closed"

(* drain_aged of the age sweep, one at a time.                             *)
SweepTakes ==
  /\ swept /\ ~stopping /\ HandoffFree /\ ~Active("sweep")
  /\ Issue("sweep", "taking")
  /\ UNCHANGED stopping

(* drain_all of a capture, by the timer or by the rotation hook.           *)
BarrierTakes ==
  /\ ~stopping /\ HandoffFree
  /\ Issue("barrier", "taking")
  /\ UNCHANGED stopping

(* The other half of a drain: the aged partitions, or all.                 *)
TakeRecords(t) ==
  /\ take[t].st = "taking"
  /\ \E out \in SUBSET rbuf :
       /\ take[t].by = "barrier" => out = rbuf
       /\ take' = [take EXCEPT ![t].records = out,
                               ![t].st = IF take[t].by = "barrier" THEN "offered" ELSE "drained"]
       /\ rbuf' = rbuf \ out
  /\ UNCHANGED <<mined, emitted, abuf, encoding, lane, stores, ledger, swept, stopping>>

(* offer: a capture goes into the pending slot, or joins the cut there.    *)
Offer(t) ==
  /\ take[t].st = "offered"
  /\ TakeIs(t, "drained")
  /\ UNCHANGED <<mined, emitted, abuf, encoding, rbuf, lane, stores, ledger, swept, stopping>>

(* flush_then_snapshot of the shutdown: encodes and publishes quiesced,    *)
(* under the miner lock, the audit buffer is flushed on its own.           *)
StopTakes ==
  /\ ~stopping /\ encoding = {} /\ lane = {}
  /\ \A t \in Id : take[t].st = "closed"
  /\ Issue("stop", "drained")
  /\ stopping' = TRUE
-----------------------------------------------------------------------------
(* The barrier task writes its drains in the order of their capture.       *)
MyTurn(t) ==
  take[t].by = "barrier" =>
    \A s \in Id : s < t /\ take[s].by = "barrier" => take[s].st = "closed"

(* write_retaining: each partition's events become durable, are retained   *)
(* by a transient error, or are dropped by a permanent one.                *)
Write(t) ==
  /\ take[t].st = "drained" /\ MyTurn(t)
  /\ \E retained \in SUBSET take[t].audit : \E dropped \in SUBSET (take[t].audit \ retained) :
       /\ durable' = durable \cup (take[t].audit \ (retained \cup dropped))
       /\ given_up' = given_up \cup dropped
       /\ take' = [take EXCEPT ![t].audit = retained,
                               ![t].st = IF retained = {} THEN "written" ELSE "failed"]
  /\ UNCHANGED <<mined, emitted, abuf, encoding, rbuf, lane, published, ledger, swept, stopping>>

(* The requeue after a failed audit write, the park of a capture that the  *)
(* pending cut cannot take in, and the park by the barrier task of a cut   *)
(* that it gives up unwritten: events and records go back.                 *)
Return(t) ==
  /\ \/ take[t].st \in {"failed", "offered"}
     \/ take[t].st = "drained" /\ take[t].by = "barrier" /\ MyTurn(t)
  /\ HandoffFree
  /\ abuf' = abuf \cup take[t].audit
  /\ rbuf' = rbuf \cup take[t].records
  /\ take' = [take EXCEPT ![t].st = "returned", ![t].audit = {}, ![t].records = {}]
  /\ UNCHANGED <<mined, emitted, encoding, lane, stores, ledger, swept, stopping>>

(* Ticket::drop, once the events are back.                                 *)
Abandon(t) ==
  /\ take[t].st = "returned"
  /\ open' = Abandoned(t)
  /\ TakeIs(t, "closed")
  /\ UNCHANGED <<mined, emitted, abuf, encoding, rbuf, lane, stores, next, swept, stopping>>

(* A panic inside the sweep's write: the batch is gone, its ticket is      *)
(* abandoned by the unwind, and the sweep stops.                           *)
Unwind(t) ==
  /\ take[t].st = "drained" /\ take[t].by = "sweep"
  /\ given_up' = given_up \cup take[t].audit
  /\ open' = Abandoned(t)
  /\ take' = [take EXCEPT ![t].st = "closed", ![t].audit = {}, ![t].records = {}]
  /\ swept' = FALSE
  /\ UNCHANGED <<mined, emitted, abuf, encoding, rbuf, lane, published, durable, next, stopping>>

(* clear: the sweep refuses to wait.  flush_all of the shutdown then takes *)
(* every record left in the buffers.                                       *)
Clear(t) ==
  /\ take[t].st = "written" /\ take[t].by \in {"sweep", "stop"}
  /\ open' = Cleared(t)
  /\ IF take[t].by = "stop"
     THEN /\ take' = [take EXCEPT ![t].st = "publish", ![t].records = rbuf]
          /\ rbuf' = {}
     ELSE TakeIs(t, IF ClearOk(t) THEN "publish" ELSE "held") /\ UNCHANGED rbuf
  /\ UNCHANGED <<mined, emitted, abuf, encoding, lane, stores, next, swept, stopping>>

(* clear_in_turn: out of limbo first, then wait for the earlier takes.     *)
LeaveLimbo(t) ==
  /\ take[t].st = "written" /\ take[t].by = "barrier"
  /\ open' = [open EXCEPT ![t].in_limbo = FALSE]
  /\ TakeIs(t, "waiting")
  /\ UNCHANGED <<mined, emitted, abuf, encoding, rbuf, lane, stores, next, swept, stopping>>

ClearInTurn(t) ==
  /\ take[t].st = "waiting" /\ ~Waiting(t)
  /\ open' = Cleared(t)
  /\ TakeIs(t, IF ClearOk(t) THEN "publish" ELSE "held")
  /\ UNCHANGED <<mined, emitted, abuf, encoding, rbuf, lane, stores, next, swept, stopping>>

(* Feed::publish, and the requeue of what it could not put or was refused. *)
Settle(t, ok) ==
  /\ HandoffFree
  /\ published' = published \cup ok
  /\ rbuf' = rbuf \cup (take[t].records \ ok)
  /\ take' = [take EXCEPT ![t].st = "closed", ![t].records = {}]
  /\ UNCHANGED <<mined, emitted, abuf, encoding, lane, durable, given_up, ledger, swept, stopping>>

Publish(t) == take[t].st = "publish" /\ \E ok \in SUBSET take[t].records : Settle(t, ok)
Hold(t) == take[t].st = "held" /\ Settle(t, {})
-----------------------------------------------------------------------------
SettleStep(t) ==
  \/ Offer(t) \/ Write(t) \/ Return(t) \/ Abandon(t) \/ Unwind(t) \/ Clear(t)
  \/ LeaveLimbo(t) \/ ClearInTurn(t) \/ Publish(t) \/ Hold(t)

Next ==
  \/ Mine \/ PublishLane \/ SweepTakes \/ BarrierTakes \/ StopTakes
  \/ \E r \in Line : Append(r)
  \/ \E t \in Id : TakeRecords(t) \/ SettleStep(t)

Spec == Init /\ [][Next]_vars

(* The sweep, the barrier task and the shutdown each run to the end of     *)
(* what they took; nothing makes them take.                                *)
FairSpec == Spec /\ \A t \in Id : WF_vars(TakeRecords(t) \/ SettleStep(t))
-----------------------------------------------------------------------------
(* A record is never visible before every event emitted up to it is        *)
(* durable, or given up for good: not while an earlier drain's events are  *)
(* still being written, sit in the barrier's pending slot, or went back to *)
(* the buffer after the record's own drain (audit_sink.rs, Ledger).        *)
AuditBeforeRecord ==
  \A r \in published : \A e \in emitted : e <= r => e \in durable \cup given_up

(* Every event that has not reached the stream is in the buffer, or in a   *)
(* take whose ticket shows it in limbo, so that no inline publish and no   *)
(* later drain overlooks it: a drain that fails, is parked or is refused   *)
(* loses none (audit_sink.rs, take_ticketed and requeue; publish.rs, park  *)
(* and write).                                                             *)
EventsAreKept ==
  emitted = abuf \cup durable \cup given_up
                 \cup UNION {take[t].audit : t \in {s \in Id : open[s].in_limbo}}

(* Every take settles: nobody waits for a ticket that only the waiter, or  *)
(* a drain queued behind it, could close (audit_sink.rs, clear_in_turn).   *)
(* A ticket is issued once, so each settles if again and again all have.   *)
EveryTakeSettles == []<>(\A t \in Id : take[t].st = "closed")

(* The ledger of takes and the events they carry: types, and no event is   *)
(* lost (audit_sink.rs, issue, requeue and abandon).                       *)
LedgerInv == TypeOK /\ EventsAreKept
=============================================================================
