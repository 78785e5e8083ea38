-------------------------- MODULE AuditOrderProof --------------------------
(***************************************************************************)
(* Proofs about the audit order, for any number of lines and takes.        *)
(*                                                                         *)
(* AuditBeforeRecord is not inductive: a record is published long after    *)
(* its drain, and what the ledger says by then must still account for      *)
(* every event the record may depend on.  Accounted says so of every open  *)
(* take: an event that is not settled is in this take or an earlier one    *)
(* that the ledger shows in limbo, or this take is doomed.                 *)
(***************************************************************************)
EXTENDS AuditOrder, TLAPS

Done == durable \cup given_up

(* Every event a record may depend on is durable, or given up for good.    *)
Safe(r) == \A e \in emitted : e <= r => e \in Done

(* An event that take s has, or has just returned to the buffer.           *)
Owes(s, e) == open[s].in_limbo /\ (e \in take[s].audit \/ take[s].st = "returned")

(* What a take's ledger entry promises of its records.                     *)
Accounted(t) ==
  \A r \in take[t].records : \A e \in emitted :
    e <= r /\ e \notin Done => open[t].doomed \/ \E s \in Id : s <= t /\ Owes(s, e)

(* No event is lost, elementwise.                                          *)
KeptInv ==
  \A e \in emitted :
    e \in abuf \cup Done \/ \E t \in Id : open[t].in_limbo /\ e \in take[t].audit

(* The life of a take: it holds events only while the ledger shows it in   *)
(* limbo, holds no records once returned or closed, and its slot is empty  *)
(* before it is issued.                                                    *)
TakeInv ==
  /\ \A t \in Id : take[t].audit # {} =>
       open[t].in_limbo /\ take[t].st \in {"taking", "offered", "drained", "failed"}
  /\ \A t \in Id : take[t].st \in {"closed", "returned"} => take[t].records = {}
  /\ \A t \in Id : next <= t => take[t] = NoTake /\ open[t] = Closed

(* A drain holds the handoff mutex between its two halves: the buffer it   *)
(* emptied stays empty, and no take comes after it.                        *)
DrainInv == \A t \in Id : take[t].st = "taking" => t = next - 1 /\ abuf = {}

(* The shutdown's take is alone, and nothing fills the buffer behind it    *)
(* until it fails.                                                         *)
StopInv ==
  \A t \in Id : take[t].by = "stop"
      /\ take[t].st \in {"taking", "offered", "drained", "failed", "written"} =>
    /\ stopping
    /\ \A s \in Id : s # t => take[s].st = "closed"
    /\ abuf = {}

(* What may still become visible is safe.                                  *)
SafeInv ==
  /\ \A r \in published \cup lane : Safe(r)
  /\ \A t \in Id : take[t].st = "publish" => \A r \in take[t].records : Safe(r)
  /\ \A t \in Id : take[t].st \notin {"closed", "publish", "held"} => Accounted(t)

AuditInv == KeptInv /\ TakeInv /\ DrainInv /\ StopInv /\ SafeInv
-----------------------------------------------------------------------------
Ticket == [open : BOOLEAN, in_limbo : BOOLEAN, doomed : BOOLEAN]
Makers == {"none", "sweep", "barrier", "stop"}
TakeStates == {"closed", "taking", "offered", "drained", "written", "waiting",
               "failed", "returned", "publish", "held"}

TakeRec(E, R) == [by : Makers, st : TakeStates, audit : SUBSET E, records : SUBSET R]

(* Entries of the ledger and takes, each with its type.                    *)
LedgerTyped == open \in [Id -> Ticket]
TakesTyped == take \in [Id -> TakeRec(emitted, 1..mined)]

(* The rest of TypeOK.                                                     *)
RestTyped ==
  /\ mined \in 0..MaxLines
  /\ emitted \subseteq 1..mined
  /\ encoding \cup rbuf \cup lane \cup published \subseteq 1..mined
  /\ abuf \cup durable \cup given_up \subseteq emitted
  /\ next \in 0..MaxTakes
  /\ swept \in BOOLEAN /\ stopping \in BOOLEAN

OpenMatches == \A t \in Id : open[t].open <=> take[t].st \notin {"closed", "publish", "held"}

LEMMA TypeParts == TypeOK <=> LedgerTyped /\ TakesTyped /\ RestTyped /\ OpenMatches
  BY DEF TypeOK, LedgerTyped, TakesTyped, RestTyped, OpenMatches, Ticket, TakeRec, Makers, TakeStates

LEMMA TypeInit == Init => TypeOK
<1> SUFFICES ASSUME Init PROVE TypeOK
  OBVIOUS
<1>1. LedgerTyped
  BY DEF Init, Closed, Ticket, LedgerTyped
<1>2. TakesTyped
  BY DEF Init, NoTake, Makers, TakeStates, TakeRec, TakesTyped
<1>3. OpenMatches
  BY DEF Init, NoTake, Closed, OpenMatches
<1>4. RestTyped
  <2>1. swept \in BOOLEAN /\ stopping \in BOOLEAN
    BY DEF Init
  <2>2. mined \in 0..MaxLines /\ next \in 0..MaxTakes
    BY AuditOrderAssumption DEF Init
  <2> QED
    BY <2>1, <2>2 DEF Init, RestTyped
<1> QED
  BY <1>1, <1>2, <1>3, <1>4, TypeParts

LEMMA LedgerTypedStep == TypeOK /\ [Next]_vars => LedgerTyped'
<1> SUFFICES ASSUME TypeOK, [Next]_vars PROVE LedgerTyped'
  OBVIOUS
<1>0. open \in [Id -> Ticket]
  BY TypeParts DEF LedgerTyped
<1> USE DEF LedgerTyped
<1>1. ASSUME next < MaxTakes, open' = [open EXCEPT ![next] = Standing] PROVE LedgerTyped'
  <2>1. next \in Id
    BY <1>1, AuditOrderAssumption, TypeParts DEF RestTyped, Id
  <2> QED
    BY <1>0, <1>1, <2>1 DEF Standing, Ticket
<1>2. ASSUME NEW t \in Id, open' = Abandoned(t) PROVE LedgerTyped'
  <2>1. ASSUME NEW s \in Id PROVE open'[s] \in Ticket
    <3>1. open[s] \in Ticket /\ [open[s] EXCEPT !.doomed = TRUE] \in Ticket /\ Closed \in Ticket
      BY <1>0 DEF Ticket, Closed
    <3> QED
      BY <1>2, <3>1 DEF Abandoned
  <2> QED
    BY <1>2, <2>1 DEF Abandoned
<1>3. ASSUME NEW t \in Id, open' = Cleared(t) PROVE LedgerTyped'
  BY <1>0, <1>3 DEF Cleared, Closed, Ticket
<1>4. ASSUME NEW t \in Id, open' = [open EXCEPT ![t].in_limbo = FALSE] PROVE LedgerTyped'
  BY <1>0, <1>4 DEF Ticket
<1>5. CASE open' = open
  BY <1>0, <1>5
<1> QED
  BY <1>1, <1>2, <1>3, <1>4, <1>5
  DEF Next, SettleStep, Mine, PublishLane, SweepTakes, BarrierTakes, StopTakes, Append, Issue,
      TakeRecords, Offer, Write, Return, Abandon, Unwind, Clear, LeaveLimbo, ClearInTurn, Publish,
      Hold, Settle, ledger, vars

LEMMA TakesTypedStep == TypeOK /\ [Next]_vars => TakesTyped'
<1> SUFFICES ASSUME TypeOK, [Next]_vars PROVE TakesTyped'
  OBVIOUS
<1>0. take \in [Id -> TakeRec(emitted, 1..mined)] /\ RestTyped
  BY TypeParts DEF TakesTyped
<1> USE DEF TakesTyped
<1>1. CASE emitted' = emitted /\ mined' = mined /\ take' = take
  BY <1>0, <1>1
<1>2. CASE Mine
  <2>1. mined' = mined + 1 /\ take' = take /\ emitted \subseteq emitted'
    BY <1>2 DEF Mine
  <2>2. 1..mined \subseteq 1..mined'
    BY <2>1, <1>0 DEF RestTyped
  <2>3. \A s \in Id : take[s] \in TakeRec(emitted', 1..mined')
    BY <1>0, <2>1, <2>2 DEF TakeRec
  <2> QED
    BY <1>0, <2>1, <2>3
<1>3. ASSUME NEW by \in Makers, NEW st \in TakeStates, Issue(by, st) PROVE TakesTyped'
  <2>1. next \in Id
    BY <1>0, <1>3, AuditOrderAssumption DEF Issue, RestTyped, Id
  <2>2. [by |-> by, st |-> st, audit |-> abuf, records |-> {}] \in TakeRec(emitted, 1..mined)
    BY <1>0 DEF RestTyped, TakeRec
  <2> QED
    BY <1>0, <1>3, <2>1, <2>2 DEF Issue
<1>4. ASSUME NEW t \in Id, NEW x \in TakeStates, NEW A \in SUBSET emitted, NEW Q \in SUBSET (1..mined),
             emitted' = emitted, mined' = mined,
             \/ take' = [take EXCEPT ![t].st = x]
             \/ take' = [take EXCEPT ![t].audit = A, ![t].st = x]
             \/ take' = [take EXCEPT ![t].st = x, ![t].records = Q]
             \/ take' = [take EXCEPT ![t].st = x, ![t].audit = A, ![t].records = Q]
             \/ take' = [take EXCEPT ![t].records = Q, ![t].st = x]
      PROVE  TakesTyped'
  <2>0. take[t] \in TakeRec(emitted, 1..mined)
    BY <1>0, <1>4
  <2>1. [take EXCEPT ![t].st = x] \in [Id -> TakeRec(emitted, 1..mined)]
    BY <1>0, <1>4, <2>0 DEF TakeRec
  <2>2. [take EXCEPT ![t].audit = A, ![t].st = x] \in [Id -> TakeRec(emitted, 1..mined)]
    BY <1>0, <1>4, <2>0 DEF TakeRec
  <2>3. [take EXCEPT ![t].st = x, ![t].records = Q] \in [Id -> TakeRec(emitted, 1..mined)]
    BY <1>0, <1>4, <2>0 DEF TakeRec
  <2>4. [take EXCEPT ![t].st = x, ![t].audit = A, ![t].records = Q] \in [Id -> TakeRec(emitted, 1..mined)]
    BY <1>0, <1>4, <2>0 DEF TakeRec
  <2>5. [take EXCEPT ![t].records = Q, ![t].st = x] \in [Id -> TakeRec(emitted, 1..mined)]
    BY <1>0, <1>4, <2>0 DEF TakeRec
  <2> QED
    BY <1>4, <2>1, <2>2, <2>3, <2>4, <2>5
<1>5. ASSUME NEW t \in Id PROVE take[t].audit \subseteq emitted /\ take[t].records \subseteq 1..mined
  BY <1>0 DEF TakeRec
<1>6. ASSUME NEW t \in Id, TakeRecords(t) PROVE TakesTyped'
  <2>1. PICK out \in SUBSET rbuf : take' = [take EXCEPT ![t].records = out,
            ![t].st = IF take[t].by = "barrier" THEN "offered" ELSE "drained"]
    BY <1>6 DEF TakeRecords
  <2>2. out \in SUBSET (1..mined) /\ emitted' = emitted /\ mined' = mined
    BY <1>0, <1>6 DEF TakeRecords, RestTyped
  <2>3. (IF take[t].by = "barrier" THEN "offered" ELSE "drained") \in TakeStates
    BY DEF TakeStates
  <2> QED
    BY <1>4, <2>1, <2>2, <2>3
<1>7. ASSUME NEW t \in Id, Offer(t) PROVE TakesTyped'
  BY <1>0, <1>4, <1>5, <1>7 DEF Offer, TakeIs, TakeStates, RestTyped
<1>8. ASSUME NEW t \in Id, Write(t) PROVE TakesTyped'
  BY <1>0, <1>4, <1>5, <1>8 DEF Write, TakeStates, RestTyped
<1>9. ASSUME NEW t \in Id, Return(t) PROVE TakesTyped'
  <2>1. /\ take' = [take EXCEPT ![t].st = "returned", ![t].audit = {}, ![t].records = {}]
        /\ emitted' = emitted /\ mined' = mined
    BY <1>9 DEF Return
  <2>2. "returned" \in TakeStates /\ {} \in SUBSET emitted /\ {} \in SUBSET (1..mined)
    BY DEF TakeStates
  <2> QED
    BY <1>4, <2>1, <2>2
<1>10. ASSUME NEW t \in Id, Abandon(t) PROVE TakesTyped'
  BY <1>0, <1>4, <1>5, <1>10 DEF Abandon, TakeIs, TakeStates, RestTyped
<1>11. ASSUME NEW t \in Id, Unwind(t) PROVE TakesTyped'
  <2>1. /\ take' = [take EXCEPT ![t].st = "closed", ![t].audit = {}, ![t].records = {}]
        /\ emitted' = emitted /\ mined' = mined
    BY <1>11 DEF Unwind
  <2>2. "closed" \in TakeStates /\ {} \in SUBSET emitted /\ {} \in SUBSET (1..mined)
    BY DEF TakeStates
  <2> QED
    BY <1>4, <2>1, <2>2
<1>12. ASSUME NEW t \in Id, Clear(t) PROVE TakesTyped'
  BY <1>0, <1>4, <1>5, <1>12 DEF Clear, TakeIs, TakeStates, RestTyped
<1>13. ASSUME NEW t \in Id, LeaveLimbo(t) PROVE TakesTyped'
  BY <1>0, <1>4, <1>5, <1>13 DEF LeaveLimbo, TakeIs, TakeStates, RestTyped
<1>14. ASSUME NEW t \in Id, ClearInTurn(t) PROVE TakesTyped'
  <2>1. /\ take' = [take EXCEPT ![t].st = IF ClearOk(t) THEN "publish" ELSE "held"]
        /\ emitted' = emitted /\ mined' = mined
    BY <1>14 DEF ClearInTurn, TakeIs
  <2>2. (IF ClearOk(t) THEN "publish" ELSE "held") \in TakeStates
    BY DEF TakeStates
  <2> QED
    BY <1>4, <2>1, <2>2
<1>15. ASSUME NEW t \in Id, Publish(t) PROVE TakesTyped'
  <2>1. /\ take' = [take EXCEPT ![t].st = "closed", ![t].records = {}]
        /\ emitted' = emitted /\ mined' = mined
    BY <1>15 DEF Publish, Settle
  <2>2. "closed" \in TakeStates /\ {} \in SUBSET emitted /\ {} \in SUBSET (1..mined)
    BY DEF TakeStates
  <2> QED
    BY <1>4, <2>1, <2>2
<1>16. ASSUME NEW t \in Id, Hold(t) PROVE TakesTyped'
  <2>1. /\ take' = [take EXCEPT ![t].st = "closed", ![t].records = {}]
        /\ emitted' = emitted /\ mined' = mined
    BY <1>16 DEF Hold, Settle
  <2>2. "closed" \in TakeStates /\ {} \in SUBSET emitted /\ {} \in SUBSET (1..mined)
    BY DEF TakeStates
  <2> QED
    BY <1>4, <2>1, <2>2
<1>17. CASE SweepTakes \/ BarrierTakes \/ StopTakes
  BY <1>3, <1>17 DEF SweepTakes, BarrierTakes, StopTakes, Makers, TakeStates
<1>18. CASE PublishLane \/ UNCHANGED vars \/ \E r \in Line : Append(r)
  BY <1>1, <1>18 DEF PublishLane, Append, vars
<1> QED
  BY <1>2, <1>6, <1>7, <1>8, <1>9, <1>10, <1>11, <1>12, <1>13, <1>14, <1>15, <1>16, <1>17, <1>18 DEF Next, SettleStep

LEMMA RestTypedStep == TypeOK /\ [Next]_vars => RestTyped'
<1> SUFFICES ASSUME TypeOK, [Next]_vars PROVE RestTyped'
  OBVIOUS
<1>0. RestTyped /\ \A t \in Id : take[t].audit \subseteq emitted /\ take[t].records \subseteq 1..mined
  BY TypeParts DEF TakesTyped, TakeRec
<1> USE DEF RestTyped, ledger, stores
<1>1. CASE Mine
  <2>1. PICK e \in {{}, {mined + 1}} : emitted' = emitted \cup e /\ abuf' = abuf \cup e
    BY <1>1 DEF Mine
  <2>2. mined' = mined + 1 /\ mined' \in 0..MaxLines /\ 1..mined \subseteq 1..mined' /\ mined' \in 1..mined'
    BY <1>0, <1>1, AuditOrderAssumption DEF Mine
  <2> QED
    BY <1>0, <1>1, <2>1, <2>2 DEF Mine
<1>2. ASSUME NEW by, NEW st, Issue(by, st), stopping' \in BOOLEAN PROVE RestTyped'
  BY <1>0, <1>2, AuditOrderAssumption DEF Issue
<1>3. CASE SweepTakes \/ BarrierTakes \/ StopTakes
  BY <1>0, <1>2, <1>3 DEF SweepTakes, BarrierTakes, StopTakes
<1>4. CASE PublishLane
  BY <1>0, <1>4 DEF PublishLane
<1>5. ASSUME NEW r \in Line, Append(r) PROVE RestTyped'
  BY <1>0, <1>5 DEF Append
<1>6. ASSUME NEW t \in Id, TakeRecords(t) PROVE RestTyped'
  BY <1>0, <1>6 DEF TakeRecords
<1>7. ASSUME NEW t \in Id, Write(t) PROVE RestTyped'
  <2>1. take[t].audit \subseteq emitted
    BY <1>0, <1>7
  <2> QED
    BY <1>0, <1>7, <2>1 DEF Write
<1>8. ASSUME NEW t \in Id, Return(t) PROVE RestTyped'
  <2>1. take[t].audit \subseteq emitted /\ take[t].records \subseteq 1..mined
    BY <1>0, <1>8
  <2> QED
    BY <1>0, <1>8, <2>1 DEF Return
<1>9. ASSUME NEW t \in Id, Unwind(t) PROVE RestTyped'
  <2>1. take[t].audit \subseteq emitted
    BY <1>0, <1>9
  <2> QED
    BY <1>0, <1>9, <2>1 DEF Unwind
<1>10. ASSUME NEW t \in Id, Clear(t) PROVE RestTyped'
  BY <1>0, <1>10 DEF Clear
<1>11. ASSUME NEW t \in Id, NEW ok \in SUBSET take[t].records, Settle(t, ok) PROVE RestTyped'
  <2>1. take[t].records \subseteq 1..mined
    BY <1>0, <1>11
  <2> QED
    BY <1>0, <1>11, <2>1 DEF Settle
<1>12. ASSUME NEW t \in Id, Publish(t) \/ Hold(t) PROVE RestTyped'
  <2>1. {} \in SUBSET take[t].records
    OBVIOUS
  <2> QED
    BY <1>11, <1>12, <2>1 DEF Publish, Hold
<1>13. ASSUME NEW t \in Id, Offer(t) \/ Abandon(t) \/ LeaveLimbo(t) \/ ClearInTurn(t) PROVE RestTyped'
  BY <1>0, <1>13 DEF Offer, Abandon, LeaveLimbo, ClearInTurn
<1>14. CASE UNCHANGED vars
  BY <1>0, <1>14 DEF vars
<1> QED
  BY <1>1, <1>3, <1>4, <1>5, <1>6, <1>7, <1>8, <1>9, <1>10, <1>12, <1>13, <1>14 DEF Next, SettleStep

LEMMA OpenMatchesStep == TypeOK /\ [Next]_vars => OpenMatches'
<1> SUFFICES ASSUME TypeOK, [Next]_vars PROVE OpenMatches'
  OBVIOUS
<1>0. /\ open \in [Id -> Ticket] /\ take \in [Id -> TakeRec(emitted, 1..mined)]
      /\ \A t \in Id : open[t].open <=> take[t].st \notin {"closed", "publish", "held"}
  BY TypeParts DEF LedgerTyped, TakesTyped, OpenMatches
<1>1. ASSUME NEW by, NEW st \in {"taking", "drained"}, Issue(by, st) PROVE OpenMatches'
  <2>1. next \in Id
    BY <1>1, AuditOrderAssumption, TypeParts DEF Issue, RestTyped, Id
  <2>2. ASSUME NEW s \in Id PROVE open'[s].open <=> take'[s].st \notin {"closed", "publish", "held"}
    <3>1. CASE s = next
      BY <1>0, <1>1, <2>1, <3>1 DEF Issue, Standing, Ticket, TakeRec
    <3>2. CASE s # next
      BY <1>0, <1>1, <2>1, <3>2 DEF Issue
    <3> QED
      BY <3>1, <3>2
  <2> QED
    BY <2>2 DEF OpenMatches
<1>2. CASE SweepTakes \/ BarrierTakes \/ StopTakes
  BY <1>1, <1>2 DEF SweepTakes, BarrierTakes, StopTakes
<1>3. CASE open' = open /\ take' = take
  BY <1>0, <1>3 DEF OpenMatches
<1>4. ASSUME NEW t \in Id,
             open' = open \/ open' = Abandoned(t) \/ open' = Cleared(t)
               \/ open' = [open EXCEPT ![t].in_limbo = FALSE],
             \A s \in Id : s # t => take'[s] = take[s],
             open'[t].open <=> take'[t].st \notin {"closed", "publish", "held"}
      PROVE  OpenMatches'
  <2>1. ASSUME NEW s \in Id, s # t PROVE open'[s].open = open[s].open
    BY <1>0, <1>4, <2>1 DEF Abandoned, Cleared, Ticket
  <2> QED
    BY <1>0, <1>4, <2>1 DEF OpenMatches
<1>5. ASSUME NEW t \in Id, TakeRecords(t) PROVE OpenMatches'
  <2>1. open'[t].open <=> take'[t].st \notin {"closed", "publish", "held"}
    BY <1>0, <1>5 DEF TakeRecords, ledger, Ticket, TakeRec
  <2>2. \A s \in Id : s # t => take'[s] = take[s]
    BY <1>0, <1>5 DEF TakeRecords
  <2> QED
    BY <1>4, <1>5, <2>1, <2>2 DEF TakeRecords, ledger
<1>6. ASSUME NEW t \in Id, Offer(t) PROVE OpenMatches'
  <2>1. open'[t].open <=> take'[t].st \notin {"closed", "publish", "held"}
    BY <1>0, <1>6 DEF Offer, TakeIs, ledger, Ticket, TakeRec
  <2>2. \A s \in Id : s # t => take'[s] = take[s]
    BY <1>0, <1>6 DEF Offer, TakeIs
  <2> QED
    BY <1>4, <1>6, <2>1, <2>2 DEF Offer, ledger
<1>7. ASSUME NEW t \in Id, Write(t) PROVE OpenMatches'
  <2>1. open'[t].open <=> take'[t].st \notin {"closed", "publish", "held"}
    BY <1>0, <1>7 DEF Write, ledger, Ticket, TakeRec
  <2>2. \A s \in Id : s # t => take'[s] = take[s]
    BY <1>0, <1>7 DEF Write
  <2> QED
    BY <1>4, <1>7, <2>1, <2>2 DEF Write, ledger
<1>8. ASSUME NEW t \in Id, Return(t) PROVE OpenMatches'
  <2>1. open'[t].open <=> take'[t].st \notin {"closed", "publish", "held"}
    BY <1>0, <1>8 DEF Return, ledger, Ticket, TakeRec
  <2>2. \A s \in Id : s # t => take'[s] = take[s]
    BY <1>0, <1>8 DEF Return
  <2> QED
    BY <1>4, <1>8, <2>1, <2>2 DEF Return, ledger
<1>9. ASSUME NEW t \in Id, Abandon(t) PROVE OpenMatches'
  <2>1. open'[t].open <=> take'[t].st \notin {"closed", "publish", "held"}
    BY <1>0, <1>9 DEF Abandon, TakeIs, Abandoned, Closed, ledger, Ticket, TakeRec
  <2>2. \A s \in Id : s # t => take'[s] = take[s]
    BY <1>0, <1>9 DEF Abandon, TakeIs
  <2> QED
    BY <1>4, <1>9, <2>1, <2>2 DEF Abandon, ledger
<1>10. ASSUME NEW t \in Id, Unwind(t) PROVE OpenMatches'
  <2>1. open'[t].open <=> take'[t].st \notin {"closed", "publish", "held"}
    BY <1>0, <1>10 DEF Unwind, Abandoned, Closed, ledger, Ticket, TakeRec
  <2>2. \A s \in Id : s # t => take'[s] = take[s]
    BY <1>0, <1>10 DEF Unwind
  <2> QED
    BY <1>4, <1>10, <2>1, <2>2 DEF Unwind, ledger
<1>11. ASSUME NEW t \in Id, Clear(t) PROVE OpenMatches'
  <2>1. open'[t].open <=> take'[t].st \notin {"closed", "publish", "held"}
    BY <1>0, <1>11 DEF Clear, TakeIs, Cleared, Closed, ledger, Ticket, TakeRec
  <2>2. \A s \in Id : s # t => take'[s] = take[s]
    BY <1>0, <1>11 DEF Clear, TakeIs
  <2> QED
    BY <1>4, <1>11, <2>1, <2>2 DEF Clear, ledger
<1>12. ASSUME NEW t \in Id, LeaveLimbo(t) PROVE OpenMatches'
  <2>1. open'[t].open <=> take'[t].st \notin {"closed", "publish", "held"}
    BY <1>0, <1>12 DEF LeaveLimbo, TakeIs, ledger, Ticket, TakeRec
  <2>2. \A s \in Id : s # t => take'[s] = take[s]
    BY <1>0, <1>12 DEF LeaveLimbo, TakeIs
  <2> QED
    BY <1>4, <1>12, <2>1, <2>2 DEF LeaveLimbo, ledger
<1>13. ASSUME NEW t \in Id, ClearInTurn(t) PROVE OpenMatches'
  <2>1. open'[t].open <=> take'[t].st \notin {"closed", "publish", "held"}
    BY <1>0, <1>13 DEF ClearInTurn, TakeIs, Cleared, Closed, ledger, Ticket, TakeRec
  <2>2. \A s \in Id : s # t => take'[s] = take[s]
    BY <1>0, <1>13 DEF ClearInTurn, TakeIs
  <2> QED
    BY <1>4, <1>13, <2>1, <2>2 DEF ClearInTurn, ledger
<1>14. ASSUME NEW t \in Id, Publish(t) PROVE OpenMatches'
  <2>1. open'[t].open <=> take'[t].st \notin {"closed", "publish", "held"}
    BY <1>0, <1>14 DEF Publish, Settle, ledger, Ticket, TakeRec
  <2>2. \A s \in Id : s # t => take'[s] = take[s]
    BY <1>0, <1>14 DEF Publish, Settle
  <2> QED
    BY <1>4, <1>14, <2>1, <2>2 DEF Publish, Settle, ledger
<1>15. ASSUME NEW t \in Id, Hold(t) PROVE OpenMatches'
  <2>1. open'[t].open <=> take'[t].st \notin {"closed", "publish", "held"}
    BY <1>0, <1>15 DEF Hold, Settle, ledger, Ticket, TakeRec
  <2>2. \A s \in Id : s # t => take'[s] = take[s]
    BY <1>0, <1>15 DEF Hold, Settle
  <2> QED
    BY <1>4, <1>15, <2>1, <2>2 DEF Hold, Settle, ledger
<1>16. CASE Mine \/ PublishLane \/ UNCHANGED vars \/ \E r \in Line : Append(r)
  BY <1>3, <1>16 DEF Mine, PublishLane, Append, ledger, vars
<1> QED
  BY <1>2, <1>5, <1>6, <1>7, <1>8, <1>9, <1>10, <1>11, <1>12, <1>13, <1>14, <1>15, <1>16 DEF Next, SettleStep

LEMMA TypeStep == TypeOK /\ [Next]_vars => TypeOK'
<1>1. TypeOK' <=> LedgerTyped' /\ TakesTyped' /\ RestTyped' /\ OpenMatches'
  BY DEF TypeOK, LedgerTyped, TakesTyped, RestTyped, OpenMatches, Ticket, TakeRec, Makers, TakeStates
<1> QED
  BY <1>1, LedgerTypedStep, TakesTypedStep, RestTypedStep, OpenMatchesStep
-----------------------------------------------------------------------------
(* What a step does to one take, field by field, and to one ledger entry.  *)
TakeBecomes(t, st, A, R) ==
  /\ \A s \in Id : s # t => take'[s] = take[s]
  /\ take'[t].by = take[t].by /\ take'[t].st = st
  /\ take'[t].audit = A /\ take'[t].records = R

EntryCloses(t) ==
  /\ \A s \in Id : s # t => open'[s] = open[s]
  /\ open'[t] = Closed

EntryAbandoned(t) ==
  /\ open'[t] = Closed
  /\ \A s \in Id : s # t =>
       /\ open'[s].in_limbo = open[s].in_limbo
       /\ open'[s].doomed <=> open[s].doomed \/ (s > t /\ open[s].open /\ open[t].in_limbo)
       /\ s > t \/ open'[s] = open[s]
       /\ open[s] = Closed => open'[s] = Closed

EntryLeavesLimbo(t) ==
  /\ \A s \in Id : s # t => open'[s] = open[s]
  /\ ~open'[t].in_limbo /\ open'[t].doomed = open[t].doomed

IssuedAt(t, by, st) ==
  /\ next = t /\ next' = t + 1
  /\ \A s \in Id : s # t => take'[s] = take[s] /\ open'[s] = open[s]
  /\ take'[t].by = by /\ take'[t].st = st /\ take'[t].audit = abuf /\ take'[t].records = {}
  /\ (open'[t].in_limbo <=> abuf # {}) /\ ~open'[t].doomed

LEMMA TakeEffects ==
  ASSUME TypeOK, NEW t \in Id, NEW st, NEW A, NEW R,
         \/ take' = [take EXCEPT ![t].st = st] /\ A = take[t].audit /\ R = take[t].records
         \/ take' = [take EXCEPT ![t].audit = A, ![t].st = st] /\ R = take[t].records
         \/ take' = [take EXCEPT ![t].st = st, ![t].records = R] /\ A = take[t].audit
         \/ take' = [take EXCEPT ![t].records = R, ![t].st = st] /\ A = take[t].audit
         \/ take' = [take EXCEPT ![t].st = st, ![t].audit = A, ![t].records = R]
  PROVE  TakeBecomes(t, st, A, R)
<1>1. take \in [Id -> TakeRec(emitted, 1..mined)] /\ take[t] \in TakeRec(emitted, 1..mined)
  BY TypeParts DEF TakesTyped
<1> QED
  BY <1>1 DEF TakeBecomes, TakeRec

LEMMA EntryEffects ==
  ASSUME TypeOK, NEW t \in Id
  PROVE  /\ open' = Cleared(t) => EntryCloses(t)
         /\ open' = Abandoned(t) => EntryAbandoned(t)
         /\ open' = [open EXCEPT ![t].in_limbo = FALSE] => EntryLeavesLimbo(t)
<1>1. open \in [Id -> Ticket] /\ open[t] \in Ticket
  BY TypeParts DEF LedgerTyped
<1>2. ASSUME open' = Abandoned(t), NEW s \in Id, s # t
      PROVE  /\ open'[s].in_limbo = open[s].in_limbo
             /\ open'[s].doomed <=> open[s].doomed \/ (s > t /\ open[s].open /\ open[t].in_limbo)
             /\ s > t \/ open'[s] = open[s]
             /\ open[s] = Closed => open'[s] = Closed
  <2>1. open[s] \in Ticket
    BY <1>1, <1>2
  <2>2. open'[s] = IF s > t /\ open[s].open /\ open[t].in_limbo
                   THEN [open[s] EXCEPT !.doomed = TRUE] ELSE open[s]
    BY <1>2 DEF Abandoned
  <2>3. CASE s > t /\ open[s].open /\ open[t].in_limbo
    BY <2>1, <2>2, <2>3 DEF Ticket, Closed
  <2>4. CASE ~(s > t /\ open[s].open /\ open[t].in_limbo)
    BY <2>2, <2>4
  <2> QED
    BY <2>3, <2>4
<1>3. open' = Abandoned(t) => open'[t] = Closed
  BY DEF Abandoned
<1>4. open' = Abandoned(t) => EntryAbandoned(t)
  BY <1>2, <1>3 DEF EntryAbandoned
<1>5. open' = Cleared(t) => EntryCloses(t)
  BY <1>1 DEF Cleared, EntryCloses
<1>6. open' = [open EXCEPT ![t].in_limbo = FALSE] => EntryLeavesLimbo(t)
  BY <1>1 DEF EntryLeavesLimbo, Ticket
<1> QED
  BY <1>4, <1>5, <1>6

LEMMA IssueEffects ==
  ASSUME TypeOK, NEW by, NEW st, Issue(by, st)
  PROVE  next \in Id /\ IssuedAt(next, by, st)
<1>1. /\ take \in [Id -> TakeRec(emitted, 1..mined)] /\ open \in [Id -> Ticket]
      /\ next \in Id
  BY TypeParts, AuditOrderAssumption DEF TakesTyped, LedgerTyped, RestTyped, Issue, Id
<1>2. open'[next] = Standing /\ take'[next] = [by |-> by, st |-> st, audit |-> abuf, records |-> {}]
  BY <1>1 DEF Issue
<1>3. \A s \in Id : s # next => take'[s] = take[s] /\ open'[s] = open[s]
  BY <1>1 DEF Issue
<1> QED
  BY <1>1, <1>2, <1>3 DEF Issue, IssuedAt, Standing

LEMMA StepEffects ==
  ASSUME TypeOK, NEW t \in Id
  PROVE  /\ TakeRecords(t) => \E out \in SUBSET rbuf :
           TakeBecomes(t, IF take[t].by = "barrier" THEN "offered" ELSE "drained", take[t].audit, out)
         /\ Offer(t) => TakeBecomes(t, "drained", take[t].audit, take[t].records)
         /\ Write(t) => \E retained \in SUBSET take[t].audit :
           /\ TakeBecomes(t, IF retained = {} THEN "written" ELSE "failed", retained, take[t].records)
           /\ \A e \in take[t].audit \ retained : e \in Done'
         /\ Return(t) => TakeBecomes(t, "returned", {}, {})
         /\ Abandon(t) => TakeBecomes(t, "closed", take[t].audit, take[t].records) /\ EntryAbandoned(t)
         /\ Unwind(t) => TakeBecomes(t, "closed", {}, {}) /\ EntryAbandoned(t)
         /\ Clear(t) =>
           /\ EntryCloses(t)
           /\ IF take[t].by = "stop" THEN TakeBecomes(t, "publish", take[t].audit, rbuf)
              ELSE TakeBecomes(t, IF ClearOk(t) THEN "publish" ELSE "held",
                               take[t].audit, take[t].records)
         /\ LeaveLimbo(t) => TakeBecomes(t, "waiting", take[t].audit, take[t].records) /\ EntryLeavesLimbo(t)
         /\ ClearInTurn(t) =>
           /\ EntryCloses(t)
           /\ TakeBecomes(t, IF ClearOk(t) THEN "publish" ELSE "held", take[t].audit, take[t].records)
         /\ \A ok : Settle(t, ok) => TakeBecomes(t, "closed", take[t].audit, {})
<1>1. ASSUME TakeRecords(t)
      PROVE  \E out \in SUBSET rbuf :
           TakeBecomes(t, IF take[t].by = "barrier" THEN "offered" ELSE "drained", take[t].audit, out)
  BY <1>1, TakeEffects, EntryEffects DEF TakeRecords
<1>2. ASSUME Offer(t)
      PROVE  TakeBecomes(t, "drained", take[t].audit, take[t].records)
  BY <1>2, TakeEffects, EntryEffects DEF Offer, TakeIs
<1>3. ASSUME Write(t)
      PROVE  \E retained \in SUBSET take[t].audit :
           /\ TakeBecomes(t, IF retained = {} THEN "written" ELSE "failed", retained, take[t].records)
           /\ \A e \in take[t].audit \ retained : e \in Done'
  BY <1>3, TakeEffects, EntryEffects DEF Write, Done
<1>4. ASSUME Return(t)
      PROVE  TakeBecomes(t, "returned", {}, {})
  BY <1>4, TakeEffects, EntryEffects DEF Return
<1>5. ASSUME Abandon(t)
      PROVE  TakeBecomes(t, "closed", take[t].audit, take[t].records) /\ EntryAbandoned(t)
  BY <1>5, TakeEffects, EntryEffects DEF Abandon, TakeIs
<1>6. ASSUME Unwind(t)
      PROVE  TakeBecomes(t, "closed", {}, {}) /\ EntryAbandoned(t)
  BY <1>6, TakeEffects, EntryEffects DEF Unwind
<1>7. ASSUME Clear(t)
      PROVE
           /\ EntryCloses(t)
           /\ IF take[t].by = "stop" THEN TakeBecomes(t, "publish", take[t].audit, rbuf)
              ELSE TakeBecomes(t, IF ClearOk(t) THEN "publish" ELSE "held",
                               take[t].audit, take[t].records)
  BY <1>7, TakeEffects, EntryEffects DEF Clear, TakeIs
<1>8. ASSUME LeaveLimbo(t)
      PROVE  TakeBecomes(t, "waiting", take[t].audit, take[t].records) /\ EntryLeavesLimbo(t)
  BY <1>8, TakeEffects, EntryEffects DEF LeaveLimbo, TakeIs
<1>9. ASSUME ClearInTurn(t)
      PROVE
           /\ EntryCloses(t)
           /\ TakeBecomes(t, IF ClearOk(t) THEN "publish" ELSE "held", take[t].audit, take[t].records)
  BY <1>9, TakeEffects, EntryEffects DEF ClearInTurn, TakeIs
<1>10. ASSUME NEW ok, Settle(t, ok) PROVE TakeBecomes(t, "closed", take[t].audit, {})
  BY <1>10, TakeEffects DEF Settle
<1> QED
  BY <1>1, <1>2, <1>3, <1>4, <1>5, <1>6, <1>7, <1>8, <1>9, <1>10
-----------------------------------------------------------------------------
LEMMA KeptStep == TypeOK /\ KeptInv /\ TakeInv /\ [Next]_vars => KeptInv'
<1> SUFFICES ASSUME TypeOK, KeptInv, TakeInv, [Next]_vars,
                    NEW e \in emitted', e \notin (abuf \cup Done)'
             PROVE  \E s \in Id : open'[s].in_limbo /\ e \in take'[s].audit
  BY DEF KeptInv
<1>0. e \in emitted => e \in abuf \cup Done \/ \E s \in Id : open[s].in_limbo /\ e \in take[s].audit
  BY DEF KeptInv
<1>1. \A s \in Id : take[s].audit # {} =>
         open[s].in_limbo /\ take[s].st \in {"taking", "offered", "drained", "failed"}
  BY DEF TakeInv
<1> HIDE DEF TypeOK, KeptInv, TakeInv
<1> USE DEF Done, stores, ledger
<1>2. CASE Mine
  BY <1>0, <1>2 DEF Mine
<1>3. CASE PublishLane \/ UNCHANGED vars \/ \E r \in Line : Append(r)
  BY <1>0, <1>3 DEF PublishLane, Append, vars
<1>4. ASSUME NEW by, NEW st, Issue(by, st) PROVE \E s \in Id : open'[s].in_limbo /\ e \in take'[s].audit
  <2>1. next \in Id /\ IssuedAt(next, by, st)
    BY <1>4, IssueEffects
  <2>2. take[next] = NoTake
    BY <2>1, TypeParts DEF TakeInv, RestTyped
  <2>3. CASE e \in abuf
    BY <2>1, <2>3 DEF IssuedAt
  <2>4. CASE e \notin abuf
    <3>1. PICK s \in Id : open[s].in_limbo /\ e \in take[s].audit
      BY <1>0, <1>4, <2>4 DEF Issue
    <3>2. s # next
      BY <2>2, <3>1 DEF NoTake
    <3> QED
      BY <2>1, <3>1, <3>2 DEF IssuedAt
  <2> QED
    BY <2>3, <2>4
<1>5. CASE SweepTakes \/ BarrierTakes \/ StopTakes
  BY <1>4, <1>5 DEF SweepTakes, BarrierTakes, StopTakes
<1>6. ASSUME NEW t \in Id,
             e \in emitted, e \notin abuf \cup Done,
             \A s \in Id : s # t => take'[s] = take[s] /\ open'[s].in_limbo = open[s].in_limbo,
             e \in take[t].audit => open'[t].in_limbo /\ e \in take'[t].audit
      PROVE  \E s \in Id : open'[s].in_limbo /\ e \in take'[s].audit
  <2>1. PICK s \in Id : open[s].in_limbo /\ e \in take[s].audit
    BY <1>0, <1>6
  <2> QED
    BY <1>6, <2>1
<1>7. ASSUME NEW t \in Id, TakeRecords(t) PROVE \E s \in Id : open'[s].in_limbo /\ e \in take'[s].audit
  <2>1. PICK out \in SUBSET rbuf :
          TakeBecomes(t, IF take[t].by = "barrier" THEN "offered" ELSE "drained", take[t].audit, out)
    BY <1>7, StepEffects
  <2>2. e \in emitted /\ e \notin abuf \cup Done
    BY <1>7, <2>1 DEF TakeRecords
  <2>3. \A s \in Id : s # t => take'[s] = take[s] /\ open'[s].in_limbo = open[s].in_limbo
    BY <1>7, <2>1 DEF TakeRecords, TakeBecomes
  <2>4. e \in take[t].audit => open'[t].in_limbo /\ e \in take'[t].audit
    BY <1>1, <1>7, <2>1 DEF TakeRecords, TakeBecomes
  <2> QED
    BY <1>6, <2>2, <2>3, <2>4
<1>8. ASSUME NEW t \in Id, Offer(t) PROVE \E s \in Id : open'[s].in_limbo /\ e \in take'[s].audit
  <2>1. TakeBecomes(t, "drained", take[t].audit, take[t].records)
    BY <1>8, StepEffects
  <2>2. e \in emitted /\ e \notin abuf \cup Done
    BY <1>8, <2>1 DEF Offer
  <2>3. \A s \in Id : s # t => take'[s] = take[s] /\ open'[s].in_limbo = open[s].in_limbo
    BY <1>8, <2>1 DEF Offer, TakeBecomes
  <2>4. e \in take[t].audit => open'[t].in_limbo /\ e \in take'[t].audit
    BY <1>1, <1>8, <2>1 DEF Offer, TakeBecomes
  <2> QED
    BY <1>6, <2>2, <2>3, <2>4
<1>9. ASSUME NEW t \in Id, Write(t) PROVE \E s \in Id : open'[s].in_limbo /\ e \in take'[s].audit
  <2>1. PICK retained \in SUBSET take[t].audit :
          /\ TakeBecomes(t, IF retained = {} THEN "written" ELSE "failed", retained, take[t].records)
          /\ \A x \in take[t].audit \ retained : x \in Done'
    BY <1>9, StepEffects
  <2>2. e \in emitted /\ e \notin abuf \cup Done
    BY <1>9, <2>1 DEF Write
  <2>3. \A s \in Id : s # t => take'[s] = take[s] /\ open'[s].in_limbo = open[s].in_limbo
    BY <1>9, <2>1 DEF Write, TakeBecomes
  <2>4. e \in take[t].audit => open'[t].in_limbo /\ e \in take'[t].audit
    BY <1>1, <1>9, <2>1 DEF Write, TakeBecomes
  <2> QED
    BY <1>6, <2>2, <2>3, <2>4
<1>10. ASSUME NEW t \in Id, Return(t) PROVE \E s \in Id : open'[s].in_limbo /\ e \in take'[s].audit
  <2>1. TakeBecomes(t, "returned", {}, {})
    BY <1>10, StepEffects
  <2>2. e \in emitted /\ e \notin abuf \cup Done
    BY <1>10, <2>1 DEF Return
  <2>3. \A s \in Id : s # t => take'[s] = take[s] /\ open'[s].in_limbo = open[s].in_limbo
    BY <1>10, <2>1 DEF Return, TakeBecomes
  <2>4. e \in take[t].audit => open'[t].in_limbo /\ e \in take'[t].audit
    BY <1>1, <1>10, <2>1 DEF Return, TakeBecomes
  <2> QED
    BY <1>6, <2>2, <2>3, <2>4
<1>11. ASSUME NEW t \in Id, Abandon(t) PROVE \E s \in Id : open'[s].in_limbo /\ e \in take'[s].audit
  <2>1. TakeBecomes(t, "closed", take[t].audit, take[t].records) /\ EntryAbandoned(t)
    BY <1>11, StepEffects
  <2>2. e \in emitted /\ e \notin abuf \cup Done
    BY <1>11, <2>1 DEF Abandon
  <2>3. \A s \in Id : s # t => take'[s] = take[s] /\ open'[s].in_limbo = open[s].in_limbo
    BY <1>11, <2>1 DEF Abandon, TakeBecomes, EntryAbandoned, Closed
  <2>4. e \in take[t].audit => open'[t].in_limbo /\ e \in take'[t].audit
    BY <1>1, <1>11, <2>1 DEF Abandon, TakeBecomes, EntryAbandoned, Closed
  <2> QED
    BY <1>6, <2>2, <2>3, <2>4
<1>12. ASSUME NEW t \in Id, Unwind(t) PROVE \E s \in Id : open'[s].in_limbo /\ e \in take'[s].audit
  <2>1. TakeBecomes(t, "closed", {}, {}) /\ EntryAbandoned(t)
    BY <1>12, StepEffects
  <2>2. e \in emitted /\ e \notin abuf \cup Done
    BY <1>12, <2>1 DEF Unwind
  <2>3. \A s \in Id : s # t => take'[s] = take[s] /\ open'[s].in_limbo = open[s].in_limbo
    BY <1>12, <2>1 DEF Unwind, TakeBecomes, EntryAbandoned, Closed
  <2>4. e \in take[t].audit => open'[t].in_limbo /\ e \in take'[t].audit
    BY <1>1, <1>12, <2>1 DEF Unwind, TakeBecomes, EntryAbandoned, Closed
  <2> QED
    BY <1>6, <2>2, <2>3, <2>4
<1>13. ASSUME NEW t \in Id, Clear(t) PROVE \E s \in Id : open'[s].in_limbo /\ e \in take'[s].audit
  <2>1. /\ EntryCloses(t)
        /\ IF take[t].by = "stop" THEN TakeBecomes(t, "publish", take[t].audit, rbuf)
           ELSE TakeBecomes(t, IF ClearOk(t) THEN "publish" ELSE "held", take[t].audit, take[t].records)
    BY <1>13, StepEffects
  <2>2. e \in emitted /\ e \notin abuf \cup Done
    BY <1>13, <2>1 DEF Clear
  <2>3. \A s \in Id : s # t => take'[s] = take[s] /\ open'[s].in_limbo = open[s].in_limbo
    BY <1>13, <2>1 DEF Clear, TakeBecomes, EntryCloses, Closed
  <2>4. e \in take[t].audit => open'[t].in_limbo /\ e \in take'[t].audit
    BY <1>1, <1>13, <2>1 DEF Clear, TakeBecomes, EntryCloses, Closed
  <2> QED
    BY <1>6, <2>2, <2>3, <2>4
<1>14. ASSUME NEW t \in Id, LeaveLimbo(t) PROVE \E s \in Id : open'[s].in_limbo /\ e \in take'[s].audit
  <2>1. TakeBecomes(t, "waiting", take[t].audit, take[t].records) /\ EntryLeavesLimbo(t)
    BY <1>14, StepEffects
  <2>2. e \in emitted /\ e \notin abuf \cup Done
    BY <1>14, <2>1 DEF LeaveLimbo
  <2>3. \A s \in Id : s # t => take'[s] = take[s] /\ open'[s].in_limbo = open[s].in_limbo
    BY <1>14, <2>1 DEF LeaveLimbo, TakeBecomes, EntryLeavesLimbo
  <2>4. e \in take[t].audit => open'[t].in_limbo /\ e \in take'[t].audit
    BY <1>1, <1>14, <2>1 DEF LeaveLimbo, TakeBecomes, EntryLeavesLimbo
  <2> QED
    BY <1>6, <2>2, <2>3, <2>4
<1>15. ASSUME NEW t \in Id, ClearInTurn(t) PROVE \E s \in Id : open'[s].in_limbo /\ e \in take'[s].audit
  <2>1. /\ EntryCloses(t)
        /\ TakeBecomes(t, IF ClearOk(t) THEN "publish" ELSE "held", take[t].audit, take[t].records)
    BY <1>15, StepEffects
  <2>2. e \in emitted /\ e \notin abuf \cup Done
    BY <1>15, <2>1 DEF ClearInTurn
  <2>3. \A s \in Id : s # t => take'[s] = take[s] /\ open'[s].in_limbo = open[s].in_limbo
    BY <1>15, <2>1 DEF ClearInTurn, TakeBecomes, EntryCloses, Closed
  <2>4. e \in take[t].audit => open'[t].in_limbo /\ e \in take'[t].audit
    BY <1>1, <1>15, <2>1 DEF ClearInTurn, TakeBecomes, EntryCloses, Closed
  <2> QED
    BY <1>6, <2>2, <2>3, <2>4
<1>16. ASSUME NEW t \in Id, Publish(t) PROVE \E s \in Id : open'[s].in_limbo /\ e \in take'[s].audit
  <2>1. TakeBecomes(t, "closed", take[t].audit, {})
    BY <1>16, StepEffects DEF Publish
  <2>2. e \in emitted /\ e \notin abuf \cup Done
    BY <1>16, <2>1 DEF Publish, Settle
  <2>3. \A s \in Id : s # t => take'[s] = take[s] /\ open'[s].in_limbo = open[s].in_limbo
    BY <1>16, <2>1 DEF Publish, TakeBecomes, Settle
  <2>4. e \in take[t].audit => open'[t].in_limbo /\ e \in take'[t].audit
    BY <1>1, <1>16, <2>1 DEF Publish, TakeBecomes, Settle
  <2> QED
    BY <1>6, <2>2, <2>3, <2>4
<1>17. ASSUME NEW t \in Id, Hold(t) PROVE \E s \in Id : open'[s].in_limbo /\ e \in take'[s].audit
  <2>1. TakeBecomes(t, "closed", take[t].audit, {})
    BY <1>17, StepEffects DEF Hold
  <2>2. e \in emitted /\ e \notin abuf \cup Done
    BY <1>17, <2>1 DEF Hold, Settle
  <2>3. \A s \in Id : s # t => take'[s] = take[s] /\ open'[s].in_limbo = open[s].in_limbo
    BY <1>17, <2>1 DEF Hold, TakeBecomes, Settle
  <2>4. e \in take[t].audit => open'[t].in_limbo /\ e \in take'[t].audit
    BY <1>1, <1>17, <2>1 DEF Hold, TakeBecomes, Settle
  <2> QED
    BY <1>6, <2>2, <2>3, <2>4
<1> QED
  BY <1>2, <1>3, <1>5, <1>7, <1>8, <1>9, <1>10, <1>11, <1>12, <1>13, <1>14, <1>15, <1>16, <1>17 DEF Next, SettleStep

LEMMA TakeStep == TypeOK /\ TakeInv /\ [Next]_vars => TakeInv'
<1> SUFFICES ASSUME TypeOK, TakeInv, [Next]_vars PROVE TakeInv'
  OBVIOUS
<1>1. \A s \in Id :
         /\ take[s].audit # {} =>
              open[s].in_limbo /\ take[s].st \in {"taking", "offered", "drained", "failed"}
         /\ take[s].st \in {"closed", "returned"} => take[s].records = {}
         /\ next <= s => take[s] = NoTake /\ open[s] = Closed
  BY DEF TakeInv
<1>2. next \in Nat
  BY TypeParts DEF RestTyped
<1> USE DEF stores, ledger
<1>3. CASE take' = take /\ open' = open /\ next' = next
  BY <1>1, <1>3 DEF TakeInv
<1>4. ASSUME NEW by, NEW st \in {"taking", "drained"}, Issue(by, st) PROVE TakeInv'
  <2>1. next \in Id /\ IssuedAt(next, by, st)
    BY <1>4, IssueEffects
  <2>2. ASSUME NEW s \in Id
        PROVE  /\ take'[s].audit # {} =>
                    open'[s].in_limbo /\ take'[s].st \in {"taking", "offered", "drained", "failed"}
               /\ take'[s].st \in {"closed", "returned"} => take'[s].records = {}
               /\ next' <= s => take'[s] = NoTake /\ open'[s] = Closed
    <3>1. CASE s = next
      BY <1>2, <1>4, <2>1, <3>1 DEF IssuedAt
    <3>2. CASE s # next
      BY <1>1, <1>2, <2>1, <3>2 DEF IssuedAt, Id
    <3> QED
      BY <3>1, <3>2
  <2> QED
    BY <2>2 DEF TakeInv
<1>5. CASE SweepTakes \/ BarrierTakes \/ StopTakes
  BY <1>4, <1>5 DEF SweepTakes, BarrierTakes, StopTakes
<1>6. ASSUME NEW t \in Id, take[t].st # "closed", next' = next,
             \A s \in Id : s # t =>
               /\ take'[s] = take[s] /\ open'[s].in_limbo = open[s].in_limbo
               /\ open[s] = Closed => open'[s] = Closed,
             take'[t].audit # {} =>
               open'[t].in_limbo /\ take'[t].st \in {"taking", "offered", "drained", "failed"},
             take'[t].st \in {"closed", "returned"} => take'[t].records = {}
      PROVE  TakeInv'
  BY <1>1, <1>6 DEF TakeInv, NoTake
<1>7. ASSUME NEW t \in Id, TakeRecords(t) PROVE TakeInv'
  <2>1. PICK out \in SUBSET rbuf :
          TakeBecomes(t, IF take[t].by = "barrier" THEN "offered" ELSE "drained", take[t].audit, out)
    BY <1>7, StepEffects
  <2>2. take[t].st # "closed" /\ next' = next
    BY <1>7 DEF TakeRecords
  <2>3. \A s \in Id : s # t =>
           /\ take'[s] = take[s] /\ open'[s].in_limbo = open[s].in_limbo
           /\ open[s] = Closed => open'[s] = Closed
    BY <1>7, <2>1 DEF TakeRecords, TakeBecomes
  <2>4. /\ take'[t].audit # {} =>
             open'[t].in_limbo /\ take'[t].st \in {"taking", "offered", "drained", "failed"}
        /\ take'[t].st \in {"closed", "returned"} => take'[t].records = {}
    BY <1>1, <1>7, <2>1 DEF TakeRecords, TakeBecomes
  <2> QED
    BY <1>6, <2>2, <2>3, <2>4
<1>8. ASSUME NEW t \in Id, Offer(t) PROVE TakeInv'
  <2>1. TakeBecomes(t, "drained", take[t].audit, take[t].records)
    BY <1>8, StepEffects
  <2>2. take[t].st # "closed" /\ next' = next
    BY <1>8 DEF Offer
  <2>3. \A s \in Id : s # t =>
           /\ take'[s] = take[s] /\ open'[s].in_limbo = open[s].in_limbo
           /\ open[s] = Closed => open'[s] = Closed
    BY <1>8, <2>1 DEF Offer, TakeBecomes
  <2>4. /\ take'[t].audit # {} =>
             open'[t].in_limbo /\ take'[t].st \in {"taking", "offered", "drained", "failed"}
        /\ take'[t].st \in {"closed", "returned"} => take'[t].records = {}
    BY <1>1, <1>8, <2>1 DEF Offer, TakeBecomes
  <2> QED
    BY <1>6, <2>2, <2>3, <2>4
<1>9. ASSUME NEW t \in Id, Write(t) PROVE TakeInv'
  <2>1. PICK retained \in SUBSET take[t].audit :
          /\ TakeBecomes(t, IF retained = {} THEN "written" ELSE "failed", retained, take[t].records)
          /\ \A e \in take[t].audit \ retained : e \in Done'
    BY <1>9, StepEffects
  <2>2. take[t].st # "closed" /\ next' = next
    BY <1>9 DEF Write
  <2>3. \A s \in Id : s # t =>
           /\ take'[s] = take[s] /\ open'[s].in_limbo = open[s].in_limbo
           /\ open[s] = Closed => open'[s] = Closed
    BY <1>9, <2>1 DEF Write, TakeBecomes
  <2>4. /\ take'[t].audit # {} =>
             open'[t].in_limbo /\ take'[t].st \in {"taking", "offered", "drained", "failed"}
        /\ take'[t].st \in {"closed", "returned"} => take'[t].records = {}
    BY <1>1, <1>9, <2>1 DEF Write, TakeBecomes
  <2> QED
    BY <1>6, <2>2, <2>3, <2>4
<1>10. ASSUME NEW t \in Id, Return(t) PROVE TakeInv'
  <2>1. TakeBecomes(t, "returned", {}, {})
    BY <1>10, StepEffects
  <2>2. take[t].st # "closed" /\ next' = next
    BY <1>10 DEF Return
  <2>3. \A s \in Id : s # t =>
           /\ take'[s] = take[s] /\ open'[s].in_limbo = open[s].in_limbo
           /\ open[s] = Closed => open'[s] = Closed
    BY <1>10, <2>1 DEF Return, TakeBecomes
  <2>4. /\ take'[t].audit # {} =>
             open'[t].in_limbo /\ take'[t].st \in {"taking", "offered", "drained", "failed"}
        /\ take'[t].st \in {"closed", "returned"} => take'[t].records = {}
    BY <1>1, <1>10, <2>1 DEF Return, TakeBecomes
  <2> QED
    BY <1>6, <2>2, <2>3, <2>4
<1>11. ASSUME NEW t \in Id, Abandon(t) PROVE TakeInv'
  <2>1. TakeBecomes(t, "closed", take[t].audit, take[t].records) /\ EntryAbandoned(t)
    BY <1>11, StepEffects
  <2>2. take[t].st # "closed" /\ next' = next
    BY <1>11 DEF Abandon
  <2>3. \A s \in Id : s # t =>
           /\ take'[s] = take[s] /\ open'[s].in_limbo = open[s].in_limbo
           /\ open[s] = Closed => open'[s] = Closed
    BY <1>11, <2>1 DEF Abandon, TakeBecomes, EntryAbandoned, Closed
  <2>4. /\ take'[t].audit # {} =>
             open'[t].in_limbo /\ take'[t].st \in {"taking", "offered", "drained", "failed"}
        /\ take'[t].st \in {"closed", "returned"} => take'[t].records = {}
    BY <1>1, <1>11, <2>1 DEF Abandon, TakeBecomes, EntryAbandoned, Closed
  <2> QED
    BY <1>6, <2>2, <2>3, <2>4
<1>12. ASSUME NEW t \in Id, Unwind(t) PROVE TakeInv'
  <2>1. TakeBecomes(t, "closed", {}, {}) /\ EntryAbandoned(t)
    BY <1>12, StepEffects
  <2>2. take[t].st # "closed" /\ next' = next
    BY <1>12 DEF Unwind
  <2>3. \A s \in Id : s # t =>
           /\ take'[s] = take[s] /\ open'[s].in_limbo = open[s].in_limbo
           /\ open[s] = Closed => open'[s] = Closed
    BY <1>12, <2>1 DEF Unwind, TakeBecomes, EntryAbandoned, Closed
  <2>4. /\ take'[t].audit # {} =>
             open'[t].in_limbo /\ take'[t].st \in {"taking", "offered", "drained", "failed"}
        /\ take'[t].st \in {"closed", "returned"} => take'[t].records = {}
    BY <1>1, <1>12, <2>1 DEF Unwind, TakeBecomes, EntryAbandoned, Closed
  <2> QED
    BY <1>6, <2>2, <2>3, <2>4
<1>13. ASSUME NEW t \in Id, Clear(t) PROVE TakeInv'
  <2>1. /\ EntryCloses(t)
        /\ IF take[t].by = "stop" THEN TakeBecomes(t, "publish", take[t].audit, rbuf)
           ELSE TakeBecomes(t, IF ClearOk(t) THEN "publish" ELSE "held", take[t].audit, take[t].records)
    BY <1>13, StepEffects
  <2>2. take[t].st # "closed" /\ next' = next
    BY <1>13 DEF Clear
  <2>3. \A s \in Id : s # t =>
           /\ take'[s] = take[s] /\ open'[s].in_limbo = open[s].in_limbo
           /\ open[s] = Closed => open'[s] = Closed
    BY <1>13, <2>1 DEF Clear, TakeBecomes, EntryCloses, Closed
  <2>4. /\ take'[t].audit # {} =>
             open'[t].in_limbo /\ take'[t].st \in {"taking", "offered", "drained", "failed"}
        /\ take'[t].st \in {"closed", "returned"} => take'[t].records = {}
    BY <1>1, <1>13, <2>1 DEF Clear, TakeBecomes, EntryCloses, Closed
  <2> QED
    BY <1>6, <2>2, <2>3, <2>4
<1>14. ASSUME NEW t \in Id, LeaveLimbo(t) PROVE TakeInv'
  <2>1. TakeBecomes(t, "waiting", take[t].audit, take[t].records) /\ EntryLeavesLimbo(t)
    BY <1>14, StepEffects
  <2>2. take[t].st # "closed" /\ next' = next
    BY <1>14 DEF LeaveLimbo
  <2>3. \A s \in Id : s # t =>
           /\ take'[s] = take[s] /\ open'[s].in_limbo = open[s].in_limbo
           /\ open[s] = Closed => open'[s] = Closed
    BY <1>14, <2>1 DEF LeaveLimbo, TakeBecomes, EntryLeavesLimbo
  <2>4. /\ take'[t].audit # {} =>
             open'[t].in_limbo /\ take'[t].st \in {"taking", "offered", "drained", "failed"}
        /\ take'[t].st \in {"closed", "returned"} => take'[t].records = {}
    BY <1>1, <1>14, <2>1 DEF LeaveLimbo, TakeBecomes, EntryLeavesLimbo
  <2> QED
    BY <1>6, <2>2, <2>3, <2>4
<1>15. ASSUME NEW t \in Id, ClearInTurn(t) PROVE TakeInv'
  <2>1. /\ EntryCloses(t)
        /\ TakeBecomes(t, IF ClearOk(t) THEN "publish" ELSE "held", take[t].audit, take[t].records)
    BY <1>15, StepEffects
  <2>2. take[t].st # "closed" /\ next' = next
    BY <1>15 DEF ClearInTurn
  <2>3. \A s \in Id : s # t =>
           /\ take'[s] = take[s] /\ open'[s].in_limbo = open[s].in_limbo
           /\ open[s] = Closed => open'[s] = Closed
    BY <1>15, <2>1 DEF ClearInTurn, TakeBecomes, EntryCloses, Closed
  <2>4. /\ take'[t].audit # {} =>
             open'[t].in_limbo /\ take'[t].st \in {"taking", "offered", "drained", "failed"}
        /\ take'[t].st \in {"closed", "returned"} => take'[t].records = {}
    BY <1>1, <1>15, <2>1 DEF ClearInTurn, TakeBecomes, EntryCloses, Closed
  <2> QED
    BY <1>6, <2>2, <2>3, <2>4
<1>16. ASSUME NEW t \in Id, Publish(t) PROVE TakeInv'
  <2>1. TakeBecomes(t, "closed", take[t].audit, {})
    BY <1>16, StepEffects DEF Publish
  <2>2. take[t].st # "closed" /\ next' = next
    BY <1>16 DEF Publish, Settle
  <2>3. \A s \in Id : s # t =>
           /\ take'[s] = take[s] /\ open'[s].in_limbo = open[s].in_limbo
           /\ open[s] = Closed => open'[s] = Closed
    BY <1>16, <2>1 DEF Publish, TakeBecomes, Settle
  <2>4. /\ take'[t].audit # {} =>
             open'[t].in_limbo /\ take'[t].st \in {"taking", "offered", "drained", "failed"}
        /\ take'[t].st \in {"closed", "returned"} => take'[t].records = {}
    BY <1>1, <1>16, <2>1 DEF Publish, TakeBecomes, Settle
  <2> QED
    BY <1>6, <2>2, <2>3, <2>4
<1>17. ASSUME NEW t \in Id, Hold(t) PROVE TakeInv'
  <2>1. TakeBecomes(t, "closed", take[t].audit, {})
    BY <1>17, StepEffects DEF Hold
  <2>2. take[t].st # "closed" /\ next' = next
    BY <1>17 DEF Hold, Settle
  <2>3. \A s \in Id : s # t =>
           /\ take'[s] = take[s] /\ open'[s].in_limbo = open[s].in_limbo
           /\ open[s] = Closed => open'[s] = Closed
    BY <1>17, <2>1 DEF Hold, TakeBecomes, Settle
  <2>4. /\ take'[t].audit # {} =>
             open'[t].in_limbo /\ take'[t].st \in {"taking", "offered", "drained", "failed"}
        /\ take'[t].st \in {"closed", "returned"} => take'[t].records = {}
    BY <1>1, <1>17, <2>1 DEF Hold, TakeBecomes, Settle
  <2> QED
    BY <1>6, <2>2, <2>3, <2>4
<1>18. CASE Mine \/ PublishLane \/ UNCHANGED vars \/ \E r \in Line : Append(r)
  BY <1>3, <1>18 DEF Mine, PublishLane, Append, vars
<1> QED
  BY <1>5, <1>7, <1>8, <1>9, <1>10, <1>11, <1>12, <1>13, <1>14, <1>15, <1>16, <1>17, <1>18 DEF Next, SettleStep

LEMMA DrainStep == TypeOK /\ DrainInv /\ [Next]_vars => DrainInv'
<1> SUFFICES ASSUME TypeOK, DrainInv, [Next]_vars PROVE DrainInv'
  OBVIOUS
<1>1. \A s \in Id : take[s].st = "taking" => s = next - 1 /\ abuf = {}
  BY DEF DrainInv
<1>2. next \in Nat
  BY TypeParts DEF RestTyped
<1> USE DEF stores, ledger
<1>3. CASE take' = take /\ next' = next /\ (abuf' = abuf \/ ~Draining)
  BY <1>1, <1>3 DEF DrainInv, Draining
<1>4. ASSUME NEW by, NEW st, Issue(by, st), HandoffFree \/ \A s \in Id : take[s].st = "closed"
      PROVE  DrainInv'
  <2>1. next \in Id /\ IssuedAt(next, by, st)
    BY <1>4, IssueEffects
  <2> QED
    BY <1>2, <1>4, <2>1 DEF DrainInv, IssuedAt, Issue, HandoffFree
<1>5. CASE SweepTakes \/ BarrierTakes \/ StopTakes
  BY <1>4, <1>5 DEF SweepTakes, BarrierTakes, StopTakes
<1>6. ASSUME NEW t \in Id, next' = next, abuf' = abuf \/ HandoffFree,
             \A s \in Id : s # t => take'[s] = take[s], take'[t].st # "taking"
      PROVE  DrainInv'
  BY <1>1, <1>6 DEF DrainInv, HandoffFree
<1>7. ASSUME NEW t \in Id, TakeRecords(t) PROVE DrainInv'
  <2>1. PICK out \in SUBSET rbuf :
          TakeBecomes(t, IF take[t].by = "barrier" THEN "offered" ELSE "drained", take[t].audit, out)
    BY <1>7, StepEffects
  <2>2. next' = next /\ (abuf' = abuf \/ HandoffFree)
    BY <1>7 DEF TakeRecords
  <2> QED
    BY <1>6, <1>7, <2>1, <2>2 DEF TakeBecomes
<1>8. ASSUME NEW t \in Id, Offer(t) PROVE DrainInv'
  <2>1. TakeBecomes(t, "drained", take[t].audit, take[t].records)
    BY <1>8, StepEffects
  <2>2. next' = next /\ (abuf' = abuf \/ HandoffFree)
    BY <1>8 DEF Offer
  <2> QED
    BY <1>6, <1>8, <2>1, <2>2 DEF TakeBecomes
<1>9. ASSUME NEW t \in Id, Write(t) PROVE DrainInv'
  <2>1. PICK retained \in SUBSET take[t].audit :
          /\ TakeBecomes(t, IF retained = {} THEN "written" ELSE "failed", retained, take[t].records)
          /\ \A e \in take[t].audit \ retained : e \in Done'
    BY <1>9, StepEffects
  <2>2. next' = next /\ (abuf' = abuf \/ HandoffFree)
    BY <1>9 DEF Write
  <2> QED
    BY <1>6, <1>9, <2>1, <2>2 DEF TakeBecomes
<1>10. ASSUME NEW t \in Id, Return(t) PROVE DrainInv'
  <2>1. TakeBecomes(t, "returned", {}, {})
    BY <1>10, StepEffects
  <2>2. next' = next /\ (abuf' = abuf \/ HandoffFree)
    BY <1>10 DEF Return
  <2> QED
    BY <1>6, <1>10, <2>1, <2>2 DEF TakeBecomes
<1>11. ASSUME NEW t \in Id, Abandon(t) PROVE DrainInv'
  <2>1. TakeBecomes(t, "closed", take[t].audit, take[t].records) /\ EntryAbandoned(t)
    BY <1>11, StepEffects
  <2>2. next' = next /\ (abuf' = abuf \/ HandoffFree)
    BY <1>11 DEF Abandon
  <2> QED
    BY <1>6, <1>11, <2>1, <2>2 DEF TakeBecomes
<1>12. ASSUME NEW t \in Id, Unwind(t) PROVE DrainInv'
  <2>1. TakeBecomes(t, "closed", {}, {}) /\ EntryAbandoned(t)
    BY <1>12, StepEffects
  <2>2. next' = next /\ (abuf' = abuf \/ HandoffFree)
    BY <1>12 DEF Unwind
  <2> QED
    BY <1>6, <1>12, <2>1, <2>2 DEF TakeBecomes
<1>13. ASSUME NEW t \in Id, Clear(t) PROVE DrainInv'
  <2>1. /\ EntryCloses(t)
        /\ IF take[t].by = "stop" THEN TakeBecomes(t, "publish", take[t].audit, rbuf)
           ELSE TakeBecomes(t, IF ClearOk(t) THEN "publish" ELSE "held", take[t].audit, take[t].records)
    BY <1>13, StepEffects
  <2>2. next' = next /\ (abuf' = abuf \/ HandoffFree)
    BY <1>13 DEF Clear
  <2> QED
    BY <1>6, <1>13, <2>1, <2>2 DEF TakeBecomes
<1>14. ASSUME NEW t \in Id, LeaveLimbo(t) PROVE DrainInv'
  <2>1. TakeBecomes(t, "waiting", take[t].audit, take[t].records) /\ EntryLeavesLimbo(t)
    BY <1>14, StepEffects
  <2>2. next' = next /\ (abuf' = abuf \/ HandoffFree)
    BY <1>14 DEF LeaveLimbo
  <2> QED
    BY <1>6, <1>14, <2>1, <2>2 DEF TakeBecomes
<1>15. ASSUME NEW t \in Id, ClearInTurn(t) PROVE DrainInv'
  <2>1. /\ EntryCloses(t)
        /\ TakeBecomes(t, IF ClearOk(t) THEN "publish" ELSE "held", take[t].audit, take[t].records)
    BY <1>15, StepEffects
  <2>2. next' = next /\ (abuf' = abuf \/ HandoffFree)
    BY <1>15 DEF ClearInTurn
  <2> QED
    BY <1>6, <1>15, <2>1, <2>2 DEF TakeBecomes
<1>16. ASSUME NEW t \in Id, Publish(t) PROVE DrainInv'
  <2>1. TakeBecomes(t, "closed", take[t].audit, {})
    BY <1>16, StepEffects DEF Publish
  <2>2. next' = next /\ (abuf' = abuf \/ HandoffFree)
    BY <1>16 DEF Publish, Settle
  <2> QED
    BY <1>6, <1>16, <2>1, <2>2 DEF TakeBecomes
<1>17. ASSUME NEW t \in Id, Hold(t) PROVE DrainInv'
  <2>1. TakeBecomes(t, "closed", take[t].audit, {})
    BY <1>17, StepEffects DEF Hold
  <2>2. next' = next /\ (abuf' = abuf \/ HandoffFree)
    BY <1>17 DEF Hold, Settle
  <2> QED
    BY <1>6, <1>17, <2>1, <2>2 DEF TakeBecomes
<1>18. CASE Mine \/ PublishLane \/ UNCHANGED vars \/ \E r \in Line : Append(r)
  BY <1>3, <1>18 DEF Mine, PublishLane, Append, vars
<1> QED
  BY <1>5, <1>7, <1>8, <1>9, <1>10, <1>11, <1>12, <1>13, <1>14, <1>15, <1>16, <1>17, <1>18 DEF Next, SettleStep

LEMMA StopStep == TypeOK /\ StopInv /\ [Next]_vars => StopInv'
<1> SUFFICES ASSUME TypeOK, StopInv, [Next]_vars PROVE StopInv'
  OBVIOUS
<1> DEFINE Alone(t) == /\ take[t].by = "stop"
                       /\ take[t].st \in {"taking", "offered", "drained", "failed", "written"}
<1>1. \A t \in Id : Alone(t) => stopping /\ abuf = {} /\ \A s \in Id : s # t => take[s].st = "closed"
  BY DEF StopInv
<1> USE DEF stores, ledger
<1>2. CASE take' = take /\ stopping' = stopping /\ (abuf' = abuf \/ ~stopping)
  BY <1>1, <1>2 DEF StopInv
<1>3. CASE SweepTakes \/ BarrierTakes
  <2>1. PICK by \in {"sweep", "barrier"} : Issue(by, "taking")
    BY <1>3 DEF SweepTakes, BarrierTakes
  <2>2. next \in Id /\ IssuedAt(next, by, "taking") /\ ~stopping
    BY <1>3, <2>1, IssueEffects DEF SweepTakes, BarrierTakes
  <2> QED
    BY <1>1, <2>1, <2>2 DEF StopInv, IssuedAt
<1>4. CASE StopTakes
  <2>1. next \in Id /\ IssuedAt(next, "stop", "drained")
    BY <1>4, IssueEffects DEF StopTakes
  <2> QED
    BY <1>4, <2>1 DEF StopInv, IssuedAt, StopTakes, Issue
<1>5. ASSUME NEW t \in Id, take[t].st # "closed", stopping' = stopping,
             \A s \in Id : s # t => take'[s] = take[s],
             Alone(t)' => Alone(t) /\ abuf' = abuf
      PROVE  StopInv'
  BY <1>1, <1>5 DEF StopInv
<1>6. ASSUME NEW t \in Id, TakeRecords(t) PROVE StopInv'
  <2>1. PICK out \in SUBSET rbuf :
          TakeBecomes(t, IF take[t].by = "barrier" THEN "offered" ELSE "drained", take[t].audit, out)
    BY <1>6, StepEffects
  <2>2. take[t].st # "closed" /\ stopping' = stopping
    BY <1>6 DEF TakeRecords
  <2>3. Alone(t)' => Alone(t) /\ abuf' = abuf
    BY <1>6, <2>1 DEF TakeRecords, TakeBecomes
  <2> QED
    BY <1>5, <1>6, <2>1, <2>2, <2>3 DEF TakeBecomes
<1>7. ASSUME NEW t \in Id, Offer(t) PROVE StopInv'
  <2>1. TakeBecomes(t, "drained", take[t].audit, take[t].records)
    BY <1>7, StepEffects
  <2>2. take[t].st # "closed" /\ stopping' = stopping
    BY <1>7 DEF Offer
  <2>3. Alone(t)' => Alone(t) /\ abuf' = abuf
    BY <1>7, <2>1 DEF Offer, TakeBecomes
  <2> QED
    BY <1>5, <1>7, <2>1, <2>2, <2>3 DEF TakeBecomes
<1>8. ASSUME NEW t \in Id, Write(t) PROVE StopInv'
  <2>1. PICK retained \in SUBSET take[t].audit :
          /\ TakeBecomes(t, IF retained = {} THEN "written" ELSE "failed", retained, take[t].records)
          /\ \A e \in take[t].audit \ retained : e \in Done'
    BY <1>8, StepEffects
  <2>2. take[t].st # "closed" /\ stopping' = stopping
    BY <1>8 DEF Write
  <2>3. Alone(t)' => Alone(t) /\ abuf' = abuf
    BY <1>8, <2>1 DEF Write, TakeBecomes
  <2> QED
    BY <1>5, <1>8, <2>1, <2>2, <2>3 DEF TakeBecomes
<1>9. ASSUME NEW t \in Id, Return(t) PROVE StopInv'
  <2>1. TakeBecomes(t, "returned", {}, {})
    BY <1>9, StepEffects
  <2>2. take[t].st # "closed" /\ stopping' = stopping
    BY <1>9 DEF Return
  <2>3. Alone(t)' => Alone(t) /\ abuf' = abuf
    BY <1>9, <2>1 DEF Return, TakeBecomes
  <2> QED
    BY <1>5, <1>9, <2>1, <2>2, <2>3 DEF TakeBecomes
<1>10. ASSUME NEW t \in Id, Abandon(t) PROVE StopInv'
  <2>1. TakeBecomes(t, "closed", take[t].audit, take[t].records) /\ EntryAbandoned(t)
    BY <1>10, StepEffects
  <2>2. take[t].st # "closed" /\ stopping' = stopping
    BY <1>10 DEF Abandon
  <2>3. Alone(t)' => Alone(t) /\ abuf' = abuf
    BY <1>10, <2>1 DEF Abandon, TakeBecomes
  <2> QED
    BY <1>5, <1>10, <2>1, <2>2, <2>3 DEF TakeBecomes
<1>11. ASSUME NEW t \in Id, Unwind(t) PROVE StopInv'
  <2>1. TakeBecomes(t, "closed", {}, {}) /\ EntryAbandoned(t)
    BY <1>11, StepEffects
  <2>2. take[t].st # "closed" /\ stopping' = stopping
    BY <1>11 DEF Unwind
  <2>3. Alone(t)' => Alone(t) /\ abuf' = abuf
    BY <1>11, <2>1 DEF Unwind, TakeBecomes
  <2> QED
    BY <1>5, <1>11, <2>1, <2>2, <2>3 DEF TakeBecomes
<1>12. ASSUME NEW t \in Id, Clear(t) PROVE StopInv'
  <2>1. /\ EntryCloses(t)
        /\ IF take[t].by = "stop" THEN TakeBecomes(t, "publish", take[t].audit, rbuf)
           ELSE TakeBecomes(t, IF ClearOk(t) THEN "publish" ELSE "held", take[t].audit, take[t].records)
    BY <1>12, StepEffects
  <2>2. take[t].st # "closed" /\ stopping' = stopping
    BY <1>12 DEF Clear
  <2>3. Alone(t)' => Alone(t) /\ abuf' = abuf
    BY <1>12, <2>1 DEF Clear, TakeBecomes
  <2> QED
    BY <1>5, <1>12, <2>1, <2>2, <2>3 DEF TakeBecomes
<1>13. ASSUME NEW t \in Id, LeaveLimbo(t) PROVE StopInv'
  <2>1. TakeBecomes(t, "waiting", take[t].audit, take[t].records) /\ EntryLeavesLimbo(t)
    BY <1>13, StepEffects
  <2>2. take[t].st # "closed" /\ stopping' = stopping
    BY <1>13 DEF LeaveLimbo
  <2>3. Alone(t)' => Alone(t) /\ abuf' = abuf
    BY <1>13, <2>1 DEF LeaveLimbo, TakeBecomes
  <2> QED
    BY <1>5, <1>13, <2>1, <2>2, <2>3 DEF TakeBecomes
<1>14. ASSUME NEW t \in Id, ClearInTurn(t) PROVE StopInv'
  <2>1. /\ EntryCloses(t)
        /\ TakeBecomes(t, IF ClearOk(t) THEN "publish" ELSE "held", take[t].audit, take[t].records)
    BY <1>14, StepEffects
  <2>2. take[t].st # "closed" /\ stopping' = stopping
    BY <1>14 DEF ClearInTurn
  <2>3. Alone(t)' => Alone(t) /\ abuf' = abuf
    BY <1>14, <2>1 DEF ClearInTurn, TakeBecomes
  <2> QED
    BY <1>5, <1>14, <2>1, <2>2, <2>3 DEF TakeBecomes
<1>15. ASSUME NEW t \in Id, Publish(t) PROVE StopInv'
  <2>1. TakeBecomes(t, "closed", take[t].audit, {})
    BY <1>15, StepEffects DEF Publish
  <2>2. take[t].st # "closed" /\ stopping' = stopping
    BY <1>15 DEF Publish, Settle
  <2>3. Alone(t)' => Alone(t) /\ abuf' = abuf
    BY <1>15, <2>1 DEF Publish, Settle, TakeBecomes
  <2> QED
    BY <1>5, <1>15, <2>1, <2>2, <2>3 DEF TakeBecomes
<1>16. ASSUME NEW t \in Id, Hold(t) PROVE StopInv'
  <2>1. TakeBecomes(t, "closed", take[t].audit, {})
    BY <1>16, StepEffects DEF Hold
  <2>2. take[t].st # "closed" /\ stopping' = stopping
    BY <1>16 DEF Hold, Settle
  <2>3. Alone(t)' => Alone(t) /\ abuf' = abuf
    BY <1>16, <2>1 DEF Hold, Settle, TakeBecomes
  <2> QED
    BY <1>5, <1>16, <2>1, <2>2, <2>3 DEF TakeBecomes
<1>17. CASE Mine \/ PublishLane \/ UNCHANGED vars \/ \E r \in Line : Append(r)
  BY <1>2, <1>17 DEF Mine, PublishLane, Append, vars
<1> QED
  BY <1>3, <1>4, <1>6, <1>7, <1>8, <1>9, <1>10, <1>11, <1>12, <1>13, <1>14, <1>15, <1>16, <1>17 DEF Next, SettleStep
-----------------------------------------------------------------------------
(* No event is forgotten: what was done stays done, and a line mined later *)
(* emits an event that no record so far depends on.                        *)
LEMMA SafeStays ==
  ASSUME TypeOK, [Next]_vars, NEW r \in 1..mined
  PROVE  /\ Done \subseteq Done'
         /\ \A e \in emitted' : e <= r => e \in emitted
         /\ Safe(r) => Safe(r)'
<1>1. Done \subseteq Done'
  BY DEF Done, Next, SettleStep, Mine, PublishLane, SweepTakes, BarrierTakes, StopTakes, Append, Issue,
         TakeRecords, Offer, Write, Return, Abandon, Unwind, Clear, LeaveLimbo, ClearInTurn, Publish,
         Hold, Settle, stores, vars
<1>2. \A e \in emitted' : e <= r => e \in emitted
  <2>1. mined \in Nat
    BY TypeParts DEF RestTyped
  <2>2. CASE Mine
    BY <2>1, <2>2 DEF Mine
  <2>3. CASE ~Mine
    BY <2>3
    DEF Next, SettleStep, PublishLane, SweepTakes, BarrierTakes, StopTakes, Append, Issue,
        TakeRecords, Offer, Write, Return, Abandon, Unwind, Clear, LeaveLimbo, ClearInTurn, Publish,
        Hold, Settle, vars
  <2> QED
    BY <2>2, <2>3
<1> QED
  BY <1>1, <1>2 DEF Safe

(* A settled sink, an empty buffer with no take holding events: every      *)
(* event is done.                                                          *)
LEMMA SettledIsSafe ==
  ASSUME KeptInv, abuf = {}, \A t \in Id : ~open[t].in_limbo \/ take[t].audit = {}, NEW r
  PROVE  Safe(r)
  BY DEF KeptInv, Safe

(* A written take that the ledger clears: its records are safe.            *)
LEMMA ClearedIsSafe ==
  ASSUME NEW t \in Id, TakeInv, Accounted(t), ClearOk(t), take[t].st \in {"written", "waiting"},
         NEW r \in take[t].records
  PROVE  Safe(r)
<1> SUFFICES ASSUME NEW e \in emitted, e <= r, e \notin Done PROVE FALSE
  BY DEF Safe
<1>1. PICK s \in Id : s <= t /\ Owes(s, e)
  BY DEF Accounted, ClearOk
<1>2. s = t
  BY <1>1 DEF ClearOk, EarlierInLimbo, Owes, Id
<1>3. take[t].audit = {}
  BY DEF TakeInv
<1> QED
  BY <1>1, <1>2, <1>3 DEF Owes

(* Records that are visible, or on their way through the publisher.        *)
LEMMA VisibleStep ==
  TypeOK /\ KeptInv /\ SafeInv /\ [Next]_vars => \A r \in (published \cup lane)' : Safe(r)'
<1> SUFFICES ASSUME TypeOK, KeptInv, SafeInv, [Next]_vars, NEW r \in (published \cup lane)'
             PROVE  Safe(r) /\ r \in 1..mined
  BY SafeStays
<1>0. /\ \A q \in published \cup lane : Safe(q) /\ q \in 1..mined
      /\ encoding \cup rbuf \subseteq 1..mined
      /\ \A t \in Id : take[t].records \subseteq 1..mined
  BY TypeParts DEF SafeInv, RestTyped, TakesTyped, TakeRec
<1> USE DEF stores
<1>1. CASE r \in published \cup lane
  BY <1>0, <1>1
<1>2. CASE r \notin published \cup lane
  <2>1. ASSUME NEW q \in Line, Append(q) PROVE Safe(r) /\ r \in 1..mined
    <3>1. r \in rbuf \cup {q} /\ Settled
      BY <1>2, <2>1 DEF Append
    <3> QED
      BY <1>0, <2>1, <3>1, SettledIsSafe DEF Append, Settled, Quiet
  <2>2. ASSUME NEW t \in Id, Publish(t) PROVE Safe(r) /\ r \in 1..mined
    <3>1. take[t].st = "publish" /\ r \in take[t].records
      BY <1>2, <2>2 DEF Publish, Settle
    <3> QED
      BY <1>0, <2>2, <3>1 DEF SafeInv
  <2> QED
    BY <1>2, <2>1, <2>2
    DEF Next, SettleStep, Mine, PublishLane, SweepTakes, BarrierTakes, StopTakes, Issue,
        TakeRecords, Offer, Write, Return, Abandon, Unwind, Clear, LeaveLimbo, ClearInTurn,
        Hold, Settle, vars
<1> QED
  BY <1>1, <1>2

(* Records that the ledger has cleared to publish.                         *)
LEMMA ClearedStep ==
  TypeOK /\ KeptInv /\ TakeInv /\ StopInv /\ SafeInv /\ [Next]_vars =>
    \A s \in Id : take'[s].st = "publish" => \A r \in take'[s].records : Safe(r)'
<1> SUFFICES ASSUME TypeOK, KeptInv, TakeInv, StopInv, SafeInv, [Next]_vars,
                    NEW s \in Id, take'[s].st = "publish", NEW r \in take'[s].records
             PROVE  Safe(r) /\ r \in 1..mined
  BY SafeStays
<1>0. /\ take[s].st = "publish" => \A q \in take[s].records : Safe(q)
      /\ \A t \in Id : take[t].records \subseteq 1..mined
      /\ rbuf \subseteq 1..mined
  BY TypeParts DEF SafeInv, RestTyped, TakesTyped, TakeRec
<1>1. CASE take'[s] = take[s]
  BY <1>0, <1>1
<1>2. CASE SweepTakes \/ BarrierTakes \/ StopTakes
  <2>1. PICK by \in Makers, st \in {"taking", "drained"} : Issue(by, st)
    BY <1>2 DEF SweepTakes, BarrierTakes, StopTakes, Makers
  <2>2. next \in Id /\ IssuedAt(next, by, st)
    BY <2>1, IssueEffects
  <2> QED
    BY <1>1, <2>1, <2>2 DEF IssuedAt
<1>3. ASSUME NEW t \in Id, TakeRecords(t) PROVE Safe(r) /\ r \in 1..mined
  <2>1. PICK out \in SUBSET rbuf :
          TakeBecomes(t, IF take[t].by = "barrier" THEN "offered" ELSE "drained", take[t].audit, out)
    BY <1>3, StepEffects
  <2> QED
    BY <1>1, <2>1 DEF TakeBecomes
<1>4. ASSUME NEW t \in Id, Offer(t) PROVE Safe(r) /\ r \in 1..mined
  <2>1. TakeBecomes(t, "drained", take[t].audit, take[t].records)
    BY <1>4, StepEffects
  <2> QED
    BY <1>1, <2>1 DEF TakeBecomes
<1>5. ASSUME NEW t \in Id, Write(t) PROVE Safe(r) /\ r \in 1..mined
  <2>1. PICK retained \in SUBSET take[t].audit :
          /\ TakeBecomes(t, IF retained = {} THEN "written" ELSE "failed", retained, take[t].records)
          /\ \A e \in take[t].audit \ retained : e \in Done'
    BY <1>5, StepEffects
  <2> QED
    BY <1>1, <2>1 DEF TakeBecomes
<1>6. ASSUME NEW t \in Id, Return(t) PROVE Safe(r) /\ r \in 1..mined
  <2>1. TakeBecomes(t, "returned", {}, {})
    BY <1>6, StepEffects
  <2> QED
    BY <1>1, <2>1 DEF TakeBecomes
<1>7. ASSUME NEW t \in Id, Abandon(t) PROVE Safe(r) /\ r \in 1..mined
  <2>1. TakeBecomes(t, "closed", take[t].audit, take[t].records) /\ EntryAbandoned(t)
    BY <1>7, StepEffects
  <2> QED
    BY <1>1, <2>1 DEF TakeBecomes
<1>8. ASSUME NEW t \in Id, Unwind(t) PROVE Safe(r) /\ r \in 1..mined
  <2>1. TakeBecomes(t, "closed", {}, {}) /\ EntryAbandoned(t)
    BY <1>8, StepEffects
  <2> QED
    BY <1>1, <2>1 DEF TakeBecomes
<1>9. ASSUME NEW t \in Id, Clear(t) PROVE Safe(r) /\ r \in 1..mined
  <2>1. /\ EntryCloses(t)
        /\ IF take[t].by = "stop" THEN TakeBecomes(t, "publish", take[t].audit, rbuf)
           ELSE TakeBecomes(t, IF ClearOk(t) THEN "publish" ELSE "held", take[t].audit, take[t].records)
    BY <1>9, StepEffects
  <2>2. CASE s # t
    BY <1>1, <2>1, <2>2 DEF TakeBecomes
  <2>3. CASE s = t /\ take[t].by = "stop"
    <3>1. abuf = {} /\ \A u \in Id : u # t => take[u].st = "closed"
      BY <1>9, <2>3 DEF Clear, StopInv
    <3>2. \A u \in Id : take[u].audit = {}
      BY <1>9, <3>1 DEF Clear, TakeInv
    <3>3. Safe(r)
      BY <3>1, <3>2, SettledIsSafe
    <3> QED
      BY <1>0, <2>1, <2>3, <3>3 DEF TakeBecomes
  <2>4. CASE s = t /\ take[t].by # "stop"
    <3>1. ClearOk(t) /\ r \in take[t].records
      BY <2>1, <2>4 DEF TakeBecomes
    <3>2. Accounted(t)
      BY <1>9 DEF Clear, SafeInv
    <3> QED
      BY <1>0, <1>9, <3>1, <3>2, ClearedIsSafe DEF Clear
  <2> QED
    BY <2>2, <2>3, <2>4
<1>10. ASSUME NEW t \in Id, LeaveLimbo(t) PROVE Safe(r) /\ r \in 1..mined
  <2>1. TakeBecomes(t, "waiting", take[t].audit, take[t].records) /\ EntryLeavesLimbo(t)
    BY <1>10, StepEffects
  <2> QED
    BY <1>1, <2>1 DEF TakeBecomes
<1>11. ASSUME NEW t \in Id, ClearInTurn(t) PROVE Safe(r) /\ r \in 1..mined
  <2>1. /\ EntryCloses(t)
        /\ TakeBecomes(t, IF ClearOk(t) THEN "publish" ELSE "held", take[t].audit, take[t].records)
    BY <1>11, StepEffects
  <2>2. CASE s # t
    BY <1>1, <2>1, <2>2 DEF TakeBecomes
  <2>3. CASE s = t
    <3>1. ClearOk(t) /\ r \in take[t].records
      BY <2>1, <2>3 DEF TakeBecomes
    <3>2. Accounted(t)
      BY <1>11 DEF ClearInTurn, SafeInv
    <3> QED
      BY <1>0, <1>11, <3>1, <3>2, ClearedIsSafe DEF ClearInTurn
  <2> QED
    BY <2>2, <2>3
<1>12. ASSUME NEW t \in Id, Publish(t) PROVE Safe(r) /\ r \in 1..mined
  <2>1. TakeBecomes(t, "closed", take[t].audit, {})
    BY <1>12, StepEffects DEF Publish
  <2> QED
    BY <1>1, <2>1 DEF TakeBecomes
<1>13. ASSUME NEW t \in Id, Hold(t) PROVE Safe(r) /\ r \in 1..mined
  <2>1. TakeBecomes(t, "closed", take[t].audit, {})
    BY <1>13, StepEffects DEF Hold
  <2> QED
    BY <1>1, <2>1 DEF TakeBecomes
<1>14. CASE Mine \/ PublishLane \/ UNCHANGED vars \/ \E q \in Line : Append(q)
  BY <1>1, <1>14 DEF Mine, PublishLane, Append, vars
<1> QED
  BY <1>2, <1>3, <1>4, <1>5, <1>6, <1>7, <1>8, <1>9, <1>10, <1>11, <1>12, <1>13, <1>14 DEF Next, SettleStep

(* A step that takes nothing from the events a ledger entry answers for.   *)
LEMMA AccountedStays ==
  ASSUME TypeOK, [Next]_vars, NEW s \in Id, Accounted(s),
         take'[s].records \subseteq take[s].records,
         open[s].doomed => open'[s].doomed,
         \A u \in Id : \A e \in emitted \ Done' : u <= s /\ Owes(u, e) => Owes(u, e)' \/ open'[s].doomed
  PROVE  Accounted(s)'
<1> SUFFICES ASSUME NEW r \in take'[s].records, NEW e \in emitted', e <= r, e \notin Done'
             PROVE  open'[s].doomed \/ \E u \in Id : u <= s /\ Owes(u, e)'
  BY DEF Accounted
<1>1. r \in 1..mined /\ r \in take[s].records
  BY TypeParts DEF TakesTyped, TakeRec
<1>2. e \in emitted /\ e \notin Done
  BY <1>1, SafeStays
<1>3. open[s].doomed \/ \E u \in Id : u <= s /\ Owes(u, e)
  BY <1>1, <1>2 DEF Accounted
<1> QED
  BY <1>2, <1>3

LEMMA AccountedStep ==
  TypeOK /\ KeptInv /\ TakeInv /\ DrainInv /\ SafeInv /\ [Next]_vars =>
    \A s \in Id : take'[s].st \notin {"closed", "publish", "held"} => Accounted(s)'
<1> SUFFICES ASSUME TypeOK, KeptInv, TakeInv, DrainInv, SafeInv, [Next]_vars,
                    NEW s \in Id, take'[s].st \notin {"closed", "publish", "held"}
             PROVE  Accounted(s)'
  OBVIOUS
<1>0. take[s].st \notin {"closed", "publish", "held"} => Accounted(s) /\ open[s].open
  BY TypeParts DEF SafeInv, OpenMatches
<1>1. ASSUME NEW u \in Id
      PROVE  take[u].audit # {} =>
               open[u].in_limbo /\ take[u].st \in {"taking", "offered", "drained", "failed"}
  BY DEF TakeInv
<1> USE DEF stores, ledger
<1>2. CASE take' = take /\ open' = open
  BY <1>0, <1>2, AccountedStays DEF Owes
<1>3. CASE SweepTakes \/ BarrierTakes \/ StopTakes
  <2>1. PICK by \in Makers, st \in {"taking", "drained"} : Issue(by, st)
    BY <1>3 DEF SweepTakes, BarrierTakes, StopTakes, Makers
  <2>2. next \in Id /\ IssuedAt(next, by, st)
    BY <2>1, IssueEffects
  <2>3. take[next].audit = {} /\ take[next].st = "closed"
    BY <2>2, TypeParts DEF TakeInv, RestTyped, NoTake
  <2>4. CASE s = next
    BY <2>2, <2>4 DEF IssuedAt, Accounted
  <2>5. CASE s # next
    <3>1. take'[s] = take[s] /\ open'[s] = open[s]
      BY <2>2, <2>5 DEF IssuedAt
    <3>2. \A u \in Id : \A e \in emitted : Owes(u, e) => Owes(u, e)'
      BY <2>2, <2>3 DEF IssuedAt, Owes
    <3> QED
      BY <1>0, <3>1, <3>2, AccountedStays
  <2> QED
    BY <2>4, <2>5
<1>4. ASSUME NEW t \in Id, TakeRecords(t) PROVE Accounted(s)'
  <2>1. PICK out \in SUBSET rbuf :
          TakeBecomes(t, IF take[t].by = "barrier" THEN "offered" ELSE "drained", take[t].audit, out)
    BY <1>4, StepEffects
  <2>2. CASE s = t
    <3>1. abuf = {} /\ t = next - 1 /\ next \in Nat
      BY <1>4, TypeParts DEF TakeRecords, DrainInv, RestTyped
    <3>2. ASSUME NEW e \in emitted', e \notin Done' PROVE \E u \in Id : u <= t /\ Owes(u, e)'
      <4>1. e \in emitted /\ e \notin Done
        BY <1>4, <3>2 DEF TakeRecords, Done
      <4>2. PICK u \in Id : open[u].in_limbo /\ e \in take[u].audit
        BY <3>1, <4>1 DEF KeptInv
      <4>3. u <= t
        BY <3>1, <4>2 DEF TakeInv, NoTake, Id
      <4>4. take'[u].audit = take[u].audit /\ open' = open
        BY <1>4, <2>1 DEF TakeRecords, TakeBecomes
      <4> QED
        BY <4>2, <4>3, <4>4 DEF Owes
    <3> QED
      BY <2>2, <3>2 DEF Accounted
  <2>3. CASE s # t
    <3>1. take'[s] = take[s] /\ open' = open
      BY <1>4, <2>1, <2>3 DEF TakeRecords, TakeBecomes
    <3>2. \A u \in Id : \A e \in emitted : Owes(u, e) => Owes(u, e)'
      BY <1>4, <2>1 DEF TakeRecords, TakeBecomes, Owes
    <3> QED
      BY <1>0, <3>1, <3>2, AccountedStays
  <2> QED
    BY <2>2, <2>3
<1>5. ASSUME NEW t \in Id, Offer(t) PROVE Accounted(s)'
  <2>1. TakeBecomes(t, "drained", take[t].audit, take[t].records)
    BY <1>5, StepEffects
  <2>2. take[s].st \notin {"closed", "publish", "held"} /\ take'[s].records \subseteq take[s].records
    BY <1>5, <2>1 DEF Offer, TakeBecomes
  <2>3. open[s].doomed => open'[s].doomed
    BY <1>5, <2>1, <2>2 DEF Offer, TakeBecomes
  <2>4. ASSUME NEW u \in Id, NEW e \in emitted \ Done', u <= s, Owes(u, e)
        PROVE  Owes(u, e)' \/ open'[s].doomed
    BY <1>0, <1>1, <1>5, <2>1, <2>2, <2>4 DEF Offer, TakeBecomes, Owes, Id
  <2> QED
    BY <1>0, <2>2, <2>3, <2>4, AccountedStays
<1>6. ASSUME NEW t \in Id, Write(t) PROVE Accounted(s)'
  <2>1. PICK retained \in SUBSET take[t].audit :
          /\ TakeBecomes(t, IF retained = {} THEN "written" ELSE "failed", retained, take[t].records)
          /\ \A e \in take[t].audit \ retained : e \in Done'
    BY <1>6, StepEffects
  <2>2. take[s].st \notin {"closed", "publish", "held"} /\ take'[s].records \subseteq take[s].records
    BY <1>6, <2>1 DEF Write, TakeBecomes
  <2>3. open[s].doomed => open'[s].doomed
    BY <1>6, <2>1, <2>2 DEF Write, TakeBecomes
  <2>4. ASSUME NEW u \in Id, NEW e \in emitted \ Done', u <= s, Owes(u, e)
        PROVE  Owes(u, e)' \/ open'[s].doomed
    BY <1>0, <1>1, <1>6, <2>1, <2>2, <2>4 DEF Write, TakeBecomes, Owes, Id
  <2> QED
    BY <1>0, <2>2, <2>3, <2>4, AccountedStays
<1>7. ASSUME NEW t \in Id, Return(t) PROVE Accounted(s)'
  <2>1. TakeBecomes(t, "returned", {}, {})
    BY <1>7, StepEffects
  <2>2. take[s].st \notin {"closed", "publish", "held"} /\ take'[s].records \subseteq take[s].records
    BY <1>7, <2>1 DEF Return, TakeBecomes
  <2>3. open[s].doomed => open'[s].doomed
    BY <1>7, <2>1, <2>2 DEF Return, TakeBecomes
  <2>4. ASSUME NEW u \in Id, NEW e \in emitted \ Done', u <= s, Owes(u, e)
        PROVE  Owes(u, e)' \/ open'[s].doomed
    BY <1>0, <1>1, <1>7, <2>1, <2>2, <2>4 DEF Return, TakeBecomes, Owes, Id
  <2> QED
    BY <1>0, <2>2, <2>3, <2>4, AccountedStays
<1>8. ASSUME NEW t \in Id, Abandon(t) PROVE Accounted(s)'
  <2>1. TakeBecomes(t, "closed", take[t].audit, take[t].records) /\ EntryAbandoned(t)
    BY <1>8, StepEffects
  <2>2. take[s].st \notin {"closed", "publish", "held"} /\ take'[s].records \subseteq take[s].records
    BY <1>8, <2>1 DEF Abandon, TakeBecomes
  <2>3. open[s].doomed => open'[s].doomed
    BY <1>8, <2>1, <2>2 DEF Abandon, TakeBecomes, EntryAbandoned, Closed
  <2>4. ASSUME NEW u \in Id, NEW e \in emitted \ Done', u <= s, Owes(u, e)
        PROVE  Owes(u, e)' \/ open'[s].doomed
    BY <1>0, <1>1, <1>8, <2>1, <2>2, <2>4 DEF Abandon, TakeBecomes, EntryAbandoned, Closed, Owes, Id
  <2> QED
    BY <1>0, <2>2, <2>3, <2>4, AccountedStays
<1>9. ASSUME NEW t \in Id, Unwind(t) PROVE Accounted(s)'
  <2>1. TakeBecomes(t, "closed", {}, {}) /\ EntryAbandoned(t)
    BY <1>9, StepEffects
  <2>2. take[s].st \notin {"closed", "publish", "held"} /\ take'[s].records \subseteq take[s].records
    BY <1>9, <2>1 DEF Unwind, TakeBecomes
  <2>3. open[s].doomed => open'[s].doomed
    BY <1>9, <2>1, <2>2 DEF Unwind, TakeBecomes, EntryAbandoned, Closed
  <2>4. ASSUME NEW u \in Id, NEW e \in emitted \ Done', u <= s, Owes(u, e)
        PROVE  Owes(u, e)' \/ open'[s].doomed
    BY <1>0, <1>1, <1>9, <2>1, <2>2, <2>4 DEF Unwind, TakeBecomes, EntryAbandoned, Closed, Owes, Done, Id
  <2> QED
    BY <1>0, <2>2, <2>3, <2>4, AccountedStays
<1>10. ASSUME NEW t \in Id, Clear(t) PROVE Accounted(s)'
  <2>1. /\ EntryCloses(t)
        /\ IF take[t].by = "stop" THEN TakeBecomes(t, "publish", take[t].audit, rbuf)
           ELSE TakeBecomes(t, IF ClearOk(t) THEN "publish" ELSE "held", take[t].audit, take[t].records)
    BY <1>10, StepEffects
  <2>2. take[s].st \notin {"closed", "publish", "held"} /\ take'[s].records \subseteq take[s].records
    BY <1>10, <2>1 DEF Clear, TakeBecomes
  <2>3. open[s].doomed => open'[s].doomed
    BY <1>10, <2>1, <2>2 DEF Clear, TakeBecomes, EntryCloses, Closed
  <2>4. ASSUME NEW u \in Id, NEW e \in emitted \ Done', u <= s, Owes(u, e)
        PROVE  Owes(u, e)' \/ open'[s].doomed
    BY <1>0, <1>1, <1>10, <2>1, <2>2, <2>4 DEF Clear, TakeBecomes, EntryCloses, Closed, Owes, Id
  <2> QED
    BY <1>0, <2>2, <2>3, <2>4, AccountedStays
<1>11. ASSUME NEW t \in Id, LeaveLimbo(t) PROVE Accounted(s)'
  <2>1. TakeBecomes(t, "waiting", take[t].audit, take[t].records) /\ EntryLeavesLimbo(t)
    BY <1>11, StepEffects
  <2>2. take[s].st \notin {"closed", "publish", "held"} /\ take'[s].records \subseteq take[s].records
    BY <1>11, <2>1 DEF LeaveLimbo, TakeBecomes
  <2>3. open[s].doomed => open'[s].doomed
    BY <1>11, <2>1, <2>2 DEF LeaveLimbo, TakeBecomes, EntryLeavesLimbo
  <2>4. ASSUME NEW u \in Id, NEW e \in emitted \ Done', u <= s, Owes(u, e)
        PROVE  Owes(u, e)' \/ open'[s].doomed
    BY <1>0, <1>1, <1>11, <2>1, <2>2, <2>4 DEF LeaveLimbo, TakeBecomes, EntryLeavesLimbo, Owes, Id
  <2> QED
    BY <1>0, <2>2, <2>3, <2>4, AccountedStays
<1>12. ASSUME NEW t \in Id, ClearInTurn(t) PROVE Accounted(s)'
  <2>1. /\ EntryCloses(t)
        /\ TakeBecomes(t, IF ClearOk(t) THEN "publish" ELSE "held", take[t].audit, take[t].records)
    BY <1>12, StepEffects
  <2>2. take[s].st \notin {"closed", "publish", "held"} /\ take'[s].records \subseteq take[s].records
    BY <1>12, <2>1 DEF ClearInTurn, TakeBecomes
  <2>3. open[s].doomed => open'[s].doomed
    BY <1>12, <2>1, <2>2 DEF ClearInTurn, TakeBecomes, EntryCloses, Closed
  <2>4. ASSUME NEW u \in Id, NEW e \in emitted \ Done', u <= s, Owes(u, e)
        PROVE  Owes(u, e)' \/ open'[s].doomed
    BY <1>0, <1>1, <1>12, <2>1, <2>2, <2>4 DEF ClearInTurn, TakeBecomes, EntryCloses, Closed, Owes, Id
  <2> QED
    BY <1>0, <2>2, <2>3, <2>4, AccountedStays
<1>13. ASSUME NEW t \in Id, Publish(t) PROVE Accounted(s)'
  <2>1. TakeBecomes(t, "closed", take[t].audit, {})
    BY <1>13, StepEffects DEF Publish
  <2>2. take[s].st \notin {"closed", "publish", "held"} /\ take'[s].records \subseteq take[s].records
    BY <1>13, <2>1 DEF Publish, Settle, TakeBecomes
  <2>3. open[s].doomed => open'[s].doomed
    BY <1>13, <2>1, <2>2 DEF Publish, TakeBecomes, Settle
  <2>4. ASSUME NEW u \in Id, NEW e \in emitted \ Done', u <= s, Owes(u, e)
        PROVE  Owes(u, e)' \/ open'[s].doomed
    BY <1>0, <1>1, <1>13, <2>1, <2>2, <2>4 DEF Publish, TakeBecomes, Settle, Owes, Id
  <2> QED
    BY <1>0, <2>2, <2>3, <2>4, AccountedStays
<1>14. ASSUME NEW t \in Id, Hold(t) PROVE Accounted(s)'
  <2>1. TakeBecomes(t, "closed", take[t].audit, {})
    BY <1>14, StepEffects DEF Hold
  <2>2. take[s].st \notin {"closed", "publish", "held"} /\ take'[s].records \subseteq take[s].records
    BY <1>14, <2>1 DEF Hold, Settle, TakeBecomes
  <2>3. open[s].doomed => open'[s].doomed
    BY <1>14, <2>1, <2>2 DEF Hold, TakeBecomes, Settle
  <2>4. ASSUME NEW u \in Id, NEW e \in emitted \ Done', u <= s, Owes(u, e)
        PROVE  Owes(u, e)' \/ open'[s].doomed
    BY <1>0, <1>1, <1>14, <2>1, <2>2, <2>4 DEF Hold, TakeBecomes, Settle, Owes, Id
  <2> QED
    BY <1>0, <2>2, <2>3, <2>4, AccountedStays
<1>15. CASE Mine \/ PublishLane \/ UNCHANGED vars \/ \E q \in Line : Append(q)
  BY <1>2, <1>15 DEF Mine, PublishLane, Append, vars
<1> QED
  BY <1>3, <1>4, <1>5, <1>6, <1>7, <1>8, <1>9, <1>10, <1>11, <1>12, <1>13, <1>14, <1>15 DEF Next, SettleStep
-----------------------------------------------------------------------------
LEMMA AuditInit == Init => AuditInv
  BY DEF Init, AuditInv, KeptInv, TakeInv, DrainInv, StopInv, SafeInv, NoTake, Closed

LEMMA AuditStep == TypeOK /\ AuditInv /\ [Next]_vars => AuditInv'
<1> SUFFICES ASSUME TypeOK, AuditInv, [Next]_vars PROVE AuditInv'
  OBVIOUS
<1>1. SafeInv'
  BY VisibleStep, ClearedStep, AccountedStep DEF AuditInv, SafeInv
<1> QED
  BY <1>1, KeptStep, TakeStep, DrainStep, StopStep DEF AuditInv

LEMMA AuditInvariant == Spec => [](TypeOK /\ AuditInv)
<1>1. Init => TypeOK /\ AuditInv
  BY TypeInit, AuditInit
<1>2. TypeOK /\ AuditInv /\ [Next]_vars => (TypeOK /\ AuditInv)'
  BY TypeStep, AuditStep
<1> QED
  BY <1>1, <1>2, PTL DEF Spec

(* Every event that has not reached the audit stream is in the buffer or   *)
(* in a take that the ledger shows in limbo, for any number of lines and   *)
(* takes: a drain that fails, is parked or is refused loses none           *)
(* (audit_sink.rs, take_ticketed, requeue and Ledger::abandon).            *)
THEOREM NoEventIsLost == Spec => []LedgerInv
<1>1. TypeOK /\ AuditInv => LedgerInv
  <2> SUFFICES ASSUME TypeOK, AuditInv PROVE EventsAreKept
    BY DEF LedgerInv
  <2>1. /\ abuf \cup durable \cup given_up \subseteq emitted
        /\ \A t \in Id : take[t].audit \subseteq emitted
    BY TypeParts DEF RestTyped, TakesTyped, TakeRec
  <2>2. \A e \in emitted : e \in abuf \cup durable \cup given_up
                             \/ \E t \in Id : open[t].in_limbo /\ e \in take[t].audit
    BY DEF AuditInv, KeptInv, Done
  <2> QED
    BY <2>1, <2>2 DEF EventsAreKept
<1> QED
  BY <1>1, AuditInvariant, PTL

(* No record is visible before every event emitted up to it is durable or  *)
(* given up, however the sweep, the barrier's captures, the encode pool    *)
(* and the shutdown interleave (audit_sink.rs, Ledger; publish.rs, write). *)
THEOREM EventsComeFirst == Spec => []AuditBeforeRecord
<1>1. AuditInv => AuditBeforeRecord
  BY DEF AuditInv, SafeInv, Safe, Done, AuditBeforeRecord
<1> QED
  BY <1>1, AuditInvariant, PTL
=============================================================================
