----------------------------- MODULE TemplateIds -----------------------------
(***************************************************************************)
(* Durable template-id allocation (ourios-ingester/src/template_ids/, the  *)
(* allocator of ourios-miner/src/cluster/id_alloc.rs, and recovery's       *)
(* seating of it): receivers that share one store reserve blocks of ids in *)
(* one object, the high-water, before they issue an id of the block, and   *)
(* each keeps a marker of the highest reservation it has seen.             *)
(*                                                                         *)
(* An entry is an id with the incarnation that minted it: two entries of   *)
(* one id are two templates under one name.  Incarnation 0 is the counter  *)
(* of a receiver that ran before there was a high-water.  A tag is taken   *)
(* to be the content of the object.  A later format version, malformed     *)
(* objects and the threads of the bootstrap scan are left out; a store     *)
(* call may fail with or without effect.                                   *)
(***************************************************************************)
EXTENDS Integers, Sequences, FiniteSets, FiniteSetsExt

CONSTANTS
  Receiver,
  Sites     \* the deployments to consider: the store, who runs, the bounds

ASSUME TemplateIdsAssumption ==
  \A s \in Sites :
    /\ s.receivers \subseteq Receiver /\ s.authorized \subseteq s.receivers
    /\ s.conditional \in BOOLEAN
    /\ (s.conditional /\ s.tampers = 0) \/ \E r \in Receiver : s.receivers = {r}
    /\ s.legacy \subseteq 1..s.maxId
    /\ {s.maxId, s.block, s.readyBlocks} \subseteq Nat \ {0}
    /\ {s.starts, s.faults, s.tampers} \subseteq Nat

Absent == -1

VARIABLES
  site,     \* the deployment of this behaviour, one of Sites
  hw,       \* reserved_through, or Absent
  data,     \* the entries published since the upgrade
  old,      \* the highest id published before it
  marker,   \* each root's max_reserved_seen, or Absent
  snap,     \* the entries in each root's snapshots
  pc,       \* how far each receiver's start has come
  trust,    \* SnapshotTrust
  seen,     \* the marker as read, and later what a scan found
  ids,      \* the entries of each miner
  next, end,
  ready, highest,
  ledger,   \* whether the marker is kept current
  refiller, \* "off", "idle", "filling", "stopped"
  op,       \* the reservation in flight
  ghost,    \* one a shut-down receiver left in flight
  blind,    \* history: a start missed a rollback, as its root had no marker
  starts, faults, tampers

Conditional == site.conditional  \* supports_conditional_update
Authorized == site.authorized    \* receivers started with template_ids_allow_bootstrap
Legacy == site.legacy            \* the ids each receiver's old snapshots may hold
MaxId == site.maxId              \* MAX_TEMPLATE_ID
Block == site.block              \* BLOCK
ReadyBlocks == site.readyBlocks  \* READY_BLOCKS
MaxStarts == site.starts         \* bound: starts of each receiver
MaxFaults == site.faults         \* bound: store calls that fail
MaxTampers == site.tampers       \* bound: deletions and rollbacks of the high-water
Id == 1..MaxId

fixed == <<site, old, blind>>   \* what every action but Seat leaves alone
disk == <<marker, snap>>
range == <<ids, next, end>>
blocks == <<ready, highest>>
bounds == <<starts, faults, tampers>>
startup == <<pc, trust, seen>>
vars == <<fixed, hw, data, disk, startup, range, blocks, ledger, refiller, op, ghost, bounds>>
-----------------------------------------------------------------------------
NoOp == [st |-> "none", prior |-> 0, after |-> 0, through |-> 0]
Ids(E) == {e.id : e \in E}
Top(S) == Max({0} \cup S)
Entry(r, i) == [id |-> i, by |-> r, inc |-> starts[r]]

Init ==
  /\ site \in Sites
  /\ hw = Absent /\ data = {} /\ old \in {0} \cup Legacy
  /\ marker = [r \in Receiver |-> Absent]
  /\ snap \in [Receiver -> SUBSET [id : Legacy, by : Receiver, inc : {0}]]
  /\ \A r \in Receiver : \A e \in snap[r] : e.by = r
  /\ pc = [r \in Receiver |-> "down"] /\ trust = [r \in Receiver |-> "none"]
  /\ seen = [r \in Receiver |-> 0]
  /\ ids = [r \in Receiver |-> {}]
  /\ next = [r \in Receiver |-> 1] /\ end = [r \in Receiver |-> 1]
  /\ ready = [r \in Receiver |-> <<>>] /\ highest = [r \in Receiver |-> 0]
  /\ ledger = [r \in Receiver |-> FALSE] /\ refiller = [r \in Receiver |-> "off"]
  /\ op = [r \in Receiver |-> NoOp] /\ ghost = [r \in Receiver |-> NoOp]
  /\ starts = [r \in Receiver |-> 0] /\ faults = 0 /\ tampers = 0 /\ blind = FALSE

(* The process is gone, with everything it held in memory.                 *)
Goes(r, st) == pc' = [pc EXCEPT ![r] = st]
Ends(r) ==
  /\ Goes(r, "down") /\ trust' = [trust EXCEPT ![r] = "none"] /\ seen' = [seen EXCEPT ![r] = 0]
  /\ ids' = [ids EXCEPT ![r] = {}] /\ next' = [next EXCEPT ![r] = 1] /\ end' = [end EXCEPT ![r] = 1]
  /\ ready' = [ready EXCEPT ![r] = <<>>] /\ highest' = [highest EXCEPT ![r] = 0]
  /\ ledger' = [ledger EXCEPT ![r] = FALSE] /\ refiller' = [refiller EXCEPT ![r] = "off"]
  /\ op' = [op EXCEPT ![r] = NoOp]
-----------------------------------------------------------------------------
(* SnapshotTrust::of, then restore_artefacts: nothing is trusted that was  *)
(* written before the root first seated, unless this start bootstraps.     *)
TrustOf(r) ==
  IF marker[r] # Absent THEN IF hw < marker[r] THEN "refused" ELSE "Seated"
  ELSE IF hw = Absent THEN "Bootstrap" ELSE "PredatesHighWater"

Decide(r) ==
  /\ pc[r] = "down" /\ r \in site.receivers /\ starts[r] < MaxStarts
  /\ starts' = [starts EXCEPT ![r] = @ + 1]
  /\ TrustOf(r) # "refused"
  /\ LET restored == IF TrustOf(r) = "PredatesHighWater" THEN {} ELSE snap[r]
     IN  /\ ids' = [ids EXCEPT ![r] = restored]
         /\ next' = [next EXCEPT ![r] = Top(Ids(restored)) + 1]
  /\ trust' = [trust EXCEPT ![r] = TrustOf(r)]
  /\ seen' = [seen EXCEPT ![r] = marker[r]]
  /\ Goes(r, "decided")
  /\ UNCHANGED <<hw, data, fixed, disk, end, blocks, ledger, refiller, op, ghost, faults, tampers>>

(* seat: the high-water is read again, and must be what the decision was   *)
(* made on; a start that saw none scans the store for a floor.             *)
StoreHasData == old # 0 \/ data # {}
Refused(r) ==
  IF trust[r] = "Bootstrap" THEN hw # Absent \/ (StoreHasData /\ r \notin Authorized)
  ELSE hw = Absent \/ hw < seen[r]
SeatedAbove(r, n) ==
  /\ next' = [next EXCEPT ![r] = Max({@, n + 1})]
  /\ highest' = [highest EXCEPT ![r] = Max({next[r] - 1, n})]
  /\ Goes(r, "fill1")

(* A root without a marker has nothing to compare the high-water with: one *)
(* rolled back below an id the root published, or kept in a snapshot, is   *)
(* taken as it is.                                                         *)
MissesRollback(r) ==
  /\ tampers # 0 /\ trust[r] = "PredatesHighWater"
  /\ \E e \in data \cup snap[r] : hw < e.id

Seat(r) ==
  /\ pc[r] = "decided"
  /\ \/ /\ Refused(r) /\ Ends(r) /\ UNCHANGED blind
     \/ /\ ~Refused(r) /\ trust[r] # "Bootstrap" /\ SeatedAbove(r, hw)
        /\ blind' = (blind \/ MissesRollback(r))
        /\ UNCHANGED <<trust, seen, ids, end, ready, ledger, refiller, op>>
     \/ /\ ~Refused(r) /\ trust[r] = "Bootstrap"
        /\ seen' = [seen EXCEPT ![r] = Max({old, next[r] - 1} \cup Ids(data))]
        /\ Goes(r, "scanned")
        /\ UNCHANGED <<blind, trust, range, blocks, ledger, refiller, op>>
  /\ UNCHANGED <<hw, data, site, old, disk, ghost, bounds>>

(* create: put_if_absent of the floor, which only one start wins.          *)
CreateWins == hw = Absent
Create(r) ==
  /\ pc[r] = "scanned"
  /\ \/ /\ CreateWins /\ hw' = seen[r] /\ SeatedAbove(r, seen[r])
        /\ UNCHANGED <<trust, seen, ids, end, ready, ledger, refiller, op>>
     \/ ~CreateWins /\ Ends(r) /\ UNCHANGED hw
  /\ UNCHANGED <<data, fixed, disk, ghost, bounds>>
-----------------------------------------------------------------------------
(* fill, by the starting receiver or by its refiller: reserve until enough *)
(* blocks are ready or the domain has no id left.                          *)
Filling(r) == pc[r] \in {"fill1", "fill2", "refilling"} \/ refiller[r] = "filling"
Stopped(r) == pc[r] = "stopping"
After(r) == Max({hw, highest[r]})
Enough(r) == Len(ready[r]) >= ReadyBlocks \/ (hw # Absent /\ After(r) >= MaxId) \/ Stopped(r)

(* A reservation that failed ends a start, and leaves a refiller to retry; *)
(* a deleted high-water stops the refiller for good.                       *)
Abandons(r, deleted) ==
  \/ /\ pc[r] \in {"fill1", "fill2", "refilling"} /\ Ends(r)
  \/ /\ refiller[r] = "filling"
     /\ refiller' = [refiller EXCEPT ![r] = IF deleted THEN "stopped" ELSE @]
     /\ op' = [op EXCEPT ![r] = NoOp]
     /\ UNCHANGED <<startup, range, blocks, ledger>>

(* reserve: read the high-water ...                                        *)
ReserveRead(r) ==
  /\ Filling(r) /\ op[r] = NoOp /\ ~Enough(r)
  /\ \/ hw = Absent /\ Abandons(r, TRUE)
     \/ /\ hw # Absent
        /\ op' = [op EXCEPT ![r] = [st |-> "read", prior |-> hw, after |-> After(r),
                                    through |-> Min({After(r) + Block, MaxId})]]
        /\ UNCHANGED <<startup, range, blocks, ledger, refiller>>
  /\ UNCHANGED <<hw, data, fixed, disk, ghost, bounds>>

(* ... and write it: a compare-and-swap, or an overwrite of an object that *)
(* is still there.                                                         *)
Lands(o) == hw # Absent /\ (Conditional => hw = o.prior)
ReserveWrite(r) ==
  /\ op[r].st = "read"
  /\ \/ /\ hw = Absent /\ Abandons(r, TRUE) /\ UNCHANGED <<hw, faults>>
     \/ /\ hw # Absent /\ ~Lands(op[r]) /\ op' = [op EXCEPT ![r] = NoOp]
        /\ UNCHANGED <<hw, startup, range, blocks, ledger, refiller, faults>>
     \/ /\ Lands(op[r]) /\ hw' = op[r].through
        /\ op' = [op EXCEPT ![r].st = "landed"]
        /\ UNCHANGED <<startup, range, blocks, ledger, refiller, faults>>
     \/ /\ faults < MaxFaults /\ faults' = faults + 1
        /\ hw' \in {hw, IF Lands(op[r]) THEN op[r].through ELSE hw}
        /\ Abandons(r, FALSE)
  /\ UNCHANGED <<data, fixed, disk, ghost, starts, tampers>>

(* Under the ledger's lock: the block's end is in the marker before the    *)
(* block can be taken, and a stopped receiver keeps neither.               *)
Records_Later(r, n) == UNCHANGED marker
Records(r, n) == marker' = [marker EXCEPT ![r] = IF ledger[r] THEN Max({@, n}) ELSE @]
MakeReady(r) ==
  /\ op[r].st = "landed"
  /\ \/ /\ Stopped(r) /\ op' = [op EXCEPT ![r] = NoOp]
        /\ UNCHANGED <<marker, startup, range, blocks, ledger, refiller, faults>>
     \/ /\ ~Stopped(r) /\ op' = [op EXCEPT ![r] = NoOp] /\ Records(r, op[r].through)
        /\ highest' = [highest EXCEPT ![r] = Max({@, op[r].through})]
        /\ ready' = [ready EXCEPT ![r] =
             Append(@, [after |-> op[r].after, through |-> op[r].through])]
        /\ UNCHANGED <<startup, range, ledger, refiller, faults>>
     \/ /\ ledger[r] /\ faults < MaxFaults /\ faults' = faults + 1
        /\ Abandons(r, FALSE) /\ (UNCHANGED marker \/ Records(r, op[r].through))
  /\ UNCHANGED <<hw, data, fixed, snap, ghost, starts, tampers>>
-----------------------------------------------------------------------------
(* StoreIdReserver::take: the first ready block that reaches above what    *)
(* was issued; those that do not are dropped.                              *)
Reaching(r) == {k \in DOMAIN ready[r] : ready[r][k].through >= next[r]}
Takes(r) ==
  LET k == Min(Reaching(r))
      after == Max({ready[r][k].after, next[r] - 1})
  IN  [after |-> after, through |-> ready[r][k].through,
       left |-> SubSeq(ready[r], k + 1, Len(ready[r]))]

FillDone(r) ==
  /\ Filling(r) /\ op[r] = NoOp /\ Enough(r)
  /\ \/ /\ pc[r] = "fill1" /\ Reaching(r) # {}
        /\ next' = [next EXCEPT ![r] = Takes(r).after + 1]
        /\ end' = [end EXCEPT ![r] = Takes(r).through + 1]
        /\ ready' = [ready EXCEPT ![r] = Takes(r).left]
        /\ Goes(r, "fill2") /\ UNCHANGED refiller
     \/ /\ pc[r] = "fill2" \/ (pc[r] = "fill1" /\ Reaching(r) = {})
        /\ Goes(r, "filled") /\ UNCHANGED <<next, end, ready, refiller>>
     \/ /\ pc[r] = "refilling" /\ Goes(r, "replay") /\ UNCHANGED <<next, end, ready, refiller>>
     \/ /\ refiller[r] = "filling"
        /\ refiller' = [refiller EXCEPT ![r] = "idle"] /\ UNCHANGED <<pc, next, end, ready>>
  /\ UNCHANGED <<hw, data, fixed, disk, trust, seen, ids, highest, ledger, op, ghost, bounds>>

(* record_seat.                                                            *)
RecordSeat(r) ==
  marker' = [marker EXCEPT ![r] = Max({@, highest[r]})] /\ ledger' = [ledger EXCEPT ![r] = TRUE]

(* seat_root: a root that seated before keeps its marker current from here.*)
SeatRoot(r) ==
  /\ pc[r] = "filled" /\ Goes(r, "replay")
  /\ IF trust[r] = "Seated" THEN RecordSeat(r) ELSE UNCHANGED <<marker, ledger>>
  /\ UNCHANGED <<hw, data, fixed, snap, trust, seen, range, blocks, refiller, op, ghost, bounds>>

FinishReplay(r) ==
  /\ pc[r] = "replay" /\ Goes(r, "sealing")
  /\ refiller' = [refiller EXCEPT ![r] = "filling"]
  /\ UNCHANGED <<hw, data, fixed, disk, trust, seen, range, blocks, ledger, op, ghost, bounds>>

(* seal_root: the untrusted artefacts go, then the marker vouches for the  *)
(* rest.                                                                   *)
Discards_Never(r) == FALSE
Discards(r) == trust[r] = "PredatesHighWater"
SealRemoves(r) ==
  /\ pc[r] = "sealing" /\ Goes(r, "removed")
  /\ snap' = IF Discards(r) THEN [snap EXCEPT ![r] = {}] ELSE snap
  /\ UNCHANGED <<hw, data, fixed, marker, trust, seen, range, blocks, ledger, refiller, op, ghost, bounds>>
SealMarks(r) ==
  /\ pc[r] = "removed" /\ Goes(r, "running")
  /\ IF trust[r] = "Seated" THEN UNCHANGED <<marker, ledger>> ELSE RecordSeat(r)
  /\ UNCHANGED <<hw, data, fixed, snap, trust, seen, range, blocks, refiller, op, ghost, bounds>>
-----------------------------------------------------------------------------
(* IdRange::take: an id from the range in hand, or from the next ready     *)
(* block.  A replay that finds none reserves one; later the mint fails and *)
(* the refiller is asked.                                                  *)
Requested(r) ==
  refiller' = [refiller EXCEPT ![r] = IF @ = "idle" THEN "filling" ELSE @]
Issues(r, i) == ids' = [ids EXCEPT ![r] = @ \cup {Entry(r, i)}]

Mint(r) ==
  /\ pc[r] \in {"replay", "running"}
  /\ \/ /\ next[r] < end[r] /\ Issues(r, next[r])
        /\ next' = [next EXCEPT ![r] = @ + 1]
        /\ UNCHANGED <<pc, end, ready, refiller>>
     \/ /\ next[r] >= end[r] /\ Reaching(r) # {}
        /\ Issues(r, Takes(r).after + 1)
        /\ next' = [next EXCEPT ![r] = Takes(r).after + 2]
        /\ end' = [end EXCEPT ![r] = Takes(r).through + 1]
        /\ ready' = [ready EXCEPT ![r] = Takes(r).left]
        /\ Requested(r) /\ UNCHANGED pc
     \/ /\ next[r] >= end[r] /\ Reaching(r) = {}
        /\ ready' = [ready EXCEPT ![r] = <<>>]
        /\ IF pc[r] = "replay" THEN After(r) < MaxId /\ Goes(r, "refilling") /\ UNCHANGED refiller
           ELSE Requested(r) /\ UNCHANGED pc
        /\ UNCHANGED range
  /\ UNCHANGED <<hw, data, fixed, disk, trust, seen, highest, ledger, op, ghost, bounds>>

(* What a receiver writes carries its ids.  Replay publishes what it       *)
(* replays as it goes, before the root's first marker.                     *)
Publishes == {"replay", "running"}
Publish(r) ==
  /\ pc[r] \in Publishes /\ data' = data \cup ids[r]
  /\ UNCHANGED <<hw, fixed, disk, startup, range, blocks, ledger, refiller, op, ghost, bounds>>
Snapshot(r) ==
  /\ pc[r] = "running" /\ snap' = [snap EXCEPT ![r] = ids[r]]
  /\ UNCHANGED <<hw, data, fixed, marker, startup, range, blocks, ledger, refiller, op, ghost, bounds>>
-----------------------------------------------------------------------------
(* shutdown: no block is recorded or made ready after; the wait for a      *)
(* reservation in flight is bounded where its write is conditional.        *)
Shutdown(r) ==
  /\ pc[r] = "running" /\ Goes(r, "stopping")
  /\ UNCHANGED <<hw, data, fixed, disk, trust, seen, range, blocks, ledger, refiller, op, ghost, bounds>>
GivesUp_Always == TRUE
GivesUp == Conditional
Released(r) ==
  /\ pc[r] = "stopping"
  /\ \/ op[r] = NoOp /\ UNCHANGED ghost
     \/ GivesUp /\ op[r].st = "read" /\ ghost[r] = NoOp /\ ghost' = [ghost EXCEPT ![r] = op[r]]
  /\ Ends(r)
  /\ UNCHANGED <<hw, data, fixed, disk, bounds>>
GhostWrite(r) ==
  /\ ghost[r] # NoOp /\ ghost' = [ghost EXCEPT ![r] = NoOp]
  /\ hw' = IF Lands(ghost[r]) THEN ghost[r].through ELSE hw
  /\ UNCHANGED <<data, fixed, disk, startup, range, blocks, ledger, refiller, op, bounds>>

Crash(r) ==
  /\ pc[r] # "down" /\ Ends(r)
  /\ UNCHANGED <<hw, data, fixed, disk, ghost, bounds>>

(* Somebody deletes the high-water or puts an older copy back.             *)
Tamper ==
  /\ tampers < MaxTampers /\ tampers' = tampers + 1
  /\ hw # Absent /\ hw' \in {Absent} \cup 0..(hw - 1)
  /\ UNCHANGED <<data, fixed, disk, startup, range, blocks, ledger, refiller, op, ghost, starts, faults>>

Reserves(r) == ReserveRead(r) \/ ReserveWrite(r) \/ MakeReady(r) \/ FillDone(r)
Starts(r) ==
  \/ Decide(r) \/ Seat(r) \/ Create(r) \/ SeatRoot(r) \/ FinishReplay(r)
  \/ SealRemoves(r) \/ SealMarks(r)
Runs(r) == Mint(r) \/ Publish(r) \/ Snapshot(r) \/ Shutdown(r) \/ Released(r) \/ GhostWrite(r)

Next == Tamper \/ \E r \in Receiver : Starts(r) \/ Reserves(r) \/ Runs(r) \/ Crash(r)
Spec == Init /\ [][Next]_vars
-----------------------------------------------------------------------------
Mark == 0..MaxId \cup {Absent}
(* The types; and a receiver issues only from a block that it reserved.    *)
TypeOK ==
  /\ hw \in Mark /\ marker \in [Receiver -> Mark]
  /\ \A r \in Receiver :
       /\ end[r] - 1 <= highest[r] \/ end[r] = 1
       /\ next[r] \in 1..(MaxId + 1) /\ end[r] \in 1..(MaxId + 1)
       /\ Len(ready[r]) <= ReadyBlocks
       /\ op[r].st # "none" => Filling(r) \/ Stopped(r)
       /\ refiller[r] = "off" <=> pc[r] \notin {"sealing", "removed", "running", "stopping"}

(* Two templates never share an id: among all that was published since the *)
(* upgrade and all that any publishing receiver holds, restored from its   *)
(* snapshots or minted, an id stands for one template.  One exception,     *)
(* which takes a rollback of the high-water (unsupported, marker.rs:14): a *)
(* root's first marker is written when its replay is over, so a replay cut *)
(* short leaves published ids and no marker, and the next start cannot see *)
(* that a high-water below them was put back.                              *)
Exposed == data \cup UNION {ids[r] : r \in {s \in Receiver : pc[s] \in Publishes}}
OneTemplatePerId == ~blind => \A e, f \in Exposed : e.id = f.id => e = f

(* A block that can be taken, or the range in hand, is covered by the      *)
(* high-water, so that no other receiver can reserve it, as long as nobody *)
(* deletes the object or rolls it back.                                    *)
UsableIsReserved ==
  tampers = 0 /\ hw # Absent => \A r \in Receiver :
    (pc[r] \notin {"down", "decided", "scanned"}) =>
      /\ end[r] - 1 <= hw
      /\ \A k \in DOMAIN ready[r] : ready[r][k].through <= hw

(* Once the marker is kept current, it covers every id the receiver can    *)
(* issue: a later start cannot miss a rollback below one of them.          *)
MarkerCoversUsable ==
  \A r \in Receiver :
    ledger[r] => /\ marker[r] >= end[r] - 1
                 /\ \A k \in DOMAIN ready[r] : marker[r] >= ready[r][k].through

(* The blocks the running receivers hold are disjoint.                     *)
Held(r) == {i \in Id : i >= next[r] /\ i < end[r]} \cup
           {i \in Id : \E k \in DOMAIN ready[r] : i > ready[r][k].after /\ i <= ready[r][k].through}
BlocksAreDisjoint == \A r, s \in Receiver : r # s => Held(r) \cap Held(s) = {}

(* The blocks: types (the ready queue and the top of the domain bound      *)
(* them), covered by the high-water, and disjoint between receivers.       *)
ReserveInv == TypeOK /\ UsableIsReserved /\ BlocksAreDisjoint
=============================================================================
