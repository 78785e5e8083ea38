------------------------------ MODULE Reclaim ------------------------------
(***************************************************************************)
(* WAL reclamation: the retention ledger (ourios-wal/src/retain.rs), the   *)
(* two-phase housekeeping pass (housekeeping.rs, pass.rs), the RECLAIM     *)
(* record (reclaim.rs, reclaim_store.rs), the CHECKPOINT sidecar           *)
(* (checkpoint.rs, Wal::checkpoint) and the open-time matrix that reads    *)
(* the two back (reconcile.rs).                                            *)
(*                                                                         *)
(* A segment is a number in file-name order and an offset is the position  *)
(* of a frame in the log, so offsets and segments are ordered alike; a     *)
(* closed segment does not change, so what a planned row says of it can be *)
(* read off the log.  The two slots of RECLAIM are the record of the live  *)
(* slot and, when a slot was written and not fsynced, the record a later   *)
(* open may find instead.  A pass runs under two locks, the journal's for its ledger     *)
(* halves and the record's for the write, and its unlinks under none: each *)
(* removal is a check of the live pass followed by an unlink.              *)
(* The sweep of stale partials, which shares the pass and no state with    *)
(* the segments, the reported floor and lag, frames without a tenant and   *)
(* the widening of the record are left out; frames are taken as synced.    *)
(***************************************************************************)
EXTENDS Integers, Sequences, FiniteSets, FiniteSetsExt, SequencesExt

CONSTANTS
  Tenant,
  Sites     \* the roots to consider: who writes them, how they are run, the bounds

NoPass == 0

(* A pass has a number, a root has room for its first segment, and the     *)
(* bounds leave room for what an older version left.                       *)
ASSUME ReclaimAssumption ==
  \A s \in Sites :
    /\ s.tenants \subseteq Tenant /\ s.tenants # {}
    /\ s.cap \in Nat \ {0}
    /\ s.modes \subseteq {"Known", "NoConsumer"}
    /\ NoPass \notin s.halves
    /\ {s.legacy, s.frames, s.segments, s.faults, s.lost} \subseteq Nat
    /\ s.segments # 0 /\ s.legacy <= s.segments /\ s.legacy <= s.frames + 1

VARIABLES
  site,      \* the root of this behaviour, one of Sites
  log,       \* every frame ever appended: its segment and its tenant
  v1,        \* how many of the first segments have version-1 headers
  files,     \* the segments in the directory
  unsynced,  \* segments unlinked since the directory was last fsynced
  side,      \* the CHECKPOINT sidecar: version 0 when there is none
  sideOld,   \* the sidecar a power loss brings back
  rec,       \* the RECLAIM record of the live slot, NoRecord when absent
  recAlt,    \* the record a later open may find instead, NoRecord for none
  snap,      \* each tenant's restorable horizon, 0 when it has none
  up,        \* "down", "up" or "refused"
  mem,       \* the record as the running WAL holds it
  gate,      \* reclaim_gate
  legacy,    \* legacy_origin
  ledger,    \* SegmentLedger
  outstanding,
  live,      \* the live-pass cell
  half,      \* each file half
  late,      \* removals by a pass that was no longer live (history)
  faults,
  lost       \* how many snapshots and how many sidecars were lost (history)

Cap == site.cap               \* max_unlinks_per_pass
Modes == site.modes           \* what callers offer: "Known" horizons, "NoConsumer"
Halves == site.halves         \* bound: passes whose file halves may run at once
FramesBound == site.frames      \* bound: frames appended
SegmentsBound == site.segments  \* bound: segments ever created
MaxFaults == site.faults      \* bound: crashes, panics and failing writes
MaxLost == site.lost          \* bound: snapshots and sidecars lost
Seg == 1..SegmentsBound

fixed == <<site, v1>>
dir == <<files, unsynced>>
sidecar == <<side, sideOld>>
record == <<rec, recAlt, mem>>
run == <<up, gate, legacy>>
pass == <<ledger, outstanding, live>>
bounds == <<faults, lost>>
reclaimVars == <<log, fixed, dir, sidecar, record, snap, run, pass, half, late, bounds>>
-----------------------------------------------------------------------------
Frames(s) == {i \in DOMAIN log : log[i].seg = s}
Members(s) == {log[i].tenant : i \in Frames(s)}
(* The last offset of a tenant in a segment, 0 when it has none there.     *)
LastIn(s, t) == Max({0} \cup {i \in Frames(s) : log[i].tenant = t})
Highest(s) == Max({0} \cup Frames(s))
Created == 1..Max({0} \cup files \cup {log[i].seg : i \in DOMAIN log})
Gone == Created \ files
Cur == Max(files)

NoRecord == [witness |-> "none", mode |-> "Unrecorded", planned |-> {},
             reclaimed |-> [t \in Tenant |-> 0]]
Fresh(w) == [NoRecord EXCEPT !.witness = w]
Idle == [st |-> "idle", mode |-> "none", records |-> FALSE, plan |-> {},
         uncertain |-> {}, todo |-> {}, removed |-> {}, fsync_failed |-> FALSE]
NoPlan == [pass |-> NoPass, mode |-> "none", segments |-> {}, uncertain |-> {}]
EmptyLedger(d) ==
  [describes_root |-> d, segments |-> {}, reclaiming |-> {}, uncertain |-> {},
   attempted |-> {}, pending |-> [s \in Seg |-> {}],
   cursor |-> [t \in Tenant |-> 0], horizon |-> [t \in Tenant |-> 0]]
-----------------------------------------------------------------------------
(* retain.rs: operations on a ledger l.                                    *)
Held(l, t) == {s \in l.segments : t \in Members(s)}
Unpinned(l) == {s \in l.segments \ l.reclaiming : l.pending[s] = {}}

(* observe: the frame pins its segment for its tenant, and pulls back a    *)
(* cursor that had passed the segment.                                     *)
Observe(l, s, t) ==
  [l EXCEPT !.segments = @ \cup {s},
            !.pending[s] = @ \cup {t},
            !.cursor[t] = IF s > @ THEN @ ELSE Max({0} \cup {r \in Held(l, t) : r < s})]

Withdraw(l, S) ==
  [l EXCEPT !.attempted = @ \cup (S \cap l.uncertain),
            !.uncertain = @ \ S, !.reclaiming = @ \ S]

(* receive: a horizon that fell or vanished re-pins all of the tenant's    *)
(* segments and takes them out of any pass.                                *)
Rewound(l, marks) == {t \in Tenant : l.horizon[t] # 0 /\ marks[t] < l.horizon[t]}
Receive(l, marks) ==
  LET R == Rewound(l, marks)
      w == Withdraw(l, UNION {Held(l, t) : t \in R})
  IN  [w EXCEPT !.cursor = [t \in Tenant |-> IF t \in R THEN 0 ELSE @[t]],
                !.pending = [s \in Seg |-> IF s \in l.segments
                               THEN @[s] \cup (Members(s) \cap R) ELSE @[s]],
                !.horizon = [t \in Tenant |-> IF Held(l, t) = {} THEN 0 ELSE marks[t]]]

(* walk: the segments each tenant's cursor passes, at most Cap in all, in  *)
(* order for each tenant (the share of each is the round robin's choice).  *)
Covered(l, t) ==
  {s \in Held(l, t) : /\ s > l.cursor[t]
                      /\ \A r \in Held(l, t) :
                           r > l.cursor[t] /\ r <= s => LastIn(r, t) <= l.horizon[t]}
Steps(f) == MapThenSumSet(LAMBDA t : Cardinality(f[t]), Tenant)
Walks(l) ==
  LET all == [t \in Tenant |-> Covered(l, t)]
      prefixes == {f \in [Tenant -> SUBSET Seg] : \A t \in Tenant :
                     /\ f[t] \subseteq all[t]
                     /\ \A s \in f[t], r \in all[t] : r < s => r \in f[t]}
  IN  {f \in prefixes : Steps(f) = Min({Steps(all), Cap})}
Walked(l, f) ==
  [l EXCEPT !.cursor = [t \in Tenant |-> Max({@[t]} \cup f[t])],
            !.pending = [s \in Seg |-> {t \in @[s] : s \notin f[t]}]]

(* take: what an earlier file half may have unlinked is taken uncertain.   *)
Take_AlwaysCertain(l, S) ==
  [l EXCEPT !.reclaiming = @ \cup S, !.uncertain = @ \ S, !.attempted = @ \cup S]
Take(l, S) ==
  [l EXCEPT !.reclaiming = @ \cup S,
            !.uncertain = @ \cup (S \cap l.attempted),
            !.attempted = @ \cup S]

(* pop: reclaiming segments, then covered ones the record has a row for,   *)
(* then the rest of the covered ones, oldest first, while the budget and   *)
(* the free rows last; never the append target.  Only one set fits.        *)
Candidates_IgnoresPins(l, m) ==
  (l.reclaiming \cup {s \in l.segments : Highest(s) <= side.mark}) \ {Cur}
Candidates(l, m) ==
  LET free == IF m = "Known" THEN Unpinned(l) ELSE l.segments \ l.reclaiming
  IN  (l.reclaiming \cup {s \in free : Highest(s) <= side.mark}) \ {Cur}
Turn(l, s) ==
  IF s \in l.reclaiming THEN s
  ELSE IF s \in mem.planned THEN s + SegmentsBound ELSE s + 2 * SegmentsBound
Affords(out, s) == s \in mem.planned \/ Cardinality(mem.planned \cup out) < Cap
Pops(l, m) ==
  LET C == Candidates(l, m)
      admitted(S) == \A s \in C :
        LET out == {r \in S : Turn(l, r) < Turn(l, s)}
        IN  s \in S <=> Cardinality(out) < Cap /\ Affords(out, s)
  IN  IF l.describes_root THEN {S \in SUBSET C : admitted(S)} ELSE {{}}

Restore(l, S) ==
  [l EXCEPT !.attempted = (@ \ S) \cup (S \cap l.uncertain),
            !.uncertain = @ \ S, !.reclaiming = @ \ S]
Hold(l, S, uncertain) ==
  [l EXCEPT !.attempted = @ \ S, !.uncertain = (@ \ S) \cup (S \cap uncertain)]
Drop(l, S) ==
  LET r == [l EXCEPT !.segments = @ \ S, !.reclaiming = @ \ S, !.uncertain = @ \ S,
                     !.attempted = @ \ S,
                     !.pending = [s \in Seg |-> IF s \in S THEN {} ELSE @[s]]]
      kept(f) == [t \in Tenant |-> IF Held(r, t) = {} THEN 0 ELSE f[t]]
  IN  [r EXCEPT !.cursor = kept(@), !.horizon = kept(@)]
-----------------------------------------------------------------------------
(* reclaim.rs, reclaim_store.rs: a record r.                               *)
Raise(r, S) ==
  [r EXCEPT !.reclaimed = [t \in Tenant |-> Max({@[t]} \cup {LastIn(s, t) : s \in S})]]

(* A slot write: on a failed fsync a later open may find either record.    *)
Committed(r) == rec' = r /\ recAlt' = NoRecord /\ mem' = r
CommitFailed(r) == recAlt' = r /\ UNCHANGED <<rec, mem>>
Fault == faults < MaxFaults /\ faults' = faults + 1
-----------------------------------------------------------------------------
(* reconcile.rs: what open makes of the root.                              *)
Proves(r) == r.witness = "Terminal" \/ r.planned # {} \/ \E t \in Tenant : r.reclaimed[t] # 0
HasV1 == \E s \in files : s <= v1
HasV2 == \E s \in files : s > v1
LostRecord == rec = NoRecord /\ side.v = 2
LostSidecars == rec = NoRecord /\ side.v = 0 /\ HasV2
LostCheckpoint == rec # NoRecord /\ side.v = 0 /\ Proves(rec)

(* planned: a row whose segment is gone is a completed reclamation, a row  *)
(* whose segment is there is dropped.                                      *)
Planned_DropsRows(r) == [r EXCEPT !.planned = {}]
Planned(r) == Raise([r EXCEPT !.planned = {}], r.planned \ files)
Promoted == IF rec # NoRecord /\ side.v = 2 THEN [rec EXCEPT !.witness = "Terminal"] ELSE rec
Reconciled ==
  IF side.v = 0 /\ files = {} THEN Fresh("Unarmed")
  ELSE IF rec = NoRecord THEN NoRecord ELSE Planned(Promoted)

(* An open writes the record it found only when it changes it, and fsyncs  *)
(* it only when it writes it.                                              *)
Rewrite(r) == rec' = r /\ recAlt' = IF r = rec THEN recAlt ELSE NoRecord

(* Wal::open, after prepare_root's fsync of the root; a start that was     *)
(* refused may be tried again.                                             *)
OpenRoot ==
  /\ up # "up"
  /\ unsynced' = {} /\ sideOld' = side
  /\ \/ /\ LostRecord \/ LostSidecars \/ LostCheckpoint
        /\ up' = "refused"
        /\ UNCHANGED <<files, record, gate, legacy, ledger>>
     \/ /\ ~(LostRecord \/ LostSidecars \/ LostCheckpoint)
        /\ up' = "up"
        /\ Rewrite(Reconciled) /\ mem' = Reconciled
        /\ gate' = IF side.v = 2 THEN "Open" ELSE "Unwitnessed"
        /\ legacy' = (side.v = 1 \/ (side.v = 0 /\ HasV1))
        /\ ledger' = EmptyLedger(files = {})
        /\ files' = IF files = {} THEN {1} ELSE files
  /\ UNCHANGED <<log, fixed, side, snap, outstanding, live, half, late, bounds>>

(* A crash between the record writes of an open, or before its segment.    *)
OpenInterrupted ==
  /\ up = "down" /\ Fault
  /\ ~(LostRecord \/ LostSidecars \/ LostCheckpoint)
  /\ \E r \in {Promoted, Reconciled} : Rewrite(r)
  /\ unsynced' = {} /\ sideOld' = side
  /\ UNCHANGED <<log, fixed, files, side, mem, snap, run, pass, half, late, lost>>

(* rebuild_ledger, after recovery has replayed the root.                   *)
RebuildLedger ==
  /\ up = "up" /\ ~ledger.describes_root
  /\ ledger' = [EmptyLedger(TRUE) EXCEPT
                  !.segments = {s \in files : Frames(s) # {}},
                  !.pending = [s \in Seg |-> IF s \in files THEN Members(s) ELSE {}]]
  /\ UNCHANGED <<log, fixed, dir, sidecar, record, snap, run, outstanding, live, half, late, bounds>>
-----------------------------------------------------------------------------
(* Wal::checkpoint at mark m: arm the record, write the sidecar, fsync the *)
(* root, witness the record, each of which may fail.  The mark advances    *)
(* with the rename.  The journal is locked throughout.                     *)
Settled == gate = "Open" /\ side.v = 2 /\ mem.witness = "Terminal"
Armed == IF mem.witness \in {"none", "Unarmed"} THEN [mem EXCEPT !.witness = "Armed"] ELSE mem
Witnessed == [Armed EXCEPT !.witness = "Terminal"]
Arm_NotFirst == UNCHANGED record
Arm == IF Armed = mem THEN UNCHANGED record ELSE Committed(Armed)
WriteSidecar(m) == side' = [v |-> 2, mark |-> m]
SyncRoot == sideOld' = side' /\ unsynced' = {}

CheckpointArmFails == Armed # mem /\ CommitFailed(Armed) /\ UNCHANGED <<sidecar, unsynced, gate>>
CheckpointWriteFails == Arm /\ UNCHANGED <<sidecar, unsynced, gate>>
CheckpointSyncFails(m) ==
  Arm /\ WriteSidecar(m) /\ gate' = "FsyncPending" /\ UNCHANGED <<sideOld, unsynced>>
CheckpointWitnessFails(m) ==
  /\ WriteSidecar(m) /\ SyncRoot /\ gate' = "Open"
  /\ Witnessed # Armed
  /\ recAlt' = Witnessed
  /\ IF Armed = mem THEN UNCHANGED <<rec, mem>> ELSE rec' = Armed /\ mem' = Armed
CheckpointLands(m) ==
  /\ WriteSidecar(m) /\ SyncRoot /\ gate' = "Open"
  /\ IF Witnessed = mem THEN UNCHANGED record ELSE Committed(Witnessed)

Checkpoint(m) ==
  /\ up = "up" /\ m # 0 /\ m >= side.mark /\ ~(m = side.mark /\ Settled)
  /\ \/ CheckpointLands(m) /\ UNCHANGED faults
     \/ /\ Fault
        /\ \/ CheckpointArmFails
           \/ CheckpointWriteFails
           \/ CheckpointSyncFails(m)
           \/ CheckpointWitnessFails(m)
  /\ UNCHANGED <<log, fixed, files, snap, up, legacy, pass, half, late, lost>>
-----------------------------------------------------------------------------
(* Appends, rotations and snapshots.  The receiver appends once the ledger *)
(* is rebuilt.  A rotation puts an armed record on a root without one      *)
(* before its version-2 segment exists.                                    *)
AppendFrame(t) ==
  /\ up = "up" /\ ledger.describes_root /\ Len(log) < FramesBound
  /\ log' = Append(log, [seg |-> Cur, tenant |-> t])
  /\ ledger' = Observe(ledger, Cur, t)
  /\ UNCHANGED <<fixed, dir, sidecar, record, snap, run, outstanding, live, half, late, bounds>>

Rotate ==
  /\ up = "up" /\ Frames(Cur) # {}
  /\ IF mem = NoRecord THEN Committed(Fresh("Armed")) ELSE UNCHANGED record
  /\ \/ /\ Cur < SegmentsBound
        /\ files' = files \cup {Cur + 1} /\ unsynced' = {} /\ sideOld' = side
        /\ UNCHANGED faults
     \/ Fault /\ mem = NoRecord /\ UNCHANGED <<dir, sideOld>>
  /\ UNCHANGED <<log, fixed, side, snap, run, pass, half, late, lost>>

Snapshot(t) ==
  /\ up = "up" /\ snap[t] < Len(log)
  /\ snap' = [snap EXCEPT ![t] = Len(log)]
  /\ UNCHANGED <<log, fixed, dir, sidecar, record, run, pass, half, late, bounds>>
-----------------------------------------------------------------------------
(* housekeeping_prepare.                                                   *)
OnLegacyBranch == gate = "Unwitnessed" /\ legacy
MayHoldFrames(l, t) == ~l.describes_root \/ Held(l, t) # {}
ModeDisagrees(m) == mem.mode \notin {"Unrecorded", m}
LostEntry(l) ==
  /\ mem.mode = "Known"
  /\ \E t \in Tenant : mem.reclaimed[t] # 0 /\ MayHoldFrames(l, t) /\ snap[t] < mem.reclaimed[t]
(* A pass is offered restorable horizons only; the marks of version-1      *)
(* snapshots (RecordedOnly) are offered by the start-up check, before the  *)
(* first pass, and to nothing else.                                        *)
LegacyGap(l) == OnLegacyBranch /\ \E t \in Tenant : Held(l, t) # {} /\ snap[t] = 0
Refuses(l, m) == ModeDisagrees(m) \/ (m = "Known" /\ (LostEntry(l) \/ LegacyGap(l)))

(* An abandoned plan keeps its segments reclaiming, unless the mode moved. *)
Abandon(m) ==
  IF outstanding.mode \in {"none", m} THEN ledger ELSE Withdraw(ledger, outstanding.segments)

Plans(l, m) ==
  LET received == Receive(l, snap)
  IN  IF m = "Known" THEN {Walked(received, f) : f \in Walks(received)} ELSE {l}

Prepare(p, m) ==
  /\ up = "up" /\ half[p] = Idle
  /\ LET l == Abandon(m)
     IN  \/ /\ Refuses(l, m)
            /\ ledger' = l /\ live' = NoPass /\ outstanding' = NoPlan
            /\ UNCHANGED half
         \/ /\ ~Refuses(l, m)
            /\ \E w \in Plans(l, m) : \E popped \in IF Settled THEN Pops(w, m) ELSE {{}} :
                 LET taken == Take(w, popped)
                     unc == popped \cap taken.uncertain
                 IN  /\ ledger' = taken
                     /\ live' = p
                     /\ outstanding' = [pass |-> p, mode |-> m, segments |-> popped,
                                        uncertain |-> unc]
                     /\ half' = [half EXCEPT ![p] =
                          [Idle EXCEPT !.st = "planned", !.mode = m, !.records = Settled,
                                       !.plan = popped, !.uncertain = unc]]
  /\ UNCHANGED <<log, fixed, dir, sidecar, record, snap, run, late, bounds>>
-----------------------------------------------------------------------------
(* The file half of pass p: write_plan_record, then unlink_planned.        *)
Merged(h) ==
  [mem EXCEPT !.mode = IF @ = "Unrecorded" THEN h.mode ELSE @, !.planned = @ \cup h.plan]
Goes(p, st) == half' = [half EXCEPT ![p].st = st]
Permitted(p) == half' = [half EXCEPT ![p].st = "unlinking", ![p].todo = half[p].plan]

(* A plan that lost its turn is refused under the record's lock.           *)
WritePlan(p) ==
  /\ half[p].st = "planned"
  /\ LET r == Merged(half[p])
         writes == half[p].records /\ mem # NoRecord /\ (half[p].plan # {} \/ r.mode # mem.mode)
     IN  \/ live # p /\ Goes(p, "failed") /\ UNCHANGED <<record, faults>>
         \/ live = p /\ ~writes /\ Permitted(p) /\ UNCHANGED <<record, faults>>
         \/ live = p /\ writes /\ Committed(r) /\ Permitted(p) /\ UNCHANGED faults
         \/ live = p /\ writes /\ CommitFailed(r) /\ Goes(p, "failed") /\ Fault
  /\ UNCHANGED <<log, fixed, dir, sidecar, snap, run, pass, late, lost>>

(* UnlinkPermit::guard: the load of the live cell before each removal; the *)
(* one on entry to unlink_planned is part of the first.                    *)
Holds(p) == live = p
CheckPermit(p) ==
  /\ half[p].st = "unlinking" /\ half[p].todo # {}
  /\ half' = [half EXCEPT ![p].st = IF Holds(p) THEN "checked" ELSE @,
                          ![p].todo = IF Holds(p) THEN @ ELSE @ \ {Min(@)}]
  /\ UNCHANGED <<log, fixed, dir, sidecar, record, snap, run, pass, late, bounds>>

(* unlink_segment: a file that is not there completes only an uncertain    *)
(* deletion.                                                               *)
Unlinks(h, s) == s \in files \/ s \in h.uncertain
Unlink(p) ==
  /\ half[p].st = "checked"
  /\ LET s == Min(half[p].todo)
         h == [half[p] EXCEPT !.st = "unlinking", !.todo = @ \ {s}]
     IN  \/ /\ Unlinks(h, s)
            /\ files' = files \ {s}
            /\ unsynced' = unsynced \cup ({s} \cap files)
            /\ half' = [half EXCEPT ![p] = [h EXCEPT !.removed = @ \cup {s}]]
            /\ late' = IF live = p THEN late ELSE [late EXCEPT ![p] = @ \cup ({s} \cap files)]
            /\ UNCHANGED faults
         \/ /\ IF Unlinks(h, s) THEN Fault ELSE UNCHANGED faults
            /\ half' = [half EXCEPT ![p] = h]
            /\ UNCHANGED <<dir, late>>
  /\ UNCHANGED <<log, fixed, sidecar, record, snap, run, pass, lost>>

SyncParent(p) ==
  /\ half[p].st = "unlinking" /\ half[p].todo = {}
  /\ \/ half[p].removed = {} /\ Goes(p, "unlinked") /\ UNCHANGED <<unsynced, sideOld, faults>>
     \/ /\ half[p].removed # {} /\ Goes(p, "unlinked")
        /\ unsynced' = {} /\ sideOld' = side /\ UNCHANGED faults
     \/ /\ half[p].removed # {} /\ Fault
        /\ half' = [half EXCEPT ![p].st = "unlinked", ![p].fsync_failed = TRUE]
        /\ UNCHANGED <<unsynced, sideOld>>
  /\ UNCHANGED <<log, fixed, files, side, record, snap, run, pass, late, lost>>

(* housekeeping_commit.  The raised entries and the dropped rows stay in   *)
(* memory until the next write of the record.                              *)
Done_IgnoresSync(h) == h.removed
Done(h) == IF h.fsync_failed THEN {} ELSE h.removed
Uncertain(h) == IF h.fsync_failed THEN h.removed ELSE {}
SettledLedger(h) ==
  Hold(Drop(ledger, Done(h)), h.plan \ Done(h), Uncertain(h) \cup (h.uncertain \ h.removed))
SettledRecord(h) ==
  LET done == Done(h) \cap mem.planned
  IN  Raise([mem EXCEPT !.planned = @ \ done], done)

Commit(p) ==
  /\ half[p].st \in {"failed", "unlinked"}
  /\ half' = [half EXCEPT ![p] = Idle]
  /\ late' = [late EXCEPT ![p] = {}]
  /\ \/ outstanding.pass # p /\ UNCHANGED <<pass, mem>>
     \/ /\ outstanding.pass = p /\ half[p].st = "failed"
        /\ ledger' = Restore(ledger, outstanding.segments)
        /\ outstanding' = NoPlan /\ live' = NoPass /\ UNCHANGED mem
     \/ /\ outstanding.pass = p /\ half[p].st = "unlinked"
        /\ ledger' = SettledLedger(half[p]) /\ mem' = SettledRecord(half[p])
        /\ outstanding' = NoPlan /\ live' = NoPass
  /\ UNCHANGED <<log, fixed, dir, sidecar, rec, recAlt, snap, run, bounds>>

(* A panic in the file half: no commit ever comes.                         *)
Panic(p) ==
  /\ half[p] # Idle /\ Fault
  /\ half' = [half EXCEPT ![p] = Idle]
  /\ late' = [late EXCEPT ![p] = {}]
  /\ UNCHANGED <<log, fixed, dir, sidecar, record, snap, run, pass, lost>>
-----------------------------------------------------------------------------
(* The process dies: what is in the files stays, and of a slot that was    *)
(* written and not fsynced, the record it replaces.                        *)
Stopped ==
  /\ up' = "down" /\ mem' = NoRecord /\ gate' = "Unwitnessed" /\ legacy' = FALSE
  /\ ledger' = EmptyLedger(FALSE) /\ outstanding' = NoPlan /\ live' = NoPass
  /\ half' = [p \in Halves |-> Idle] /\ late' = [p \in Halves |-> {}]

KillProcess ==
  /\ up = "up" /\ Fault /\ Stopped
  /\ \/ rec' = rec /\ recAlt' = NoRecord
     \/ recAlt # NoRecord /\ rec' = recAlt /\ recAlt' = rec
  /\ UNCHANGED <<log, fixed, dir, sidecar, snap, lost>>

(* Power is lost: unlinks and a rename the directory was not fsynced after *)
(* may be undone.                                                          *)
LosePower ==
  /\ up # "refused" /\ Fault /\ Stopped
  /\ rec' \in {rec, IF recAlt = NoRecord THEN rec ELSE recAlt} /\ recAlt' = NoRecord
  /\ \E back \in SUBSET unsynced : files' = files \cup back
  /\ unsynced' = {}
  /\ side' \in {side, sideOld} /\ sideOld' = side'
  /\ UNCHANGED <<log, fixed, snap, lost>>

(* A snapshot no longer restores, or a sidecar is lost with the node down. *)
Lose ==
  /\ lost.snapshots + lost.sidecars < MaxLost
  /\ \/ /\ \E t \in Tenant : snap[t] # 0 /\ snap' = [snap EXCEPT ![t] = 0]
        /\ lost' = [lost EXCEPT !.snapshots = @ + 1]
        /\ UNCHANGED <<rec, recAlt, sidecar>>
     \/ /\ up = "down" /\ lost' = [lost EXCEPT !.sidecars = @ + 1] /\ UNCHANGED snap
        /\ \/ rec # NoRecord /\ rec' = NoRecord /\ recAlt' = NoRecord /\ UNCHANGED sidecar
           \/ /\ side.v # 0 /\ UNCHANGED <<rec, recAlt>>
              /\ side' = [v |-> 0, mark |-> 0] /\ sideOld' = side'
  /\ UNCHANGED <<log, fixed, dir, mem, run, pass, half, late, faults>>
-----------------------------------------------------------------------------
(* A root is empty at first, or was left by a version that never reclaimed *)
(* one: closed segments of one frame each and an empty current one.        *)
ReclaimInit ==
  /\ site \in Sites /\ v1 = site.legacy
  /\ \E t \in site.tenants : log = [i \in 1..(v1 - 1) |-> [seg |-> i, tenant |-> t]]
  /\ files = 1..v1 /\ unsynced = {}
  /\ side \in {[v |-> 0, mark |-> 0]} \cup {[v |-> 1, mark |-> n] : n \in 1..Len(log)}
  /\ sideOld = side
  /\ rec = NoRecord /\ recAlt = NoRecord
  /\ snap = [t \in Tenant |-> 0]
  /\ up = "down" /\ mem = NoRecord /\ gate = "Unwitnessed" /\ legacy = FALSE
  /\ ledger = EmptyLedger(FALSE) /\ outstanding = NoPlan /\ live = NoPass
  /\ half = [p \in Halves |-> Idle] /\ late = [p \in Halves |-> {}]
  /\ faults = 0 /\ lost = [snapshots |-> 0, sidecars |-> 0]

FileHalf(p) ==
  WritePlan(p) \/ CheckPermit(p) \/ Unlink(p) \/ SyncParent(p) \/ Commit(p)

ReclaimNext ==
  \/ OpenRoot \/ OpenInterrupted \/ RebuildLedger
  \/ Checkpoint(Len(log)) \/ Checkpoint(side.mark)
  \/ Rotate \/ (\E t \in site.tenants : AppendFrame(t) \/ Snapshot(t))
  \/ \E p \in Halves : FileHalf(p) \/ Panic(p) \/ \E m \in Modes : Prepare(p, m)
  \/ KillProcess \/ LosePower \/ Lose

ReclaimSpec == ReclaimInit /\ [][ReclaimNext]_reclaimVars

-----------------------------------------------------------------------------
Offset == 0..FramesBound
Record ==
  [witness : {"none", "Unarmed", "Armed", "Terminal"},
   mode : {"Unrecorded", "Known", "NoConsumer"}, planned : SUBSET Seg,
   reclaimed : [Tenant -> Offset]]

(* The types; and the ledger's cursors agree with its pins: a tenant holds *)
(* back exactly its segments above its cursor.                             *)
ReclaimTypeOK ==
  /\ log \in Seq([seg : Seg, tenant : Tenant]) /\ Len(log) <= FramesBound
  /\ files \subseteq Seg /\ unsynced \subseteq Seg \ files
  /\ {side, sideOld} \subseteq [v : 0..2, mark : Offset]
  /\ {rec, recAlt, mem} \subseteq Record
  /\ snap \in [Tenant -> Offset]
  /\ up \in {"down", "up", "refused"}
  /\ gate \in {"Unwitnessed", "FsyncPending", "Open"} /\ legacy \in BOOLEAN
  /\ ledger.uncertain \subseteq ledger.reclaiming
  /\ ledger.reclaiming \cup ledger.attempted \subseteq ledger.segments
  /\ \A s \in Seg, t \in Tenant :
       t \in ledger.pending[s] <=> s \in Held(ledger, t) /\ s > ledger.cursor[t]
  /\ live \in Halves \cup {NoPass} /\ outstanding.pass = live

(* Every absent segment is accounted for, in memory and in every record a  *)
(* crash can leave: by a planned row that open reads as a completed        *)
(* reclamation, or by the reclaimed_through of each tenant it held.  Once  *)
(* both sidecars are lost this ends: a root whose remaining segments are   *)
(* all version 1 then reads as one that was never reclaimed                *)
(* (open_without_sidecars).                                                *)
Accounts(r, s) ==
  s \in r.planned \/ \A t \in Members(s) : r.reclaimed[t] >= LastIn(s, t)
GoneIsAccounted ==
  lost.sidecars < 2 => \A s \in Gone :
    /\ up = "up" => mem # NoRecord /\ Accounts(mem, s)
    /\ rec = NoRecord => lost.sidecars # 0
    /\ rec # NoRecord => Accounts(rec, s)
    /\ recAlt # NoRecord => Accounts(recAlt, s)

(* reclaimed_through is never raised over frames still on disk, or that a  *)
(* power loss could bring back.                                            *)
ReclaimedIsGone ==
  \A r \in {rec, recAlt, mem}, t \in Tenant :
    r.reclaimed[t] # 0 => log[r.reclaimed[t]].seg \notin files \cup unsynced

(* Open refuses a root only when a sidecar was lost: no crash of the       *)
(* program itself, wherever it falls, leaves a root that reads as damaged. *)
RefusalMeansLoss == up = "refused" => lost.sidecars # 0

(* No record carries more planned rows than its slots were built for.      *)
RowsFit == \A r \in {rec, recAlt, mem} : Cardinality(r.planned) <= Cap

(* A segment is unlinked only when it is not the append target, a durable  *)
(* checkpoint covers it and, by the live pass of a root whose callers      *)
(* always have a consumer, when the last horizon received of each of its   *)
(* tenants covers it.                                                      *)
UnlinksOnlyUnneeded ==
  [][\A s \in files \ files' :
       /\ s # Cur /\ Highest(s) <= sideOld.mark /\ Highest(s) <= side.mark
       /\ \A p \in Halves :
            p = live /\ Modes = {"Known"} /\ half'[p].removed # half[p].removed =>
              \A t \in Tenant : LastIn(s, t) <= ledger.horizon[t]]_reclaimVars

(* A pass that is no longer live removes at most the one file whose check  *)
(* it had already passed.                                                  *)
AtMostOneLateRemoval == \A p \in Halves : Cardinality(late[p]) <= 1

(* A file the live pass finds missing is one an earlier pass may have      *)
(* unlinked, so its deletion completes and its segment leaves the ledger:  *)
(* no unlink whose commit was lost is retried for ever.                    *)
MissingIsExpected ==
  \A p \in Halves : live = p => half[p].todo \ files \subseteq half[p].uncertain

(* The pass: types and pins, rows that fit, one late removal at most, and  *)
(* no missing file that would fail a deletion for ever (retain.rs, pass.rs *)
(* and reclaim.rs).                                                        *)
PassInv == ReclaimTypeOK /\ RowsFit /\ AtMostOneLateRemoval /\ MissingIsExpected
=============================================================================
