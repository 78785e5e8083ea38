------------------------------ MODULE WalProof ------------------------------
(***************************************************************************)
(* Proofs about the write-ahead log and its reclamation (modules Wal and   *)
(* Reclaim).  The log, for any frame and segment sizes, any retry budget   *)
(* and any number of frames, segments and crashes:                         *)
(*                                                                         *)
(* A covered frame is safe because of what was durable when the sync       *)
(* returned, and what a crash may take is what is not durable; the         *)
(* invariant keeps the two apart for the frames, the headers and the names *)
(* of the segments.  A torn frame, as long as every rollback succeeded,    *)
(* is the last of the newest segment of a log that does not run.           *)
(***************************************************************************)
EXTENDS Wal, Reclaim, FiniteSetTheorems, WellFoundedInduction, TLAPS

Intact == "rollback" \notin broken

\* Where the frames are: each under its own identity, in a segment that exists.
FramesInv ==
    /\ \A f \in frames : f.id < nextId /\ f.seg >= 1 /\ f.seg <= cur /\ f.got <= f.len
    /\ \A f, g \in frames : f.id = g.id => f = g

\* What is durable of the segments: only the first can lack its header; a name
\* that is not durable is the newest segment's, or that of a first segment
\* which was rotated before any directory fsync, and the fsync is owed.
NamesInv ==
    /\ headed <= cur /\ (headed < cur => cur = 1)
    /\ linked <= cur /\ (linked >= cur - 1 \/ (cur = 2 /\ linked = 0))
    /\ mode \in {"opened", "up"} => cur >= 1
    /\ mode = "opened" => dir_fsync = "PendingOpen"
    /\ mode = "up" /\ linked < cur => dir_fsync # "Clean"
    /\ dir_fsync = "PendingOpen" /\ linked < cur => cur = 1

ClosedInv == \A f \in frames : f.seg < cur => f.id \in durable /\ (Torn(f) => ~ Intact)

\* A torn frame is the last one of the newest segment, and no log that runs has
\* one.
TornInv ==
    Intact => \A f \in frames : Torn(f) =>
        mode # "up" /\ f.seg = cur /\ \A g \in frames : g.seg = cur => g.id <= f.id

\* A covered frame is whole, durable, and in a segment whose header and name are.
CoveredInv ==
    Intact => \A i \in covered : \E f \in frames :
        f.id = i /\ ~ Torn(f) /\ i \in durable /\ f.seg <= headed /\ f.seg <= linked

WalInv ==
    TypeOK /\ FramesInv /\ NamesInv /\ ClosedInv /\ TornInv /\ CoveredInv /\ DeliveredFramesStay
    /\ RecoveryRefusesOnlyBrokenRoots
-----------------------------------------------------------------------------
LEMMA LeastExists ==
    ASSUME NEW S \in SUBSET Nat, S # {}
    PROVE  Min(S) \in S /\ \A y \in S : Min(S) <= y
<1>1. \E x \in S : \A y \in S : x <= y
  <2>1. PICK x \in S : \A y \in S : ~ (<<y, x>> \in OpToRel(<, Nat))
    BY NatLessThanWellFounded, WFMin
  <2>2. ASSUME NEW y \in S PROVE x <= y
    <3>1. ~ (<<y, x>> \in {p \in Nat \X Nat : p[1] < p[2]})
      BY <2>1, Zenon DEF OpToRel
    <3>2. <<y, x>> \in Nat \X Nat /\ <<y, x>>[1] = y /\ <<y, x>>[2] = x
      OBVIOUS
    <3>3. ~ (y < x)
      BY <3>1, <3>2
    <3> QED
      BY <3>3
  <2> QED
    BY <2>2
<1> QED
  BY <1>1 DEF Min

LEMMA BytesOfOne ==
    ASSUME NEW f, f.got \in Nat
    PROVE  Bytes({f}) = f.got
<1> DEFINE Body(g) == [s \in SUBSET {f} |->
             IF s = {} THEN 0 ELSE LET x == CHOOSE x \in s : TRUE IN x.got + g[s \ {x}]]
           h == [s \in SUBSET {f} |-> IF s = {} THEN 0 ELSE f.got]
           it == CHOOSE g : g = Body(g)
<1>1. Bytes({f}) = it[{f}]
  BY DEF Bytes, FoldSet, MapThenFoldSet
<1>2. h = Body(h)
  <2>1. ASSUME NEW s \in SUBSET {f} PROVE h[s] = Body(h)[s]
    <3>1. CASE s = {}
      BY <3>1
    <3>2. CASE s = {f}
      <4>1. (CHOOSE x \in s : TRUE) = f
        BY <3>2
      <4>2. h[s \ {f}] = 0
        BY <3>2
      <4> QED
        BY <3>2, <4>1, <4>2
    <3> QED
      BY <3>1, <3>2
  <2> QED
    BY <2>1
<1>3. it = Body(it)
  BY <1>2
<1> HIDE DEF it
<1>4. it[{}] = 0
  BY <1>3
<1>5. it[{f}] = f.got + it[{}]
  <2>1. (CHOOSE x \in {f} : TRUE) = f
    OBVIOUS
  <2>2. {f} \ {f} = {}
    OBVIOUS
  <2> QED
    BY <1>3, <2>1, <2>2
<1> QED
  BY <1>1, <1>4, <1>5

LEMMA Typed ==
    ASSUME TypeOK
    PROVE  /\ cur \in Nat /\ headed \in Nat /\ linked \in Nat /\ nextId \in Nat /\ crashes \in Nat /\ attempts \in Nat
           /\ durable \subseteq Nat /\ covered \subseteq Nat /\ delivered \subseteq Nat /\ attempts <= Budget
           /\ \A f \in frames : f.id \in Nat /\ f.seg \in Nat /\ f.len \in Nat /\ f.got \in Nat
           /\ Budget \in Nat /\ Budget > 0
<1>1. Budget \in Nat /\ Budget > 0
  BY WalAssumption
<1>2. \A f \in frames : f.id \in Nat /\ f.seg \in Nat /\ f.len \in Nat /\ f.got \in Nat
  BY DEF TypeOK, Frame
<1> QED
  BY <1>1, <1>2 DEF TypeOK

\* What an operation of a running log does to the segments.
Saves ==
    /\ durable \subseteq durable' /\ durable' \subseteq Nat
    /\ cur' # cur => Ids(InSeg(cur)) \subseteq durable'

DiskMoves ==
    /\ cur' \in {cur, cur + 1}
    /\ headed' \in Nat /\ headed <= headed' /\ headed' <= cur' /\ (headed' < cur' => cur' = 1)
    /\ linked' \in Nat /\ linked <= linked' /\ linked' <= cur' /\ (linked' >= cur' - 1 \/ (cur' = 2 /\ linked' = 0))
    /\ linked' < cur' => dir_fsync' # "Clean"
    /\ dir_fsync' = "PendingOpen" /\ linked' < cur' => cur' = 1
    /\ dir_fsync' \in {"Clean", "PendingOpen", "PendingRotation"} /\ attempts' \in 0..Budget

LEMMA RotateMoves ==
    ASSUME WalInv, mode = "up", ~ Terminal, RotateFails \/ RotateSucceeds
    PROVE  Saves /\ DiskMoves
<1>1. /\ cur \in Nat /\ headed \in Nat /\ linked \in Nat /\ attempts \in Nat
      /\ Budget \in Nat /\ Budget > 0 /\ attempts < Budget
      /\ dir_fsync \in {"Clean", "PendingOpen", "PendingRotation"}
  <2>1. TypeOK
    BY DEF WalInv
  <2> QED
    BY <2>1, Typed DEF TypeOK, Terminal
<1>2. /\ headed <= cur /\ (headed < cur => cur = 1) /\ linked <= cur /\ (linked >= cur - 1 \/ (cur = 2 /\ linked = 0))
      /\ cur >= 1 /\ (linked < cur => dir_fsync # "Clean")
      /\ (dir_fsync = "PendingOpen" /\ linked < cur => cur = 1)
  BY DEF WalInv, NamesInv
<1>3. Saves
  <2>1. durable \subseteq Nat /\ Ids(InSeg(cur)) \subseteq Nat
    <3>1. TypeOK
      BY DEF WalInv
    <3> QED
      BY <3>1, Typed DEF Ids, InSeg
  <2>2. (durable' = durable /\ cur' = cur) \/ durable' = durable \cup Ids(InSeg(cur))
    BY DEF RotateFails, OwedFsyncFails, CloseSyncFails, FreshSegmentFails, ParentFsyncFails, RotateSucceeds, CloseSync
  <2> QED
    BY <2>1, <2>2 DEF Saves
<1>4. CASE OwedFsyncFails
  BY <1>1, <1>2, <1>3, <1>4 DEF OwedFsyncFails, Owed, DiskMoves
<1>5. CASE CloseSyncFails
  BY <1>1, <1>2, <1>3, <1>5 DEF CloseSyncFails, Owed, Left, Entry, Owes, DiskMoves
<1>6. CASE FreshSegmentFails
  BY <1>1, <1>2, <1>3, <1>6 DEF FreshSegmentFails, Owed, Left, Entry, Owes, DiskMoves
<1>7. CASE ParentFsyncFails
  BY <1>1, <1>2, <1>3, <1>7 DEF ParentFsyncFails, OwedAfterRename, Owed, Left, Entry, DiskMoves
<1>8. CASE RotateSucceeds
  BY <1>1, <1>2, <1>3, <1>8 DEF RotateSucceeds, DiskMoves
<1> QED
  BY <1>4, <1>5, <1>6, <1>7, <1>8 DEF RotateFails

\* What it does to the frames: nothing, or it appends one.
Appends ==
    \/ UNCHANGED <<frames, nextId, broken>>
    \/ \E n \in Sizes : \E got \in 1..n :
         /\ frames' = frames \cup {[id |-> nextId, seg |-> cur', len |-> n, got |-> got]}
         /\ nextId' = nextId + 1 /\ broken' = broken \cup (IF got < n THEN {"rollback"} ELSE {})

\* And to the offsets returned.
Covers ==
    \/ covered' = covered
    \/ /\ covered' = covered \cup Ids({f \in frames : ~ Torn(f)}) /\ UNCHANGED <<frames, broken, cur>>
       /\ headed' = cur /\ linked' = cur /\ Ids(InSeg(cur)) \subseteq durable'

LEMMA RunMoves ==
    ASSUME WalInv, (\E n \in Sizes : WalAppend(n)) \/ Sync \/ RotateDiscretionary
    PROVE  mode = "up" /\ Saves /\ DiskMoves /\ Appends /\ Covers /\ UNCHANGED <<mode, delivered, crashes>>
<1>1. /\ cur \in Nat /\ headed \in Nat /\ linked \in Nat /\ attempts \in Nat
      /\ Budget \in Nat /\ Budget > 0 /\ attempts <= Budget
      /\ dir_fsync \in {"Clean", "PendingOpen", "PendingRotation"}
  <2>1. TypeOK
    BY DEF WalInv
  <2> QED
    BY <2>1, Typed DEF TypeOK
<1>a. durable \subseteq Nat /\ Ids(InSeg(cur)) \subseteq Nat
  <2>1. TypeOK
    BY DEF WalInv
  <2> QED
    BY <2>1, Typed DEF Ids, InSeg
<1>2. ASSUME mode = "up"
      PROVE  /\ headed <= cur /\ (headed < cur => cur = 1) /\ linked <= cur /\ (linked >= cur - 1 \/ (cur = 2 /\ linked = 0))
             /\ cur >= 1 /\ (linked < cur => dir_fsync # "Clean")
             /\ (dir_fsync = "PendingOpen" /\ linked < cur => cur = 1)
  BY <1>2 DEF WalInv, NamesInv
<1>3. ASSUME NEW n \in Sizes, WalAppend(n)
      PROVE  mode = "up" /\ Saves /\ DiskMoves /\ Appends /\ Covers /\ UNCHANGED <<mode, delivered, crashes>>
  <2>1. mode = "up" /\ ~ Terminal /\ n \in Nat /\ n > 0
    BY <1>3, WalAssumption DEF WalAppend, AppendReady
  <2>2. Saves /\ DiskMoves
    <3>1. CASE UNCHANGED <<cur, durable, headed, linked, dir_fsync, attempts>>
      <4>1. Saves
        BY <1>a, <3>1 DEF Saves
      <4> QED
        BY <1>1, <1>2, <2>1, <3>1, <4>1 DEF DiskMoves
    <3>2. CASE RotateFails \/ RotateSucceeds
      BY <2>1, <3>2, RotateMoves
    <3> QED
      BY <1>3, <3>1, <3>2 DEF WalAppend
  <2>3. ASSUME WriteOutcome(n, cur')
        PROVE  Appends /\ Covers /\ UNCHANGED <<mode, delivered, crashes>>
    <3>1. n \in 1..n /\ (1..(n - 1)) \subseteq 1..n
      BY <2>1
    <3>2. ASSUME NEW got \in 1..n, Write(n, got, cur')
          PROVE  Appends /\ Covers /\ UNCHANGED <<mode, delivered, crashes>>
      BY <3>2 DEF Write, Appends, Covers
    <3>3. CASE UNCHANGED <<mode, frames, nextId, covered, delivered, faultVars>>
      BY <3>3 DEF Appends, Covers, faultVars
    <3> QED
      BY <2>3, <3>1, <3>2, <3>3 DEF WriteOutcome
  <2>4. CASE RotateSucceeds /\ WriteOutcome(n, cur + 1)
    BY <2>1, <2>2, <2>3, <2>4 DEF RotateSucceeds
  <2>5. CASE WriteOutcome(n, cur) /\ UNCHANGED cur
    BY <2>1, <2>2, <2>3, <2>5
  <2>6. CASE UNCHANGED <<mode, frames, nextId, covered, delivered, faultVars>>
    BY <2>1, <2>2, <2>6 DEF Appends, Covers, faultVars
  <2> QED
    BY <1>3, <2>4, <2>5, <2>6 DEF WalAppend
<1>4. CASE Sync
  <2>1. mode = "up" /\ UNCHANGED <<mode, frames, cur, nextId, delivered, faultVars>>
    BY <1>4 DEF Sync
  <2>2. Appends /\ UNCHANGED <<mode, delivered, crashes>>
    BY <2>1 DEF Appends, faultVars
  <2>3. Saves
    BY <1>a, <1>4 DEF Sync, Saves
  <2>4. DiskMoves
    <3>1. headed' = cur /\ cur' = cur
      BY <1>4 DEF Sync
    <3>2. CASE dir_fsync = "Clean" /\ attempts' = SyncRefill /\ UNCHANGED <<linked, dir_fsync>>
      BY <1>1, <1>2, <2>1, <3>1, <3>2 DEF SyncRefill, Owed, DiskMoves
    <3>3. CASE linked' = cur /\ dir_fsync' = "Clean" /\ attempts' = SyncRefill
      BY <1>1, <1>2, <2>1, <3>1, <3>3 DEF SyncRefill, DiskMoves
    <3>4. CASE SyncAllowed /\ attempts' = (IF Owed THEN attempts + 1 ELSE attempts) /\ UNCHANGED <<linked, dir_fsync>>
      BY <1>1, <1>2, <2>1, <3>1, <3>4 DEF SyncAllowed, Terminal, DiskMoves
    <3> QED
      BY <1>4, <3>2, <3>3, <3>4 DEF Sync
  <2>5. Covers
    <3>1. headed' = cur /\ Ids(InSeg(cur)) \subseteq durable' /\ UNCHANGED <<frames, broken, cur>>
      BY <1>4 DEF Sync, faultVars
    <3>2. covered' = covered \/ (SyncReturns /\ linked' = cur)
      BY <1>1, <1>2, <1>4, <2>1 DEF Sync
    <3> QED
      BY <3>1, <3>2 DEF SyncReturns, Covers
  <2> QED
    BY <2>1, <2>2, <2>3, <2>4, <2>5
<1>5. CASE RotateDiscretionary
  <2>1. mode = "up" /\ ~ Terminal /\ UNCHANGED <<mode, frames, nextId, covered, delivered, faultVars>>
    BY <1>5 DEF RotateDiscretionary
  <2>2. CASE OwedFsyncFails \/ RotateFails \/ RotateSucceeds
    <3>1. Saves /\ DiskMoves
      BY <2>1, <2>2, RotateMoves DEF RotateFails
    <3> QED
      BY <2>1, <3>1 DEF Appends, Covers, faultVars
  <2>3. CASE /\ linked' = cur /\ dir_fsync' = "Clean" /\ attempts' = 0 /\ UNCHANGED <<cur, durable, headed>>
    <3>1. DiskMoves
      BY <1>1, <1>2, <2>1, <2>3 DEF DiskMoves
    <3>2. Saves
      BY <1>a, <2>3 DEF Saves
    <3> QED
      BY <2>1, <3>1, <3>2 DEF Appends, Covers, faultVars
  <2> QED
    BY <1>5, <2>2, <2>3 DEF RotateDiscretionary
<1> QED
  BY <1>3, <1>4, <1>5

Added(f) ==
    /\ f.id = nextId /\ f.seg = cur' /\ f.got <= f.len /\ f.id < nextId'
    /\ Torn(f) => "rollback" \in broken'
    /\ \A g \in frames' : g.id = nextId => g = f

\* The frames after an append are the old ones and at most a new one, in the
\* newest segment; a torn one breaks the log.
LEMMA AppendedFrames ==
    ASSUME WalInv, DiskMoves, Appends
    PROVE  /\ frames \subseteq frames' /\ nextId' \in Nat /\ nextId <= nextId' /\ broken \subseteq broken'
           /\ broken' \subseteq {"rollback", "header"} /\ frames' \subseteq Frame
           /\ \A f \in frames' : f \in frames \/ Added(f)
<1>1. cur \in Nat /\ nextId \in Nat /\ TypeOK /\ frames \subseteq Frame /\ broken \subseteq {"rollback", "header"}
  <2>1. TypeOK
    BY DEF WalInv
  <2> QED
    BY <2>1, Typed DEF TypeOK
<1>2. CASE UNCHANGED <<frames, nextId, broken>>
  BY <1>1, <1>2
<1>3. ASSUME NEW n \in Sizes, NEW got \in 1..n,
             frames' = frames \cup {[id |-> nextId, seg |-> cur', len |-> n, got |-> got]},
             nextId' = nextId + 1, broken' = broken \cup (IF got < n THEN {"rollback"} ELSE {})
      PROVE  /\ frames \subseteq frames' /\ nextId' \in Nat /\ nextId <= nextId' /\ broken \subseteq broken'
             /\ broken' \subseteq {"rollback", "header"} /\ frames' \subseteq Frame
             /\ \A f \in frames' : f \in frames \/ Added(f)
  <2>1. n \in Nat /\ got \in Nat /\ got <= n /\ cur' \in Nat
    BY <1>1, <1>3, WalAssumption DEF DiskMoves
  <2>2. PICK x : x = [id |-> nextId, seg |-> cur', len |-> n, got |-> got]
    OBVIOUS
  <2>3. /\ x.id = nextId /\ x.seg = cur' /\ x.len = n /\ x.got = got /\ frames' = frames \cup {x}
        /\ x \in Frame
    BY <1>1, <1>3, <2>1, <2>2 DEF Frame
  <2>4. \A g \in frames : g.id # nextId
    <3>1. \A g \in frames : g.id \in Nat /\ g.id < nextId
      BY <1>1, Typed DEF WalInv, FramesInv
    <3> QED
      BY <1>1, <3>1
  <2>5. Torn(x) => "rollback" \in broken'
    BY <1>3, <2>3 DEF Torn
  <2>6. broken \subseteq broken' /\ broken' \subseteq {"rollback", "header"}
    BY <1>1, <1>3
  <2>7. nextId' \in Nat /\ nextId <= nextId' /\ x.id < nextId' /\ x.got <= x.len
    BY <1>1, <1>3, <2>1, <2>3
  <2>8. Added(x)
    BY <2>3, <2>4, <2>5, <2>7 DEF Added
  <2> QED
    BY <1>1, <2>3, <2>6, <2>7, <2>8
<1> QED
  BY <1>2, <1>3 DEF Appends

LEMMA RunStep ==
    ASSUME WalInv, (\E n \in Sizes : WalAppend(n)) \/ Sync \/ RotateDiscretionary
    PROVE  WalInv'
<1>1. mode = "up" /\ Saves /\ DiskMoves /\ Appends /\ Covers /\ UNCHANGED <<mode, delivered, crashes>>
  BY RunMoves
<1>2. /\ frames \subseteq frames' /\ nextId' \in Nat /\ nextId <= nextId' /\ broken \subseteq broken'
      /\ broken' \subseteq {"rollback", "header"} /\ frames' \subseteq Frame
      /\ \A f \in frames' : f \in frames \/ Added(f)
  BY <1>1, AppendedFrames
<1>3. /\ TypeOK /\ cur \in Nat /\ headed \in Nat /\ linked \in Nat /\ nextId \in Nat /\ covered \subseteq Nat /\ durable \subseteq Nat
      /\ \A f \in frames : f.id \in Nat /\ f.seg \in Nat
  <2>1. TypeOK
    BY DEF WalInv
  <2> QED
    BY <2>1, Typed
<1>4. cur' \in Nat /\ cur <= cur' /\ cur >= 1
  BY <1>1, <1>3 DEF DiskMoves, WalInv, NamesInv
<1>5. TypeOK'
  <2>1. covered' \subseteq Nat
    BY <1>1, <1>3 DEF Covers, Ids
  <2>2. headed' \in Nat /\ linked' \in Nat /\ attempts' \in 0..Budget /\ dir_fsync' \in {"Clean", "PendingOpen", "PendingRotation"}
    BY <1>1 DEF DiskMoves
  <2>3. durable' \subseteq Nat
    BY <1>1 DEF Saves
  <2> QED
    BY <1>1, <1>2, <1>3, <1>4, <2>1, <2>2, <2>3 DEF TypeOK
<1>6. FramesInv'
  <2>1. ASSUME NEW f \in frames' PROVE f.id < nextId' /\ f.seg >= 1 /\ f.seg <= cur' /\ f.got <= f.len
    BY <1>2, <1>3, <1>4, <2>1 DEF Added, WalInv, FramesInv
  <2>2. ASSUME NEW f \in frames', NEW g \in frames', f.id = g.id PROVE f = g
    BY <1>2, <1>3, <2>2 DEF Added, WalInv, FramesInv
  <2> QED
    BY <2>1, <2>2 DEF FramesInv
<1>7. NamesInv'
  <2>1. mode' = "up" /\ cur' >= 1
    BY <1>1, <1>3, <1>4
  <2>2. /\ headed' <= cur' /\ (headed' < cur' => cur' = 1) /\ linked' <= cur'
        /\ (linked' >= cur' - 1 \/ (cur' = 2 /\ linked' = 0))
        /\ (linked' < cur' => dir_fsync' # "Clean")
        /\ (dir_fsync' = "PendingOpen" /\ linked' < cur' => cur' = 1)
    BY <1>1 DEF DiskMoves
  <2> QED
    BY <2>1, <2>2 DEF NamesInv
<1>8. ClosedInv'
  <2>1. ASSUME NEW f \in frames', f.seg < cur' PROVE f.id \in durable' /\ (Torn(f) => "rollback" \in broken')
    <3>1. f \in frames
      BY <1>2, <1>4, <2>1 DEF Added
    <3>2. CASE f.seg < cur
      BY <1>1, <1>2, <3>1, <3>2 DEF WalInv, ClosedInv, Saves, Intact
    <3>3. CASE f.seg = cur
      <4>0. cur' # cur
        BY <1>4, <1>3, <2>1, <3>3
      <4>1. cur' # cur /\ f.id \in Ids(InSeg(cur))
        BY <3>1, <3>3, <4>0 DEF Ids, InSeg
      <4>2. Torn(f) => "rollback" \in broken
        BY <1>1, <3>1 DEF WalInv, TornInv, Intact
      <4> QED
        BY <1>1, <1>2, <4>1, <4>2 DEF Saves
    <3>4. f.seg <= cur
      BY <3>1 DEF WalInv, FramesInv
    <3> QED
      BY <1>3, <3>1, <3>2, <3>3, <3>4
  <2> QED
    BY <2>1 DEF ClosedInv, Intact, Torn
<1>9. TornInv'
  <2>1. ASSUME NEW f \in frames', Torn(f) PROVE "rollback" \in broken'
    BY <1>1, <1>2, <2>1 DEF Added, WalInv, TornInv, Intact
  <2> QED
    BY <2>1 DEF TornInv, Intact, Torn
<1>10. CoveredInv'
  <2>1. ASSUME "rollback" \notin broken', NEW i \in covered'
        PROVE  \E f \in frames' : f.id = i /\ ~ Torn(f) /\ i \in durable' /\ f.seg <= headed' /\ f.seg <= linked'
    <3>1. CASE i \in covered
      <4>1. PICK f \in frames : f.id = i /\ ~ Torn(f) /\ i \in durable /\ f.seg <= headed /\ f.seg <= linked
        BY <1>2, <2>1, <3>1 DEF WalInv, CoveredInv, Intact
      <4>2. f.seg <= headed' /\ f.seg <= linked'
        BY <1>1, <1>3, <4>1 DEF DiskMoves
      <4> QED
        BY <1>1, <1>2, <4>1, <4>2 DEF Saves
    <3>2. CASE i \notin covered
      <4>1. /\ i \in Ids({f \in frames : ~ Torn(f)}) /\ headed' = cur /\ linked' = cur
            /\ Ids(InSeg(cur)) \subseteq durable'
        BY <1>1, <2>1, <3>2 DEF Covers
      <4>2. PICK f \in frames : f.id = i /\ ~ Torn(f)
        BY <4>1 DEF Ids
      <4>3. f.seg <= cur
        BY DEF WalInv, FramesInv
      <4>4. i \in durable'
        <5>1. CASE f.seg = cur
          BY <4>1, <4>2, <5>1 DEF Ids, InSeg
        <5>2. CASE f.seg # cur
          BY <1>1, <1>3, <4>2, <4>3, <5>2 DEF WalInv, ClosedInv, Saves
        <5> QED
          BY <5>1, <5>2
      <4> QED
        BY <1>2, <4>1, <4>2, <4>3, <4>4
    <3> QED
      BY <3>1, <3>2
  <2> QED
    BY <2>1 DEF CoveredInv, Intact, Torn
<1>11. DeliveredFramesStay'
  BY <1>1, <1>2 DEF WalInv, DeliveredFramesStay, Torn
<1>12. RecoveryRefusesOnlyBrokenRoots'
  BY <1>1 DEF RecoveryRefusesOnlyBrokenRoots
<1> QED
  BY <1>5, <1>6, <1>7, <1>8, <1>9, <1>10, <1>11, <1>12 DEF WalInv

LEMMA KillStep ==
    ASSUME WalInv, Kill
    PROVE  WalInv'
<1>1. /\ mode' = "down" /\ crashes' = crashes + 1 /\ dir_fsync' = "Clean" /\ attempts' = 0
      /\ UNCHANGED <<covered, delivered, broken, frames, cur, durable, headed, linked, nextId>>
  BY DEF Kill, Down
<1>2. TypeOK /\ crashes \in Nat /\ Budget \in Nat
  <2>1. TypeOK
    BY DEF WalInv
  <2> QED
    BY <2>1, Typed
<1>3. TypeOK'
  <2>1. crashes' \in Nat /\ attempts' \in 0..Budget
    BY <1>1, <1>2
  <2> QED
    BY <1>1, <1>2, <2>1 DEF TypeOK, Frame
<1>4. FramesInv'
  BY <1>1 DEF WalInv, FramesInv
<1>5. NamesInv'
  BY <1>1 DEF WalInv, NamesInv
<1>6. ClosedInv' /\ CoveredInv'
  BY <1>1 DEF WalInv, ClosedInv, CoveredInv, Torn, Intact
<1>7. TornInv'
  BY <1>1 DEF WalInv, TornInv, Torn, Intact
<1>8. DeliveredFramesStay' /\ RecoveryRefusesOnlyBrokenRoots'
  BY <1>1 DEF DeliveredFramesStay, RecoveryRefusesOnlyBrokenRoots
<1> QED
  BY <1>3, <1>4, <1>5, <1>6, <1>7, <1>8 DEF WalInv

LEMMA KillInAppendStep ==
    ASSUME WalInv, NEW n \in Sizes, NEW got \in 1..(n - 1), KillInAppend(n, got)
    PROVE  WalInv'
<1>1. /\ mode = "up" /\ mode' = "down" /\ crashes' = crashes + 1 /\ dir_fsync' = "Clean" /\ attempts' = 0
      /\ UNCHANGED <<covered, delivered, broken, cur, durable, headed, linked>>
      /\ frames' = frames \cup {[id |-> nextId, seg |-> cur, len |-> n, got |-> got]}
      /\ nextId' = nextId + 1
  BY DEF KillInAppend, AppendReady, Down
<1>2. /\ TypeOK /\ crashes \in Nat /\ Budget \in Nat /\ cur \in Nat /\ nextId \in Nat
      /\ \A f \in frames : f.id \in Nat /\ f.seg \in Nat
  <2>1. TypeOK
    BY DEF WalInv
  <2> QED
    BY <2>1, Typed
<1>3. n \in Nat /\ got \in Nat /\ got < n
  BY WalAssumption
<1>4. PICK x : x = [id |-> nextId, seg |-> cur, len |-> n, got |-> got]
  OBVIOUS
<1>5. /\ x.id = nextId /\ x.seg = cur /\ x.len = n /\ x.got = got /\ frames' = frames \cup {x}
      /\ x \in Frame
  BY <1>1, <1>2, <1>3, <1>4 DEF Frame
<1>6. cur >= 1 /\ \A g \in frames : g.id < nextId /\ g.seg >= 1 /\ g.seg <= cur /\ g.got <= g.len
  BY <1>1 DEF WalInv, FramesInv, NamesInv
<1>7. TypeOK'
  <2>1. crashes' \in Nat /\ attempts' \in 0..Budget /\ nextId' \in Nat
    BY <1>1, <1>2
  <2> QED
    BY <1>1, <1>2, <1>5, <2>1 DEF TypeOK
<1>8. FramesInv'
  <2>1. ASSUME NEW f \in frames' PROVE f.id < nextId' /\ f.seg >= 1 /\ f.seg <= cur' /\ f.got <= f.len
    <3>1. CASE f = x
      BY <1>1, <1>2, <1>3, <1>5, <1>6, <3>1
    <3>2. CASE f \in frames
      BY <1>1, <1>2, <1>6, <3>2
    <3> QED
      BY <1>5, <2>1, <3>1, <3>2
  <2>2. ASSUME NEW f \in frames', NEW g \in frames', f.id = g.id PROVE f = g
    <3>1. \A h \in frames : h.id # x.id
      BY <1>2, <1>5, <1>6
    <3>2. \A h, k \in frames : h.id = k.id => h = k
      BY DEF WalInv, FramesInv
    <3> QED
      BY <1>5, <2>2, <3>1, <3>2
  <2> QED
    BY <2>1, <2>2 DEF FramesInv
<1>9. NamesInv'
  BY <1>1 DEF WalInv, NamesInv
<1>10. ClosedInv'
  <2>1. ASSUME NEW f \in frames', f.seg < cur' PROVE f \in frames
    BY <1>1, <1>2, <1>5, <2>1
  <2> QED
    BY <1>1, <2>1 DEF WalInv, ClosedInv, Torn, Intact
<1>11. TornInv'
  <2>1. ASSUME Intact', NEW f \in frames', Torn(f)
        PROVE  f.seg = cur' /\ \A g \in frames' : g.seg = cur' => g.id <= f.id
    <3>1. f = x
      BY <1>1, <1>5, <2>1 DEF WalInv, TornInv, Intact
    <3>2. \A g \in frames' : g.id <= x.id
      BY <1>2, <1>5, <1>6
    <3> QED
      BY <1>1, <1>5, <3>1, <3>2
  <2> QED
    BY <1>1, <2>1 DEF TornInv, Torn
<1>12. CoveredInv'
  BY <1>1, <1>5 DEF WalInv, CoveredInv, Torn, Intact
<1>13. DeliveredFramesStay' /\ RecoveryRefusesOnlyBrokenRoots'
  BY <1>1 DEF DeliveredFramesStay, RecoveryRefusesOnlyBrokenRoots
<1> QED
  BY <1>7, <1>8, <1>9, <1>10, <1>11, <1>12, <1>13 DEF WalInv

\* The newest name left once the power has failed: no durable name is gone.
LEMMA NamesLeft ==
    ASSUME NEW c \in Nat, NEW l \in Nat, l <= c, l >= c - 1 \/ (c = 2 /\ l = 0),
           NEW gone \in SUBSET ((l + 1)..c)
    PROVE  LET m == Max(0..c \ gone)
           IN  m \in Nat /\ l <= m /\ m <= c /\ \A s \in Nat : s <= c /\ s \notin gone => s <= m
<1> DEFINE S == 0..c \ gone
           m == Max(S)
<1>1. l \in S
  OBVIOUS
<1>2. \E x \in S : \A y \in S : x >= y
  <2>1. CASE c \notin gone
    BY <2>1
  <2>2. CASE c \in gone /\ l >= c - 1
    <3>1. c - 1 \in S /\ \A y \in S : c - 1 >= y
      BY <2>2
    <3> QED
      BY <3>1
  <2>3. CASE c = 2 /\ l = 0 /\ 2 \in gone /\ 1 \notin gone
    <3>1. 1 \in S /\ \A y \in S : 1 >= y
      BY <2>3
    <3> QED
      BY <3>1
  <2>4. CASE c = 2 /\ l = 0 /\ 2 \in gone /\ 1 \in gone
    <3>1. 0 \in S /\ \A y \in S : 0 >= y
      BY <2>4
    <3> QED
      BY <3>1
  <2> QED
    BY <2>1, <2>2, <2>3, <2>4
<1>3. m \in S /\ \A y \in S : m >= y
  BY <1>2 DEF Max
<1> QED
  BY <1>1, <1>3

\* What is left of a frame that was being lost.
CutFrom(f, g) ==
    /\ f.id = g.id /\ f.seg = g.seg /\ f.len = g.len /\ f.got \in Nat /\ f.got < g.got
    /\ f \in Frame

LEMMA WhatIsCut ==
    ASSUME TypeOK, NEW L, NEW f \in CutFrames(L)
    PROVE  \E g \in frames : g.id \in L /\ CutFrom(f, g)
<1>1. PICK p \in frames \X (1..SegmentSize) :
        f = [p[1] EXCEPT !.got = p[2]] /\ p[1].id \in L /\ p[2] < p[1].got
  BY DEF CutFrames
<1>2. PICK g \in frames, b \in 1..SegmentSize : p = <<g, b>>
  BY <1>1
<1>3. b \in Nat /\ f = [g EXCEPT !.got = b] /\ g.id \in L /\ b < g.got
  BY <1>1, <1>2, WalAssumption
<1>4. g \in Frame
  BY DEF TypeOK
<1>5. CutFrom(f, g)
  BY <1>3, <1>4 DEF CutFrom, Frame
<1> QED
  BY <1>3, <1>5

LEMMA PowerLossStep ==
    ASSUME WalInv, PowerLoss
    PROVE  WalInv'
<1>1. PICK L \in SUBSET Ids(frames), gone \in SUBSET ((linked + 1)..cur) :
        /\ MayLose(L)
        /\ \E C \in {{}} \cup {{f} : f \in CutFrames(L)} :
             /\ frames' = {f \in {g \in frames : g.id \notin L} \cup C : f.seg \notin gone}
             /\ durable' = Ids(frames')
        /\ cur' = Max(0..cur \ gone)
        /\ headed' = cur' /\ linked' = cur'
  BY DEF PowerLoss
<1>2. PICK C \in {{}} \cup {{f} : f \in CutFrames(L)} :
             /\ frames' = {f \in {g \in frames : g.id \notin L} \cup C : f.seg \notin gone}
             /\ durable' = Ids(frames')
  BY <1>1
<1>3. /\ mode' = "down" /\ crashes' = crashes + 1 /\ dir_fsync' = "Clean" /\ attempts' = 0
      /\ UNCHANGED <<covered, delivered, broken, nextId>>
  BY DEF PowerLoss, Down
<1>4. /\ TypeOK /\ crashes \in Nat /\ Budget \in Nat /\ cur \in Nat /\ linked \in Nat /\ nextId \in Nat
      /\ \A f \in frames : f.id \in Nat /\ f.seg \in Nat /\ f.len \in Nat /\ f.got \in Nat
      /\ frames \subseteq Frame
  <2>1. TypeOK
    BY DEF WalInv
  <2> QED
    BY <2>1, Typed DEF TypeOK
<1>5. linked <= cur /\ (linked >= cur - 1 \/ (cur = 2 /\ linked = 0))
  BY DEF WalInv, NamesInv
<1>6. /\ cur' \in Nat /\ linked <= cur' /\ cur' <= cur
      /\ \A s \in Nat : s <= cur /\ s \notin gone => s <= cur'
  BY <1>1, <1>4, <1>5, NamesLeft
<1>7. \A f, g \in C : f = g
  BY <1>2
<1>8. ASSUME NEW f \in C PROVE \E g \in frames : g.id \in L /\ CutFrom(f, g)
  <2>1. f \in CutFrames(L)
    BY <1>2, <1>8
  <2> QED
    BY <1>4, <2>1, WhatIsCut
<1>9. \A f \in frames : f.id < nextId /\ f.seg >= 1 /\ f.seg <= cur /\ f.got <= f.len
  BY DEF WalInv, FramesInv
<1>10. \A f, g \in frames : f.id = g.id => f = g
  BY DEF WalInv, FramesInv
<1>11. \A f \in frames : f.id \in L => f.id \notin durable /\ \A g \in frames : g.seg = f.seg /\ g.id > f.id => g.id \in L
  BY <1>1 DEF MayLose, InSeg
<1>12. \A f \in frames' : f.seg \notin gone /\ ((f \in frames /\ f.id \notin L) \/ f \in C)
  BY <1>2
<1>13. \A f \in frames' : f.id < nextId /\ f.seg \in Nat /\ f.id \in Nat /\ f.seg >= 1 /\ f.seg <= cur' /\ f.got <= f.len /\ f \in Frame
  <2>1. ASSUME NEW f \in frames' PROVE f.id < nextId /\ f.seg \in Nat /\ f.id \in Nat /\ f.seg >= 1 /\ f.seg <= cur /\ f.got <= f.len /\ f \in Frame
    <3>1. CASE f \in frames
      BY <1>4, <1>9, <3>1
    <3>2. CASE f \in C
      <4>1. PICK g \in frames : CutFrom(f, g)
        BY <1>8, <3>2
      <4> QED
        BY <1>4, <1>9, <4>1 DEF CutFrom
    <3> QED
      BY <1>12, <3>1, <3>2
  <2> QED
    BY <1>6, <1>12, <2>1
<1>14. TypeOK'
  <2>1. crashes' \in Nat /\ attempts' \in 0..Budget
    BY <1>3, <1>4
  <2>2. durable' \subseteq Nat /\ frames' \subseteq Frame
    BY <1>2, <1>13 DEF Ids
  <2> QED
    BY <1>1, <1>3, <1>4, <1>6, <2>1, <2>2 DEF TypeOK
<1>15. FramesInv'
  <2>1. ASSUME NEW f \in frames', NEW g \in frames', f.id = g.id PROVE f = g
    <3>1. \A c \in C : c.id \in L
      BY <1>8 DEF CutFrom
    <3> QED
      BY <1>7, <1>10, <1>12, <2>1, <3>1
  <2> QED
    BY <1>3, <1>13, <2>1 DEF FramesInv
<1>16. NamesInv'
  <2>1. headed' <= cur' /\ linked' <= cur' /\ linked' >= cur' - 1 /\ ~ (headed' < cur') /\ ~ (linked' < cur')
    BY <1>1, <1>6
  <2> QED
    BY <1>3, <2>1 DEF NamesInv
<1>17. \A f \in C : \E g \in frames : CutFrom(f, g) /\ g.id \in L /\ g.seg = cur
  <2>1. ASSUME NEW f \in C, NEW g \in frames, g.id \in L, CutFrom(f, g) PROVE g.seg = cur
    <3>1. g.id \notin durable
      BY <1>11, <2>1
    <3>2. ~ (g.seg < cur)
      BY <3>1 DEF WalInv, ClosedInv
    <3> QED
      BY <1>4, <1>9, <3>2
  <2> QED
    BY <1>8, <2>1
<1>18. ClosedInv'
  <2>1. ASSUME NEW f \in frames', f.seg < cur' PROVE f.id \in durable' /\ (Torn(f) => ~ Intact')
    <3>1. f \notin C
      BY <1>4, <1>6, <1>13, <1>17, <2>1 DEF CutFrom
    <3>2. f \in frames /\ f.seg < cur
      BY <1>4, <1>6, <1>12, <2>1, <3>1
    <3>3. Torn(f) => ~ Intact'
      BY <1>3, <3>2 DEF WalInv, ClosedInv, Intact
    <3> QED
      BY <1>2, <3>3 DEF Ids
  <2> QED
    BY <2>1 DEF ClosedInv, Torn
<1>19. TornInv'
  <2>1. ASSUME Intact', NEW f \in frames', Torn(f) PROVE f.seg = cur' /\ \A g \in frames' : g.seg = cur' => g.id <= f.id
    <3>0. Intact
      BY <1>3, <2>1 DEF Intact
    <3>1. f.seg = cur'
      <4>1. ~ (f.seg < cur')
        BY <1>18, <2>1 DEF ClosedInv, Torn
      <4> QED
        BY <1>6, <1>13, <4>1
    <3>2. CASE f \in frames
      <4>1. f.seg = cur /\ \A g \in frames : g.seg = cur => g.id <= f.id
        BY <2>1, <3>0, <3>2 DEF WalInv, TornInv
      <4>2. ASSUME NEW g \in frames', g.seg = cur' PROVE g.id <= f.id
        <5>1. CASE g \in frames
          BY <3>1, <4>1, <4>2, <5>1
        <5>2. CASE g \in C
          <6>1. PICK h \in frames : CutFrom(g, h)
            BY <1>8, <5>2
          <6> QED
            BY <3>1, <4>1, <4>2, <6>1 DEF CutFrom
        <5> QED
          BY <1>12, <4>2, <5>1, <5>2
      <4> QED
        BY <3>1, <4>2
    <3>3. CASE f \in C
      <4>1. PICK h \in frames : CutFrom(f, h) /\ h.id \in L /\ h.seg = cur
        BY <1>17, <3>3
      <4>2. ASSUME NEW g \in frames', g.seg = cur' PROVE g.id <= f.id
        <5>1. CASE g \in frames /\ g.id \notin L
          <6>1. ~ (g.id > h.id)
            BY <1>11, <3>1, <4>1, <4>2, <5>1 DEF CutFrom
          <6> QED
            BY <1>4, <4>1, <5>1, <6>1 DEF CutFrom
        <5>2. CASE g \in C
          <6>1. g = f
            BY <1>7, <3>3, <5>2
          <6> QED
            BY <1>13, <6>1
        <5> QED
          BY <1>12, <4>2, <5>1, <5>2
      <4> QED
        BY <3>1, <4>2
    <3> QED
      BY <1>12, <2>1, <3>2, <3>3
  <2> QED
    BY <1>3, <2>1 DEF TornInv, Torn
<1>20. CoveredInv'
  <2>1. ASSUME Intact', NEW i \in covered'
        PROVE  \E f \in frames' : f.id = i /\ ~ Torn(f) /\ i \in durable' /\ f.seg <= headed' /\ f.seg <= linked'
    <3>1. PICK f \in frames : f.id = i /\ ~ Torn(f) /\ i \in durable /\ f.seg <= headed /\ f.seg <= linked
      BY <1>3, <2>1 DEF WalInv, CoveredInv, Intact
    <3>2. f.id \notin L
      BY <1>11, <3>1
    <3>3. f.seg \notin gone
      BY <1>1, <1>4, <3>1
    <3>4. f \in frames'
      BY <1>2, <3>2, <3>3
    <3>5. f.seg <= cur'
      BY <1>13, <3>4
    <3> QED
      BY <1>1, <1>2, <3>1, <3>4, <3>5 DEF Ids
  <2> QED
    BY <2>1 DEF CoveredInv, Torn
<1>21. DeliveredFramesStay' /\ RecoveryRefusesOnlyBrokenRoots'
  BY <1>3 DEF DeliveredFramesStay, RecoveryRefusesOnlyBrokenRoots
<1> QED
  BY <1>14, <1>15, <1>16, <1>18, <1>19, <1>20, <1>21 DEF WalInv

LEMMA TearHeaderStep ==
    ASSUME WalInv, PowerLossTearsHeader
    PROVE  WalInv'
<1>1. /\ headed < cur /\ mode' = "refused" /\ crashes' = crashes + 1
      /\ dir_fsync' = "Clean" /\ attempts' = 0 /\ mode \in {"opened", "up"}
      /\ frames' = {f \in frames : f.seg < cur} /\ broken' = broken \cup {"header"}
      /\ UNCHANGED <<covered, delivered, cur, durable, headed, linked, nextId>>
  BY DEF PowerLossTearsHeader
<1>2. /\ TypeOK /\ crashes \in Nat /\ Budget \in Nat /\ cur \in Nat /\ headed \in Nat
      /\ \A f \in frames : f.id \in Nat /\ f.seg \in Nat
  <2>1. TypeOK
    BY DEF WalInv
  <2> QED
    BY <2>1, Typed
<1>3. cur = 1 /\ headed = 0
  BY <1>1, <1>2 DEF WalInv, NamesInv
<1>4. frames' = {} /\ \A f \in frames : f.seg >= 1
  <2>1. \A f \in frames : f.seg >= 1
    BY DEF WalInv, FramesInv
  <2> QED
    BY <1>1, <1>2, <1>3, <2>1
<1>5. TypeOK'
  <2>1. crashes' \in Nat /\ attempts' \in 0..Budget
    BY <1>1, <1>2
  <2> QED
    BY <1>1, <1>2, <1>4, <2>1 DEF TypeOK
<1>6. FramesInv' /\ ClosedInv' /\ TornInv'
  BY <1>4 DEF FramesInv, ClosedInv, TornInv
<1>7. NamesInv'
  BY <1>1 DEF WalInv, NamesInv
<1>8. CoveredInv'
  <2>1. ASSUME Intact, NEW i \in covered PROVE FALSE
    <3>1. PICK f \in frames : f.seg <= headed
      BY <2>1 DEF WalInv, CoveredInv
    <3> QED
      BY <1>2, <1>3, <1>4, <3>1
  <2> QED
    BY <1>1, <2>1 DEF CoveredInv, Intact
<1>9. DeliveredFramesStay' /\ RecoveryRefusesOnlyBrokenRoots'
  BY <1>1, <1>3 DEF DeliveredFramesStay, RecoveryRefusesOnlyBrokenRoots
<1> QED
  BY <1>5, <1>6, <1>7, <1>8, <1>9 DEF WalInv

LEMMA OpenStep ==
    ASSUME WalInv, Open
    PROVE  WalInv'
<1>1. /\ mode = "down" /\ mode' = "opened" /\ linked' = cur /\ cur' = (IF cur = 0 THEN 1 ELSE cur)
      /\ dir_fsync' = "PendingOpen" /\ attempts' = 0
      /\ UNCHANGED <<frames, durable, headed, nextId, covered, delivered, crashes, broken>>
  BY DEF Open, faultVars
<1>2. /\ TypeOK /\ Budget \in Nat /\ cur \in Nat /\ headed \in Nat /\ linked \in Nat
      /\ \A f \in frames : f.id \in Nat /\ f.seg \in Nat
  <2>1. TypeOK
    BY DEF WalInv
  <2> QED
    BY <2>1, Typed
<1>3. cur' \in Nat /\ cur <= cur' /\ cur' >= 1 /\ cur >= cur' - 1 /\ (cur < cur' => cur' = 1)
  BY <1>1, <1>2
<1>4. \A f \in frames : f.seg >= 1 /\ f.seg <= cur
  BY DEF WalInv, FramesInv
<1>5. frames # {} => cur' = cur
  BY <1>1, <1>2, <1>4
<1>6. TypeOK'
  <2>1. attempts' \in 0..Budget
    BY <1>1, <1>2
  <2> QED
    BY <1>1, <1>2, <1>3, <2>1 DEF TypeOK
<1>7. FramesInv'
  BY <1>1, <1>5 DEF WalInv, FramesInv
<1>8. NamesInv'
  <2>1. headed <= cur /\ (headed < cur => cur = 1) /\ linked <= cur
    BY DEF WalInv, NamesInv
  <2>2. headed' <= cur' /\ (headed' < cur' => cur' = 1)
    BY <1>1, <1>2, <1>3, <2>1
  <2> QED
    BY <1>1, <1>2, <1>3, <2>2 DEF NamesInv
<1>9. ClosedInv'
  BY <1>1, <1>5 DEF WalInv, ClosedInv, Torn, Intact
<1>10. TornInv'
  BY <1>1, <1>5 DEF WalInv, TornInv, Torn, Intact
<1>11. CoveredInv'
  <2>1. ASSUME Intact', NEW i \in covered'
        PROVE  \E f \in frames' : f.id = i /\ ~ Torn(f) /\ i \in durable' /\ f.seg <= headed' /\ f.seg <= linked'
    <3>1. PICK f \in frames : f.id = i /\ ~ Torn(f) /\ i \in durable /\ f.seg <= headed /\ f.seg <= linked
      BY <1>1, <2>1 DEF WalInv, CoveredInv, Intact
    <3> QED
      BY <1>1, <1>4, <3>1
  <2> QED
    BY <2>1 DEF CoveredInv, Torn
<1>12. DeliveredFramesStay' /\ RecoveryRefusesOnlyBrokenRoots'
  BY <1>1 DEF DeliveredFramesStay, RecoveryRefusesOnlyBrokenRoots
<1> QED
  BY <1>6, <1>7, <1>8, <1>9, <1>10, <1>11, <1>12 DEF WalInv
-----------------------------------------------------------------------------
\* Replay stops at the first torn frame of a segment.
LEMMA FirstTornIsFirst ==
    ASSUME TypeOK, NEW s, HasTorn(s)
    PROVE  /\ \E t \in frames : t.seg = s /\ Torn(t) /\ t.id = FirstTorn(s)
           /\ \A t \in frames : t.seg = s /\ Torn(t) => FirstTorn(s) <= t.id
<1> DEFINE S == {f.id : f \in {g \in InSeg(s) : Torn(g)}}
<1>1. S \in SUBSET Nat /\ S # {}
  BY Typed DEF HasTorn, InSeg
<1>2. Min(S) \in S /\ \A y \in S : Min(S) <= y
  BY <1>1, LeastExists
<1>3. FirstTorn(s) = Min(S)
  BY DEF FirstTorn
<1> HIDE DEF S
<1>4. \A i \in S : \E t \in frames : t.seg = s /\ Torn(t) /\ t.id = i
  BY DEF S, InSeg
<1>5. \A t \in frames : t.seg = s /\ Torn(t) => t.id \in S
  BY DEF S, InSeg
<1> QED
  BY <1>2, <1>3, <1>4, <1>5

\* What replay reads is whole.
LEMMA ReadableIsWhole ==
    ASSUME TypeOK, NEW s, NEW f \in Readable(s)
    PROVE  f \in frames /\ f.seg = s /\ ~ Torn(f)
<1>1. f \in frames /\ f.seg = s /\ (HasTorn(s) => f.id < FirstTorn(s))
  BY DEF Readable, InSeg
<1>2. ASSUME Torn(f) PROVE FALSE
  <2>1. HasTorn(s)
    BY <1>1, <1>2 DEF HasTorn, InSeg
  <2>2. PICK t \in frames : t.id = FirstTorn(s)
    BY <2>1, FirstTornIsFirst
  <2>3. FirstTorn(s) <= f.id /\ f.id < FirstTorn(s)
    BY <1>1, <1>2, <2>1, FirstTornIsFirst
  <2>4. f.id \in Nat /\ t.id \in Nat
    BY <1>1, Typed
  <2> QED
    BY <2>2, <2>3, <2>4
<1> QED
  BY <1>1, <1>2

\* And, as long as every rollback succeeded, what is whole it reads.
LEMMA WholeIsReadable ==
    ASSUME WalInv, Intact, NEW f \in frames, ~ Torn(f)
    PROVE  f \in Readable(f.seg)
<1>0. TypeOK
  BY DEF WalInv
<1>1. ASSUME HasTorn(f.seg) PROVE f.id < FirstTorn(f.seg)
  <2>1. PICK t \in frames : t.seg = f.seg /\ Torn(t) /\ t.id = FirstTorn(f.seg)
    BY <1>0, <1>1, FirstTornIsFirst
  <2>2. f.id <= t.id
    BY <2>1 DEF WalInv, TornInv
  <2>3. f.id # t.id
    BY <2>1 DEF WalInv, FramesInv
  <2>4. f.id \in Nat /\ t.id \in Nat
    BY <1>0, Typed
  <2> QED
    BY <2>1, <2>2, <2>3, <2>4
<1> QED
  BY <1>1 DEF Readable, InSeg

LEMMA ReplayedFrames ==
    ASSUME WalInv
    PROVE  /\ Replayed \subseteq frames /\ \A f \in Replayed : ~ Torn(f)
           /\ Intact => \A f \in frames : ~ Torn(f) => f \in Replayed
<1>0. TypeOK
  BY DEF WalInv
<1>1. \A f \in Replayed : f \in frames /\ ~ Torn(f)
  BY <1>0, ReadableIsWhole DEF Replayed
<1>2. ASSUME Intact, NEW f \in frames, ~ Torn(f) PROVE f \in Replayed
  <2>1. f.seg \in 1..cur
    <3>1. f.seg >= 1 /\ f.seg <= cur
      BY DEF WalInv, FramesInv
    <3>2. f.seg \in Nat /\ cur \in Nat
      BY <1>0, Typed
    <3> QED
      BY <3>1, <3>2
  <2>2. f \in Readable(f.seg)
    BY <1>2, WholeIsReadable
  <2> QED
    BY <2>1, <2>2 DEF Replayed
<1> QED
  BY <1>1, <1>2

LEMMA HealStep ==
    ASSUME WalInv, ReplayHeals
    PROVE  WalInv'
<1>1. /\ mode = "opened" /\ frames' = Replayed /\ durable' = durable \cup Ids(Readable(cur))
      /\ headed' = cur /\ linked' = cur /\ dir_fsync' = "Clean" /\ mode' = "up" /\ delivered' = Ids(Replayed)
      /\ UNCHANGED <<cur, attempts, nextId, covered, crashes, broken>>
  BY DEF ReplayHeals, Healed, faultVars
<1>2. /\ TypeOK /\ cur \in Nat /\ durable \subseteq Nat
      /\ \A f \in frames : f.id \in Nat /\ f.seg \in Nat
  <2>1. TypeOK
    BY DEF WalInv
  <2> QED
    BY <2>1, Typed
<1>3. /\ frames' \subseteq frames /\ \A f \in frames' : ~ Torn(f)
  BY <1>1, ReplayedFrames
<1>4. Intact => \A f \in frames : ~ Torn(f) => f \in frames'
  BY <1>1, ReplayedFrames
<1>5. TypeOK'
  <2>1. durable' \subseteq Nat
    BY <1>1, <1>2 DEF Ids, Readable, InSeg
  <2>2. delivered' \subseteq Nat
    BY <1>1, <1>2, <1>3 DEF Ids
  <2> QED
    BY <1>1, <1>2, <1>3, <2>1, <2>2 DEF TypeOK
<1>6. FramesInv'
  BY <1>1, <1>3 DEF WalInv, FramesInv
<1>7. NamesInv'
  <2>1. cur >= 1
    BY <1>1 DEF WalInv, NamesInv
  <2>2. headed' <= cur' /\ linked' <= cur' /\ linked' >= cur' - 1 /\ ~ (headed' < cur') /\ ~ (linked' < cur') /\ cur' >= 1
    BY <1>1, <1>2, <2>1
  <2> QED
    BY <1>1, <2>2 DEF NamesInv
<1>8. ClosedInv'
  <2>1. \A f \in frames' : f.seg < cur => f.id \in durable'
    BY <1>1, <1>3 DEF WalInv, ClosedInv
  <2> QED
    BY <1>1, <1>3, <2>1 DEF ClosedInv, Torn
<1>9. TornInv'
  BY <1>3 DEF TornInv, Torn
<1>10. CoveredInv'
  <2>1. ASSUME Intact', NEW i \in covered'
        PROVE  \E f \in frames' : f.id = i /\ ~ Torn(f) /\ i \in durable' /\ f.seg <= headed' /\ f.seg <= linked'
    <3>1. Intact
      BY <1>1, <2>1 DEF Intact
    <3>2. PICK f \in frames : f.id = i /\ ~ Torn(f) /\ i \in durable
      BY <1>1, <2>1, <3>1 DEF WalInv, CoveredInv
    <3>3. f.seg <= cur
      BY DEF WalInv, FramesInv
    <3> QED
      BY <1>1, <1>4, <3>1, <3>2, <3>3
  <2> QED
    BY <2>1 DEF CoveredInv, Torn
<1>11. DeliveredFramesStay'
  BY <1>1, <1>3 DEF DeliveredFramesStay, Ids, Torn
<1>12. RecoveryRefusesOnlyBrokenRoots'
  BY <1>1 DEF RecoveryRefusesOnlyBrokenRoots
<1> QED
  BY <1>5, <1>6, <1>7, <1>8, <1>9, <1>10, <1>11, <1>12 DEF WalInv

LEMMA CleanStep ==
    ASSUME WalInv, ReplayClean
    PROVE  WalInv'
<1>1. /\ mode = "opened" /\ ~ (\E s \in 1..cur : HasTorn(s)) /\ mode' = "up" /\ delivered' = Ids(Replayed)
      /\ UNCHANGED <<frames, cur, durable, headed, linked, dir_fsync, attempts, nextId, covered, crashes, broken>>
  BY DEF ReplayClean, faultVars
<1>2. /\ TypeOK /\ cur \in Nat /\ \A f \in frames : f.id \in Nat /\ f.seg \in Nat
  <2>1. TypeOK
    BY DEF WalInv
  <2> QED
    BY <2>1, Typed
<1>3. Replayed \subseteq frames /\ \A f \in Replayed : ~ Torn(f)
  BY ReplayedFrames
<1>4. \A f \in frames : ~ Torn(f)
  <2>1. ASSUME NEW f \in frames PROVE f.seg \in 1..cur
    <3>1. f.seg >= 1 /\ f.seg <= cur
      BY DEF WalInv, FramesInv
    <3> QED
      BY <1>2, <3>1
  <2> QED
    BY <1>1, <2>1 DEF HasTorn, InSeg
<1>5. TypeOK'
  <2>1. delivered' \subseteq Nat
    BY <1>1, <1>2, <1>3 DEF Ids
  <2> QED
    BY <1>1, <1>2, <2>1 DEF TypeOK
<1>6. FramesInv'
  BY <1>1 DEF WalInv, FramesInv
<1>7. NamesInv'
  BY <1>1 DEF WalInv, NamesInv
<1>8. ClosedInv' /\ CoveredInv'
  BY <1>1 DEF WalInv, ClosedInv, CoveredInv, Torn, Intact
<1>9. TornInv'
  BY <1>1, <1>4 DEF TornInv, Torn
<1>10. DeliveredFramesStay'
  BY <1>1, <1>3 DEF DeliveredFramesStay, Ids, Torn
<1>11. RecoveryRefusesOnlyBrokenRoots'
  BY <1>1 DEF RecoveryRefusesOnlyBrokenRoots
<1> QED
  BY <1>5, <1>6, <1>7, <1>8, <1>9, <1>10, <1>11 DEF WalInv

\* A torn frame that is the last one has no bytes after it: its read is short,
\* never a failed checksum.
LEMMA IntactIsNotCorrupt ==
    ASSUME WalInv, Intact
    PROVE  ~ Corrupt
<1>0. TypeOK
  BY DEF WalInv
<1>1. ASSUME NEW s \in 1..cur, HasTorn(s) PROVE s = cur /\ TornTail(s)
  <2>1. PICK t \in frames : t.seg = s /\ Torn(t) /\ t.id = FirstTorn(s)
    BY <1>0, <1>1, FirstTornIsFirst
  <2>2. s = cur /\ \A g \in frames : g.seg = s => g.id <= t.id
    BY <2>1 DEF WalInv, TornInv
  <2>3. \A f \in frames : f.id \in Nat /\ f.got \in Nat /\ f.len \in Nat
    BY <1>0, Typed
  <2>4. \A f, g \in frames : f.id = g.id => f = g
    BY DEF WalInv, FramesInv
  <2>5. InSeg(s) \ Readable(s) = {t}
    <3>1. ASSUME NEW f \in InSeg(s) \ Readable(s) PROVE f = t
      <4>1. f \in frames /\ f.seg = s /\ ~ (f.id < t.id)
        BY <1>1, <2>1, <3>1 DEF Readable, InSeg
      <4>2. f.id = t.id
        BY <2>2, <2>3, <4>1
      <4> QED
        BY <2>4, <4>1, <4>2
    <3>2. t \in InSeg(s) \ Readable(s)
      BY <1>1, <2>1, <2>3 DEF Readable, InSeg
    <3> QED
      BY <3>1, <3>2
  <2>6. Bytes(InSeg(s) \ Readable(s)) = t.got
    BY <2>3, <2>5, BytesOfOne
  <2>7. \A f \in InSeg(s) : f.id = FirstTorn(s) => f = t
    BY <2>1, <2>4 DEF InSeg
  <2> QED
    BY <1>1, <2>1, <2>2, <2>6, <2>7 DEF TornTail, Torn
<1> QED
  BY <1>1 DEF Corrupt

LEMMA RefuseStep ==
    ASSUME WalInv, ReplayRefuses
    PROVE  WalInv'
<1>1. /\ mode = "opened" /\ Corrupt /\ mode' = "refused"
      /\ UNCHANGED <<frames, cur, durable, headed, linked, dir_fsync, attempts, nextId, covered, delivered, crashes, broken>>
  BY DEF ReplayRefuses, faultVars, diskVars
<1>2. ~ Intact
  BY <1>1, IntactIsNotCorrupt
<1>3. TypeOK'
  BY <1>1 DEF WalInv, TypeOK
<1>4. FramesInv'
  BY <1>1 DEF WalInv, FramesInv
<1>5. NamesInv'
  BY <1>1 DEF WalInv, NamesInv
<1>6. ClosedInv'
  BY <1>1 DEF WalInv, ClosedInv, Torn, Intact
<1>7. TornInv' /\ CoveredInv'
  BY <1>1, <1>2 DEF TornInv, CoveredInv, Intact
<1>8. DeliveredFramesStay' /\ RecoveryRefusesOnlyBrokenRoots'
  BY <1>1, <1>2 DEF DeliveredFramesStay, RecoveryRefusesOnlyBrokenRoots, Intact
<1> QED
  BY <1>3, <1>4, <1>5, <1>6, <1>7, <1>8 DEF WalInv
-----------------------------------------------------------------------------
LEMMA WalInit ==
    ASSUME Init
    PROVE  WalInv
<1>1. /\ mode = "down" /\ frames = {} /\ cur = 0 /\ headed = 0 /\ linked = 0
      /\ durable = {} /\ covered = {} /\ delivered = {}
      /\ dir_fsync = "Clean" /\ attempts = 0 /\ nextId = 1 /\ crashes = 0 /\ broken = {}
  BY DEF Init
<1>2. TypeOK
  <2>1. attempts \in 0..Budget
    BY <1>1, WalAssumption
  <2> QED
    BY <1>1, <2>1 DEF TypeOK
<1>3. FramesInv /\ ClosedInv /\ TornInv /\ CoveredInv
  BY <1>1 DEF FramesInv, ClosedInv, TornInv, CoveredInv
<1>4. NamesInv /\ DeliveredFramesStay /\ RecoveryRefusesOnlyBrokenRoots
  BY <1>1 DEF NamesInv, DeliveredFramesStay, RecoveryRefusesOnlyBrokenRoots
<1> QED
  BY <1>2, <1>3, <1>4 DEF WalInv

LEMMA WalStep ==
    ASSUME WalInv, [Next]_vars
    PROVE  WalInv'
<1>1. CASE (\E n \in Sizes : WalAppend(n)) \/ Sync \/ RotateDiscretionary
  BY <1>1, RunStep
<1>2. CASE Kill
  BY <1>2, KillStep
<1>3. CASE \E n \in Sizes : \E got \in 1..(n - 1) : KillInAppend(n, got)
  BY <1>3, KillInAppendStep
<1>4. CASE PowerLoss
  BY <1>4, PowerLossStep
<1>5. CASE PowerLossTearsHeader
  BY <1>5, TearHeaderStep
<1>6. CASE Open
  BY <1>6, OpenStep
<1>7. CASE ReplayHeals
  BY <1>7, HealStep
<1>8. CASE ReplayClean
  BY <1>8, CleanStep
<1>9. CASE ReplayRefuses
  BY <1>9, RefuseStep
<1>10. CASE UNCHANGED vars
  <2>1. UNCHANGED <<mode, frames, cur, durable, headed, linked, dir_fsync, attempts, nextId, covered, delivered, crashes, broken>>
    BY <1>10 DEF vars, faultVars
  <2>2. TypeOK' /\ NamesInv'
    BY <2>1 DEF WalInv, TypeOK, NamesInv
  <2>3. FramesInv' /\ ClosedInv'
    BY <2>1 DEF WalInv, FramesInv, ClosedInv, Torn, Intact
  <2>4. TornInv' /\ CoveredInv'
    BY <2>1 DEF WalInv, TornInv, CoveredInv, Torn, Intact
  <2>5. DeliveredFramesStay' /\ RecoveryRefusesOnlyBrokenRoots'
    BY <2>1 DEF WalInv, DeliveredFramesStay, RecoveryRefusesOnlyBrokenRoots, Torn
  <2> QED
    BY <2>2, <2>3, <2>4, <2>5 DEF WalInv
<1> QED
  BY <1>1, <1>2, <1>3, <1>4, <1>5, <1>6, <1>7, <1>8, <1>9, <1>10 DEF Next

\* The invariant holds in every state of the log.
THEOREM LogIsKept == Spec => []WalInv
<1>1. Init => WalInv
  BY WalInit
<1>2. WalInv /\ [Next]_vars => WalInv'
  BY WalStep
<1> QED
  BY <1>1, <1>2, PTL DEF Spec

\* Through every failed rotation, crash and replay the closed segments are
\* durable, a segment whose name is not durable is owed a directory fsync, and
\* what a replay delivered stays in the files of the log that runs (lib.rs,
\* rotate_now, sync and heal_newest_segment).
THEOREM SegmentsHold == Spec => []SegmentInv
<1>1. WalInv => SegmentInv
  <2> SUFFICES ASSUME WalInv PROVE SegmentInv
    OBVIOUS
  <2>1. TypeOK /\ DeliveredFramesStay
    BY DEF WalInv
  <2>2. headed >= cur - 1
    <3>1. cur \in Nat /\ headed \in Nat
      BY <2>1, Typed
    <3> QED
      BY <3>1 DEF WalInv, NamesInv
  <2>3. ClosedSegmentsAreDurable
    BY <2>2 DEF WalInv, NamesInv, ClosedInv, Intact, ClosedSegmentsAreDurable
  <2> QED
    BY <2>1, <2>3 DEF SegmentInv
<1> QED
  BY <1>1, LogIsKept, PTL

\* A frame at or below an offset that a sync returned is read by every later
\* replay, whatever crashes, power losses and failed rotations come between
\* (lib.rs, sync, rotate_now and replay_segment).
THEOREM CoveredIsReplayable == Spec => []CoveredFramesAreReplayable
<1>1. WalInv => CoveredFramesAreReplayable
  <2> SUFFICES ASSUME WalInv, Intact, NEW i \in covered
               PROVE  \E f \in frames : f.id = i /\ f.seg <= cur /\ f \in Readable(f.seg)
    BY DEF CoveredFramesAreReplayable, Intact
  <2>1. PICK f \in frames : f.id = i /\ ~ Torn(f)
    BY DEF WalInv, CoveredInv
  <2>2. f.seg <= cur
    BY DEF WalInv, FramesInv
  <2> QED
    BY <2>1, <2>2, WholeIsReadable
<1> QED
  BY <1>1, LogIsKept, PTL

\* No sequence of faults and crashes makes open or replay refuse the root, other
\* than a failed rollback or a torn header of the first segment (lib.rs,
\* replay_segment and open_existing_segment).
THEOREM RefusalMeansBroken == Spec => []RecoveryRefusesOnlyBrokenRoots
<1>1. WalInv => RecoveryRefusesOnlyBrokenRoots
  BY DEF WalInv
<1> QED
  BY <1>1, LogIsKept, PTL

Refills ==
    attempts' < attempts =>
        mode' # "up" \/ (cur' > cur /\ dir_fsync' = "Clean") \/ (Owed /\ linked' >= cur)

\* The retry budget of the rotation is refilled only by the owed directory fsync,
\* by a completed rotation or by a restart, so a fsync that keeps failing behind
\* data syncs that succeed ends in the terminal state (rotation.rs,
\* RotationState::charge and discharged).
THEOREM RefillIsEarned == Spec => BudgetIsRefilledByDischarge
<1>1. WalInv /\ [Next]_vars => [Refills]_vars
  <2> SUFFICES ASSUME WalInv, Next PROVE Refills
    OBVIOUS
  <2>1. cur \in Nat /\ linked \in Nat /\ attempts \in Nat
    <3>1. TypeOK
      BY DEF WalInv
    <3> QED
      BY <3>1, Typed
  <2>2. ASSUME RotateFails \/ RotateSucceeds PROVE Refills
    <3>1. CASE OwedFsyncFails
      BY <2>1, <3>1 DEF OwedFsyncFails, Refills
    <3>2. CASE attempts' = Left + 1 /\ linked' = Entry
      BY <2>1, <3>2 DEF Left, Entry, Refills
    <3>3. CASE RotateSucceeds
      BY <2>1, <3>3 DEF RotateSucceeds, Refills
    <3> QED
      BY <2>2, <3>1, <3>2, <3>3 DEF RotateFails, CloseSyncFails, FreshSegmentFails, ParentFsyncFails
  <2>3. ASSUME attempts' = attempts PROVE Refills
    BY <2>1, <2>3 DEF Refills
  <2>4. ASSUME mode' # "up" PROVE Refills
    BY <2>4 DEF Refills
  <2>5. CASE \E n \in Sizes : WalAppend(n)
    BY <2>2, <2>3, <2>5 DEF WalAppend
  <2>6. CASE Sync
    <3>1. CASE dir_fsync = "Clean" /\ attempts' = SyncRefill
      BY <2>3, <3>1 DEF SyncRefill, Owed
    <3>2. CASE linked' = cur /\ attempts' = SyncRefill
      BY <2>1, <2>3, <3>2 DEF SyncRefill, Refills
    <3>3. CASE attempts' = (IF Owed THEN attempts + 1 ELSE attempts)
      BY <2>1, <3>3 DEF Refills
    <3> QED
      BY <2>6, <3>1, <3>2, <3>3 DEF Sync
  <2>7. CASE RotateDiscretionary
    <3>1. CASE Owed /\ linked' = cur
      BY <2>1, <3>1 DEF Refills
    <3> QED
      BY <2>2, <2>7, <3>1 DEF RotateDiscretionary, RotateFails
  <2>8. CASE Kill \/ (\E n \in Sizes : \E got \in 1..(n - 1) : KillInAppend(n, got)) \/ PowerLoss
    BY <2>4, <2>8 DEF Kill, KillInAppend, PowerLoss, Down
  <2>9. CASE PowerLossTearsHeader \/ Open
    BY <2>4, <2>9 DEF PowerLossTearsHeader, Open
  <2>10. CASE ReplayHeals \/ ReplayClean \/ ReplayRefuses
    BY <2>3, <2>10 DEF ReplayHeals, ReplayClean, ReplayRefuses
  <2> QED
    BY <2>5, <2>6, <2>7, <2>8, <2>9, <2>10 DEF Next
<1>2. Spec => [][Refills]_vars
  BY <1>1, LogIsKept, PTL DEF Spec
<1> QED
  BY <1>2, PTL DEF BudgetIsRefilledByDischarge, Refills
-----------------------------------------------------------------------------
(***************************************************************************)
(* Reclamation (module Reclaim), for any tenants, sites and bounds.        *)
(*                                                                         *)
(* A segment is exposed once it is gone or a permit covers it.  A permit   *)
(* is given only after the row of the segment is on the record in memory   *)
(* and in the live slot, and every later record, the ones a failed slot    *)
(* write may leave included, keeps the row or raises reclaimed_through     *)
(* over it (AccountInv); it is raised only over segments whose unlink is   *)
(* durable (ReclaimedInv).  A record becomes terminal only beside a        *)
(* durable version-2 sidecar, which is what open refuses a root without    *)
(* (LossInv).  What is planned is below the append target and the durable  *)
(* checkpoint (HalfInv), and where every caller has a consumer nobody pins *)
(* it (LedgerSound); a file that is missing, or that a pass which lost its *)
(* turn may still remove, is known to the ledger (RiskInv).                *)
(***************************************************************************)
\* What each field of the running state may hold.
LedgerType ==
  [describes_root : BOOLEAN, segments : SUBSET Seg, reclaiming : SUBSET Seg,
   uncertain : SUBSET Seg, attempted : SUBSET Seg, pending : [Seg -> SUBSET Tenant],
   cursor : [Tenant -> 0..SegmentsBound], horizon : [Tenant -> Offset]]
Mode == {"none", "Known", "NoConsumer"}
OutstandingType ==
  [pass : Halves \cup {NoPass}, mode : Mode, segments : SUBSET Seg, uncertain : SUBSET Seg]
HalfType ==
  [st : {"idle", "planned", "failed", "unlinking", "checked", "unlinked"}, mode : Mode,
   records : BOOLEAN, plan : SUBSET Seg, uncertain : SUBSET Seg, todo : SUBSET Seg,
   removed : SUBSET Seg, fsync_failed : BOOLEAN]

RootTypes ==
  /\ site \in Sites /\ v1 = site.legacy
  /\ log \in Seq([seg : Seg, tenant : Tenant]) /\ Len(log) <= FramesBound
  /\ files \in SUBSET Seg /\ unsynced \in SUBSET Seg
  /\ side \in [v : 0..2, mark : Offset] /\ sideOld \in [v : 0..2, mark : Offset]
  /\ rec \in Record /\ recAlt \in Record
  /\ snap \in [Tenant -> Offset]
  /\ faults \in Nat /\ lost \in [snapshots : Nat, sidecars : Nat]
RunTypes ==
  /\ up \in {"down", "up", "refused"} /\ mem \in Record
  /\ gate \in {"Unwitnessed", "FsyncPending", "Open"} /\ legacy \in BOOLEAN
  /\ ledger \in LedgerType /\ outstanding \in OutstandingType
  /\ live \in Halves \cup {NoPass}
  /\ half \in [Halves -> HalfType] /\ late \in [Halves -> SUBSET Seg]

\* A root without segments is one nothing was ever written to; the newest
\* segment is never unlinked, so nothing that was is above it.
RootInv ==
  /\ up = "up" => files # {}
  /\ files = {} => log = <<>> /\ unsynced = {} /\ side.v = 0 /\ sideOld.v = 0
  /\ \A s \in unsynced : s \notin files /\ s < Cur
  /\ \A i \in DOMAIN log : log[i].seg <= Cur

\* A process that does not run holds nothing.
StoppedInv ==
  up # "up" =>
    /\ mem = NoRecord /\ gate = "Unwitnessed"
    /\ ledger = EmptyLedger(FALSE) /\ outstanding = NoPlan /\ live = NoPass
    /\ half = [p \in Halves |-> Idle] /\ late = [p \in Halves |-> {}]

\* A record exists from its first witness on, proves a reclamation only once it
\* is terminal, and never holds more rows than its slots were built for.
GoodRecord(r) ==
  /\ r.witness = "none" => r = NoRecord
  /\ Proves(r) => r.witness = "Terminal"
  /\ Cardinality(r.planned) <= Cap
RecordInv ==
  /\ GoodRecord(rec) /\ GoodRecord(recAlt) /\ GoodRecord(mem)
  /\ up = "up" => (mem = NoRecord <=> rec = NoRecord)

\* While no sidecar was lost: a terminal record stands beside a durable
\* version-2 sidecar, and whatever is of version 2 stands beside a record.
LossInv ==
  lost.sidecars = 0 =>
    /\ "Terminal" \in {rec.witness, recAlt.witness, mem.witness} =>
         side.v = 2 /\ sideOld.v = 2
    /\ side.v = 2 \/ sideOld.v = 2 => rec # NoRecord
    /\ \A s \in files \cup unsynced : s > v1 => rec # NoRecord

\* What is gone, and what a permit already covers, is on every terminal record;
\* a root that lost its record has the sidecar to show for it.
Exposed == Gone \cup UNION {half[p].todo : p \in Halves}
ShowsGone(r, s) == r.witness = "Terminal" /\ Accounts(r, s)
AccountInv ==
  lost.sidecars < 2 => \A s \in Exposed :
    /\ up = "up" => ShowsGone(mem, s)
    /\ rec = NoRecord => lost.sidecars # 0 /\ side.v = 2 /\ sideOld.v = 2
    /\ rec # NoRecord => ShowsGone(rec, s)
    /\ recAlt # NoRecord => ShowsGone(recAlt, s)

\* The frame a record claims reclaimed is in a segment that stays gone.
Unreturning(i) == i # 0 => i \in DOMAIN log /\ log[i].seg \notin files \cup unsynced
ReclaimedInv ==
  \A t \in Tenant :
    Unreturning(rec.reclaimed[t]) /\ Unreturning(recAlt.reclaimed[t]) /\ Unreturning(mem.reclaimed[t])

\* A file half: what its state says of its work.
HalfShape(h) ==
  /\ (h.st = "idle" => h = Idle) /\ (h.st # "idle" => h.mode # "none")
  /\ h.todo \cup h.removed \cup h.uncertain \subseteq h.plan /\ h.todo \cap h.removed = {}
  /\ h.st \in {"planned", "failed"} => h.todo = {} /\ h.removed = {}
  /\ h.st = "unlinked" => h.todo = {}
  /\ h.st = "checked" => h.todo # {}
  /\ h.fsync_failed => h.st = "unlinked"
  /\ h.plan # {} => h.records
HalfGood(h) ==
  /\ HalfShape(h)
  /\ h.plan # {} => mem.witness = "Terminal" /\ ledger.describes_root
  /\ \A s \in h.plan : s < Cur /\ Highest(s) <= sideOld.mark
  /\ h.removed \cap files = {}
  /\ h.st = "unlinked" /\ ~ h.fsync_failed => h.removed \cap unsynced = {}
HalfInv == \A p \in Halves : HalfGood(half[p])

\* A pass removes a file after its turn only if it had checked before, and then
\* no other.
LateInv ==
  \A p \in Halves :
    /\ late[p] # {} => live # p /\ half[p].st \in {"unlinking", "unlinked"}
    /\ Cardinality(late[p]) <= 1

\* A ledger l of the root: its sets nest, it holds the newest segment once that
\* has frames, a cursor says what its tenant still pins, a horizon covers what
\* the cursor has passed, and what is being reclaimed is covered by the durable
\* checkpoint and, where every caller has a consumer, pinned by nobody.
Nested(l) ==
  /\ l.uncertain \subseteq l.reclaiming
  /\ l.reclaiming \cup l.attempted \subseteq l.segments
  /\ ~ l.describes_root => l.segments = {}
Placed(l) ==
  /\ \A s \in l.segments : s <= Cur
  /\ \A s \in l.reclaiming : s < Cur /\ Highest(s) <= sideOld.mark
  /\ l.describes_root /\ Frames(Cur) # {} => Cur \in l.segments
Pins(l) ==
  \A s \in Seg, t \in Tenant : t \in l.pending[s] <=> s \in Held(l, t) /\ s > l.cursor[t]
Cleared(l) ==
  \A t \in Tenant : \A s \in Held(l, t) : s <= l.cursor[t] => LastIn(s, t) <= l.horizon[t]
Released(l) ==
  Modes = {"Known"} => \A s \in l.reclaiming : l.pending[s] = {}
LedgerSound(l) == Nested(l) /\ Placed(l) /\ Pins(l) /\ Cleared(l) /\ Released(l)
LedgerInv == LedgerSound(ledger)

MarkInv == (gate = "Open" => side = sideOld) /\ sideOld.mark <= side.mark

\* The live pass and the ledger agree on its plan, whose rows still fit.
LiveInv ==
  /\ outstanding.pass = live
  /\ live # NoPass /\ half[live] # Idle =>
       /\ half[live].plan = outstanding.segments
       /\ half[live].plan \subseteq ledger.reclaiming \cap ledger.attempted
       /\ half[live].uncertain = half[live].plan \cap ledger.uncertain
       /\ half[live].st = "planned" => Cardinality(mem.planned \cup half[live].plan) <= Cap

\* A file that is missing, or that a pass which lost its turn may still remove,
\* is known to the ledger as attempted, and to the live pass as uncertain.
MayStillGo(s) == \E q \in Halves : q # live /\ half[q].st = "checked" /\ s \in half[q].todo
AtRisk(s) == s \notin files \/ MayStillGo(s)
Expects(l) == \A s \in l.segments : AtRisk(s) => s \in l.attempted \cup l.uncertain
RiskInv ==
  /\ Expects(ledger)
  /\ live # NoPass /\ half[live] # Idle =>
       \A s \in half[live].plan \ half[live].removed : AtRisk(s) => s \in half[live].uncertain

ReclaimInv ==
  /\ RootTypes /\ RunTypes /\ RootInv /\ StoppedInv /\ RecordInv /\ LossInv /\ RefusalMeansLoss
  /\ AccountInv /\ ReclaimedInv /\ HalfInv /\ LateInv /\ LedgerInv /\ MarkInv /\ LiveInv /\ RiskInv
-----------------------------------------------------------------------------
\* The greatest element of a bounded set of numbers is one of it.
LEMMA GreatestExists ==
  ASSUME NEW n \in Nat, NEW S \in SUBSET (0..n), S # {}
  PROVE  Max(S) \in S /\ \A x \in S : x <= Max(S)
<1> DEFINE T == {n - x : x \in S}
<1>0. \A x \in S : x \in Nat /\ x <= n /\ n - x \in Nat
  OBVIOUS
<1>1. T \in SUBSET Nat /\ T # {}
  BY <1>0
<1>2. Min(T) \in T /\ \A y \in T : Min(T) <= y
  BY <1>1, LeastExists
<1>3. PICK m \in S : Min(T) = n - m
  BY <1>2
<1>4. ASSUME NEW x \in S PROVE x <= m
  <2>1. n - x \in T
    OBVIOUS
  <2>2. n - m <= n - x
    BY <1>2, <1>3, <2>1
  <2> QED
    BY <1>0, <2>2
<1> QED
  BY <1>4 DEF Max

\* The bounds of a root are numbers, and it has room for a segment.
LEMMA Bounds ==
  ASSUME RootTypes
  PROVE  /\ Cap \in Nat /\ Cap > 0 /\ SegmentsBound \in Nat /\ SegmentsBound > 0
         /\ FramesBound \in Nat /\ v1 \in Nat /\ v1 <= SegmentsBound /\ v1 <= FramesBound + 1
         /\ Modes \subseteq {"Known", "NoConsumer"} /\ NoPass \notin Halves
         /\ site.tenants \subseteq Tenant /\ MaxFaults \in Nat /\ MaxLost \in Nat
<1>1. site \in Sites /\ v1 = site.legacy
  BY DEF RootTypes
<1>2. {site.legacy, site.frames, site.segments, site.faults, site.lost} \subseteq Nat
  BY <1>1, ReclaimAssumption
<1> QED
  BY <1>1, <1>2, ReclaimAssumption
  DEF Cap, SegmentsBound, FramesBound, Modes, Halves, MaxFaults, MaxLost

\* The newest segment is one of the root's, and none is newer.
LEMMA CurIsNewest ==
  ASSUME RootTypes, files # {}
  PROVE  Cur \in files /\ Cur \in Seg /\ \A s \in files : s <= Cur
<1>1. SegmentsBound \in Nat /\ files \in SUBSET (0..SegmentsBound)
  BY Bounds DEF RootTypes, Seg
<1>2. Max(files) \in files /\ \A s \in files : s <= Max(files)
  BY <1>1, GreatestExists
<1> QED
  BY <1>2 DEF Cur, RootTypes

\* The entries of a sequence.
LEMMA SeqEntries ==
  ASSUME NEW R, NEW q \in Seq(R)
  PROVE  Len(q) \in Nat /\ DOMAIN q = 1..Len(q) /\ \A i \in DOMAIN q : q[i] \in R
  OBVIOUS

\* What the log says of a frame.
LEMMA LogEntries ==
  ASSUME RootTypes
  PROVE  /\ Len(log) \in Nat /\ DOMAIN log = 1..Len(log)
         /\ \A i \in DOMAIN log : log[i] \in [seg : Seg, tenant : Tenant]
         /\ \A i \in DOMAIN log : log[i].seg \in Seg /\ log[i].tenant \in Tenant
<1>1. log \in Seq([seg : Seg, tenant : Tenant])
  BY DEF RootTypes
<1>2. Len(log) \in Nat /\ DOMAIN log = 1..Len(log)
      /\ \A i \in DOMAIN log : log[i] \in [seg : Seg, tenant : Tenant]
  BY <1>1, SeqEntries
<1>3. \A i \in DOMAIN log : log[i].seg \in Seg /\ log[i].tenant \in Tenant
  BY <1>2
<1> QED
  BY <1>2, <1>3

\* LastIn is the last of a tenant's frames in a segment.
LEMMA LastInIs ==
  ASSUME RootTypes, NEW s, NEW t
  PROVE  /\ LastIn(s, t) \in 0..Len(log) /\ LastIn(s, t) \in Offset
         /\ LastIn(s, t) # 0 =>
              /\ LastIn(s, t) \in DOMAIN log
              /\ log[LastIn(s, t)].seg = s /\ log[LastIn(s, t)].tenant = t
         /\ \A i \in DOMAIN log : log[i].seg = s /\ log[i].tenant = t => i <= LastIn(s, t)
         /\ t \in Members(s) <=> LastIn(s, t) # 0
<1> DEFINE S == {0} \cup {i \in Frames(s) : log[i].tenant = t}
<1>1. Len(log) \in Nat /\ DOMAIN log = 1..Len(log)
  BY LogEntries
<1>2. S \in SUBSET (0..Len(log)) /\ S # {}
  BY <1>1 DEF Frames
<1>3. Max(S) \in S /\ \A x \in S : x <= Max(S)
  BY <1>1, <1>2, GreatestExists
<1>4. LastIn(s, t) = Max(S)
  BY DEF LastIn
<1>5. LastIn(s, t) \in 0..Len(log) /\ LastIn(s, t) \in Offset
  BY <1>1, <1>2, <1>3, <1>4, Bounds DEF Offset, RootTypes
<1>6. \A i \in DOMAIN log : log[i].seg = s /\ log[i].tenant = t => i <= LastIn(s, t)
  BY <1>3, <1>4 DEF Frames
<1>7. LastIn(s, t) # 0 => LastIn(s, t) \in Frames(s) /\ log[LastIn(s, t)].tenant = t
  BY <1>3, <1>4
<1>8. t \in Members(s) => LastIn(s, t) # 0
  BY <1>1, <1>6, <1>5 DEF Members, Frames
<1> QED
  BY <1>5, <1>6, <1>7, <1>8 DEF Members, Frames

\* Highest is the last frame of a segment.
LEMMA HighestIs ==
  ASSUME RootTypes, NEW s
  PROVE  /\ Highest(s) \in 0..Len(log)
         /\ \A i \in DOMAIN log : log[i].seg = s => i <= Highest(s)
<1> DEFINE S == {0} \cup Frames(s)
<1>1. Len(log) \in Nat /\ DOMAIN log = 1..Len(log)
  BY LogEntries
<1>2. S \in SUBSET (0..Len(log)) /\ S # {}
  BY <1>1 DEF Frames
<1>3. Max(S) \in S /\ \A x \in S : x <= Max(S)
  BY <1>1, <1>2, GreatestExists
<1> QED
  BY <1>2, <1>3 DEF Highest, Frames

\* The segments ever created are those up to the newest.
LEMMA GoneIs ==
  ASSUME RootTypes, RootInv
  PROVE  /\ files = {} => Gone = {}
         /\ files # {} => Gone = (1..Cur) \ files
<1> DEFINE S == {0} \cup files \cup {log[i].seg : i \in DOMAIN log}
<1>1. CASE files = {}
  <2>1. log = <<>>
    BY <1>1 DEF RootInv
  <2>2. S = {0}
    BY <2>1, <1>1
  <2>3. Max({0}) = 0
    BY GreatestExists
  <2> QED
    BY <1>1, <2>2, <2>3 DEF Gone, Created
<1>2. CASE files # {}
  <2>1. Cur \in files /\ Cur \in Seg /\ \A s \in files : s <= Cur
    BY <1>2, CurIsNewest
  <2>2. \A x \in S : x <= Cur
    BY <2>1, LogEntries, Bounds DEF RootInv, Seg
  <2>3. S \in SUBSET (0..SegmentsBound) /\ SegmentsBound \in Nat
    <3>1. SegmentsBound \in Nat /\ files \in SUBSET (1..SegmentsBound)
      BY Bounds DEF RootTypes, Seg
    <3>2. \A i \in DOMAIN log : log[i].seg \in 1..SegmentsBound
      BY LogEntries DEF Seg
    <3>3. ASSUME NEW x \in S PROVE x \in 0..SegmentsBound
      <4>1. CASE x = 0 \/ x \in files
        BY <3>1, <4>1
      <4>2. CASE \E i \in DOMAIN log : x = log[i].seg
        BY <3>1, <3>2, <4>2
      <4> QED
        BY <4>1, <4>2
    <3> QED
      BY <3>1, <3>3
  <2>4. Max(S) \in S /\ \A x \in S : x <= Max(S)
    BY <2>3, GreatestExists
  <2>5. Max(S) = Cur
    BY <2>1, <2>2, <2>3, <2>4 DEF Seg
  <2> QED
    BY <1>2, <2>5 DEF Gone, Created
<1> QED
  BY <1>1, <1>2

LEMMA GoneOfRoot == RootTypes /\ RootInv => (files # {} => Gone = (1..Cur) \ files)
  BY GoneIs

\* An append into the newest segment changes nothing in the others.
LEMMA AppendElsewhere ==
  ASSUME RootTypes, NEW u \in Tenant, files # {},
         log' = Append(log, [seg |-> Cur, tenant |-> u]),
         NEW s, s # Cur
  PROVE  /\ Frames(s)' = Frames(s) /\ Members(s)' = Members(s) /\ Highest(s)' = Highest(s)
         /\ \A t : LastIn(s, t)' = LastIn(s, t)
<1>1. Cur \in Seg
  BY CurIsNewest
<1>2. Len(log) \in Nat /\ DOMAIN log = 1..Len(log) /\ log \in Seq([seg : Seg, tenant : Tenant])
  BY LogEntries DEF RootTypes
<1>3. /\ DOMAIN log' = 1..(Len(log) + 1) /\ \A i \in DOMAIN log : log'[i] = log[i]
      /\ log'[Len(log) + 1] = [seg |-> Cur, tenant |-> u]
  BY <1>1, <1>2
<1>4. \A i \in DOMAIN log' : i \in DOMAIN log \/ i = Len(log) + 1
  BY <1>2, <1>3
<1>5. DOMAIN log \subseteq DOMAIN log'
  BY <1>2, <1>3
<1>6. {i \in DOMAIN log' : log'[i].seg = s} = {i \in DOMAIN log : log[i].seg = s}
  BY <1>3, <1>4, <1>5
<1>7. Frames(s)' = Frames(s) /\ \A i \in Frames(s) : log'[i] = log[i]
  BY <1>3, <1>6 DEF Frames
<1>8. {log'[i].tenant : i \in Frames(s)'} = {log[i].tenant : i \in Frames(s)}
  BY <1>7
<1>9. ASSUME NEW t PROVE LastIn(s, t)' = LastIn(s, t)
  <2>1. {i \in Frames(s)' : log'[i].tenant = t} = {i \in Frames(s) : log[i].tenant = t}
    BY <1>7
  <2> QED
    BY <2>1 DEF LastIn
<1> QED
  BY <1>7, <1>8, <1>9 DEF Members, Highest
-----------------------------------------------------------------------------
\* The records that operations build.
LEMMA FreshRecords ==
  ASSUME RootTypes
  PROVE  /\ NoRecord \in Record /\ 0 \in Offset
         /\ \A w \in {"none", "Unarmed", "Armed", "Terminal"} :
              /\ Fresh(w) \in Record /\ Fresh(w).witness = w /\ Fresh(w).planned = {}
              /\ Fresh(w).reclaimed = NoRecord.reclaimed /\ Fresh(w).mode = "Unrecorded"
         /\ NoRecord.witness = "none" /\ NoRecord.planned = {}
         /\ \A t \in Tenant : NoRecord.reclaimed[t] = 0
<1>1. 0 \in Offset
  BY Bounds DEF Offset
<1> QED
  BY <1>1 DEF NoRecord, Fresh, Record

LEMMA NoRecordIsGood ==
  ASSUME RootTypes
  PROVE  \A w \in {"Unarmed", "Armed"} : GoodRecord(Fresh(w)) /\ GoodRecord(NoRecord)
<1>1. Cardinality({}) = 0 /\ Cap \in Nat
  BY FS_EmptySet, Bounds
<1>2. NoRecord.planned = {} /\ \A t \in Tenant : NoRecord.reclaimed[t] = 0
  BY FreshRecords
<1>3. \A w \in {"Unarmed", "Armed"} :
        Fresh(w).witness = w /\ Fresh(w).planned = {} /\ \A t \in Tenant : Fresh(w).reclaimed[t] = 0
  BY <1>2, FreshRecords
<1>4. NoRecord.witness = "none"
  BY FreshRecords
<1> QED
  BY <1>1, <1>2, <1>3, <1>4 DEF GoodRecord, Proves

LEMMA RaiseIs ==
  ASSUME RootTypes, NEW r \in Record, NEW S \in SUBSET Seg
  PROVE  /\ Raise(r, S) \in Record
         /\ Raise(r, S).witness = r.witness /\ Raise(r, S).mode = r.mode
         /\ Raise(r, S).planned = r.planned
         /\ \A t \in Tenant :
              /\ Raise(r, S).reclaimed[t] >= r.reclaimed[t]
              /\ \A s \in S : Raise(r, S).reclaimed[t] >= LastIn(s, t)
              /\ Raise(r, S).reclaimed[t] = r.reclaimed[t]
                   \/ \E s \in S : Raise(r, S).reclaimed[t] = LastIn(s, t)
<1> DEFINE T(t) == {r.reclaimed[t]} \cup {LastIn(s, t) : s \in S}
<1>1. FramesBound \in Nat /\ Offset = 0..FramesBound
  BY Bounds DEF Offset
<1>2. ASSUME NEW t \in Tenant
      PROVE  Max(T(t)) \in T(t) /\ Max(T(t)) \in Offset /\ \A x \in T(t) : x <= Max(T(t))
  <2>1. r.reclaimed[t] \in Offset
    BY DEF Record
  <2>2. \A s \in S : LastIn(s, t) \in Offset
    BY LastInIs
  <2>3. T(t) \in SUBSET (0..FramesBound) /\ T(t) # {}
    BY <1>1, <2>1, <2>2
  <2>4. Max(T(t)) \in T(t) /\ \A x \in T(t) : x <= Max(T(t))
    BY <1>1, <2>3, GreatestExists
  <2> QED
    BY <1>1, <2>3, <2>4
<1>3. \A t \in Tenant : r.reclaimed[t] \in Offset
  BY DEF Record
<1>4. Raise(r, S) = [r EXCEPT !.reclaimed = [t \in Tenant |-> Max(T(t))]]
  BY DEF Raise
<1> HIDE DEF T
<1>5. [t \in Tenant |-> Max(T(t))] \in [Tenant -> Offset]
  BY <1>2
<1>6. Raise(r, S) \in Record /\ Raise(r, S).reclaimed = [t \in Tenant |-> Max(T(t))]
      /\ Raise(r, S).witness = r.witness /\ Raise(r, S).mode = r.mode
      /\ Raise(r, S).planned = r.planned
  BY <1>4, <1>5 DEF Record
<1>7. ASSUME NEW t \in Tenant
      PROVE  /\ Raise(r, S).reclaimed[t] >= r.reclaimed[t]
             /\ \A s \in S : Raise(r, S).reclaimed[t] >= LastIn(s, t)
             /\ Raise(r, S).reclaimed[t] = r.reclaimed[t]
                  \/ \E s \in S : Raise(r, S).reclaimed[t] = LastIn(s, t)
  <2>1. Raise(r, S).reclaimed[t] = Max(T(t))
    BY <1>6
  <2>2. r.reclaimed[t] \in T(t) /\ \A s \in S : LastIn(s, t) \in T(t)
    BY DEF T
  <2>3. Max(T(t)) \in T(t) /\ Max(T(t)) \in Offset /\ \A x \in T(t) : x <= Max(T(t))
    BY <1>2
  <2>4. /\ r.reclaimed[t] <= Max(T(t)) /\ \A s \in S : LastIn(s, t) <= Max(T(t))
        /\ Max(T(t)) = r.reclaimed[t] \/ \E s \in S : Max(T(t)) = LastIn(s, t)
    BY <2>2, <2>3 DEF T
  <2>5. Max(T(t)) \in 0..FramesBound /\ r.reclaimed[t] \in 0..FramesBound
        /\ \A s \in S : LastIn(s, t) \in 0..FramesBound
    BY <1>1, <1>3, <2>3, LastInIs
  <2> QED
    BY <1>1, <2>1, <2>4, <2>5
<1> QED
  BY <1>6, <1>7

\* What open makes of the record: it exists, its rows are gone, and the rows of
\* absent segments are in its reclaimed_through.
LEMMA PlannedIs ==
  ASSUME RootTypes, NEW r \in Record
  PROVE  /\ Planned(r) \in Record /\ Planned(r).witness = r.witness /\ Planned(r).planned = {}
         /\ \A t \in Tenant :
              /\ Planned(r).reclaimed[t] >= r.reclaimed[t]
              /\ \A s \in r.planned \ files : Planned(r).reclaimed[t] >= LastIn(s, t)
              /\ Planned(r).reclaimed[t] = r.reclaimed[t]
                   \/ \E s \in r.planned \ files : Planned(r).reclaimed[t] = LastIn(s, t)
<1> DEFINE q == [r EXCEPT !.planned = {}]
<1>1. q \in Record /\ q.witness = r.witness /\ q.planned = {} /\ q.reclaimed = r.reclaimed
  BY DEF Record
<1>2. r.planned \ files \in SUBSET Seg
  BY DEF Record
<1>3. Planned(r) = Raise(q, r.planned \ files)
  BY DEF Planned
<1> DEFINE D == r.planned \ files
<1> HIDE DEF q
<1>4. /\ Raise(q, D) \in Record /\ Raise(q, D).witness = q.witness /\ Raise(q, D).planned = q.planned
      /\ \A t \in Tenant :
           /\ Raise(q, D).reclaimed[t] >= q.reclaimed[t]
           /\ \A s \in D : Raise(q, D).reclaimed[t] >= LastIn(s, t)
           /\ Raise(q, D).reclaimed[t] = q.reclaimed[t]
                \/ \E s \in D : Raise(q, D).reclaimed[t] = LastIn(s, t)
  BY <1>1, <1>2, RaiseIs
<1> QED
  BY <1>1, <1>3, <1>4

LEMMA PromotedIs ==
  ASSUME RootTypes
  PROVE  /\ Promoted \in Record /\ Promoted.planned = rec.planned
         /\ Promoted.reclaimed = rec.reclaimed /\ Promoted.mode = rec.mode
         /\ Promoted.witness \in {rec.witness, "Terminal"}
         /\ Promoted.witness # rec.witness => rec # NoRecord /\ side.v = 2
         /\ rec # NoRecord /\ side.v = 2 => Promoted.witness = "Terminal"
         /\ rec = NoRecord => Promoted = NoRecord
<1>1. rec \in Record
  BY DEF RootTypes
<1>2. CASE rec # NoRecord /\ side.v = 2
  BY <1>1, <1>2 DEF Promoted, Record
<1>3. CASE ~ (rec # NoRecord /\ side.v = 2)
  BY <1>1, <1>3 DEF Promoted
<1> QED
  BY <1>2, <1>3

\* The record of a checkpoint is the one in memory with a later witness.
LEMMA ArmedIs ==
  ASSUME mem \in Record
  PROVE  /\ Armed \in Record /\ Witnessed \in Record
         /\ Armed.planned = mem.planned /\ Armed.reclaimed = mem.reclaimed
         /\ Witnessed.planned = mem.planned /\ Witnessed.reclaimed = mem.reclaimed
         /\ Armed.witness \in {"Armed", "Terminal"} /\ Witnessed.witness = "Terminal"
         /\ mem.witness \in {"Armed", "Terminal"} => Armed = mem
         /\ mem.witness = "Terminal" => Witnessed = mem
         /\ mem.witness # "Terminal" => Armed.witness = "Armed"
<1>1. Armed \in Record /\ Armed.planned = mem.planned /\ Armed.reclaimed = mem.reclaimed
      /\ Armed.witness \in {"Armed", "Terminal"}
      /\ (mem.witness \in {"Armed", "Terminal"} => Armed = mem)
      /\ (mem.witness # "Terminal" => Armed.witness = "Armed")
  <2>1. CASE mem.witness \in {"none", "Unarmed"}
    BY <2>1 DEF Armed, Record
  <2>2. CASE mem.witness \notin {"none", "Unarmed"}
    BY <2>2 DEF Armed, Record
  <2> QED
    BY <2>1, <2>2
<1>2. Witnessed \in Record /\ Witnessed.planned = Armed.planned
      /\ Witnessed.reclaimed = Armed.reclaimed /\ Witnessed.witness = "Terminal"
      /\ (Armed.witness = "Terminal" => Witnessed = Armed)
  BY <1>1 DEF Witnessed, Record
<1> QED
  BY <1>1, <1>2

\* The record a pass writes, and the one its commit leaves in memory.
LEMMA MergedIs ==
  ASSUME mem \in Record, NEW h \in HalfType, h.mode # "none"
  PROVE  /\ Merged(h) \in Record /\ Merged(h).witness = mem.witness
         /\ Merged(h).reclaimed = mem.reclaimed /\ Merged(h).planned = mem.planned \cup h.plan
  BY DEF Merged, Record, HalfType, Mode

LEMMA SettledRecordIs ==
  ASSUME RootTypes, mem \in Record, NEW h \in HalfType
  PROVE  /\ SettledRecord(h) \in Record /\ SettledRecord(h).witness = mem.witness
         /\ SettledRecord(h).mode = mem.mode
         /\ SettledRecord(h).planned \subseteq mem.planned
         /\ SettledRecord(h).planned = mem.planned \ Done(h)
         /\ \A t \in Tenant :
              /\ SettledRecord(h).reclaimed[t] >= mem.reclaimed[t]
              /\ \A s \in Done(h) \cap mem.planned : SettledRecord(h).reclaimed[t] >= LastIn(s, t)
              /\ SettledRecord(h).reclaimed[t] = mem.reclaimed[t]
                   \/ \E s \in Done(h) \cap mem.planned : SettledRecord(h).reclaimed[t] = LastIn(s, t)
<1> DEFINE D == Done(h) \cap mem.planned
           q == [mem EXCEPT !.planned = @ \ D]
<1>1. q \in Record /\ q.witness = mem.witness /\ q.mode = mem.mode /\ q.planned = mem.planned \ D
      /\ q.reclaimed = mem.reclaimed
  BY DEF Record
<1>2. D \in SUBSET Seg
  BY DEF Record
<1>3. SettledRecord(h) = Raise(q, D)
  BY DEF SettledRecord
<1>4. mem.planned \ D = mem.planned \ Done(h)
  OBVIOUS
<1> HIDE DEF q
<1>5. /\ Raise(q, D) \in Record /\ Raise(q, D).witness = q.witness /\ Raise(q, D).planned = q.planned
      /\ Raise(q, D).mode = q.mode
      /\ \A t \in Tenant :
              /\ Raise(q, D).reclaimed[t] >= q.reclaimed[t]
              /\ \A s \in D : Raise(q, D).reclaimed[t] >= LastIn(s, t)
              /\ Raise(q, D).reclaimed[t] = q.reclaimed[t]
                   \/ \E s \in D : Raise(q, D).reclaimed[t] = LastIn(s, t)
  BY <1>1, <1>2, RaiseIs
<1> QED
  BY <1>1, <1>3, <1>4, <1>5
-----------------------------------------------------------------------------
\* Operations on a ledger l: each keeps it sound, and keeps what it knows of the
\* files that may be missing.
Knows(l) == l.attempted \cup l.uncertain

LEMMA LedgerFields ==
  ASSUME RootTypes, NEW l \in LedgerType
  PROVE  /\ l.segments \in SUBSET Seg /\ l.reclaiming \in SUBSET Seg
         /\ l.uncertain \in SUBSET Seg /\ l.attempted \in SUBSET Seg
         /\ l.describes_root \in BOOLEAN
         /\ l.pending \in [Seg -> SUBSET Tenant] /\ l.cursor \in [Tenant -> 0..SegmentsBound]
         /\ l.horizon \in [Tenant -> Offset]
         /\ \A s \in Seg : s \in Nat /\ s > 0
         /\ \A t \in Tenant : l.cursor[t] \in Nat /\ l.horizon[t] \in Nat /\ l.cursor[t] <= SegmentsBound
  BY Bounds DEF LedgerType, Seg, Offset

LEMMA WithdrawKeeps ==
  ASSUME RootTypes, NEW l \in LedgerType, LedgerSound(l), NEW S
  PROVE  /\ Withdraw(l, S) \in LedgerType /\ LedgerSound(Withdraw(l, S))
         /\ Withdraw(l, S).segments = l.segments /\ Withdraw(l, S).reclaiming = l.reclaiming \ S
         /\ Withdraw(l, S).describes_root = l.describes_root
         /\ Withdraw(l, S).pending = l.pending /\ Withdraw(l, S).cursor = l.cursor
         /\ Withdraw(l, S).horizon = l.horizon
         /\ Knows(Withdraw(l, S)) = Knows(l)
<1> DEFINE w == Withdraw(l, S)
<1>1. /\ w \in LedgerType /\ w.segments = l.segments /\ w.reclaiming = l.reclaiming \ S
      /\ w.describes_root = l.describes_root /\ w.pending = l.pending /\ w.cursor = l.cursor
      /\ w.horizon = l.horizon /\ w.uncertain = l.uncertain \ S
      /\ w.attempted = l.attempted \cup (S \cap l.uncertain)
  BY DEF Withdraw, LedgerType
<1> HIDE DEF w
<1>2. Nested(w)
  BY <1>1 DEF LedgerSound, Nested
<1>3. Placed(w)
  BY <1>1 DEF LedgerSound, Placed
<1>4. Pins(w) /\ Cleared(w) /\ Released(w)
  BY <1>1 DEF LedgerSound, Pins, Cleared, Released, Held
<1>5. Knows(w) = Knows(l)
  BY <1>1 DEF Knows
<1> QED
  BY <1>1, <1>2, <1>3, <1>4, <1>5 DEF w, LedgerSound

LEMMA ReceiveKeeps ==
  ASSUME RootTypes, NEW l \in LedgerType, LedgerSound(l), NEW marks \in [Tenant -> Offset]
  PROVE  /\ Receive(l, marks) \in LedgerType /\ LedgerSound(Receive(l, marks))
         /\ Receive(l, marks).segments = l.segments
         /\ Receive(l, marks).describes_root = l.describes_root
         /\ Knows(Receive(l, marks)) = Knows(l)
<1> DEFINE R == Rewound(l, marks)
           S == UNION {Held(l, t) : t \in R}
           w == Withdraw(l, S)
           c == [t \in Tenant |-> IF t \in R THEN 0 ELSE w.cursor[t]]
           p == [s \in Seg |-> IF s \in l.segments
                               THEN w.pending[s] \cup (Members(s) \cap R) ELSE w.pending[s]]
           h == [t \in Tenant |-> IF Held(l, t) = {} THEN 0 ELSE marks[t]]
           r == [w EXCEPT !.cursor = c, !.pending = p, !.horizon = h]
<1>1. /\ w \in LedgerType /\ LedgerSound(w)
      /\ w.segments = l.segments /\ w.reclaiming = l.reclaiming \ S
      /\ w.describes_root = l.describes_root
      /\ w.pending = l.pending /\ w.cursor = l.cursor /\ w.horizon = l.horizon
      /\ Knows(w) = Knows(l)
  BY WithdrawKeeps
<1>2. Receive(l, marks) = r
  BY DEF Receive
<1>3. R \subseteq Tenant /\ \A t \in Tenant \ R : l.horizon[t] = 0 \/ l.horizon[t] <= marks[t]
  BY LedgerFields, Bounds DEF Rewound, Offset
<1> HIDE DEF R, S, w
<1>4. c \in [Tenant -> 0..SegmentsBound] /\ p \in [Seg -> SUBSET Tenant] /\ h \in [Tenant -> Offset]
  BY <1>1, <1>3, LedgerFields, Bounds, FreshRecords
<1> HIDE DEF c, p, h
<1>5. /\ r \in LedgerType /\ r.segments = w.segments /\ r.reclaiming = w.reclaiming
      /\ r.describes_root = w.describes_root /\ r.uncertain = w.uncertain /\ r.attempted = w.attempted
      /\ r.cursor = c /\ r.pending = p /\ r.horizon = h
  BY <1>1, <1>4 DEF LedgerType
<1> HIDE DEF r
<1>6. Nested(r) /\ Placed(r) /\ Knows(r) = Knows(w)
  BY <1>1, <1>5 DEF LedgerSound, Nested, Placed, Knows
<1>7. \A t : Held(r, t) = Held(l, t)
  BY <1>1, <1>5 DEF Held
<1>8. \A s \in Seg, t \in Tenant : t \in l.pending[s] <=> s \in Held(l, t) /\ s > l.cursor[t]
  BY DEF LedgerSound, Pins
<1>9. ASSUME NEW s \in Seg, NEW t \in Tenant
      PROVE  t \in p[s] <=> s \in Held(l, t) /\ s > c[t]
  <2>1. s \in Nat /\ s > 0
    BY LedgerFields
  <2>2. CASE t \in R
    <3>1. c[t] = 0
      BY <2>2 DEF c
    <3>2. t \in p[s] <=> t \in l.pending[s] \/ (s \in l.segments /\ t \in Members(s))
      BY <1>1, <2>2 DEF p
    <3> QED
      BY <1>8, <2>1, <3>1, <3>2 DEF Held
  <2>3. CASE t \notin R
    <3>1. c[t] = l.cursor[t]
      BY <1>1, <2>3 DEF c
    <3>2. t \in p[s] <=> t \in l.pending[s]
      BY <1>1, <2>3 DEF p
    <3> QED
      BY <1>8, <3>1, <3>2
  <2> QED
    BY <2>2, <2>3
<1>10. Pins(r)
  BY <1>5, <1>7, <1>9 DEF Pins
<1>11. ASSUME NEW t \in Tenant, NEW s \in Held(l, t), s <= c[t]
       PROVE  LastIn(s, t) <= h[t]
  <2>1. s \in Seg /\ s \in Nat /\ s > 0
    BY LedgerFields DEF Held
  <2>2. t \notin R /\ c[t] = l.cursor[t] /\ h[t] = marks[t]
    BY <1>1, <1>11, <2>1 DEF c, h
  <2>3. LastIn(s, t) <= l.horizon[t]
    BY <1>11, <2>2 DEF LedgerSound, Cleared
  <2>4. LastIn(s, t) \in Nat /\ l.horizon[t] \in Nat /\ marks[t] \in Nat
    BY LastInIs, LogEntries, LedgerFields, Bounds DEF Offset
  <2>5. LastIn(s, t) # 0
    BY LastInIs DEF Held
  <2> QED
    BY <1>3, <2>2, <2>3, <2>4, <2>5
<1>12. Cleared(r)
  BY <1>5, <1>7, <1>11 DEF Cleared
<1>13. ASSUME Modes = {"Known"}, NEW s \in r.reclaiming PROVE r.pending[s] = {}
  <2>1. s \in l.reclaiming /\ s \notin S /\ s \in l.segments /\ s \in Seg
    BY <1>1, <1>5, LedgerFields DEF LedgerSound, Nested
  <2>2. l.pending[s] = {}
    BY <1>13, <2>1 DEF LedgerSound, Released
  <2>3. Members(s) \cap R = {}
    BY <2>1 DEF S, Held
  <2> QED
    BY <1>1, <1>5, <2>1, <2>2, <2>3 DEF p
<1> QED
  BY <1>1, <1>2, <1>5, <1>6, <1>10, <1>12, <1>13 DEF LedgerSound, Released

\* A walk passes a tenant's covered segments in order, so what it leaves behind
\* its cursor is exactly what it unpinned.
LEMMA WalkedKeeps ==
  ASSUME RootTypes, NEW l \in LedgerType, LedgerSound(l), NEW f \in Walks(l)
  PROVE  /\ Walked(l, f) \in LedgerType /\ LedgerSound(Walked(l, f))
         /\ Walked(l, f).segments = l.segments
         /\ Walked(l, f).describes_root = l.describes_root
         /\ Knows(Walked(l, f)) = Knows(l)
<1> DEFINE c == [t \in Tenant |-> Max({l.cursor[t]} \cup f[t])]
           p == [s \in Seg |-> {t \in l.pending[s] : s \notin f[t]}]
           w == [l EXCEPT !.cursor = c, !.pending = p]
<1>1. Walked(l, f) = w
  BY DEF Walked
<1>2. /\ f \in [Tenant -> SUBSET Seg]
      /\ \A t \in Tenant : f[t] \subseteq Covered(l, t)
      /\ \A t \in Tenant : \A s \in f[t], r \in Covered(l, t) : r < s => r \in f[t]
  BY DEF Walks
<1>3. ASSUME NEW t \in Tenant
      PROVE  c[t] \in {l.cursor[t]} \cup f[t] /\ c[t] \in 0..SegmentsBound
             /\ l.cursor[t] <= c[t] /\ \A s \in f[t] : s <= c[t]
  <2>1. {l.cursor[t]} \cup f[t] \in SUBSET (0..SegmentsBound) /\ SegmentsBound \in Nat
    BY <1>2, LedgerFields, Bounds DEF Seg
  <2>2. c[t] = Max({l.cursor[t]} \cup f[t])
    OBVIOUS
  <2> HIDE DEF c
  <2>3. c[t] \in {l.cursor[t]} \cup f[t] /\ \A s \in {l.cursor[t]} \cup f[t] : s <= c[t]
    BY <2>1, <2>2, GreatestExists
  <2> QED
    BY <2>1, <2>3
<1>4. c \in [Tenant -> 0..SegmentsBound]
  BY <1>3
<1>5. p \in [Seg -> SUBSET Tenant]
  BY LedgerFields
<1> HIDE DEF c, p
<1>6. /\ w \in LedgerType /\ w.segments = l.segments /\ w.reclaiming = l.reclaiming
      /\ w.describes_root = l.describes_root /\ w.uncertain = l.uncertain /\ w.attempted = l.attempted
      /\ w.cursor = c /\ w.pending = p /\ w.horizon = l.horizon
  BY <1>4, <1>5 DEF LedgerType
<1> HIDE DEF w
<1>7. Nested(w) /\ Placed(w) /\ Knows(w) = Knows(l)
  BY <1>6 DEF LedgerSound, Nested, Placed, Knows
<1>8. \A t : Held(w, t) = Held(l, t)
  BY <1>6 DEF Held
<1>9. ASSUME NEW s \in Seg, NEW t \in Tenant
      PROVE  t \in p[s] <=> s \in Held(l, t) /\ s > c[t]
  <2>1. t \in l.pending[s] <=> s \in Held(l, t) /\ s > l.cursor[t]
    BY DEF LedgerSound, Pins
  <2>2. t \in p[s] <=> t \in l.pending[s] /\ s \notin f[t]
    BY DEF p
  <2>3. s \in Nat /\ l.cursor[t] \in Nat /\ c[t] \in Nat
    BY <1>3, LedgerFields, Bounds
  <2>4. s > c[t] => s > l.cursor[t] /\ s \notin f[t]
    BY <1>3, <2>3
  <2>5. ASSUME s \in Held(l, t), s > l.cursor[t], s \notin f[t], ~ (s > c[t]) PROVE FALSE
    <3>1. c[t] \in f[t] /\ s < c[t]
      BY <1>3, <2>3, <2>5
    <3>2. c[t] \in Covered(l, t)
      BY <1>2, <3>1
    <3>3. \A r \in Held(l, t) : r > l.cursor[t] /\ r <= c[t] => LastIn(r, t) <= l.horizon[t]
      BY <3>2 DEF Covered
    <3>4. \A r \in Held(l, t) : r \in Nat
      BY LedgerFields DEF Held
    <3>5. \A r \in Held(l, t) : r > l.cursor[t] /\ r <= s => LastIn(r, t) <= l.horizon[t]
      BY <2>3, <3>1, <3>3, <3>4
    <3>6. s \in Covered(l, t)
      BY <2>5, <3>5 DEF Covered
    <3> QED
      BY <1>2, <2>5, <3>1, <3>6
  <2> QED
    BY <2>1, <2>2, <2>4, <2>5
<1>10. Pins(w)
  BY <1>6, <1>8, <1>9 DEF Pins
<1>11. ASSUME NEW t \in Tenant, NEW s \in Held(l, t), s <= c[t]
       PROVE  LastIn(s, t) <= l.horizon[t]
  <2>1. s \in Nat /\ l.cursor[t] \in Nat /\ c[t] \in Nat
    BY <1>3, LedgerFields, Bounds DEF Held
  <2>2. CASE s <= l.cursor[t]
    BY <2>2 DEF LedgerSound, Cleared
  <2>3. CASE s > l.cursor[t]
    <3>1. c[t] \in f[t]
      BY <1>3, <1>11, <2>1, <2>3
    <3>2. c[t] \in Covered(l, t)
      BY <1>2, <3>1
    <3> QED
      BY <1>11, <2>3, <3>2 DEF Covered
  <2> QED
    BY <2>1, <2>2, <2>3
<1>12. Cleared(w)
  BY <1>6, <1>8, <1>11 DEF Cleared
<1>13. Released(w)
  <2>1. ASSUME NEW s \in Seg PROVE p[s] \subseteq l.pending[s]
    BY DEF p
  <2> QED
    BY <1>6, <2>1, LedgerFields DEF Released, LedgerSound
<1> QED
  BY <1>1, <1>6, <1>7, <1>10, <1>12, <1>13 DEF LedgerSound

LEMMA TakeKeeps ==
  ASSUME RootTypes, NEW l \in LedgerType, LedgerSound(l), NEW S \in SUBSET l.segments,
         \A s \in S : s < Cur /\ Highest(s) <= sideOld.mark,
         Modes = {"Known"} => \A s \in S : l.pending[s] = {}
  PROVE  /\ Take(l, S) \in LedgerType /\ LedgerSound(Take(l, S))
         /\ Take(l, S).segments = l.segments
         /\ Take(l, S).describes_root = l.describes_root
         /\ S \subseteq Take(l, S).reclaiming \cap Take(l, S).attempted
         /\ Knows(l) \subseteq Knows(Take(l, S)) /\ S \cap Knows(l) \subseteq Take(l, S).uncertain
<1> DEFINE w == Take(l, S)
<1>1. /\ w \in LedgerType /\ w.segments = l.segments /\ w.reclaiming = l.reclaiming \cup S
      /\ w.describes_root = l.describes_root /\ w.pending = l.pending /\ w.cursor = l.cursor
      /\ w.horizon = l.horizon /\ w.uncertain = l.uncertain \cup (S \cap l.attempted)
      /\ w.attempted = l.attempted \cup S
  BY DEF Take, LedgerType
<1> HIDE DEF w
<1>2. Nested(w)
  BY <1>1 DEF LedgerSound, Nested
<1>3. Placed(w)
  BY <1>1 DEF LedgerSound, Placed
<1>4. Pins(w) /\ Cleared(w) /\ Released(w)
  BY <1>1 DEF LedgerSound, Pins, Cleared, Released, Held
<1> QED
  BY <1>1, <1>2, <1>3, <1>4 DEF w, LedgerSound, Knows

\* A set of segments is finite, and so is its cardinality.
LEMMA SegmentSets ==
  ASSUME RootTypes, NEW S \in SUBSET Seg
  PROVE  IsFiniteSet(S) /\ Cardinality(S) \in Nat
<1>0. 1 \in Int /\ SegmentsBound \in Int
  BY Bounds
<1>1. IsFiniteSet(Seg)
  BY <1>0, FS_Interval DEF Seg
<1>2. IsFiniteSet(S)
  BY <1>1, FS_Subset
<1> QED
  BY <1>2, FS_CardinalityType

LEMMA SmallerSets ==
  ASSUME RootTypes, NEW S \in SUBSET Seg, NEW T \in SUBSET S
  PROVE  Cardinality(T) <= Cardinality(S)
  BY SegmentSets, FS_Subset

LEMMA OneMore ==
  ASSUME RootTypes, NEW S \in SUBSET Seg, NEW s \in Seg, NEW T \in SUBSET (S \cup {s})
  PROVE  Cardinality(T) <= Cardinality(S) + 1
<1>1. IsFiniteSet(S) /\ Cardinality(S) \in Nat
  BY SegmentSets
<1>2. Cardinality(S \cup {s}) <= Cardinality(S) + 1
  <2>1. Cardinality(S \cup {s}) = IF s \in S THEN Cardinality(S) ELSE Cardinality(S) + 1
    BY <1>1, FS_AddElement, Zenon
  <2> QED
    BY <1>1, <2>1
<1>3. Cardinality(T) <= Cardinality(S \cup {s})
  BY SmallerSets
<1>4. Cardinality(T) \in Nat /\ Cardinality(S \cup {s}) \in Nat
  BY SegmentSets
<1> QED
  BY <1>1, <1>2, <1>3, <1>4

\* What a pass may plan is covered and released, and its rows fit: the last of
\* them that the record had no row for was afforded.
LEMMA PopsAre ==
  ASSUME RootTypes, mem \in Record, MarkInv, Settled, files # {},
         NEW l \in LedgerType, LedgerSound(l), NEW m \in Modes, NEW S \in Pops(l, m),
         Cardinality(mem.planned) <= Cap
  PROVE  /\ S \in SUBSET l.segments
         /\ \A s \in S : s < Cur /\ Highest(s) <= sideOld.mark
         /\ Modes = {"Known"} => \A s \in S : l.pending[s] = {}
         /\ Cardinality(mem.planned \cup S) <= Cap
         /\ ~ l.describes_root => S = {}
<1> DEFINE C == Candidates(l, m)
<1>1. CASE ~ l.describes_root
  <2>1. S = {}
    BY <1>1 DEF Pops
  <2>2. mem.planned \cup S = mem.planned
    BY <2>1
  <2> QED
    BY <2>1, <2>2
<1>2. CASE l.describes_root
  <2>1. /\ S \in SUBSET C
        /\ \A s \in S : s \in mem.planned
             \/ Cardinality(mem.planned \cup {r \in S : Turn(l, r) < Turn(l, s)}) < Cap
    BY <1>2 DEF Pops, Affords
  <2>2. side = sideOld
    BY DEF Settled, MarkInv
  <2>3. Cur \in Nat /\ l.segments \in SUBSET Seg /\ Seg \subseteq Nat
    BY CurIsNewest, LedgerFields DEF Seg
  <2>4. ASSUME NEW s \in C
        PROVE  /\ s \in l.segments /\ s < Cur /\ Highest(s) <= sideOld.mark
               /\ Modes = {"Known"} => l.pending[s] = {}
    <3>1. s # Cur /\ (s \in l.reclaiming \/ (s \in l.segments /\ Highest(s) <= side.mark))
      BY DEF Candidates, Unpinned
    <3>2. s \in l.segments /\ s <= Cur /\ Highest(s) <= sideOld.mark
      BY <2>2, <3>1 DEF LedgerSound, Nested, Placed
    <3>3. Modes = {"Known"} => m = "Known"
      OBVIOUS
    <3>4. Modes = {"Known"} => l.pending[s] = {}
      BY <3>3 DEF LedgerSound, Released, Candidates, Unpinned
    <3>5. s \in Nat
      BY <2>3, <3>2
    <3>6. s < Cur
      BY <2>3, <3>1, <3>2, <3>5
    <3> QED
      BY <3>2, <3>4, <3>6
  <2>5. S \in SUBSET Seg /\ mem.planned \in SUBSET Seg
    BY <2>1, <2>3, <2>4 DEF Record
  <2>6. Cardinality(mem.planned \cup S) <= Cap
    <3>1. CASE S \subseteq mem.planned
      <4>1. mem.planned \cup S = mem.planned
        BY <3>1
      <4> QED
        BY <4>1
    <3>2. CASE ~ (S \subseteq mem.planned)
      <4> DEFINE U == S \ mem.planned
                 T == {Turn(l, r) : r \in U}
      <4>1. SegmentsBound \in Nat /\ \A r \in U : r \in 1..SegmentsBound
        BY <2>5, Bounds DEF Seg
      <4>2. \A r \in U : Turn(l, r) = IF r \in l.reclaiming THEN r ELSE r + 2 * SegmentsBound
        BY DEF Turn
      <4>3. ASSUME NEW r \in U PROVE Turn(l, r) \in 0..(3 * SegmentsBound)
        BY <4>1, <4>2
      <4>4. T \in SUBSET (0..(3 * SegmentsBound)) /\ T # {} /\ 3 * SegmentsBound \in Nat
        BY <3>2, <4>1, <4>3
      <4>5. Max(T) \in T /\ \A x \in T : x <= Max(T)
        BY <4>4, GreatestExists
      <4>6. PICK u \in U : \A r \in U : Turn(l, r) <= Turn(l, u)
        BY <4>5
      <4> DEFINE O == {r \in S : Turn(l, r) < Turn(l, u)}
      <4>7. ASSUME NEW r \in U PROVE r = u \/ Turn(l, r) < Turn(l, u)
        BY <4>1, <4>2, <4>3, <4>6
      <4>8. mem.planned \cup S \subseteq (mem.planned \cup O) \cup {u}
        BY <4>7
      <4>9. Cardinality(mem.planned \cup O) < Cap
        BY <2>1
      <4>10. mem.planned \cup O \in SUBSET Seg /\ u \in Seg
        BY <2>5
      <4> HIDE DEF O
      <4>11. Cardinality(mem.planned \cup S) <= Cardinality(mem.planned \cup O) + 1
        BY <4>8, <4>10, OneMore
      <4>12. Cardinality(mem.planned \cup O) \in Nat /\ Cardinality(mem.planned \cup S) \in Nat
        BY <2>5, <4>10, SegmentSets
      <4> QED
        BY <4>9, <4>11, <4>12, Bounds
    <3> QED
      BY <3>1, <3>2
  <2> QED
    BY <1>2, <2>1, <2>4, <2>6
<1> QED
  BY <1>1, <1>2

\* The commit of a failed pass gives its plan back.
LEMMA RestoreKeeps ==
  ASSUME RootTypes, NEW l \in LedgerType, LedgerSound(l), NEW S
  PROVE  /\ Restore(l, S) \in LedgerType /\ LedgerSound(Restore(l, S))
         /\ Restore(l, S).segments = l.segments
         /\ Restore(l, S).describes_root = l.describes_root
         /\ Restore(l, S).attempted = (l.attempted \ S) \cup (S \cap l.uncertain)
         /\ Restore(l, S).uncertain = l.uncertain \ S
<1> DEFINE w == Restore(l, S)
<1>1. /\ w \in LedgerType /\ w.segments = l.segments /\ w.reclaiming = l.reclaiming \ S
      /\ w.describes_root = l.describes_root /\ w.pending = l.pending /\ w.cursor = l.cursor
      /\ w.horizon = l.horizon /\ w.uncertain = l.uncertain \ S
      /\ w.attempted = (l.attempted \ S) \cup (S \cap l.uncertain)
  BY DEF Restore, LedgerType
<1> HIDE DEF w
<1>2. Nested(w)
  BY <1>1 DEF LedgerSound, Nested
<1>3. Placed(w)
  BY <1>1 DEF LedgerSound, Placed
<1>4. Pins(w) /\ Cleared(w) /\ Released(w)
  BY <1>1 DEF LedgerSound, Pins, Cleared, Released, Held
<1> QED
  BY <1>1, <1>2, <1>3, <1>4 DEF w, LedgerSound

\* The commit of a pass drops what it removed and holds the rest of its plan.
LEMMA HoldKeeps ==
  ASSUME RootTypes, NEW l \in LedgerType, LedgerSound(l), NEW S, NEW U, S \cap U \subseteq l.reclaiming
  PROVE  /\ Hold(l, S, U) \in LedgerType /\ LedgerSound(Hold(l, S, U))
         /\ Hold(l, S, U).segments = l.segments
         /\ Hold(l, S, U).describes_root = l.describes_root
         /\ Hold(l, S, U).attempted = l.attempted \ S
         /\ Hold(l, S, U).uncertain = (l.uncertain \ S) \cup (S \cap U)
<1> DEFINE w == Hold(l, S, U)
<1>1. /\ w \in LedgerType /\ w.segments = l.segments /\ w.reclaiming = l.reclaiming
      /\ w.describes_root = l.describes_root /\ w.pending = l.pending /\ w.cursor = l.cursor
      /\ w.horizon = l.horizon /\ w.uncertain = (l.uncertain \ S) \cup (S \cap U)
      /\ w.attempted = l.attempted \ S
  BY DEF Hold, LedgerType
<1> HIDE DEF w
<1>2. Nested(w)
  BY <1>1 DEF LedgerSound, Nested
<1>3. Placed(w)
  BY <1>1 DEF LedgerSound, Placed
<1>4. Pins(w) /\ Cleared(w) /\ Released(w)
  BY <1>1 DEF LedgerSound, Pins, Cleared, Released, Held
<1> QED
  BY <1>1, <1>2, <1>3, <1>4 DEF w, LedgerSound

LEMMA DropKeeps ==
  ASSUME RootTypes, NEW l \in LedgerType, LedgerSound(l), NEW S,
         \A s \in S : s # Cur
  PROVE  /\ Drop(l, S) \in LedgerType /\ LedgerSound(Drop(l, S))
         /\ Drop(l, S).segments = l.segments \ S
         /\ Drop(l, S).reclaiming = l.reclaiming \ S
         /\ Drop(l, S).describes_root = l.describes_root
         /\ Drop(l, S).attempted = l.attempted \ S
         /\ Drop(l, S).uncertain = l.uncertain \ S
<1> DEFINE p == [s \in Seg |-> IF s \in S THEN {} ELSE l.pending[s]]
           r == [l EXCEPT !.segments = @ \ S, !.reclaiming = @ \ S, !.uncertain = @ \ S,
                          !.attempted = @ \ S, !.pending = p]
           c == [t \in Tenant |-> IF Held(r, t) = {} THEN 0 ELSE r.cursor[t]]
           h == [t \in Tenant |-> IF Held(r, t) = {} THEN 0 ELSE r.horizon[t]]
           w == [r EXCEPT !.cursor = c, !.horizon = h]
<1>1. Drop(l, S) = w
  BY DEF Drop
<1>2. p \in [Seg -> SUBSET Tenant]
  BY LedgerFields
<1> HIDE DEF p
<1>3. /\ r \in LedgerType /\ r.segments = l.segments \ S /\ r.reclaiming = l.reclaiming \ S
      /\ r.describes_root = l.describes_root /\ r.pending = p /\ r.cursor = l.cursor
      /\ r.horizon = l.horizon /\ r.uncertain = l.uncertain \ S /\ r.attempted = l.attempted \ S
  BY <1>2 DEF LedgerType
<1> HIDE DEF r
<1>4. c \in [Tenant -> 0..SegmentsBound] /\ h \in [Tenant -> Offset]
  BY <1>3, LedgerFields, Bounds, FreshRecords
<1> HIDE DEF c, h
<1>5. /\ w \in LedgerType /\ w.segments = l.segments \ S /\ w.reclaiming = l.reclaiming \ S
      /\ w.describes_root = l.describes_root /\ w.pending = p /\ w.cursor = c
      /\ w.horizon = h /\ w.uncertain = l.uncertain \ S /\ w.attempted = l.attempted \ S
  BY <1>3, <1>4 DEF LedgerType
<1> HIDE DEF w
<1>6. Nested(w)
  BY <1>5 DEF LedgerSound, Nested
<1>7. Placed(w)
  BY <1>5 DEF LedgerSound, Placed
<1>8. ASSUME NEW t PROVE Held(w, t) = Held(r, t) /\ Held(r, t) = Held(l, t) \ S
  BY <1>3, <1>5 DEF Held
<1>9. ASSUME NEW t \in Tenant, Held(r, t) # {} PROVE c[t] = l.cursor[t] /\ h[t] = l.horizon[t]
  BY <1>3, <1>9 DEF c, h
<1>10. Pins(w)
  <2>1. ASSUME NEW s \in Seg, NEW t \in Tenant
        PROVE  t \in p[s] <=> s \in Held(w, t) /\ s > c[t]
    <3>1. t \in l.pending[s] <=> s \in Held(l, t) /\ s > l.cursor[t]
      BY DEF LedgerSound, Pins
    <3>2. t \in p[s] <=> s \notin S /\ t \in l.pending[s]
      BY DEF p
    <3> QED
      BY <1>8, <1>9, <3>1, <3>2
  <2> QED
    BY <1>5, <2>1 DEF Pins
<1>11. Cleared(w)
  <2>1. ASSUME NEW t \in Tenant, NEW s \in Held(w, t), s <= c[t] PROVE LastIn(s, t) <= h[t]
    <3>1. s \in Held(l, t) /\ c[t] = l.cursor[t] /\ h[t] = l.horizon[t]
      BY <1>8, <1>9
    <3> QED
      BY <2>1, <3>1 DEF LedgerSound, Cleared
  <2> QED
    BY <1>5, <2>1 DEF Cleared
<1>12. Released(w)
  <2>1. ASSUME NEW s \in w.reclaiming PROVE p[s] = l.pending[s] /\ s \in l.reclaiming
    BY <1>5, LedgerFields DEF p
  <2> QED
    BY <1>5, <2>1 DEF Released, LedgerSound
<1> QED
  BY <1>1, <1>5, <1>6, <1>7, <1>10, <1>11, <1>12 DEF LedgerSound
-----------------------------------------------------------------------------
\* What an action leaves alone stays as it was.
LEMMA SameSite ==
  ASSUME site' = site
  PROVE  /\ Cap' = Cap /\ Modes' = Modes /\ Halves' = Halves /\ Seg' = Seg /\ Offset' = Offset
         /\ FramesBound' = FramesBound /\ SegmentsBound' = SegmentsBound
         /\ Record' = Record /\ LedgerType' = LedgerType /\ OutstandingType' = OutstandingType
         /\ HalfType' = HalfType /\ \A d : EmptyLedger(d)' = EmptyLedger(d)
<1>1. Cap' = Cap /\ Modes' = Modes /\ Halves' = Halves /\ FramesBound' = FramesBound
      /\ SegmentsBound' = SegmentsBound
  BY DEF Cap, Modes, Halves, FramesBound, SegmentsBound
<1>2. Seg' = Seg /\ Offset' = Offset
  BY <1>1 DEF Seg, Offset
<1> QED
  BY <1>1, <1>2 DEF Record, LedgerType, OutstandingType, HalfType, EmptyLedger

LEMMA SameLog ==
  ASSUME log' = log
  PROVE  /\ \A s : Frames(s)' = Frames(s) /\ Members(s)' = Members(s) /\ Highest(s)' = Highest(s)
         /\ \A s, t : LastIn(s, t)' = LastIn(s, t)
  BY DEF Frames, Members, Highest, LastIn

LEMMA SameRoot ==
  ASSUME log' = log, files' = files
  PROVE  Cur' = Cur /\ Gone' = Gone
  BY DEF Cur, Gone, Created

LEMMA KeepRoot ==
  ASSUME RootInv, UNCHANGED <<up, files, log, unsynced, side, sideOld>>
  PROVE  RootInv'
  BY DEF RootInv, Cur

LEMMA KeepStopped ==
  ASSUME StoppedInv, UNCHANGED <<site, up, mem, gate, ledger, outstanding, live, half, late>>
  PROVE  StoppedInv'
  BY SameSite DEF StoppedInv

LEMMA KeepRecord ==
  ASSUME RecordInv, UNCHANGED <<rec, recAlt, mem, up, site>>
  PROVE  RecordInv'
  BY SameSite DEF RecordInv, GoodRecord, Proves

LEMMA KeepLoss ==
  ASSUME LossInv, UNCHANGED <<lost, rec, recAlt, mem, side, sideOld, files, unsynced, v1>>
  PROVE  LossInv'
  BY DEF LossInv

LEMMA KeepRefusal ==
  ASSUME RefusalMeansLoss, UNCHANGED <<up, lost>>
  PROVE  RefusalMeansLoss'
  BY DEF RefusalMeansLoss

LEMMA KeepAccount ==
  ASSUME AccountInv, UNCHANGED <<site, lost, files, log, half, up, mem, rec, recAlt, side, sideOld>>
  PROVE  AccountInv'
<1>1. Gone' = Gone /\ Halves' = Halves
  BY SameSite, SameRoot
<1>2. Exposed' = Exposed
  BY <1>1 DEF Exposed
<1>3. \A s : Members(s)' = Members(s) /\ \A t : LastIn(s, t)' = LastIn(s, t)
  BY SameLog
<1> QED
  BY <1>2, <1>3 DEF AccountInv, ShowsGone, Accounts

LEMMA KeepHalf ==
  ASSUME HalfInv, UNCHANGED <<site, half, mem, files, log, sideOld, unsynced>>,
         ledger'.describes_root = ledger.describes_root
  PROVE  HalfInv'
<1>1. Cur' = Cur /\ Halves' = Halves
  BY SameSite, SameRoot
<1>2. \A s : Highest(s)' = Highest(s)
  BY SameLog
<1> QED
  BY <1>1, <1>2 DEF HalfInv, HalfGood, HalfShape

LEMMA KeepReclaimed ==
  ASSUME ReclaimedInv, UNCHANGED <<rec, recAlt, mem, log, files, unsynced>>
  PROVE  ReclaimedInv'
  BY DEF ReclaimedInv, Unreturning

LEMMA KeepLate ==
  ASSUME LateInv, UNCHANGED <<site, late, live, half>>
  PROVE  LateInv'
  BY SameSite DEF LateInv

LEMMA KeepLedger ==
  ASSUME NEW l, LedgerSound(l), UNCHANGED <<site, files, log, sideOld>>, ledger' = l
  PROVE  LedgerInv'
<1>1. Cur' = Cur /\ Modes' = Modes /\ Seg' = Seg
  BY SameSite, SameRoot
<1>2. \A s : Frames(s)' = Frames(s) /\ Members(s)' = Members(s) /\ Highest(s)' = Highest(s)
  BY SameLog
<1>3. \A s, t : LastIn(s, t)' = LastIn(s, t)
  BY SameLog
<1>4. Nested(ledger)' /\ Placed(ledger)'
  BY <1>1, <1>2 DEF LedgerSound, Nested, Placed
<1>5. \A t : Held(ledger, t)' = Held(l, t)
  BY <1>2 DEF Held
<1>6. Pins(ledger)' /\ Cleared(ledger)' /\ Released(ledger)'
  BY <1>1, <1>3, <1>5 DEF LedgerSound, Pins, Cleared, Released
<1> QED
  BY <1>4, <1>6 DEF LedgerInv, LedgerSound

LEMMA KeepMark ==
  ASSUME MarkInv, UNCHANGED <<gate, side, sideOld>>
  PROVE  MarkInv'
  BY DEF MarkInv

LEMMA KeepLive ==
  ASSUME LiveInv, UNCHANGED <<site, outstanding, live, half, ledger, mem>>
  PROVE  LiveInv'
  BY SameSite DEF LiveInv

LEMMA KeepRisk ==
  ASSUME RiskInv, UNCHANGED <<site, ledger, files, half, live>>
  PROVE  RiskInv'
  BY SameSite DEF RiskInv, Expects, AtRisk, MayStillGo

\* A later checkpoint covers what an earlier one did.
LEMMA LedgerAtLaterMark ==
  ASSUME RootTypes, LedgerInv, UNCHANGED <<site, ledger, files, log>>,
         sideOld'.mark \in Nat, sideOld.mark <= sideOld'.mark
  PROVE  LedgerInv'
<1>1. Cur' = Cur /\ Modes' = Modes /\ Seg' = Seg
  BY SameSite, SameRoot
<1>2. \A s : Frames(s)' = Frames(s) /\ Members(s)' = Members(s) /\ Highest(s)' = Highest(s)
  BY SameLog
<1>3. \A s, t : LastIn(s, t)' = LastIn(s, t)
  BY SameLog
<1>4. sideOld.mark \in Nat /\ \A s : Highest(s) \in Nat
  BY Bounds, HighestIs, LogEntries DEF RootTypes, Offset
<1>5. Nested(ledger)' /\ Placed(ledger)'
  BY <1>1, <1>2, <1>4 DEF LedgerInv, LedgerSound, Nested, Placed
<1>6. \A t : Held(ledger, t)' = Held(ledger, t)
  BY <1>2 DEF Held
<1>7. Pins(ledger)' /\ Cleared(ledger)' /\ Released(ledger)'
  BY <1>1, <1>3, <1>6 DEF LedgerInv, LedgerSound, Pins, Cleared, Released
<1> QED
  BY <1>5, <1>7 DEF LedgerInv, LedgerSound
-----------------------------------------------------------------------------
\* Each action keeps the invariant.
LEMMA StutterKeeps ==
  ASSUME ReclaimInv, UNCHANGED reclaimVars
  PROVE  ReclaimInv'
<1>i. /\ RootTypes /\ RunTypes /\ RootInv /\ StoppedInv /\ RecordInv /\ LossInv
      /\ RefusalMeansLoss /\ AccountInv /\ ReclaimedInv /\ HalfInv /\ LateInv /\ LedgerInv
      /\ MarkInv /\ LiveInv /\ RiskInv
  BY DEF ReclaimInv
<1>u. UNCHANGED <<site, v1, log, files, unsynced, side, sideOld, rec, recAlt, mem, snap, up, gate,
                  legacy, ledger, outstanding, live, half, late, faults, lost>>
  BY DEF reclaimVars, fixed, dir, sidecar, record, run, pass, bounds
<1>rt. RootTypes'
  BY <1>i, <1>u, SameSite DEF RootTypes
<1>ru. RunTypes'
  BY <1>i, <1>u, SameSite DEF RunTypes
<1>ro. RootInv'
  BY <1>i, <1>u, KeepRoot
<1>sp. StoppedInv'
  BY <1>i, <1>u, KeepStopped
<1>rc. RecordInv'
  BY <1>i, <1>u, KeepRecord
<1>ls. LossInv'
  BY <1>i, <1>u, KeepLoss
<1>rf. RefusalMeansLoss'
  BY <1>i, <1>u, KeepRefusal
<1>ac. AccountInv'
  BY <1>i, <1>u, KeepAccount
<1>rg. ReclaimedInv'
  BY <1>i, <1>u, KeepReclaimed
<1>ha. HalfInv'
  BY <1>i, <1>u, KeepHalf
<1>la. LateInv'
  BY <1>i, <1>u, KeepLate
<1>le. LedgerInv'
  BY <1>i, <1>u, KeepLedger DEF LedgerInv
<1>ma. MarkInv'
  BY <1>i, <1>u, KeepMark
<1>li. LiveInv'
  BY <1>i, <1>u, KeepLive
<1>ri. RiskInv'
  BY <1>i, <1>u, KeepRisk
<1> QED
  BY <1>rt, <1>ru, <1>ro, <1>sp, <1>rc, <1>ls, <1>rf, <1>ac, <1>rg, <1>ha, <1>la, <1>le,
     <1>ma, <1>li, <1>ri DEF ReclaimInv

LEMMA SnapshotKeeps ==
  ASSUME ReclaimInv, NEW t \in site.tenants, Snapshot(t)
  PROVE  ReclaimInv'
<1>i. /\ RootTypes /\ RunTypes /\ RootInv /\ StoppedInv /\ RecordInv /\ LossInv
      /\ RefusalMeansLoss /\ AccountInv /\ ReclaimedInv /\ HalfInv /\ LateInv /\ LedgerInv
      /\ MarkInv /\ LiveInv /\ RiskInv
  BY DEF ReclaimInv
<1>u. /\ UNCHANGED <<site, v1, log, files, unsynced, side, sideOld, rec, recAlt, mem, up, gate,
                     legacy, ledger, outstanding, live, half, late, faults, lost>>
      /\ snap' = [snap EXCEPT ![t] = Len(log)]
  BY DEF Snapshot, fixed, dir, sidecar, record, run, pass, bounds
<1>1. t \in Tenant /\ Len(log) \in Offset
  BY <1>i, Bounds, LogEntries DEF RootTypes, Offset
<1>rt. RootTypes'
  BY <1>i, <1>u, <1>1, SameSite DEF RootTypes
<1>ru. RunTypes'
  BY <1>i, <1>u, SameSite DEF RunTypes
<1>ro. RootInv'
  BY <1>i, <1>u, KeepRoot
<1>sp. StoppedInv'
  BY <1>i, <1>u, KeepStopped
<1>rc. RecordInv'
  BY <1>i, <1>u, KeepRecord
<1>ls. LossInv'
  BY <1>i, <1>u, KeepLoss
<1>rf. RefusalMeansLoss'
  BY <1>i, <1>u, KeepRefusal
<1>ac. AccountInv'
  BY <1>i, <1>u, KeepAccount
<1>rg. ReclaimedInv'
  BY <1>i, <1>u, KeepReclaimed
<1>ha. HalfInv'
  BY <1>i, <1>u, KeepHalf
<1>la. LateInv'
  BY <1>i, <1>u, KeepLate
<1>le. LedgerInv'
  BY <1>i, <1>u, KeepLedger DEF LedgerInv
<1>ma. MarkInv'
  BY <1>i, <1>u, KeepMark
<1>li. LiveInv'
  BY <1>i, <1>u, KeepLive
<1>ri. RiskInv'
  BY <1>i, <1>u, KeepRisk
<1> QED
  BY <1>rt, <1>ru, <1>ro, <1>sp, <1>rc, <1>ls, <1>rf, <1>ac, <1>rg, <1>ha, <1>la, <1>le,
     <1>ma, <1>li, <1>ri DEF ReclaimInv

LEMMA RebuildLedgerKeeps ==
  ASSUME ReclaimInv, RebuildLedger
  PROVE  ReclaimInv'
<1>i. /\ RootTypes /\ RunTypes /\ RootInv /\ StoppedInv /\ RecordInv /\ LossInv
      /\ RefusalMeansLoss /\ AccountInv /\ ReclaimedInv /\ HalfInv /\ LateInv /\ LedgerInv
      /\ MarkInv /\ LiveInv /\ RiskInv
  BY DEF ReclaimInv
<1> DEFINE l == [EmptyLedger(TRUE) EXCEPT
                   !.segments = {s \in files : Frames(s) # {}},
                   !.pending = [s \in Seg |-> IF s \in files THEN Members(s) ELSE {}]]
<1>u. /\ UNCHANGED <<site, v1, log, files, unsynced, side, sideOld, rec, recAlt, mem, snap, up, gate,
                     legacy, outstanding, live, half, late, faults, lost>>
      /\ up = "up" /\ ~ ledger.describes_root /\ ledger' = l
  BY DEF RebuildLedger, fixed, dir, sidecar, record, run, bounds
<1>1. files # {} /\ Cur \in files /\ Cur \in Seg /\ \A s \in files : s <= Cur
  BY <1>i, <1>u, CurIsNewest DEF RootInv
<1>2. [s \in Seg |-> IF s \in files THEN Members(s) ELSE {}] \in [Seg -> SUBSET Tenant]
  BY <1>i, LogEntries DEF Members, Frames
<1>3. [t \in Tenant |-> 0] \in [Tenant -> 0..SegmentsBound] /\ [t \in Tenant |-> 0] \in [Tenant -> Offset]
  BY <1>i, Bounds, FreshRecords
<1>4. {s \in files : Frames(s) # {}} \in SUBSET Seg
  BY <1>i DEF RootTypes
<1>5. /\ l \in LedgerType /\ l.describes_root = TRUE /\ l.segments = {s \in files : Frames(s) # {}}
      /\ l.reclaiming = {} /\ l.uncertain = {} /\ l.attempted = {}
      /\ l.cursor = [t \in Tenant |-> 0] /\ l.horizon = [t \in Tenant |-> 0]
      /\ l.pending = [s \in Seg |-> IF s \in files THEN Members(s) ELSE {}]
  BY <1>2, <1>3, <1>4 DEF EmptyLedger, LedgerType
<1> HIDE DEF l
<1>6. Nested(l) /\ Placed(l) /\ Released(l)
  BY <1>1, <1>5 DEF Nested, Placed, Released
<1>7. Pins(l) /\ Cleared(l)
  <2>1. \A s \in Seg : s \in Nat /\ s > 0
    BY <1>i, Bounds DEF Seg
  <2>2. \A s, t : s \in Held(l, t) <=> s \in files /\ t \in Members(s)
    BY <1>5 DEF Held, Members
  <2>3. \A t \in Tenant : l.cursor[t] = 0
    BY <1>5
  <2>4. \A s \in Seg, t \in Tenant : t \in l.pending[s] <=> s \in files /\ t \in Members(s)
    BY <1>5
  <2>5. files \in SUBSET Seg
    BY <1>i DEF RootTypes
  <2> QED
    BY <2>1, <2>2, <2>3, <2>4, <2>5 DEF Pins, Cleared
<1>8. \A p \in Halves : half[p].plan = {} /\ half[p].uncertain = {} /\ half[p].todo = {}
  BY <1>i, <1>u DEF HalfInv, HalfGood, HalfShape
<1>rt. RootTypes'
  BY <1>i, <1>u, SameSite DEF RootTypes
<1>ru. RunTypes'
  BY <1>i, <1>u, <1>5, SameSite DEF RunTypes
<1>sp. StoppedInv'
  BY <1>u DEF StoppedInv
<1>ha. HalfInv'
  <2>1. Halves' = Halves
    BY <1>u, SameSite
  <2>2. Cur' = Cur
    BY <1>u, SameRoot
  <2> QED
    BY <1>i, <1>u, <1>8, <2>1 DEF HalfInv, HalfGood, HalfShape
<1>le. LedgerInv'
  BY <1>u, <1>6, <1>7, KeepLedger DEF LedgerSound
<1>li. LiveInv'
  <2>1. live # NoPass => live \in Halves
    BY <1>i DEF RunTypes
  <2> QED
    BY <1>i, <1>u, <1>5, <1>8, <2>1, SameSite DEF LiveInv
<1>ri. RiskInv'
  <2>1. live # NoPass => live \in Halves
    BY <1>i DEF RunTypes
  <2>2. \A s \in l.segments : s \in files
    BY <1>5
  <2>3. \A s : ~ MayStillGo(s)'
    BY <1>u, <1>8, SameSite DEF MayStillGo
  <2> QED
    BY <1>u, <1>8, <2>1, <2>2, <2>3 DEF RiskInv, Expects, AtRisk
<1>ro. RootInv'
  BY <1>i, <1>u, KeepRoot
<1>rc. RecordInv'
  BY <1>i, <1>u, KeepRecord
<1>ls. LossInv'
  BY <1>i, <1>u, KeepLoss
<1>rf. RefusalMeansLoss'
  BY <1>i, <1>u, KeepRefusal
<1>ac. AccountInv'
  BY <1>i, <1>u, KeepAccount
<1>rg. ReclaimedInv'
  BY <1>i, <1>u, KeepReclaimed
<1>la. LateInv'
  BY <1>i, <1>u, KeepLate
<1>ma. MarkInv'
  BY <1>i, <1>u, KeepMark
<1> QED
  BY <1>rt, <1>ru, <1>ro, <1>sp, <1>rc, <1>ls, <1>rf, <1>ac, <1>rg, <1>ha, <1>la, <1>le,
     <1>ma, <1>li, <1>ri DEF ReclaimInv

\* Fewer exposed segments need no more accounting.
LEMMA AccountLess ==
  ASSUME AccountInv, UNCHANGED <<lost, log, up, mem, rec, recAlt, side, sideOld>>,
         Exposed' \subseteq Exposed
  PROVE  AccountInv'
<1>1. \A s : Members(s)' = Members(s) /\ \A t : LastIn(s, t)' = LastIn(s, t)
  BY SameLog
<1> QED
  BY <1>1 DEF AccountInv, ShowsGone, Accounts

\* Fewer halves that may still remove a file leave no more at risk.
LEMMA RiskLess ==
  ASSUME RiskInv, UNCHANGED <<ledger, files, live>>,
         \A s : MayStillGo(s)' => MayStillGo(s),
         live # NoPass /\ half'[live] # Idle =>
           /\ half[live] # Idle /\ half'[live].plan = half[live].plan
           /\ half'[live].removed = half[live].removed
           /\ half'[live].uncertain = half[live].uncertain
  PROVE  RiskInv'
<1>1. \A s : AtRisk(s)' => AtRisk(s)
  BY DEF AtRisk
<1> QED
  BY <1>1 DEF RiskInv, Expects

\* A step of one file half p to h that concerns nothing else.
LEMMA HalfStep ==
  ASSUME NEW p \in Halves, half \in [Halves -> HalfType], NEW h \in HalfType,
         half' = [half EXCEPT ![p] = h]
  PROVE  half' \in [Halves -> HalfType] /\ half'[p] = h /\ \A q \in Halves : q # p => half'[q] = half[q]
  OBVIOUS

LEMMA HalvesKept ==
  ASSUME HalfInv, UNCHANGED <<site, mem, files, log, sideOld, unsynced>>,
         ledger'.describes_root = ledger.describes_root, NEW p \in Halves,
         \A q \in Halves : q # p => half'[q] = half[q],
         HalfShape(half'[p]), half'[p].plan = half[p].plan,
         half'[p].removed \cap files = {},
         half'[p].st = "unlinked" /\ ~ half'[p].fsync_failed => half'[p].removed \cap unsynced = {}
  PROVE  HalfInv'
<1>1. Cur' = Cur /\ Halves' = Halves
  BY SameSite, SameRoot
<1>2. \A s : Highest(s)' = Highest(s)
  BY SameLog
<1>3. \A q \in Halves : HalfShape(half[q]) /\ HalfGood(half[q])
  BY DEF HalfInv, HalfGood
<1>4. \A q \in Halves : q # p => HalfShape(half'[q])
  BY <1>3
<1>5. \A q \in Halves : HalfShape(half[q])'
  BY <1>4 DEF HalfShape
<1>6. ASSUME NEW q \in Halves, q # p PROVE HalfGood(half[q])'
  BY <1>1, <1>2, <1>3, <1>5, <1>6 DEF HalfGood
<1>7. HalfGood(half[p])'
  BY <1>1, <1>2, <1>3, <1>5 DEF HalfGood
<1> QED
  BY <1>1, <1>6, <1>7 DEF HalfInv

LEMMA CheckPermitKeeps ==
  ASSUME ReclaimInv, NEW p \in Halves, CheckPermit(p)
  PROVE  ReclaimInv'
<1>i. /\ RootTypes /\ RunTypes /\ RootInv /\ StoppedInv /\ RecordInv /\ LossInv
      /\ RefusalMeansLoss /\ AccountInv /\ ReclaimedInv /\ HalfInv /\ LateInv /\ LedgerInv
      /\ MarkInv /\ LiveInv /\ RiskInv
  BY DEF ReclaimInv
<1> DEFINE g == half[p]
           h == [g EXCEPT !.st = IF Holds(p) THEN "checked" ELSE @,
                          !.todo = IF Holds(p) THEN @ ELSE @ \ {Min(@)}]
<1>u. UNCHANGED <<site, v1, log, files, unsynced, side, sideOld, rec, recAlt, mem, snap, up, gate,
                  legacy, ledger, outstanding, live, late, faults, lost>>
  BY DEF CheckPermit, fixed, dir, sidecar, record, run, pass, bounds
<1>1. g \in HalfType /\ half \in [Halves -> HalfType] /\ HalfShape(g) /\ HalfGood(g)
  BY <1>i DEF RunTypes, HalfInv, HalfGood
<1>2. g.st = "unlinking" /\ g.todo # {} /\ half' = [half EXCEPT ![p] = h]
  BY <1>1 DEF CheckPermit, HalfType
<1>3. /\ h \in HalfType /\ h.plan = g.plan /\ h.removed = g.removed /\ h.uncertain = g.uncertain
      /\ h.records = g.records /\ h.mode = g.mode /\ h.fsync_failed = g.fsync_failed
      /\ h.todo \subseteq g.todo /\ h.st \in {"unlinking", "checked"}
      /\ h.st = "checked" => live = p /\ h.todo # {}
  BY <1>1, <1>2 DEF HalfType, Holds
<1> HIDE DEF h
<1>4. half' \in [Halves -> HalfType] /\ half'[p] = h /\ \A q \in Halves : q # p => half'[q] = half[q]
  BY <1>1, <1>2, <1>3, HalfStep
<1>5. g # Idle /\ HalfShape(h) /\ h # Idle
  BY <1>1, <1>2, <1>3 DEF HalfShape, Idle
<1>6. Halves' = Halves
  BY <1>u, SameSite
<1>rt. RootTypes'
  BY <1>i, <1>u, SameSite DEF RootTypes
<1>ru. RunTypes'
  BY <1>i, <1>u, <1>4, SameSite DEF RunTypes
<1>sp. StoppedInv'
  <2>1. up = "up"
    BY <1>i, <1>5 DEF StoppedInv
  <2> QED
    BY <1>u, <2>1 DEF StoppedInv
<1>ac. AccountInv'
  <2>1. Gone' = Gone
    BY <1>u, SameRoot
  <2>2. \A q \in Halves : half'[q].todo \subseteq half[q].todo
    BY <1>3, <1>4
  <2>3. Exposed' \subseteq Exposed
    BY <1>6, <2>1, <2>2 DEF Exposed
  <2> QED
    BY <1>i, <1>u, <2>3, AccountLess
<1>ha. HalfInv'
  BY <1>i, <1>u, <1>1, <1>3, <1>4, <1>5, HalvesKept DEF HalfGood
<1>la. LateInv'
  BY <1>i, <1>u, <1>2, <1>3, <1>4, <1>6 DEF LateInv
<1>li. LiveInv'
  BY <1>i, <1>u, <1>3, <1>4, <1>5, <1>6, SameSite DEF LiveInv, RunTypes
<1>ri. RiskInv'
  <2>1. \A s : MayStillGo(s)' => MayStillGo(s)
    BY <1>u, <1>3, <1>4, <1>6 DEF MayStillGo
  <2>2. live # NoPass => live \in Halves
    BY <1>i DEF RunTypes
  <2> QED
    BY <1>i, <1>u, <1>3, <1>4, <1>5, <2>1, <2>2, RiskLess
<1>ro. RootInv'
  BY <1>i, <1>u, KeepRoot
<1>rc. RecordInv'
  BY <1>i, <1>u, KeepRecord
<1>ls. LossInv'
  BY <1>i, <1>u, KeepLoss
<1>rf. RefusalMeansLoss'
  BY <1>i, <1>u, KeepRefusal
<1>rg. ReclaimedInv'
  BY <1>i, <1>u, KeepReclaimed
<1>le. LedgerInv'
  BY <1>i, <1>u, KeepLedger DEF LedgerInv
<1>ma. MarkInv'
  BY <1>i, <1>u, KeepMark
<1> QED
  BY <1>rt, <1>ru, <1>ro, <1>sp, <1>rc, <1>ls, <1>rf, <1>ac, <1>rg, <1>ha, <1>la, <1>le,
     <1>ma, <1>li, <1>ri DEF ReclaimInv

LEMMA PanicKeeps ==
  ASSUME ReclaimInv, NEW p \in Halves, Panic(p)
  PROVE  ReclaimInv'
<1>i. /\ RootTypes /\ RunTypes /\ RootInv /\ StoppedInv /\ RecordInv /\ LossInv
      /\ RefusalMeansLoss /\ AccountInv /\ ReclaimedInv /\ HalfInv /\ LateInv /\ LedgerInv
      /\ MarkInv /\ LiveInv /\ RiskInv
  BY DEF ReclaimInv
<1>u. UNCHANGED <<site, v1, log, files, unsynced, side, sideOld, rec, recAlt, mem, snap, up, gate,
                  legacy, ledger, outstanding, live, lost>>
  BY DEF Panic, fixed, dir, sidecar, record, run, pass
<1>1. /\ half[p] # Idle /\ half' = [half EXCEPT ![p] = Idle] /\ late' = [late EXCEPT ![p] = {}]
      /\ faults' = faults + 1
  BY DEF Panic, Fault
<1>2. Idle \in HalfType /\ HalfShape(Idle) /\ Idle.plan = {} /\ Idle.todo = {} /\ Idle.st = "idle"
      /\ Idle.removed = {}
  BY DEF Idle, HalfType, Mode, HalfShape
<1>3. half \in [Halves -> HalfType] /\ late \in [Halves -> SUBSET Seg]
  BY <1>i DEF RunTypes
<1>4. half' \in [Halves -> HalfType] /\ half'[p] = Idle /\ \A q \in Halves : q # p => half'[q] = half[q]
  BY <1>1, <1>2, <1>3, HalfStep
<1>5. late' \in [Halves -> SUBSET Seg] /\ late'[p] = {} /\ \A q \in Halves : q # p => late'[q] = late[q]
  BY <1>1, <1>3
<1>6. Halves' = Halves /\ Cap' = Cap
  BY <1>u, SameSite
<1>rt. RootTypes'
  BY <1>i, <1>u, <1>1, SameSite DEF RootTypes
<1>ru. RunTypes'
  BY <1>i, <1>u, <1>4, <1>5, SameSite DEF RunTypes
<1>sp. StoppedInv'
  <2>1. up = "up"
    BY <1>i, <1>1 DEF StoppedInv
  <2> QED
    BY <1>u, <2>1 DEF StoppedInv
<1>ac. AccountInv'
  <2>1. Gone' = Gone
    BY <1>u, SameRoot
  <2>2. \A q \in Halves : half'[q].todo \subseteq half[q].todo
    BY <1>2, <1>4
  <2>3. Exposed' \subseteq Exposed
    BY <1>6, <2>1, <2>2 DEF Exposed
  <2> QED
    BY <1>i, <1>u, <2>3, AccountLess
<1>ha. HalfInv'
  <2>1. Cur' = Cur
    BY <1>u, SameRoot
  <2>2. \A s : Highest(s)' = Highest(s)
    BY <1>u, SameLog
  <2>3. HalfGood(half[p])'
    BY <1>2, <1>4 DEF HalfGood, HalfShape
  <2>4. ASSUME NEW q \in Halves, q # p PROVE HalfGood(half[q])'
    BY <1>i, <1>u, <1>4, <2>1, <2>2, <2>4 DEF HalfInv, HalfGood, HalfShape
  <2> QED
    BY <1>6, <2>3, <2>4 DEF HalfInv
<1>la. LateInv'
  <2>1. Cardinality({}) = 0
    BY FS_EmptySet
  <2>2. ASSUME NEW q \in Halves
        PROVE  /\ late'[q] # {} => live' # q /\ half'[q].st \in {"unlinking", "unlinked"}
               /\ Cardinality(late'[q]) <= 1
    <3>1. CASE q = p
      BY <1>5, <2>1, <3>1
    <3>2. CASE q # p
      BY <1>i, <1>u, <1>4, <1>5, <3>2 DEF LateInv
    <3> QED
      BY <3>1, <3>2
  <2> QED
    BY <1>6, <2>2 DEF LateInv
<1>li. LiveInv'
  BY <1>i, <1>u, <1>4, <1>6 DEF LiveInv, RunTypes
<1>ri. RiskInv'
  <2>1. \A s : MayStillGo(s)' => MayStillGo(s)
    BY <1>u, <1>2, <1>4, <1>6 DEF MayStillGo
  <2>2. live # NoPass => live \in Halves
    BY <1>i DEF RunTypes
  <2> QED
    BY <1>i, <1>u, <1>4, <2>1, <2>2, RiskLess
<1>ro. RootInv'
  BY <1>i, <1>u, KeepRoot
<1>rc. RecordInv'
  BY <1>i, <1>u, KeepRecord
<1>ls. LossInv'
  BY <1>i, <1>u, KeepLoss
<1>rf. RefusalMeansLoss'
  BY <1>i, <1>u, KeepRefusal
<1>rg. ReclaimedInv'
  BY <1>i, <1>u, KeepReclaimed
<1>le. LedgerInv'
  BY <1>i, <1>u, KeepLedger DEF LedgerInv
<1>ma. MarkInv'
  BY <1>i, <1>u, KeepMark
<1> QED
  BY <1>rt, <1>ru, <1>ro, <1>sp, <1>rc, <1>ls, <1>rf, <1>ac, <1>rg, <1>ha, <1>la, <1>le,
     <1>ma, <1>li, <1>ri DEF ReclaimInv

LEMMA SyncParentKeeps ==
  ASSUME ReclaimInv, NEW p \in Halves, SyncParent(p)
  PROVE  ReclaimInv'
<1>i. /\ RootTypes /\ RunTypes /\ RootInv /\ StoppedInv /\ RecordInv /\ LossInv
      /\ RefusalMeansLoss /\ AccountInv /\ ReclaimedInv /\ HalfInv /\ LateInv /\ LedgerInv
      /\ MarkInv /\ LiveInv /\ RiskInv
  BY DEF ReclaimInv
<1> DEFINE g == half[p]
<1>u. UNCHANGED <<site, v1, log, files, side, rec, recAlt, mem, snap, up, gate,
                  legacy, ledger, outstanding, live, late, lost>>
  BY DEF SyncParent, fixed, record, run, pass
<1>1. g \in HalfType /\ half \in [Halves -> HalfType] /\ HalfShape(g) /\ HalfGood(g)
  BY <1>i DEF RunTypes, HalfInv, HalfGood
<1>2. g.st = "unlinking" /\ g.todo = {} /\ g # Idle
  BY DEF SyncParent, Idle
<1>3. \E h \in HalfType :
        /\ half' = [half EXCEPT ![p] = h]
        /\ h.st = "unlinked" /\ h.todo = {} /\ h.plan = g.plan /\ h.removed = g.removed
        /\ h.uncertain = g.uncertain /\ h.records = g.records /\ h.mode = g.mode
        /\ unsynced' \in {unsynced, {}} /\ (unsynced' # {} => sideOld' = sideOld)
        /\ sideOld' \in {sideOld, side}
        /\ h.fsync_failed \/ g.removed = {} \/ unsynced' = {}
        /\ faults' \in {faults, faults + 1}
  <2>1. CASE g.removed = {} /\ Goes(p, "unlinked") /\ UNCHANGED <<unsynced, sideOld, faults>>
    <3> DEFINE h == [g EXCEPT !.st = "unlinked"]
    <3>1. h \in HalfType /\ half' = [half EXCEPT ![p] = h]
      BY <1>1, <2>1 DEF HalfType, Goes
    <3> QED
      BY <1>1, <1>2, <2>1, <3>1 DEF HalfType
  <2>2. CASE g.removed # {} /\ Goes(p, "unlinked") /\ unsynced' = {} /\ sideOld' = side /\ UNCHANGED faults
    <3> DEFINE h == [g EXCEPT !.st = "unlinked"]
    <3>1. h \in HalfType /\ half' = [half EXCEPT ![p] = h]
      BY <1>1, <2>2 DEF HalfType, Goes
    <3> QED
      BY <1>1, <1>2, <2>2, <3>1 DEF HalfType
  <2>3. CASE /\ g.removed # {} /\ Fault /\ UNCHANGED <<unsynced, sideOld>>
             /\ half' = [half EXCEPT ![p].st = "unlinked", ![p].fsync_failed = TRUE]
    <3> DEFINE h == [g EXCEPT !.st = "unlinked", !.fsync_failed = TRUE]
    <3>1. h \in HalfType /\ half' = [half EXCEPT ![p] = h]
      BY <1>1, <2>3 DEF HalfType
    <3> QED
      BY <1>1, <1>2, <2>3, <3>1 DEF HalfType, Fault
  <2> QED
    BY <2>1, <2>2, <2>3 DEF SyncParent
<1>4. PICK h \in HalfType :
        /\ half' = [half EXCEPT ![p] = h]
        /\ h.st = "unlinked" /\ h.todo = {} /\ h.plan = g.plan /\ h.removed = g.removed
        /\ h.uncertain = g.uncertain /\ h.records = g.records /\ h.mode = g.mode
        /\ unsynced' \in {unsynced, {}} /\ (unsynced' # {} => sideOld' = sideOld)
        /\ sideOld' \in {sideOld, side}
        /\ h.fsync_failed \/ g.removed = {} \/ unsynced' = {}
        /\ faults' \in {faults, faults + 1}
  BY <1>3
<1>5. half' \in [Halves -> HalfType] /\ half'[p] = h /\ \A q \in Halves : q # p => half'[q] = half[q]
  BY <1>1, <1>4, HalfStep
<1>6. HalfShape(h) /\ h # Idle
  BY <1>1, <1>2, <1>4 DEF HalfShape, Idle
<1>7. Halves' = Halves /\ Cap' = Cap
  BY <1>u, SameSite
<1>8. Cur' = Cur /\ Gone' = Gone
  BY <1>u, SameRoot
<1>9. side \in [v : 0..2, mark : Offset] /\ sideOld \in [v : 0..2, mark : Offset]
      /\ side.mark \in Nat /\ sideOld.mark \in Nat /\ sideOld'.mark \in Nat
      /\ sideOld.mark <= sideOld'.mark
  BY <1>i, <1>4, Bounds DEF RootTypes, MarkInv, Offset
<1>rt. RootTypes'
  BY <1>i, <1>u, <1>4, SameSite DEF RootTypes
<1>ru. RunTypes'
  BY <1>i, <1>u, <1>5, SameSite DEF RunTypes
<1>ro. RootInv'
  BY <1>i, <1>u, <1>4, <1>8 DEF RootInv
<1>sp. StoppedInv'
  <2>1. up = "up"
    BY <1>i, <1>2 DEF StoppedInv
  <2> QED
    BY <1>u, <2>1 DEF StoppedInv
<1>ls. LossInv'
  BY <1>i, <1>u, <1>4 DEF LossInv
<1>ac. AccountInv'
  <2>1. \A q \in Halves : half'[q].todo \subseteq half[q].todo
    BY <1>4, <1>5
  <2>2. Exposed' \subseteq Exposed
    BY <1>7, <1>8, <2>1 DEF Exposed
  <2>3. \A s : Members(s)' = Members(s) /\ \A t : LastIn(s, t)' = LastIn(s, t)
    BY <1>u, SameLog
  <2> QED
    BY <1>i, <1>u, <1>4, <2>2, <2>3 DEF AccountInv, ShowsGone, Accounts
<1>rg. ReclaimedInv'
  BY <1>i, <1>u, <1>4 DEF ReclaimedInv, Unreturning
<1>ha. HalfInv'
  <2>1. \A s : Highest(s)' = Highest(s)
    BY <1>u, SameLog
  <2>2. \A s : Highest(s) \in Nat
    BY <1>i, HighestIs, LogEntries
  <2>3. \A q \in Halves : HalfGood(half[q])
    BY <1>i DEF HalfInv
  <2>4. ASSUME NEW q \in Halves, q # p PROVE HalfGood(half[q])'
    <3>1. half'[q] = half[q] /\ HalfShape(half[q])
      BY <1>5, <2>3, <2>4 DEF HalfGood
    <3>2. HalfShape(half[q])'
      BY <3>1 DEF HalfShape
    <3>3. \A s \in half[q].plan : s < Cur /\ Highest(s) <= sideOld'.mark
      BY <1>9, <2>2, <2>3 DEF HalfGood
    <3> QED
      BY <1>u, <1>4, <1>8, <2>1, <2>3, <3>1, <3>2, <3>3 DEF HalfGood
  <2>5. HalfGood(half[p])'
    <3>1. HalfShape(half[p])'
      BY <1>5, <1>6 DEF HalfShape
    <3>2. \A s \in g.plan : s < Cur /\ Highest(s) <= sideOld'.mark
      BY <1>9, <2>2, <2>3 DEF HalfGood
    <3> QED
      BY <1>u, <1>4, <1>5, <1>8, <2>1, <2>3, <3>1, <3>2 DEF HalfGood
  <2> QED
    BY <1>7, <2>4, <2>5 DEF HalfInv
<1>la. LateInv'
  BY <1>i, <1>u, <1>2, <1>4, <1>5, <1>7 DEF LateInv
<1>le. LedgerInv'
  BY <1>i, <1>u, <1>9, LedgerAtLaterMark
<1>ma. MarkInv'
  BY <1>i, <1>u, <1>4, <1>9 DEF MarkInv
<1>li. LiveInv'
  BY <1>i, <1>u, <1>2, <1>4, <1>5, <1>6, <1>7 DEF LiveInv, RunTypes
<1>ri. RiskInv'
  <2>1. \A s : MayStillGo(s)' => MayStillGo(s)
    BY <1>u, <1>4, <1>5, <1>7 DEF MayStillGo
  <2>2. live # NoPass => live \in Halves
    BY <1>i DEF RunTypes
  <2> QED
    BY <1>i, <1>u, <1>2, <1>4, <1>5, <1>6, <2>1, <2>2, RiskLess
<1>rc. RecordInv'
  BY <1>i, <1>u, KeepRecord
<1>rf. RefusalMeansLoss'
  BY <1>i, <1>u, KeepRefusal
<1> QED
  BY <1>rt, <1>ru, <1>ro, <1>sp, <1>rc, <1>ls, <1>rf, <1>ac, <1>rg, <1>ha, <1>la, <1>le,
     <1>ma, <1>li, <1>ri DEF ReclaimInv

LEMMA WritePlanKeeps ==
  ASSUME ReclaimInv, NEW p \in Halves, WritePlan(p)
  PROVE  ReclaimInv'
<1>i. /\ RootTypes /\ RunTypes /\ RootInv /\ StoppedInv /\ RecordInv /\ LossInv
      /\ RefusalMeansLoss /\ AccountInv /\ ReclaimedInv /\ HalfInv /\ LateInv /\ LedgerInv
      /\ MarkInv /\ LiveInv /\ RiskInv
  BY DEF ReclaimInv
<1> DEFINE g == half[p]
           r == Merged(g)
<1>u. UNCHANGED <<site, v1, log, files, unsynced, side, sideOld, snap, up, gate,
                  legacy, ledger, outstanding, live, late, lost>>
  BY DEF WritePlan, fixed, dir, sidecar, run, pass
<1>1. /\ g \in HalfType /\ half \in [Halves -> HalfType] /\ HalfShape(g) /\ HalfGood(g)
      /\ mem \in Record /\ rec \in Record /\ recAlt \in Record
  BY <1>i DEF RunTypes, RootTypes, HalfInv, HalfGood
<1>2. g.st = "planned" /\ g # Idle /\ g.mode # "none" /\ g.todo = {} /\ g.removed = {} /\ ~ g.fsync_failed
  BY <1>1 DEF WritePlan, Idle, HalfShape, HalfType
<1>3. up = "up"
  BY <1>i, <1>2 DEF StoppedInv
<1>4. /\ r \in Record /\ r.witness = mem.witness /\ r.reclaimed = mem.reclaimed
      /\ r.planned = mem.planned \cup g.plan
  BY <1>1, <1>2, MergedIs
<1> DEFINE f == [g EXCEPT !.st = "failed"]
           k == [g EXCEPT !.st = "unlinking", !.todo = g.plan]
           writes == g.records /\ mem # NoRecord /\ (g.plan # {} \/ r.mode # mem.mode)
<1>5. ~ writes => g.plan = {}
  BY <1>1 DEF HalfGood, HalfShape, NoRecord
<1>6. \/ /\ half' = [half EXCEPT ![p] = f] /\ UNCHANGED <<rec, recAlt, mem>> /\ faults' = faults
         /\ live # p
      \/ /\ half' = [half EXCEPT ![p] = k] /\ UNCHANGED <<rec, recAlt, mem>> /\ faults' = faults
         /\ g.plan = {} /\ live = p
      \/ /\ half' = [half EXCEPT ![p] = k] /\ rec' = r /\ recAlt' = NoRecord /\ mem' = r
         /\ faults' = faults /\ mem # NoRecord /\ live = p
      \/ /\ half' = [half EXCEPT ![p] = f] /\ recAlt' = r /\ UNCHANGED <<rec, mem>>
         /\ faults' = faults + 1 /\ mem # NoRecord /\ live = p
  <2>1. CASE live # p /\ Goes(p, "failed") /\ UNCHANGED <<record, faults>>
    BY <1>1, <2>1 DEF Goes, record
  <2>2. CASE live = p /\ ~ writes /\ Permitted(p) /\ UNCHANGED <<record, faults>>
    BY <1>1, <1>5, <2>2 DEF Permitted, record
  <2>3. CASE live = p /\ writes /\ Committed(r) /\ Permitted(p) /\ UNCHANGED faults
    BY <1>1, <2>3 DEF Permitted, Committed
  <2>4. CASE live = p /\ writes /\ CommitFailed(r) /\ Goes(p, "failed") /\ Fault
    BY <1>1, <2>4 DEF Goes, CommitFailed, Fault
  <2> QED
    BY <2>1, <2>2, <2>3, <2>4 DEF WritePlan
<1>7. /\ f \in HalfType /\ f.st = "failed" /\ f.todo = {} /\ f.removed = {} /\ ~ f.fsync_failed
      /\ f.plan = g.plan /\ f.uncertain = g.uncertain /\ f.records = g.records /\ f.mode = g.mode
      /\ k \in HalfType /\ k.st = "unlinking" /\ k.todo = g.plan /\ k.removed = {} /\ ~ k.fsync_failed
      /\ k.plan = g.plan /\ k.uncertain = g.uncertain /\ k.records = g.records /\ k.mode = g.mode
  BY <1>1, <1>2 DEF HalfType
<1> HIDE DEF f, k, r
<1>8. PICK h \in {f, k} :
        /\ half' = [half EXCEPT ![p] = h]
        /\ \/ UNCHANGED <<rec, recAlt, mem>> /\ h.todo = {}
           \/ /\ mem # NoRecord /\ live = p
              /\ \/ rec' = r /\ recAlt' = NoRecord /\ mem' = r
                 \/ recAlt' = r /\ UNCHANGED <<rec, mem>> /\ h.todo = {}
        /\ faults' \in {faults, faults + 1}
  BY <1>6, <1>7
<1>9. /\ h \in HalfType /\ h.st \in {"failed", "unlinking"} /\ h.todo \in {{}, g.plan} /\ h.removed = {}
      /\ ~ h.fsync_failed /\ h.plan = g.plan /\ h.uncertain = g.uncertain /\ h.records = g.records
      /\ h.mode = g.mode /\ (h.st = "failed" => h.todo = {})
  BY <1>7
<1>10. half' \in [Halves -> HalfType] /\ half'[p] = h /\ \A q \in Halves : q # p => half'[q] = half[q]
  BY <1>1, <1>8, <1>9, HalfStep
<1>11. HalfShape(h) /\ h # Idle
  BY <1>1, <1>2, <1>9 DEF HalfShape, Idle
<1>12. Halves' = Halves /\ Cap' = Cap /\ Record' = Record
  BY <1>u, SameSite
<1>13. mem # NoRecord => mem.witness # "none" /\ r # NoRecord
  BY <1>i, <1>4 DEF RecordInv, GoodRecord, NoRecord
<1>14. mem'.witness = mem.witness /\ mem'.reclaimed = mem.reclaimed /\ mem' \in Record
      /\ rec' \in Record /\ recAlt' \in Record
  BY <1>i, <1>1, <1>4, <1>8, FreshRecords
<1>15. g.plan # {} => mem.witness = "Terminal"
  BY <1>1 DEF HalfGood
<1>rt. RootTypes'
  BY <1>i, <1>u, <1>8, <1>12, <1>14, SameSite DEF RootTypes
<1>ru. RunTypes'
  BY <1>i, <1>u, <1>10, <1>14, SameSite DEF RunTypes
<1>sp. StoppedInv'
  BY <1>u, <1>3 DEF StoppedInv
<1>rc. RecordInv'
  <2>1. live = p /\ mem # NoRecord => GoodRecord(r)
    <3>1. live = p => Cardinality(r.planned) <= Cap
      BY <1>i, <1>2, <1>4, Bounds DEF LiveInv
    <3>2. Proves(r) => r.witness = "Terminal"
      BY <1>i, <1>4, <1>15 DEF RecordInv, GoodRecord, Proves
    <3> QED
      BY <1>4, <1>13, <3>1, <3>2 DEF GoodRecord
  <2>2. GoodRecord(NoRecord)
    BY <1>i, NoRecordIsGood
  <2>3. \A x : GoodRecord(x) => Cardinality(x.planned) <= Cap'
    BY <1>12 DEF GoodRecord
  <2>4. GoodRecord(rec)' /\ GoodRecord(recAlt)' /\ GoodRecord(mem)'
    BY <1>i, <1>8, <1>12, <2>1, <2>2 DEF RecordInv, GoodRecord, Proves
  <2> QED
    BY <1>i, <1>u, <1>8, <1>13, <2>4 DEF RecordInv
<1>ls. LossInv'
  BY <1>i, <1>u, <1>4, <1>8, <1>13 DEF LossInv, NoRecord
<1>ac. AccountInv'
  <2>1. \A s : Members(s)' = Members(s) /\ \A t : LastIn(s, t)' = LastIn(s, t)
    BY <1>u, SameLog
  <2>2. Gone' = Gone
    BY <1>u, SameRoot
  <2>3. \A s \in Exposed' : s \in Exposed \/ s \in h.todo
    BY <1>10, <1>12, <2>2 DEF Exposed
  <2>4. \A s : ShowsGone(mem, s) => ShowsGone(r, s)
    BY <1>4 DEF ShowsGone, Accounts
  <2>5. \A s \in g.plan : ShowsGone(r, s)
    BY <1>4, <1>15 DEF ShowsGone, Accounts
  <2>6. ASSUME lost.sidecars < 2, NEW s \in Exposed'
        PROVE  /\ ShowsGone(mem', s)
               /\ rec' = NoRecord => lost.sidecars # 0 /\ side.v = 2 /\ sideOld.v = 2
               /\ rec' # NoRecord => ShowsGone(rec', s)
               /\ recAlt' # NoRecord => ShowsGone(recAlt', s)
    <3>1. s \in Exposed => /\ ShowsGone(mem, s)
                           /\ rec = NoRecord => lost.sidecars # 0 /\ side.v = 2 /\ sideOld.v = 2
                           /\ rec # NoRecord => ShowsGone(rec, s)
                           /\ recAlt # NoRecord => ShowsGone(recAlt, s)
      BY <1>i, <1>3, <2>6 DEF AccountInv
    <3>2. CASE UNCHANGED <<rec, recAlt, mem>> /\ h.todo = {}
      BY <2>3, <3>1, <3>2
    <3>3. CASE mem # NoRecord /\ rec' = r /\ recAlt' = NoRecord /\ mem' = r
      BY <1>9, <1>13, <2>3, <2>4, <2>5, <3>1, <3>3
    <3>4. CASE recAlt' = r /\ UNCHANGED <<rec, mem>> /\ h.todo = {}
      BY <2>3, <2>4, <3>1, <3>4
    <3> QED
      BY <1>8, <3>2, <3>3, <3>4
  <2> QED
    BY <1>u, <2>1, <2>6 DEF AccountInv, ShowsGone, Accounts
<1>rg. ReclaimedInv'
  <2>1. \A t \in Tenant : NoRecord.reclaimed[t] = 0
    BY DEF NoRecord
  <2> QED
    BY <1>i, <1>u, <1>4, <1>8, <2>1 DEF ReclaimedInv, Unreturning
<1>ha. HalfInv'
  <2>1. Cur' = Cur
    BY <1>u, SameRoot
  <2>2. \A s : Highest(s)' = Highest(s)
    BY <1>u, SameLog
  <2>3. ASSUME NEW q \in Halves, q # p PROVE HalfGood(half[q])'
    BY <1>i, <1>u, <1>10, <1>14, <2>1, <2>2, <2>3 DEF HalfInv, HalfGood, HalfShape
  <2>4. HalfGood(half[p])'
    <3>1. HalfShape(half[p])'
      BY <1>10, <1>11 DEF HalfShape
    <3> QED
      BY <1>u, <1>1, <1>9, <1>10, <1>14, <2>1, <2>2, <3>1 DEF HalfGood
  <2> QED
    BY <1>12, <2>3, <2>4 DEF HalfInv
<1>la. LateInv'
  BY <1>i, <1>u, <1>2, <1>9, <1>10, <1>12 DEF LateInv
<1>li. LiveInv'
  <2>1. live # NoPass => live \in Halves
    BY <1>i DEF RunTypes
  <2>2. CASE live = p
    BY <1>i, <1>u, <1>2, <1>9, <1>10, <1>12, <2>2 DEF LiveInv
  <2>3. CASE live # p
    <3>1. mem' = mem
      BY <1>8, <2>3
    <3> QED
      BY <1>i, <1>u, <1>10, <1>12, <2>1, <2>3, <3>1 DEF LiveInv
  <2> QED
    BY <2>2, <2>3
<1>ri. RiskInv'
  <2>1. \A s : MayStillGo(s)' => MayStillGo(s)
    BY <1>u, <1>9, <1>10, <1>12 DEF MayStillGo
  <2>2. live # NoPass => live \in Halves
    BY <1>i DEF RunTypes
  <2> QED
    BY <1>i, <1>u, <1>2, <1>9, <1>10, <2>1, <2>2, RiskLess
<1>ro. RootInv'
  BY <1>i, <1>u, KeepRoot
<1>rf. RefusalMeansLoss'
  BY <1>i, <1>u, KeepRefusal
<1>le. LedgerInv'
  BY <1>i, <1>u, KeepLedger DEF LedgerInv
<1>ma. MarkInv'
  BY <1>i, <1>u, KeepMark
<1> QED
  BY <1>rt, <1>ru, <1>ro, <1>sp, <1>rc, <1>ls, <1>rf, <1>ac, <1>rg, <1>ha, <1>la, <1>le,
     <1>ma, <1>li, <1>ri DEF ReclaimInv

\* The newest segment is known by being the greatest.
LEMMA NewestIs ==
  ASSUME RootTypes, site' = site, files' \in SUBSET Seg, NEW m \in files', \A x \in files' : x <= m
  PROVE  Cur' = m
<1>1. SegmentsBound \in Nat /\ files' \in SUBSET (0..SegmentsBound) /\ files' # {}
  BY Bounds DEF Seg
<1>2. Max(files') \in files' /\ \A x \in files' : x <= Max(files')
  BY <1>1, GreatestExists
<1>3. Max(files') \in 0..SegmentsBound /\ m \in 0..SegmentsBound /\ Max(files') <= m /\ m <= Max(files')
  BY <1>1, <1>2
<1> QED
  BY <1>1, <1>3 DEF Cur

\* A ledger says nothing of the files but which is the newest.
LEMMA LedgerAtCur ==
  ASSUME LedgerInv, UNCHANGED <<site, ledger, log, sideOld>>, Cur' = Cur
  PROVE  LedgerInv'
<1>1. Modes' = Modes /\ Seg' = Seg
  BY SameSite
<1>2. \A s : Frames(s)' = Frames(s) /\ Members(s)' = Members(s) /\ Highest(s)' = Highest(s)
  BY SameLog
<1>3. \A s, t : LastIn(s, t)' = LastIn(s, t)
  BY SameLog
<1>4. Nested(ledger)' /\ Placed(ledger)'
  BY <1>1, <1>2 DEF LedgerInv, LedgerSound, Nested, Placed
<1>5. \A t : Held(ledger, t)' = Held(ledger, t)
  BY <1>2 DEF Held
<1>6. Pins(ledger)' /\ Cleared(ledger)' /\ Released(ledger)'
  BY <1>1, <1>3, <1>5 DEF LedgerInv, LedgerSound, Pins, Cleared, Released
<1> QED
  BY <1>4, <1>6 DEF LedgerInv, LedgerSound

LEMMA UnlinkKeeps ==
  ASSUME ReclaimInv, NEW p \in Halves, Unlink(p)
  PROVE  ReclaimInv'
<1>i. /\ RootTypes /\ RunTypes /\ RootInv /\ StoppedInv /\ RecordInv /\ LossInv
      /\ RefusalMeansLoss /\ AccountInv /\ ReclaimedInv /\ HalfInv /\ LateInv /\ LedgerInv
      /\ MarkInv /\ LiveInv /\ RiskInv
  BY DEF ReclaimInv
<1> DEFINE g == half[p]
           s == Min(g.todo)
           k == [g EXCEPT !.st = "unlinking", !.todo = @ \ {s}]
           d == [k EXCEPT !.removed = @ \cup {s}]
<1>u. UNCHANGED <<site, v1, log, side, sideOld, rec, recAlt, mem, snap, up, gate,
                  legacy, ledger, outstanding, live, lost>>
  BY DEF Unlink, fixed, sidecar, record, run, pass
<1>1. /\ g \in HalfType /\ half \in [Halves -> HalfType] /\ HalfShape(g) /\ HalfGood(g)
      /\ late \in [Halves -> SUBSET Seg] /\ files \in SUBSET Seg /\ unsynced \in SUBSET Seg
  BY <1>i DEF RunTypes, RootTypes, HalfInv, HalfGood
<1>2. g.st = "checked" /\ g # Idle /\ g.todo # {} /\ g.todo \in SUBSET Nat /\ ~ g.fsync_failed
  BY <1>i, <1>1, Bounds DEF Unlink, Idle, HalfShape, HalfType, Seg
<1>3. s \in g.todo /\ s \in g.plan /\ s \in Seg /\ s \notin g.removed
  BY <1>1, <1>2, LeastExists DEF HalfShape, HalfType
<1> HIDE DEF s
<1>4. /\ k \in HalfType /\ k.st = "unlinking" /\ k.todo = g.todo \ {s} /\ k.removed = g.removed
      /\ k.plan = g.plan /\ k.uncertain = g.uncertain /\ k.records = g.records /\ k.mode = g.mode
      /\ k.fsync_failed = g.fsync_failed
  BY <1>1 DEF HalfType
<1> HIDE DEF k
<1>5. /\ d \in HalfType /\ d.st = "unlinking" /\ d.todo = g.todo \ {s} /\ d.removed = g.removed \cup {s}
      /\ d.plan = g.plan /\ d.uncertain = g.uncertain /\ d.records = g.records /\ d.mode = g.mode
      /\ d.fsync_failed = g.fsync_failed
  BY <1>3, <1>4 DEF HalfType
<1> HIDE DEF d
<1>6. \/ /\ files' = files \ {s} /\ unsynced' = unsynced \cup ({s} \cap files)
         /\ half' = [half EXCEPT ![p] = d]
         /\ late' = IF live = p THEN late ELSE [late EXCEPT ![p] = @ \cup ({s} \cap files)]
         /\ faults' = faults
      \/ /\ UNCHANGED <<files, unsynced, late>> /\ half' = [half EXCEPT ![p] = k]
         /\ faults' \in {faults, faults + 1}
  BY DEF Unlink, Fault, dir, s, k, d
<1>7. PICK h \in {k, d} :
        /\ half' = [half EXCEPT ![p] = h]
        /\ \/ h = k /\ files' = files /\ unsynced' = unsynced /\ late' = late
           \/ /\ h = d /\ files' = files \ {s} /\ unsynced' = unsynced \cup ({s} \cap files)
              /\ late' = IF live = p THEN late ELSE [late EXCEPT ![p] = @ \cup ({s} \cap files)]
        /\ faults' \in {faults, faults + 1}
  BY <1>6
<1>8. /\ h \in HalfType /\ h.st = "unlinking" /\ h.todo = g.todo \ {s}
      /\ g.removed \subseteq h.removed /\ h.removed \subseteq g.removed \cup {s}
      /\ h.plan = g.plan /\ h.uncertain = g.uncertain /\ h.records = g.records /\ h.mode = g.mode
      /\ ~ h.fsync_failed /\ h.removed \cap files' = {} /\ h.removed \subseteq h.plan
      /\ files' \cup {s} = files \cup {s} /\ files' \subseteq files
      /\ files' \cup unsynced' = files \cup unsynced
      /\ s \in files' \/ s \in h.removed \/ s \notin files
  BY <1>1, <1>2, <1>3, <1>4, <1>5, <1>7 DEF HalfGood, HalfShape
<1>9. half' \in [Halves -> HalfType] /\ half'[p] = h /\ \A q \in Halves : q # p => half'[q] = half[q]
  BY <1>1, <1>7, <1>8, HalfStep
<1>10. HalfShape(h) /\ h # Idle
  BY <1>1, <1>2, <1>3, <1>8 DEF HalfShape, Idle
<1>11. Halves' = Halves /\ Cap' = Cap /\ Seg' = Seg
  BY <1>u, SameSite
<1>12. up = "up" /\ files # {} /\ Cur \in files /\ \A x \in files : x <= Cur
  BY <1>i, <1>2, CurIsNewest DEF StoppedInv, RootInv
<1>13. s < Cur /\ s # Cur /\ Cur \in Nat /\ Seg \subseteq Nat
  BY <1>i, <1>1, <1>3, <1>12, Bounds DEF HalfGood, Seg
<1>14. Cur' = Cur
  <2>1. Cur \in files' /\ (\A x \in files' : x <= Cur) /\ files' \in SUBSET Seg
    BY <1>1, <1>8, <1>12, <1>13
  <2> QED
    BY <1>i, <1>u, <2>1, NewestIs
<1>15. late' \in [Halves -> SUBSET Seg] /\ late'[p] \subseteq late[p] \cup {s}
       /\ (live = p => late'[p] = late[p]) /\ \A q \in Halves : q # p => late'[q] = late[q]
  BY <1>1, <1>3, <1>7
<1>rt. RootTypes'
  BY <1>i, <1>u, <1>1, <1>3, <1>7, <1>11, SameSite DEF RootTypes
<1>ru. RunTypes'
  BY <1>i, <1>u, <1>9, <1>15, SameSite DEF RunTypes
<1>ro. RootInv'
  BY <1>i, <1>u, <1>7, <1>12, <1>13, <1>14 DEF RootInv
<1>sp. StoppedInv'
  BY <1>u, <1>12 DEF StoppedInv
<1>ls. LossInv'
  BY <1>i, <1>u, <1>8 DEF LossInv
<1>ac. AccountInv'
  <2>1. Gone = (1..Cur) \ files
    BY <1>i, <1>12, GoneIs
  <2>2. Gone' = (1..Cur) \ files'
    <3>1. (RootTypes /\ RootInv => (files # {} => Gone = (1..Cur) \ files))'
      BY GoneOfRoot, PTL
    <3> QED
      BY <1>rt, <1>ro, <1>12, <1>14, <3>1, <1>u DEF RootInv
  <2>3. \A q \in Halves : half'[q].todo \subseteq half[q].todo
    BY <1>8, <1>9
  <2>4. Exposed' \subseteq Exposed
    BY <1>3, <1>8, <1>11, <2>1, <2>2, <2>3 DEF Exposed
  <2> QED
    BY <1>i, <1>u, <2>4, AccountLess
<1>rg. ReclaimedInv'
  BY <1>i, <1>u, <1>8 DEF ReclaimedInv, Unreturning
<1>ha. HalfInv'
  <2>1. \A x : Highest(x)' = Highest(x)
    BY <1>u, SameLog
  <2>2. ASSUME NEW q \in Halves, q # p PROVE HalfGood(half[q])'
    <3>1. half'[q] = half[q] /\ HalfGood(half[q])
      BY <1>i, <1>9, <2>2 DEF HalfInv
    <3>2. HalfShape(half[q])'
      BY <3>1 DEF HalfGood, HalfShape
    <3>3. half[q].removed \cap files' = {}
      BY <1>8, <3>1 DEF HalfGood
    <3>4. half[q].removed \cap unsynced' \subseteq half[q].removed \cap unsynced
      BY <1>7, <3>1 DEF HalfGood
    <3> QED
      BY <1>u, <1>14, <2>1, <3>1, <3>2, <3>3, <3>4 DEF HalfGood
  <2>3. HalfGood(half[p])'
    <3>1. HalfShape(half[p])'
      BY <1>9, <1>10 DEF HalfShape
    <3> QED
      BY <1>u, <1>1, <1>8, <1>9, <1>14, <2>1, <3>1 DEF HalfGood
  <2> QED
    BY <1>11, <2>2, <2>3 DEF HalfInv
<1>la. LateInv'
  <2>1. late[p] = {}
    BY <1>i, <1>2 DEF LateInv
  <2>2. Cardinality({}) = 0 /\ Cardinality({s}) = 1
    BY FS_EmptySet, FS_Singleton
  <2>3. late'[p] = {} \/ (late'[p] = {s} /\ live # p)
    BY <1>15, <2>1
  <2>4. ASSUME NEW q \in Halves
        PROVE  /\ late'[q] # {} => live' # q /\ half'[q].st \in {"unlinking", "unlinked"}
               /\ Cardinality(late'[q]) <= 1
    <3>1. CASE q = p
      <4>1. Cardinality(late'[p]) \in {0, 1}
        BY <2>2, <2>3
      <4> QED
        BY <1>u, <1>8, <1>9, <2>3, <3>1, <4>1
    <3>2. CASE q # p
      BY <1>i, <1>u, <1>9, <1>15, <3>2 DEF LateInv
    <3> QED
      BY <3>1, <3>2
  <2> QED
    BY <1>11, <2>4 DEF LateInv
<1>le. LedgerInv'
  BY <1>i, <1>u, <1>14, LedgerAtCur
<1>li. LiveInv'
  <2>1. live # NoPass => live \in Halves
    BY <1>i DEF RunTypes
  <2> QED
    BY <1>i, <1>u, <1>2, <1>8, <1>9, <1>11, <2>1 DEF LiveInv
<1>ri. RiskInv'
  <2>1. live # NoPass => live \in Halves
    BY <1>i DEF RunTypes
  <2>2. \A x : MayStillGo(x)' => MayStillGo(x)
    BY <1>u, <1>8, <1>9, <1>11 DEF MayStillGo
  <2>3. \A x : AtRisk(x)' => AtRisk(x) \/ x = s
    BY <1>8, <2>2 DEF AtRisk
  <2>4. live # p => MayStillGo(s)
    BY <1>2, <1>3 DEF MayStillGo
  <2>5. live = p => live # NoPass /\ s \in ledger.attempted
    BY <1>i, <1>2, <1>3, Bounds DEF LiveInv
  <2>6. Expects(ledger)'
    BY <1>i, <1>u, <2>3, <2>4, <2>5 DEF RiskInv, Expects, AtRisk
  <2>7. ASSUME live # NoPass, half'[live] # Idle,
               NEW x \in half'[live].plan \ half'[live].removed, AtRisk(x)'
        PROVE  x \in half'[live].uncertain
    <3>1. CASE live = p
      <4>1. x \in g.plan \ g.removed
        BY <1>8, <1>9, <2>7, <3>1
      <4>2. AtRisk(x)
        BY <1>8, <1>9, <2>2, <2>3, <2>7, <3>1 DEF AtRisk
      <4> QED
        BY <1>i, <1>2, <1>8, <1>9, <2>7, <3>1, <4>1, <4>2 DEF RiskInv
    <3>2. CASE live # p
      <4>1. half'[live] = half[live]
        BY <1>9, <2>1, <2>7, <3>2
      <4>2. AtRisk(x)
        BY <2>3, <2>4, <2>7, <3>2 DEF AtRisk
      <4> QED
        BY <1>i, <2>7, <4>1, <4>2 DEF RiskInv
    <3> QED
      BY <3>1, <3>2
  <2> QED
    BY <1>u, <2>6, <2>7 DEF RiskInv
<1>rc. RecordInv'
  BY <1>i, <1>u, KeepRecord
<1>rf. RefusalMeansLoss'
  BY <1>i, <1>u, KeepRefusal
<1>ma. MarkInv'
  BY <1>i, <1>u, KeepMark
<1> QED
  BY <1>rt, <1>ru, <1>ro, <1>sp, <1>rc, <1>ls, <1>rf, <1>ac, <1>rg, <1>ha, <1>la, <1>le,
     <1>ma, <1>li, <1>ri DEF ReclaimInv

\* With another live pass, or none, at risk is at most what the last one planned.
LEMMA RiskOfTurn ==
  ASSUME HalfInv, NoPass \notin Halves, UNCHANGED <<site, files>>, NEW p \in Halves,
         \A q \in Halves : q # p => half'[q] = half[q], half'[p].st # "checked",
         NEW s, AtRisk(s)'
  PROVE  AtRisk(s) \/ (live # NoPass /\ half[live] # Idle /\ s \in half[live].plan)
<1>1. CASE s \notin files
  BY <1>1 DEF AtRisk
<1>2. CASE MayStillGo(s)'
  <2>1. PICK q \in Halves : half'[q].st = "checked" /\ s \in half'[q].todo
    BY <1>2, SameSite DEF MayStillGo
  <2>2. q # p /\ half[q].st = "checked" /\ s \in half[q].todo
    BY <2>1
  <2>3. HalfShape(half[q])
    BY DEF HalfInv, HalfGood
  <2>4. s \in half[q].plan /\ half[q] # Idle
    BY <2>2, <2>3 DEF HalfShape, Idle
  <2>5. CASE q = live
    BY <2>4, <2>5
  <2>6. CASE q # live
    BY <2>2, <2>6 DEF AtRisk, MayStillGo
  <2> QED
    BY <2>5, <2>6
<1> QED
  BY <1>1, <1>2 DEF AtRisk

LEMMA PrepareKeeps ==
  ASSUME ReclaimInv, NEW p \in Halves, NEW m \in Modes, Prepare(p, m)
  PROVE  ReclaimInv'
<1>i. /\ RootTypes /\ RunTypes /\ RootInv /\ StoppedInv /\ RecordInv /\ LossInv
      /\ RefusalMeansLoss /\ AccountInv /\ ReclaimedInv /\ HalfInv /\ LateInv /\ LedgerInv
      /\ MarkInv /\ LiveInv /\ RiskInv
  BY DEF ReclaimInv
<1> DEFINE l == Abandon(m)
<1>u. UNCHANGED <<site, v1, log, files, unsynced, side, sideOld, rec, recAlt, mem, snap, up, gate,
                  legacy, late, faults, lost>>
  BY DEF Prepare, fixed, dir, sidecar, record, run, bounds
<1>1. up = "up" /\ half[p] = Idle /\ files # {} /\ m \in {"Known", "NoConsumer"} /\ NoPass \notin Halves
  BY <1>i, Bounds DEF Prepare, RootInv
<1>2. /\ ledger \in LedgerType /\ LedgerSound(ledger) /\ half \in [Halves -> HalfType]
      /\ mem \in Record /\ snap \in [Tenant -> Offset] /\ Cardinality(mem.planned) <= Cap
  BY <1>i DEF RunTypes, RootTypes, LedgerInv, RecordInv, GoodRecord
<1>3. /\ l \in LedgerType /\ LedgerSound(l) /\ l.segments = ledger.segments
      /\ l.describes_root = ledger.describes_root /\ Knows(l) = Knows(ledger)
  BY <1>i, <1>2, WithdrawKeeps DEF Abandon
<1> HIDE DEF l
<1>4. \E w \in LedgerType, S \in SUBSET Seg, h \in HalfType :
        /\ LedgerSound(w) /\ ledger' = w /\ w.segments = ledger.segments
        /\ w.describes_root = ledger.describes_root /\ Knows(ledger) \subseteq Knows(w)
        /\ half' = [half EXCEPT ![p] = h]
        /\ S \subseteq ledger.segments
        /\ \/ h = Idle /\ live' = NoPass /\ outstanding' = NoPlan
           \/ /\ live' = p
              /\ outstanding' \in OutstandingType /\ outstanding'.pass = p
              /\ outstanding'.segments = S
              /\ h.st = "planned" /\ h.mode # "none" /\ h.plan = S /\ h.uncertain = S \cap w.uncertain
              /\ h.todo = {} /\ h.removed = {} /\ ~ h.fsync_failed
              /\ S # {} => h.records /\ mem.witness = "Terminal" /\ ledger.describes_root
              /\ \A s \in S : s < Cur /\ Highest(s) <= sideOld.mark
              /\ Cardinality(mem.planned \cup S) <= Cap
              /\ S \subseteq w.reclaiming \cap w.attempted
              /\ S \cap Knows(ledger) \subseteq w.uncertain
  <2>1. CASE Refuses(l, m) /\ ledger' = l /\ live' = NoPass /\ outstanding' = NoPlan /\ UNCHANGED half
    <3>1. half' = [half EXCEPT ![p] = Idle]
      BY <1>1, <1>2, <2>1
    <3>2. Idle \in HalfType
      BY DEF Idle, HalfType, Mode
    <3>3. \E w \in LedgerType :
            /\ LedgerSound(w) /\ ledger' = w /\ w.segments = ledger.segments
            /\ w.describes_root = ledger.describes_root /\ Knows(ledger) \subseteq Knows(w)
      BY <1>3, <2>1
    <3>4. {} \in SUBSET Seg /\ {} \subseteq ledger.segments
      OBVIOUS
    <3> QED
      BY <2>1, <3>1, <3>2, <3>3, <3>4
  <2>2. CASE \E w \in Plans(l, m) : \E S \in IF Settled THEN Pops(w, m) ELSE {{}} :
               LET taken == Take(w, S)
                   unc == S \cap taken.uncertain
               IN  /\ ledger' = taken /\ live' = p
                   /\ outstanding' = [pass |-> p, mode |-> m, segments |-> S, uncertain |-> unc]
                   /\ half' = [half EXCEPT ![p] =
                        [Idle EXCEPT !.st = "planned", !.mode = m, !.records = Settled,
                                     !.plan = S, !.uncertain = unc]]
    <3>0. PICK w \in Plans(l, m) : \E S \in IF Settled THEN Pops(w, m) ELSE {{}} :
            LET taken == Take(w, S)
                unc == S \cap taken.uncertain
            IN  /\ ledger' = taken /\ live' = p
                /\ outstanding' = [pass |-> p, mode |-> m, segments |-> S, uncertain |-> unc]
                /\ half' = [half EXCEPT ![p] =
                     [Idle EXCEPT !.st = "planned", !.mode = m, !.records = Settled,
                                  !.plan = S, !.uncertain = unc]]
      BY <2>2
    <3>1. PICK S \in IF Settled THEN Pops(w, m) ELSE {{}} :
            LET taken == Take(w, S)
                unc == S \cap taken.uncertain
            IN  /\ ledger' = taken /\ live' = p
                /\ outstanding' = [pass |-> p, mode |-> m, segments |-> S, uncertain |-> unc]
                /\ half' = [half EXCEPT ![p] =
                     [Idle EXCEPT !.st = "planned", !.mode = m, !.records = Settled,
                                  !.plan = S, !.uncertain = unc]]
      BY <3>0
    <3>2. /\ w \in LedgerType /\ LedgerSound(w) /\ w.segments = l.segments
          /\ w.describes_root = l.describes_root /\ Knows(w) = Knows(l)
      <4>1. CASE m = "Known"
        <5>1. PICK f \in Walks(Receive(l, snap)) : w = Walked(Receive(l, snap), f)
          BY <4>1 DEF Plans
        <5>2. /\ Receive(l, snap) \in LedgerType /\ LedgerSound(Receive(l, snap))
              /\ Receive(l, snap).segments = l.segments
              /\ Receive(l, snap).describes_root = l.describes_root
              /\ Knows(Receive(l, snap)) = Knows(l)
          BY <1>i, <1>2, <1>3, ReceiveKeeps
        <5> DEFINE v == Receive(l, snap)
        <5>3. v \in LedgerType /\ LedgerSound(v) /\ f \in Walks(v)
          BY <5>1, <5>2
        <5> HIDE DEF v
        <5>4. /\ Walked(v, f) \in LedgerType /\ LedgerSound(Walked(v, f))
              /\ Walked(v, f).segments = v.segments /\ Walked(v, f).describes_root = v.describes_root
              /\ Knows(Walked(v, f)) = Knows(v)
          BY <1>i, <5>3, WalkedKeeps
        <5> QED
          BY <5>1, <5>2, <5>4 DEF v
      <4>2. CASE m # "Known"
        BY <1>3, <4>2 DEF Plans
      <4> QED
        BY <4>1, <4>2
    <3>3. /\ S \in SUBSET w.segments /\ \A s \in S : s < Cur /\ Highest(s) <= sideOld.mark
          /\ Modes = {"Known"} => \A s \in S : w.pending[s] = {}
          /\ Cardinality(mem.planned \cup S) <= Cap
          /\ S # {} => Settled /\ w.describes_root
      <4>1. CASE Settled
        <5>1. S \in Pops(w, m)
          BY <3>1, <4>1
        <5> QED
          BY <1>i, <1>1, <1>2, <3>2, <4>1, <5>1, PopsAre
      <4>2. CASE ~ Settled
        <5>1. S = {}
          BY <3>1, <4>2
        <5>2. mem.planned \cup S = mem.planned
          BY <5>1
        <5> QED
          BY <1>2, <5>1, <5>2
      <4> QED
        BY <4>1, <4>2
    <3> DEFINE v == Take(w, S)
               h == [Idle EXCEPT !.st = "planned", !.mode = m, !.records = Settled,
                                 !.plan = S, !.uncertain = S \cap v.uncertain]
    <3>4. /\ v \in LedgerType /\ LedgerSound(v) /\ v.segments = w.segments
          /\ v.describes_root = w.describes_root /\ S \subseteq v.reclaiming \cap v.attempted
          /\ Knows(w) \subseteq Knows(v) /\ S \cap Knows(w) \subseteq v.uncertain
      BY <1>i, <3>2, <3>3, TakeKeeps
    <3>5. /\ ledger' = v /\ live' = p /\ half' = [half EXCEPT ![p] = h]
          /\ outstanding' = [pass |-> p, mode |-> m, segments |-> S, uncertain |-> S \cap v.uncertain]
      BY <3>1
    <3> HIDE DEF v
    <3>6. S \in SUBSET Seg
      BY <1>2, <1>3, <3>2, <3>3 DEF LedgerType
    <3>7. Settled \in BOOLEAN
      BY DEF Settled
    <3>8. /\ h \in HalfType /\ h.st = "planned" /\ h.mode # "none" /\ h.plan = S
          /\ h.uncertain = S \cap v.uncertain /\ h.todo = {} /\ h.removed = {} /\ ~ h.fsync_failed
          /\ h.records = Settled
      BY <1>1, <3>6, <3>7 DEF Idle, HalfType, Mode
    <3> HIDE DEF h
    <3>9. outstanding' \in OutstandingType /\ outstanding'.pass = p /\ outstanding'.segments = S
      BY <1>1, <3>5, <3>6 DEF OutstandingType, Mode
    <3>10. S # {} => h.records /\ mem.witness = "Terminal" /\ ledger.describes_root
      BY <1>3, <3>2, <3>3, <3>8 DEF Settled
    <3>11. /\ v.segments = ledger.segments /\ v.describes_root = ledger.describes_root
           /\ Knows(ledger) \subseteq Knows(v) /\ S \subseteq ledger.segments
           /\ S \cap Knows(ledger) \subseteq v.uncertain
      BY <1>3, <3>2, <3>3, <3>4
    <3> QED
      BY <3>3, <3>4, <3>5, <3>6, <3>8, <3>9, <3>10, <3>11
  <2> QED
    BY <2>1, <2>2 DEF Prepare, l
<1>5. PICK w \in LedgerType, S \in SUBSET Seg, h \in HalfType :
        /\ LedgerSound(w) /\ ledger' = w /\ w.segments = ledger.segments
        /\ w.describes_root = ledger.describes_root /\ Knows(ledger) \subseteq Knows(w)
        /\ half' = [half EXCEPT ![p] = h]
        /\ S \subseteq ledger.segments
        /\ \/ h = Idle /\ live' = NoPass /\ outstanding' = NoPlan
           \/ /\ live' = p
              /\ outstanding' \in OutstandingType /\ outstanding'.pass = p
              /\ outstanding'.segments = S
              /\ h.st = "planned" /\ h.mode # "none" /\ h.plan = S /\ h.uncertain = S \cap w.uncertain
              /\ h.todo = {} /\ h.removed = {} /\ ~ h.fsync_failed
              /\ S # {} => h.records /\ mem.witness = "Terminal" /\ ledger.describes_root
              /\ \A s \in S : s < Cur /\ Highest(s) <= sideOld.mark
              /\ Cardinality(mem.planned \cup S) <= Cap
              /\ S \subseteq w.reclaiming \cap w.attempted
              /\ S \cap Knows(ledger) \subseteq w.uncertain
  BY <1>4
<1>6. half' \in [Halves -> HalfType] /\ half'[p] = h /\ \A q \in Halves : q # p => half'[q] = half[q]
  BY <1>2, <1>5, HalfStep
<1>7. Halves' = Halves /\ Cap' = Cap
  BY <1>u, SameSite
<1>8. HalfShape(h) /\ h.todo = {} /\ h.removed = {} /\ h.st \in {"idle", "planned"}
  BY <1>5 DEF HalfShape, Idle
<1>9. ASSUME NEW s \in ledger.segments, AtRisk(s)' PROVE s \in Knows(ledger)
  <2>1. AtRisk(s) \/ (live # NoPass /\ half[live] # Idle /\ s \in half[live].plan)
    BY <1>i, <1>u, <1>1, <1>6, <1>8, <1>9, RiskOfTurn
  <2> QED
    BY <1>i, <2>1 DEF RiskInv, Expects, LiveInv, Knows
<1>rt. RootTypes'
  BY <1>i, <1>u, SameSite DEF RootTypes
<1>ru. RunTypes'
  <2>1. NoPlan \in OutstandingType
    BY DEF NoPlan, OutstandingType, Mode
  <2> QED
    BY <1>i, <1>u, <1>5, <1>6, <2>1, SameSite DEF RunTypes
<1>sp. StoppedInv'
  BY <1>u, <1>1 DEF StoppedInv
<1>ac. AccountInv'
  <2>1. Gone' = Gone
    BY <1>u, SameRoot
  <2>2. \A q \in Halves : half'[q].todo \subseteq half[q].todo
    BY <1>6, <1>8
  <2>3. Exposed' \subseteq Exposed
    BY <1>7, <2>1, <2>2 DEF Exposed
  <2> QED
    BY <1>i, <1>u, <2>3, AccountLess
<1>ha. HalfInv'
  <2>1. Cur' = Cur
    BY <1>u, SameRoot
  <2>2. \A s : Highest(s)' = Highest(s)
    BY <1>u, SameLog
  <2>3. HalfGood(half[p])'
    <3>1. HalfShape(half[p])'
      BY <1>6, <1>8 DEF HalfShape
    <3>2. h.plan # {} => mem.witness = "Terminal" /\ ledger'.describes_root
      BY <1>5 DEF Idle
    <3>3. \A s \in h.plan : s < Cur /\ Highest(s) <= sideOld.mark
      BY <1>5 DEF Idle
    <3> QED
      BY <1>u, <1>6, <1>8, <2>1, <2>2, <3>1, <3>2, <3>3 DEF HalfGood
  <2>4. ASSUME NEW q \in Halves, q # p PROVE HalfGood(half[q])'
    BY <1>i, <1>u, <1>5, <1>6, <2>1, <2>2, <2>4 DEF HalfInv, HalfGood, HalfShape
  <2> QED
    BY <1>7, <2>3, <2>4 DEF HalfInv
<1>la. LateInv'
  <2>1. late[p] = {}
    BY <1>i, <1>1 DEF LateInv, Idle
  <2>2. live' = p \/ live' = NoPass
    BY <1>5
  <2> QED
    BY <1>i, <1>u, <1>1, <1>6, <1>7, <2>1, <2>2 DEF LateInv
<1>le. LedgerInv'
  BY <1>u, <1>5, KeepLedger
<1>li. LiveInv'
  BY <1>u, <1>1, <1>5, <1>6, <1>7 DEF LiveInv, NoPlan
<1>ri. RiskInv'
  <2>1. Expects(ledger)'
    BY <1>5, <1>9 DEF Expects, Knows
  <2>2. ASSUME live' # NoPass, half'[live'] # Idle,
               NEW s \in half'[live'].plan \ half'[live'].removed, AtRisk(s)'
        PROVE  s \in half'[live'].uncertain
    <3>1. live' = p /\ s \in S
      BY <1>5, <1>6, <2>2
    <3>2. s \in Knows(ledger)
      BY <1>5, <1>9, <2>2, <3>1
    <3> QED
      BY <1>1, <1>5, <1>6, <3>1, <3>2
  <2> QED
    BY <2>1, <2>2 DEF RiskInv
<1>ro. RootInv'
  BY <1>i, <1>u, KeepRoot
<1>rc. RecordInv'
  BY <1>i, <1>u, KeepRecord
<1>ls. LossInv'
  BY <1>i, <1>u, KeepLoss
<1>rf. RefusalMeansLoss'
  BY <1>i, <1>u, KeepRefusal
<1>rg. ReclaimedInv'
  BY <1>i, <1>u, KeepReclaimed
<1>ma. MarkInv'
  BY <1>i, <1>u, KeepMark
<1> QED
  BY <1>rt, <1>ru, <1>ro, <1>sp, <1>rc, <1>ls, <1>rf, <1>ac, <1>rg, <1>ha, <1>la, <1>le,
     <1>ma, <1>li, <1>ri DEF ReclaimInv

LEMMA CommitKeeps ==
  ASSUME ReclaimInv, NEW p \in Halves, Commit(p)
  PROVE  ReclaimInv'
<1>i. /\ RootTypes /\ RunTypes /\ RootInv /\ StoppedInv /\ RecordInv /\ LossInv
      /\ RefusalMeansLoss /\ AccountInv /\ ReclaimedInv /\ HalfInv /\ LateInv /\ LedgerInv
      /\ MarkInv /\ LiveInv /\ RiskInv
  BY DEF ReclaimInv
<1> DEFINE g == half[p]
           n == SettledRecord(g)
<1>u. UNCHANGED <<site, v1, log, files, unsynced, side, sideOld, rec, recAlt, snap, up, gate,
                  legacy, faults, lost>>
  BY DEF Commit, fixed, dir, sidecar, run, bounds
<1>1. /\ g.st \in {"failed", "unlinked"} /\ half' = [half EXCEPT ![p] = Idle]
      /\ late' = [late EXCEPT ![p] = {}] /\ g # Idle
  BY DEF Commit, Idle
<1>2. /\ Idle \in HalfType /\ HalfShape(Idle) /\ Idle.plan = {} /\ Idle.todo = {} /\ Idle.st = "idle"
      /\ Idle.removed = {}
  BY DEF Idle, HalfType, Mode, HalfShape
<1>3. /\ half \in [Halves -> HalfType] /\ late \in [Halves -> SUBSET Seg] /\ g \in HalfType
      /\ ledger \in LedgerType /\ LedgerSound(ledger) /\ mem \in Record /\ rec \in Record
      /\ outstanding \in OutstandingType /\ HalfGood(g) /\ HalfShape(g)
      /\ NoPass \notin Halves
  BY <1>i, Bounds DEF RunTypes, RootTypes, LedgerInv, HalfInv, HalfGood
<1>4. half' \in [Halves -> HalfType] /\ half'[p] = Idle /\ \A q \in Halves : q # p => half'[q] = half[q]
  BY <1>1, <1>2, <1>3, HalfStep
<1>5. late' \in [Halves -> SUBSET Seg] /\ late'[p] = {} /\ \A q \in Halves : q # p => late'[q] = late[q]
  BY <1>1, <1>3
<1>6. Halves' = Halves /\ Cap' = Cap /\ Cur' = Cur
  BY <1>u, SameSite, SameRoot
<1>7. up = "up"
  BY <1>i, <1>1 DEF StoppedInv
<1>8. Done(g) \subseteq g.removed /\ g.removed \subseteq g.plan
      /\ (g.st = "unlinked" => \A s \in Done(g) : s \notin files \cup unsynced)
  BY <1>3 DEF Done, HalfGood, HalfShape
<1>9. /\ n \in Record /\ n.witness = mem.witness /\ n.mode = mem.mode /\ n.planned \subseteq mem.planned
      /\ n.planned = mem.planned \ Done(g)
      /\ \A t \in Tenant :
           /\ n.reclaimed[t] >= mem.reclaimed[t]
           /\ \A s \in Done(g) \cap mem.planned : n.reclaimed[t] >= LastIn(s, t)
           /\ n.reclaimed[t] = mem.reclaimed[t]
                \/ \E s \in Done(g) \cap mem.planned : n.reclaimed[t] = LastIn(s, t)
  BY <1>i, <1>3, SettledRecordIs
<1> HIDE DEF n
<1>10. \A s \in Seg : s \in g.plan => s # Cur
  <2>1. Cur \in Nat /\ Seg \subseteq Nat
    BY <1>i, <1>7, CurIsNewest DEF RootInv, Seg
  <2> QED
    BY <1>3, <2>1 DEF HalfGood
<1>11. \E w \in LedgerType :
         /\ LedgerSound(w) /\ ledger' = w /\ w.segments \subseteq ledger.segments
         /\ w.describes_root = ledger.describes_root
         /\ \A s \in w.segments : AtRisk(s)' => s \in Knows(w)
         /\ \/ w = ledger /\ outstanding' = outstanding /\ live' = live /\ mem' = mem /\ live # p
            \/ /\ outstanding' = NoPlan /\ live' = NoPass
               /\ mem' = mem \/ (g.st = "unlinked" /\ mem' = n)
  <2>1. CASE outstanding.pass # p /\ UNCHANGED <<pass, mem>>
    <3>1. \A s : MayStillGo(s)' => MayStillGo(s)
      BY <1>2, <1>4, <1>6, <2>1 DEF MayStillGo, pass
    <3>2. ASSUME NEW s \in ledger.segments, AtRisk(s)' PROVE s \in Knows(ledger)
      BY <1>i, <1>u, <3>1, <3>2 DEF RiskInv, Expects, AtRisk, Knows
    <3> QED
      BY <1>i, <1>3, <2>1, <3>2 DEF pass, LiveInv
  <2>2. CASE outstanding.pass = p
    <3>1. live = p /\ live # NoPass /\ g.plan = outstanding.segments
          /\ g.plan \subseteq ledger.reclaiming \cap ledger.attempted
          /\ g.uncertain = g.plan \cap ledger.uncertain
      BY <1>i, <1>1, <1>3, <2>2 DEF LiveInv
    <3>2. \A s : AtRisk(s)' => AtRisk(s)
      BY <1>u, <1>2, <1>4, <1>6, <3>1 DEF AtRisk, MayStillGo
    <3>3. ASSUME NEW s \in ledger.segments, AtRisk(s)'
          PROVE  s \in Knows(ledger) /\ (s \in g.plan \ g.removed => s \in g.uncertain)
      BY <1>i, <1>1, <3>1, <3>2, <3>3 DEF RiskInv, Expects, Knows
    <3>4. CASE /\ g.st = "failed" /\ ledger' = Restore(ledger, outstanding.segments)
               /\ outstanding' = NoPlan /\ live' = NoPass /\ mem' = mem
      <4> DEFINE w == Restore(ledger, g.plan)
      <4>1. /\ w \in LedgerType /\ LedgerSound(w) /\ w.segments = ledger.segments
            /\ w.describes_root = ledger.describes_root
            /\ w.attempted = (ledger.attempted \ g.plan) \cup (g.plan \cap ledger.uncertain)
            /\ w.uncertain = ledger.uncertain \ g.plan
        BY <1>i, <1>3, RestoreKeeps
      <4> HIDE DEF w
      <4>2. g.removed = {}
        BY <1>3, <3>4 DEF HalfShape
      <4>3. ASSUME NEW s \in w.segments, AtRisk(s)' PROVE s \in Knows(w)
        BY <3>1, <3>3, <4>1, <4>2, <4>3 DEF Knows
      <4> QED
        BY <3>1, <3>4, <4>1, <4>3 DEF w
    <3>5. CASE /\ g.st = "unlinked" /\ ledger' = SettledLedger(g) /\ mem' = SettledRecord(g)
               /\ outstanding' = NoPlan /\ live' = NoPass
      <4> DEFINE D == Done(g)
                 U == Uncertain(g) \cup (g.uncertain \ g.removed)
                 v == Drop(ledger, D)
                 w == Hold(v, g.plan \ D, U)
      <4>1. \A s \in D : s # Cur
        BY <1>3, <1>8, <1>10 DEF HalfType
      <4>2. /\ v \in LedgerType /\ LedgerSound(v) /\ v.segments = ledger.segments \ D
            /\ v.reclaiming = ledger.reclaiming \ D /\ v.describes_root = ledger.describes_root
            /\ v.attempted = ledger.attempted \ D /\ v.uncertain = ledger.uncertain \ D
        BY <1>i, <1>3, <4>1, DropKeeps
      <4> HIDE DEF v
      <4>3. (g.plan \ D) \cap U \subseteq v.reclaiming
        BY <3>1, <4>2
      <4>4. /\ w \in LedgerType /\ LedgerSound(w) /\ w.segments = v.segments
            /\ w.describes_root = v.describes_root
            /\ w.attempted = v.attempted \ (g.plan \ D)
            /\ w.uncertain = (v.uncertain \ (g.plan \ D)) \cup ((g.plan \ D) \cap U)
        BY <1>i, <4>2, <4>3, HoldKeeps
      <4> HIDE DEF w
      <4>5. g.removed \ D \subseteq U
        BY DEF Done, Uncertain
      <4>6. ASSUME NEW s \in w.segments, AtRisk(s)' PROVE s \in Knows(w)
        <5>1. s \in ledger.segments /\ s \notin D
          BY <4>2, <4>4
        <5>2. s \in Knows(ledger) /\ (s \in g.plan \ g.removed => s \in g.uncertain)
          BY <3>3, <4>6, <5>1
        <5>3. CASE s \notin g.plan
          BY <4>2, <4>4, <5>1, <5>2, <5>3 DEF Knows
        <5>4. CASE s \in g.plan
          <6>1. s \in U
            BY <4>5, <5>1, <5>2, <5>4
          <6> QED
            BY <4>4, <5>1, <5>4, <6>1 DEF Knows
        <5> QED
          BY <5>3, <5>4
      <4>7. ledger' = w /\ mem' = n
        BY <3>5 DEF SettledLedger, w, v, n
      <4> QED
        BY <3>5, <4>2, <4>4, <4>6, <4>7
    <3> QED
      BY <2>2, <3>4, <3>5 DEF Commit
  <2> QED
    BY <2>1, <2>2 DEF Commit
<1>12. PICK w \in LedgerType :
         /\ LedgerSound(w) /\ ledger' = w /\ w.segments \subseteq ledger.segments
         /\ w.describes_root = ledger.describes_root
         /\ \A s \in w.segments : AtRisk(s)' => s \in Knows(w)
         /\ \/ w = ledger /\ outstanding' = outstanding /\ live' = live /\ mem' = mem /\ live # p
            \/ /\ outstanding' = NoPlan /\ live' = NoPass
               /\ mem' = mem \/ (g.st = "unlinked" /\ mem' = n)
  BY <1>11
<1>13. mem' \in Record /\ mem'.witness = mem.witness /\ mem' \in {mem, n}
  BY <1>3, <1>9, <1>12
<1>14. Exposed' \subseteq Exposed
  <2>1. Gone' = Gone
    BY <1>u, SameRoot
  <2>2. \A q \in Halves : half'[q].todo \subseteq half[q].todo
    BY <1>2, <1>4
  <2> QED
    BY <1>6, <2>1, <2>2 DEF Exposed
<1>15. mem.witness # "Terminal" => Done(g) = {}
  BY <1>3, <1>8 DEF HalfGood
<1>rt. RootTypes'
  BY <1>i, <1>u, SameSite DEF RootTypes
<1>ru. RunTypes'
  <2>1. NoPlan \in OutstandingType
    BY DEF NoPlan, OutstandingType, Mode
  <2> QED
    BY <1>i, <1>u, <1>4, <1>5, <1>12, <1>13, <2>1, SameSite DEF RunTypes
<1>sp. StoppedInv'
  BY <1>u, <1>7 DEF StoppedInv
<1>rc. RecordInv'
  <2>1. GoodRecord(mem) /\ Cap \in Nat /\ mem.planned \in SUBSET Seg
    BY <1>i, <1>3, Bounds DEF RecordInv, Record
  <2>2. mem = NoRecord => n = NoRecord
    <3>1. mem = NoRecord => mem.witness # "Terminal"
      BY DEF NoRecord
    <3>2. mem = NoRecord => \A t \in Tenant : n.reclaimed[t] = 0
      BY <1>9, <1>15, <3>1 DEF NoRecord
    <3>3. mem = NoRecord => n.planned = {} /\ n.witness = "none" /\ n.mode = "Unrecorded"
      BY <1>9 DEF NoRecord
    <3>4. n.reclaimed \in [Tenant -> Offset]
      BY <1>9 DEF Record
    <3>5. mem = NoRecord => n.reclaimed = [t \in Tenant |-> 0]
      BY <3>2, <3>4
    <3> QED
      BY <1>9, <3>3, <3>5 DEF Record, NoRecord
  <2>3. GoodRecord(n)
    <3>1. Cardinality(n.planned) <= Cap
      <4>1. Cardinality(n.planned) <= Cardinality(mem.planned)
        BY <1>i, <1>9, <2>1, SmallerSets
      <4>2. Cardinality(n.planned) \in Nat /\ Cardinality(mem.planned) \in Nat
        BY <1>i, <1>9, <2>1, SegmentSets
      <4> QED
        BY <2>1, <4>1, <4>2 DEF GoodRecord
    <3>2. ASSUME Proves(n) PROVE n.witness = "Terminal"
      <4>1. CASE n.witness = "Terminal"
        BY <4>1
      <4>2. CASE n.planned # {}
        BY <1>9, <2>1, <4>2 DEF GoodRecord, Proves
      <4>3. CASE \E t \in Tenant : n.reclaimed[t] # 0
        <5>1. PICK t \in Tenant : n.reclaimed[t] # 0
          BY <4>3
        <5>2. mem.reclaimed[t] # 0 \/ Done(g) # {}
          BY <1>9, <5>1
        <5> QED
          BY <1>9, <1>15, <2>1, <5>2 DEF GoodRecord, Proves
      <4> QED
        BY <3>2, <4>1, <4>2, <4>3 DEF Proves
    <3>3. n.witness = "none" => n = NoRecord
      BY <1>9, <2>1, <2>2 DEF GoodRecord
    <3> QED
      BY <3>1, <3>2, <3>3 DEF GoodRecord
  <2>4. n = NoRecord => mem = NoRecord
    BY <1>9, <2>1 DEF GoodRecord, NoRecord
  <2>5. GoodRecord(rec)' /\ GoodRecord(recAlt)' /\ GoodRecord(mem)'
    BY <1>i, <1>u, <1>6, <1>13, <2>1, <2>3 DEF RecordInv, GoodRecord, Proves
  <2> QED
    BY <1>i, <1>u, <1>13, <2>2, <2>4, <2>5 DEF RecordInv
<1>ls. LossInv'
  BY <1>i, <1>u, <1>13 DEF LossInv
<1>ac. AccountInv'
  <2>1. \A s : Members(s)' = Members(s) /\ \A t : LastIn(s, t)' = LastIn(s, t)
    BY <1>u, SameLog
  <2>2. ASSUME NEW s, ShowsGone(mem, s) PROVE ShowsGone(n, s)
    <3>1. CASE s \in mem.planned /\ s \notin Done(g)
      BY <1>9, <2>2, <3>1 DEF ShowsGone, Accounts
    <3>2. CASE s \in mem.planned /\ s \in Done(g)
      <4>1. Members(s) \subseteq Tenant
        BY <1>i, LogEntries DEF Members, Frames
      <4> QED
        BY <1>9, <2>2, <3>2, <4>1 DEF ShowsGone, Accounts
    <3>3. CASE s \notin mem.planned
      <4>1. Members(s) \subseteq Tenant
        BY <1>i, LogEntries DEF Members, Frames
      <4>2. ASSUME NEW t \in Members(s) PROVE n.reclaimed[t] >= LastIn(s, t)
        <5>1. t \in Tenant /\ mem.reclaimed[t] >= LastIn(s, t) /\ n.reclaimed[t] >= mem.reclaimed[t]
          BY <1>9, <2>2, <3>3, <4>1, <4>2 DEF ShowsGone, Accounts
        <5>2. LastIn(s, t) \in Nat
          BY <1>i, LastInIs, LogEntries
        <5>3. mem.reclaimed[t] \in Offset /\ n.reclaimed[t] \in Offset
          BY <1>3, <1>9, <5>1 DEF Record
        <5>4. mem.reclaimed[t] \in Nat /\ n.reclaimed[t] \in Nat
          BY <1>i, <5>3, Bounds DEF Offset
        <5> QED
          BY <5>1, <5>2, <5>4
      <4> QED
        BY <1>9, <2>2, <4>2 DEF ShowsGone, Accounts
    <3> QED
      BY <3>1, <3>2, <3>3
  <2>3. \A s : ShowsGone(mem, s) => ShowsGone(mem', s)
    BY <1>13, <2>2
  <2> QED
    BY <1>i, <1>u, <1>14, <2>1, <2>3 DEF AccountInv, ShowsGone, Accounts
<1>rg. ReclaimedInv'
  <2>1. ASSUME NEW t \in Tenant, g.st = "unlinked" PROVE Unreturning(n.reclaimed[t])
    <3>1. CASE n.reclaimed[t] = mem.reclaimed[t]
      BY <1>i, <3>1 DEF ReclaimedInv
    <3>2. CASE \E s \in Done(g) : n.reclaimed[t] = LastIn(s, t)
      <4>1. PICK s \in Done(g) : n.reclaimed[t] = LastIn(s, t)
        BY <3>2
      <4>2. s \notin files \cup unsynced
        BY <1>8, <2>1
      <4>3. LastIn(s, t) # 0 => LastIn(s, t) \in DOMAIN log /\ log[LastIn(s, t)].seg = s
        BY <1>i, LastInIs
      <4> QED
        BY <4>1, <4>2, <4>3 DEF Unreturning
    <3> QED
      BY <1>9, <3>1, <3>2
  <2>2. ASSUME NEW t \in Tenant PROVE Unreturning(mem'.reclaimed[t])
    BY <1>i, <1>12, <2>1 DEF ReclaimedInv
  <2> QED
    BY <1>i, <1>u, <2>2 DEF ReclaimedInv, Unreturning
<1>ha. HalfInv'
  <2>1. \A s : Highest(s)' = Highest(s)
    BY <1>u, SameLog
  <2>2. HalfGood(half[p])'
    BY <1>2, <1>4 DEF HalfGood, HalfShape
  <2>3. ASSUME NEW q \in Halves, q # p PROVE HalfGood(half[q])'
    BY <1>i, <1>u, <1>4, <1>6, <1>12, <1>13, <2>1, <2>3 DEF HalfInv, HalfGood, HalfShape
  <2> QED
    BY <1>6, <2>2, <2>3 DEF HalfInv
<1>la. LateInv'
  <2>1. Cardinality({}) = 0
    BY FS_EmptySet
  <2>2. ASSUME NEW q \in Halves
        PROVE  /\ late'[q] # {} => live' # q /\ half'[q].st \in {"unlinking", "unlinked"}
               /\ Cardinality(late'[q]) <= 1
    <3>1. CASE q = p
      BY <1>5, <2>1, <3>1
    <3>2. CASE q # p
      BY <1>i, <1>3, <1>4, <1>5, <1>12, <3>2 DEF LateInv
    <3> QED
      BY <3>1, <3>2
  <2> QED
    BY <1>6, <2>2 DEF LateInv
<1>le. LedgerInv'
  BY <1>u, <1>12, KeepLedger
<1>li. LiveInv'
  <2>1. CASE live' = NoPass /\ outstanding' = NoPlan
    BY <2>1 DEF LiveInv, NoPlan
  <2>2. CASE ledger' = ledger /\ outstanding' = outstanding /\ live' = live /\ mem' = mem /\ live # p
    BY <1>i, <1>4, <1>6, <2>2 DEF LiveInv, RunTypes
  <2> QED
    BY <1>12, <2>1, <2>2
<1>ri. RiskInv'
  <2>1. Expects(ledger)'
    BY <1>12 DEF Expects, Knows
  <2>2. CASE live' = NoPass
    BY <2>1, <2>2 DEF RiskInv
  <2>3. CASE live' = live /\ live # p
    <3>1. \A s : MayStillGo(s)' => MayStillGo(s)
      BY <1>2, <1>4, <1>6, <2>3 DEF MayStillGo
    <3>2. live # NoPass => half'[live] = half[live]
      BY <1>i, <1>4, <2>3 DEF RunTypes
    <3> QED
      BY <1>i, <1>u, <2>1, <2>3, <3>1, <3>2 DEF RiskInv, AtRisk
  <2> QED
    BY <1>12, <2>2, <2>3
<1>ro. RootInv'
  BY <1>i, <1>u, KeepRoot
<1>rf. RefusalMeansLoss'
  BY <1>i, <1>u, KeepRefusal
<1>ma. MarkInv'
  BY <1>i, <1>u, KeepMark
<1> QED
  BY <1>rt, <1>ru, <1>ro, <1>sp, <1>rc, <1>ls, <1>rf, <1>ac, <1>rg, <1>ha, <1>la, <1>le,
     <1>ma, <1>li, <1>ri DEF ReclaimInv

\* With no pass and an empty ledger the parts about them hold.
LEMMA NoPassRuns ==
  ASSUME RootTypes, site' = site, NEW d \in BOOLEAN, ledger' = EmptyLedger(d), (d => log' = <<>>),
         half' = [p \in Halves |-> Idle], late' = [p \in Halves |-> {}],
         live' = NoPass, outstanding' = NoPlan
  PROVE  /\ ledger' \in LedgerType /\ outstanding' \in OutstandingType
         /\ half' \in [Halves -> HalfType] /\ late' \in [Halves -> SUBSET Seg]
         /\ HalfInv' /\ LateInv' /\ LedgerInv' /\ LiveInv' /\ RiskInv'
         /\ UNION {half'[p].todo : p \in Halves} = {}
<1>1. Halves' = Halves /\ Seg' = Seg /\ LedgerType' = LedgerType
  BY SameSite
<1>2. 0 \in Offset /\ 0 \in 0..SegmentsBound
  BY FreshRecords, Bounds
<1>3. /\ ledger' \in LedgerType /\ ledger'.segments = {} /\ ledger'.reclaiming = {}
      /\ ledger'.uncertain = {} /\ ledger'.attempted = {} /\ ledger'.describes_root = d
      /\ ledger'.pending = [s \in Seg |-> {}]
  BY <1>2 DEF EmptyLedger, LedgerType
<1>4. outstanding' \in OutstandingType /\ outstanding'.pass = NoPass
  BY DEF NoPlan, OutstandingType, Mode
<1>5. Idle \in HalfType /\ HalfShape(Idle) /\ Idle.plan = {} /\ Idle.todo = {} /\ Idle.removed = {}
      /\ Idle.st = "idle"
  BY DEF Idle, HalfType, Mode, HalfShape
<1>6. half' \in [Halves -> HalfType] /\ late' \in [Halves -> SUBSET Seg]
      /\ \A p \in Halves : half'[p] = Idle /\ late'[p] = {}
  BY <1>5
<1>7. HalfInv'
  BY <1>1, <1>5, <1>6 DEF HalfInv, HalfGood, HalfShape
<1>8. LateInv'
  <2>1. Cardinality({}) = 0
    BY FS_EmptySet
  <2> QED
    BY <1>1, <1>6, <2>1 DEF LateInv
<1>9. LedgerInv'
  <2>1. Nested(ledger)' /\ Released(ledger)'
    BY <1>3 DEF Nested, Released
  <2>2. \A t : Held(ledger, t)' = {}
    BY <1>3 DEF Held
  <2>3. Pins(ledger)' /\ Cleared(ledger)'
    BY <1>1, <1>3, <2>2 DEF Pins, Cleared
  <2>4. d => Frames(Cur)' = {}
    BY DEF Frames
  <2>5. Placed(ledger)'
    BY <1>3, <2>4 DEF Placed
  <2> QED
    BY <2>1, <2>3, <2>5 DEF LedgerInv, LedgerSound
<1>10. LiveInv' /\ RiskInv'
  BY <1>3, <1>4 DEF LiveInv, RiskInv, Expects
<1> QED
  BY <1>3, <1>4, <1>5, <1>6, <1>7, <1>8, <1>9, <1>10

LEMMA GoneOfEmptyRoot == RootTypes /\ RootInv => (files = {} => Gone = {})
  BY GoneIs

\* The root a process leaves behind: rec is the record a later open finds, recAlt
\* the one it may find after a power loss.
LEMMA StoppedKeeps ==
  ASSUME ReclaimInv, Stopped, up # "refused",
         UNCHANGED <<log, site, v1, snap, lost>>, faults' \in Nat,
         rec' \in {rec, IF recAlt = NoRecord THEN rec ELSE recAlt}, recAlt' \in {NoRecord, rec},
         NEW back \in SUBSET unsynced, files' = files \cup back,
         unsynced' \in SUBSET (unsynced \ back),
         side' \in {side, sideOld}, sideOld' \in {side', sideOld}, sideOld'.mark <= side'.mark
  PROVE  ReclaimInv'
<1>i. /\ RootTypes /\ RunTypes /\ RootInv /\ StoppedInv /\ RecordInv /\ LossInv
      /\ RefusalMeansLoss /\ AccountInv /\ ReclaimedInv /\ HalfInv /\ LateInv /\ LedgerInv
      /\ MarkInv /\ LiveInv /\ RiskInv
  BY DEF ReclaimInv
<1>u. /\ up' = "down" /\ mem' = NoRecord /\ gate' = "Unwitnessed" /\ legacy' = FALSE
      /\ ledger' = EmptyLedger(FALSE) /\ outstanding' = NoPlan /\ live' = NoPass
      /\ half' = [p \in Halves |-> Idle] /\ late' = [p \in Halves |-> {}]
  BY DEF Stopped
<1>1. /\ ledger' \in LedgerType /\ outstanding' \in OutstandingType
      /\ half' \in [Halves -> HalfType] /\ late' \in [Halves -> SUBSET Seg]
      /\ HalfInv' /\ LateInv' /\ LedgerInv' /\ LiveInv' /\ RiskInv'
      /\ UNION {half'[p].todo : p \in Halves} = {}
  BY <1>i, <1>u, NoPassRuns
<1>2. /\ rec \in Record /\ recAlt \in Record /\ files \in SUBSET Seg /\ unsynced \in SUBSET Seg
      /\ NoRecord \in Record
  BY <1>i, FreshRecords DEF RootTypes
<1>3. rec' \in Record /\ (rec' = rec \/ (recAlt # NoRecord /\ rec' = recAlt))
  BY <1>2
<1>4. rec # NoRecord => rec' # NoRecord
  BY <1>3
<1>5. files # {} => files' # {} /\ Cur' = Cur
  <2>1. ASSUME files # {} PROVE Cur \in files' /\ (\A x \in files' : x <= Cur) /\ files' \in SUBSET Seg
    <3>1. Cur \in files /\ Cur \in Nat /\ \A x \in files : x <= Cur
      BY <1>i, <2>1, CurIsNewest DEF Seg
    <3>2. \A x \in back : x < Cur /\ x \in Nat
      BY <1>i, <1>2, Bounds DEF RootInv, Seg
    <3> QED
      BY <1>2, <3>1, <3>2
  <2> QED
    BY <1>i, <2>1, NewestIs
<1>6. files = {} => unsynced = {} /\ back = {} /\ files' = {}
  BY <1>i DEF RootInv
<1>rt. RootTypes'
  BY <1>i, <1>2, <1>3, SameSite DEF RootTypes
<1>ru. RunTypes'
  BY <1>i, <1>u, <1>1, <1>2, SameSite DEF RunTypes
<1>ro. RootInv'
  BY <1>i, <1>u, <1>5, <1>6 DEF RootInv
<1>sp. StoppedInv'
  BY <1>u, SameSite DEF StoppedInv
<1>rc. RecordInv'
  <2>1. GoodRecord(NoRecord)
    BY <1>i, NoRecordIsGood
  <2>2. GoodRecord(rec') /\ GoodRecord(recAlt')
    BY <1>i, <1>3, <2>1 DEF RecordInv
  <2> QED
    BY <1>u, <2>1, <2>2, SameSite DEF RecordInv, GoodRecord, Proves
<1>ls. LossInv'
  <2>1. NoRecord.witness = "none"
    BY DEF NoRecord
  <2> QED
    BY <1>i, <1>u, <1>3, <1>4, <2>1 DEF LossInv
<1>rf. RefusalMeansLoss'
  BY <1>u DEF RefusalMeansLoss
<1>ac. AccountInv'
  <2>1. \A s : Members(s)' = Members(s) /\ \A t : LastIn(s, t)' = LastIn(s, t)
    BY SameLog
  <2>2. Gone' \subseteq Gone
    <3>1. (RootTypes /\ RootInv => (files # {} => Gone = (1..Cur) \ files))'
      BY GoneOfRoot, PTL
    <3>2. (RootTypes /\ RootInv => (files = {} => Gone = {}))'
      BY GoneOfEmptyRoot, PTL
    <3> QED
      BY <1>i, <1>rt, <1>ro, <1>5, <1>6, <3>1, <3>2, GoneIs
  <2>3. Exposed' \subseteq Exposed
    BY <1>1, <2>2, SameSite DEF Exposed
  <2>4. up = "up" /\ lost.sidecars < 2 /\ Exposed # {} => rec # NoRecord
    BY <1>i DEF AccountInv, ShowsGone, RecordInv, NoRecord
  <2>5. ASSUME lost.sidecars < 2, NEW s \in Exposed
        PROVE  /\ rec' = NoRecord => lost.sidecars # 0 /\ side'.v = 2 /\ sideOld'.v = 2
               /\ rec' # NoRecord => ShowsGone(rec', s)
               /\ recAlt' # NoRecord => ShowsGone(recAlt', s)
    BY <1>i, <1>3, <2>5 DEF AccountInv
  <2> QED
    BY <1>u, <2>1, <2>3, <2>5 DEF AccountInv, ShowsGone, Accounts
<1>rg. ReclaimedInv'
  <2>1. \A t \in Tenant : NoRecord.reclaimed[t] = 0
    BY DEF NoRecord
  <2>2. files' \cup unsynced' \subseteq files \cup unsynced
    OBVIOUS
  <2> QED
    BY <1>i, <1>u, <1>3, <2>1, <2>2 DEF ReclaimedInv, Unreturning
<1>ma. MarkInv'
  BY <1>u DEF MarkInv
<1>ha. HalfInv'
  BY <1>1
<1>la. LateInv'
  BY <1>1
<1>le. LedgerInv'
  BY <1>1
<1>li. LiveInv'
  BY <1>1
<1>ri. RiskInv'
  BY <1>1
<1> QED
  BY <1>rt, <1>ru, <1>ro, <1>sp, <1>rc, <1>ls, <1>rf, <1>ac, <1>rg, <1>ha, <1>la, <1>le,
     <1>ma, <1>li, <1>ri DEF ReclaimInv

LEMMA KillKeeps ==
  ASSUME ReclaimInv, KillProcess
  PROVE  ReclaimInv'
<1>1. /\ up # "refused" /\ Stopped /\ UNCHANGED <<log, site, v1, snap, lost>> /\ faults' = faults + 1
      /\ rec' \in {rec, IF recAlt = NoRecord THEN rec ELSE recAlt} /\ recAlt' \in {NoRecord, rec}
      /\ UNCHANGED <<files, unsynced, side, sideOld>>
  BY DEF KillProcess, Fault, fixed, dir, sidecar
<1>2. faults' \in Nat /\ sideOld.mark <= side.mark
  BY <1>1 DEF ReclaimInv, RootTypes, MarkInv
<1>3. {} \in SUBSET unsynced /\ files' = files \cup {} /\ unsynced' \in SUBSET (unsynced \ {})
  BY <1>1
<1> QED
  BY <1>1, <1>2, <1>3, StoppedKeeps

LEMMA LosePowerKeeps ==
  ASSUME ReclaimInv, LosePower
  PROVE  ReclaimInv'
<1>1. /\ up # "refused" /\ Stopped /\ UNCHANGED <<log, site, v1, snap, lost>> /\ faults' = faults + 1
      /\ rec' \in {rec, IF recAlt = NoRecord THEN rec ELSE recAlt} /\ recAlt' = NoRecord
      /\ side' \in {side, sideOld} /\ sideOld' = side' /\ unsynced' = {}
      /\ \E back \in SUBSET unsynced : files' = files \cup back
  BY DEF LosePower, Fault, fixed
<1>2. faults' \in Nat /\ side'.mark \in Nat
  BY <1>1, Bounds DEF ReclaimInv, RootTypes, Offset
<1>3. PICK back \in SUBSET unsynced : files' = files \cup back
  BY <1>1
<1>4. sideOld'.mark <= side'.mark
  BY <1>1, <1>2
<1> QED
  BY <1>1, <1>2, <1>3, <1>4, StoppedKeeps

LEMMA LoseKeeps ==
  ASSUME ReclaimInv, Lose
  PROVE  ReclaimInv'
<1>i. /\ RootTypes /\ RunTypes /\ RootInv /\ StoppedInv /\ RecordInv /\ LossInv
      /\ RefusalMeansLoss /\ AccountInv /\ ReclaimedInv /\ HalfInv /\ LateInv /\ LedgerInv
      /\ MarkInv /\ LiveInv /\ RiskInv
  BY DEF ReclaimInv
<1>u. UNCHANGED <<site, v1, log, files, unsynced, mem, up, gate,
                  legacy, ledger, outstanding, live, half, late, faults>>
  BY DEF Lose, fixed, dir, run, pass
<1>1. lost \in [snapshots : Nat, sidecars : Nat] /\ lost.sidecars \in Nat
  BY <1>i DEF RootTypes
<1>2. Halves' = Halves
  BY <1>u, SameSite
<1>3. CASE /\ \E t \in Tenant : snap[t] # 0 /\ snap' = [snap EXCEPT ![t] = 0]
           /\ lost' = [lost EXCEPT !.snapshots = @ + 1]
           /\ UNCHANGED <<rec, recAlt, sidecar>>
  <2>u. UNCHANGED <<rec, recAlt, side, sideOld>> /\ lost'.sidecars = lost.sidecars
        /\ lost' \in [snapshots : Nat, sidecars : Nat] /\ snap' \in [Tenant -> Offset]
    BY <1>i, <1>1, <1>3, FreshRecords DEF sidecar, RootTypes
  <2>1. RootTypes'
    BY <1>i, <1>u, <2>u, SameSite DEF RootTypes
  <2>2. RunTypes'
    BY <1>i, <1>u, SameSite DEF RunTypes
  <2>3. LossInv' /\ RefusalMeansLoss'
    BY <1>i, <1>u, <2>u DEF LossInv, RefusalMeansLoss
  <2>4. AccountInv'
    <3>1. Gone' = Gone
      BY <1>u, SameRoot
    <3>2. Exposed' = Exposed
      BY <1>u, <1>2, <3>1 DEF Exposed
    <3>3. \A s : Members(s)' = Members(s) /\ \A t : LastIn(s, t)' = LastIn(s, t)
      BY <1>u, SameLog
    <3> QED
      BY <1>i, <1>u, <2>u, <3>2, <3>3 DEF AccountInv, ShowsGone, Accounts
  <2>5. RootInv' /\ StoppedInv' /\ RecordInv' /\ ReclaimedInv'
    BY <1>i, <1>u, <2>u, KeepRoot, KeepStopped, KeepRecord, KeepReclaimed
  <2>6. HalfInv' /\ LateInv' /\ LedgerInv'
    BY <1>i, <1>u, <2>u, KeepHalf, KeepLate, KeepLedger DEF LedgerInv
  <2>7. MarkInv' /\ LiveInv' /\ RiskInv'
    BY <1>i, <1>u, <2>u, KeepMark, KeepLive, KeepRisk
  <2> QED
    BY <2>1, <2>2, <2>3, <2>4, <2>5, <2>6, <2>7 DEF ReclaimInv
<1>4. CASE /\ up = "down" /\ lost' = [lost EXCEPT !.sidecars = @ + 1] /\ UNCHANGED snap
           /\ \/ rec # NoRecord /\ rec' = NoRecord /\ recAlt' = NoRecord /\ UNCHANGED sidecar
              \/ /\ side.v # 0 /\ UNCHANGED <<rec, recAlt>>
                 /\ side' = [v |-> 0, mark |-> 0] /\ sideOld' = side'
  <2>u. /\ up = "down" /\ lost'.sidecars = lost.sidecars + 1 /\ snap' = snap
        /\ lost' \in [snapshots : Nat, sidecars : Nat]
        /\ \/ /\ rec # NoRecord /\ rec' = NoRecord /\ recAlt' = NoRecord
              /\ side' = side /\ sideOld' = sideOld
           \/ /\ side.v # 0 /\ rec' = rec /\ recAlt' = recAlt /\ sideOld' = side'
              /\ side' = [v |-> 0, mark |-> 0]
    BY <1>1, <1>4 DEF sidecar
  <2>i. /\ mem = NoRecord /\ gate = "Unwitnessed"
        /\ ledger = EmptyLedger(FALSE) /\ outstanding = NoPlan /\ live = NoPass
        /\ half = [p \in Halves |-> Idle] /\ late = [p \in Halves |-> {}]
    BY <1>i, <2>u DEF StoppedInv
  <2>0. /\ HalfInv' /\ LateInv' /\ LedgerInv' /\ LiveInv' /\ RiskInv'
        /\ UNION {half'[p].todo : p \in Halves} = {}
    BY <1>i, <1>u, <2>i, NoPassRuns
  <2>1. RootTypes'
    <3>1. [v |-> 0, mark |-> 0] \in [v : 0..2, mark : Offset] /\ NoRecord \in Record
      BY <1>i, FreshRecords
    <3>2. /\ side' \in [v : 0..2, mark : Offset] /\ sideOld' \in [v : 0..2, mark : Offset]
          /\ rec' \in Record /\ recAlt' \in Record
      BY <1>i, <2>u, <3>1 DEF RootTypes
    <3> QED
      BY <1>i, <1>u, <2>u, <3>2, SameSite DEF RootTypes
  <2>2. RunTypes'
    BY <1>i, <1>u, SameSite DEF RunTypes
  <2>3. LossInv' /\ RefusalMeansLoss'
    BY <1>1, <2>u DEF LossInv, RefusalMeansLoss
  <2>4. AccountInv'
    <3>1. Gone' = Gone
      BY <1>u, SameRoot
    <3>2. Exposed' \subseteq Exposed
      BY <1>2, <2>0, <3>1 DEF Exposed
    <3>3. \A s : Members(s)' = Members(s) /\ \A t : LastIn(s, t)' = LastIn(s, t)
      BY <1>u, SameLog
    <3>4. ASSUME lost'.sidecars < 2, NEW s \in Exposed
          PROVE  /\ rec' = NoRecord => lost'.sidecars # 0 /\ side'.v = 2 /\ sideOld'.v = 2
                 /\ rec' # NoRecord => ShowsGone(rec', s)
                 /\ recAlt' # NoRecord => ShowsGone(recAlt', s)
      <4>1. lost.sidecars = 0 /\ lost.sidecars < 2
        BY <1>1, <2>u, <3>4
      <4>2. rec # NoRecord /\ ShowsGone(rec, s) /\ (recAlt # NoRecord => ShowsGone(recAlt, s))
        BY <1>i, <4>1 DEF AccountInv
      <4>3. side.v = 2 /\ sideOld.v = 2
        BY <1>i, <4>1, <4>2 DEF LossInv, ShowsGone
      <4> QED
        BY <1>1, <2>u, <4>2, <4>3
    <3> QED
      BY <1>u, <2>u, <2>i, <3>2, <3>3, <3>4 DEF AccountInv, ShowsGone, Accounts
  <2>5. RootInv'
    <3>1. Cur' = Cur
      BY <1>u, SameRoot
    <3> QED
      BY <1>i, <1>u, <2>u, <3>1 DEF RootInv
  <2>6. StoppedInv'
    BY <1>i, <1>u, KeepStopped
  <2>7. RecordInv'
    <3>1. GoodRecord(NoRecord)
      BY <1>i, NoRecordIsGood
    <3>2. GoodRecord(rec') /\ GoodRecord(recAlt')
      BY <1>i, <2>u, <3>1 DEF RecordInv
    <3> QED
      BY <1>i, <1>u, <2>u, <3>2, SameSite DEF RecordInv, GoodRecord, Proves
  <2>8. ReclaimedInv'
    <3>1. \A t \in Tenant : NoRecord.reclaimed[t] = 0
      BY DEF NoRecord
    <3> QED
      BY <1>i, <1>u, <2>u, <3>1 DEF ReclaimedInv, Unreturning
  <2>9. MarkInv'
    <3>1. side.mark \in Nat /\ sideOld.mark \in Nat
      BY <1>i, Bounds DEF RootTypes, Offset
    <3> QED
      BY <1>i, <1>u, <2>u, <2>i, <3>1 DEF MarkInv
  <2> QED
    BY <2>0, <2>1, <2>2, <2>3, <2>4, <2>5, <2>6, <2>7, <2>8, <2>9 DEF ReclaimInv
<1> QED
  BY <1>3, <1>4 DEF Lose

\* The newest segment k gains the frame, and its last offset of no other tenant moves.
LEMMA AppendHere ==
  ASSUME RootTypes, NEW u \in Tenant, files # {}, NEW k, k = Cur,
         log' = Append(log, [seg |-> Cur, tenant |-> u])
  PROVE  /\ u \in Members(k)'
         /\ \A t : t # u => (t \in Members(k)' <=> t \in Members(k)) /\ LastIn(k, t)' = LastIn(k, t)
<1>1. Cur \in Seg
  BY CurIsNewest
<1>2. Len(log) \in Nat /\ DOMAIN log = 1..Len(log) /\ log \in Seq([seg : Seg, tenant : Tenant])
  BY LogEntries DEF RootTypes
<1>3. /\ DOMAIN log' = 1..(Len(log) + 1) /\ \A i \in DOMAIN log : log'[i] = log[i]
      /\ log'[Len(log) + 1] = [seg |-> Cur, tenant |-> u]
  BY <1>1, <1>2
<1>4. \A i \in DOMAIN log' : i \in DOMAIN log \/ i = Len(log) + 1
  BY <1>2, <1>3
<1>5. DOMAIN log \subseteq DOMAIN log' /\ Len(log) + 1 \in DOMAIN log'
  BY <1>2, <1>3
<1>6. Frames(k)' = Frames(k) \cup {Len(log) + 1} /\ \A i \in Frames(k) : log'[i] = log[i]
  BY <1>3, <1>4, <1>5 DEF Frames
<1> DEFINE n == Len(log) + 1
           F == Frames(k)
           G == Frames(k)'
           new == log'
<1>n. G = F \cup {n} /\ new[n].tenant = u /\ \A i \in F : new[i] = log[i]
  <2>1. new[n] = [seg |-> Cur, tenant |-> u]
    BY <1>3
  <2>2. new[n].tenant = u
    BY <2>1
  <2>3. G = F \cup {n}
    BY <1>6
  <2>4. \A i \in F : new[i] = log[i]
    BY <1>6
  <2> QED
    BY <2>2, <2>3, <2>4
<1> HIDE DEF n, F, G, new
<1>7. \A t : (\E i \in G : new[i].tenant = t) <=> t = u \/ \E i \in F : log[i].tenant = t
  BY <1>n
<1>8. \A t : t \in Members(k)' <=> t = u \/ t \in Members(k)
  BY <1>7 DEF Members, F, G, new
<1>9. ASSUME NEW t, t # u PROVE LastIn(k, t)' = LastIn(k, t)
  <2>1. {i \in G : new[i].tenant = t} = {i \in F : log[i].tenant = t}
    BY <1>n, <1>9
  <2> QED
    BY <2>1 DEF LastIn, F, G, new
<1> QED
  BY <1>8, <1>9

\* An observed frame leaves the ledger sound: its segment is pinned again.
LEMMA ObserveKeeps ==
  ASSUME RootTypes, files # {}, LedgerInv, ledger \in LedgerType, ledger.describes_root,
         NEW u \in Tenant, log' = Append(log, [seg |-> Cur, tenant |-> u]),
         ledger' = Observe(ledger, Cur, u), UNCHANGED <<site, files, sideOld>>
  PROVE  /\ LedgerInv' /\ ledger' \in LedgerType
         /\ ledger'.segments = ledger.segments \cup {Cur}
         /\ ledger'.describes_root = ledger.describes_root
         /\ ledger'.reclaiming = ledger.reclaiming /\ ledger'.uncertain = ledger.uncertain
         /\ ledger'.attempted = ledger.attempted
<1>0. PICK k : k = Cur
  OBVIOUS
<1> DEFINE l == ledger
           c == IF k > l.cursor[u] THEN l.cursor[u] ELSE Max({0} \cup {r \in Held(l, u) : r < k})
<1>1. k = Cur /\ k \in Seg /\ Cur' = k /\ Modes' = Modes /\ Seg' = Seg
  BY <1>0, CurIsNewest, SameSite DEF Cur
<1>2. /\ l.segments \in SUBSET Seg /\ l.pending \in [Seg -> SUBSET Tenant]
      /\ l.cursor \in [Tenant -> 0..SegmentsBound] /\ \A s \in Seg : s \in Nat /\ s > 0
      /\ \A t \in Tenant : l.cursor[t] \in Nat /\ l.horizon[t] \in Nat
      /\ SegmentsBound \in Nat
  BY LedgerFields, Bounds
<1>3. /\ c \in 0..SegmentsBound /\ c < k /\ c <= l.cursor[u]
      /\ \A r \in Held(l, u) : r < k => (r > c <=> r > l.cursor[u])
  <2>1. k \in 1..SegmentsBound /\ l.cursor[u] \in 0..SegmentsBound
    BY <1>1, <1>2 DEF Seg
  <2>2. CASE k > l.cursor[u]
    BY <1>2, <2>1, <2>2
  <2>3. CASE ~ (k > l.cursor[u])
    <3> DEFINE S == {0} \cup {r \in Held(l, u) : r < k}
    <3>1. \A r \in Held(l, u) : r \in 1..SegmentsBound
      BY <1>2 DEF Held, Seg
    <3>2. S \in SUBSET (0..SegmentsBound) /\ S # {}
      BY <1>2, <3>1
    <3>3. Max(S) \in S /\ \A x \in S : x <= Max(S)
      BY <1>2, <3>2, GreatestExists
    <3>4. c = Max(S)
      BY <2>3
    <3>5. \A x \in S : x < k /\ x \in 0..SegmentsBound
      BY <2>1, <3>2
    <3> HIDE DEF c
    <3>6. c \in 0..SegmentsBound /\ c < k
      BY <3>3, <3>4, <3>5
    <3>7. \A r \in Held(l, u) : r < k => r <= c
      BY <3>3, <3>4
    <3>8. c <= l.cursor[u]
      BY <2>1, <2>3, <3>6
    <3>9. ASSUME NEW r \in Held(l, u), r < k PROVE r > c <=> r > l.cursor[u]
      BY <2>1, <2>3, <3>1, <3>6, <3>7, <3>9
    <3> QED
      BY <3>6, <3>8, <3>9
  <2> QED
    BY <2>2, <2>3
<1>4. ledger' = [l EXCEPT !.segments = @ \cup {k}, !.pending[k] = @ \cup {u}, !.cursor[u] = c]
  BY <1>1 DEF Observe
<1> HIDE DEF c
<1>5. /\ ledger' \in LedgerType
      /\ ledger'.segments = l.segments \cup {k} /\ ledger'.describes_root = l.describes_root
      /\ ledger'.reclaiming = l.reclaiming /\ ledger'.uncertain = l.uncertain
      /\ ledger'.attempted = l.attempted /\ ledger'.horizon = l.horizon
      /\ ledger'.pending = [l.pending EXCEPT ![k] = @ \cup {u}]
      /\ ledger'.cursor = [l.cursor EXCEPT ![u] = c]
  <2>1. /\ l.segments \cup {k} \in SUBSET Seg
        /\ [l.pending EXCEPT ![k] = @ \cup {u}] \in [Seg -> SUBSET Tenant]
        /\ [l.cursor EXCEPT ![u] = c] \in [Tenant -> 0..SegmentsBound]
    BY <1>1, <1>2, <1>3
  <2>2. ledger' = [l EXCEPT !.segments = l.segments \cup {k},
                            !.pending = [l.pending EXCEPT ![k] = @ \cup {u}],
                            !.cursor = [l.cursor EXCEPT ![u] = c]]
    BY <1>4
  <2> QED
    BY <2>1, <2>2 DEF LedgerType
<1>6. /\ \A s \in Seg, t \in Tenant : t \in l.pending[s] <=> s \in Held(l, t) /\ s > l.cursor[t]
      /\ \A t \in Tenant : \A s \in Held(l, t) : s <= l.cursor[t] => LastIn(s, t) <= l.horizon[t]
      /\ \A s \in l.segments : s <= k
      /\ \A s \in l.reclaiming : s < k /\ Highest(s) <= sideOld.mark
      /\ Frames(k) # {} => k \in l.segments
      /\ l.uncertain \subseteq l.reclaiming /\ l.reclaiming \cup l.attempted \subseteq l.segments
      /\ Modes = {"Known"} => \A s \in l.reclaiming : l.pending[s] = {}
  BY <1>1 DEF LedgerInv, LedgerSound, Pins, Cleared, Placed, Nested, Released
<1>7. \A s : s # k => /\ Members(s)' = Members(s) /\ Highest(s)' = Highest(s)
                        /\ \A t : LastIn(s, t)' = LastIn(s, t)
  BY <1>1, AppendElsewhere
<1>8. /\ u \in Members(k)' /\ \A t : t # u => (t \in Members(k)' <=> t \in Members(k))
      /\ \A t : t # u => LastIn(k, t)' = LastIn(k, t)
  BY <1>1, AppendHere
<1>9. \A t : t \in Members(k) => k \in l.segments
  BY <1>6 DEF Members
<1>10. \A s, t : s \in Held(ledger, t)' <=> s \in l.segments \cup {k} /\ t \in Members(s)'
  BY <1>5 DEF Held
<1>11. \A s, t : (s # k \/ t # u) => (s \in Held(ledger, t)' <=> s \in Held(l, t))
  <2>1. ASSUME NEW s, NEW t, s # k PROVE s \in Held(ledger, t)' <=> s \in Held(l, t)
    BY <1>7, <1>10, <2>1 DEF Held
  <2>2. ASSUME NEW t, t # u PROVE k \in Held(ledger, t)' <=> k \in Held(l, t)
    <3>1. t \in Members(k)' <=> t \in Members(k)
      BY <1>8, <2>2
    <3>2. k \in Held(ledger, t)' <=> t \in Members(k)'
      BY <1>10
    <3>3. k \in Held(l, t) <=> k \in l.segments /\ t \in Members(k)
      BY DEF Held
    <3> QED
      BY <1>9, <3>1, <3>2, <3>3
  <2> QED
    BY <2>1, <2>2
<1>12. k \in Held(ledger, u)'
  BY <1>1, <1>8, <1>10
<1>13. \A s \in Seg, t \in Tenant :
         (s # k \/ t # u) => (t \in ledger'.pending[s] <=> t \in l.pending[s])
  BY <1>2, <1>5
<1>14. u \in ledger'.pending[k] /\ ledger'.cursor[u] = c
       /\ \A t \in Tenant : t # u => ledger'.cursor[t] = l.cursor[t]
  BY <1>1, <1>2, <1>5
<1>15. ASSUME NEW s \in Seg, NEW t \in Tenant
       PROVE  t \in ledger'.pending[s] <=> s \in Held(ledger, t)' /\ s > ledger'.cursor[t]
  <2>1. CASE s = k /\ t = u
    <3>1. k > c
      BY <1>1, <1>2, <1>3
    <3> QED
      BY <1>12, <1>14, <2>1, <3>1
  <2>2. CASE t # u
    BY <1>6, <1>11, <1>13, <1>14, <2>2
  <2>3. CASE s # k /\ t = u
    <3>1. s \in Held(l, u) => s < k
      BY <1>1, <1>2, <1>6, <2>3 DEF Held
    <3>2. s \in Held(l, u) => (s > c <=> s > l.cursor[u])
      BY <1>3, <3>1
    <3> QED
      BY <1>6, <1>11, <1>13, <1>14, <2>3, <3>2
  <2> QED
    BY <2>1, <2>2, <2>3
<1>16. ASSUME NEW t \in Tenant, NEW s \in Held(ledger, t)', s <= ledger'.cursor[t]
       PROVE  LastIn(s, t)' <= ledger'.horizon[t]
  <2>1. CASE t # u
    <3>1. s \in Held(l, t) /\ s <= l.cursor[t]
      BY <1>11, <1>14, <1>16, <2>1
    <3>2. LastIn(s, t)' = LastIn(s, t)
      BY <1>7, <1>8, <2>1
    <3> QED
      BY <1>5, <1>6, <3>1, <3>2
  <2>2. CASE t = u
    <3>1. s \in Nat /\ s <= c
      BY <1>1, <1>2, <1>10, <1>14, <1>16, <2>2
    <3>2. s # k /\ s <= l.cursor[u]
      BY <1>1, <1>2, <1>3, <3>1
    <3>3. s \in Held(l, u) /\ LastIn(s, u)' = LastIn(s, u)
      BY <1>7, <1>11, <1>16, <2>2, <3>2
    <3> QED
      BY <1>5, <1>6, <2>2, <3>2, <3>3
  <2> QED
    BY <2>1, <2>2
<1>17. Pins(ledger)' /\ Cleared(ledger)'
  BY <1>1, <1>15, <1>16 DEF Pins, Cleared
<1>18. Nested(ledger)' /\ Placed(ledger)'
  <2>1. \A s \in l.reclaiming : s # k
    BY <1>1, <1>2, <1>6
  <2>2. \A s \in l.segments \cup {k} : s <= k
    BY <1>1, <1>2, <1>6
  <2>3. Nested(ledger)'
    BY <1>5, <1>6 DEF Nested
  <2>4. \A s \in ledger'.reclaiming : s < k /\ Highest(s)' <= sideOld'.mark
    BY <1>5, <1>6, <1>7, <2>1
  <2> QED
    BY <1>1, <1>5, <2>2, <2>3, <2>4 DEF Placed
<1>19. Released(ledger)'
  <2>1. \A s \in l.reclaiming : s \in Seg /\ s # k
    BY <1>1, <1>2, <1>6
  <2>2. \A s \in l.reclaiming : ledger'.pending[s] = l.pending[s]
    BY <1>2, <1>5, <2>1
  <2> QED
    BY <1>1, <1>5, <1>6, <2>2 DEF Released
<1> QED
  BY <1>1, <1>5, <1>17, <1>18, <1>19 DEF LedgerInv, LedgerSound

LEMMA AppendFrameKeeps ==
  ASSUME ReclaimInv, NEW u \in site.tenants, AppendFrame(u)
  PROVE  ReclaimInv'
<1>i. /\ RootTypes /\ RunTypes /\ RootInv /\ StoppedInv /\ RecordInv /\ LossInv
      /\ RefusalMeansLoss /\ AccountInv /\ ReclaimedInv /\ HalfInv /\ LateInv /\ LedgerInv
      /\ MarkInv /\ LiveInv /\ RiskInv
  BY DEF ReclaimInv
<1>u. /\ UNCHANGED <<site, v1, files, unsynced, side, sideOld, rec, recAlt, mem, snap, up, gate,
                     legacy, outstanding, live, half, late, faults, lost>>
      /\ up = "up" /\ ledger.describes_root /\ Len(log) < FramesBound
      /\ log' = Append(log, [seg |-> Cur, tenant |-> u]) /\ ledger' = Observe(ledger, Cur, u)
  BY DEF AppendFrame, fixed, dir, sidecar, record, run, bounds
<1>1. u \in Tenant /\ files # {} /\ Cur \in files /\ Cur \in Seg /\ Cur' = Cur /\ Halves' = Halves
  BY <1>i, <1>u, Bounds, CurIsNewest, SameSite DEF RootInv, Cur
<1>2. /\ LedgerInv' /\ ledger' \in LedgerType
      /\ ledger'.segments = ledger.segments \cup {Cur}
      /\ ledger'.describes_root = ledger.describes_root
      /\ ledger'.reclaiming = ledger.reclaiming /\ ledger'.uncertain = ledger.uncertain
      /\ ledger'.attempted = ledger.attempted
  BY <1>i, <1>u, <1>1, ObserveKeeps DEF RunTypes
<1>3. Len(log) \in Nat /\ DOMAIN log = 1..Len(log) /\ log \in Seq([seg : Seg, tenant : Tenant])
  BY <1>i, LogEntries DEF RootTypes
<1>4. /\ DOMAIN log' = 1..(Len(log) + 1) /\ \A i \in DOMAIN log : log'[i] = log[i]
      /\ log'[Len(log) + 1] = [seg |-> Cur, tenant |-> u]
      /\ log' \in Seq([seg : Seg, tenant : Tenant]) /\ Len(log') = Len(log) + 1
  BY <1>1, <1>3, <1>u
<1>5. \A i \in DOMAIN log' : i \in DOMAIN log \/ i = Len(log) + 1
  BY <1>3, <1>4
<1>6. \A s : s # Cur => /\ Members(s)' = Members(s) /\ Highest(s)' = Highest(s)
                        /\ \A t : LastIn(s, t)' = LastIn(s, t)
  BY <1>i, <1>u, <1>1, AppendElsewhere
<1>7. \A p \in Halves : HalfGood(half[p]) /\ half[p] \in HalfType
  BY <1>i DEF HalfInv, RunTypes
<1>8. \A p \in Halves : \A s \in half[p].plan : s # Cur /\ s \in Seg
  <2>1. Cur \in Nat
    BY <1>i, <1>1, Bounds DEF Seg
  <2> QED
    BY <1>7, <2>1 DEF HalfGood, HalfType
<1>rt. RootTypes'
  BY <1>i, <1>u, <1>3, <1>4, SameSite, Bounds DEF RootTypes
<1>ru. RunTypes'
  BY <1>i, <1>u, <1>2, SameSite DEF RunTypes
<1>ro. RootInv'
  <2>1. \A i \in DOMAIN log' : log'[i].seg <= Cur
    <3>1. Cur <= Cur
      BY <1>i, <1>1, Bounds DEF Seg
    <3> QED
      BY <1>i, <1>4, <1>5, <3>1 DEF RootInv
  <2> QED
    BY <1>i, <1>u, <1>1, <2>1 DEF RootInv
<1>sp. StoppedInv'
  BY <1>u DEF StoppedInv
<1>ac. AccountInv'
  <2>1. Gone = (1..Cur) \ files
    BY <1>i, <1>1, GoneOfRoot
  <2>2. Gone' = (1..Cur) \ files
    <3>1. (RootTypes /\ RootInv => (files # {} => Gone = (1..Cur) \ files))'
      BY GoneOfRoot, PTL
    <3> QED
      BY <1>rt, <1>ro, <1>u, <1>1, <3>1
  <2>3. Exposed' = Exposed
    BY <1>u, <1>1, <2>1, <2>2 DEF Exposed
  <2>4. \A s \in Exposed : s # Cur
    <3>1. \A p \in Halves : half[p].todo \subseteq half[p].plan
      BY <1>7 DEF HalfGood, HalfShape
    <3> QED
      BY <1>1, <1>8, <2>1, <3>1 DEF Exposed
  <2> QED
    BY <1>i, <1>u, <1>6, <2>3, <2>4 DEF AccountInv, ShowsGone, Accounts
<1>rg. ReclaimedInv'
  <2>1. \A i : Unreturning(i) => Unreturning(i)'
    BY <1>u, <1>3, <1>4 DEF Unreturning
  <2> QED
    BY <1>i, <1>u, <2>1 DEF ReclaimedInv, Unreturning
<1>ha. HalfInv'
  <2>1. ASSUME NEW p \in Halves PROVE HalfGood(half[p])'
    <3>1. HalfShape(half[p])'
      BY <1>u, <1>7 DEF HalfGood, HalfShape
    <3> QED
      BY <1>u, <1>1, <1>2, <1>6, <1>7, <1>8, <3>1 DEF HalfGood
  <2> QED
    BY <1>1, <2>1 DEF HalfInv
<1>le. LedgerInv'
  BY <1>2
<1>li. LiveInv'
  BY <1>i, <1>u, <1>2, SameSite DEF LiveInv
<1>ri. RiskInv'
  <2>1. \A s : AtRisk(s)' <=> AtRisk(s)
    BY <1>u, <1>1 DEF AtRisk, MayStillGo
  <2>2. ~ AtRisk(Cur)
    <3>1. \A p \in Halves : half[p].todo \subseteq half[p].plan
      BY <1>7 DEF HalfGood, HalfShape
    <3> QED
      BY <1>1, <1>8, <3>1 DEF AtRisk, MayStillGo
  <2> QED
    BY <1>i, <1>u, <1>2, <2>1, <2>2 DEF RiskInv, Expects
<1>rc. RecordInv'
  BY <1>i, <1>u, KeepRecord
<1>ls. LossInv'
  BY <1>i, <1>u, KeepLoss
<1>rf. RefusalMeansLoss'
  BY <1>i, <1>u, KeepRefusal
<1>la. LateInv'
  BY <1>i, <1>u, KeepLate
<1>ma. MarkInv'
  BY <1>i, <1>u, KeepMark
<1> QED
  BY <1>rt, <1>ru, <1>ro, <1>sp, <1>rc, <1>ls, <1>rf, <1>ac, <1>rg, <1>ha, <1>la, <1>le,
     <1>ma, <1>li, <1>ri DEF ReclaimInv

\* A ledger of a root with a newer, still empty segment.
LEMMA LedgerOfRotated ==
  ASSUME RootTypes, LedgerInv, UNCHANGED <<site, ledger, log>>, files # {},
         Cur' = Cur + 1, Frames(Cur + 1) = {}, ledger \in LedgerType,
         sideOld'.mark \in Nat, sideOld.mark <= sideOld'.mark
  PROVE  LedgerInv'
<1>1. Modes' = Modes /\ Seg' = Seg
  BY SameSite
<1>2. \A s : Frames(s)' = Frames(s) /\ Members(s)' = Members(s) /\ Highest(s)' = Highest(s)
  BY SameLog
<1>3. \A s, t : LastIn(s, t)' = LastIn(s, t)
  BY SameLog
<1>4. sideOld.mark \in Nat /\ \A s : Highest(s) \in Nat
  BY Bounds, HighestIs, LogEntries DEF RootTypes, Offset
<1>5. Cur \in Nat /\ ledger.segments \in SUBSET Nat /\ ledger.reclaiming \in SUBSET Nat
  BY CurIsNewest, LedgerFields, Bounds DEF Seg
<1>6. Frames(Cur)' = {}
  BY DEF Frames
<1>7. Nested(ledger)'
  BY DEF LedgerInv, LedgerSound, Nested
<1>8. \A s \in ledger.segments : s <= Cur + 1
  BY <1>5 DEF LedgerInv, LedgerSound, Placed
<1>9. \A s \in ledger.reclaiming : s < Cur + 1 /\ Highest(s) <= sideOld'.mark
  BY <1>4, <1>5 DEF LedgerInv, LedgerSound, Placed
<1>10. Placed(ledger)'
  BY <1>2, <1>6, <1>8, <1>9 DEF Placed
<1>11. \A t : Held(ledger, t)' = Held(ledger, t)
  BY <1>2 DEF Held
<1>12. Pins(ledger)' /\ Cleared(ledger)' /\ Released(ledger)'
  BY <1>1, <1>3, <1>11 DEF LedgerInv, LedgerSound, Pins, Cleared, Released
<1> QED
  BY <1>7, <1>10, <1>12 DEF LedgerInv, LedgerSound

LEMMA RotateKeeps ==
  ASSUME ReclaimInv, Rotate
  PROVE  ReclaimInv'
<1>i. /\ RootTypes /\ RunTypes /\ RootInv /\ StoppedInv /\ RecordInv /\ LossInv
      /\ RefusalMeansLoss /\ AccountInv /\ ReclaimedInv /\ HalfInv /\ LateInv /\ LedgerInv
      /\ MarkInv /\ LiveInv /\ RiskInv
  BY DEF ReclaimInv
<1> DEFINE A == Fresh("Armed")
<1>u. /\ UNCHANGED <<site, v1, log, side, snap, up, gate, legacy, ledger, outstanding, live, half,
                     late, lost>>
      /\ up = "up" /\ Frames(Cur) # {}
  BY DEF Rotate, fixed, run, pass
<1>1. /\ mem = NoRecord => rec' = A /\ recAlt' = NoRecord /\ mem' = A
      /\ mem # NoRecord => UNCHANGED <<rec, recAlt, mem>>
  BY DEF Rotate, Committed, record
<1>2. \/ /\ Cur < SegmentsBound /\ files' = files \cup {Cur + 1} /\ unsynced' = {}
         /\ sideOld' = side /\ faults' = faults
      \/ UNCHANGED <<files, unsynced, sideOld>> /\ faults' = faults + 1 /\ mem = NoRecord
  BY DEF Rotate, Fault, dir
<1>3. files # {} /\ Cur \in files /\ Cur \in Seg /\ \A s \in files : s <= Cur
  BY <1>i, <1>u, CurIsNewest DEF RootInv
<1>4. SegmentsBound \in Nat /\ files \in SUBSET (1..SegmentsBound) /\ unsynced \in SUBSET (1..SegmentsBound)
      /\ Cur \in 1..SegmentsBound /\ Seg = 1..SegmentsBound /\ Cur + 1 # Cur /\ Cur + 1 \in Nat
  BY <1>i, <1>3, Bounds DEF RootTypes, Seg
<1>5. files' \in SUBSET Seg /\ files' # {} /\ files \subseteq files' /\ files' \subseteq files \cup {Cur + 1}
      /\ unsynced' \in SUBSET unsynced
  <2>1. Cur < SegmentsBound => Cur + 1 \in Seg
    BY <1>4
  <2>2. files \in SUBSET Seg
    BY <1>4
  <2> QED
    BY <1>2, <1>3, <2>1, <2>2
<1>6. \/ files' = files \cup {Cur + 1} /\ unsynced' = {} /\ sideOld' = side /\ Cur' = Cur + 1
      \/ UNCHANGED <<files, unsynced, sideOld>> /\ Cur' = Cur
  <2>1. CASE files' = files \cup {Cur + 1} /\ unsynced' = {} /\ sideOld' = side
    <3>1. Cur + 1 \in files' /\ \A x \in files' : x <= Cur + 1
      BY <1>3, <1>4, <2>1
    <3> QED
      BY <1>i, <1>u, <1>5, <2>1, <3>1, NewestIs
  <2> QED
    BY <1>2, <2>1 DEF Cur
<1>7. A \in Record /\ NoRecord \in Record /\ A.witness = "Armed" /\ A.planned = {} /\ NoRecord.planned = {}
      /\ A # NoRecord /\ NoRecord.witness = "none" /\ A.reclaimed = NoRecord.reclaimed
      /\ \A t \in Tenant : A.reclaimed[t] = 0 /\ NoRecord.reclaimed[t] = 0
  BY <1>i, FreshRecords
<1> HIDE DEF A
<1>8. /\ side \in [v : 0..2, mark : Offset] /\ sideOld \in [v : 0..2, mark : Offset]
      /\ sideOld' \in {side, sideOld} /\ sideOld.mark \in Nat /\ side.mark \in Nat
      /\ sideOld.mark <= side.mark /\ sideOld.mark <= sideOld'.mark
  BY <1>i, <1>2, Bounds DEF RootTypes, MarkInv, Offset
<1>9. mem'.planned = mem.planned /\ rec' \in Record /\ recAlt' \in Record /\ mem' \in Record
      /\ mem'.reclaimed = mem.reclaimed
  BY <1>i, <1>1, <1>7 DEF RootTypes, RunTypes
<1>10. mem.witness = "Terminal" => UNCHANGED <<rec, recAlt, mem>>
  BY <1>1, <1>7
<1>11. Halves' = Halves
  BY <1>u, SameSite
<1>12. \A i \in DOMAIN log : log[i].seg \in Nat /\ log[i].seg <= Cur
  BY <1>i, LogEntries, Bounds DEF RootInv, Seg
<1>13. \A p \in Halves : HalfGood(half[p]) /\ half[p] \in HalfType
  BY <1>i DEF HalfInv, RunTypes
<1>rt. RootTypes'
  BY <1>i, <1>u, <1>2, <1>4, <1>5, <1>8, <1>9, SameSite DEF RootTypes
<1>ru. RunTypes'
  BY <1>i, <1>u, <1>9, SameSite DEF RunTypes
<1>ro. RootInv'
  <2>1. \A s \in unsynced' : s \notin files' /\ s < Cur'
    BY <1>i, <1>6 DEF RootInv
  <2>2. \A i \in DOMAIN log : log[i].seg <= Cur'
    BY <1>4, <1>6, <1>12
  <2> QED
    BY <1>u, <1>5, <2>1, <2>2 DEF RootInv
<1>sp. StoppedInv'
  BY <1>u DEF StoppedInv
<1>rc. RecordInv'
  <2>1. GoodRecord(A) /\ GoodRecord(NoRecord)
    BY <1>i, NoRecordIsGood DEF A
  <2>2. GoodRecord(rec') /\ GoodRecord(recAlt') /\ GoodRecord(mem')
    BY <1>i, <1>1, <2>1 DEF RecordInv
  <2>3. GoodRecord(rec)' /\ GoodRecord(recAlt)' /\ GoodRecord(mem)'
    BY <1>u, <2>2, SameSite DEF GoodRecord, Proves
  <2> QED
    BY <1>i, <1>u, <1>1, <1>7, <2>3 DEF RecordInv
<1>ls. LossInv'
  <2>1. mem # NoRecord => rec # NoRecord
    BY <1>i, <1>u DEF RecordInv
  <2> QED
    BY <1>i, <1>u, <1>1, <1>7, <1>8, <2>1 DEF LossInv
<1>ac. AccountInv'
  <2>1. Gone = (1..Cur) \ files
    BY <1>i, <1>3, GoneOfRoot
  <2>2. Gone' = (1..Cur') \ files'
    <3>1. (RootTypes /\ RootInv => (files # {} => Gone = (1..Cur) \ files))'
      BY GoneOfRoot, PTL
    <3> QED
      BY <1>rt, <1>ro, <1>5, <3>1
  <2>3. Gone' \subseteq Gone
    BY <1>4, <1>6, <2>1, <2>2
  <2>4. Exposed' \subseteq Exposed
    BY <1>u, <1>11, <2>3 DEF Exposed
  <2>5. \A s : Members(s)' = Members(s) /\ \A t : LastIn(s, t)' = LastIn(s, t)
    BY <1>u, SameLog
  <2>6. ASSUME lost.sidecars < 2, NEW s \in Exposed
        PROVE  /\ ShowsGone(mem', s) /\ rec' # NoRecord /\ ShowsGone(rec', s)
               /\ recAlt' # NoRecord => ShowsGone(recAlt', s)
    <3>1. ShowsGone(mem, s) /\ (rec # NoRecord => ShowsGone(rec, s))
          /\ (recAlt # NoRecord => ShowsGone(recAlt, s))
      BY <1>i, <1>u, <2>6 DEF AccountInv
    <3>2. UNCHANGED <<rec, recAlt, mem>> /\ mem # NoRecord
      BY <1>7, <1>10, <3>1 DEF ShowsGone
    <3>3. rec # NoRecord
      BY <1>i, <1>u, <3>2 DEF RecordInv
    <3> QED
      BY <3>1, <3>2, <3>3
  <2> QED
    BY <1>u, <2>4, <2>5, <2>6 DEF AccountInv, ShowsGone, Accounts
<1>rg. ReclaimedInv'
  <2>1. \A i : Unreturning(i) => Unreturning(i)'
    BY <1>u, <1>4, <1>5, <1>12 DEF Unreturning
  <2>2. Unreturning(0)
    BY DEF Unreturning
  <2>3. ASSUME NEW t \in Tenant
        PROVE Unreturning(rec'.reclaimed[t]) /\ Unreturning(recAlt'.reclaimed[t])
              /\ Unreturning(mem'.reclaimed[t])
    BY <1>i, <1>1, <1>7, <2>2 DEF ReclaimedInv
  <2> QED
    BY <2>1, <2>3 DEF ReclaimedInv, Unreturning
<1>ha. HalfInv'
  <2>1. \A s : Highest(s)' = Highest(s)
    BY <1>u, SameLog
  <2>2. \A s : Highest(s) \in Nat
    BY <1>i, HighestIs, LogEntries
  <2>3. ASSUME NEW q \in Halves PROVE HalfGood(half[q])'
    <3>1. half[q] \in HalfType /\ HalfShape(half[q])
      BY <1>13 DEF HalfGood
    <3>2. HalfShape(half[q])'
      BY <1>u, <3>1 DEF HalfShape
    <3>3. \A s \in half[q].plan : s \in Nat /\ s < Cur /\ Highest(s) <= sideOld.mark
      BY <1>4, <1>13, <3>1 DEF HalfGood, HalfType
    <3>4. \A s \in half[q].plan : s < Cur' /\ Highest(s) <= sideOld'.mark /\ s # Cur + 1
      BY <1>4, <1>6, <1>8, <2>2, <3>3
    <3>5. half[q].removed \cap files' = {}
      <4>1. half[q].removed \subseteq half[q].plan /\ half[q].removed \cap files = {}
        BY <1>13, <3>1 DEF HalfShape, HalfGood
      <4> QED
        BY <1>5, <3>4, <4>1
    <3>6. half[q].plan # {} => mem'.witness = "Terminal" /\ ledger.describes_root
      BY <1>10, <1>13 DEF HalfGood
    <3>7. half[q].st = "unlinked" /\ ~ half[q].fsync_failed => half[q].removed \cap unsynced' = {}
      BY <1>5, <1>13 DEF HalfGood
    <3> QED
      BY <1>u, <2>1, <3>2, <3>4, <3>5, <3>6, <3>7 DEF HalfGood
  <2> QED
    BY <1>11, <2>3 DEF HalfInv
<1>le. LedgerInv'
  <2>1. Frames(Cur + 1) = {}
    BY <1>4, <1>12 DEF Frames
  <2>2. CASE Cur' = Cur + 1
    BY <1>i, <1>u, <1>3, <1>8, <2>1, <2>2, LedgerOfRotated DEF RunTypes
  <2>3. CASE Cur' = Cur /\ sideOld' = sideOld
    BY <1>i, <1>u, <2>3, LedgerAtCur
  <2> QED
    BY <1>6, <2>2, <2>3
<1>ma. MarkInv'
  BY <1>i, <1>u, <1>8 DEF MarkInv
<1>li. LiveInv'
  BY <1>i, <1>u, <1>9, SameSite DEF LiveInv
<1>ri. RiskInv'
  <2>1. \A s : AtRisk(s)' => AtRisk(s)
    BY <1>u, <1>5, <1>11 DEF AtRisk, MayStillGo
  <2> QED
    BY <1>i, <1>u, <2>1 DEF RiskInv, Expects
<1>rf. RefusalMeansLoss'
  BY <1>i, <1>u, KeepRefusal
<1>la. LateInv'
  BY <1>i, <1>u, KeepLate
<1> QED
  BY <1>rt, <1>ru, <1>ro, <1>sp, <1>rc, <1>ls, <1>rf, <1>ac, <1>rg, <1>ha, <1>la, <1>le,
     <1>ma, <1>li, <1>ri DEF ReclaimInv

LEMMA CheckpointKeeps ==
  ASSUME ReclaimInv, NEW m \in {Len(log), side.mark}, Checkpoint(m)
  PROVE  ReclaimInv'
<1>i. /\ RootTypes /\ RunTypes /\ RootInv /\ StoppedInv /\ RecordInv /\ LossInv
      /\ RefusalMeansLoss /\ AccountInv /\ ReclaimedInv /\ HalfInv /\ LateInv /\ LedgerInv
      /\ MarkInv /\ LiveInv /\ RiskInv
  BY DEF ReclaimInv
<1> DEFINE S == [v |-> 2, mark |-> m]
           Arming == IF Armed = mem THEN UNCHANGED <<rec, recAlt, mem>>
                     ELSE rec' = Armed /\ recAlt' = NoRecord /\ mem' = Armed
           Standing == UNCHANGED <<side, sideOld, unsynced, gate>>
           Syncing == side' = S /\ sideOld' = S /\ unsynced' = {} /\ gate' = "Open"
<1>u. /\ UNCHANGED <<site, v1, log, files, snap, up, legacy, ledger, outstanding, live, half, late, lost>>
      /\ up = "up" /\ m >= side.mark /\ faults' \in {faults, faults + 1}
  BY DEF Checkpoint, fixed, pass, Fault
<1>1. \/ Armed # mem /\ recAlt' = Armed /\ UNCHANGED <<rec, mem>> /\ Standing
      \/ Arming /\ Standing
      \/ Arming /\ side' = S /\ gate' = "FsyncPending" /\ UNCHANGED <<sideOld, unsynced>>
      \/ /\ Syncing /\ Witnessed # Armed /\ recAlt' = Witnessed
         /\ IF Armed = mem THEN UNCHANGED <<rec, mem>> ELSE rec' = Armed /\ mem' = Armed
      \/ /\ Syncing
         /\ IF Witnessed = mem THEN UNCHANGED <<rec, recAlt, mem>>
            ELSE rec' = Witnessed /\ recAlt' = NoRecord /\ mem' = Witnessed
  <2>1. CASE CheckpointLands(m)
    BY <2>1 DEF CheckpointLands, WriteSidecar, SyncRoot, record, Committed
  <2>2. CASE CheckpointArmFails
    BY <2>2 DEF CheckpointArmFails, CommitFailed, sidecar
  <2>3. CASE CheckpointWriteFails
    BY <2>3 DEF CheckpointWriteFails, Arm, Committed, record, sidecar
  <2>4. CASE CheckpointSyncFails(m)
    BY <2>4 DEF CheckpointSyncFails, Arm, Committed, record, WriteSidecar
  <2>5. CASE CheckpointWitnessFails(m)
    BY <2>5 DEF CheckpointWitnessFails, WriteSidecar, SyncRoot
  <2> QED
    BY <2>1, <2>2, <2>3, <2>4, <2>5 DEF Checkpoint
<1>2. mem \in Record /\ rec \in Record /\ recAlt \in Record
  BY <1>i DEF RunTypes, RootTypes
<1>3. /\ Armed \in Record /\ Witnessed \in Record
      /\ Armed.planned = mem.planned /\ Armed.reclaimed = mem.reclaimed
      /\ Witnessed.planned = mem.planned /\ Witnessed.reclaimed = mem.reclaimed
      /\ Armed.witness \in {"Armed", "Terminal"} /\ Witnessed.witness = "Terminal"
      /\ mem.witness \in {"Armed", "Terminal"} => Armed = mem
      /\ mem.witness = "Terminal" => Witnessed = mem
      /\ mem.witness # "Terminal" => Armed.witness = "Armed"
  BY <1>2, ArmedIs
<1>4. NoRecord \in Record /\ NoRecord.witness = "none" /\ NoRecord.planned = {}
      /\ \A t \in Tenant : NoRecord.reclaimed[t] = 0
  BY <1>i, FreshRecords
<1>5. m \in Offset /\ m \in Nat /\ S \in [v : 0..2, mark : Offset] /\ side.mark \in Nat /\ sideOld.mark \in Nat
      /\ side \in [v : 0..2, mark : Offset] /\ sideOld \in [v : 0..2, mark : Offset]
      /\ S.v = 2 /\ S.mark = m /\ sideOld.mark <= side.mark
  BY <1>i, Bounds, LogEntries DEF RootTypes, Offset, MarkInv
<1> HIDE DEF S
<1>6. /\ mem' \in {mem, Armed, Witnessed} /\ rec' \in {rec, Armed, Witnessed}
      /\ recAlt' \in {recAlt, NoRecord, Armed, Witnessed}
      /\ side' \in {side, S} /\ sideOld' \in {sideOld, S} /\ unsynced' \in {unsynced, {}}
      /\ (mem' = mem /\ rec' = rec) \/ rec' = mem'
      /\ gate' \in {gate, "FsyncPending", "Open"}
  BY <1>1
<1>7. mem.witness = "Terminal" => UNCHANGED <<rec, recAlt, mem>>
  BY <1>1, <1>3
<1>8. mem = NoRecord <=> rec = NoRecord
  BY <1>i, <1>u DEF RecordInv
<1>9. sideOld'.mark \in Nat /\ sideOld.mark <= sideOld'.mark
  BY <1>5, <1>6, <1>u
<1>10. Halves' = Halves
  BY <1>u, SameSite
<1>11. mem'.planned = mem.planned
  BY <1>3, <1>6
<1>12. Cur' = Cur /\ Gone' = Gone
  BY <1>u, SameRoot
<1>13. files # {}
  BY <1>i, <1>u DEF RootInv
<1>rt. RootTypes'
  <2>1. rec' \in Record /\ recAlt' \in Record
    BY <1>2, <1>3, <1>4, <1>6
  <2> QED
    BY <1>i, <1>u, <1>5, <1>6, <2>1, SameSite DEF RootTypes
<1>ru. RunTypes'
  <2>1. mem' \in Record
    BY <1>2, <1>3, <1>6
  <2> QED
    BY <1>i, <1>u, <1>6, <2>1, SameSite DEF RunTypes
<1>ro. RootInv'
  BY <1>i, <1>u, <1>6, <1>12, <1>13 DEF RootInv
<1>sp. StoppedInv'
  BY <1>u DEF StoppedInv
<1>rc. RecordInv'
  <2>1. GoodRecord(mem) /\ GoodRecord(rec) /\ GoodRecord(recAlt)
    BY <1>i DEF RecordInv
  <2>2. GoodRecord(Armed) /\ GoodRecord(Witnessed) /\ GoodRecord(NoRecord)
    <3>1. Proves(Armed) => Armed.witness = "Terminal"
      BY <1>3, <2>1 DEF Proves, GoodRecord
    <3> QED
      BY <1>i, <1>3, <2>1, <3>1, NoRecordIsGood DEF GoodRecord
  <2>3. GoodRecord(rec') /\ GoodRecord(recAlt') /\ GoodRecord(mem')
    BY <1>6, <2>1, <2>2
  <2>4. GoodRecord(rec)' /\ GoodRecord(recAlt)' /\ GoodRecord(mem)'
    BY <1>u, <2>3, SameSite DEF GoodRecord, Proves
  <2> QED
    BY <1>6, <1>8, <2>4 DEF RecordInv
<1>ls. LossInv'
  <2>1. Armed # NoRecord /\ Witnessed # NoRecord
    BY <1>3, <1>4
  <2>2. Armed # mem => Armed.witness = "Armed"
    BY <1>3
  <2> QED
    BY <1>i, <1>u, <1>1, <1>3, <1>4, <1>5, <1>8, <2>1, <2>2 DEF LossInv
<1>ac. AccountInv'
  <2>1. Exposed' = Exposed
    BY <1>u, <1>10, <1>12 DEF Exposed
  <2>2. \A s : Members(s)' = Members(s) /\ \A t : LastIn(s, t)' = LastIn(s, t)
    BY <1>u, SameLog
  <2>3. ASSUME lost.sidecars < 2, NEW s \in Exposed
        PROVE  /\ ShowsGone(mem', s) /\ rec' # NoRecord /\ ShowsGone(rec', s)
               /\ recAlt' # NoRecord => ShowsGone(recAlt', s)
    <3>1. ShowsGone(mem, s) /\ (rec # NoRecord => ShowsGone(rec, s))
          /\ (recAlt # NoRecord => ShowsGone(recAlt, s))
      BY <1>i, <1>u, <2>3 DEF AccountInv
    <3>2. UNCHANGED <<rec, recAlt, mem>> /\ mem # NoRecord
      BY <1>4, <1>7, <3>1 DEF ShowsGone
    <3> QED
      BY <1>8, <3>1, <3>2
  <2> QED
    BY <1>u, <2>1, <2>2, <2>3 DEF AccountInv, ShowsGone, Accounts
<1>rg. ReclaimedInv'
  <2>1. \A i : Unreturning(i) => Unreturning(i)'
    BY <1>u, <1>6 DEF Unreturning
  <2>2. Unreturning(0)
    BY DEF Unreturning
  <2>3. ASSUME NEW t \in Tenant
        PROVE Unreturning(rec'.reclaimed[t]) /\ Unreturning(recAlt'.reclaimed[t])
              /\ Unreturning(mem'.reclaimed[t])
    <3>1. Unreturning(rec.reclaimed[t]) /\ Unreturning(recAlt.reclaimed[t])
          /\ Unreturning(mem.reclaimed[t]) /\ Unreturning(NoRecord.reclaimed[t])
      BY <1>i, <1>4, <2>2 DEF ReclaimedInv
    <3> QED
      BY <1>3, <1>6, <3>1
  <2> QED
    BY <2>1, <2>3 DEF ReclaimedInv, Unreturning
<1>ha. HalfInv'
  <2>1. \A s : Highest(s)' = Highest(s)
    BY <1>u, SameLog
  <2>2. \A s : Highest(s) \in Nat
    BY <1>i, HighestIs, LogEntries
  <2>3. ASSUME NEW q \in Halves PROVE HalfGood(half[q])'
    <3>1. HalfGood(half[q]) /\ HalfShape(half[q])
      BY <1>i DEF HalfInv, HalfGood
    <3>2. HalfShape(half[q])'
      BY <1>u, <3>1 DEF HalfShape
    <3>3. \A s \in half[q].plan : s < Cur /\ Highest(s) <= sideOld'.mark
      BY <1>5, <1>9, <2>2, <3>1 DEF HalfGood
    <3>4. half[q].plan # {} => mem'.witness = "Terminal"
      BY <1>7, <3>1 DEF HalfGood
    <3> QED
      BY <1>u, <1>6, <1>12, <2>1, <3>1, <3>2, <3>3, <3>4 DEF HalfGood
  <2> QED
    BY <1>10, <2>3 DEF HalfInv
<1>le. LedgerInv'
  BY <1>i, <1>u, <1>9, LedgerAtLaterMark
<1>ma. MarkInv'
  BY <1>i, <1>u, <1>1, <1>5 DEF MarkInv
<1>li. LiveInv'
  BY <1>i, <1>u, <1>11, SameSite DEF LiveInv
<1>rf. RefusalMeansLoss'
  BY <1>i, <1>u, KeepRefusal
<1>la. LateInv'
  BY <1>i, <1>u, KeepLate
<1>ri. RiskInv'
  BY <1>i, <1>u, KeepRisk
<1> QED
  BY <1>rt, <1>ru, <1>ro, <1>sp, <1>rc, <1>ls, <1>rf, <1>ac, <1>rg, <1>ha, <1>la, <1>le,
     <1>ma, <1>li, <1>ri DEF ReclaimInv

\* What open writes as the record shows everything that is gone, and claims
\* nothing reclaimed that is there.
LEMMA OpenedRecord ==
  ASSUME ReclaimInv, up # "up", ~ (LostRecord \/ LostSidecars \/ LostCheckpoint),
         NEW r \in {Promoted, Reconciled}
  PROVE  /\ r \in Record /\ GoodRecord(r)
         /\ lost.sidecars = 0 /\ r.witness = "Terminal" => side.v = 2
         /\ rec # NoRecord => r # NoRecord
         /\ files = {} /\ r = Reconciled => r # NoRecord
         /\ lost.sidecars < 2 => \A s \in Gone : r # NoRecord /\ ShowsGone(r, s)
         /\ \A t \in Tenant : r.reclaimed[t] # 0 =>
              r.reclaimed[t] \in DOMAIN log /\ log[r.reclaimed[t]].seg \notin files
<1>i. /\ RootTypes /\ RunTypes /\ RootInv /\ StoppedInv /\ RecordInv /\ LossInv
      /\ RefusalMeansLoss /\ AccountInv /\ ReclaimedInv /\ HalfInv /\ LateInv /\ LedgerInv
      /\ MarkInv /\ LiveInv /\ RiskInv
  BY DEF ReclaimInv
<1>1. rec \in Record /\ NoRecord \in Record /\ GoodRecord(NoRecord) /\ GoodRecord(rec)
      /\ NoRecord.witness = "none" /\ \A t \in Tenant : NoRecord.reclaimed[t] = 0
  BY <1>i, FreshRecords, NoRecordIsGood DEF RootTypes, RecordInv
<1>2. /\ Promoted \in Record /\ Promoted.planned = rec.planned
      /\ Promoted.reclaimed = rec.reclaimed
      /\ Promoted.witness \in {rec.witness, "Terminal"}
      /\ Promoted.witness # rec.witness => rec # NoRecord /\ side.v = 2
      /\ rec = NoRecord => Promoted = NoRecord
  BY <1>i, PromotedIs
<1>3. lost.sidecars = 0 /\ rec.witness = "Terminal" => side.v = 2
  BY <1>i DEF LossInv
<1>4. \A t \in Tenant : rec.reclaimed[t] # 0 =>
        rec.reclaimed[t] \in DOMAIN log /\ log[rec.reclaimed[t]].seg \notin files
  BY <1>i DEF ReclaimedInv, Unreturning
<1>5. files = {} => Gone = {} /\ side.v = 0
  BY <1>i, GoneOfEmptyRoot DEF RootInv
<1>6. \A s \in Gone : s \notin files
  BY DEF Gone
<1>7. ASSUME lost.sidecars < 2, NEW s \in Gone
      PROVE  rec # NoRecord /\ ShowsGone(rec, s) /\ files # {}
  <2>1. s \in Exposed
    BY <1>7 DEF Exposed
  <2>2. rec = NoRecord => side.v = 2
    BY <1>i, <1>7, <2>1 DEF AccountInv
  <2>3. rec # NoRecord
    BY <2>2 DEF LostRecord
  <2> QED
    BY <1>i, <1>5, <1>7, <2>1, <2>3 DEF AccountInv
<1>8. \A s, t : t \in Members(s) => t \in Tenant
  BY <1>i, LogEntries DEF Members, Frames
<1>9. rec # NoRecord => rec.witness # "none"
  BY <1>1 DEF GoodRecord
<1>10. CASE r = Promoted
  <2>1. GoodRecord(Promoted)
    BY <1>1, <1>2, <1>9 DEF GoodRecord, Proves
  <2>2. rec # NoRecord => Promoted # NoRecord
    BY <1>1, <1>2, <1>9
  <2>3. \A s : rec # NoRecord /\ ShowsGone(rec, s) => ShowsGone(Promoted, s)
    BY <1>2 DEF ShowsGone, Accounts
  <2>4. lost.sidecars < 2 => \A s \in Gone : Promoted # NoRecord /\ ShowsGone(Promoted, s)
    BY <1>7, <2>2, <2>3
  <2>5. files = {} /\ Promoted = Reconciled => Promoted # NoRecord
    <3>1. files = {} => Reconciled = Fresh("Unarmed")
      BY <1>5 DEF Reconciled
    <3>2. Fresh("Unarmed") # NoRecord
      BY <1>i, FreshRecords
    <3> QED
      BY <3>1, <3>2
  <2> QED
    BY <1>2, <1>3, <1>4, <1>10, <2>1, <2>2, <2>4, <2>5
<1>11. CASE r = Reconciled /\ files = {}
  <2>1. r = Fresh("Unarmed")
    BY <1>5, <1>11 DEF Reconciled
  <2>2. r \in Record /\ r.witness = "Unarmed" /\ (\A t \in Tenant : r.reclaimed[t] = 0) /\ r # NoRecord
    BY <1>i, <2>1, FreshRecords
  <2>3. GoodRecord(r)
    BY <1>i, <2>1, NoRecordIsGood
  <2> QED
    BY <1>5, <1>11, <2>2, <2>3
<1>12. CASE r = Reconciled /\ files # {} /\ rec = NoRecord
  <2>1. r = NoRecord
    BY <1>12 DEF Reconciled
  <2> QED
    BY <1>1, <1>7, <1>12, <2>1
<1>13. CASE r = Reconciled /\ files # {} /\ rec # NoRecord
  <2>1. r = Planned(Promoted)
    BY <1>13 DEF Reconciled
  <2>2. /\ r \in Record /\ r.witness = Promoted.witness /\ r.planned = {}
        /\ \A t \in Tenant :
             /\ r.reclaimed[t] >= rec.reclaimed[t]
             /\ \A s \in rec.planned \ files : r.reclaimed[t] >= LastIn(s, t)
             /\ r.reclaimed[t] = rec.reclaimed[t]
                  \/ \E s \in rec.planned \ files : r.reclaimed[t] = LastIn(s, t)
    BY <1>i, <1>2, <2>1, PlannedIs
  <2>3. r.witness # "none" /\ r # NoRecord
    BY <1>1, <1>2, <1>9, <1>13, <2>2
  <2>4. GoodRecord(r)
    <3>1. Proves(r) => Proves(rec) \/ r.witness = "Terminal"
      BY <2>2 DEF Proves
    <3>2. Proves(rec) => r.witness = "Terminal"
      BY <1>1, <1>2, <2>2 DEF GoodRecord
    <3>3. Cardinality(r.planned) <= Cap
      BY <1>i, <2>2, Bounds, FS_EmptySet
    <3> QED
      BY <2>3, <3>1, <3>2, <3>3 DEF GoodRecord
  <2>5. \A t \in Tenant : rec.reclaimed[t] \in Nat /\ r.reclaimed[t] \in Nat
    BY <1>i, <1>1, <2>2, Bounds DEF Record, Offset
  <2>6. ASSUME NEW s \in Gone, ShowsGone(rec, s) PROVE ShowsGone(r, s)
    <3>1. r.witness = "Terminal"
      BY <1>2, <2>2, <2>6 DEF ShowsGone
    <3>2. ASSUME NEW t \in Members(s) PROVE r.reclaimed[t] >= LastIn(s, t)
      <4>1. t \in Tenant /\ LastIn(s, t) \in Nat
        BY <1>i, <1>8, <3>2, LastInIs, LogEntries
      <4>2. CASE s \in rec.planned
        BY <1>6, <2>2, <4>1, <4>2
      <4>3. CASE rec.reclaimed[t] >= LastIn(s, t)
        BY <2>2, <2>5, <4>1, <4>3
      <4> QED
        BY <2>6, <3>2, <4>2, <4>3 DEF ShowsGone, Accounts
    <3> QED
      BY <3>1, <3>2 DEF ShowsGone, Accounts
  <2>7. ASSUME NEW t \in Tenant, r.reclaimed[t] # 0
        PROVE  r.reclaimed[t] \in DOMAIN log /\ log[r.reclaimed[t]].seg \notin files
    <3>1. CASE r.reclaimed[t] = rec.reclaimed[t]
      BY <1>4, <2>7, <3>1
    <3>2. CASE \E s \in rec.planned \ files : r.reclaimed[t] = LastIn(s, t)
      BY <1>i, <2>7, <3>2, LastInIs
    <3> QED
      BY <2>2, <3>1, <3>2
  <2> QED
    BY <1>2, <1>3, <1>7, <1>13, <2>2, <2>3, <2>4, <2>6, <2>7
<1> QED
  BY <1>10, <1>11, <1>12, <1>13

\* A root that open refuses has lost a sidecar.
LEMMA OpenRefusalMeansLoss ==
  ASSUME ReclaimInv, LostRecord \/ LostSidecars \/ LostCheckpoint
  PROVE  lost.sidecars # 0
<1>1. LossInv /\ GoodRecord(rec)
  BY DEF ReclaimInv, RecordInv
<1> QED
  BY <1>1 DEF LossInv, GoodRecord, LostRecord, LostSidecars, LostCheckpoint, HasV2

\* The root after open, refused or not, with no pass and nothing in the ledger.
LEMMA OpenKeeps ==
  ASSUME ReclaimInv, up # "up", UNCHANGED <<site, v1, log, side, snap, outstanding, live, half, late, lost>>,
         unsynced' = {}, sideOld' = side, faults' \in Nat,
         up' \in {"down", "up", "refused"}, up' = "refused" => lost.sidecars # 0,
         files' = files \/ (files = {} /\ files' = {1}), up' = "up" => files' # {},
         rec' \in Record, GoodRecord(rec'), recAlt' \in {NoRecord, recAlt},
         mem' = IF up' = "up" THEN rec' ELSE NoRecord,
         gate' \in {"Unwitnessed", "FsyncPending", "Open"}, legacy' \in BOOLEAN,
         up' # "up" => gate' = "Unwitnessed" /\ files' = files,
         NEW d \in BOOLEAN, ledger' = EmptyLedger(d), d => files = {} /\ up' = "up",
         lost.sidecars = 0 /\ rec'.witness = "Terminal" => side.v = 2,
         rec # NoRecord => rec' # NoRecord, files' # files => rec' # NoRecord,
         lost.sidecars < 2 => \A s \in Gone :
           IF rec' = NoRecord THEN up' # "up" /\ lost.sidecars # 0 /\ side.v = 2 ELSE ShowsGone(rec', s),
         \A t \in Tenant : rec'.reclaimed[t] # 0 =>
           rec'.reclaimed[t] \in DOMAIN log /\ log[rec'.reclaimed[t]].seg \notin files
  PROVE  ReclaimInv'
<1>i. /\ RootTypes /\ RunTypes /\ RootInv /\ StoppedInv /\ RecordInv /\ LossInv
      /\ RefusalMeansLoss /\ AccountInv /\ ReclaimedInv /\ HalfInv /\ LateInv /\ LedgerInv
      /\ MarkInv /\ LiveInv /\ RiskInv
  BY DEF ReclaimInv
<1>1. outstanding = NoPlan /\ live = NoPass /\ half = [p \in Halves |-> Idle]
      /\ late = [p \in Halves |-> {}]
  BY <1>i DEF StoppedInv
<1>2. d => log' = <<>>
  BY <1>i DEF RootInv
<1>3. /\ ledger' \in LedgerType /\ outstanding' \in OutstandingType
      /\ half' \in [Halves -> HalfType] /\ late' \in [Halves -> SUBSET Seg]
      /\ HalfInv' /\ LateInv' /\ LedgerInv' /\ LiveInv' /\ RiskInv'
      /\ UNION {half'[p].todo : p \in Halves} = {}
  BY <1>i, <1>1, <1>2, NoPassRuns
<1>4. NoRecord \in Record /\ NoRecord.witness = "none" /\ GoodRecord(NoRecord)
      /\ \A t \in Tenant : NoRecord.reclaimed[t] = 0
  BY <1>i, FreshRecords, NoRecordIsGood
<1>5. files' \in SUBSET Seg
  BY <1>i, Bounds DEF RootTypes, Seg
<1>6. mem' \in {rec', NoRecord} /\ Halves' = Halves
  BY SameSite
<1>alt. /\ recAlt' \in Record /\ GoodRecord(recAlt')
        /\ lost.sidecars = 0 /\ recAlt'.witness = "Terminal" => side.v = 2
        /\ lost.sidecars < 2 => \A s \in Gone : recAlt' # NoRecord => ShowsGone(recAlt', s)
        /\ \A t \in Tenant : recAlt'.reclaimed[t] # 0 =>
             recAlt'.reclaimed[t] \in DOMAIN log /\ log[recAlt'.reclaimed[t]].seg \notin files
  BY <1>i, <1>4 DEF RootTypes, RecordInv, LossInv, AccountInv, Exposed, ReclaimedInv, Unreturning
<1>rt. RootTypes'
  BY <1>i, <1>4, <1>5, <1>alt, SameSite DEF RootTypes
<1>ru. RunTypes'
  <2>1. live' \in Halves \cup {NoPass} /\ mem' \in Record
    BY <1>1, <1>4, <1>6
  <2> QED
    BY <1>3, <2>1, SameSite DEF RunTypes
<1>7. files = {} => log = <<>> /\ side.v = 0
  BY <1>i DEF RootInv
<1>ro. RootInv'
  <2>1. CASE files' = files
    <3>1. Cur' = Cur
      BY <2>1 DEF Cur
    <3> QED
      BY <1>i, <1>7, <2>1, <3>1 DEF RootInv
  <2>2. CASE files = {} /\ files' = {1}
    <3>1. \A i \in DOMAIN log' : FALSE
      BY <1>7, <2>2
    <3> QED
      BY <2>2, <3>1 DEF RootInv
  <2> QED
    BY <2>1, <2>2
<1>sp. StoppedInv'
  <2>1. up' # "up" => ledger' = EmptyLedger(FALSE)
    OBVIOUS
  <2> QED
    BY <1>1, <2>1, SameSite DEF StoppedInv
<1>rc. RecordInv'
  <2>1. GoodRecord(rec)' /\ GoodRecord(recAlt)' /\ GoodRecord(mem)'
    BY <1>4, <1>6, <1>alt, SameSite DEF GoodRecord, Proves
  <2> QED
    BY <2>1 DEF RecordInv
<1>ls. LossInv'
  <2>1. lost.sidecars = 0 /\ side.v = 2 => rec # NoRecord
    BY <1>i DEF LossInv
  <2>2. lost.sidecars = 0 => \A s \in files' : s > v1 => rec' # NoRecord
    BY <1>i DEF LossInv
  <2> QED
    BY <1>4, <1>6, <1>alt, <2>1, <2>2 DEF LossInv
<1>rf. RefusalMeansLoss'
  BY DEF RefusalMeansLoss
<1>ac. AccountInv'
  <2>1. Gone' \subseteq Gone
    <3>1. CASE files' = files
      BY <3>1, SameRoot
    <3>2. CASE files = {} /\ files' = {1}
      <4>1. Cur' = 1
        BY <1>i, <1>5, <3>2, NewestIs
      <4>2. (RootTypes /\ RootInv => (files # {} => Gone = (1..Cur) \ files))'
        BY GoneOfRoot, PTL
      <4>3. Gone' = (1..1) \ {1}
        BY <1>rt, <1>ro, <3>2, <4>1, <4>2
      <4> QED
        BY <4>3
    <3> QED
      BY <3>1, <3>2
  <2>2. Exposed' \subseteq Gone
    BY <1>3, <1>6, <2>1 DEF Exposed
  <2>3. \A s : Members(s)' = Members(s) /\ \A t : LastIn(s, t)' = LastIn(s, t)
    BY SameLog
  <2> QED
    BY <1>alt, <2>2, <2>3 DEF AccountInv, ShowsGone, Accounts
<1>rg. ReclaimedInv'
  <2>1. files' # files => \A i \in DOMAIN log : FALSE
    BY <1>7
  <2> QED
    BY <1>4, <1>6, <1>alt, <2>1 DEF ReclaimedInv, Unreturning
<1>ma. MarkInv'
  <2>1. side.mark \in Nat
    BY <1>i, Bounds DEF RootTypes, Offset
  <2> QED
    BY <2>1 DEF MarkInv
<1> QED
  BY <1>3, <1>rt, <1>ru, <1>ro, <1>sp, <1>rc, <1>ls, <1>rf, <1>ac, <1>rg, <1>ma DEF ReclaimInv

LEMMA OpenRootKeeps ==
  ASSUME ReclaimInv, OpenRoot
  PROVE  ReclaimInv'
<1>i. /\ RootTypes /\ RunTypes /\ RootInv /\ StoppedInv /\ RecordInv /\ LossInv
      /\ RefusalMeansLoss /\ AccountInv /\ ReclaimedInv /\ HalfInv /\ LateInv /\ LedgerInv
      /\ MarkInv /\ LiveInv /\ RiskInv
  BY DEF ReclaimInv
<1>u. /\ UNCHANGED <<site, v1, log, side, snap, outstanding, live, half, late, faults, lost>>
      /\ up # "up" /\ unsynced' = {} /\ sideOld' = side
  BY DEF OpenRoot, fixed, bounds
<1>1. faults' \in Nat /\ mem = NoRecord /\ gate = "Unwitnessed"
      /\ ledger = EmptyLedger(FALSE) /\ legacy \in BOOLEAN
  BY <1>i, <1>u DEF RootTypes, RunTypes, StoppedInv
<1>2. CASE /\ LostRecord \/ LostSidecars \/ LostCheckpoint
           /\ up' = "refused" /\ UNCHANGED <<files, rec, recAlt, mem, gate, legacy, ledger>>
  <2>1. lost.sidecars # 0
    BY <1>2, OpenRefusalMeansLoss
  <2>2. rec \in Record /\ GoodRecord(rec)
    BY <1>i DEF RootTypes, RecordInv
  <2>3. lost.sidecars < 2 => \A s \in Gone :
          IF rec = NoRecord THEN lost.sidecars # 0 /\ side.v = 2 ELSE ShowsGone(rec, s)
    BY <1>i DEF AccountInv, Exposed
  <2>4. \A t \in Tenant : rec.reclaimed[t] # 0 =>
          rec.reclaimed[t] \in DOMAIN log /\ log[rec.reclaimed[t]].seg \notin files
    BY <1>i DEF ReclaimedInv, Unreturning
  <2> DEFINE d == FALSE
  <2>5. d \in BOOLEAN /\ ledger' = EmptyLedger(d)
    BY <1>1, <1>2
  <2>6. up' = "refused" /\ files' = files /\ rec' = rec /\ recAlt' = recAlt /\ mem' = NoRecord
        /\ gate' = "Unwitnessed" /\ legacy' \in BOOLEAN
    BY <1>1, <1>2
  <2> QED
    BY <1>u, <1>1, <2>1, <2>2, <2>3, <2>4, <2>5, <2>6, OpenKeeps
<1>3. CASE /\ ~ (LostRecord \/ LostSidecars \/ LostCheckpoint)
           /\ up' = "up" /\ Rewrite(Reconciled) /\ mem' = Reconciled
           /\ gate' = IF side.v = 2 THEN "Open" ELSE "Unwitnessed"
           /\ legacy' = (side.v = 1 \/ (side.v = 0 /\ HasV1))
           /\ ledger' = EmptyLedger(files = {})
           /\ files' = IF files = {} THEN {1} ELSE files
  <2>1. /\ Reconciled \in Record /\ GoodRecord(Reconciled)
        /\ lost.sidecars = 0 /\ Reconciled.witness = "Terminal" => side.v = 2
        /\ rec # NoRecord => Reconciled # NoRecord
        /\ files = {} => Reconciled # NoRecord
        /\ lost.sidecars < 2 => \A s \in Gone : Reconciled # NoRecord /\ ShowsGone(Reconciled, s)
        /\ \A t \in Tenant : Reconciled.reclaimed[t] # 0 =>
             Reconciled.reclaimed[t] \in DOMAIN log /\ log[Reconciled.reclaimed[t]].seg \notin files
    BY <1>u, <1>3, OpenedRecord
  <2> DEFINE d == files = {}
  <2>2. d \in BOOLEAN /\ ledger' = EmptyLedger(d)
    BY <1>3
  <2>3. files' = files \/ (files = {} /\ files' = {1})
    BY <1>3
  <2>4. files' # {} /\ (files' # files => files = {})
    BY <1>3
  <2>5. gate' \in {"Unwitnessed", "FsyncPending", "Open"} /\ legacy' \in BOOLEAN
    BY <1>3
  <2>6. d => files = {}
    OBVIOUS
  <2>7. rec' = Reconciled /\ recAlt' \in {NoRecord, recAlt}
    BY <1>3 DEF Rewrite
  <2> HIDE DEF d
  <2> QED
    BY <1>u, <1>1, <1>3, <2>1, <2>2, <2>3, <2>4, <2>5, <2>6, <2>7, OpenKeeps
<1> QED
  BY <1>2, <1>3 DEF OpenRoot, record

LEMMA OpenInterruptedKeeps ==
  ASSUME ReclaimInv, OpenInterrupted
  PROVE  ReclaimInv'
<1>i. /\ RootTypes /\ RunTypes /\ RootInv /\ StoppedInv /\ RecordInv /\ LossInv
      /\ RefusalMeansLoss /\ AccountInv /\ ReclaimedInv /\ HalfInv /\ LateInv /\ LedgerInv
      /\ MarkInv /\ LiveInv /\ RiskInv
  BY DEF ReclaimInv
<1>u. /\ UNCHANGED <<site, v1, log, files, side, mem, snap, up, gate, legacy, ledger, outstanding,
                     live, half, late, lost>>
      /\ up = "down" /\ unsynced' = {} /\ sideOld' = side /\ faults' = faults + 1
      /\ ~ (LostRecord \/ LostSidecars \/ LostCheckpoint)
  BY DEF OpenInterrupted, fixed, run, pass, Fault
<1>1. faults' \in Nat /\ mem = NoRecord /\ gate = "Unwitnessed"
      /\ ledger = EmptyLedger(FALSE) /\ legacy \in BOOLEAN
  BY <1>i, <1>u DEF RootTypes, RunTypes, StoppedInv
<1>2. PICK r \in {Promoted, Reconciled} : rec' = r /\ recAlt' \in {NoRecord, recAlt}
  BY DEF OpenInterrupted, Rewrite
<1>3. /\ r \in Record /\ GoodRecord(r)
      /\ lost.sidecars = 0 /\ r.witness = "Terminal" => side.v = 2
      /\ rec # NoRecord => r # NoRecord
      /\ lost.sidecars < 2 => \A s \in Gone : r # NoRecord /\ ShowsGone(r, s)
      /\ \A t \in Tenant : r.reclaimed[t] # 0 =>
           r.reclaimed[t] \in DOMAIN log /\ log[r.reclaimed[t]].seg \notin files
  BY <1>u, OpenedRecord
<1> DEFINE d == FALSE
<1>4. d \in BOOLEAN /\ ledger' = EmptyLedger(d) /\ up' = "down" /\ mem' = NoRecord
      /\ gate' = "Unwitnessed" /\ legacy' \in BOOLEAN
  BY <1>u, <1>1
<1> QED
  BY <1>u, <1>1, <1>2, <1>3, <1>4, OpenKeeps
-----------------------------------------------------------------------------
\* The invariant holds of a root nothing was reclaimed from yet.
LEMMA InitKeeps ==
  ASSUME ReclaimInit
  PROVE  ReclaimInv
<1>1. site \in Sites /\ v1 = site.legacy
  BY DEF ReclaimInit
<1>2. /\ SegmentsBound \in Nat /\ SegmentsBound > 0 /\ FramesBound \in Nat /\ v1 \in Nat
      /\ v1 <= SegmentsBound /\ v1 <= FramesBound + 1 /\ site.tenants \subseteq Tenant
  <2>1. {site.legacy, site.frames, site.segments, site.faults, site.lost} \subseteq Nat
    BY <1>1, ReclaimAssumption
  <2> QED
    BY <1>1, <2>1, ReclaimAssumption DEF SegmentsBound, FramesBound
<1>3. PICK u \in Tenant : log = [i \in 1..(v1 - 1) |-> [seg |-> i, tenant |-> u]]
  BY <1>2 DEF ReclaimInit
<1>4. PICK n \in Nat : 1..(v1 - 1) = 1..n /\ (v1 # 0 => n = v1 - 1) /\ (v1 = 0 => n = 0)
  <2>1. CASE v1 = 0
    BY <2>1
  <2>2. CASE v1 # 0
    BY <1>2, <2>2
  <2> QED
    BY <2>1, <2>2
<1>5. log = [i \in 1..n |-> [seg |-> i, tenant |-> u]] /\ n <= SegmentsBound /\ n <= FramesBound
  BY <1>2, <1>3, <1>4
<1>6. log \in Seq([seg : Seg, tenant : Tenant]) /\ Len(log) = n /\ DOMAIN log = 1..n
      /\ \A i \in DOMAIN log : log[i].seg = i
  BY <1>2, <1>5 DEF Seg
<1>7. /\ files = 1..v1 /\ unsynced = {} /\ sideOld = side /\ rec = NoRecord /\ recAlt = NoRecord
      /\ mem = NoRecord /\ up = "down" /\ gate = "Unwitnessed" /\ legacy = FALSE
      /\ ledger = EmptyLedger(FALSE) /\ outstanding = NoPlan /\ live = NoPass
      /\ half = [p \in Halves |-> Idle] /\ late = [p \in Halves |-> {}]
      /\ faults = 0 /\ lost = [snapshots |-> 0, sidecars |-> 0] /\ snap = [t \in Tenant |-> 0]
  BY DEF ReclaimInit
<1>8. side \in [v : 0..1, mark : Offset] /\ side.v \in 0..1 /\ side.mark \in Nat
      /\ (side.v # 0 => n # 0) /\ side \in [v : 0..2, mark : Offset] /\ 0 \in Offset
  <2>1. side = [v |-> 0, mark |-> 0] \/ \E k \in 1..n : side = [v |-> 1, mark |-> k]
    BY <1>6 DEF ReclaimInit
  <2> QED
    BY <1>2, <1>5, <2>1 DEF Offset
<1>9. NoRecord \in Record /\ NoRecord.witness = "none" /\ NoRecord.planned = {}
      /\ \A t \in Tenant : NoRecord.reclaimed[t] = 0
  BY <1>8 DEF NoRecord, Record
<1>rt. RootTypes
  <2>1. files \in SUBSET Seg
    BY <1>2, <1>7 DEF Seg
  <2> QED
    BY <1>1, <1>5, <1>6, <1>7, <1>8, <1>9, <2>1 DEF RootTypes
<1>10. Idle \in HalfType /\ HalfShape(Idle) /\ Idle.plan = {} /\ Idle.todo = {} /\ Idle.removed = {}
       /\ Idle.st = "idle"
  BY DEF Idle, HalfType, Mode, HalfShape
<1>11. half \in [Halves -> HalfType] /\ late \in [Halves -> SUBSET Seg]
       /\ \A p \in Halves : half[p] = Idle /\ late[p] = {}
  BY <1>7, <1>10
<1>12. /\ ledger \in LedgerType /\ ledger.segments = {} /\ ledger.reclaiming = {}
       /\ ledger.uncertain = {} /\ ledger.attempted = {} /\ ~ ledger.describes_root
       /\ ledger.pending = [s \in Seg |-> {}]
  BY <1>2, <1>7, <1>8 DEF EmptyLedger, LedgerType
<1>ru. RunTypes
  <2>1. outstanding \in OutstandingType
    BY <1>7 DEF NoPlan, OutstandingType, Mode
  <2> QED
    BY <1>7, <1>9, <1>11, <1>12, <2>1 DEF RunTypes
<1>ro. RootInv
  <2>1. files = {} => v1 = 0
    BY <1>2, <1>7
  <2>2. v1 = 0 => log = <<>> /\ side.v = 0
    BY <1>4, <1>5, <1>6, <1>8
  <2>3. files # {} => Cur >= v1 /\ Cur \in Nat
    <3>1. files # {} => v1 \in files
      BY <1>2, <1>7
    <3> QED
      BY <1>2, <1>rt, <3>1, CurIsNewest, Bounds DEF Seg
  <2>4. ASSUME NEW i \in DOMAIN log PROVE log[i].seg <= Cur
    <3>1. i \in 1..n /\ log[i].seg = i /\ v1 # 0 /\ n = v1 - 1
      BY <1>4, <1>6
    <3>2. files # {}
      BY <1>2, <2>1, <3>1
    <3> QED
      BY <1>2, <2>3, <3>1, <3>2
  <2> QED
    BY <1>7, <2>1, <2>2, <2>4 DEF RootInv
<1>13. GoodRecord(NoRecord)
  BY <1>rt, NoRecordIsGood
<1>14. RecordInv /\ StoppedInv /\ RefusalMeansLoss
  BY <1>7, <1>13 DEF RecordInv, StoppedInv, RefusalMeansLoss
<1>15. LossInv
  <2>1. \A s \in files : ~ (s > v1)
    BY <1>2, <1>7
  <2> QED
    BY <1>7, <1>8, <1>9, <2>1 DEF LossInv
<1>16. AccountInv
  <2>1. Gone = {}
    <3>1. CASE files = {}
      BY <1>rt, <1>ro, <3>1, GoneOfEmptyRoot
    <3>2. CASE files # {}
      <4>1. Gone = (1..Cur) \ files /\ Cur \in files
        BY <1>rt, <1>ro, <3>2, GoneOfRoot, CurIsNewest
      <4> QED
        BY <1>2, <1>7, <4>1
    <3> QED
      BY <3>1, <3>2
  <2>2. Exposed = {}
    BY <1>10, <1>11, <2>1 DEF Exposed
  <2> QED
    BY <2>2 DEF AccountInv
<1>17. ReclaimedInv
  BY <1>7, <1>9 DEF ReclaimedInv, Unreturning
<1>18. HalfInv
  BY <1>10, <1>11 DEF HalfInv, HalfGood
<1>19. LateInv
  BY <1>11, FS_EmptySet DEF LateInv
<1>20. LedgerInv
  <2>1. Nested(ledger) /\ Released(ledger) /\ Placed(ledger)
    BY <1>12 DEF Nested, Released, Placed
  <2>2. \A t : Held(ledger, t) = {}
    BY <1>12 DEF Held
  <2>3. Pins(ledger) /\ Cleared(ledger)
    BY <1>12, <2>2 DEF Pins, Cleared
  <2> QED
    BY <2>1, <2>3 DEF LedgerInv, LedgerSound
<1>21. MarkInv
  BY <1>7, <1>8 DEF MarkInv
<1>22. LiveInv /\ RiskInv
  BY <1>7, <1>12 DEF LiveInv, RiskInv, Expects, NoPlan
<1> QED
  BY <1>rt, <1>ru, <1>ro, <1>14, <1>15, <1>16, <1>17, <1>18, <1>19, <1>20, <1>21, <1>22 DEF ReclaimInv

LEMMA NextKeeps ==
  ASSUME ReclaimInv, [ReclaimNext]_reclaimVars
  PROVE  ReclaimInv'
<1>1. CASE UNCHANGED reclaimVars
  BY <1>1, StutterKeeps
<1>2. CASE OpenRoot \/ OpenInterrupted \/ RebuildLedger \/ KillProcess \/ LosePower \/ Lose \/ Rotate
  BY <1>2, OpenRootKeeps, OpenInterruptedKeeps, RebuildLedgerKeeps, KillKeeps, LosePowerKeeps,
     LoseKeeps, RotateKeeps
<1>3. CASE Checkpoint(Len(log)) \/ Checkpoint(side.mark)
  BY <1>3, CheckpointKeeps
<1>4. CASE \E t \in site.tenants : AppendFrame(t) \/ Snapshot(t)
  BY <1>4, AppendFrameKeeps, SnapshotKeeps
<1>5. ASSUME NEW p \in Halves, FileHalf(p) \/ Panic(p) \/ \E m \in Modes : Prepare(p, m)
      PROVE  ReclaimInv'
  BY <1>5, WritePlanKeeps, CheckPermitKeeps, UnlinkKeeps, SyncParentKeeps, CommitKeeps, PanicKeeps,
     PrepareKeeps DEF FileHalf
<1> QED
  BY <1>1, <1>2, <1>3, <1>4, <1>5 DEF ReclaimNext
-----------------------------------------------------------------------------
\* ReclaimInv holds in every state of every root, whoever writes it, however many
\* passes, crashes and losses it sees (housekeeping.rs, reclaim_store.rs and
\* reconcile.rs).
THEOREM ReclaimInvHolds == ReclaimSpec => []ReclaimInv
<1>1. ReclaimInit => ReclaimInv
  BY InitKeeps
<1>2. ReclaimInv /\ [ReclaimNext]_reclaimVars => ReclaimInv'
  BY NextKeeps
<1> QED
  BY <1>1, <1>2, PTL DEF ReclaimSpec

\* Whatever passes overlap, are abandoned, panic or lose their turn, the pins
\* agree with the cursors, the rows of every record fit its slots, a pass that
\* is no longer live removes at most one file, and a file the live pass finds
\* missing is one it holds uncertain, so its deletion completes (retain.rs,
\* pass.rs UnlinkPermit::guard, reclaim.rs).
THEOREM PassIsSound == ReclaimSpec => []PassInv
<1>1. ASSUME ReclaimInv PROVE PassInv
  <2>i. RootTypes /\ RunTypes /\ RootInv /\ RecordInv /\ HalfInv /\ LateInv /\ LedgerInv /\ LiveInv
        /\ RiskInv
    BY <1>1 DEF ReclaimInv
  <2>1. ReclaimTypeOK
    <3>1. unsynced \subseteq Seg \ files
      BY <2>i DEF RootTypes, RootInv
    <3>2. /\ ledger.uncertain \subseteq ledger.reclaiming
          /\ ledger.reclaiming \cup ledger.attempted \subseteq ledger.segments
          /\ \A s \in Seg, t \in Tenant :
               t \in ledger.pending[s] <=> s \in Held(ledger, t) /\ s > ledger.cursor[t]
      BY <2>i DEF LedgerInv, LedgerSound, Nested, Pins
    <3>3. {side, sideOld} \subseteq [v : 0..2, mark : Offset] /\ {rec, recAlt, mem} \subseteq Record
      BY <2>i DEF RootTypes, RunTypes
    <3>4. outstanding.pass = live
      BY <2>i DEF LiveInv
    <3> QED
      BY <2>i, <3>1, <3>2, <3>3, <3>4 DEF ReclaimTypeOK, RootTypes, RunTypes
  <2>2. RowsFit
    BY <2>i DEF RowsFit, RecordInv, GoodRecord
  <2>3. AtMostOneLateRemoval
    BY <2>i DEF AtMostOneLateRemoval, LateInv
  <2>4. MissingIsExpected
    <3>1. ASSUME NEW p \in Halves, live = p, NEW s \in half[p].todo \ files
          PROVE  s \in half[p].uncertain
      <4>1. HalfShape(half[p]) /\ live # NoPass
        BY <2>i, <3>1, Bounds DEF HalfInv, HalfGood
      <4>2. half[p] # Idle /\ s \in half[p].plan \ half[p].removed
        BY <3>1, <4>1 DEF HalfShape, Idle
      <4> QED
        BY <2>i, <3>1, <4>1, <4>2 DEF RiskInv, AtRisk
    <3> QED
      BY <3>1 DEF MissingIsExpected
  <2> QED
    BY <2>1, <2>2, <2>3, <2>4 DEF PassInv
<1> QED
  BY <1>1, ReclaimInvHolds, PTL

\* A segment that is gone is on the record in memory and on every record a crash
\* can leave, through failed slot writes, undone unlinks and interrupted opens,
\* until both sidecars are lost (reclaim_store.rs, housekeeping.rs
\* write_plan_record, reconcile.rs planned).
THEOREM GoneStaysAccounted == ReclaimSpec => []GoneIsAccounted
<1>1. ASSUME ReclaimInv PROVE GoneIsAccounted
  <2>1. RootTypes /\ AccountInv /\ NoRecord.witness = "none"
    BY <1>1 DEF ReclaimInv, NoRecord
  <2>2. \A s \in Gone : s \in Exposed
    BY DEF Exposed
  <2> QED
    BY <2>1, <2>2 DEF AccountInv, GoneIsAccounted, ShowsGone
<1> QED
  BY <1>1, ReclaimInvHolds, PTL

\* No record ever claims as reclaimed a frame whose segment is on disk, or whose
\* unlink a power loss could undo (housekeeping.rs housekeeping_commit,
\* reconcile.rs planned).
THEOREM ReclaimedStaysGone == ReclaimSpec => []ReclaimedIsGone
<1>1. ASSUME ReclaimInv PROVE ReclaimedIsGone
  BY <1>1 DEF ReclaimInv, ReclaimedInv, Unreturning, ReclaimedIsGone
<1> QED
  BY <1>1, ReclaimInvHolds, PTL

\* Open refuses a root only after a sidecar was lost: no crash point of a
\* checkpoint, a rotation, a pass or an open leaves one that reads as damaged
\* (reconcile.rs, lib.rs Wal::checkpoint and rotate_now).
THEOREM OnlyLossRefuses == ReclaimSpec => []RefusalMeansLoss
<1>1. ReclaimInv => RefusalMeansLoss
  BY DEF ReclaimInv
<1> QED
  BY <1>1, ReclaimInvHolds, PTL

\* Only a file half that passed its check removes a file.
LEMMA OnlyUnlinkRemoves ==
  ASSUME [ReclaimNext]_reclaimVars, NEW s \in files \ files'
  PROVE  \E p \in Halves : Unlink(p)
<1>1. CASE UNCHANGED reclaimVars
  BY <1>1 DEF reclaimVars, dir
<1>2. CASE OpenRoot \/ OpenInterrupted \/ RebuildLedger \/ KillProcess \/ LosePower \/ Lose \/ Rotate
  BY <1>2 DEF OpenRoot, OpenInterrupted, RebuildLedger, KillProcess, LosePower, Lose, Rotate, dir
<1>3. CASE Checkpoint(Len(log)) \/ Checkpoint(side.mark)
  BY <1>3 DEF Checkpoint
<1>4. CASE \E t \in site.tenants : AppendFrame(t) \/ Snapshot(t)
  BY <1>4 DEF AppendFrame, Snapshot, dir
<1>5. ASSUME NEW p \in Halves, FileHalf(p) \/ Panic(p) \/ \E m \in Modes : Prepare(p, m)
      PROVE  Unlink(p)
  <2>1. ASSUME NEW m, Prepare(p, m) PROVE files' = files
    BY <2>1 DEF Prepare, dir
  <2>2. Panic(p) \/ WritePlan(p) \/ CheckPermit(p) \/ SyncParent(p) \/ Commit(p) => files' = files
    BY DEF Panic, WritePlan, CheckPermit, SyncParent, Commit, dir
  <2> QED
    BY <1>5, <2>1, <2>2 DEF FileHalf
<1> QED
  BY <1>1, <1>2, <1>3, <1>4, <1>5 DEF ReclaimNext

\* A step removes a file only if it is not the append target and a durable
\* checkpoint covers it, and the live pass, where every caller has a consumer,
\* only if the horizon received of each tenant in it covers it
\* (housekeeping.rs unlink_planned, retain.rs pop and walk).
THEOREM UnlinksAreUnneeded == ReclaimSpec => UnlinksOnlyUnneeded
<1> DEFINE A == \A s \in files \ files' :
       /\ s # Cur /\ Highest(s) <= sideOld.mark /\ Highest(s) <= side.mark
       /\ \A p \in Halves :
            p = live /\ Modes = {"Known"} /\ half'[p].removed # half[p].removed =>
              \A t \in Tenant : LastIn(s, t) <= ledger.horizon[t]
<1>1. ASSUME ReclaimInv, [ReclaimNext]_reclaimVars, NEW s \in files \ files'
      PROVE  /\ s # Cur /\ Highest(s) <= sideOld.mark /\ Highest(s) <= side.mark
             /\ \A p \in Halves :
                  p = live /\ Modes = {"Known"} /\ half'[p].removed # half[p].removed =>
                    \A t \in Tenant : LastIn(s, t) <= ledger.horizon[t]
  <2>i. RootTypes /\ RunTypes /\ RootInv /\ HalfInv /\ LedgerInv /\ LiveInv /\ MarkInv
    BY <1>1 DEF ReclaimInv
  <2>1. PICK p \in Halves : Unlink(p)
    BY <1>1, OnlyUnlinkRemoves
  <2>2. half[p].st = "checked" /\ half \in [Halves -> HalfType] /\ HalfGood(half[p]) /\ half[p].todo # {}
        /\ half[p].todo \subseteq half[p].plan /\ half[p] # Idle
    BY <2>i, <2>1 DEF Unlink, HalfInv, HalfGood, HalfShape, RunTypes, Idle
  <2>3. s = Min(half[p].todo)
    BY <1>1, <2>1 DEF Unlink, dir
  <2>4. s \in half[p].todo /\ s \in half[p].plan /\ s \in Seg /\ \A x \in Seg : x \in Nat
    <3>1. half[p].todo \in SUBSET Nat /\ \A x \in Seg : x \in Nat
      BY <2>i, <2>2, Bounds DEF HalfType, Seg
    <3>2. s \in half[p].todo
      BY <2>2, <2>3, <3>1, LeastExists
    <3> QED
      BY <2>2, <3>1, <3>2 DEF HalfType
  <2>5. s < Cur /\ Highest(s) <= sideOld.mark
    BY <2>2, <2>4 DEF HalfGood
  <2>6. s # Cur /\ Highest(s) <= side.mark
    <3>1. Cur \in Nat
      BY <1>1, <2>i, CurIsNewest, Bounds DEF Seg
    <3>2. Highest(s) \in Nat /\ sideOld.mark \in Nat /\ side.mark \in Nat /\ sideOld.mark <= side.mark
      BY <2>i, HighestIs, LogEntries, Bounds DEF RootTypes, Offset, MarkInv
    <3> QED
      BY <2>4, <2>5, <3>1, <3>2
  <2>7. \A q \in Halves : q # p => half'[q] = half[q]
    BY <2>1, <2>2 DEF Unlink
  <2>8. ASSUME live = p, Modes = {"Known"}, NEW t \in Tenant PROVE LastIn(s, t) <= ledger.horizon[t]
    <3>1. live # NoPass
      BY <2>i, <2>8, Bounds
    <3>2. s \in ledger.reclaiming
      BY <2>i, <2>2, <2>4, <2>8, <3>1 DEF LiveInv
    <3>3. ledger.pending[s] = {} /\ s \in ledger.segments
      BY <2>i, <2>8, <3>2 DEF LedgerInv, LedgerSound, Released, Nested
    <3>4. ledger.cursor[t] \in Nat /\ ledger.horizon[t] \in Nat
      BY <2>i, LedgerFields DEF RunTypes
    <3>5. CASE t \in Members(s)
      <4>1. s \in Held(ledger, t)
        BY <3>3, <3>5 DEF Held
      <4>2. ~ (s > ledger.cursor[t])
        BY <2>i, <2>4, <3>3, <4>1 DEF LedgerInv, LedgerSound, Pins
      <4>3. s <= ledger.cursor[t]
        BY <2>4, <3>4, <4>2
      <4> QED
        BY <2>i, <4>1, <4>3 DEF LedgerInv, LedgerSound, Cleared
    <3>6. CASE t \notin Members(s)
      BY <2>i, <3>4, <3>6, LastInIs
    <3> QED
      BY <3>5, <3>6
  <2> QED
    BY <2>5, <2>6, <2>7, <2>8
<1>2. ReclaimInv /\ [ReclaimNext]_reclaimVars => [A]_reclaimVars
  BY <1>1
<1> QED
  BY <1>2, ReclaimInvHolds, PTL DEF ReclaimSpec, UnlinksOnlyUnneeded
=============================================================================
