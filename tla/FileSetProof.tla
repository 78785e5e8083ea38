---------------------------- MODULE FileSetProof ----------------------------
(***************************************************************************)
(* Proofs about compaction and the queries over it, for any number of      *)
(* flush files, compactors, rewrites, faults and scans.                    *)
(*                                                                         *)
(* RowsOnce and ErasedStayGone are about the manifest of the moment, and a *)
(* sweep commits what it computed from a manifest and a listing it read    *)
(* long before.  The invariant says what a sweep may still rely on: its    *)
(* base is the manifest, or of an older generation; what it rewrote is     *)
(* what its base and its inputs make it; what it is about to delete is     *)
(* dead for good.                                                          *)
(***************************************************************************)
EXTENDS FileSet, FiniteSetTheorems, TLAPS

File == [g : 1 .. MaxOutputs, n : 1 .. MaxOutputs, rows : SUBSET Flush]

ManifestType == [generation : 0 .. MaxOutputs, files : SUBSET File, consumed : SUBSET Flush]

Pcs == {"idle", "read", "list", "sort", "put", "commit", "discard", "clean", "gc_read", "gc_list",
        "gc", "erase", "before", "confirm", "check", "advance"}

SweepType ==
    [pc : Pcs, base : ManifestType, inputs : SUBSET Data, output : File \cup {NoFile},
     todo : SUBSET Data, drop : BOOLEAN, before : 0 .. MaxOutputs,
     checked : {Unchecked} \cup 0 .. MaxOutputs, round : 0 .. Rounds, seen : SUBSET Erased]

TypesInv ==
    /\ site \in Sites
    /\ objects \subseteq Data /\ manifest \in ManifestType
    /\ puts \in [Flush -> 0 .. MaxPuts]
    /\ serial \in 0 .. MaxOutputs /\ faults \in 0 .. MaxFaults
    /\ marker \in {"none", "rows", "tuples"} /\ due \subseteq Erased
    /\ comp \in [Compactor -> SweepType]

\* A manifest names one compacted file, of its own generation, which holds the
\* rows of what it consumed and may lack only erased ones.
Holds(m, x) ==
    /\ m.files = {x} /\ x.g = m.generation
    /\ x.rows \subseteq m.consumed /\ m.consumed \ Erased \subseteq x.rows

WellFormed(m) == m = NoManifest \/ \E x \in m.files : Holds(m, x)

\* No manifest to come names x again, if compacted, nor leaves it unconsumed.
Dead(x) ==
    IF x \in Flush THEN x \in manifest.consumed
    ELSE x.g <= manifest.generation /\ x \notin manifest.files

\* The consumed rows that are in no file the manifest names.
Gone == {f \in manifest.consumed : \A x \in manifest.files : f \notin x.rows}

Scrubbed == \A x \in manifest.files : x.rows \cap Erased = {}

StoreInv ==
    /\ WellFormed(manifest) /\ manifest.generation <= serial
    /\ \A x \in manifest.files : x.n <= serial
    /\ manifest.files \subseteq objects
    /\ Published \ manifest.consumed \subseteq objects /\ objects \cap Flush \subseteq Published
    /\ due \subseteq Gone

\* What a sweep read is the manifest, or an older one.
BaseInv(r) ==
    /\ WellFormed(r.base)
    /\ r.base.generation <= manifest.generation /\ r.base.consumed \subseteq manifest.consumed
    /\ r.base.generation = manifest.generation => r.base = manifest

\* What it rewrites.
RewriteInv(r) ==
    /\ r.pc \in {"sort", "put", "commit"} =>
          r.inputs \ Flush = r.base.files /\ r.inputs \cap r.base.consumed = {}
    /\ r.pc \in {"put", "commit"} =>
          /\ r.output.g = r.base.generation + 1 /\ r.output.g <= serial
          /\ r.output.rows \subseteq r.base.consumed \cup r.inputs
          /\ (r.base.consumed \cup (r.inputs \cap Flush)) \ Erased \subseteq r.output.rows
          /\ r.drop => r.output.rows \cap Erased = {}
          /\ \A f \in r.output.rows \cap r.base.consumed : \E x \in r.base.files : f \in x.rows

\* What it deletes is dead.
TodoInv(r) == r.pc \in {"clean", "gc"} => \A x \in r.todo : Dead(x)

\* What its rows phase has established.
EraseInv(r) ==
    /\ r.before <= manifest.generation
    /\ r.pc = "list" => r.before <= r.base.generation
    /\ r.pc = "clean" /\ r.drop =>
          r.output.g <= manifest.generation /\ (r.output.g = manifest.generation => Scrubbed)
    /\ r.pc \in {"confirm", "check"} =>
          r.checked <= manifest.generation /\ (r.checked = manifest.generation => Scrubbed)
    /\ r.pc = "check" => r.seen \subseteq r.todo \cup manifest.consumed
    /\ r.pc = "advance" => r.seen \subseteq Gone

SweepInv(r) == BaseInv(r) /\ RewriteInv(r) /\ TodoInv(r) /\ EraseInv(r)

\* The file a sweep is about to name is new, is there when it is named, and no
\* two sweeps have the same; where there is no compare-and-swap there is one
\* sweep, and its base is the manifest.
Naming(r) == r.pc \in {"put", "commit", "discard"}

NameInv ==
    \A c \in Compactor :
        /\ c \notin site.compactors => comp[c] = Idle
        /\ ~ Cas /\ comp[c].pc \in {"list", "sort", "put", "commit"} => comp[c].base = manifest
        /\ comp[c].pc = "commit" /\ comp[c].base = manifest => comp[c].output \in objects
        /\ Naming(comp[c]) =>
              /\ comp[c].output \in File /\ comp[c].output.n <= serial
              /\ \A x \in manifest.files : x.n # comp[c].output.n
              /\ \A d \in Compactor : d # c /\ Naming(comp[d]) => comp[d].output.n # comp[c].output.n

CompactionInv == TypesInv /\ StoreInv /\ (\A c \in Compactor : SweepInv(comp[c])) /\ NameInv

QueryType ==
    [pc : {"none", "list", "glob", "manifest", "resolved", "scan", "answered", "error"},
     attempt : 0 .. ScanAttempts, listings : 0 .. LocalResolveAttempts, todo : SUBSET Flush,
     listed : SUBSET Flush, found : SUBSET Data, files : SUBSET Data, unread : SUBSET Data,
     failed : BOOLEAN, floor : SUBSET Flush, asked : Nat, number : 0 .. MaxQueries]

\* What a query has listed, resolved and failed on.
ListInv(q) ==
    /\ q.floor \cup q.listed \subseteq Published
    /\ q.pc = "list" => q.floor \subseteq q.todo \cup q.listed \cup manifest.consumed
    /\ q.pc = "manifest" => q.floor \subseteq q.listed \cup manifest.consumed
    /\ q.pc = "glob" => q.floor \subseteq q.listed /\ ~ q.failed

Resolvable(x) == IF x \in Flush THEN x \in Published ELSE x.g <= manifest.generation

Whole(q, X) == q.floor \ Erased \subseteq UNION {Rows(x) : x \in X} /\ Disjoint(X)

ScanInv(q) ==
    /\ \A x \in q.files \cup q.found : Resolvable(x)
    /\ q.pc = "resolved" =>
          /\ q.unread \subseteq q.found /\ (q.unread # {} => ~ Cas)
          /\ Whole(q, q.found) /\ (q.failed => q.found # q.files)
    /\ q.pc \in {"scan", "answered"} => q.unread \subseteq q.files /\ Whole(q, q.files) /\ ~ q.failed
    /\ q.failed /\ q.pc \in {"list", "manifest", "resolved"} =>
          q.attempt < ScanAttempts /\ \E x \in q.files : Dead(x)

\* Each scan and each listing the query has lost was lost to a commit of its own:
\* while there has been no commit beyond those, the files it holds are live.
Losses(q) == (q.attempt - 1) + (q.listings - 1) + (IF q.failed THEN 1 ELSE 0)

Spent(q) == q.asked + Losses(q)

TriesInv(q) ==
    /\ q.pc \in {"list", "glob", "manifest", "resolved", "scan"} =>
          q.attempt >= 1 /\ q.listings >= 1 /\ Spent(q) <= manifest.generation
    /\ q.pc = "glob" => Spent(q) = 0
    /\ q.pc = "resolved" /\ Spent(q) = manifest.generation => \A x \in q.found : ~ Dead(x)
    /\ q.pc = "scan" /\ Spent(q) = manifest.generation => \A x \in q.files : ~ Dead(x)
    /\ q.pc = "error" =>
          \/ q.attempt = ScanAttempts /\ q.asked + ScanAttempts <= manifest.generation
          \/ ~ Cas /\ q.listings = LocalResolveAttempts /\ q.asked + LocalResolveAttempts <= manifest.generation

ResolveInv == query \in QueryType /\ ListInv(query) /\ ScanInv(query) /\ TriesInv(query)
-----------------------------------------------------------------------------
LEMMA Constants ==
    ASSUME site \in Sites
    PROVE  /\ MaxOutputs \in Nat /\ MaxFaults \in Nat /\ Rounds \in Nat /\ MaxPuts \in Nat /\ MaxPuts > 0
           /\ ScanAttempts \in Nat /\ ScanAttempts > 0 /\ MaxQueries \in Nat
           /\ LocalResolveAttempts \in Nat /\ LocalResolveAttempts > 0
           /\ IsFiniteSet(Flush) /\ Erased \subseteq Flush /\ site.compactors \subseteq Compactor
           /\ Flush \cap File = {} /\ Data = Flush \cup File /\ Cas \in BOOLEAN
           /\ ~ Cas => \A c, d \in site.compactors : c = d
<1>1. /\ MaxOutputs \in Nat /\ MaxFaults \in Nat /\ Rounds \in Nat /\ MaxPuts \in Nat /\ MaxPuts > 0
      /\ ScanAttempts \in Nat /\ ScanAttempts > 0 /\ MaxQueries \in Nat
      /\ LocalResolveAttempts \in Nat /\ LocalResolveAttempts > 0
  BY ConstantsAssumption
     DEF MaxOutputs, MaxFaults, Rounds, MaxPuts, ScanAttempts, LocalResolveAttempts, MaxQueries
<1>2. Flush \subseteq Name /\ Erased \subseteq Flush /\ site.compactors \subseteq Compactor /\ Cas \in BOOLEAN
  BY ConstantsAssumption DEF Flush, Erased, Cas
<1>3. IsFiniteSet(Flush)
  BY <1>2, ConstantsAssumption, FS_Subset
<1>4. Flush \cap File = {}
  <2>1. File \subseteq [g : Nat, n : Nat, rows : SUBSET Name]
    BY <1>1, <1>2 DEF File
  <2> QED
    BY <1>2, <2>1, ConstantsAssumption
<1>5. Data = Flush \cup File
  BY DEF Data, File
<1>6. ASSUME ~ Cas PROVE \A c, d \in site.compactors : c = d
  <2>1. Cardinality(site.compactors) = 1
    BY <1>6, ConstantsAssumption DEF Cas
  <2>2. IsFiniteSet(site.compactors)
    BY <1>2, ConstantsAssumption, FS_Subset
  <2> QED
    BY <2>1, <2>2, FS_Singleton
<1> QED
  BY <1>1, <1>2, <1>3, <1>4, <1>5, <1>6

LEMMA SiteFixed == [Next]_vars => site' = site
  BY DEF Next, PutFlush, RequestErasure, Sweep, Kill, Plan, ReadManifest, ListInputs, SortInputs, SortFails,
         PutOutput, CommitManifest, CommitFails, Discard, DeleteOne, Cleaned, GcRead, GcList, GcDone,
         ErasePending, ErasePartition, ConfirmList, ConfirmRead, AdvanceMarker, vars

LEMMA SitePrimes ==
    ASSUME site' = site
    PROVE  /\ Flush' = Flush /\ Erased' = Erased /\ Cas' = Cas /\ Rounds' = Rounds /\ MaxPuts' = MaxPuts
           /\ MaxOutputs' = MaxOutputs /\ MaxFaults' = MaxFaults
           /\ ScanAttempts' = ScanAttempts /\ MaxQueries' = MaxQueries
           /\ LocalResolveAttempts' = LocalResolveAttempts
           /\ File' = File /\ Data' = Data /\ ManifestType' = ManifestType /\ SweepType' = SweepType
           /\ QueryType' = QueryType
  BY DEF Flush, Erased, Cas, Rounds, MaxPuts, MaxOutputs, MaxFaults, ScanAttempts, LocalResolveAttempts,
         MaxQueries, File, Data, ManifestType, SweepType, QueryType

LEMMA IdleTyped ==
    ASSUME site \in Sites
    PROVE  /\ NoManifest \in ManifestType /\ Idle \in SweepType
           /\ \A p \in Pcs : [Idle EXCEPT !.pc = p] \in SweepType
<1>1. NoManifest \in ManifestType
  BY Constants DEF NoManifest, ManifestType
<1>2. Idle \in SweepType
  BY <1>1, Constants DEF Idle, SweepType, Pcs
<1> QED
  BY <1>1, <1>2 DEF SweepType

\* What the sweep's step makes of its record is a record of the type.
LEMMA StepTyped ==
    ASSUME TypesInv, NEW c \in Compactor, NEW r \in SweepType, Step(c, r)
    PROVE  comp' \in [Compactor -> SweepType] /\ comp'[c] = r /\ \A d \in Compactor : d # c => comp'[d] = comp[d]
  BY DEF TypesInv, Step

LEMMA SweepFields ==
    ASSUME NEW r \in SweepType
    PROVE  /\ r.pc \in Pcs /\ r.base \in ManifestType /\ r.inputs \subseteq Data /\ r.output \in File \cup {NoFile}
           /\ r.todo \subseteq Data /\ r.drop \in BOOLEAN /\ r.before \in 0 .. MaxOutputs
           /\ r.checked \in {Unchecked} \cup 0 .. MaxOutputs /\ r.round \in 0 .. Rounds /\ r.seen \subseteq Erased
  BY DEF SweepType

LEMMA SweepUpdates ==
    ASSUME NEW r \in SweepType
    PROVE  /\ \A p \in Pcs : [r EXCEPT !.pc = p] \in SweepType
           /\ \A p \in Pcs, m \in ManifestType : [r EXCEPT !.pc = p, !.base = m] \in SweepType
           /\ \A p \in Pcs, X \in SUBSET Data : [r EXCEPT !.pc = p, !.inputs = X] \in SweepType
           /\ \A p \in Pcs, x \in File : [r EXCEPT !.pc = p, !.output = x] \in SweepType
           /\ \A p \in Pcs, X \in SUBSET Data : [r EXCEPT !.pc = p, !.todo = X] \in SweepType
           /\ \A X \in SUBSET Data : [r EXCEPT !.todo = X] \in SweepType
           /\ \A p \in Pcs, n \in 0 .. MaxOutputs : [r EXCEPT !.pc = p, !.drop = TRUE, !.before = n] \in SweepType
           /\ \A p \in Pcs, X \in SUBSET Data, Y \in SUBSET Erased : [r EXCEPT !.pc = p, !.todo = X, !.seen = Y] \in SweepType
           /\ \A p \in Pcs, n \in 0 .. Rounds : [r EXCEPT !.pc = p, !.round = n, !.todo = {}] \in SweepType
           /\ \A p \in Pcs, n \in {Unchecked} \cup 0 .. MaxOutputs, k \in 0 .. Rounds :
                 [r EXCEPT !.pc = p, !.checked = n, !.round = k] \in SweepType
  BY DEF SweepType

\* How a step of a sweep changes its record, and what it writes.
Rewound(r) == r = Idle \/ \E p \in {"gc_read", "erase", "before"} : r = [Idle EXCEPT !.pc = p]

Quiet == UNCHANGED <<objects, manifest, serial, due>>

Reads(c, r) ==
    LET o == comp[c] IN
    /\ Quiet
    /\ \/ \E p \in {"read", "gc_read", "erase"} : o.pc = "idle" /\ r = [o EXCEPT !.pc = p]
       \/ o.pc = "read" /\ r = [o EXCEPT !.pc = "list", !.base = manifest]
       \/ o.pc = "gc_read" /\ r = [o EXCEPT !.pc = "gc_list", !.base = manifest]
       \/ o.pc = "list" /\ r = [o EXCEPT !.pc = "sort", !.inputs = LiveKeys(o.base, objects)]
       \/ o.pc = "gc_list" /\ r = [o EXCEPT !.pc = "gc", !.todo = {x \in objects : IsOrphan(o.base, x)}]
       \/ o.pc = "before" /\ r = [o EXCEPT !.pc = "read", !.drop = TRUE, !.before = manifest.generation]

Confirms(c, r) ==
    LET o == comp[c] IN
    /\ Quiet
    /\ \/ r = [Idle EXCEPT !.pc = "confirm"]
       \/ /\ o.pc = "list" /\ o.drop /\ LiveKeys(o.base, objects) = {}
          /\ r = [Idle EXCEPT !.pc = "confirm", !.checked = o.before, !.round = o.round]
       \/ /\ o.pc = "clean" /\ o.drop
          /\ r = [Idle EXCEPT !.pc = "confirm", !.checked = o.output.g, !.round = o.round]
       \/ \E p \in {"check", "advance"} :
            /\ o.pc = "confirm" /\ (p = "advance" => ~ Exists)
            /\ r = [o EXCEPT !.pc = p, !.todo = objects \cap Flush, !.seen = Published \cap Erased]
       \/ o.pc = "check" /\ Settled(c) /\ r = [o EXCEPT !.pc = "advance"]
       \/ o.pc = "check" /\ MoreRounds(c) /\ r = [o EXCEPT !.pc = "before", !.round = o.round + 1, !.todo = {}]

Sorts(c, r) ==
    LET o == comp[c] IN
    /\ o.pc = "sort" /\ serial < MaxOutputs /\ serial' = serial + 1 /\ UNCHANGED <<objects, manifest, due>>
    /\ r = [o EXCEPT !.pc = "put", !.output = [g |-> o.base.generation + 1, n |-> serial + 1, rows |-> Kept(c)]]

Puts(c, r) ==
    LET o == comp[c] IN
    /\ o.pc = "put" /\ objects' = objects \cup {o.output} /\ UNCHANGED <<manifest, serial, due>>
    /\ r = [o EXCEPT !.pc = "commit"]

Commits(c, r) ==
    LET o == comp[c] IN
    /\ o.pc = "commit" /\ Wins(c) /\ manifest' = NextManifest(c) /\ UNCHANGED <<objects, serial, due>>
    /\ Rewound(r) \/ r = [o EXCEPT !.pc = "clean", !.todo = o.inputs]

Loses(c, r) == comp[c].pc = "commit" /\ ~ Wins(c) /\ Quiet /\ r = [comp[c] EXCEPT !.pc = "discard"]

Deletes(c, r) ==
    LET o == comp[c] IN
    /\ UNCHANGED <<manifest, serial, due>>
    /\ \/ o.pc = "discard" /\ Rewound(r) /\ objects' = objects \ {o.output}
       \/ /\ o.pc \in {"clean", "gc"}
          /\ \E x \in o.todo : r = [o EXCEPT !.todo = o.todo \ {x}] /\ objects' \in {objects, objects \ {x}}

Advances(c, r) ==
    comp[c].pc = "advance" /\ Rewound(r) /\ due' = due \cup comp[c].seen /\ UNCHANGED <<objects, manifest, serial>>

Moves(c, r) ==
    \/ Rewound(r) /\ Quiet
    \/ Reads(c, r) \/ Confirms(c, r) \/ Sorts(c, r) \/ Puts(c, r) \/ Commits(c, r) \/ Loses(c, r)
    \/ Deletes(c, r) \/ Advances(c, r)

LEMMA LiveTyped ==
    ASSUME site \in Sites, NEW m \in ManifestType, NEW X \in SUBSET Data
    PROVE  /\ LiveKeys(m, X) \in SUBSET Data
           /\ LiveKeys(m, X) \ Flush = m.files /\ LiveKeys(m, X) \cap m.consumed = {}
           /\ IsFiniteSet(m.files) => IsFiniteSet(LiveKeys(m, X))
<1>1. Flush \cap File = {} /\ Data = Flush \cup File /\ IsFiniteSet(Flush) /\ m.files \subseteq File /\ m.consumed \subseteq Flush
  BY Constants DEF ManifestType
<1>2. IsFiniteSet({f \in X \cap Flush : f \notin m.consumed})
  BY <1>1, FS_Subset
<1> QED
  BY <1>1, <1>2, FS_Union DEF LiveKeys

LEMMA SweepMoves ==
    ASSUME CompactionInv, NEW c \in site.compactors, Sweep(c) \/ Kill(c)
    PROVE  /\ UNCHANGED <<site, puts>>
           /\ \E r : Step(c, r) /\ Moves(c, r)
           /\ faults' = faults \/ Fault
           /\ marker' = marker \/ marker' = "tuples"
<1> DEFINE Goal == \E r : Step(c, r) /\ Moves(c, r)
<1>0. c \in Compactor /\ comp[c] \in SweepType /\ manifest \in ManifestType /\ objects \subseteq Data /\ site \in Sites
  BY Constants DEF CompactionInv, TypesInv
<1>1. UNCHANGED <<site, puts>> /\ (faults' = faults \/ Fault) /\ (marker' = marker \/ marker' = "tuples")
  BY DEF Sweep, Kill, Plan, ReadManifest, ListInputs, SortInputs, SortFails,
         PutOutput, CommitManifest, CommitFails, Discard, DeleteOne, Cleaned, GcRead, GcList, GcDone,
         ErasePending, ErasePartition, ConfirmList, ConfirmRead, AdvanceMarker
<1> SUFFICES Goal
  BY <1>1
<1>2. Failed(c) \/ Reclaim(c) \/ Step(c, Idle) => \E r : Step(c, r) /\ Rewound(r)
  BY DEF Failed, Reclaim, Rewound
<1>3. CASE Quiet /\ \E r : Step(c, r) /\ (Rewound(r) \/ Reads(c, r) \/ Confirms(c, r) \/ Loses(c, r))
  BY <1>3 DEF Moves
<1>4. CASE Plan(c) \/ ReadManifest(c) \/ GcRead(c) \/ GcList(c) \/ ErasePartition(c)
  BY <1>3, <1>4 DEF Plan, ReadManifest, GcRead, GcList, ErasePartition, Goto, Quiet, Reads
<1>5. CASE ListInputs(c)
  <2>1. Quiet /\ comp[c].pc = "list"
    BY <1>5 DEF ListInputs, Quiet
  <2>2. CASE Step(c, [comp[c] EXCEPT !.pc = "sort", !.inputs = LiveKeys(comp[c].base, objects)])
    BY <1>3, <2>1, <2>2 DEF Reads
  <2>3. CASE Reclaim(c)
    BY <1>2, <1>3, <2>1, <2>3
  <2>4. CASE comp[c].drop /\ ~ (Cardinality(LiveKeys(comp[c].base, objects)) >= 1) /\ Confirm(c, CheckedAt(c))
    <3>1. IsFiniteSet(LiveKeys(comp[c].base, objects))
      <4>1. comp[c].base \in ManifestType
        BY <1>0, SweepFields
      <4>2. IsFiniteSet(comp[c].base.files)
        <5>1. WellFormed(comp[c].base)
          BY <1>0 DEF CompactionInv, SweepInv, BaseInv
        <5>2. CASE comp[c].base = NoManifest
          <6>1. comp[c].base.files = {}
            BY <5>2 DEF NoManifest
          <6> QED
            BY <6>1, FS_EmptySet
        <5>3. ASSUME NEW x, comp[c].base.files = {x} PROVE IsFiniteSet(comp[c].base.files)
          BY <5>3, FS_Singleton
        <5> QED
          BY <5>1, <5>2, <5>3 DEF WellFormed, Holds
      <4> QED
        BY <1>0, <4>1, <4>2, LiveTyped
    <3>2. LiveKeys(comp[c].base, objects) = {}
      BY <2>4, <3>1, FS_EmptySet, FS_CardinalityType
    <3> QED
      BY <1>3, <2>1, <2>4, <3>2 DEF Confirms, Confirm, CheckedAt
  <2> QED
    BY <1>5, <2>2, <2>3, <2>4 DEF ListInputs, MinimumInputs
<1>6. CASE SortInputs(c)
  BY <1>6 DEF SortInputs, Moves, Sorts
<1>7. CASE SortFails(c) \/ Kill(c) \/ GcDone(c)
  BY <1>2, <1>3, <1>7 DEF SortFails, Kill, GcDone, Quiet, Rewound
<1>8. CASE PutOutput(c)
  BY <1>8 DEF PutOutput, Goto, Moves, Puts
<1>9. CASE CommitManifest(c)
  BY <1>9 DEF CommitManifest, Goto, Moves, Commits, Loses, Quiet
<1>10. CASE CommitFails(c)
  <2>1. PICK r : Step(c, r) /\ Rewound(r)
    BY <1>2, <1>10 DEF CommitFails
  <2> QED
    BY <1>10, <2>1 DEF CommitFails, Moves, Commits, Quiet
<1>11. CASE Discard(c)
  <2>1. PICK r : Step(c, r) /\ Rewound(r)
    BY <1>2, <1>11 DEF Discard
  <2> QED
    BY <1>11, <2>1 DEF Discard, Moves, Deletes, Quiet
<1>12. CASE DeleteOne(c)
  BY <1>12 DEF DeleteOne, Moves, Deletes
<1>13. CASE Cleaned(c)
  <2>1. Quiet /\ comp[c].pc = "clean"
    BY <1>13 DEF Cleaned, Quiet
  <2>2. CASE Reclaim(c)
    BY <1>2, <1>3, <2>1, <2>2
  <2>3. CASE comp[c].drop /\ Confirm(c, comp[c].output.g)
    BY <1>3, <2>1, <2>3 DEF Confirms, Confirm
  <2> QED
    BY <1>13, <2>2, <2>3 DEF Cleaned
<1>14. CASE ErasePending(c)
  BY <1>3, <1>14 DEF ErasePending, Quiet, Rewound, Confirms
<1>15. CASE ConfirmList(c)
  BY <1>3, <1>15 DEF ConfirmList, Quiet, Confirms
<1>16. CASE ConfirmRead(c)
  BY <1>2, <1>3, <1>16 DEF ConfirmRead, Goto, Quiet, Confirms
<1>17. CASE AdvanceMarker(c)
  <2>1. PICK r : Step(c, r) /\ Rewound(r)
    BY <1>2, <1>17 DEF AdvanceMarker
  <2> QED
    BY <1>17, <2>1 DEF AdvanceMarker, Moves, Advances, Quiet
<1> QED
  BY <1>1, <1>4, <1>5, <1>6, <1>7, <1>8, <1>9, <1>10, <1>11, <1>12, <1>13, <1>14, <1>15, <1>16, <1>17 DEF Sweep

LEMMA RowsTyped ==
    ASSUME site \in Sites, NEW X \in SUBSET Data
    PROVE  \A f : f \in UNION {Rows(x) : x \in X} <=>
             (f \in Flush /\ f \in X) \/ \E x \in X : x \in File /\ f \in x.rows /\ f \in Flush
<1>1. Flush \cap File = {} /\ Data = Flush \cup File
  BY Constants
<1>2. \A x \in File : x.rows \subseteq Flush
  BY DEF File
<1> QED
  BY <1>1, <1>2 DEF Rows

LEMMA MovesTyped ==
    ASSUME CompactionInv, NEW c \in site.compactors, NEW r, Moves(c, r)
    PROVE  /\ r \in SweepType
           /\ objects' \subseteq Data /\ manifest' \in ManifestType /\ serial' \in 0 .. MaxOutputs /\ due' \subseteq Erased
<1> DEFINE o == comp[c]
<1>0. /\ c \in Compactor /\ o \in SweepType /\ manifest \in ManifestType /\ objects \subseteq Data /\ site \in Sites
      /\ serial \in 0 .. MaxOutputs /\ due \subseteq Erased /\ MaxOutputs \in Nat /\ Rounds \in Nat
      /\ Data = Flush \cup File /\ manifest.generation \in 0 .. MaxOutputs /\ Erased \subseteq Flush
  BY Constants DEF CompactionInv, TypesInv, ManifestType
<1>1. /\ Idle \in SweepType /\ \A p \in Pcs : [Idle EXCEPT !.pc = p] \in SweepType
  BY <1>0, IdleTyped
<1>2. Rewound(r) => r \in SweepType
  BY <1>1 DEF Rewound, Pcs
<1>3. /\ o.base \in ManifestType /\ o.inputs \in SUBSET Data /\ o.output \in File \cup {NoFile}
      /\ o.todo \in SUBSET Data /\ o.before \in 0 .. MaxOutputs /\ o.round \in 0 .. Rounds /\ o.seen \subseteq Erased
  BY <1>0, SweepFields
<1>4. CASE Rewound(r) /\ Quiet
  BY <1>0, <1>2, <1>4 DEF Quiet
<1>5. CASE Reads(c, r)
  <2>1. /\ LiveKeys(o.base, objects) \in SUBSET Data /\ {x \in objects : IsOrphan(o.base, x)} \in SUBSET Data
        /\ Quiet
    BY <1>0, <1>3, <1>5, LiveTyped DEF Reads
  <2>2. /\ \A p \in Pcs : [o EXCEPT !.pc = p] \in SweepType
        /\ \A p \in Pcs, m \in ManifestType : [o EXCEPT !.pc = p, !.base = m] \in SweepType
        /\ \A p \in Pcs, X \in SUBSET Data : [o EXCEPT !.pc = p, !.inputs = X] \in SweepType
        /\ \A p \in Pcs, X \in SUBSET Data : [o EXCEPT !.pc = p, !.todo = X] \in SweepType
        /\ \A p \in Pcs, n \in 0 .. MaxOutputs : [o EXCEPT !.pc = p, !.drop = TRUE, !.before = n] \in SweepType
    BY <1>0, SweepUpdates, Zenon
  <2>a. /\ [o EXCEPT !.pc = "read"] \in SweepType /\ [o EXCEPT !.pc = "gc_read"] \in SweepType
        /\ [o EXCEPT !.pc = "erase"] \in SweepType
    BY <2>2, Zenon DEF Pcs
  <2>b. [o EXCEPT !.pc = "list", !.base = manifest] \in SweepType /\ [o EXCEPT !.pc = "gc_list", !.base = manifest] \in SweepType
    BY <1>0, <2>2, Zenon DEF Pcs
  <2>c. [o EXCEPT !.pc = "sort", !.inputs = LiveKeys(o.base, objects)] \in SweepType
    BY <2>1, <2>2, Zenon DEF Pcs
  <2>d. [o EXCEPT !.pc = "gc", !.todo = {x \in objects : IsOrphan(o.base, x)}] \in SweepType
    BY <2>1, <2>2, Zenon DEF Pcs
  <2>e. [o EXCEPT !.pc = "read", !.drop = TRUE, !.before = manifest.generation] \in SweepType
    BY <1>0, <2>2, Zenon DEF Pcs
  <2>3. r \in SweepType
    BY <1>5, <2>a, <2>b, <2>c, <2>d, <2>e DEF Reads
  <2> QED
    BY <1>0, <2>1, <2>3 DEF Quiet
<1>6. CASE Confirms(c, r)
  <2>1. Quiet
    BY <1>6 DEF Confirms
  <2>2. /\ \A p \in Pcs, n \in {Unchecked} \cup 0 .. MaxOutputs, k \in 0 .. Rounds :
             [Idle EXCEPT !.pc = p, !.checked = n, !.round = k] \in SweepType
        /\ \A p \in Pcs, X \in SUBSET Data, Y \in SUBSET Erased : [o EXCEPT !.pc = p, !.todo = X, !.seen = Y] \in SweepType
        /\ \A p \in Pcs : [o EXCEPT !.pc = p] \in SweepType
        /\ \A p \in Pcs, n \in 0 .. Rounds : [o EXCEPT !.pc = p, !.round = n, !.todo = {}] \in SweepType
    BY <1>0, <1>1, SweepUpdates, Zenon
  <2>3. o.output.g \in 0 .. MaxOutputs
    BY <1>0, <1>3 DEF File, NoFile
  <2>4. MoreRounds(c) => o.round + 1 \in 0 .. Rounds
    BY <1>0, <1>3 DEF MoreRounds
  <2>5. objects \cap Flush \in SUBSET Data /\ Published \cap Erased \in SUBSET Erased
    BY <1>0
  <2>a. [Idle EXCEPT !.pc = "confirm"] \in SweepType
    BY <1>1 DEF Pcs
  <2>b. /\ [Idle EXCEPT !.pc = "confirm", !.checked = o.before, !.round = o.round] \in SweepType
        /\ [Idle EXCEPT !.pc = "confirm", !.checked = o.output.g, !.round = o.round] \in SweepType
    BY <1>3, <2>2, <2>3, Zenon DEF Pcs
  <2>c. \A p \in {"check", "advance"} :
          [o EXCEPT !.pc = p, !.todo = objects \cap Flush, !.seen = Published \cap Erased] \in SweepType
    BY <2>2, <2>5, Zenon DEF Pcs
  <2>d. [o EXCEPT !.pc = "advance"] \in SweepType
    BY <2>2, Zenon DEF Pcs
  <2>e. MoreRounds(c) => [o EXCEPT !.pc = "before", !.round = o.round + 1, !.todo = {}] \in SweepType
    BY <2>2, <2>4, Zenon DEF Pcs
  <2>6. r \in SweepType
    BY <1>6, <2>a, <2>b, <2>c, <2>d, <2>e DEF Confirms
  <2> QED
    BY <1>0, <2>1, <2>6 DEF Quiet
<1>7. CASE Sorts(c, r)
  <2>1. Kept(c) \subseteq Flush
    <3>1. UNION {Rows(x) : x \in o.inputs} \subseteq Flush
      BY <1>0, <1>3, RowsTyped
    <3> QED
      BY <3>1 DEF Kept
  <2>2. o.base.generation \in 0 .. MaxOutputs /\ o.base.generation <= serial
    BY <1>0, <1>3 DEF CompactionInv, StoreInv, SweepInv, BaseInv, ManifestType
  <2>3. [g |-> o.base.generation + 1, n |-> serial + 1, rows |-> Kept(c)] \in File
    BY <1>0, <1>7, <2>1, <2>2 DEF Sorts, File
  <2>4. \A p \in Pcs, x \in File : [o EXCEPT !.pc = p, !.output = x] \in SweepType
    BY <1>0, SweepUpdates, Zenon
  <2>5. r = [o EXCEPT !.pc = "put", !.output = [g |-> o.base.generation + 1, n |-> serial + 1, rows |-> Kept(c)]]
    BY <1>7 DEF Sorts
  <2>6. r \in SweepType
    BY <2>3, <2>4, <2>5, Zenon DEF Pcs
  <2> QED
    BY <1>0, <1>7, <2>6 DEF Sorts
<1>8. CASE Puts(c, r)
  <2>1. o.output \in File
    BY <1>0, <1>8 DEF Puts, CompactionInv, NameInv, Naming
  <2>2. r \in SweepType
    BY <1>0, <1>8, SweepUpdates, Zenon DEF Puts, Pcs
  <2> QED
    BY <1>0, <1>8, <2>1, <2>2 DEF Puts
<1>9. CASE Commits(c, r)
  <2>1. o.output \in File
    BY <1>0, <1>9 DEF Commits, CompactionInv, NameInv, Naming
  <2>2. r \in SweepType
    <3>1. [o EXCEPT !.pc = "clean", !.todo = o.inputs] \in SweepType
      BY <1>0, <1>3, SweepUpdates, Zenon DEF Pcs
    <3> QED
      BY <1>2, <1>9, <3>1 DEF Commits
  <2>3. manifest' \in ManifestType
    BY <1>0, <1>3, <1>9, <2>1 DEF Commits, NextManifest, ManifestType, File
  <2> QED
    BY <1>0, <1>9, <2>2, <2>3 DEF Commits
<1>10. CASE Loses(c, r)
  <2>1. r \in SweepType
    BY <1>0, <1>10, SweepUpdates, Zenon DEF Loses, Pcs
  <2> QED
    BY <1>0, <1>10, <2>1 DEF Loses, Quiet
<1>11. CASE Deletes(c, r)
  <2>1. r \in SweepType
    <3>1. \A x : [o EXCEPT !.todo = o.todo \ {x}] \in SweepType
      BY <1>0, <1>3, SweepUpdates, Zenon
    <3> QED
      BY <1>2, <1>11, <3>1 DEF Deletes
  <2> QED
    BY <1>0, <1>11, <2>1 DEF Deletes
<1>12. CASE Advances(c, r)
  BY <1>0, <1>2, <1>3, <1>12 DEF Advances
<1> QED
  BY <1>4, <1>5, <1>6, <1>7, <1>8, <1>9, <1>10, <1>11, <1>12 DEF Moves

LEMMA TypesStep ==
    ASSUME CompactionInv, [Next]_vars
    PROVE  TypesInv'
<1>0. TypesInv /\ site' = site /\ site \in Sites
  BY SiteFixed DEF CompactionInv, TypesInv
<1>1. /\ Flush' = Flush /\ Erased' = Erased /\ MaxPuts' = MaxPuts /\ MaxOutputs' = MaxOutputs /\ MaxFaults' = MaxFaults
      /\ Data' = Data /\ ManifestType' = ManifestType /\ SweepType' = SweepType
  BY <1>0, SitePrimes
<1>2. MaxPuts \in Nat /\ MaxFaults \in Nat /\ Data = Flush \cup File /\ site.compactors \subseteq Compactor
  BY <1>0, Constants
<1>3. ASSUME NEW f \in Flush, PutFlush(f) PROVE TypesInv'
  <2>1. puts' \in [Flush -> 0 .. MaxPuts]
    BY <1>0, <1>2, <1>3 DEF PutFlush, TypesInv
  <2>2. objects' \subseteq Data
    BY <1>0, <1>2, <1>3 DEF PutFlush, TypesInv
  <2> QED
    BY <1>0, <1>1, <1>3, <2>1, <2>2 DEF PutFlush, TypesInv
<1>4. CASE RequestErasure
  BY <1>0, <1>1, <1>4 DEF RequestErasure, TypesInv
<1>5. ASSUME NEW c \in site.compactors, Sweep(c) \/ Kill(c) PROVE TypesInv'
  <2>1. PICK r : Step(c, r) /\ Moves(c, r)
    BY <1>5, SweepMoves
  <2>2. UNCHANGED <<site, puts>> /\ (faults' = faults \/ Fault) /\ (marker' = marker \/ marker' = "tuples")
    BY <1>5, SweepMoves
  <2>3. /\ r \in SweepType /\ objects' \subseteq Data /\ manifest' \in ManifestType
        /\ serial' \in 0 .. MaxOutputs /\ due' \subseteq Erased
    BY <2>1, MovesTyped
  <2>4. comp' \in [Compactor -> SweepType]
    BY <1>0, <1>2, <2>1, <2>3, StepTyped
  <2>5. faults' \in 0 .. MaxFaults
    BY <1>0, <1>2, <2>2 DEF TypesInv, Fault
  <2> QED
    BY <1>0, <1>1, <2>2, <2>3, <2>4, <2>5 DEF TypesInv
<1>6. CASE UNCHANGED vars
  BY <1>0, <1>1, <1>6 DEF vars, TypesInv
<1> QED
  BY <1>3, <1>4, <1>5, <1>6 DEF Next

\* A commit that wins replaces the manifest its sweep read, whatever the store.
LEMMA WinnersAreCurrent ==
    ASSUME CompactionInv, NEW c \in Compactor, comp[c].pc = "commit", Wins(c)
    PROVE  comp[c].base = manifest
  BY DEF CompactionInv, NameInv, Wins

LEMMA ManifestFields ==
    ASSUME site \in Sites, NEW m \in ManifestType
    PROVE  /\ m.generation \in 0 .. MaxOutputs /\ m.generation \in Int /\ m.files \subseteq File /\ m.consumed \subseteq Flush
           /\ \A x \in m.files : x.g \in Int /\ x.g >= 1 /\ x.n \in Int /\ x.rows \subseteq Flush
           /\ WellFormed(m) => \A x \in m.files : m.files = {x} /\ x.g = m.generation
                                  /\ x.rows \subseteq m.consumed /\ m.consumed \ Erased \subseteq x.rows
           /\ WellFormed(m) /\ m.generation = 0 => m = NoManifest
           /\ WellFormed(m) /\ m # NoManifest => \E x : m.files = {x}
<1>1. m.generation \in 0 .. MaxOutputs /\ m.files \subseteq File /\ m.consumed \subseteq Flush /\ MaxOutputs \in Nat
  BY Constants DEF ManifestType
<1>2. \A x \in File : x.g \in Int /\ x.g >= 1 /\ x.n \in Int /\ x.rows \subseteq Flush
  BY <1>1 DEF File
<1>3. ASSUME WellFormed(m), NEW x \in m.files
      PROVE  m.files = {x} /\ x.g = m.generation /\ x.rows \subseteq m.consumed /\ m.consumed \ Erased \subseteq x.rows
  <2>1. m # NoManifest
    BY <1>3 DEF NoManifest
  <2>2. PICK y \in m.files : Holds(m, y)
    BY <1>3, <2>1 DEF WellFormed
  <2> QED
    BY <1>3, <2>2 DEF Holds
<1>4. ASSUME WellFormed(m), m # NoManifest PROVE m.generation # 0 /\ \E x : m.files = {x}
  BY <1>1, <1>2, <1>4 DEF WellFormed, Holds
<1> QED
  BY <1>1, <1>2, <1>3, <1>4

LEMMA FileFields ==
    ASSUME site \in Sites
    PROVE  /\ \A x \in File : x.g \in Int /\ x.g >= 1 /\ x.n \in Int /\ x.rows \subseteq Flush /\ x \notin Flush
           /\ \A x \in Data : x \notin Flush => x \in File
<1>1. MaxOutputs \in Nat /\ Data = Flush \cup File /\ Flush \cap File = {}
  BY Constants
<1> QED
  BY <1>1 DEF File

\* What no step takes back.
Grows ==
    /\ site' = site /\ serial <= serial' /\ Published \subseteq Published'
    /\ manifest.consumed \subseteq manifest'.consumed /\ Gone \subseteq Gone'
    /\ \/ manifest' = manifest
       \/ manifest.generation < manifest'.generation /\ \A x \in manifest'.files : x.g > manifest.generation

LEMMA CommitGrows ==
    ASSUME CompactionInv, NEW c \in Compactor, comp[c].pc = "commit", Wins(c), manifest' = NextManifest(c)
    PROVE  /\ manifest.generation < manifest'.generation /\ manifest'.files = {comp[c].output}
           /\ manifest'.generation = comp[c].output.g /\ comp[c].output.g = manifest.generation + 1
           /\ manifest'.consumed = manifest.consumed \cup (comp[c].inputs \cap Flush)
           /\ Gone \subseteq Gone'
<1>1. comp[c].base = manifest
  BY WinnersAreCurrent
<1>2. /\ comp[c].output.g = manifest.generation + 1
      /\ \A f \in comp[c].output.rows \cap manifest.consumed : \E x \in manifest.files : f \in x.rows
  BY <1>1 DEF CompactionInv, SweepInv, RewriteInv
<1>3. manifest.generation \in Int
  BY ManifestFields DEF CompactionInv, TypesInv
<1>4. /\ manifest'.files = {comp[c].output} /\ manifest'.generation = comp[c].output.g
      /\ manifest'.consumed = manifest.consumed \cup (comp[c].inputs \cap Flush)
  BY <1>1 DEF NextManifest
<1> QED
  BY <1>2, <1>3, <1>4 DEF Gone

LEMMA NextGrows ==
    ASSUME CompactionInv, [Next]_vars
    PROVE  Grows
<1>0. /\ TypesInv /\ site' = site /\ site \in Sites /\ Flush' = Flush /\ serial \in Int
      /\ puts \in [Flush -> 0 .. MaxPuts] /\ MaxPuts \in Nat
  BY SiteFixed, SitePrimes, Constants DEF CompactionInv, TypesInv
<1>1. CASE UNCHANGED <<manifest, serial, puts>>
  <2>1. Published' = Published /\ Gone' = Gone
    BY <1>0, <1>1 DEF Published, Gone
  <2> QED
    BY <1>0, <1>1, <2>1 DEF Grows
<1>2. ASSUME NEW f \in Flush, PutFlush(f) PROVE Grows
  <2>1. Published \subseteq Published'
    BY <1>0, <1>2 DEF Published, PutFlush
  <2>2. Gone' = Gone
    BY <1>2 DEF PutFlush, Gone
  <2> QED
    BY <1>0, <1>2, <2>1, <2>2 DEF PutFlush, Grows
<1>3. CASE RequestErasure
  BY <1>1, <1>3 DEF RequestErasure
<1>4. ASSUME NEW c \in site.compactors, Sweep(c) \/ Kill(c) PROVE Grows
  <2>1. PICK r : Step(c, r) /\ Moves(c, r)
    BY <1>4, SweepMoves
  <2>2. UNCHANGED <<site, puts>> /\ c \in Compactor
    BY <1>0, <1>4, SweepMoves, Constants
  <2>3. CASE Commits(c, r)
    <3>1. /\ manifest.generation < manifest'.generation /\ manifest'.files = {comp[c].output}
          /\ comp[c].output.g = manifest.generation + 1
          /\ manifest.consumed \subseteq manifest'.consumed /\ Gone \subseteq Gone'
      BY <2>2, <2>3, CommitGrows DEF Commits
    <3>2. manifest.generation \in Int
      BY <1>0, ManifestFields DEF TypesInv
    <3>3. Published' = Published
      BY <1>0, <2>2 DEF Published
    <3> QED
      BY <1>0, <2>3, <3>1, <3>2, <3>3 DEF Commits, Grows
  <2>4. CASE Sorts(c, r)
    <3>1. Published' = Published /\ Gone' = Gone
      BY <1>0, <2>2, <2>4 DEF Published, Gone, Sorts
    <3> QED
      BY <1>0, <2>4, <3>1 DEF Sorts, Grows
  <2>5. CASE ~ Commits(c, r) /\ ~ Sorts(c, r)
    <3>1. UNCHANGED <<manifest, serial>>
      BY <2>1, <2>5 DEF Moves, Quiet, Reads, Confirms, Puts, Loses, Deletes, Advances
    <3> QED
      BY <1>1, <2>2, <3>1
  <2> QED
    BY <2>3, <2>4, <2>5
<1>5. CASE UNCHANGED vars
  BY <1>1, <1>5 DEF vars
<1> QED
  BY <1>2, <1>3, <1>4, <1>5 DEF Next

\* What is dead stays dead.
LEMMA DeadStays ==
    ASSUME CompactionInv, Grows, TypesInv', NEW x \in Data, Dead(x)
    PROVE  Dead(x)'
<1>1. /\ Flush' = Flush /\ manifest \in ManifestType /\ manifest' \in ManifestType /\ site \in Sites
      /\ MaxOutputs \in Nat
  BY SitePrimes, Constants DEF CompactionInv, TypesInv, Grows
<1>2. manifest.generation \in Int /\ manifest'.generation \in Int
  BY <1>1 DEF ManifestType
<1>3. CASE x \in Flush
  BY <1>1, <1>3 DEF Grows, Dead
<1>4. CASE x \notin Flush
  <2>1. x.g \in Int
    BY <1>1, <1>4, FileFields
  <2> QED
    BY <1>1, <1>2, <1>4, <2>1 DEF Grows, Dead
<1> QED
  BY <1>3, <1>4

\* A sweep at rest keeps what it relies on, whatever the others do.
LEMMA SweepStays ==
    ASSUME CompactionInv, Grows, TypesInv', NEW r \in SweepType, SweepInv(r)
    PROVE  /\ BaseInv(r)' /\ RewriteInv(r)' /\ TodoInv(r)' /\ EraseInv(r)'
<1>1. /\ Flush' = Flush /\ Erased' = Erased /\ manifest \in ManifestType /\ manifest' \in ManifestType /\ site \in Sites
      /\ MaxOutputs \in Nat /\ serial \in Int /\ serial' \in Int
  BY SitePrimes, Constants DEF CompactionInv, TypesInv, Grows
<1>2. manifest.generation \in Int /\ manifest'.generation \in Int
  BY <1>1 DEF ManifestType
<1>3. /\ r.base \in ManifestType /\ r.todo \subseteq Data /\ r.before \in Int /\ r.checked \in Int
      /\ r.output.g \in Int
  <2>1. /\ r.base \in ManifestType /\ r.todo \subseteq Data /\ r.before \in 0 .. MaxOutputs
        /\ r.checked \in {Unchecked} \cup 0 .. MaxOutputs /\ r.output \in File \cup {NoFile}
    BY SweepFields
  <2> QED
    BY <1>1, <2>1 DEF Unchecked, File, NoFile
<1>4. r.base.generation \in Int
  BY <1>1, <1>3 DEF ManifestType
<1>5. BaseInv(r)'
  BY <1>1, <1>2, <1>4 DEF SweepInv, BaseInv, Grows, WellFormed, Holds
<1>6. RewriteInv(r)'
  BY <1>1, <1>3 DEF SweepInv, RewriteInv, Grows
<1>7. TodoInv(r)'
  BY <1>3, DeadStays DEF SweepInv, TodoInv
<1>8. EraseInv(r)'
  <2>1. manifest.generation < manifest'.generation \/ (manifest' = manifest /\ Scrubbed' = Scrubbed)
    BY <1>1 DEF Grows, Scrubbed
  <2> QED
    BY <1>1, <1>2, <1>3, <1>4, <2>1 DEF SweepInv, EraseInv, Grows
<1> QED
  BY <1>5, <1>6, <1>7, <1>8

LEMMA SweepNumbers ==
    ASSUME site \in Sites, NEW r \in SweepType
    PROVE  r.base.generation \in Int /\ r.before \in Int /\ r.checked \in Int /\ r.output.g \in Int
<1>1. /\ r.base \in ManifestType /\ r.before \in 0 .. MaxOutputs
      /\ r.checked \in {Unchecked} \cup 0 .. MaxOutputs /\ r.output \in File \cup {NoFile}
  BY SweepFields
<1>2. MaxOutputs \in Nat
  BY Constants
<1>3. r.base.generation \in Int
  BY <1>1, ManifestFields
<1> QED
  BY <1>1, <1>2, <1>3 DEF Unchecked, File, NoFile

LEMMA SweepFacts ==
    ASSUME CompactionInv, NEW c \in Compactor
    PROVE  /\ site \in Sites /\ manifest \in ManifestType /\ manifest.generation \in Int /\ manifest.generation >= 0
           /\ WellFormed(manifest) /\ (manifest.generation = 0 => manifest = NoManifest)
           /\ objects \subseteq Data /\ serial \in Int /\ manifest.generation <= serial
           /\ comp[c] \in SweepType /\ BaseInv(comp[c]) /\ RewriteInv(comp[c]) /\ TodoInv(comp[c]) /\ EraseInv(comp[c])
           /\ comp[c].base \in ManifestType /\ comp[c].inputs \subseteq Data /\ comp[c].todo \subseteq Data
           /\ comp[c].base.generation \in Int /\ comp[c].before \in Int /\ comp[c].checked \in Int /\ comp[c].output.g \in Int
<1>1. site \in Sites /\ manifest \in ManifestType /\ objects \subseteq Data /\ comp[c] \in SweepType /\ serial \in 0 .. MaxOutputs
  BY DEF CompactionInv, TypesInv
<1>2. WellFormed(manifest) /\ manifest.generation <= serial
  BY DEF CompactionInv, StoreInv
<1>3. BaseInv(comp[c]) /\ RewriteInv(comp[c]) /\ TodoInv(comp[c]) /\ EraseInv(comp[c])
  BY DEF CompactionInv, SweepInv
<1>4. MaxOutputs \in Nat
  BY <1>1, Constants
<1>5. manifest.generation \in 0 .. MaxOutputs /\ (manifest.generation = 0 => manifest = NoManifest)
  BY <1>1, <1>2, ManifestFields
<1>6. comp[c].base \in ManifestType /\ comp[c].inputs \subseteq Data /\ comp[c].todo \subseteq Data
  BY <1>1, SweepFields
<1>7. comp[c].base.generation \in Int /\ comp[c].before \in Int /\ comp[c].checked \in Int /\ comp[c].output.g \in Int
  BY <1>1, SweepNumbers
<1>8. serial \in Int /\ manifest.generation \in Int /\ manifest.generation >= 0
  BY <1>1, <1>4, <1>5
<1> QED
  BY <1>1, <1>2, <1>3, <1>5, <1>6, <1>7, <1>8

\* A sweep that starts over relies on nothing.
LEMMA RewoundHolds ==
    ASSUME CompactionInv, NEW c \in Compactor, NEW r, Rewound(r)
    PROVE  SweepInv(r)
<1>1. /\ manifest.generation \in Int /\ manifest.generation >= 0 /\ WellFormed(manifest)
      /\ (manifest.generation = 0 => manifest = NoManifest)
  BY SweepFacts
<1>2. r.base = NoManifest /\ r.before = 0 /\ r.pc \in {"idle", "gc_read", "erase", "before"}
  BY DEF Rewound, Idle
<1>3. BaseInv(r)
  BY <1>1, <1>2 DEF BaseInv, WellFormed, NoManifest
<1>4. RewriteInv(r) /\ TodoInv(r)
  BY <1>2 DEF RewriteInv, TodoInv
<1>5. EraseInv(r)
  BY <1>1, <1>2 DEF EraseInv
<1> QED
  BY <1>3, <1>4, <1>5 DEF SweepInv

\* What a sweep reads, lists and plans to delete.
LEMMA ReadsHold ==
    ASSUME CompactionInv, NEW c \in Compactor, NEW r, Reads(c, r)
    PROVE  SweepInv(r)
<1> DEFINE o == comp[c]
<1>0. /\ site \in Sites /\ manifest \in ManifestType /\ manifest.generation \in Int /\ manifest.generation >= 0
      /\ WellFormed(manifest) /\ objects \subseteq Data
      /\ o \in SweepType /\ BaseInv(o) /\ EraseInv(o)
      /\ o.base \in ManifestType /\ o.base.generation \in Int /\ o.before \in Int
  BY SweepFacts
<1>1. CASE o.pc = "idle"
  <2>1. r.base = o.base /\ r.before = o.before /\ r.pc \in {"read", "gc_read", "erase"}
    BY <1>0, <1>1 DEF Reads, SweepType
  <2> QED
    BY <1>0, <2>1 DEF SweepInv, BaseInv, RewriteInv, TodoInv, EraseInv
<1>2. CASE o.pc \in {"read", "gc_read"}
  <2>1. r.base = manifest /\ r.before = o.before /\ r.pc \in {"list", "gc_list"}
    BY <1>0, <1>2 DEF Reads, SweepType
  <2> QED
    BY <1>0, <2>1 DEF SweepInv, BaseInv, RewriteInv, TodoInv, EraseInv
<1>3. CASE o.pc = "list"
  <2>1. r.base = o.base /\ r.before = o.before /\ r.pc = "sort" /\ r.inputs = LiveKeys(o.base, objects)
    BY <1>0, <1>3 DEF Reads, SweepType
  <2>2. r.inputs \ Flush = r.base.files /\ r.inputs \cap r.base.consumed = {}
    BY <1>0, <2>1, LiveTyped
  <2> QED
    BY <1>0, <2>1, <2>2 DEF SweepInv, BaseInv, RewriteInv, TodoInv, EraseInv
<1>4. CASE o.pc = "gc_list"
  <2>1. r.base = o.base /\ r.before = o.before /\ r.pc = "gc" /\ r.todo = {x \in objects : IsOrphan(o.base, x)}
    BY <1>0, <1>4 DEF Reads, SweepType
  <2>2. ASSUME NEW x \in r.todo PROVE Dead(x)
    <3>1. x \in Data /\ IsOrphan(o.base, x)
      BY <1>0, <2>1, <2>2
    <3>2. CASE x \in Flush
      BY <1>0, <3>1, <3>2 DEF IsOrphan, Dead, BaseInv
    <3>3. CASE x \notin Flush
      <4>1. x.g \in Int /\ x.g <= o.base.generation /\ x \notin o.base.files
        BY <1>0, <3>1, <3>3, FileFields DEF IsOrphan
      <4>2. \A y \in manifest.files : y.g = manifest.generation
        BY <1>0, ManifestFields
      <4> QED
        BY <1>0, <3>3, <4>1, <4>2 DEF Dead, BaseInv
    <3> QED
      BY <3>2, <3>3
  <2> QED
    BY <1>0, <2>1, <2>2 DEF SweepInv, BaseInv, RewriteInv, TodoInv, EraseInv
<1>5. CASE o.pc = "before"
  <2>1. r.base = o.base /\ r.before = manifest.generation /\ r.pc = "read"
    BY <1>0, <1>5 DEF Reads, SweepType
  <2> QED
    BY <1>0, <2>1 DEF SweepInv, BaseInv, RewriteInv, TodoInv, EraseInv
<1> QED
  BY <1>1, <1>2, <1>3, <1>4, <1>5 DEF Reads

\* What a rows phase knows when it confirms and when it settles.
LEMMA ConfirmsHold ==
    ASSUME CompactionInv, NEW c \in Compactor, NEW r, Confirms(c, r)
    PROVE  SweepInv(r)
<1> DEFINE o == comp[c]
<1>0. /\ site \in Sites /\ manifest \in ManifestType /\ manifest.generation \in Int /\ manifest.generation >= 0
      /\ WellFormed(manifest) /\ (manifest.generation = 0 => manifest = NoManifest) /\ objects \subseteq Data
      /\ o \in SweepType /\ BaseInv(o) /\ EraseInv(o)
      /\ o.base \in ManifestType /\ o.base.generation \in Int /\ o.before \in Int /\ o.checked \in Int /\ o.output.g \in Int
  BY SweepFacts
<1>1. Erased \subseteq Flush /\ Published \ manifest.consumed \subseteq objects /\ o.seen \subseteq Erased
  BY <1>0, Constants, SweepFields DEF CompactionInv, StoreInv
<1>2. ASSUME NEW k \in Int, NEW n, r = [Idle EXCEPT !.pc = "confirm", !.checked = k, !.round = n],
             k <= manifest.generation, k = manifest.generation => Scrubbed
      PROVE  SweepInv(r)
  <2>1. r.base = NoManifest /\ r.before = 0 /\ r.pc = "confirm" /\ r.checked = k
    BY <1>2 DEF Idle
  <2>2. BaseInv(r)
    BY <1>0, <2>1 DEF BaseInv, WellFormed, NoManifest
  <2> QED
    BY <1>0, <1>2, <2>1, <2>2 DEF SweepInv, RewriteInv, TodoInv, EraseInv
<1>3. CASE r = [Idle EXCEPT !.pc = "confirm"]
  <2>1. r.base = NoManifest /\ r.before = 0 /\ r.pc = "confirm" /\ r.checked = -1
    BY <1>3 DEF Idle, Unchecked
  <2>2. BaseInv(r)
    BY <1>0, <2>1 DEF BaseInv, WellFormed, NoManifest
  <2> QED
    BY <1>0, <2>1, <2>2 DEF SweepInv, RewriteInv, TodoInv, EraseInv
<1>4. CASE /\ o.pc = "list" /\ LiveKeys(o.base, objects) = {}
           /\ r = [Idle EXCEPT !.pc = "confirm", !.checked = o.before, !.round = o.round]
  <2>1. o.before <= manifest.generation /\ o.before <= o.base.generation
    BY <1>0, <1>4 DEF EraseInv
  <2>2. ASSUME o.before = manifest.generation PROVE Scrubbed
    <3>1. o.base = manifest
      BY <1>0, <2>1, <2>2 DEF BaseInv
    <3>2. manifest.files = {}
      BY <1>4, <3>1 DEF LiveKeys
    <3> QED
      BY <3>2 DEF Scrubbed
  <2> QED
    BY <1>0, <1>2, <1>4, <2>1, <2>2
<1>5. CASE /\ o.pc = "clean" /\ o.drop
           /\ r = [Idle EXCEPT !.pc = "confirm", !.checked = o.output.g, !.round = o.round]
  <2>1. o.output.g <= manifest.generation /\ (o.output.g = manifest.generation => Scrubbed)
    BY <1>0, <1>5 DEF EraseInv
  <2> QED
    BY <1>0, <1>2, <1>5, <2>1
<1>6. ASSUME NEW p \in {"check", "advance"}, o.pc = "confirm", p = "advance" => ~ Exists,
             r = [o EXCEPT !.pc = p, !.todo = objects \cap Flush, !.seen = Published \cap Erased]
      PROVE  SweepInv(r)
  <2>1. /\ r.base = o.base /\ r.before = o.before /\ r.pc = p /\ r.checked = o.checked
        /\ r.todo = objects \cap Flush /\ r.seen = Published \cap Erased
    BY <1>0, <1>6 DEF SweepType
  <2>2. r.seen \subseteq r.todo \cup manifest.consumed
    BY <1>1, <2>1
  <2>3. p = "advance" => r.seen \subseteq Gone
    <3>1. ~ Exists => Published = {}
      BY <1>1 DEF Exists, NoManifest
    <3> QED
      BY <1>6, <2>1, <3>1
  <2> QED
    BY <1>0, <1>6, <2>1, <2>2, <2>3 DEF SweepInv, BaseInv, RewriteInv, TodoInv, EraseInv
<1>7. CASE o.pc = "check" /\ Settled(c) /\ r = [o EXCEPT !.pc = "advance"]
  <2>1. r.base = o.base /\ r.before = o.before /\ r.pc = "advance" /\ r.seen = o.seen
    BY <1>0, <1>7 DEF SweepType
  <2>2. o.seen \subseteq o.todo \cup manifest.consumed /\ Scrubbed
    BY <1>0, <1>7 DEF EraseInv, Settled
  <2>3. o.seen \subseteq manifest.consumed
    BY <1>1, <1>7, <2>2 DEF Settled, LiveKeys
  <2>4. r.seen \subseteq Gone
    BY <1>1, <2>1, <2>2, <2>3 DEF Scrubbed, Gone
  <2> QED
    BY <1>0, <2>1, <2>4 DEF SweepInv, BaseInv, RewriteInv, TodoInv, EraseInv
<1>8. CASE o.pc = "check" /\ r = [o EXCEPT !.pc = "before", !.round = o.round + 1, !.todo = {}]
  <2>1. r.base = o.base /\ r.before = o.before /\ r.pc = "before"
    BY <1>0, <1>8 DEF SweepType
  <2> QED
    BY <1>0, <2>1 DEF SweepInv, BaseInv, RewriteInv, TodoInv, EraseInv
<1> QED
  BY <1>3, <1>4, <1>5, <1>6, <1>7, <1>8 DEF Confirms

\* The steps that write but leave the manifest.
LEMMA WritesHold ==
    ASSUME CompactionInv, NEW c \in Compactor, NEW r, Puts(c, r) \/ Loses(c, r) \/ Deletes(c, r)
    PROVE  SweepInv(r)
<1> DEFINE o == comp[c]
<1>0. o \in SweepType /\ BaseInv(o) /\ RewriteInv(o) /\ TodoInv(o) /\ EraseInv(o)
  BY SweepFacts
<1>1. CASE Puts(c, r)
  <2>1. /\ o.pc = "put" /\ r.pc = "commit" /\ r.base = o.base /\ r.inputs = o.inputs /\ r.output = o.output
        /\ r.drop = o.drop /\ r.before = o.before
    BY <1>0, <1>1 DEF Puts, SweepType
  <2> QED
    BY <1>0, <2>1 DEF SweepInv, BaseInv, RewriteInv, TodoInv, EraseInv
<1>2. CASE Loses(c, r)
  <2>1. r.pc = "discard" /\ r.base = o.base /\ r.before = o.before
    BY <1>0, <1>2 DEF Loses, SweepType
  <2> QED
    BY <1>0, <2>1 DEF SweepInv, BaseInv, RewriteInv, TodoInv, EraseInv
<1>3. CASE Rewound(r)
  BY <1>3, RewoundHolds
<1>4. ASSUME o.pc \in {"clean", "gc"}, NEW x \in o.todo, r = [o EXCEPT !.todo = o.todo \ {x}]
      PROVE  SweepInv(r)
  <2>1. /\ r.pc = o.pc /\ r.base = o.base /\ r.output = o.output /\ r.drop = o.drop /\ r.before = o.before
        /\ r.todo \subseteq o.todo
    BY <1>0, <1>4 DEF SweepType
  <2>2. BaseInv(r) /\ RewriteInv(r)
    BY <1>0, <1>4, <2>1 DEF BaseInv, RewriteInv
  <2>3. TodoInv(r)
    BY <1>0, <2>1 DEF TodoInv
  <2>4. EraseInv(r)
    BY <1>0, <1>4, <2>1 DEF EraseInv
  <2> QED
    BY <2>2, <2>3, <2>4 DEF SweepInv
<1> QED
  BY <1>1, <1>2, <1>3, <1>4 DEF Deletes

\* A rewrite holds the rows its inputs and its base had, and no other.
LEMMA SortsHold ==
    ASSUME CompactionInv, TypesInv', Grows, NEW c \in Compactor, NEW r \in SweepType, Sorts(c, r)
    PROVE  BaseInv(r)' /\ RewriteInv(r)' /\ TodoInv(r)' /\ EraseInv(r)'
<1> DEFINE o == comp[c]
<1>0. /\ site \in Sites /\ manifest \in ManifestType /\ manifest.generation \in Int /\ serial \in Int
      /\ manifest.generation <= serial
      /\ o \in SweepType /\ BaseInv(o) /\ RewriteInv(o) /\ EraseInv(o)
      /\ o.base \in ManifestType /\ o.base.generation \in Int /\ o.inputs \subseteq Data
  BY SweepFacts
<1>1. Flush' = Flush /\ Erased' = Erased /\ Flush \cap File = {} /\ Data = Flush \cup File /\ Erased \subseteq Flush
  BY <1>0, SitePrimes, Constants DEF Grows
<1>2. /\ o.pc = "sort" /\ r.pc = "put" /\ r.base = o.base /\ r.inputs = o.inputs /\ r.drop = o.drop /\ r.before = o.before
      /\ r.output = [g |-> o.base.generation + 1, n |-> serial + 1, rows |-> Kept(c)]
      /\ serial' = serial + 1 /\ manifest' = manifest
  BY <1>0 DEF Sorts, SweepType
<1>3. r.output.g = r.base.generation + 1 /\ r.output.rows = Kept(c) /\ r.output.g <= serial'
  BY <1>0, <1>2 DEF BaseInv
<1>4. o.inputs \ Flush = o.base.files /\ o.inputs \cap o.base.consumed = {}
  BY <1>0, <1>2 DEF RewriteInv
<1>5. \A f : f \in Kept(c) <=> /\ f \in Flush /\ (o.drop => f \notin Erased)
                               /\ f \in o.inputs \/ \E x \in o.base.files : f \in x.rows
  <2>1. \A f : f \in UNION {Rows(x) : x \in o.inputs} <=>
             (f \in Flush /\ f \in o.inputs) \/ \E x \in o.inputs : x \in File /\ f \in x.rows /\ f \in Flush
    BY <1>0, RowsTyped
  <2> QED
    BY <1>0, <1>1, <1>4, <2>1 DEF Kept
<1>6. /\ WellFormed(o.base) /\ o.base.consumed \subseteq Flush
      /\ \A x \in o.base.files : x.rows \subseteq o.base.consumed /\ o.base.consumed \ Erased \subseteq x.rows
  BY <1>0, ManifestFields DEF BaseInv
<1>7. o.base.consumed \ Erased \subseteq Kept(c)
  <2>1. CASE o.base = NoManifest
    BY <2>1 DEF NoManifest
  <2>2. CASE o.base # NoManifest
    <3>1. PICK x : x \in o.base.files
      BY <1>6, <2>2 DEF WellFormed
    <3> QED
      BY <1>5, <1>6, <3>1
  <2> QED
    BY <2>1, <2>2
<1>8. /\ Kept(c) \subseteq o.base.consumed \cup o.inputs
      /\ (o.base.consumed \cup (o.inputs \cap Flush)) \ Erased \subseteq Kept(c)
      /\ o.drop => Kept(c) \cap Erased = {}
      /\ \A f \in Kept(c) \cap o.base.consumed : \E x \in o.base.files : f \in x.rows
  BY <1>4, <1>5, <1>6, <1>7
<1>9. RewriteInv(r)'
  BY <1>1, <1>2, <1>3, <1>4, <1>8 DEF RewriteInv
<1>10. BaseInv(r)'
  BY <1>0, <1>1, <1>2 DEF BaseInv, WellFormed, Holds
<1>11. TodoInv(r)' /\ EraseInv(r)'
  BY <1>0, <1>2 DEF TodoInv, EraseInv
<1> QED
  BY <1>9, <1>10, <1>11

\* A won commit kills its inputs, and scrubs the partition if it drops rows.
LEMMA CommitsHold ==
    ASSUME CompactionInv, TypesInv', Grows, NEW c \in Compactor, NEW r \in SweepType, Commits(c, r)
    PROVE  BaseInv(r)' /\ RewriteInv(r)' /\ TodoInv(r)' /\ EraseInv(r)'
<1> DEFINE o == comp[c]
<1>0. /\ site \in Sites /\ manifest \in ManifestType /\ manifest.generation \in Int
      /\ o \in SweepType /\ BaseInv(o) /\ RewriteInv(o) /\ EraseInv(o) /\ o.before \in Int
      /\ o.inputs \subseteq Data /\ WellFormed(manifest)
  BY SweepFacts
<1>1. /\ manifest.generation < manifest'.generation /\ manifest'.files = {o.output}
      /\ manifest'.generation = o.output.g /\ o.output.g = manifest.generation + 1
      /\ manifest'.consumed = manifest.consumed \cup (o.inputs \cap Flush)
      /\ o.base = manifest
  BY CommitGrows, WinnersAreCurrent DEF Commits
<1>2. Flush' = Flush /\ Erased' = Erased
  BY SitePrimes DEF Grows
<1>3. CASE Rewound(r)
  <2>1. SweepInv(r)
    BY <1>3, RewoundHolds
  <2> QED
    BY <2>1, SweepStays
<1>4. CASE r = [o EXCEPT !.pc = "clean", !.todo = o.inputs]
  <2>1. /\ r.pc = "clean" /\ r.base = manifest /\ r.todo = o.inputs /\ r.before = o.before /\ r.drop = o.drop
        /\ r.output = o.output
    BY <1>0, <1>1, <1>4 DEF SweepType
  <2>2. BaseInv(r)'
    BY <1>0, <1>1, <1>2, <2>1 DEF BaseInv, WellFormed, Holds
  <2>3. RewriteInv(r)'
    BY <2>1 DEF RewriteInv
  <2>4. ASSUME NEW x \in o.inputs PROVE Dead(x)'
    <3>1. o.inputs \ Flush = manifest.files
      BY <1>0, <1>1 DEF RewriteInv, Commits
    <3>2. \A y \in manifest.files : y.g = manifest.generation
      BY <1>0, ManifestFields
    <3>3. x \notin Flush => x \in manifest.files /\ x.g < o.output.g
      BY <1>0, <1>1, <2>4, <3>1, <3>2
    <3>4. x \in Flush => x \in manifest'.consumed
      BY <1>1, <2>4
    <3>5. x \notin Flush => x.g <= manifest'.generation /\ x \notin manifest'.files
      BY <1>0, <1>1, <3>2, <3>3
    <3> QED
      BY <1>2, <3>4, <3>5 DEF Dead
  <2>5. TodoInv(r)'
    BY <2>1, <2>4 DEF TodoInv
  <2>6. EraseInv(r)'
    <3>1. o.before <= manifest'.generation
      BY <1>0, <1>1 DEF EraseInv
    <3>2. o.drop => Scrubbed'
      BY <1>0, <1>1, <1>2 DEF RewriteInv, Commits, Scrubbed
    <3> QED
      BY <1>0, <1>1, <2>1, <3>1, <3>2 DEF EraseInv
  <2> QED
    BY <2>2, <2>3, <2>5, <2>6
<1> QED
  BY <1>3, <1>4 DEF Commits

LEMMA MovedHolds ==
    ASSUME CompactionInv, TypesInv', Grows, NEW c \in Compactor, NEW r \in SweepType, Moves(c, r)
    PROVE  BaseInv(r)' /\ RewriteInv(r)' /\ TodoInv(r)' /\ EraseInv(r)'
<1>1. CASE Rewound(r) \/ Reads(c, r) \/ Confirms(c, r) \/ Puts(c, r) \/ Loses(c, r) \/ Deletes(c, r)
  <2>1. SweepInv(r)
    BY <1>1, RewoundHolds, ReadsHold, ConfirmsHold, WritesHold
  <2> QED
    BY <2>1, SweepStays
<1>2. CASE Advances(c, r)
  BY <1>1, <1>2 DEF Advances
<1>3. CASE Sorts(c, r)
  BY <1>3, SortsHold
<1>4. CASE Commits(c, r)
  BY <1>4, CommitsHold
<1> QED
  BY <1>1, <1>2, <1>3, <1>4 DEF Moves

\* Every sweep keeps what it relies on.
LEMMA SweepStep ==
    ASSUME CompactionInv, [Next]_vars
    PROVE  \A d \in Compactor : SweepInv(comp[d])'
<1>0. Grows /\ TypesInv' /\ TypesInv /\ site \in Sites /\ site.compactors \subseteq Compactor
  BY NextGrows, TypesStep, Constants DEF CompactionInv, TypesInv
<1> SUFFICES ASSUME NEW d \in Compactor PROVE SweepInv(comp[d])'
  OBVIOUS
<1>1. PICK q : q = comp'[d]
  OBVIOUS
<1> SUFFICES BaseInv(q)' /\ RewriteInv(q)' /\ TodoInv(q)' /\ EraseInv(q)'
  BY <1>1 DEF SweepInv
<1>2. CASE comp'[d] = comp[d]
  <2>1. q \in SweepType /\ SweepInv(q)
    BY <1>0, <1>1, <1>2 DEF CompactionInv, TypesInv
  <2> QED
    BY <1>0, <2>1, SweepStays
<1>3. ASSUME NEW c \in site.compactors, Sweep(c) \/ Kill(c), comp'[d] # comp[d]
      PROVE  BaseInv(q)' /\ RewriteInv(q)' /\ TodoInv(q)' /\ EraseInv(q)'
  <2>1. PICK r : Step(c, r) /\ Moves(c, r)
    BY <1>3, SweepMoves
  <2>2. r \in SweepType
    BY <1>3, <2>1, MovesTyped
  <2>3. d = c /\ q = r
    BY <1>0, <1>1, <1>3, <2>1, <2>2, StepTyped
  <2> QED
    BY <1>0, <2>1, <2>2, <2>3, MovedHolds
<1>4. (\E f \in Flush : PutFlush(f)) \/ RequestErasure \/ UNCHANGED vars => comp' = comp
  BY DEF PutFlush, RequestErasure, vars
<1> QED
  BY <1>2, <1>3, <1>4 DEF Next

\* A file that a sweep deletes is dead, or an output its commit lost.
LEMMA DeletesAreSafe ==
    ASSUME CompactionInv, NEW c \in Compactor, NEW r, Deletes(c, r)
    PROVE  \E x \in Data : objects \ {x} \subseteq objects' /\
              (Dead(x) \/ (comp[c].pc = "discard" /\ x = comp[c].output /\ x \in File))
<1>1. comp[c].todo \subseteq Data /\ TodoInv(comp[c]) /\ site \in Sites
  BY SweepFacts
<1>2. CASE comp[c].pc = "discard" /\ objects' = objects \ {comp[c].output}
  <2>1. comp[c].output \in File
    BY <1>2 DEF CompactionInv, NameInv, Naming
  <2> QED
    BY <1>1, <1>2, <2>1, Constants
<1>3. ASSUME comp[c].pc \in {"clean", "gc"}, NEW x \in comp[c].todo, objects' \in {objects, objects \ {x}}
      PROVE  \E y \in Data : objects \ {y} \subseteq objects' /\ Dead(y)
  BY <1>1, <1>3 DEF TodoInv
<1> QED
  BY <1>2, <1>3 DEF Deletes

LEMMA NumbersStay ==
    ASSUME CompactionInv, NEW d \in Compactor, Naming(comp[d])
    PROVE  /\ comp[d].output \in File /\ comp[d].output.n \in Int /\ comp[d].output.n <= serial
           /\ \A x \in manifest.files : x.n # comp[d].output.n
<1>1. /\ comp[d].output \in File /\ comp[d].output.n <= serial /\ site \in Sites
      /\ \A x \in manifest.files : x.n # comp[d].output.n
  BY DEF CompactionInv, NameInv, TypesInv
<1> QED
  BY <1>1, FileFields

LEMMA StoreStays ==
    ASSUME CompactionInv, TypesInv', Grows, manifest' = manifest, UNCHANGED puts, serial <= serial', due' \subseteq Gone,
           manifest.files \subseteq objects', (Published \ manifest.consumed) \subseteq objects',
           (objects' \cap Flush) \subseteq Published
    PROVE  StoreInv'
<1>1. Erased' = Erased /\ Flush' = Flush /\ site \in Sites
  BY SitePrimes DEF CompactionInv, TypesInv, Grows
<1>2. Published' = Published /\ Gone' = Gone
  BY <1>1 DEF Published, Gone
<1>3. /\ manifest.generation \in Int /\ serial \in Int /\ serial' \in Int
      /\ \A x \in manifest.files : x.n \in Int
  <2>1. MaxOutputs \in Nat /\ MaxOutputs' \in Nat /\ serial \in 0 .. MaxOutputs /\ serial' \in 0 .. MaxOutputs' /\ manifest \in ManifestType
    BY <1>1, Constants, SitePrimes DEF CompactionInv, TypesInv, Grows
  <2> QED
    BY <1>1, <2>1, ManifestFields
<1>4. WellFormed(manifest)'
  BY <1>1 DEF CompactionInv, StoreInv, WellFormed, Holds
<1>5. manifest.generation <= serial' /\ \A x \in manifest.files : x.n <= serial'
  BY <1>3 DEF CompactionInv, StoreInv
<1> QED
  BY <1>1, <1>2, <1>4, <1>5 DEF StoreInv

\* The manifest, its files and the flush files not yet consumed.
LEMMA StoreStep ==
    ASSUME CompactionInv, [Next]_vars
    PROVE  StoreInv'
<1>0. Grows /\ TypesInv' /\ TypesInv /\ site \in Sites /\ site.compactors \subseteq Compactor /\ serial <= serial'
  BY NextGrows, TypesStep, Constants DEF CompactionInv, TypesInv, Grows
<1>1. /\ manifest.files \subseteq objects /\ Published \ manifest.consumed \subseteq objects /\ due \subseteq Gone
      /\ objects \cap Flush \subseteq Published
  BY DEF CompactionInv, StoreInv
<1>2. CASE UNCHANGED <<objects, manifest, puts, due>>
  BY <1>0, <1>1, <1>2, StoreStays
<1>3. ASSUME NEW f \in Flush, PutFlush(f) PROVE StoreInv'
  <2>1. Erased' = Erased /\ Flush' = Flush
    BY <1>0, SitePrimes DEF Grows
  <2>2. WellFormed(manifest)'
    BY <1>3, <2>1 DEF PutFlush, CompactionInv, StoreInv, WellFormed, Holds
  <2>3. Gone' = Gone
    BY <1>3 DEF PutFlush, Gone
  <2>4. Published' \subseteq Published \cup {f}
    BY <1>0, <1>3, <2>1 DEF PutFlush, Published, TypesInv
  <2>5. Published \subseteq Published' /\ f \in Published'
    <3>1. MaxPuts \in Nat
      BY <1>0, Constants
    <3> QED
      BY <1>0, <1>3, <2>1, <3>1 DEF PutFlush, Published, TypesInv
  <2> QED
    BY <1>1, <1>3, <2>1, <2>2, <2>3, <2>4, <2>5 DEF PutFlush, CompactionInv, StoreInv
<1>4. CASE RequestErasure
  BY <1>2, <1>4 DEF RequestErasure
<1>5. ASSUME NEW c \in site.compactors, Sweep(c) \/ Kill(c) PROVE StoreInv'
  <2>1. PICK r : Step(c, r) /\ Moves(c, r)
    BY <1>5, SweepMoves
  <2>2. UNCHANGED puts /\ c \in Compactor
    BY <1>0, <1>5, SweepMoves
  <2>3. CASE UNCHANGED <<objects, manifest, due>>
    BY <1>2, <2>2, <2>3
  <2>4. CASE Puts(c, r)
    <3>1. comp[c].output \notin Flush
      BY <1>0, <2>2, <2>4, NumbersStay, FileFields DEF Puts, Naming
    <3> QED
      BY <1>0, <1>1, <2>2, <2>4, <3>1, StoreStays DEF Puts
  <2>5. CASE Deletes(c, r)
    <3>1. PICK x \in Data : /\ objects \ {x} \subseteq objects'
                            /\ Dead(x) \/ (comp[c].pc = "discard" /\ x = comp[c].output /\ x \in File)
      BY <2>2, <2>5, DeletesAreSafe
    <3>2. x \notin manifest.files
      <4>1. CASE Dead(x)
        <5>1. manifest.files \cap Flush = {}
          BY <1>0, Constants, ManifestFields DEF TypesInv
        <5> QED
          BY <4>1, <5>1 DEF Dead
      <4>2. CASE comp[c].pc = "discard" /\ x = comp[c].output
        BY <2>2, <4>2 DEF CompactionInv, NameInv, Naming
      <4> QED
        BY <3>1, <4>1, <4>2
    <3>3. x \notin Published \ manifest.consumed
      BY <1>0, <3>1, FileFields DEF Dead, Published
    <3>4. objects' \subseteq objects
      BY <2>5 DEF Deletes
    <3> QED
      BY <1>0, <1>1, <2>2, <2>5, <3>1, <3>2, <3>3, <3>4, StoreStays DEF Deletes
  <2>6. CASE Advances(c, r)
    <3>1. comp[c].seen \subseteq Gone
      BY <2>2, <2>6, SweepFacts DEF Advances, EraseInv
    <3> QED
      BY <1>0, <1>1, <2>2, <2>6, <3>1, StoreStays DEF Advances
  <2>7. CASE Commits(c, r)
    <3> DEFINE o == comp[c]
    <3>1. /\ manifest'.files = {o.output} /\ manifest'.generation = o.output.g
          /\ manifest'.consumed = manifest.consumed \cup (o.inputs \cap Flush)
          /\ Gone \subseteq Gone' /\ o.base = manifest /\ o.pc = "commit" /\ UNCHANGED <<objects, serial, due>>
      BY <2>2, <2>7, CommitGrows, WinnersAreCurrent DEF Commits
    <3>2. /\ o.output.g <= serial /\ o.output.rows \subseteq manifest.consumed \cup o.inputs
          /\ (manifest.consumed \cup (o.inputs \cap Flush)) \ Erased \subseteq o.output.rows
      BY <2>2, <3>1, SweepFacts DEF RewriteInv
    <3>3. o.output \in File /\ o.output.n <= serial /\ o.output \in objects
      BY <2>2, <3>1 DEF CompactionInv, NameInv, Naming
    <3>4. o.output.rows \subseteq Flush
      BY <1>0, <3>3, FileFields
    <3>5. Erased' = Erased /\ Flush' = Flush
      BY <1>0, SitePrimes DEF Grows
    <3>6. Published' = Published
      BY <2>2, <3>5 DEF Published
    <3>7. WellFormed(manifest)'
      BY <3>1, <3>2, <3>4, <3>5 DEF WellFormed, Holds
    <3> QED
      BY <1>1, <3>1, <3>2, <3>3, <3>5, <3>6, <3>7 DEF StoreInv
  <2> QED
    BY <2>1, <2>3, <2>4, <2>5, <2>6, <2>7 DEF Moves, Quiet, Reads, Confirms, Sorts, Loses
<1>6. CASE UNCHANGED vars
  BY <1>2, <1>6 DEF vars
<1> QED
  BY <1>3, <1>4, <1>5, <1>6 DEF Next

\* What a sweep that moved has to name.
LEMMA MovedNames ==
    ASSUME CompactionInv, NEW c \in Compactor, NEW r \in SweepType, Moves(c, r)
    PROVE  /\ r.pc \in {"list", "sort", "put", "commit"} =>
                 UNCHANGED manifest /\ r.base = (IF r.pc = "list" THEN manifest ELSE comp[c].base)
                 /\ (r.pc # "list" => comp[c].pc \in {"list", "sort", "put", "commit"})
           /\ r.pc = "commit" => r.output \in objects'
           /\ Naming(r) => UNCHANGED manifest /\ (Sorts(c, r) \/ (Naming(comp[c]) /\ r.output = comp[c].output))
<1> DEFINE o == comp[c]
<1>0. o \in SweepType
  BY SweepFacts
<1>1. CASE r.pc \notin {"list", "sort", "put", "commit", "discard"}
  BY <1>1 DEF Naming
<1>2. ASSUME Rewound(r) PROVE r.pc \notin {"list", "sort", "put", "commit", "discard"}
  BY <1>2 DEF Rewound, Idle
<1>3. CASE Reads(c, r)
  <2>1. /\ UNCHANGED manifest /\ r.pc \in {"read", "gc_read", "erase", "list", "gc_list", "sort", "gc"}
        /\ (r.pc = "list" => r.base = manifest) /\ (r.pc = "sort" => r.base = o.base /\ o.pc = "list")
    BY <1>0, <1>3 DEF Reads, SweepType, Quiet
  <2> QED
    BY <2>1 DEF Naming
<1>4. CASE Confirms(c, r)
  <2>1. r.pc \in {"confirm", "check", "advance", "before"}
    BY <1>0, <1>4 DEF Confirms, SweepType, Idle
  <2> QED
    BY <1>1, <2>1
<1>5. CASE Sorts(c, r)
  <2>1. UNCHANGED manifest /\ r.pc = "put" /\ r.base = o.base /\ o.pc = "sort"
    BY <1>0, <1>5 DEF Sorts, SweepType
  <2> QED
    BY <1>5, <2>1 DEF Naming
<1>6. CASE Puts(c, r)
  <2>1. /\ UNCHANGED manifest /\ r.pc = "commit" /\ r.base = o.base /\ o.pc = "put" /\ r.output = o.output
        /\ r.output \in objects'
    BY <1>0, <1>6 DEF Puts, SweepType
  <2> QED
    BY <2>1 DEF Naming
<1>7. CASE Commits(c, r)
  <2>1. r.pc = "clean" \/ Rewound(r)
    BY <1>0, <1>7 DEF Commits, SweepType
  <2> QED
    BY <1>1, <1>2, <2>1
<1>8. CASE Loses(c, r)
  <2>1. UNCHANGED manifest /\ r.pc = "discard" /\ o.pc = "commit" /\ r.output = o.output
    BY <1>0, <1>8 DEF Loses, SweepType, Quiet
  <2> QED
    BY <2>1 DEF Naming
<1>9. CASE Deletes(c, r)
  <2>1. r.pc \in {"clean", "gc"} \/ Rewound(r)
    BY <1>0, <1>9 DEF Deletes, SweepType
  <2> QED
    BY <1>1, <1>2, <2>1
<1>10. CASE Advances(c, r) \/ (Rewound(r) /\ Quiet)
  BY <1>1, <1>2, <1>10 DEF Advances
<1> QED
  BY <1>3, <1>4, <1>5, <1>6, <1>7, <1>8, <1>9, <1>10 DEF Moves

\* No two sweeps name the same file, and none deletes the one another is
\* about to name.
LEMMA NameStep ==
    ASSUME CompactionInv, [Next]_vars
    PROVE  NameInv'
<1>0. /\ Grows /\ TypesInv' /\ TypesInv /\ site \in Sites /\ site' = site /\ site.compactors \subseteq Compactor
      /\ NameInv /\ StoreInv /\ Cas' = Cas /\ File' = File
  BY NextGrows, TypesStep, Constants, SitePrimes DEF CompactionInv, TypesInv, Grows
<1>1. CASE UNCHANGED <<comp, manifest, serial>> /\ objects \subseteq objects'
  BY <1>0, <1>1 DEF NameInv, Naming
<1>2. ASSUME NEW f \in Flush, PutFlush(f) PROVE NameInv'
  BY <1>1, <1>2 DEF PutFlush
<1>3. CASE RequestErasure
  BY <1>1, <1>3 DEF RequestErasure
<1>4. ASSUME NEW c \in site.compactors, Sweep(c) \/ Kill(c) PROVE NameInv'
  <2>1. PICK r : Step(c, r) /\ Moves(c, r)
    BY <1>4, SweepMoves
  <2>2. c \in Compactor /\ r \in SweepType
    BY <1>0, <1>4, <2>1, MovesTyped
  <2>3. comp'[c] = r /\ \A d \in Compactor : d # c => comp'[d] = comp[d]
    BY <1>0, <2>1, <2>2, StepTyped
  <2>4. serial \in Int /\ serial' \in Int /\ serial <= serial' /\ manifest.generation \in Int
    <3>1. MaxOutputs \in Nat /\ MaxOutputs' = MaxOutputs /\ manifest \in ManifestType
      BY <1>0, Constants, SitePrimes DEF TypesInv
    <3>2. serial \in 0 .. MaxOutputs /\ serial' \in 0 .. MaxOutputs
      BY <1>0, <3>1 DEF TypesInv
    <3> QED
      BY <1>0, <3>1, <3>2, ManifestFields DEF Grows
  <2>5. /\ r.pc \in {"list", "sort", "put", "commit"} =>
                 UNCHANGED manifest /\ r.base = (IF r.pc = "list" THEN manifest ELSE comp[c].base)
                 /\ (r.pc # "list" => comp[c].pc \in {"list", "sort", "put", "commit"})
        /\ r.pc = "commit" => r.output \in objects'
        /\ Naming(r) => UNCHANGED manifest /\ (Sorts(c, r) \/ (Naming(comp[c]) /\ r.output = comp[c].output))
    BY <2>1, <2>2, MovedNames
  <2>6. Sorts(c, r) => r.output \in File /\ r.output.n = serial + 1 /\ serial' = serial + 1
    <3>1. Sorts(c, r) => r.output.n = serial + 1 /\ serial' = serial + 1 /\ r.output # NoFile
      BY <2>2, <2>4, SweepFacts DEF Sorts, SweepType, NoFile
    <3> QED
      BY <2>2, <3>1, SweepFields
  <2>7. UNCHANGED manifest \/ Commits(c, r)
    BY <2>1 DEF Moves, Quiet, Reads, Confirms, Sorts, Puts, Loses, Deletes, Advances
  <2>8. Commits(c, r) => manifest'.files = {comp[c].output} /\ manifest'.generation > manifest.generation /\ Naming(comp[c])
    BY <2>2, <2>4, CommitGrows DEF Commits, Naming
  <2>9. \A x \in manifest.files : x.n \in Int /\ x.n <= serial
    BY <1>0, ManifestFields DEF TypesInv, StoreInv
  <2>10. \A d \in Compactor : d # c => /\ comp'[d] = comp[d]
                                       /\ (Naming(comp[d]) /\ Naming(comp[c]) => comp[d].output.n # comp[c].output.n)
    BY <1>0, <2>2, <2>3 DEF NameInv
  <2> SUFFICES ASSUME NEW d \in Compactor
               PROVE  /\ d \notin site.compactors => comp'[d] = Idle
                      /\ ~ Cas /\ comp'[d].pc \in {"list", "sort", "put", "commit"} => comp'[d].base = manifest'
                      /\ comp'[d].pc = "commit" /\ comp'[d].base = manifest' => comp'[d].output \in objects'
                      /\ Naming(comp'[d]) =>
                            /\ comp'[d].output \in File /\ comp'[d].output.n <= serial'
                            /\ \A x \in manifest'.files : x.n # comp'[d].output.n
                            /\ \A e \in Compactor : e # d /\ Naming(comp'[e]) => comp'[e].output.n # comp'[d].output.n
    BY <1>0 DEF NameInv, Naming
  <2>11. d \notin site.compactors => comp'[d] = Idle
    BY <1>0, <1>4, <2>3 DEF NameInv
  <2>12. ASSUME ~ Cas, comp'[d].pc \in {"list", "sort", "put", "commit"} PROVE comp'[d].base = manifest'
    <3>1. d \in site.compactors
      BY <2>11, <2>12 DEF Idle
    <3>2. d = c
      BY <1>0, <1>4, <2>12, <3>1, Constants
    <3> QED
      BY <1>0, <2>2, <2>3, <2>5, <2>12, <3>2 DEF NameInv
  <2>13. ASSUME comp'[d].pc = "commit", comp'[d].base = manifest' PROVE comp'[d].output \in objects'
    <3>1. CASE d = c
      BY <2>3, <2>5, <2>13, <3>1
    <3>2. CASE d # c
      <4>1. comp[d].pc = "commit" /\ comp[d].base = manifest' /\ comp'[d] = comp[d] /\ Naming(comp[d])
        BY <2>3, <2>13, <3>2 DEF Naming
      <4>2. comp[d].base.generation <= manifest.generation /\ comp[d].base.generation \in Int
        BY SweepFacts DEF BaseInv
      <4>3. manifest' = manifest
        BY <2>4, <2>7, <2>8, <4>1, <4>2
      <4>4. comp[d].output \in objects /\ comp[d].output \in File /\ comp[d].output.g = manifest.generation + 1
        BY <1>0, <4>1, <4>3, NumbersStay, SweepFacts DEF NameInv, RewriteInv
      <4>5. CASE Deletes(c, r)
        <5>1. PICK x \in Data : /\ objects \ {x} \subseteq objects'
                                /\ Dead(x) \/ (comp[c].pc = "discard" /\ x = comp[c].output /\ x \in File)
          BY <2>2, <4>5, DeletesAreSafe
        <5>2. ASSUME Dead(x) PROVE x # comp[d].output
          <6>1. comp[d].output \notin Flush
            BY <1>0, <4>4, FileFields
          <6> QED
            BY <2>4, <4>4, <5>2, <6>1 DEF Dead
        <5>3. comp[c].pc = "discard" => comp[c].output # comp[d].output
          BY <2>10, <3>2, <4>1 DEF Naming
        <5> QED
          BY <4>1, <4>4, <5>1, <5>2, <5>3
      <4>6. CASE ~ Deletes(c, r)
        <5>1. objects \subseteq objects'
          BY <2>1, <4>6 DEF Moves, Quiet, Reads, Confirms, Sorts, Puts, Commits, Loses, Advances
        <5> QED
          BY <4>1, <4>4, <5>1
      <4> QED
        BY <4>5, <4>6
    <3> QED
      BY <3>1, <3>2
  <2>14. ASSUME NEW e \in Compactor, Naming(comp'[e])
         PROVE  comp'[e].output \in File /\ comp'[e].output.n \in Int /\ comp'[e].output.n <= serial'
                /\ \A x \in manifest'.files : x.n # comp'[e].output.n
    <3>1. CASE e # c
      <4>1. comp'[e] = comp[e] /\ Naming(comp[e])
        BY <2>3, <2>14, <3>1
      <4>2. /\ comp[e].output \in File /\ comp[e].output.n \in Int /\ comp[e].output.n <= serial
            /\ \A x \in manifest.files : x.n # comp[e].output.n
        BY <4>1, NumbersStay
      <4> QED
        BY <2>4, <2>7, <2>8, <2>10, <3>1, <4>1, <4>2
    <3>2. CASE e = c /\ Sorts(c, r)
      BY <2>3, <2>4, <2>5, <2>6, <2>9, <2>14, <3>2
    <3>3. CASE e = c /\ ~ Sorts(c, r)
      <4>1. manifest' = manifest /\ Naming(comp[c]) /\ comp'[c].output = comp[c].output
        BY <2>3, <2>5, <2>14, <3>3
      <4>2. /\ comp[c].output \in File /\ comp[c].output.n \in Int /\ comp[c].output.n <= serial
            /\ \A x \in manifest.files : x.n # comp[c].output.n
        BY <2>2, <4>1, NumbersStay
      <4> QED
        BY <2>4, <3>3, <4>1, <4>2
    <3> QED
      BY <3>1, <3>2, <3>3
  <2>15. ASSUME NEW e \in Compactor, e # c, Naming(comp'[e]), Naming(comp'[c])
         PROVE  comp'[e].output.n # comp'[c].output.n
    <3>1. comp'[e] = comp[e] /\ Naming(comp[e]) /\ comp[e].output.n \in Int /\ comp[e].output.n <= serial
      BY <2>3, <2>15, NumbersStay
    <3>2. CASE Sorts(c, r)
      BY <2>3, <2>4, <2>6, <3>1, <3>2
    <3>3. CASE ~ Sorts(c, r)
      BY <2>3, <2>5, <2>10, <2>15, <3>1, <3>3
    <3> QED
      BY <3>2, <3>3
  <2>16. ASSUME NEW e \in Compactor, e # d, Naming(comp'[e]), Naming(comp'[d])
         PROVE  comp'[e].output.n # comp'[d].output.n
    <3>1. CASE e = c \/ d = c
      BY <2>15, <2>16, <3>1
    <3>2. CASE e # c /\ d # c
      BY <1>0, <2>3, <2>16, <3>2 DEF NameInv
    <3> QED
      BY <3>1, <3>2
  <2> QED
    BY <2>11, <2>12, <2>13, <2>14, <2>16
<1>5. CASE UNCHANGED vars
  BY <1>1, <1>5 DEF vars
<1> QED
  BY <1>2, <1>3, <1>4, <1>5 DEF Next

LEMMA CompactionInit == Init => CompactionInv
<1> SUFFICES ASSUME Init PROVE CompactionInv
  OBVIOUS
<1>1. /\ site \in Sites /\ objects = {} /\ manifest = NoManifest /\ puts = [f \in Flush |-> 0] /\ serial = 0
      /\ comp = [c \in Compactor |-> Idle] /\ marker = "none" /\ due = {} /\ faults = 0
  BY DEF Init
<1>2. MaxOutputs \in Nat /\ MaxFaults \in Nat /\ MaxPuts \in Nat
  BY <1>1, Constants
<1>3. NoManifest \in ManifestType /\ Idle \in SweepType
  BY <1>1, IdleTyped
<1>4. TypesInv
  BY <1>1, <1>2, <1>3 DEF TypesInv
<1>5. Published = {} /\ manifest.generation = 0 /\ manifest.files = {} /\ manifest.consumed = {}
  BY <1>1 DEF Published, NoManifest
<1>6. StoreInv
  BY <1>1, <1>5 DEF StoreInv, WellFormed
<1>7. Idle.pc = "idle" /\ Idle.base = NoManifest /\ Idle.before = 0
  BY DEF Idle
<1>8. SweepInv(Idle)
  BY <1>1, <1>5, <1>7 DEF SweepInv, BaseInv, RewriteInv, TodoInv, EraseInv, WellFormed
<1>9. NameInv
  BY <1>1, <1>7 DEF NameInv, Naming
<1> QED
  BY <1>1, <1>4, <1>6, <1>8, <1>9 DEF CompactionInv

LEMMA CompactionStep ==
    ASSUME CompactionInv, [Next]_vars
    PROVE  CompactionInv'
  BY TypesStep, StoreStep, SweepStep, NameStep DEF CompactionInv

\* The live files of a manifest, and the inputs of a rewrite, share no row.
LEMMA LiveDisjoint ==
    ASSUME site \in Sites, NEW m \in ManifestType, WellFormed(m), NEW X \in SUBSET Data,
           X \ Flush \subseteq m.files, X \cap m.consumed = {}
    PROVE  Disjoint(X)
<1>1. /\ Flush \cap File = {} /\ Data = Flush \cup File
  BY Constants
<1>2. \A x \in m.files : m.files = {x} /\ x.rows \subseteq m.consumed
  BY ManifestFields
<1> SUFFICES ASSUME NEW x \in X, NEW y \in X, x # y PROVE Rows(x) \cap Rows(y) = {}
  BY DEF Disjoint
<1>3. CASE x \in Flush /\ y \in Flush
  BY <1>3 DEF Rows
<1>4. CASE x \in Flush /\ y \notin Flush
  BY <1>2, <1>4 DEF Rows
<1>5. CASE x \notin Flush /\ y \in Flush
  BY <1>2, <1>5 DEF Rows
<1>6. CASE x \notin Flush /\ y \notin Flush
  BY <1>2, <1>6
<1> QED
  BY <1>3, <1>4, <1>5, <1>6

LEMMA FilesFollow == CompactionInv => FilesInv
<1> SUFFICES ASSUME CompactionInv PROVE FilesInv
  OBVIOUS
<1>1. TypesInv /\ site \in Sites /\ manifest \in ManifestType /\ Data = Flush \cup File /\ Flush \cap File = {}
  BY Constants DEF CompactionInv, TypesInv
<1>2. manifest.generation \in 0 .. MaxOutputs /\ manifest.files \subseteq Data \ Flush /\ manifest.consumed \subseteq Flush
  BY <1>1, ManifestFields
<1>3. ASSUME NEW c \in Compactor
      PROVE  /\ comp[c].inputs \cup comp[c].todo \subseteq Data /\ comp[c].round \in 0 .. Rounds
             /\ comp[c].checked \in {Unchecked} \cup 0 .. MaxOutputs
  <2>1. comp[c] \in SweepType
    BY <1>1 DEF TypesInv
  <2> QED
    BY <2>1, SweepFields
<1>4. TypeOK
  BY <1>1, <1>2, <1>3 DEF TypeOK, TypesInv
<1>5. NamedFilesExist
  <2>1. manifest.files \subseteq objects
    BY DEF CompactionInv, StoreInv
  <2>2. ASSUME NEW c \in Compactor, comp[c].pc = "commit", Wins(c) PROVE comp[c].output \in objects
    BY <2>2, WinnersAreCurrent DEF CompactionInv, NameInv
  <2> QED
    BY <2>1, <2>2 DEF NamedFilesExist
<1> QED
  BY <1>4, <1>5 DEF FilesInv

LEMMA RowsFollow == CompactionInv => RowsOnce
<1> SUFFICES ASSUME CompactionInv PROVE RowsOnce
  OBVIOUS
<1>1. /\ site \in Sites /\ manifest \in ManifestType /\ objects \in SUBSET Data /\ Data = Flush \cup File /\ Flush \cap File = {}
      /\ WellFormed(manifest) /\ manifest.files \subseteq objects /\ Published \ manifest.consumed \subseteq objects
      /\ Published \subseteq Flush
  BY Constants DEF CompactionInv, TypesInv, StoreInv, Published
<1>2. Live \in SUBSET Data /\ Live \ Flush = manifest.files /\ Live \cap manifest.consumed = {}
  BY <1>1, LiveTyped DEF Live
<1>3. Disjoint(Live)
  BY <1>1, <1>2, LiveDisjoint
<1>4. ASSUME NEW f \in Published \ Erased PROVE f \in UNION {Rows(x) : x \in Live \cap objects}
  <2>1. CASE f \in manifest.consumed
    <3>1. manifest # NoManifest
      BY <2>1 DEF NoManifest
    <3>2. PICK x : x \in manifest.files
      BY <1>1, <3>1 DEF WellFormed
    <3>3. f \in x.rows /\ x \notin Flush /\ x \in Live \cap objects
      BY <1>1, <1>2, <1>4, <2>1, <3>2, ManifestFields
    <3> QED
      BY <3>3 DEF Rows
  <2>2. CASE f \notin manifest.consumed
    <3>1. f \in Live \cap objects /\ Rows(f) = {f}
      BY <1>1, <1>4, <2>2 DEF Live, LiveKeys, Rows
    <3> QED
      BY <3>1
  <2> QED
    BY <2>1, <2>2
<1>5. ASSUME NEW c \in Compactor, comp[c].pc = "commit", Wins(c) PROVE Disjoint(comp[c].inputs)
  <2>1. comp[c].base = manifest
    BY <1>5, WinnersAreCurrent
  <2>2. /\ comp[c].inputs \in SUBSET Data /\ comp[c].inputs \ Flush \subseteq manifest.files
        /\ comp[c].inputs \cap manifest.consumed = {}
    BY <1>5, <2>1, SweepFacts DEF RewriteInv
  <2> QED
    BY <1>1, <2>2, LiveDisjoint
<1> QED
  BY <1>3, <1>4, <1>5 DEF RowsOnce

LEMMA ErasureFollows == CompactionInv => ErasedStayGone
<1> SUFFICES ASSUME CompactionInv, NEW f \in due, NEW x \in Live, f \in Rows(x) PROVE FALSE
  BY DEF ErasedStayGone
<1>1. f \in manifest.consumed /\ \A y \in manifest.files : f \notin y.rows
  BY DEF CompactionInv, StoreInv, Gone
<1>2. x \in manifest.files \/ (x \in Flush /\ x \notin manifest.consumed)
  BY DEF Live, LiveKeys
<1>3. manifest.files \cap Flush = {}
  BY Constants, ManifestFields DEF CompactionInv, TypesInv
<1> QED
  BY <1>1, <1>2, <1>3 DEF Rows

LEMMA CompactionAlways == Spec => []CompactionInv
<1>1. CompactionInv /\ [Next]_vars => CompactionInv'
  BY CompactionStep
<1> QED
  BY <1>1, CompactionInit, PTL DEF Spec

\* No clean-up, orphan pass or discarded output of any compactor, however old the
\* manifest it read, deletes a file the manifest names or that a commit about to
\* win will name (compaction/commit.rs, gc_orphans).
THEOREM FilesAreKept == Spec => []FilesInv
  BY CompactionAlways, FilesFollow, PTL

\* Whatever compactors, late and retried puts, kills and lost answers do, every
\* published row outside the erased conversation is in exactly one live file that
\* is there, and no commit merges a row twice (manifest.rs live_keys,
\* compaction/commit.rs next_manifest).
THEOREM RowsAreOnce == Spec => []RowsOnce
  BY CompactionAlways, RowsFollow, PTL

\* Once the marker says the rows are gone, no row a confirming pass had seen
\* published is live again, by a late commit or by a retried put
\* (compactor/erasure.rs, the rows phase).
THEOREM ErasureHolds == Spec => []ErasedStayGone
  BY CompactionAlways, ErasureFollows, PTL
-----------------------------------------------------------------------------
(* Queries.                                                                *)

LEMMA QueryFields ==
    ASSUME NEW q \in QueryType
    PROVE  /\ q.pc \in {"none", "list", "glob", "manifest", "resolved", "scan", "answered", "error"}
           /\ q.attempt \in 0 .. ScanAttempts /\ q.listings \in 0 .. LocalResolveAttempts
           /\ q.todo \subseteq Flush /\ q.listed \subseteq Flush /\ q.found \subseteq Data
           /\ q.files \subseteq Data /\ q.unread \subseteq Data /\ q.failed \in BOOLEAN
           /\ q.floor \subseteq Flush /\ q.asked \in Nat /\ q.number \in 0 .. MaxQueries
  BY DEF QueryType

\* What the invariants say of the numbers, whichever query they are of.
LEMMA QueryNumbers ==
    ASSUME CompactionInv, NEW q \in QueryType
    PROVE  /\ site \in Sites /\ manifest \in ManifestType /\ manifest.generation \in Int /\ manifest.generation >= 0
           /\ ScanAttempts \in Nat /\ ScanAttempts > 0 /\ LocalResolveAttempts \in Nat /\ LocalResolveAttempts > 0
           /\ q.attempt \in Int /\ q.listings \in Int /\ q.asked \in Int /\ q.asked >= 0 /\ q.failed \in BOOLEAN
           /\ q.attempt <= ScanAttempts /\ q.listings <= LocalResolveAttempts
           /\ q.failed => Spent(q) = q.asked + q.attempt + q.listings - 1
           /\ ~ q.failed => Spent(q) = q.asked + q.attempt + q.listings - 2
<1>1. /\ site \in Sites /\ manifest \in ManifestType
      /\ ScanAttempts \in Nat /\ ScanAttempts > 0 /\ LocalResolveAttempts \in Nat /\ LocalResolveAttempts > 0
  BY Constants DEF CompactionInv, TypesInv
<1>2. manifest.generation \in Int /\ manifest.generation >= 0
  BY <1>1, ManifestFields, Constants
<1>3. /\ q.attempt \in 0 .. ScanAttempts /\ q.listings \in 0 .. LocalResolveAttempts /\ q.asked \in Nat
      /\ q.failed \in BOOLEAN
  BY QueryFields
<1> QED
  BY <1>1, <1>2, <1>3 DEF Spent, Losses

\* A compactor's or a receiver's step while the query does nothing.
LEMMA QueryStays ==
    ASSUME CompactionInv, ResolveInv, TypesInv', Grows, UNCHANGED query
    PROVE  ResolveInv'
<1>1. /\ site \in Sites /\ manifest \in ManifestType /\ manifest' \in ManifestType /\ MaxOutputs \in Nat
      /\ Flush' = Flush /\ Erased' = Erased /\ Cas' = Cas /\ ScanAttempts' = ScanAttempts
      /\ LocalResolveAttempts' = LocalResolveAttempts /\ QueryType' = QueryType
  BY Constants, SitePrimes DEF CompactionInv, TypesInv, Grows
<1>2. manifest.generation \in Int /\ manifest'.generation \in Int /\ manifest.generation <= manifest'.generation
  BY <1>1 DEF ManifestType, Grows
<1>3. query \in QueryType /\ query' \in QueryType'
  BY <1>1 DEF ResolveInv
<1>4. ListInv(query)'
  BY <1>1 DEF ResolveInv, ListInv, Grows
<1>5. ScanInv(query)'
  <2>1. query.files \subseteq Data /\ query.found \subseteq Data
    BY <1>3, QueryFields
  <2>2. ASSUME NEW x \in query.files \cup query.found PROVE Resolvable(x)'
    <3>1. Resolvable(x)
      BY <2>2 DEF ResolveInv, ScanInv
    <3>2. x \notin Flush => x.g \in Int
      BY <1>1, <2>1, <2>2, FileFields
    <3> QED
      BY <1>1, <1>2, <3>1, <3>2 DEF Grows, Resolvable
  <2>3. \A x \in query.files : Dead(x) => Dead(x)'
    BY <2>1, DeadStays
  <2>4. ASSUME NEW X PROVE Whole(query, X)' <=> Whole(query, X)
    BY <1>1 DEF Whole, Disjoint, Rows
  <2>5. Whole(query, query.files)' <=> Whole(query, query.files)
    BY <2>4 DEF Whole
  <2>6. Whole(query, query.found)' <=> Whole(query, query.found)
    BY <2>4 DEF Whole
  <2> QED
    BY <1>1, <2>2, <2>3, <2>5, <2>6 DEF ResolveInv, ScanInv
<1>6. TriesInv(query)'
  <2>1. TriesInv(query) /\ Spent(query)' = Spent(query) /\ Spent(query) \in Int
    BY <1>3, QueryNumbers DEF ResolveInv, Spent, Losses
  <2>2. query.asked \in Int /\ ScanAttempts \in Int /\ LocalResolveAttempts \in Int
    BY <1>3, QueryNumbers
  <2>3. CASE manifest' = manifest
    BY <1>1, <2>1, <2>3 DEF TriesInv, Dead
  <2>4. CASE manifest.generation < manifest'.generation
    BY <1>1, <1>2, <2>1, <2>2, <2>4 DEF TriesInv
  <2> QED
    BY <2>3, <2>4 DEF Grows
<1> QED
  BY <1>3, <1>4, <1>5, <1>6 DEF ResolveInv

\* A file that was resolved and is gone has been replaced or consumed.
LEMMA MissingIsDead ==
    ASSUME CompactionInv, ResolveInv, NEW x \in query.files \cup query.found, x \notin objects
    PROVE  Dead(x)
<1>1. Resolvable(x)
  BY DEF ResolveInv, ScanInv
<1>2. manifest.files \subseteq objects /\ Published \ manifest.consumed \subseteq objects
  BY DEF CompactionInv, StoreInv
<1> QED
  BY <1>1, <1>2 DEF Dead, Resolvable

\* What a resolution under the manifest yields has every row it must, once.
LEMMA ResolutionIsWhole ==
    ASSUME site \in Sites, NEW m \in ManifestType, WellFormed(m), NEW L \in SUBSET Flush, NEW F \in SUBSET Flush,
           F \subseteq L \cup m.consumed
    PROVE  /\ LiveKeys(m, L) \in SUBSET Data /\ Disjoint(LiveKeys(m, L))
           /\ F \ Erased \subseteq UNION {Rows(x) : x \in LiveKeys(m, L)}
           /\ \A x \in LiveKeys(m, L) : IF x \in Flush THEN x \in L ELSE x.g = m.generation
           /\ \A x \in LiveKeys(m, L) : IF x \in Flush THEN x \notin m.consumed ELSE x \in m.files
<1>1. Flush \cap File = {} /\ Data = Flush \cup File /\ L \in SUBSET Data
  BY Constants
<1>2. /\ LiveKeys(m, L) \in SUBSET Data /\ LiveKeys(m, L) \ Flush = m.files /\ LiveKeys(m, L) \cap m.consumed = {}
  BY <1>1, LiveTyped
<1>3. Disjoint(LiveKeys(m, L))
  BY <1>2, LiveDisjoint
<1>4. ASSUME NEW f \in F \ Erased PROVE f \in UNION {Rows(x) : x \in LiveKeys(m, L)}
  <2>1. CASE f \in m.consumed
    <3>1. m # NoManifest
      BY <2>1 DEF NoManifest
    <3>2. PICK x : x \in m.files
      BY <3>1 DEF WellFormed
    <3>3. f \in x.rows /\ x \notin Flush /\ x \in LiveKeys(m, L)
      BY <1>2, <1>4, <2>1, <3>2, ManifestFields
    <3> QED
      BY <3>3 DEF Rows
  <2>2. CASE f \notin m.consumed
    <3>1. f \in LiveKeys(m, L) /\ Rows(f) = {f}
      BY <1>4, <2>2 DEF LiveKeys, Rows
    <3> QED
      BY <3>1
  <2> QED
    BY <2>1, <2>2
<1>5. \A x \in LiveKeys(m, L) : IF x \in Flush THEN x \in L ELSE x.g = m.generation
  <2>1. m.files \cap Flush = {} /\ \A x \in m.files : x.g = m.generation
    BY <1>1, ManifestFields
  <2> QED
    BY <1>2, <2>1 DEF LiveKeys
<1> QED
  BY <1>2, <1>3, <1>4, <1>5

LEMMA QuerySet ==
    ASSUME CompactionInv, NEW q \in QueryType, ListInv(q), ScanInv(q), TriesInv(q), Set(q)
    PROVE  ResolveInv'
<1>1. UNCHANGED vars /\ query' = q
  BY DEF Set
<1>2. QueryType' = QueryType /\ UNCHANGED <<site, objects, manifest, puts>>
  BY <1>1, SitePrimes DEF vars
<1>3. ListInv(query)'
  BY <1>1, <1>2 DEF ListInv, Published, Flush
<1>4. ScanInv(query)'
  BY <1>1, <1>2 DEF ScanInv, Resolvable, Whole, Published, Flush, Erased, Cas, Rows, Disjoint, ScanAttempts, Dead
<1>5. TriesInv(query)'
  BY <1>1, <1>2 DEF TriesInv, Spent, Losses, Flush, Cas, ScanAttempts, LocalResolveAttempts, Dead
<1> QED
  BY <1>1, <1>2, <1>3, <1>4, <1>5 DEF ResolveInv

LEMMA ResolveFields ==
    ASSUME NEW q \in QueryType, NEW n \in 0 .. LocalResolveAttempts
    PROVE  /\ Resolve(q, n) \in QueryType /\ Resolve(q, n).pc = "list" /\ Resolve(q, n).listings = n
           /\ Resolve(q, n).todo = Flush /\ Resolve(q, n).listed = {} /\ Resolve(q, n).found = {}
           /\ Resolve(q, n).files = q.files /\ Resolve(q, n).failed = q.failed
           /\ Resolve(q, n).attempt = q.attempt /\ Resolve(q, n).floor = q.floor /\ Resolve(q, n).asked = q.asked
  BY DEF Resolve, QueryType

\* Whatever made it start, a listing starts from what is known then.
LEMMA RestartStep ==
    ASSUME CompactionInv, NEW q \in QueryType, NEW n \in Int, n >= 1, n <= LocalResolveAttempts,
           Set(Resolve(q, n)), q.floor \subseteq Published, \A x \in q.files : Resolvable(x), q.attempt >= 1,
           q.failed => /\ q.attempt < ScanAttempts /\ \E x \in q.files : Dead(x)
                       /\ q.asked + q.attempt + n - 1 <= manifest.generation,
           ~ q.failed => q.asked + q.attempt + n - 2 <= manifest.generation
    PROVE  ResolveInv'
<1>0. LocalResolveAttempts \in Nat /\ q.floor \subseteq Flush
  BY QueryNumbers, QueryFields
<1>1. PICK k : k = Resolve(q, n)
  OBVIOUS
<1>2. /\ k \in QueryType /\ k.pc = "list" /\ k.listings = n /\ k.todo = Flush /\ k.listed = {} /\ k.found = {}
      /\ k.files = q.files /\ k.failed = q.failed /\ k.attempt = q.attempt /\ k.floor = q.floor /\ k.asked = q.asked
  BY <1>0, <1>1, ResolveFields
<1>3. ListInv(k)
  BY <1>0, <1>2 DEF ListInv
<1>4. ScanInv(k)
  BY <1>2 DEF ScanInv
<1>5. TriesInv(k)
  <2>1. /\ k.failed \in BOOLEAN /\ k.attempt \in Int /\ k.listings \in Int /\ k.asked \in Int /\ manifest.generation \in Int
        /\ k.failed => Spent(k) = k.asked + k.attempt + k.listings - 1
        /\ ~ k.failed => Spent(k) = k.asked + k.attempt + k.listings - 2
    BY <1>2, QueryNumbers
  <2>2. Spent(k) <= manifest.generation
    BY <1>2, <2>1
  <2> QED
    BY <1>2, <2>2 DEF TriesInv
<1> QED
  BY <1>1, <1>2, <1>3, <1>4, <1>5, QuerySet

LEMMA AskStep ==
    ASSUME CompactionInv, ResolveInv, Ask
    PROVE  ResolveInv'
<1>0. query \in QueryType
  BY DEF ResolveInv
<1>1. /\ site \in Sites /\ ScanAttempts \in Nat /\ ScanAttempts > 0 /\ MaxQueries \in Nat /\ Published \subseteq Flush
      /\ LocalResolveAttempts \in Nat /\ LocalResolveAttempts > 0
      /\ manifest.generation \in Int /\ manifest.generation >= 0
  BY <1>0, Constants, QueryNumbers DEF CompactionInv, TypesInv, Published
<1>2. query.number + 1 \in 0 .. MaxQueries
  BY <1>0, <1>1, QueryFields DEF Ask
<1>3. PICK q : q = [NoQuery EXCEPT !.attempt = 1, !.floor = Published, !.asked = manifest.generation,
                                   !.number = query.number + 1]
  OBVIOUS
<1>4. /\ q \in QueryType /\ q.files = {} /\ q.failed = FALSE /\ q.floor = Published /\ q.attempt = 1
      /\ q.asked = manifest.generation
  <2>1. NoQuery \in QueryType /\ NoQuery.files = {} /\ NoQuery.failed = FALSE
    BY <1>1 DEF NoQuery, QueryType
  <2>2. 1 \in 0 .. ScanAttempts /\ manifest.generation \in Nat
    BY <1>1
  <2> QED
    BY <1>1, <1>2, <1>3, <2>1, <2>2 DEF QueryType
<1>5. Set(Resolve(q, 1))
  BY <1>3 DEF Ask
<1> QED
  BY <1>1, <1>4, <1>5, RestartStep

LEMMA ListStep ==
    ASSUME CompactionInv, ResolveInv, ListEntry \/ EndListing
    PROVE  ResolveInv'
<1>0. /\ query \in QueryType /\ ListInv(query) /\ ScanInv(query) /\ TriesInv(query) /\ query.pc = "list"
      /\ site \in Sites /\ Published \ manifest.consumed \subseteq objects /\ objects \cap Flush \subseteq Published
  BY DEF ResolveInv, ListEntry, EndListing, CompactionInv, TypesInv, StoreInv
<1>01. /\ query.files \subseteq Data /\ query.todo \subseteq Flush /\ query.listed \subseteq Flush /\ query.floor \subseteq Flush
  BY <1>0, QueryFields
<1>1. ASSUME NEW f \in query.todo, NEW k,
             k = [query EXCEPT !.todo = query.todo \ {f}, !.listed = IF f \in objects THEN query.listed \cup {f} ELSE query.listed],
             Set(k)
      PROVE  ResolveInv'
  <2>1. /\ k.pc = "list" /\ k.todo = query.todo \ {f} /\ k.listed = IF f \in objects THEN query.listed \cup {f} ELSE query.listed
        /\ k.files = query.files /\ k.unread = query.unread /\ k.failed = query.failed /\ k.attempt = query.attempt
        /\ k.floor = query.floor /\ k.found = query.found /\ k.asked = query.asked /\ k.listings = query.listings
    BY <1>0, <1>1 DEF QueryType
  <2>2. k \in QueryType
    BY <1>0, <1>01, <1>1 DEF QueryType
  <2>3. ListInv(k)
    BY <1>0, <1>01, <1>1, <2>1 DEF ListInv
  <2>4. ScanInv(k)
    BY <1>0, <2>1 DEF ScanInv
  <2>5. TriesInv(k)
    BY <1>0, <2>1 DEF TriesInv, Spent, Losses
  <2> QED
    BY <1>1, <2>2, <2>3, <2>4, <2>5, QuerySet
<1>2. ASSUME EndListing, NEW k, k = [query EXCEPT !.pc = IF Cas /\ manifest = NoManifest THEN "glob" ELSE "manifest"], Set(k)
      PROVE  ResolveInv'
  <2>1. /\ k.pc = (IF Cas /\ manifest = NoManifest THEN "glob" ELSE "manifest") /\ k.todo = query.todo /\ k.listed = query.listed
        /\ k.files = query.files /\ k.unread = query.unread /\ k.failed = query.failed /\ k.attempt = query.attempt
        /\ k.floor = query.floor /\ query.todo = {} /\ k.found = query.found /\ k.asked = query.asked
        /\ k.listings = query.listings
    BY <1>0, <1>2 DEF QueryType, EndListing
  <2>2. k \in QueryType
    BY <1>0, <1>2 DEF QueryType
  <2>3. /\ query.attempt >= 1 /\ query.listings >= 1 /\ Spent(query) <= manifest.generation
        /\ query.attempt \in Int /\ query.listings \in Int /\ query.asked \in Int /\ query.asked >= 0
        /\ query.failed \in BOOLEAN /\ manifest.generation \in Int
        /\ query.failed => Spent(query) = query.asked + query.attempt + query.listings - 1
        /\ ~ query.failed => Spent(query) = query.asked + query.attempt + query.listings - 2
    BY <1>0, QueryNumbers DEF TriesInv
  <2>4. manifest = NoManifest => Spent(query) = 0 /\ ~ query.failed
    <3>1. manifest = NoManifest => manifest.generation = 0
      BY DEF NoManifest
    <3> QED
      BY <2>3, <3>1
  <2>5. ListInv(k)
    BY <1>0, <2>1, <2>4 DEF ListInv, NoManifest
  <2>6. ScanInv(k)
    BY <1>0, <2>1 DEF ScanInv
  <2>7. TriesInv(k)
    <3>1. Spent(k) = Spent(query)
      BY <2>1 DEF Spent, Losses
    <3> QED
      BY <2>1, <2>3, <2>4, <3>1 DEF TriesInv
  <2> QED
    BY <1>2, <2>2, <2>5, <2>6, <2>7, QuerySet
<1>3. CASE ListEntry
  <2>1. PICK f \in query.todo : Set([query EXCEPT !.todo = @ \ {f}, !.listed = IF f \in objects THEN @ \cup {f} ELSE @])
    BY <1>3 DEF ListEntry
  <2>2. PICK k : k = [query EXCEPT !.todo = query.todo \ {f}, !.listed = IF f \in objects THEN query.listed \cup {f} ELSE query.listed]
    OBVIOUS
  <2> QED
    BY <1>1, <2>1, <2>2
<1>4. CASE EndListing
  <2>1. PICK k : k = [query EXCEPT !.pc = IF Cas /\ manifest = NoManifest THEN "glob" ELSE "manifest"]
    OBVIOUS
  <2> QED
    BY <1>2, <1>4, <2>1 DEF EndListing
<1> QED
  BY <1>3, <1>4

\* A resolution finds what a scan needs, and after a failed scan other files than
\* the ones that failed.
LEMMA ResolveStep ==
    ASSUME CompactionInv, ResolveInv, query.pc \in {"glob", "manifest"},
           NEW m \in ManifestType, WellFormed(m), Set(Resolved(m)),
           query.floor \subseteq query.listed \cup m.consumed, m.generation <= manifest.generation,
           m = manifest \/ (m = NoManifest /\ Spent(query) = 0 /\ ~ query.failed)
    PROVE  ResolveInv'
<1> DEFINE found == LiveKeys(m, query.listed)
<1>0. /\ query \in QueryType /\ ListInv(query) /\ ScanInv(query) /\ TriesInv(query)
      /\ query.files \subseteq Data /\ query.listed \subseteq Flush /\ query.floor \subseteq Flush
      /\ query.failed \in BOOLEAN
      /\ site \in Sites /\ m.generation \in Int /\ manifest.generation \in Int /\ manifest.generation >= 0
      /\ manifest \in ManifestType /\ WellFormed(manifest)
  BY QueryFields, QueryNumbers, ManifestFields DEF ResolveInv, CompactionInv, StoreInv
<1>1. /\ found \in SUBSET Data /\ Disjoint(found) /\ query.floor \ Erased \subseteq UNION {Rows(x) : x \in found}
      /\ \A x \in found : IF x \in Flush THEN x \in query.listed ELSE x.g = m.generation
      /\ \A x \in found : IF x \in Flush THEN x \notin m.consumed ELSE x \in m.files
  BY <1>0, ResolutionIsWhole
<1>2. PICK q : q = Resolved(m)
  OBVIOUS
<1>3. /\ q \in QueryType /\ q.pc = "resolved" /\ q.found = found /\ q.files = query.files /\ q.listed = {}
      /\ q.unread = (IF Cas THEN {} ELSE found) /\ q.floor = query.floor /\ q.failed = query.failed
      /\ q.attempt = query.attempt /\ q.listings = query.listings /\ q.asked = query.asked
  BY <1>0, <1>1, <1>2 DEF QueryType, Resolved
<1>4. ASSUME m = manifest PROVE \A x \in found : ~ Dead(x)
  BY <1>1, <1>4 DEF Dead
<1>5. ASSUME m = NoManifest, manifest.generation = 0 PROVE m = manifest
  BY <1>0, <1>5, ManifestFields
<1> HIDE DEF found
<1>6. Spent(q) = manifest.generation => \A x \in found : ~ Dead(x)
  <2>1. Spent(q) = Spent(query)
    BY <1>3 DEF Spent, Losses
  <2> QED
    BY <1>4, <1>5, <2>1
<1>7. ListInv(q)
  BY <1>0, <1>3 DEF ListInv
<1>8. ScanInv(q)
  <2>1. \A x \in found : Resolvable(x)
    BY <1>0, <1>1 DEF ListInv, Resolvable
  <2>2. ASSUME query.failed PROVE query.attempt < ScanAttempts /\ (\E x \in query.files : Dead(x)) /\ found # query.files
    <3>1. m = manifest /\ query.pc = "manifest"
      BY <1>0, <2>2 DEF ListInv
    <3>2. query.attempt < ScanAttempts /\ (\E x \in query.files : Dead(x))
      BY <1>0, <2>2, <3>1 DEF ScanInv
    <3> QED
      BY <1>4, <3>1, <3>2
  <2>3. \A x \in query.files : Resolvable(x)
    BY <1>0 DEF ScanInv
  <2>4. Whole(q, found)
    BY <1>1, <1>3 DEF Whole
  <2> QED
    BY <1>0, <1>3, <2>1, <2>2, <2>3, <2>4 DEF ScanInv
<1>9. TriesInv(q)
  <2>1. Spent(q) = Spent(query)
    BY <1>3 DEF Spent, Losses
  <2> QED
    BY <1>0, <1>3, <1>6, <2>1 DEF TriesInv
<1> QED
  BY <1>2, <1>3, <1>7, <1>8, <1>9, QuerySet

\* The local backend finds a file gone: by a commit the query has not yet paid for.
LEMMA CanonicalizeStep ==
    ASSUME CompactionInv, ResolveInv, Canonicalize
    PROVE  ResolveInv'
<1>0. /\ query \in QueryType /\ ListInv(query) /\ ScanInv(query) /\ TriesInv(query) /\ query.pc = "resolved"
      /\ query.unread \subseteq query.found /\ (query.unread # {} => ~ Cas) /\ query.unread \subseteq Data
      /\ query.attempt >= 1 /\ query.listings >= 1 /\ Spent(query) <= manifest.generation
  BY QueryFields DEF ResolveInv, Canonicalize, ScanInv, TriesInv
<1>1. /\ manifest.generation \in Int /\ ScanAttempts \in Nat /\ LocalResolveAttempts \in Nat
      /\ query.attempt \in Int /\ query.listings \in Int /\ query.asked \in Int /\ query.failed \in BOOLEAN
      /\ query.listings <= LocalResolveAttempts
      /\ query.failed => Spent(query) = query.asked + query.attempt + query.listings - 1
      /\ ~ query.failed => Spent(query) = query.asked + query.attempt + query.listings - 2
  BY <1>0, QueryNumbers
<1>2. PICK x \in query.unread :
        Set(IF x \in objects
            THEN [query EXCEPT !.unread = @ \ {x}]
            ELSE IF query.listings < LocalResolveAttempts
            THEN Resolve(query, query.listings + 1)
            ELSE [query EXCEPT !.pc = "error"])
  BY DEF Canonicalize
<1>3. ASSUME x \notin objects PROVE Spent(query) < manifest.generation
  <2>1. Dead(x) /\ x \in query.found
    BY <1>0, <1>3, MissingIsDead
  <2>2. Spent(query) # manifest.generation
    BY <1>0, <2>1 DEF TriesInv
  <2> QED
    BY <1>0, <1>1, <2>2
<1>4. CASE x \in objects
  <2>1. PICK q : q = [query EXCEPT !.unread = query.unread \ {x}]
    OBVIOUS
  <2>2. /\ q \in QueryType /\ q.pc = "resolved" /\ q.unread = query.unread \ {x} /\ q.found = query.found
        /\ q.files = query.files /\ q.listed = query.listed /\ q.floor = query.floor /\ q.failed = query.failed
        /\ q.attempt = query.attempt /\ q.listings = query.listings /\ q.asked = query.asked
    BY <1>0, <2>1 DEF QueryType
  <2>3. ListInv(q)
    BY <1>0, <2>2 DEF ListInv
  <2>4. ScanInv(q)
    BY <1>0, <2>2 DEF ScanInv, Whole
  <2>5. TriesInv(q)
    BY <1>0, <2>2 DEF TriesInv, Spent, Losses
  <2> QED
    BY <1>2, <1>4, <2>1, <2>2, <2>3, <2>4, <2>5, QuerySet
<1>5. CASE x \notin objects /\ query.listings < LocalResolveAttempts
  <2>1. PICK n : n = query.listings + 1
    OBVIOUS
  <2>2. n \in Int /\ n >= 1 /\ n <= LocalResolveAttempts /\ Set(Resolve(query, n))
    BY <1>0, <1>1, <1>2, <1>5, <2>1
  <2>3. query.floor \subseteq Published /\ \A y \in query.files : Resolvable(y)
    BY <1>0 DEF ListInv, ScanInv
  <2>4. query.failed => query.attempt < ScanAttempts /\ \E y \in query.files : Dead(y)
    BY <1>0 DEF ScanInv
  <2>5. query.failed => query.asked + query.attempt + n - 1 <= manifest.generation
    BY <1>1, <1>3, <1>5, <2>1
  <2>6. ~ query.failed => query.asked + query.attempt + n - 2 <= manifest.generation
    BY <1>1, <1>3, <1>5, <2>1
  <2> QED
    BY <1>0, <2>2, <2>3, <2>4, <2>5, <2>6, RestartStep
<1>6. CASE x \notin objects /\ ~ (query.listings < LocalResolveAttempts)
  <2>1. PICK q : q = [query EXCEPT !.pc = "error"]
    OBVIOUS
  <2>2. /\ q \in QueryType /\ q.pc = "error" /\ q.listed = query.listed /\ q.floor = query.floor
        /\ q.files = query.files /\ q.found = query.found /\ q.listings = query.listings /\ q.asked = query.asked
    BY <1>0, <2>1 DEF QueryType
  <2>3. ListInv(q) /\ ScanInv(q)
    BY <1>0, <2>2 DEF ListInv, ScanInv
  <2>4. query.listings = LocalResolveAttempts /\ query.asked + LocalResolveAttempts <= manifest.generation
    BY <1>0, <1>1, <1>3, <1>6
  <2>5. TriesInv(q)
    BY <1>0, <2>2, <2>4 DEF TriesInv
  <2> QED
    BY <1>2, <1>6, <2>1, <2>2, <2>3, <2>5, QuerySet
<1> QED
  BY <1>4, <1>5, <1>6

\* A resolution is scanned, or shows that the file set moved.
LEMMA SettleStep ==
    ASSUME CompactionInv, ResolveInv, Settle
    PROVE  ResolveInv'
<1>0. /\ query \in QueryType /\ ListInv(query) /\ ScanInv(query) /\ TriesInv(query) /\ query.pc = "resolved"
      /\ query.attempt >= 1 /\ query.listings >= 1 /\ Spent(query) <= manifest.generation
      /\ query.found \subseteq Data
  BY QueryFields DEF ResolveInv, Settle, TriesInv
<1>1. /\ manifest.generation \in Int /\ ScanAttempts \in Nat /\ LocalResolveAttempts \in Nat /\ LocalResolveAttempts > 0
      /\ query.attempt \in Int /\ query.listings \in Int /\ query.asked \in Int /\ query.failed \in BOOLEAN
      /\ query.failed => Spent(query) = query.asked + query.attempt + query.listings - 1
  BY <1>0, QueryNumbers
<1>2. CASE ~ query.failed
  <2>1. PICK q : q = [query EXCEPT !.pc = "scan", !.files = query.found, !.unread = query.found, !.found = {}]
    OBVIOUS
  <2>2. /\ q \in QueryType /\ q.pc = "scan" /\ q.files = query.found /\ q.unread = query.found /\ q.found = {}
        /\ q.listed = query.listed /\ q.floor = query.floor /\ q.failed = query.failed
        /\ q.attempt = query.attempt /\ q.listings = query.listings /\ q.asked = query.asked
    BY <1>0, <2>1 DEF QueryType
  <2>3. ListInv(q)
    BY <1>0, <2>2 DEF ListInv
  <2>4. ScanInv(q)
    BY <1>0, <1>2, <2>2 DEF ScanInv, Whole
  <2>5. TriesInv(q)
    BY <1>0, <2>2 DEF TriesInv, Spent, Losses
  <2>6. Set(q)
    BY <1>2, <2>1 DEF Settle
  <2> QED
    BY <2>2, <2>3, <2>4, <2>5, <2>6, QuerySet
<1>3. CASE query.failed
  <2>1. query.found # query.files /\ query.attempt < ScanAttempts
    BY <1>0, <1>3 DEF ScanInv
  <2>2. PICK k : k = [query EXCEPT !.attempt = query.attempt + 1, !.failed = FALSE]
    OBVIOUS
  <2>3. query.attempt + 1 \in 0 .. ScanAttempts
    BY <1>0, <1>1, <2>1
  <2>4. /\ k \in QueryType /\ k.files = query.files /\ k.failed = FALSE /\ k.floor = query.floor
        /\ k.attempt = query.attempt + 1 /\ k.asked = query.asked
    BY <1>0, <2>2, <2>3 DEF QueryType
  <2>5. Set(Resolve(k, 1))
    BY <1>3, <2>1, <2>2 DEF Settle
  <2>6. k.floor \subseteq Published /\ \A x \in k.files : Resolvable(x)
    BY <1>0, <2>4 DEF ListInv, ScanInv
  <2>7. k.attempt >= 1 /\ k.asked + k.attempt + 1 - 2 <= manifest.generation
    BY <1>0, <1>1, <1>3, <2>4
  <2> QED
    BY <1>1, <2>4, <2>5, <2>6, <2>7, RestartStep
<1> QED
  BY <1>1, <1>2, <1>3

LEMMA OpenStep ==
    ASSUME CompactionInv, ResolveInv, Open \/ Answer
    PROVE  ResolveInv'
<1>0. /\ query \in QueryType /\ ListInv(query) /\ ScanInv(query) /\ TriesInv(query) /\ query.pc = "scan"
      /\ query.unread \subseteq query.files /\ ~ query.failed /\ query.unread \subseteq Data
      /\ query.attempt >= 1 /\ query.listings >= 1 /\ Spent(query) <= manifest.generation
  BY QueryFields DEF ResolveInv, Open, Answer, ScanInv, TriesInv
<1>01. /\ manifest.generation \in Int /\ ScanAttempts \in Nat /\ LocalResolveAttempts \in Nat /\ LocalResolveAttempts > 0
       /\ query.attempt \in Int /\ query.listings \in Int /\ query.asked \in Int
       /\ query.attempt <= ScanAttempts
       /\ Spent(query) = query.asked + query.attempt + query.listings - 2
  BY <1>0, QueryNumbers
<1>02. ASSUME NEW x \in query.unread, x \notin objects PROVE Dead(x) /\ x \in query.files /\ Spent(query) < manifest.generation
  <2>1. Dead(x) /\ x \in query.files
    BY <1>0, <1>02, MissingIsDead
  <2>2. Spent(query) # manifest.generation
    BY <1>0, <2>1 DEF TriesInv
  <2> QED
    BY <1>0, <1>01, <2>1, <2>2
<1>1. ASSUME NEW q, NEW X \in SUBSET query.unread, NEW p \in {"scan", "answered"}, Set(q),
             q = [query EXCEPT !.pc = p, !.unread = X]
      PROVE  ResolveInv'
  <2>1. /\ q.pc = p /\ q.files = query.files /\ q.unread = X /\ q.listed = query.listed /\ q.floor = query.floor
        /\ q.failed = query.failed /\ q.found = query.found /\ q.attempt = query.attempt
        /\ q.listings = query.listings /\ q.asked = query.asked
    BY <1>0, <1>1 DEF QueryType
  <2>2. q \in QueryType
    <3>1. X \in SUBSET Data
      BY <1>0, <1>1
    <3> QED
      BY <1>0, <1>1, <3>1 DEF QueryType
  <2>3. ListInv(q) /\ ScanInv(q)
    BY <1>0, <1>1, <2>1 DEF ListInv, ScanInv, Whole
  <2>4. TriesInv(q)
    BY <1>0, <1>1, <2>1 DEF TriesInv, Spent, Losses
  <2> QED
    BY <1>1, <2>2, <2>3, <2>4, QuerySet
<1>2. ASSUME NEW x \in query.unread, x \in objects, Set([query EXCEPT !.unread = @ \ {x}]) PROVE ResolveInv'
  <2>1. PICK q : q = [query EXCEPT !.pc = "scan", !.unread = query.unread \ {x}]
    OBVIOUS
  <2>2. [query EXCEPT !.unread = query.unread \ {x}] = [query EXCEPT !.pc = "scan", !.unread = query.unread \ {x}]
    BY <1>0 DEF QueryType
  <2> QED
    BY <1>1, <1>2, <2>1, <2>2
<1>3. ASSUME NEW x \in query.unread, x \notin objects, query.attempt < ScanAttempts,
             Set(Resolve([query EXCEPT !.failed = TRUE], 1))
      PROVE  ResolveInv'
  <2>1. PICK k : k = [query EXCEPT !.failed = TRUE]
    OBVIOUS
  <2>2. /\ k \in QueryType /\ k.files = query.files /\ k.failed = TRUE
        /\ k.attempt = query.attempt /\ k.floor = query.floor /\ k.asked = query.asked
    BY <1>0, <2>1 DEF QueryType
  <2>3. Dead(x) /\ x \in k.files /\ Spent(query) < manifest.generation
    BY <1>02, <1>3, <2>2
  <2>4. k.attempt >= 1 /\ k.attempt < ScanAttempts /\ k.asked + k.attempt + 1 - 1 <= manifest.generation
    BY <1>0, <1>01, <1>3, <2>2, <2>3
  <2>5. k.floor \subseteq Published /\ \A y \in k.files : Resolvable(y)
    BY <1>0, <2>2 DEF ListInv, ScanInv
  <2>6. Set(Resolve(k, 1))
    BY <1>3, <2>1
  <2> QED
    BY <1>01, <2>2, <2>3, <2>4, <2>5, <2>6, RestartStep
<1>4. ASSUME NEW x \in query.unread, x \notin objects, ~ (query.attempt < ScanAttempts), Set([query EXCEPT !.pc = "error"])
      PROVE  ResolveInv'
  <2>1. PICK q : q = [query EXCEPT !.pc = "error"]
    OBVIOUS
  <2>2. /\ q \in QueryType /\ q.pc = "error" /\ q.listed = query.listed /\ q.floor = query.floor
        /\ q.files = query.files /\ q.found = query.found /\ q.attempt = query.attempt /\ q.asked = query.asked
    BY <1>0, <2>1 DEF QueryType
  <2>3. query.attempt = ScanAttempts /\ query.asked + ScanAttempts <= manifest.generation
    BY <1>0, <1>01, <1>02, <1>4
  <2>4. ListInv(q) /\ ScanInv(q)
    BY <1>0, <2>2 DEF ListInv, ScanInv
  <2>5. TriesInv(q)
    BY <2>2, <2>3 DEF TriesInv
  <2> QED
    BY <1>4, <2>1, <2>2, <2>4, <2>5, QuerySet
<1>5. CASE Open
  <2>1. PICK x \in query.unread :
          Set(IF x \in objects
              THEN [query EXCEPT !.unread = @ \ {x}]
              ELSE IF query.attempt < ScanAttempts
              THEN Resolve([query EXCEPT !.failed = TRUE], 1)
              ELSE [query EXCEPT !.pc = "error"])
    BY <1>5 DEF Open
  <2> QED
    BY <1>2, <1>3, <1>4, <2>1
<1>6. CASE Answer
  <2>1. PICK q : q = [query EXCEPT !.pc = "answered", !.unread = query.unread]
    OBVIOUS
  <2>2. [query EXCEPT !.pc = "answered"] = [query EXCEPT !.pc = "answered", !.unread = query.unread]
    BY <1>0 DEF QueryType
  <2> QED
    BY <1>1, <1>6, <2>1, <2>2 DEF Answer
<1> QED
  BY <1>5, <1>6

LEMMA ReadStep ==
    ASSUME CompactionInv, ResolveInv, Glob \/ ReadsIt
    PROVE  ResolveInv'
<1>1. /\ site \in Sites /\ manifest \in ManifestType /\ WellFormed(manifest) /\ NoManifest \in ManifestType
      /\ manifest.generation \in Int /\ manifest.generation >= 0
  <2>1. site \in Sites /\ manifest \in ManifestType /\ WellFormed(manifest)
    BY DEF CompactionInv, TypesInv, StoreInv
  <2> QED
    BY <2>1, IdleTyped, ManifestFields, Constants
<1>2. CASE Glob
  <2>1. query.floor \subseteq query.listed \cup NoManifest.consumed /\ ~ query.failed /\ Spent(query) = 0 /\ query.pc = "glob"
    BY <1>2 DEF Glob, ResolveInv, ListInv, TriesInv
  <2>2. WellFormed(NoManifest) /\ NoManifest.generation <= manifest.generation
    BY <1>1 DEF WellFormed, NoManifest
  <2>3. PICK m : m = NoManifest
    OBVIOUS
  <2> QED
    BY <1>1, <1>2, <2>1, <2>2, <2>3, ResolveStep DEF Glob
<1>3. CASE ReadsIt
  <2>1. query.floor \subseteq query.listed \cup manifest.consumed /\ query.pc = "manifest"
    BY <1>3 DEF ReadsIt, ResolveInv, ListInv
  <2>2. PICK m : m = manifest
    OBVIOUS
  <2> QED
    BY <1>1, <1>3, <2>1, <2>2, ResolveStep DEF ReadsIt
<1> QED
  BY <1>2, <1>3

LEMMA ResolveInit == QueryInit => ResolveInv
<1> SUFFICES ASSUME QueryInit PROVE ResolveInv
  OBVIOUS
<1>1. site \in Sites /\ query = NoQuery
  BY DEF QueryInit, Init
<1>2. ScanAttempts \in Nat /\ LocalResolveAttempts \in Nat /\ MaxQueries \in Nat
  BY <1>1, Constants
<1>3. NoQuery \in QueryType
  BY <1>2 DEF NoQuery, QueryType
<1>4. ListInv(NoQuery) /\ ScanInv(NoQuery) /\ TriesInv(NoQuery)
  BY DEF NoQuery, ListInv, ScanInv, TriesInv
<1> QED
  BY <1>1, <1>3, <1>4 DEF ResolveInv

LEMMA QueryIsQuiet == [QueryNext]_allVars => [Next]_vars
  BY DEF QueryNext, Query, Ask, ListEntry, EndListing, Glob, ReadsIt, Canonicalize, Settle, Open, Answer, Set, allVars

LEMMA ResolveInvStep ==
    ASSUME CompactionInv, ResolveInv, [QueryNext]_allVars
    PROVE  ResolveInv'
<1>1. [Next]_vars
  BY QueryIsQuiet
<1>2. CASE UNCHANGED query
  BY <1>1, <1>2, NextGrows, TypesStep, QueryStays
<1>3. CASE Query
  BY <1>3, AskStep, ListStep, ReadStep, CanonicalizeStep, SettleStep, OpenStep DEF Query
<1> QED
  BY <1>2, <1>3 DEF QueryNext, allVars

\* A query only reads: a store that is queried while its compactors work behaves
\* as one that is not (querier/file_set.rs writes nothing).
THEOREM QueriesOnlyRead == QuerySpec => Spec
<1>1. QueryInit => Init
  BY DEF QueryInit
<1> QED
  BY <1>1, QueryIsQuiet, PTL DEF QuerySpec, Spec

\* Whatever commits and deletes land between its listing, its manifest read, its
\* canonicalization and its opens, an answer holds every row published before the
\* query was asked, once; and a query fails only when at least as many commits have
\* landed since as it has scan attempts, or, on a local partition, as one resolution
\* has listings (querier lib.rs execute and attempt_scan, file_set.rs resolve_local_urls).
THEOREM AnswersHold == QuerySpec => []QueryInv
<1>1. QuerySpec => []CompactionInv
  BY QueriesOnlyRead, CompactionAlways, PTL
<1>2. ResolveInv /\ CompactionInv /\ [QueryNext]_allVars => ResolveInv'
  BY ResolveInvStep
<1>3. ASSUME ResolveInv, CompactionInv PROVE QueryInv
  <2>1. AnswersAreWhole
    BY <1>3 DEF ResolveInv, ScanInv, Whole, AnswersAreWhole
  <2>2. /\ query.asked \in Int /\ manifest.generation \in Int /\ ScanAttempts \in Int /\ LocalResolveAttempts \in Int
    BY <1>3, QueryNumbers DEF ResolveInv
  <2>3. OnlyPersistentErrors
    BY <1>3, <2>2 DEF ResolveInv, TriesInv, OnlyPersistentErrors, CommitsSeen
  <2> QED
    BY <2>1, <2>3 DEF QueryInv
<1> QED
  BY <1>1, <1>2, <1>3, ResolveInit, PTL DEF QuerySpec
=============================================================================
