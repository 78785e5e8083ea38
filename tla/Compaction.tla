----------------------------- MODULE Compaction -----------------------------
(***************************************************************************)
(* One hour partition of a tenant in the object store: the flush files the *)
(* receivers put there, late ones and retried puts included, the manifest, *)
(* and the compactors whose sweeps consolidate the live files, collect the *)
(* orphans and carry out a conversation's erasure                          *)
(* (ourios-parquet/src/{manifest.rs, compaction/*} and                     *)
(* ourios-ingester/src/compactor/{mod, erasure, reclaim}.rs).              *)
(*                                                                         *)
(* A flush file is named by the row it holds: one name, one row.  A        *)
(* compacted file <uuid>.g<N>.parquet is the record of its generation, a   *)
(* serial number standing for its uuid, and its rows.  Every store request *)
(* is one step, so requests of two compactors and the receivers interleave *)
(* at will, and a compactor may be killed between any two of them.         *)
(***************************************************************************)
EXTENDS Integers, FiniteSets, FiniteSetsExt

CONSTANTS
    Name,         \* flush file names
    Compactor,    \* processes that sweep a store
    Sites         \* the partitions to consider: the store, its writers, the bounds

\* The local store has no compare-and-swap: one compactor per store
\* (commit.rs, "one compactor per local store").  A flush file's name does not
\* parse as a compacted one's.
ASSUME ConstantsAssumption ==
    /\ IsFiniteSet(Name) /\ IsFiniteSet(Compactor)
    /\ Name \cap [g : Nat, n : Nat, rows : SUBSET Name] = {}
    /\ \A s \in Sites :
          /\ s.flush \subseteq Name /\ s.erased \subseteq s.flush
          /\ s.compactors \subseteq Compactor
          /\ s.cas \in BOOLEAN
          /\ s.cas \/ Cardinality(s.compactors) = 1
          /\ {s.rounds, s.puts, s.attempts, s.listings} \subseteq Nat \ {0}
          /\ {s.outputs, s.faults, s.queries} \subseteq Nat

NoManifest == [generation |-> 0, files |-> {}, consumed |-> {}]
NoFile == [g |-> 0, n |-> 0, rows |-> {}]
Unchecked == -1

VARIABLES
    site,       \* the partition of this behaviour, one of Sites
    objects,    \* the partition's data objects: flush and compacted files
    manifest,   \* manifest.json; NoManifest while there is none
    puts,       \* how often each flush file has been put
    serial,     \* compacted files named so far
    comp,       \* each compactor's sweep in progress
    marker,     \* the erasure request's marker
    due,        \* rows the rows phase confirmed before the marker advanced
    faults

Flush == site.flush         \* flush files the receivers will put, each with its one row
Erased == site.erased       \* the rows of the conversation whose erasure is requested
Cas == site.cas             \* TRUE: the store supports If-Match (S3); FALSE: local
Rounds == site.rounds       \* CONFIRMING_ROUNDS
MaxPuts == site.puts        \* bound: puts of one flush file, retries included
MaxOutputs == site.outputs  \* bound: compacted files ever written
MaxFaults == site.faults    \* bound: kills, failed requests and lost answers

vars == <<site, objects, manifest, puts, serial, comp, marker, due, faults>>

Idle ==
    [pc |-> "idle", base |-> NoManifest, inputs |-> {}, output |-> NoFile, todo |-> {},
     drop |-> FALSE, before |-> 0, checked |-> Unchecked, round |-> 0, seen |-> {}]

Init ==
    /\ site \in Sites
    /\ objects = {} /\ manifest = NoManifest
    /\ puts = [f \in Flush |-> 0]
    /\ serial = 0
    /\ comp = [c \in Compactor |-> Idle]
    /\ marker = "none" /\ due = {}
    /\ faults = 0

-----------------------------------------------------------------------------
(* The live-set rule and the orphan rule.                                  *)

Rows(x) == IF x \in Flush THEN {x} ELSE x.rows

\* The live files a resolution of the listing L under manifest m yields: the
\* compacted files it names, by name, and the listed flush files it does not
\* consume.
LiveKeys(m, L) == m.files \cup {f \in L \cap Flush : f \notin m.consumed}

\* Mutation: without the generation guard.
IsOrphan_AnyGeneration(m, x) ==
    IF x \in Flush THEN x \in m.consumed ELSE x \notin m.files

IsOrphan(m, x) ==
    IF x \in Flush
    THEN x \in m.consumed
    ELSE x.g <= m.generation /\ x \notin m.files

Live == LiveKeys(manifest, objects)
Published == {f \in Flush : puts[f] > 0}

\* hour_partitions lists the partition once anything is in it.
Exists == objects # {} \/ manifest # NoManifest

-----------------------------------------------------------------------------
(* Receivers.  A put whose answer is lost is retried under the same name,  *)
(* possibly after its first copy was consumed and deleted.                 *)

PutFlush(f) ==
    /\ puts[f] < MaxPuts
    /\ puts' = [puts EXCEPT ![f] = @ + 1]
    /\ objects' = objects \cup {f}
    /\ UNCHANGED <<site, manifest, serial, comp, marker, due, faults>>

\* request_erasure: create-if-absent.
RequestErasure ==
    /\ marker = "none" /\ Erased # {}
    /\ marker' = "rows"
    /\ UNCHANGED <<site, objects, manifest, puts, serial, comp, due, faults>>

-----------------------------------------------------------------------------
(* A sweep: plan, consolidate, collect orphans, erase.                     *)

Step(c, r) == comp' = [comp EXCEPT ![c] = r]
Goto(c, to) == Step(c, [comp[c] EXCEPT !.pc = to])
Fault == faults < MaxFaults /\ faults' = faults + 1

\* A failed rewrite: the consolidation goes on to the orphans, the rows phase
\* ends with the marker where it is.
Reclaim(c) == Step(c, [Idle EXCEPT !.pc = "gc_read"])
Failed(c) == IF comp[c].drop THEN Step(c, Idle) ELSE Reclaim(c)

\* Every file is under small_file_bytes, so two live files make a candidate.
IsCandidate == Cardinality(Live) >= 2
ReadsManifest == manifest # NoManifest /\ Cardinality(objects) >= 2
HasOrphan ==
    /\ manifest = NoManifest \/ ReadsManifest
    /\ \E x \in objects : IsOrphan(manifest, x)

Plan(c) ==
    /\ comp[c].pc = "idle" /\ Exists
    /\ Goto(c, IF IsCandidate THEN "read" ELSE IF HasOrphan THEN "gc_read" ELSE "erase")
    /\ UNCHANGED <<site, objects, manifest, puts, serial, marker, due, faults>>

ReadManifest(c) ==
    /\ comp[c].pc = "read"
    /\ Step(c, [comp[c] EXCEPT !.pc = "list", !.base = manifest])
    /\ UNCHANGED <<site, objects, manifest, puts, serial, marker, due, faults>>

MinimumInputs(c) == IF comp[c].drop THEN 1 ELSE 2

\* Mutation: the generation read after the rewrite.
CheckedAt_After(c) == manifest.generation

\* The generation a partition with nothing to rewrite is checked at: the one
\* read before the rewrite.
CheckedAt(c) == comp[c].before

Confirm(c, generation) ==
    Step(c, [Idle EXCEPT !.pc = "confirm", !.checked = generation, !.round = comp[c].round])

ListInputs(c) ==
    LET r == comp[c]  inputs == LiveKeys(r.base, objects) IN
    /\ r.pc = "list"
    /\ IF Cardinality(inputs) >= MinimumInputs(c)
       THEN Step(c, [r EXCEPT !.pc = "sort", !.inputs = inputs])
       ELSE IF r.drop
       THEN Confirm(c, CheckedAt(c))
       ELSE Reclaim(c)
    /\ UNCHANGED <<site, objects, manifest, puts, serial, marker, due, faults>>

Kept(c) == (UNION {Rows(x) : x \in comp[c].inputs}) \ (IF comp[c].drop THEN Erased ELSE {})

\* sort_inputs_into reads every input; one that is gone fails the rewrite.
SortInputs(c) ==
    /\ comp[c].pc = "sort"
    /\ comp[c].inputs \subseteq objects
    /\ serial < MaxOutputs
    /\ serial' = serial + 1
    /\ Step(c, [comp[c] EXCEPT !.pc = "put",
                    !.output = [g |-> comp[c].base.generation + 1, n |-> serial + 1, rows |-> Kept(c)]])
    /\ UNCHANGED <<site, objects, manifest, puts, marker, due, faults>>

SortFails(c) ==
    /\ comp[c].pc = "sort"
    /\ \/ ~ (comp[c].inputs \subseteq objects) /\ UNCHANGED faults
       \/ serial = MaxOutputs /\ UNCHANGED faults
       \/ Fault
    /\ Failed(c)
    /\ UNCHANGED <<site, objects, manifest, puts, serial, marker, due>>

PutOutput(c) ==
    /\ comp[c].pc = "put"
    /\ objects' = objects \cup {comp[c].output}
    /\ Goto(c, "commit")
    /\ UNCHANGED <<site, manifest, puts, serial, marker, due, faults>>

\* Mutation: consumed names trimmed to this commit's inputs.
NextManifest_Trims(c) ==
    [generation |-> comp[c].output.g, files |-> {comp[c].output}, consumed |-> comp[c].inputs \cap Flush]

\* next_manifest
NextManifest(c) ==
    [generation |-> comp[c].output.g, files |-> {comp[c].output},
     consumed |-> comp[c].base.consumed \cup (comp[c].inputs \cap Flush)]

\* create-if-absent, If-Match on the manifest read (an ETag is its content),
\* or the local overwrite.
Wins(c) ==
    \/ comp[c].base = manifest
    \/ ~ Cas /\ comp[c].base # NoManifest

CommitManifest(c) ==
    /\ comp[c].pc = "commit"
    /\ IF Wins(c)
       THEN /\ manifest' = NextManifest(c)
            /\ Step(c, [comp[c] EXCEPT !.pc = "clean", !.todo = comp[c].inputs])
       ELSE /\ Goto(c, "discard")
            /\ UNCHANGED manifest
    /\ UNCHANGED <<site, objects, puts, serial, marker, due, faults>>

\* The request or its answer is lost: the rewrite is reported as failed
\* whether or not the manifest took it, and nothing is deleted.
CommitFails(c) ==
    /\ comp[c].pc = "commit"
    /\ Fault
    /\ \/ UNCHANGED manifest
       \/ Wins(c) /\ manifest' = NextManifest(c)
    /\ Failed(c)
    /\ UNCHANGED <<site, objects, puts, serial, marker, due>>

\* lost_commit_outcome: the output no manifest names is removed, best effort.
Discard(c) ==
    /\ comp[c].pc = "discard"
    /\ \/ objects' = objects \ {comp[c].output} /\ UNCHANGED faults
       \/ Fault /\ UNCHANGED objects
    /\ Failed(c)
    /\ UNCHANGED <<site, manifest, puts, serial, marker, due>>

\* Best-effort deletes, one at a time: of a won commit's inputs ("clean") and
\* of the orphans ("gc").
DeleteOne(c) ==
    /\ comp[c].pc \in {"clean", "gc"}
    /\ \E x \in comp[c].todo :
          /\ Step(c, [comp[c] EXCEPT !.todo = @ \ {x}])
          /\ \/ objects' = objects \ {x} /\ UNCHANGED faults
             \/ Fault /\ UNCHANGED objects
    /\ UNCHANGED <<site, manifest, puts, serial, marker, due>>

Cleaned(c) ==
    /\ comp[c].pc = "clean" /\ comp[c].todo = {}
    /\ IF comp[c].drop
       THEN Confirm(c, comp[c].output.g)
       ELSE Reclaim(c)
    /\ UNCHANGED <<site, objects, manifest, puts, serial, marker, due, faults>>

-----------------------------------------------------------------------------
(* gc_orphans                                                              *)

GcRead(c) ==
    /\ comp[c].pc = "gc_read"
    /\ Step(c, [comp[c] EXCEPT !.pc = "gc_list", !.base = manifest])
    /\ UNCHANGED <<site, objects, manifest, puts, serial, marker, due, faults>>

GcList(c) ==
    /\ comp[c].pc = "gc_list"
    /\ Step(c, [comp[c] EXCEPT !.pc = "gc", !.todo = {x \in objects : IsOrphan(comp[c].base, x)}])
    /\ UNCHANGED <<site, objects, manifest, puts, serial, marker, due, faults>>

GcDone(c) ==
    /\ comp[c].pc = "gc" /\ comp[c].todo = {}
    /\ Step(c, [Idle EXCEPT !.pc = "erase"])
    /\ UNCHANGED <<site, objects, manifest, puts, serial, marker, due, faults>>

-----------------------------------------------------------------------------
(* erase_pending and the rows phase.  A request is deferred while it       *)
(* settles or a backfill holds the tenant's lock.                          *)

ErasePending(c) ==
    /\ comp[c].pc = "erase"
    /\ \/ Step(c, Idle)
       \/ marker = "rows" /\ Step(c, [Idle EXCEPT !.pc = IF Exists THEN "before" ELSE "confirm"])
    /\ UNCHANGED <<site, objects, manifest, puts, serial, marker, due, faults>>

\* erase_partition: the snapshot before the rewrite, then the rewrite.
ErasePartition(c) ==
    /\ comp[c].pc = "before"
    /\ Step(c, [comp[c] EXCEPT !.pc = "read", !.drop = TRUE, !.before = manifest.generation])
    /\ UNCHANGED <<site, objects, manifest, puts, serial, marker, due, faults>>

\* changed_partitions: partition_snapshot lists, then reads the manifest.
ConfirmList(c) ==
    /\ comp[c].pc = "confirm"
    /\ Step(c, [comp[c] EXCEPT !.pc = IF Exists THEN "check" ELSE "advance",
                               !.todo = objects \cap Flush, !.seen = Published \cap Erased])
    /\ UNCHANGED <<site, objects, manifest, puts, serial, marker, due, faults>>

Settled(c) ==
    /\ LiveKeys(manifest, comp[c].todo) \cap Flush = {}
    /\ comp[c].checked = manifest.generation

MoreRounds(c) == comp[c].round < Rounds

ConfirmRead(c) ==
    /\ comp[c].pc = "check"
    /\ IF Settled(c)
       THEN Goto(c, "advance")
       ELSE IF MoreRounds(c)
       THEN Step(c, [comp[c] EXCEPT !.pc = "before", !.round = @ + 1, !.todo = {}])
       ELSE Step(c, Idle)
    /\ UNCHANGED <<site, objects, manifest, puts, serial, marker, due, faults>>

AdvanceMarker(c) ==
    /\ comp[c].pc = "advance"
    /\ \/ marker' = "tuples" /\ due' = due \cup comp[c].seen /\ UNCHANGED faults
       \/ Fault /\ UNCHANGED <<marker, due>>
    /\ Step(c, Idle)
    /\ UNCHANGED <<site, objects, manifest, puts, serial>>

\* The process dies; its restart sweeps from the store alone.
Kill(c) ==
    /\ comp[c].pc # "idle"
    /\ Fault
    /\ Step(c, Idle)
    /\ UNCHANGED <<site, objects, manifest, puts, serial, marker, due>>

-----------------------------------------------------------------------------
Sweep(c) ==
    \/ Plan(c)
    \/ ReadManifest(c) \/ ListInputs(c) \/ SortInputs(c) \/ SortFails(c) \/ PutOutput(c)
    \/ CommitManifest(c) \/ CommitFails(c) \/ Discard(c) \/ DeleteOne(c) \/ Cleaned(c)
    \/ GcRead(c) \/ GcList(c) \/ GcDone(c)
    \/ ErasePending(c) \/ ErasePartition(c) \/ ConfirmList(c) \/ ConfirmRead(c) \/ AdvanceMarker(c)

Next ==
    \/ \E f \in Flush : PutFlush(f)
    \/ RequestErasure
    \/ \E c \in site.compactors : Sweep(c) \/ Kill(c)

Spec == Init /\ [][Next]_vars

-----------------------------------------------------------------------------
(* Properties                                                              *)

Data == Flush \cup [g : 1 .. MaxOutputs, n : 1 .. MaxOutputs, rows : SUBSET Flush]

\* Types of the state; a rows phase makes at most Rounds confirming passes
\* after the first rewrite.
TypeOK ==
    /\ objects \subseteq Data
    /\ manifest.generation \in 0 .. MaxOutputs
    /\ manifest.files \subseteq Data \ Flush /\ manifest.consumed \subseteq Flush
    /\ puts \in [Flush -> 0 .. MaxPuts]
    /\ serial \in 0 .. MaxOutputs /\ faults \in 0 .. MaxFaults
    /\ marker \in {"none", "rows", "tuples"} /\ due \subseteq Erased
    /\ \A c \in Compactor :
          /\ comp[c].inputs \cup comp[c].todo \subseteq Data
          /\ comp[c].round \in 0 .. Rounds
          /\ comp[c].checked \in {Unchecked} \cup 0 .. MaxOutputs

Disjoint(X) == \A x, y \in X : x # y => Rows(x) \cap Rows(y) = {}

\* RFC 0009 "leaves every acknowledged row in exactly one live file": every
\* published row outside the erased conversation is in a live file that is
\* there, no row is in two of them, and a commit about to win merges no row
\* twice, whatever two compactors, late or retried puts, kills and lost
\* answers do.
RowsOnce ==
    /\ Published \ Erased \subseteq UNION {Rows(x) : x \in Live \cap objects}
    /\ Disjoint(Live)
    /\ \A c \in Compactor : comp[c].pc = "commit" /\ Wins(c) => Disjoint(comp[c].inputs)

\* RFC0009.17: no compactor's clean-up or orphan pass, however old its
\* manifest, deletes a file the manifest names or is about to name.
NamedFilesExist ==
    /\ manifest.files \subseteq objects
    /\ \A c \in Compactor : comp[c].pc = "commit" /\ Wins(c) => comp[c].output \in objects

\* RFC0009.20-.22: once the marker says the rows are gone, no row of the
\* conversation published before the last confirming pass is in a live file,
\* nor comes back by a late commit or a retried put.
ErasedStayGone ==
    marker = "tuples" => due \cap UNION {Rows(x) : x \in Live} = {}

\* The objects and the sweeps: types, and no file the manifest names or is
\* about to name is deleted (compaction/commit.rs, gc_orphans).
FilesInv == TypeOK /\ NamedFilesExist
=============================================================================
