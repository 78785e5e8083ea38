------------------------------ MODULE FileSet ------------------------------
(***************************************************************************)
(* A query over a partition while the compactors of Compaction work on it  *)
(* (ourios-querier/src/{file_set.rs, lib.rs}): it lists the objects, reads *)
(* the manifest, opens the live files, and resolves again when a file it   *)
(* resolved is gone.  The local backend canonicalizes the files it found   *)
(* before it opens any, and lists again when one of them is gone.          *)
(*                                                                         *)
(* The listing is not atomic: a store pages through it in key order, a     *)
(* local directory is read entry by entry.  Each flush name is one step;   *)
(* manifest.json sorts after every data file, so whether the store lists   *)
(* it is known last.                                                       *)
(***************************************************************************)
EXTENDS Compaction

VARIABLE query     \* the query in progress, or the last one's result

ScanAttempts == site.attempts          \* SCAN_ATTEMPTS
LocalResolveAttempts == site.listings  \* LOCAL_RESOLVE_ATTEMPTS
MaxQueries == site.queries             \* bound: queries made

allVars == <<vars, query>>

\* listings: the listings of the resolution in progress, or of the last one.
\* found: the live files it found; files: the ones being scanned.
\* unread: the files still to be canonicalized, then to be opened.
\* floor, asked: the rows published, and the generation, when it was asked.
NoQuery ==
    [pc |-> "none", attempt |-> 0, listings |-> 0, todo |-> {}, listed |-> {}, found |-> {},
     files |-> {}, unread |-> {}, failed |-> FALSE, floor |-> {}, asked |-> 0, number |-> 0]

QueryInit == Init /\ query = NoQuery

Set(q) == query' = q /\ UNCHANGED vars

\* The n-th listing of a resolution: of the first attempt's, of a retry's, or of
\* the one that rechecks the file set after a failed scan.
Resolve(q, n) ==
    [q EXCEPT !.pc = "list", !.listings = n, !.todo = Flush, !.listed = {}, !.found = {},
              !.unread = {}]

Ask ==
    /\ query.pc \in {"none", "answered", "error"}
    /\ query.number < MaxQueries
    /\ Set(Resolve([NoQuery EXCEPT !.attempt = 1, !.floor = Published,
                                   !.asked = manifest.generation, !.number = query.number + 1], 1))

ListEntry ==
    /\ query.pc = "list"
    /\ \E f \in query.todo :
          Set([query EXCEPT !.todo = @ \ {f}, !.listed = IF f \in objects THEN @ \cup {f} ELSE @])

\* The store resolver reads a manifest only if it was listed; the local one
\* always tries.  NoManifest is the glob fallback.
EndListing ==
    /\ query.pc = "list" /\ query.todo = {}
    /\ Set([query EXCEPT !.pc = IF Cas /\ manifest = NoManifest THEN "glob" ELSE "manifest"])

\* The live files are known; the local backend has yet to canonicalize them.
Resolved(m) ==
    LET found == LiveKeys(m, query.listed) IN
    [query EXCEPT !.pc = "resolved", !.listed = {}, !.found = found,
                  !.unread = IF Cas THEN {} ELSE found]

Glob == query.pc = "glob" /\ Set(Resolved(NoManifest))

ReadsIt == query.pc = "manifest" /\ Set(Resolved(manifest))

\* canonical_file_urls, one file at a time.  A file that is gone makes the
\* listing stale: the resolution lists again, and its last listing ends the query
\* with an error, whichever attempt it was for.
Canonicalize ==
    /\ query.pc = "resolved"
    /\ \E x \in query.unread :
          Set(IF x \in objects
              THEN [query EXCEPT !.unread = @ \ {x}]
              ELSE IF query.listings < LocalResolveAttempts
              THEN Resolve(query, query.listings + 1)
              ELSE [query EXCEPT !.pc = "error"])

\* The resolution is done: it is scanned or, after a failed scan, compared with
\* the files that failed.  Only a file set that has moved is attempted again.
Settle ==
    /\ query.pc = "resolved" /\ query.unread = {}
    /\ Set(IF ~query.failed
           THEN [query EXCEPT !.pc = "scan", !.files = query.found, !.unread = query.found,
                              !.found = {}]
           ELSE IF query.found # query.files
           THEN Resolve([query EXCEPT !.attempt = @ + 1, !.failed = FALSE], 1)
           ELSE [query EXCEPT !.pc = "error"])

\* Mutation: a file that is gone is read as an empty one.
Open_SkipsMissing ==
    /\ query.pc = "scan"
    /\ \E x \in query.unread :
          Set([query EXCEPT !.unread = @ \ {x}, !.files = IF x \in objects THEN @ ELSE @ \ {x}])

\* Open one resolved file.  One that is gone fails the scan; unless it was the
\* last attempt, the file set is resolved again to see whether it has moved.
Open ==
    /\ query.pc = "scan"
    /\ \E x \in query.unread :
          Set(IF x \in objects
              THEN [query EXCEPT !.unread = @ \ {x}]
              ELSE IF query.attempt < ScanAttempts
              THEN Resolve([query EXCEPT !.failed = TRUE], 1)
              ELSE [query EXCEPT !.pc = "error"])

Answer ==
    /\ query.pc = "scan" /\ query.unread = {}
    /\ Set([query EXCEPT !.pc = "answered"])

Query ==
    \/ Ask \/ ListEntry \/ EndListing \/ Glob \/ ReadsIt
    \/ Canonicalize \/ Settle \/ Open \/ Answer

QueryNext == Query \/ (Next /\ UNCHANGED query)

QuerySpec == QueryInit /\ [][QueryNext]_allVars

-----------------------------------------------------------------------------
(* Properties                                                              *)

\* RFC0009.18 "rows are never returned short", nor twice: an answer holds every
\* row published before the query was asked, outside the erased conversation,
\* and no row from two files, whatever commits and deletes land between its
\* listing, its manifest read and its opens.
AnswersAreWhole ==
    query.pc = "answered" =>
        /\ query.floor \ Erased \subseteq UNION {Rows(x) : x \in query.files}
        /\ Disjoint(query.files)

CommitsSeen == manifest.generation - query.asked

\* A query fails only when compaction keeps overtaking it.  Either its last scan
\* lost a file, or the last listing of a local resolution did; and each scan or
\* listing lost to get there was lost to a commit of its own, landed since the
\* query was asked: what one commit takes away, the next listing no longer has,
\* and a file gone from under a scan is always seen as a file set that moved.
OnlyPersistentErrors ==
    query.pc = "error" =>
        \/ query.attempt = ScanAttempts /\ CommitsSeen >= ScanAttempts
        \/ ~Cas /\ query.listings = LocalResolveAttempts /\ CommitsSeen >= LocalResolveAttempts

\* What a query returns, whatever the compactors do while it runs: a whole
\* answer, or an error only after as many commits as it has attempts (querier
\* lib.rs, execute and attempt_scan) or, on a local partition, as many as one
\* resolution has listings (file_set.rs, resolve_local_urls).
QueryInv == AnswersAreWhole /\ OnlyPersistentErrors
=============================================================================
