------------------------------ MODULE VoteLog ------------------------------
(***************************************************************************)
(* A node's vote log, wal_root/votes.log (crates/ourios-ingester/src/      *)
(* replicated/raft/vote_log.rs): one file for every Raft group, one writer *)
(* thread, one fsync per batch of queued votes.                            *)
(*                                                                         *)
(* The file is a sequence of sectors.  A sector is the sequence of votes   *)
(* in its slots; a sector of zero bytes is the empty sequence.  Slot bytes *)
(* and checksums are left out: a sector is written whole or not at all,    *)
(* which is the disk the code's comments assume.                           *)
(*                                                                         *)
(* Faults: the process is killed (the page cache survives), the machine    *)
(* loses power (every sector above the last fsync is kept or zeroed on its *)
(* own, or the file is shorter, and an unsynced rename may be undone), a   *)
(* write or an fsync fails.                                                *)
(***************************************************************************)
EXTENDS Naturals, Sequences, FiniteSets, SequencesExt

CONSTANTS
  Groups,           \* the groups this replica votes in, numbers
  MaxTerm,          \* bound: votes of one group are 1..MaxTerm, ordered
  SlotsPerSector,   \* SLOTS_PER_SECTOR, 15 in the code
  RewriteSectors,   \* rewrite_bytes, in sectors
  MaxCrashes        \* bound on kills, power losses and closes

ASSUME VoteLogAssumption ==
  /\ Groups \subseteq Nat /\ IsFiniteSet(Groups)
  /\ {MaxTerm, SlotsPerSector, RewriteSectors, MaxCrashes} \subseteq Nat
  /\ SlotsPerSector > 0

VARIABLES
  file,       \* votes.log as a reader sees it, its header sector left out
  synced,     \* how many of its sectors are on the disk
  renamed,    \* the files a power loss may bring back instead of `file`
  latest,     \* Latest: each group's last durable vote, 0 for none
  requests,   \* the writer's channel
  batch,      \* the batch the writer has written but not answered
  voteWriter, \* "none", "idle", "written", "rewriting" or "renamed": the writer thread
  voteFailed, \* Writer::failed
  closing,    \* every handle is dropped; the writer drains and exits
  saving,     \* saving[g]: the vote whose `save` future is unanswered, or 0
  refused,    \* an open found the log corrupt: the replica must rejoin
  spanned,    \* history: some batch took more than one sector
  promised,   \* history: the highest vote answered for or read, per group
  voteCrashes \* how many kills, power losses and closes happened

refusal == <<refused, spanned>>

voteVars == <<file, synced, renamed, latest, requests, batch, voteWriter, voteFailed,
              closing, saving, refusal, promised, voteCrashes>>

NoVotes == [g \in Groups |-> 0]

Requests == Groups \X (1..MaxTerm)

Sector == UNION {[1..n -> Requests] : n \in 0..SlotsPerSector}

\* lay_out: a batch starts on a fresh sector, slots packed, the last sector padded.
LayOut(votes) ==
  [i \in 1..((Len(votes) + SlotsPerSector - 1) \div SlotsPerSector) |->
     SubSeq(votes, (i - 1) * SlotsPerSector + 1,
            IF i * SlotsPerSector < Len(votes) THEN i * SlotsPerSector ELSE Len(votes))]

\* scan: nothing but zeros may follow an all-zero sector.
Corrupt(sectors) ==
  \E i, j \in DOMAIN sectors : i < j /\ sectors[i] = <<>> /\ sectors[j] # <<>>

\* scan: the file ends with the last sector that holds a slot.
ValidPart(sectors) ==
  SubSeq(sectors, 1, Max({0} \cup {k \in DOMAIN sectors : sectors[k] # <<>>}))

\* The votes of a file.
VotesIn(sectors) == UNION {ToSet(sectors[k]) : k \in DOMAIN sectors}

\* The last record per group wins (the HashMap inserts of scan_sector and commit).
Apply(votes, known) ==
  [g \in Groups |->
     LET mine == {i \in DOMAIN votes : votes[i][1] = g}
     IN IF mine = {} THEN known[g] ELSE votes[Max(mine)][2]]

\* scan: sector after sector, so the last one with a slot of the group decides.
Scan(sectors) ==
  [g \in Groups |->
     LET mine == {k \in DOMAIN sectors : \E r \in ToSet(sectors[k]) : r[1] = g}
     IN IF mine = {} THEN 0 ELSE Apply(sectors[Max(mine)], NoVotes)[g]]

\* rewrite: each group's latest vote.  The code sorts them by group; since no group has
\* two, nothing that reads them depends on the order.
LatestVotes == SetToSeq({<<g, latest[g]>> : g \in {h \in Groups : latest[h] > 0}})

Higher(a, b) == [g \in Groups |-> IF a[g] > b[g] THEN a[g] ELSE b[g]]

VoteInit ==
  /\ file = <<>> /\ synced = 0 /\ renamed = {}
  /\ latest = NoVotes
  /\ requests = <<>> /\ batch = <<>>
  /\ voteWriter = "idle" /\ voteFailed = FALSE /\ closing = FALSE
  /\ saving = NoVotes
  /\ refused = FALSE /\ spanned = FALSE
  /\ promised = NoVotes
  /\ voteCrashes = 0

----------------------------------------------------------------------------
(* The callers: one unanswered `save` per group, since save_vote takes     *)
(* &mut self; openraft saves only a vote above the one it holds.            *)

Save(g, v) ==
  /\ voteWriter # "none" /\ ~closing
  /\ saving[g] = 0
  /\ v > latest[g]
  /\ requests' = Append(requests, <<g, v>>)
  /\ saving' = [saving EXCEPT ![g] = v]
  /\ UNCHANGED <<file, synced, renamed, latest, batch, voteWriter, voteFailed, closing,
                 refusal, promised, voteCrashes>>

----------------------------------------------------------------------------
(* The writer thread.                                                      *)

\* Writer::run and the first half of Writer::write: take every queued request, write
\* the laid-out batch.  The write may stop after any part of it.
WriteBatch ==
  /\ voteWriter = "idle" /\ requests # <<>> /\ ~voteFailed
  /\ requests' = <<>>
  /\ batch' = requests
  /\ voteWriter' = "written"
  /\ \E n \in 0..Len(requests) :
       /\ file' = file \o LayOut(SubSeq(requests, 1, n))
       /\ voteFailed' = (n < Len(requests))
  /\ spanned' = (spanned \/ Len(requests) > SlotsPerSector)
  /\ UNCHANGED <<synced, renamed, latest, closing, saving, refused, promised, voteCrashes>>

\* Mutant: a request after a failure is dropped without an answer.
RejectBatch_Silent ==
  /\ voteWriter = "idle" /\ requests # <<>> /\ voteFailed
  /\ requests' = <<>>
  /\ UNCHANGED <<file, synced, renamed, latest, batch, voteWriter, voteFailed, closing,
                 saving, refusal, promised, voteCrashes>>

\* A request after the first failure is answered with it.
RejectBatch ==
  /\ voteWriter = "idle" /\ requests # <<>> /\ voteFailed
  /\ requests' = <<>>
  /\ saving' = NoVotes
  /\ UNCHANGED <<file, synced, renamed, latest, batch, voteWriter, voteFailed, closing,
                 refusal, promised, voteCrashes>>

\* Groups whose request is in the batch being answered.
Answered == {batch[i][1] : i \in DOMAIN batch}

\* Writer::commit after a successful fsync: publish the votes, then answer.  A log past
\* the threshold is rewritten before the next batch is taken.
CommitBatch ==
  /\ voteWriter = "written" /\ ~voteFailed
  /\ synced' = Len(file)
  /\ latest' = Apply(batch, latest)
  /\ promised' = Higher(promised, Apply(batch, latest))
  /\ saving' = [g \in Groups |-> IF g \in Answered THEN 0 ELSE saving[g]]
  /\ batch' = <<>>
  /\ voteWriter' = IF Len(file) > RewriteSectors THEN "rewriting" ELSE "idle"
  /\ UNCHANGED <<file, renamed, requests, voteFailed, closing, refusal, voteCrashes>>

\* The write or the fsync failed: every request of the batch is answered with an error.
FailBatch ==
  /\ voteWriter = "written"
  /\ voteFailed' = TRUE
  /\ saving' = [g \in Groups |-> IF g \in Answered THEN 0 ELSE saving[g]]
  /\ batch' = <<>>
  /\ voteWriter' = "idle"
  /\ UNCHANGED <<file, synced, renamed, latest, requests, closing, refusal, promised,
                 voteCrashes>>

\* write_durably through the rename: the new file's own fsync precedes it.
RenameRewrite ==
  /\ voteWriter = "rewriting"
  /\ renamed' = renamed \cup {SubSeq(file, 1, synced)}
  /\ file' = LayOut(LatestVotes)
  /\ synced' = Len(file')
  /\ voteWriter' = "renamed"
  /\ UNCHANGED <<latest, requests, batch, voteFailed, closing, saving, refusal, promised,
                 voteCrashes>>

\* The directory fsync ends the rewrite.
FinishRewrite ==
  /\ voteWriter = "renamed"
  /\ renamed' = {}
  /\ voteWriter' = "idle"
  /\ UNCHANGED <<file, synced, latest, requests, batch, voteFailed, closing, saving, refusal,
                 promised, voteCrashes>>

\* A rewrite that fails, before or after its rename, fails every later save.
FailRewrite ==
  /\ voteWriter \in {"rewriting", "renamed"}
  /\ voteFailed' = TRUE
  /\ voteWriter' = "idle"
  /\ UNCHANGED <<file, synced, renamed, latest, requests, batch, closing, saving, refusal,
                 promised, voteCrashes>>

\* The channel is closed and empty: the thread exits and releases votes.lock.
ExitWriter ==
  /\ closing /\ voteWriter = "idle" /\ requests = <<>>
  /\ voteWriter' = "none"
  /\ closing' = FALSE
  /\ UNCHANGED <<file, synced, renamed, latest, requests, batch, voteFailed, saving, refusal,
                 promised, voteCrashes>>

VoteWriter ==
  \/ WriteBatch \/ RejectBatch \/ CommitBatch \/ FailBatch
  \/ RenameRewrite \/ FinishRewrite \/ FailRewrite \/ ExitWriter

----------------------------------------------------------------------------
(* Open, close and the faults.                                             *)

\* Mutant: the recovered log is exposed without its fsync.
OpenVotes_NoFsync ==
  /\ voteWriter = "none" /\ ~refused
  /\ ~Corrupt(file)
  /\ renamed' = {}
  /\ file' = ValidPart(file)
  /\ synced' = IF synced < Len(file') THEN synced ELSE Len(file')
  /\ latest' = Scan(file)
  /\ promised' = Higher(promised, latest')
  /\ voteWriter' = "idle" /\ voteFailed' = FALSE
  /\ UNCHANGED <<requests, batch, closing, saving, refusal, voteCrashes>>

\* Mutant: a torn tail is ignored but left in the file.
OpenVotes_KeepsTail ==
  /\ voteWriter = "none" /\ ~refused
  /\ ~Corrupt(file)
  /\ renamed' = {}
  /\ synced' = Len(file)
  /\ latest' = Scan(file)
  /\ promised' = Higher(promised, latest')
  /\ voteWriter' = "idle" /\ voteFailed' = FALSE
  /\ UNCHANGED <<file, requests, batch, closing, saving, refusal, voteCrashes>>

\* VoteLog::open_with.  The lock is free only when no writer runs; sync_root makes the
\* directory entry durable; recover keeps the valid part, fsyncs it and exposes it.
OpenVotes ==
  /\ voteWriter = "none" /\ ~refused
  /\ ~Corrupt(file)
  /\ renamed' = {}
  /\ file' = ValidPart(file)
  /\ synced' = Len(file')
  /\ latest' = Scan(file)
  /\ promised' = Higher(promised, latest')
  /\ voteWriter' = "idle" /\ voteFailed' = FALSE
  /\ UNCHANGED <<requests, batch, closing, saving, refusal, voteCrashes>>

\* The same open, its last fsync failing: the tail is cut, nothing is exposed.
OpenVotesFails ==
  /\ voteWriter = "none" /\ ~refused
  /\ ~Corrupt(file)
  /\ renamed' = {}
  /\ file' = ValidPart(file)
  /\ synced' = IF synced < Len(file') THEN synced ELSE Len(file')
  /\ UNCHANGED <<latest, requests, batch, voteWriter, voteFailed, closing, saving, refusal,
                 promised, voteCrashes>>

\* A corrupt log is refused for good.
RefuseVotes ==
  /\ voteWriter = "none" /\ ~refused
  /\ Corrupt(file)
  /\ renamed' = {}
  /\ refused' = TRUE /\ UNCHANGED spanned
  /\ UNCHANGED <<file, synced, latest, requests, batch, voteWriter, voteFailed, closing,
                 saving, promised, voteCrashes>>

\* The host drops its handles; queued requests are still written.
CloseVotes ==
  /\ voteWriter # "none" /\ ~closing
  /\ voteCrashes < MaxCrashes
  /\ voteCrashes' = voteCrashes + 1
  /\ closing' = TRUE
  /\ saving' = NoVotes
  /\ UNCHANGED <<file, synced, renamed, latest, requests, batch, voteWriter, voteFailed,
                 refusal, promised>>

\* What a kill takes: the process's memory.
VoteMemoryLost ==
  /\ requests' = <<>> /\ batch' = <<>>
  /\ latest' = NoVotes
  /\ voteWriter' = "none" /\ voteFailed' = FALSE /\ closing' = FALSE
  /\ saving' = NoVotes

KillVotes ==
  /\ voteWriter # "none"
  /\ VoteMemoryLost
  /\ UNCHANGED <<file, synced, renamed, refusal, promised>>

\* A power loss keeps, zeroes or cuts off each sector no fsync covered, and may undo a
\* rename no directory fsync covered.
LosePowerVotes ==
  /\ VoteMemoryLost
  /\ \/ \E n \in synced..Len(file) : \E zeroed \in SUBSET (synced + 1..n) :
          /\ file' = [i \in 1..n |-> IF i \in zeroed THEN <<>> ELSE file[i]]
          /\ synced' = n
     \/ /\ file' \in renamed
        /\ synced' = Len(file')
  /\ renamed' = {}
  /\ UNCHANGED <<refusal, promised>>

VoteCrash ==
  /\ voteCrashes < MaxCrashes
  /\ voteCrashes' = voteCrashes + 1
  /\ KillVotes \/ LosePowerVotes

VoteNext ==
  \/ \E g \in Groups, v \in 1..MaxTerm : Save(g, v)
  \/ VoteWriter
  \/ OpenVotes \/ OpenVotesFails \/ RefuseVotes \/ CloseVotes
  \/ VoteCrash

VoteSpec == VoteInit /\ [][VoteNext]_voteVars

\* The writer thread is scheduled; a write or an fsync is not assumed to succeed.
VoteLiveSpec == VoteSpec /\ WF_voteVars(VoteWriter)

----------------------------------------------------------------------------
VoteTypeOK ==
  /\ file \in Seq(Sector)
  /\ synced \in 0..Len(file)
  /\ \A f \in renamed : f \in Seq(Sector)
  /\ latest \in [Groups -> 0..MaxTerm]
  /\ requests \in Seq(Requests) /\ batch \in Seq(Requests)
  /\ voteWriter \in {"none", "idle", "written", "rewriting", "renamed"}
  /\ voteFailed \in BOOLEAN /\ closing \in BOOLEAN
  /\ refused \in BOOLEAN /\ spanned \in BOOLEAN
  /\ saving \in [Groups -> 0..MaxTerm]
  /\ promised \in [Groups -> 0..MaxTerm]
  /\ voteCrashes \in 0..MaxCrashes

\* A vote `save` answered, or an open exposed, is never forgotten: every later open
\* restores it or a higher one, whatever kills, power losses, failed fsyncs and
\* rewrites lie between.
VotesAreKept ==
  voteWriter # "none" => \A g \in Groups : latest[g] >= promised[g]

\* As long as every batch fits one sector (each group has one vote in flight), no power
\* loss makes the replica refuse its own log and rejoin as a new one.
SmallBatchesReopen == refused => spanned

\* Every save is answered, by its fsync or by an error, unless the process dies or
\* drops the future.  The saves are bounded, so each is answered if again and again
\* none waits (vote_log.rs, the writer thread).
SavesAreAnswered == []<>(\A g \in Groups : saving[g] = 0)

\* The file and the writer: types, and a log that refuses to open had a batch
\* of several sectors (vote_log.rs, recover).
VoteInv == VoteTypeOK /\ SmallBatchesReopen
=============================================================================
