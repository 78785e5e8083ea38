------------------------------ MODULE GroupLog ------------------------------
(***************************************************************************)
(* One Raft group's log over its own WAL (crates/ourios-ingester/src/      *)
(* replicated/raft/log_store.rs), beside the node's vote log (VoteLog).    *)
(*                                                                         *)
(* An append changes the in-memory index at once and queues its frames for *)
(* a writer thread, which appends every queued command, fsyncs once and    *)
(* then answers.  Replay rebuilds the index from the WAL in order.         *)
(*                                                                         *)
(* openraft is the environment: it calls one storage method at a time, and *)
(* neither truncates nor overwrites below its committed entry.  The WAL    *)
(* (module Wal) is abstracted to its records and how many of them are on   *)
(* the disk: a power loss keeps some prefix that contains the synced one.  *)
(***************************************************************************)
EXTENDS VoteLog, Integers, FiniteSetsExt

CONSTANTS
  Mine,      \* the group whose log this is
  MaxIndex,  \* bound on entry indexes
  MaxWrites  \* bound on the writes openraft makes, the votes of other groups included

ASSUME GroupLogAssumption ==
  /\ Mine \in Groups
  /\ {MaxIndex, MaxWrites} \subseteq Nat

VARIABLES
  index,       \* Index: the log in memory
  handle,      \* "closed", "open" or "closing": the GroupLog value
  wal,         \* the group WAL's records
  walSynced,   \* how many of them are on the disk
  segment,     \* "none", "created" or "durable": the WAL's segment file
  commands,    \* the writer's channel: its frames in order, the kinds of its commands
  taken,       \* the kinds of the commands in the batch being written
  walWriter,   \* "none", "idle" or "written": the writer thread
  walFailed,   \* Writer::failed
  caller,      \* "idle", "marker", "fence" or "cast": what openraft awaits
  casting,     \* the vote save_vote holds, or 0
  kept,        \* history: records that were answered for or exposed by an open
  follows,     \* history: follows[v], the records save_vote(v) came after
  lostLog,     \* an open found a vote and no segment
  damaged,     \* "no", or whether the group had an answered vote when its WAL was lost
  writes       \* how many writes openraft made

logVars == <<index, handle, wal, walSynced, segment, commands, taken, walWriter, walFailed,
             caller, casting, kept, follows, lostLog, damaged, writes>>

vars == <<voteVars, logVars>>

----------------------------------------------------------------------------
(* Index: entries by index, the purge point, the committed id.             *)

NoId == [term |-> 0, index |-> -1]

LogIds == [term : 1..MaxTerm, index : 0..MaxIndex]

\* The order of LogId: by term, then index; no id is below every id.
Above(a, b) == a.term > b.term \/ (a.term = b.term /\ a.index > b.index)

EmptyIndex == [entries |-> <<>>, purged |-> NoId, committed |-> NoId]

\* BTreeMap::split_off, the part that stays.
Below(entries, i) == [j \in {k \in DOMAIN entries : k < i} |-> entries[j]]

LastLogId(ix) ==
  IF DOMAIN ix.entries = {} THEN ix.purged
  ELSE LET i == Max(DOMAIN ix.entries) IN [term |-> ix.entries[i], index |-> i]

\* The log holds the entry an id names.
Holds(ix, id) == id.index \in DOMAIN ix.entries /\ ix.entries[id.index] = id.term

\* Index::admits.
Admits(ix, i) ==
  \/ DOMAIN ix.entries = {} /\ ix.purged = NoId
  \/ i \in (ix.purged.index + 1)..(LastLogId(ix).index + 1)

\* Index::place.
Place(ix, id) ==
  LET under == Below(ix.entries, id.index)
  IN [ix EXCEPT !.entries =
        IF id.index > ix.purged.index
        THEN [j \in DOMAIN under \cup {id.index} |->
                IF j = id.index THEN id.term ELSE under[j]]
        ELSE under]

\* Index::truncate_after, Index::purge and Index::commit.
Truncate(ix, last) == [ix EXCEPT !.entries = Below(@, last.index + 1)]

Purge(ix, upto) ==
  [ix EXCEPT !.entries = [j \in {k \in DOMAIN @ : k > upto.index} |-> @[j]],
             !.purged = IF Above(upto, @) THEN upto ELSE @]

Commit(ix, c) == [ix EXCEPT !.committed = IF Above(c, @) THEN c ELSE @]

\* Index::apply, when it admits the record.
ApplyRecord(ix, r) ==
  CASE r.kind = "entry"     -> Place(ix, r.id)
    [] r.kind = "truncate"  -> Truncate(ix, r.id)
    [] r.kind = "purge"     -> Purge(ix, r.id)
    [] r.kind = "committed" -> Commit(ix, r.id)

\* Records applied in order, one after the other.
ApplyAll(ix, recs) ==
  LET after[n \in 0..Len(recs)] ==
        IF n = 0 THEN ix ELSE ApplyRecord(after[n - 1], recs[n])
  IN after[Len(recs)]

\* Replay of a WAL.
Replay(recs) == ApplyAll(EmptyIndex, recs)

\* The replay rejects a record: an entry that would leave a hole.
Rejected(recs) ==
  \E i \in DOMAIN recs :
    recs[i].kind = "entry" /\ ~Admits(Replay(SubSeq(recs, 1, i - 1)), recs[i].id.index)

----------------------------------------------------------------------------
(* Commands.                                                               *)

Kinds == {"append", "durable", "lazy", "fence"}

Records == [kind : {"entry", "truncate", "purge", "committed"}, id : LogIds \cup {NoId}]

\* The writer always takes the whole channel, so the order of its frames and the kinds
\* of command to answer are all that matters of it.
NoCommands == [frames |-> <<>>, kinds |-> {}]

\* Command::needs_sync.
NeedsSync(kinds) == kinds \cap {"append", "durable"} # {}

\* The records the log has accepted: those in the WAL and, while the writer is
\* healthy, those still queued.
Accepted == IF walFailed THEN wal ELSE wal \o commands.frames

\* Records a later answer must cover: all but committed markers.
LastWrite(recs) ==
  LET firm == {i \in DOMAIN recs : recs[i].kind # "committed"}
  IN IF firm = {} THEN 0 ELSE Max(firm)

LogInit ==
  /\ index = EmptyIndex
  /\ handle = "closed"
  /\ wal = <<>> /\ walSynced = 0 /\ segment = "none"
  /\ commands = NoCommands /\ taken = {}
  /\ walWriter = "none" /\ walFailed = FALSE
  /\ caller = "idle" /\ casting = 0
  /\ kept = 0
  /\ follows = [v \in 1..MaxTerm |-> 0]
  /\ lostLog = FALSE
  /\ damaged = "no"
  /\ writes = 0

Init == VoteInit /\ LogInit

----------------------------------------------------------------------------
(* openraft's calls.  GroupLog::write changes the index and queues the     *)
(* command under one lock.                                                 *)

Ready == handle = "open" /\ caller = "idle" /\ saving[Mine] = 0 /\ writes < MaxWrites

Write(ix, kind, frames) ==
  /\ index' = ix
  /\ commands' = [frames |-> commands.frames \o frames, kinds |-> commands.kinds \cup {kind}]
  /\ writes' = writes + 1
  /\ UNCHANGED <<voteVars, handle, wal, walSynced, segment, taken, walWriter, walFailed, kept,
                 lostLog, damaged>>

EntryRecord(t, i) == [kind |-> "entry", id |-> [term |-> t, index |-> i]]

\* append: a contiguous run of one term, admitted whole or not at all; the callback is
\* answered later.
AppendEntries(t, first, last) ==
  /\ Ready
  /\ first > index.committed.index
  /\ t >= LastLogId(index).term
  /\ Admits(index, first)
  /\ LET run == [k \in 1..(last - first + 1) |-> EntryRecord(t, first + k - 1)]
     IN Write(ApplyAll(index, run), "append", run)
  /\ UNCHANGED <<caller, casting, follows>>

\* truncate_after waits for the fsync of its marker.
TruncateAfter(id) ==
  /\ Ready
  /\ id \in {NoId, index.purged} \/ Holds(index, id)
  /\ id.index >= index.committed.index
  /\ Write(Truncate(index, id), "durable", <<[kind |-> "truncate", id |-> id]>>)
  /\ caller' = "marker"
  /\ UNCHANGED <<casting, follows>>

\* purge waits too.  It follows a snapshot: of committed entries, or one installed from
\* the leader that lies past the whole log.
PurgeLog(id) ==
  /\ Ready
  /\ Above(id, index.purged)
  /\ \/ Holds(index, id) /\ id.index <= index.committed.index
     \/ id.index > LastLogId(index).index /\ id.term >= LastLogId(index).term
  /\ Write(Purge(index, id), "durable", <<[kind |-> "purge", id |-> id]>>)
  /\ caller' = "marker"
  /\ UNCHANGED <<casting, follows>>

\* save_committed queues its marker and waits for nothing.
SaveCommitted(id) ==
  /\ Ready
  /\ Holds(index, id)
  /\ Above(id, index.committed)
  /\ Write(Commit(index, id), "lazy", <<[kind |-> "committed", id |-> id]>>)
  /\ UNCHANGED <<caller, casting, follows>>

\* Mutant: the vote does not wait for the log writes before it.
SaveVote_NoFence(v) ==
  /\ Ready
  /\ v > latest[Mine]
  /\ Write(index, "fence", <<>>)
  /\ caller' = "cast"
  /\ casting' = v
  /\ follows' = IF <<Mine, v>> \in VotesIn(file) THEN follows
                ELSE [follows EXCEPT ![v] = LastWrite(Accepted)]

\* save_vote first waits behind a fence.
SaveVote(v) ==
  /\ Ready
  /\ v > latest[Mine]
  /\ Write(index, "fence", <<>>)
  /\ caller' = "fence"
  /\ casting' = v
  /\ follows' = IF <<Mine, v>> \in VotesIn(file) THEN follows
                ELSE [follows EXCEPT ![v] = LastWrite(Accepted)]

\* Only then is the vote queued on the vote log.
CastVote ==
  /\ caller = "cast"
  /\ Save(Mine, casting)
  /\ caller' = "idle"
  /\ casting' = 0
  /\ UNCHANGED <<index, handle, wal, walSynced, segment, commands, taken, walWriter,
                 walFailed, kept, follows, lostLog, damaged, writes>>

----------------------------------------------------------------------------
(* The writer thread.                                                      *)

\* What the caller awaits once the batch is answered: an error abandons its call.
Answer(kinds, ok) ==
  IF handle # "open" \/ kinds \cap {"durable", "fence"} = {}
  THEN UNCHANGED <<caller, casting>>
  ELSE IF caller = "fence" /\ ok
       THEN caller' = "cast" /\ UNCHANGED casting
       ELSE caller' = "idle" /\ casting' = 0

\* Mutant: committed markers go to the WAL ahead of the batch they were queued behind.
TakeCommands_MarkersFirst ==
  /\ walWriter = "idle" /\ commands.kinds # {} /\ ~walFailed
  /\ taken' = commands.kinds
  /\ commands' = NoCommands
  /\ walWriter' = "written"
  /\ wal' = wal \o SelectSeq(commands.frames, LAMBDA r : r.kind = "committed")
                \o SelectSeq(commands.frames, LAMBDA r : r.kind # "committed")
  /\ UNCHANGED <<voteVars, index, handle, walSynced, segment, walFailed, caller, casting,
                 kept, follows, lostLog, damaged, writes>>

\* Writer::run takes all that is queued; Writer::flush appends its frames, or as many
\* as the WAL takes before an append fails.
TakeCommands ==
  /\ walWriter = "idle" /\ commands.kinds # {} /\ ~walFailed
  /\ taken' = commands.kinds
  /\ commands' = NoCommands
  /\ walWriter' = "written"
  /\ \E n \in 0..Len(commands.frames) :
       /\ wal' = wal \o SubSeq(commands.frames, 1, n)
       /\ walFailed' = (n < Len(commands.frames))
  /\ UNCHANGED <<voteVars, index, handle, walSynced, segment, caller, casting, kept, follows,
                 lostLog, damaged, writes>>

\* One fsync if a command needs it, then every answer.
AnswerCommands ==
  /\ walWriter = "written" /\ ~walFailed
  /\ IF NeedsSync(taken)
     THEN walSynced' = Len(wal) /\ kept' = Len(wal)
     ELSE UNCHANGED <<walSynced, kept>>
  /\ Answer(taken, TRUE)
  /\ taken' = {}
  /\ walWriter' = "idle"
  /\ UNCHANGED <<voteVars, index, handle, wal, segment, commands, walFailed, follows, lostLog,
                 damaged, writes>>

\* Writer::fail: the append or the fsync failed, and so does every command of the batch.
FailCommands ==
  /\ walWriter = "written" /\ (walFailed \/ NeedsSync(taken))
  /\ walFailed' = TRUE
  /\ Answer(taken, FALSE)
  /\ taken' = {}
  /\ walWriter' = "idle"
  /\ UNCHANGED <<voteVars, index, handle, wal, walSynced, segment, commands, kept, follows,
                 lostLog, damaged, writes>>

\* After the first failure every command fails.
RejectCommands ==
  /\ walWriter = "idle" /\ commands.kinds # {} /\ walFailed
  /\ Answer(commands.kinds, FALSE)
  /\ commands' = NoCommands
  /\ UNCHANGED <<voteVars, index, handle, wal, walSynced, segment, taken, walWriter,
                 walFailed, kept, follows, lostLog, damaged, writes>>

\* A dropped log's writer drains its channel, then releases group.lock.
ExitLogWriter ==
  /\ handle = "closing" /\ walWriter = "idle" /\ commands = NoCommands
  /\ walWriter' = "none"
  /\ handle' = "closed"
  /\ UNCHANGED <<voteVars, index, wal, walSynced, segment, commands, taken, walFailed, caller,
                 casting, kept, follows, lostLog, damaged, writes>>

LogWriter ==
  \/ TakeCommands \/ AnswerCommands \/ FailCommands \/ RejectCommands \/ ExitLogWriter

----------------------------------------------------------------------------
(* Open, close and the faults.                                             *)

CanOpen == handle = "closed" /\ walWriter = "none" /\ voteWriter # "none" /\ ~closing

\* GroupLog::open_with: a vote without a log is refused.
RefuseLog ==
  /\ CanOpen
  /\ latest[Mine] > 0 /\ segment = "none"
  /\ lostLog' = TRUE
  /\ UNCHANGED <<voteVars, index, handle, wal, walSynced, segment, commands, taken, walWriter,
                 walFailed, caller, casting, kept, follows, damaged, writes>>

\* Mutant: the replayed index is exposed without fsyncing the recovered WAL.
OpenLog_NoFsync ==
  /\ CanOpen
  /\ latest[Mine] = 0 \/ segment # "none"
  /\ ~Rejected(wal)
  /\ index' = Replay(wal)
  /\ kept' = Len(wal)
  /\ segment' = "durable"
  /\ handle' = "open" /\ walWriter' = "idle" /\ walFailed' = FALSE
  /\ UNCHANGED <<voteVars, wal, walSynced, commands, taken, caller, casting, follows, lostLog,
                 damaged, writes>>

\* Mutant: a missing segment is created whether or not the group has voted.
OpenLog_NoVoteCheck ==
  /\ CanOpen
  /\ ~Rejected(wal)
  /\ index' = Replay(wal)
  /\ walSynced' = Len(wal) /\ kept' = Len(wal)
  /\ segment' = "durable"
  /\ handle' = "open" /\ walWriter' = "idle" /\ walFailed' = FALSE
  /\ UNCHANGED <<voteVars, wal, commands, taken, caller, casting, follows, lostLog, damaged,
                 writes>>

\* recover: open or create the segment, replay, fsync both it and its directory, and
\* only then expose the index.
OpenLog ==
  /\ CanOpen
  /\ latest[Mine] = 0 \/ segment # "none"
  /\ ~Rejected(wal)
  /\ index' = Replay(wal)
  /\ walSynced' = Len(wal) /\ kept' = Len(wal)
  /\ segment' = "durable"
  /\ handle' = "open" /\ walWriter' = "idle" /\ walFailed' = FALSE
  /\ UNCHANGED <<voteVars, wal, commands, taken, caller, casting, follows, lostLog, damaged,
                 writes>>

\* The same open, its fsync failing: the segment may exist without being durable.
OpenLogFails ==
  /\ CanOpen
  /\ latest[Mine] = 0 \/ segment # "none"
  /\ ~Rejected(wal)
  /\ segment' = IF segment = "none" THEN "created" ELSE segment
  /\ UNCHANGED <<voteVars, index, handle, wal, walSynced, commands, taken, walWriter,
                 walFailed, caller, casting, kept, follows, lostLog, damaged, writes>>

\* The host shuts down: it drops the group's Raft, and with it the log and the vote
\* log's handles; the writers go on.
CloseHost ==
  /\ handle = "open"
  /\ CloseVotes
  /\ handle' = "closing"
  /\ caller' = "idle" /\ casting' = 0
  /\ UNCHANGED <<index, wal, walSynced, segment, commands, taken, walWriter, walFailed, kept,
                 follows, lostLog, damaged, writes>>

\* The group's WAL files are lost while no writer runs (a wiped or replaced disk): what
\* was promised about them is void.
DamageLog ==
  /\ damaged = "no"
  /\ handle = "closed" /\ walWriter = "none" /\ segment # "none"
  /\ wal' = <<>> /\ walSynced' = 0 /\ segment' = "none"
  /\ kept' = 0 /\ follows' = [v \in 1..MaxTerm |-> 0]
  /\ damaged' = IF promised[Mine] > 0 THEN "voted" ELSE "unvoted"
  /\ UNCHANGED <<voteVars, index, handle, commands, taken, walWriter, walFailed, caller,
                 casting, lostLog, writes>>

LogMemoryLost ==
  /\ index' = EmptyIndex
  /\ commands' = NoCommands /\ taken' = {}
  /\ walWriter' = "none" /\ walFailed' = FALSE
  /\ handle' = "closed"
  /\ caller' = "idle" /\ casting' = 0

\* A kill keeps what was written; a power loss keeps what was fsynced and any more.
Kill ==
  /\ KillVotes
  /\ LogMemoryLost
  /\ UNCHANGED <<wal, walSynced, segment>>

LosePower ==
  /\ LosePowerVotes
  /\ LogMemoryLost
  /\ \E n \in walSynced..Len(wal) :
       /\ wal' = SubSeq(wal, 1, n)
       /\ walSynced' = n
       /\ \/ segment' = segment
          \/ segment = "created" /\ n = 0 /\ segment' = "none"

Crash ==
  /\ voteCrashes < MaxCrashes
  /\ voteCrashes' = voteCrashes + 1
  /\ Kill \/ LosePower
  /\ UNCHANGED <<kept, follows, lostLog, damaged, writes>>

\* The vote log's own steps.  The group's writer holds a handle on it, so its thread
\* exits only after that writer.
VoteStep ==
  /\ \/ VoteWriter /\ (voteWriter' = "none" => walWriter = "none")
     \/ OpenVotes \/ OpenVotesFails \/ RefuseVotes
     \/ handle = "closed" /\ CloseVotes
  /\ UNCHANGED logVars

\* Another group of the node saves a vote in the same vote log.
OthersVote(g, v) ==
  /\ writes < MaxWrites
  /\ Save(g, v)
  /\ writes' = writes + 1
  /\ UNCHANGED <<index, handle, wal, walSynced, segment, commands, taken, walWriter,
                 walFailed, caller, casting, kept, follows, lostLog, damaged>>

\* Bound: an append carries at most two entries, of one term.  The writer takes
\* consecutive appends as it takes one, so a longer or mixed run is a sequence of
\* these.
Calls ==
  \/ \E t \in 1..MaxTerm, first, last \in 0..MaxIndex :
       first <= last /\ last <= first + 1 /\ AppendEntries(t, first, last)
  \/ \E id \in LogIds \cup {NoId} : TruncateAfter(id)
  \/ \E id \in LogIds : PurgeLog(id) \/ SaveCommitted(id)
  \/ \E v \in 1..MaxTerm : SaveVote(v)
  \/ CastVote

Next ==
  \/ Calls \/ LogWriter
  \/ RefuseLog \/ OpenLog \/ OpenLogFails \/ CloseHost \/ DamageLog
  \/ VoteStep \/ Crash
  \/ \E g \in Groups \ {Mine}, v \in 1..MaxTerm : OthersVote(g, v)

Spec == Init /\ [][Next]_vars

----------------------------------------------------------------------------
TypeOK ==
  /\ \A i \in DOMAIN index.entries : i \in 0..MaxIndex /\ index.entries[i] \in 1..MaxTerm
  /\ {index.purged, index.committed} \subseteq LogIds \cup {NoId}
  /\ handle \in {"closed", "open", "closing"}
  /\ wal \in Seq(Records)
  /\ 0 <= kept /\ kept <= walSynced /\ walSynced <= Len(wal)
  /\ segment \in {"none", "created", "durable"}
  /\ commands \in [frames : Seq(Records), kinds : SUBSET Kinds]
  /\ taken \subseteq Kinds
  /\ walWriter \in {"none", "idle", "written"}
  /\ caller \in {"idle", "marker", "fence", "cast"}
  /\ casting \in 0..MaxTerm
  /\ follows \in [1..MaxTerm -> Nat]
  /\ {walFailed, lostLog} \subseteq BOOLEAN
  /\ damaged \in {"no", "unvoted", "voted"}
  /\ writes \in 0..MaxWrites

Durable == INSTANCE DurableLog WITH records <- Accepted, kept <- kept, wiped <- damaged # "no"

\* Refinement: for openraft the log is a sequence of records that loses, to a kill, a
\* power loss, a failed write or a reopen, only a suffix no answer and no earlier open
\* covered, and never reorders or drops one in the middle.  Only the loss of the WAL's
\* files wipes it.
ImplementsDurableLog == Durable!Spec

\* While the writer is healthy, what readers see is what a replay of the WAL and the
\* queued frames would rebuild: the index and the WAL never disagree on the order of
\* writes.
IndexIsReplay ==
  handle = "open" /\ ~walFailed => index = Replay(Accepted)

\* Whatever prefix a power loss leaves, the next open replays it: no entry in it is
\* refused as a hole, and its committed id never lies past its entries.
EveryPrefixReplays ==
  \A n \in walSynced..Len(wal) :
    LET left == SubSeq(wal, 1, n)
    IN /\ ~Rejected(left)
       /\ Replay(left).committed.index <= LastLogId(Replay(left)).index

\* A vote that could be read back after a crash follows every log write save_vote was
\* called after: those are on the disk before the vote reaches its file.
VotesFollowTheLog ==
  \A v \in 1..MaxTerm : <<Mine, v>> \in VotesIn(file) => follows[v] <= walSynced

\* A replica that voted never finds its own log gone, so crashes alone never tell it
\* to rejoin.
VotersKeepTheirLog == lostLog => damaged # "no"

\* A replica whose WAL was lost after it voted never comes up with an empty log, from
\* which it could vote away entries it acknowledged.
LostLogsAreRefused == damaged = "voted" => handle = "closed"

\* Index and WAL: types, the index is the replay of what was written, and
\* every prefix a power loss may leave replays (log_store.rs, apply and write).
IndexInv == TypeOK /\ IndexIsReplay /\ EveryPrefixReplays

\* A group that voted never starts with an empty log, and is never refused
\* while its files are there (log_store.rs, open_with and lost).
VotersHaveTheirLog == VotersKeepTheirLog /\ LostLogsAreRefused
=============================================================================
