--------------------------- MODULE GroupLogProof ---------------------------
(***************************************************************************)
(* A group's log implements DurableLog, its vote log never forgets a vote, *)
(* no vote is stored before the log it was cast on, no group that voted    *)
(* starts without its log, and the index is always a replay of the log:    *)
(* for any groups, terms, indexes, sector size, number of writes and       *)
(* number of faults.                                                       *)
(*                                                                         *)
(* What DurableLog may forget is decided at a crash, by what was fsynced,  *)
(* while what it must keep is decided by answers and opens; PrefixInv ties *)
(* the two: what must be kept is synced, and what is synced is written.    *)
(* It also says that no frame waits in the channel while no writer runs,   *)
(* without which an open would make old frames reappear.                   *)
(*                                                                         *)
(* VoteFileInv does the same for the vote log, where the scan takes the    *)
(* last record of a group for its vote: the file is in order, group by     *)
(* group, so the last record is the highest.  CallInv, SyncInv and         *)
(* FollowInv carry a vote from the call of save_vote through its fence to  *)
(* the shared file; VoterInv carries the same for a log that is new or was *)
(* lost.  ReplayInv says of every prefix of the log, the frames still in   *)
(* the channel included, that it replays to a sound index.                 *)
(***************************************************************************)
EXTENDS GroupLog, SequenceTheorems, FiniteSetTheorems, TLAPS

PrefixInv ==
  /\ wal \in Seq(Records)
  /\ commands.frames \in Seq(Records)
  /\ kept \in Nat /\ walSynced \in Nat
  /\ kept <= walSynced /\ walSynced <= Len(wal)
  /\ walWriter = "none" => commands = NoCommands
  /\ handle = "open" => walWriter # "none"

----------------------------------------------------------------------------
(* Sequences.                                                              *)

(* A sequence is a prefix of what extends it. *)
LEMMA PrefixOfConcat ==
  ASSUME NEW S, NEW s \in Seq(S), NEW t \in Seq(S)
  PROVE  IsPrefix(s, s \o t)
<1>1. SubSeq(s \o t, 1, Len(s)) = SubSeq(s, 1, Len(s))
  <2>1. CASE Len(s) = 0
    BY <2>1, SubSeqEmpty, LenProperties
  <2>2. CASE Len(s) > 0
    BY <2>2, SubSeqOfConcat1, LenProperties
  <2> QED
    BY <2>1, <2>2, LenProperties
<1> QED
  BY <1>1, ConcatProperties, LenProperties DEF IsPrefix

(* An initial part of a sequence is a sequence and a prefix. *)
LEMMA InitialPart ==
  ASSUME NEW S, NEW s \in Seq(S), NEW n \in 0..Len(s)
  PROVE  /\ SubSeq(s, 1, n) \in Seq(S)
         /\ Len(SubSeq(s, 1, n)) = n
         /\ s = SubSeq(s, 1, n) \o SubSeq(s, n + 1, Len(s))
         /\ SubSeq(s, n + 1, Len(s)) \in Seq(S)
<1>1. Len(s) \in Nat /\ s \in [1..Len(s) -> S]
  BY LenProperties
<1>2. SubSeq(s, 1, n) \in Seq(S) /\ Len(SubSeq(s, 1, n)) = n
  BY <1>1, SubSeqProperties
<1>3. SubSeq(s, n + 1, Len(s)) \in Seq(S)
  BY <1>1, SubSeqProperties
<1>4. s = SubSeq(s, 1, n) \o SubSeq(s, n + 1, Len(s))
  <2>1. 1 \in 1..(Len(s) + 1) /\ n \in (1 - 1)..Len(s) /\ Len(s) \in n..Len(s)
    BY <1>1
  <2>2. SubSeq(s, 1, n) \o SubSeq(s, n + 1, Len(s)) = SubSeq(s, 1, Len(s))
    BY <2>1, ConcatAdjacentSubSeq
  <2> QED
    BY <2>2, SubSeqFull
<1> QED
  BY <1>2, <1>3, <1>4

----------------------------------------------------------------------------
(* The invariant.                                                          *)

(* A fresh log satisfies PrefixInv. *)
LEMMA PrefixInit == Init => PrefixInv
<1> SUFFICES ASSUME Init PROVE PrefixInv
  OBVIOUS
<1>1. <<>> \in Seq(Records) /\ Len(<<>>) = 0
  OBVIOUS
<1>2. commands = NoCommands /\ commands.frames = <<>>
  BY DEF Init, LogInit, NoCommands
<1>3. wal = <<>> /\ walSynced = 0 /\ kept = 0 /\ handle = "closed"
  BY DEF Init, LogInit
<1> QED
  BY <1>1, <1>2, <1>3 DEF PrefixInv

(* A run of entries is a sequence of records. *)
LEMMA RunIsRecords ==
  ASSUME NEW t \in 1..MaxTerm, NEW first \in 0..MaxIndex, NEW last \in 0..MaxIndex,
         first <= last
  PROVE  [k \in 1..(last - first + 1) |-> EntryRecord(t, first + k - 1)] \in Seq(Records)
<1>1. MaxIndex \in Nat /\ last - first + 1 \in Nat
  BY GroupLogAssumption
<1>2. \A k \in 1..(last - first + 1) : EntryRecord(t, first + k - 1) \in Records
  BY <1>1 DEF EntryRecord, Records, LogIds
<1> QED
  BY <1>1, <1>2

(* A call that queues frames keeps the invariant. *)
LEMMA WriteKeepsInv ==
  ASSUME PrefixInv, NEW ix, NEW kind, NEW frames \in Seq(Records),
         Write(ix, kind, frames), handle = "open"
  PROVE  PrefixInv'
<1>1. commands'.frames = commands.frames \o frames
  BY DEF Write
<1>2. commands'.frames \in Seq(Records)
  BY <1>1, ConcatProperties DEF PrefixInv
<1> QED
  BY <1>2 DEF PrefixInv, Write

(* Every call of openraft but the cast queues a sequence of records. *)
LEMMA CallsWrite ==
  ASSUME Calls
  PROVE  \/ CastVote
         \/ /\ handle = "open"
            /\ \E ix, kind : \E frames \in Seq(Records) : Write(ix, kind, frames)
<1>1. ASSUME NEW t \in 1..MaxTerm, NEW first \in 0..MaxIndex, NEW last \in 0..MaxIndex,
             first <= last, AppendEntries(t, first, last)
      PROVE  /\ handle = "open"
             /\ \E ix, kind : \E frames \in Seq(Records) : Write(ix, kind, frames)
  BY <1>1, RunIsRecords DEF AppendEntries, Ready
<1>2. \A id \in LogIds \cup {NoId} : \A k \in {"truncate", "purge", "committed"} :
        <<[kind |-> k, id |-> id]>> \in Seq(Records)
  BY DEF Records
<1>3. ASSUME NEW id \in LogIds \cup {NoId}, TruncateAfter(id)
      PROVE  /\ handle = "open"
             /\ \E ix, kind : \E frames \in Seq(Records) : Write(ix, kind, frames)
  BY <1>2, <1>3 DEF TruncateAfter, Ready
<1>4. ASSUME NEW id \in LogIds, PurgeLog(id)
      PROVE  /\ handle = "open"
             /\ \E ix, kind : \E frames \in Seq(Records) : Write(ix, kind, frames)
  BY <1>2, <1>4 DEF PurgeLog, Ready
<1>5. ASSUME NEW id \in LogIds, SaveCommitted(id)
      PROVE  /\ handle = "open"
             /\ \E ix, kind : \E frames \in Seq(Records) : Write(ix, kind, frames)
  BY <1>2, <1>5 DEF SaveCommitted, Ready
<1>6. ASSUME NEW v \in 1..MaxTerm, SaveVote(v)
      PROVE  /\ handle = "open"
             /\ \E ix, kind : \E frames \in Seq(Records) : Write(ix, kind, frames)
  <2>1. <<>> \in Seq(Records)
    OBVIOUS
  <2>2. handle = "open" /\ Write(index, "fence", <<>>)
    BY <1>6 DEF SaveVote, Ready
  <2> QED
    BY <2>1, <2>2
<1> QED
  BY <1>1, <1>3, <1>4, <1>5, <1>6 DEF Calls

(* Every step keeps it.  Only an answered fsync and an open move `kept`, and both move *)
(* `walSynced` with it; only the crashes shorten the WAL, and not below `walSynced`.   *)
LEMMA PrefixStep == PrefixInv /\ [Next]_vars => PrefixInv'
<1> SUFFICES ASSUME PrefixInv, [Next]_vars PROVE PrefixInv'
  OBVIOUS
<1>a. /\ Len(wal) \in Nat
      /\ <<>> \in Seq(Records) /\ Len(<<>>) = 0
      /\ NoCommands.frames = <<>>
  BY LenProperties DEF PrefixInv, NoCommands
<1>1. CASE UNCHANGED vars
  BY <1>1 DEF vars, logVars, PrefixInv
<1>2. CASE Calls
  <2>1. CASE CastVote
    BY <2>1 DEF CastVote, PrefixInv
  <2>2. CASE handle = "open" /\ \E ix, kind : \E frames \in Seq(Records) : Write(ix, kind, frames)
    BY <2>2, WriteKeepsInv
  <2> QED
    BY <1>2, <2>1, <2>2, CallsWrite
<1>3. CASE TakeCommands
  <2>1. PICK n \in 0..Len(commands.frames) : wal' = wal \o SubSeq(commands.frames, 1, n)
    BY <1>3 DEF TakeCommands
  <2>2. SubSeq(commands.frames, 1, n) \in Seq(Records)
    BY InitialPart DEF PrefixInv
  <2>3. wal' \in Seq(Records) /\ Len(wal') \in Nat /\ Len(wal') >= Len(wal)
    BY <2>1, <2>2, ConcatProperties, LenProperties DEF PrefixInv
  <2>4. commands' = NoCommands /\ UNCHANGED <<kept, walSynced, handle>> /\ walWriter' = "written"
    BY <1>3 DEF TakeCommands
  <2>5. commands'.frames \in Seq(Records) /\ walWriter' # "none"
    BY <1>a, <2>4
  <2>6. walSynced' <= Len(wal')
    BY <1>a, <2>3, <2>4 DEF PrefixInv
  <2> QED
    BY <2>3, <2>4, <2>5, <2>6 DEF PrefixInv
<1>4. CASE AnswerCommands
  BY <1>4, <1>a DEF AnswerCommands, PrefixInv
<1>5. CASE FailCommands
  BY <1>5 DEF FailCommands, PrefixInv
<1>6. CASE RejectCommands
  BY <1>6, <1>a DEF RejectCommands, PrefixInv
<1>7. CASE ExitLogWriter
  BY <1>7 DEF ExitLogWriter, PrefixInv
<1>8. CASE RefuseLog
  BY <1>8 DEF RefuseLog, PrefixInv
<1>9. CASE OpenLog
  BY <1>9, <1>a DEF OpenLog, PrefixInv
<1>10. CASE OpenLogFails
  BY <1>10 DEF OpenLogFails, PrefixInv
<1>11. CASE CloseHost
  BY <1>11 DEF CloseHost, PrefixInv
<1>12. CASE DamageLog
  BY <1>12, <1>a DEF DamageLog, PrefixInv
<1>13. CASE VoteStep
  BY <1>13 DEF VoteStep, logVars, PrefixInv
<1>15. ASSUME NEW g \in Groups \ {Mine}, NEW v \in 1..MaxTerm, OthersVote(g, v) PROVE PrefixInv'
  BY <1>15 DEF OthersVote, PrefixInv
<1>14. CASE Crash
  <2>1. commands' = NoCommands /\ handle' = "closed" /\ kept' = kept
    BY <1>14 DEF Crash, Kill, LosePower, LogMemoryLost
  <2>2. CASE Kill
    BY <1>a, <2>1, <2>2 DEF Kill, PrefixInv
  <2>3. CASE LosePower
    <3>1. PICK n \in walSynced..Len(wal) : wal' = SubSeq(wal, 1, n) /\ walSynced' = n
      BY <2>3 DEF LosePower
    <3>2. n \in 0..Len(wal)
      BY <1>a, <3>1 DEF PrefixInv
    <3>3. wal' \in Seq(Records) /\ Len(wal') = n
      BY <3>1, <3>2, InitialPart DEF PrefixInv
    <3>4. walSynced' \in Nat /\ kept <= walSynced' /\ walSynced' <= Len(wal')
      BY <1>a, <3>1, <3>2, <3>3 DEF PrefixInv
    <3>5. commands'.frames \in Seq(Records)
      BY <1>a, <2>1
    <3> QED
      BY <2>1, <3>3, <3>4, <3>5 DEF PrefixInv
  <2> QED
    BY <1>14, <2>2, <2>3 DEF Crash
<1> QED
  BY <1>1, <1>2, <1>3, <1>4, <1>5, <1>6, <1>7, <1>8, <1>9, <1>10, <1>11, <1>12, <1>13, <1>14,
     <1>15 DEF Next, LogWriter

(* PrefixInv holds of every behaviour. *)
THEOREM AnsweredIsSynced == Spec => []PrefixInv
<1>1. Init => PrefixInv
  BY PrefixInit
<1>2. PrefixInv /\ [Next]_vars => PrefixInv'
  BY PrefixStep
<1> QED
  BY <1>1, <1>2, PTL DEF Spec

----------------------------------------------------------------------------
(* The refinement.                                                         *)

(* Concatenation of records associates. *)
LEMMA RecordsAssociate ==
  \A s, t, u \in Seq(Records) : (s \o t) \o u = s \o (t \o u)
BY ConcatAssociative

(* What the log has accepted starts with its WAL. *)
LEMMA AcceptedFacts ==
  ASSUME PrefixInv
  PROVE  /\ Accepted \in Seq(Records)
         /\ kept \in Nat /\ kept <= Len(wal) /\ Len(wal) \in Nat
         /\ wal \o <<>> = wal
         /\ Len(Accepted) \in Nat /\ Len(wal) <= Len(Accepted)
<1>1. Len(wal) \in Nat /\ Len(commands.frames) \in Nat /\ wal \o <<>> = wal
  BY LenProperties, ConcatEmptySeq DEF PrefixInv
<1>2. wal \o commands.frames \in Seq(Records)
      /\ Len(wal \o commands.frames) = Len(wal) + Len(commands.frames)
  BY ConcatProperties DEF PrefixInv
<1> QED
  BY <1>1, <1>2 DEF PrefixInv, Accepted

(* Losing a suffix that `kept` does not reach is a Forget step. *)
LEMMA ForgetStep ==
  ASSUME NEW a \in Seq(Records), NEW b \in Seq(Records),
         Accepted = a \o b, Accepted' = a, kept' = kept, kept \in Nat, kept <= Len(a),
         damaged' = damaged
  PROVE  Durable!Next
<1>1. IsPrefix(a, a \o b)
  BY PrefixOfConcat
<1>2. kept' \in kept..Len(a)
  BY LenProperties
<1> QED
  BY <1>1, <1>2 DEF Durable!Next, Durable!Forget, Durable!IsPrefix, IsPrefix

(* A longer sequence, with the same `kept`, is an Accept step. *)
LEMMA AcceptStep ==
  ASSUME NEW b \in Seq(Records), Accepted \in Seq(Records),
         Accepted' = Accepted \o b, kept' = kept, damaged' = damaged
  PROVE  Durable!Next
<1>1. IsPrefix(Accepted, Accepted \o b)
  BY PrefixOfConcat
<1> QED
  BY <1>1 DEF Durable!Next, Durable!Accept, Durable!IsPrefix, IsPrefix

(* A group's fresh log is a fresh DurableLog. *)
LEMMA RefineInit == Init => Durable!Init
<1> SUFFICES ASSUME Init PROVE Durable!Init
  OBVIOUS
<1>1. wal = <<>> /\ commands.frames = <<>> /\ kept = 0 /\ damaged = "no"
  BY DEF Init, LogInit, NoCommands
<1>2. <<>> \o <<>> = <<>>
  OBVIOUS
<1> QED
  BY <1>1, <1>2 DEF Durable!Init, Accepted

(* One step per action: calls accept, answers and opens keep, failures and crashes     *)
(* forget, everything else stutters.                                                   *)
LEMMA RefineStep ==
  ASSUME PrefixInv, PrefixInv', [Next]_vars
  PROVE  [Durable!Next]_(Durable!durableVars)
<1> DEFINE Stutter == Accepted' = Accepted /\ kept' = kept /\ damaged' = damaged
<1>a. Stutter => UNCHANGED Durable!durableVars
  BY DEF Durable!durableVars
<1>b. /\ Accepted \in Seq(Records)
      /\ kept \in Nat /\ kept <= Len(wal) /\ Len(wal) \in Nat
      /\ wal \o <<>> = wal
      /\ Len(wal) <= Len(Accepted) /\ Len(Accepted) \in Nat
  BY AcceptedFacts
<1>c. NoCommands.frames = <<>>
  BY DEF NoCommands
<1>d. /\ wal \in Seq(Records) /\ commands.frames \in Seq(Records)
      /\ wal' \in Seq(Records)
  BY DEF PrefixInv
<1>e. Accepted' = IF walFailed' THEN wal' ELSE wal' \o commands'.frames
  BY DEF Accepted
<1>f. UNCHANGED <<wal, commands, walFailed>> => Accepted' = Accepted
  BY DEF Accepted
<1>1. CASE UNCHANGED vars
  BY <1>1, <1>a, <1>f DEF vars, logVars
<1>2. CASE Calls
  <2>1. CASE CastVote
    BY <2>1, <1>a, <1>f DEF CastVote
  <2>2. CASE \E ix, kind : \E frames \in Seq(Records) : Write(ix, kind, frames)
    <3>a. PICK ix, kind : \E frames \in Seq(Records) : Write(ix, kind, frames)
      BY <2>2
    <3>1. PICK frames \in Seq(Records) : Write(ix, kind, frames)
      BY <3>a
    <3>2. /\ UNCHANGED <<wal, walFailed, kept, damaged>>
          /\ commands'.frames = commands.frames \o frames
      BY <3>1 DEF Write
    <3>3. CASE walFailed
      BY <3>2, <3>3, <1>a DEF Accepted
    <3>4. CASE ~walFailed
      <4>1. wal \o (commands.frames \o frames) = (wal \o commands.frames) \o frames
        BY <1>d, RecordsAssociate
      <4>2. Accepted' = Accepted \o frames
        BY <3>2, <3>4, <4>1 DEF Accepted
      <4> QED
        BY <1>b, <3>2, <4>2, AcceptStep
    <3> QED
      BY <3>3, <3>4
  <2> QED
    BY <1>2, <2>1, <2>2, CallsWrite
<1>3. CASE TakeCommands
  <2>1. PICK n \in 0..Len(commands.frames) :
          /\ wal' = wal \o SubSeq(commands.frames, 1, n)
          /\ walFailed' = (n < Len(commands.frames))
    BY <1>3 DEF TakeCommands
  <2>2. ~walFailed /\ commands'.frames = <<>> /\ kept' = kept /\ damaged' = damaged
    BY <1>3, <1>c DEF TakeCommands
  <2>3. wal' \o <<>> = wal'
    BY <1>d, ConcatEmptySeq
  <2>4. Accepted' = wal'
    BY <1>e, <2>2, <2>3
  <2> DEFINE done == SubSeq(commands.frames, 1, n)
             rest == SubSeq(commands.frames, n + 1, Len(commands.frames))
  <2>5. done \in Seq(Records) /\ rest \in Seq(Records) /\ commands.frames = done \o rest
    BY <1>d, InitialPart
  <2>6. (wal \o done) \o rest = wal \o (done \o rest)
    BY <1>d, <2>5, RecordsAssociate
  <2>7. Accepted = wal' \o rest
    BY <2>1, <2>2, <2>5, <2>6 DEF Accepted
  <2>8. kept <= Len(wal')
    BY <1>b, <2>2, LenProperties DEF PrefixInv
  <2> QED
    BY <1>b, <1>d, <2>2, <2>4, <2>5, <2>7, <2>8, ForgetStep
<1>4. CASE AnswerCommands
  <2>1. Accepted' = Accepted /\ (kept' = kept \/ kept' = Len(wal)) /\ damaged' = damaged
    BY <1>4, <1>f DEF AnswerCommands
  <2>2. kept' \in kept..Len(Accepted)
    BY <1>b, <2>1
  <2> QED
    BY <2>1, <2>2 DEF Durable!Next, Durable!Keep
<1>5. CASE FailCommands
  <2>1. Accepted' = wal /\ kept' = kept /\ damaged' = damaged
    BY <1>5, <1>e DEF FailCommands
  <2>2. CASE walFailed
    BY <2>1, <2>2, <1>a DEF Accepted
  <2>3. CASE ~walFailed
    <3>1. Accepted = wal \o commands.frames
      BY <2>3 DEF Accepted
    <3> QED
      BY <1>b, <1>d, <2>1, <3>1, ForgetStep
  <2> QED
    BY <2>2, <2>3
<1>6. CASE RejectCommands
  BY <1>6, <1>a DEF RejectCommands, Accepted
<1>7. CASE ExitLogWriter
  BY <1>7, <1>a, <1>f DEF ExitLogWriter
<1>8. CASE RefuseLog
  BY <1>8, <1>a, <1>f DEF RefuseLog
<1>9. CASE OpenLog
  <2>1. commands = NoCommands
    BY <1>9 DEF OpenLog, CanOpen, PrefixInv
  <2>2. Accepted = wal
    BY <1>b, <1>c, <2>1 DEF Accepted
  <2>3. UNCHANGED <<wal, commands, damaged>> /\ kept' = Len(wal)
    BY <1>9 DEF OpenLog
  <2>4. Accepted' = wal
    BY <1>b, <1>c, <1>e, <2>1, <2>3
  <2>5. kept' \in kept..Len(Accepted)
    BY <1>b, <2>2, <2>3
  <2> QED
    BY <2>2, <2>3, <2>4, <2>5 DEF Durable!Next, Durable!Keep
<1>10. CASE OpenLogFails
  BY <1>10, <1>a, <1>f DEF OpenLogFails
<1>11. CASE CloseHost
  BY <1>11, <1>a, <1>f DEF CloseHost
<1>12. CASE DamageLog
  <2>1. commands' = NoCommands /\ wal' = <<>> /\ kept' = 0
    BY <1>12 DEF DamageLog, PrefixInv
  <2>2. <<>> \o <<>> = <<>>
    OBVIOUS
  <2>3. Accepted' = <<>>
    BY <1>c, <1>e, <2>1, <2>2
  <2>4. damaged = "no" /\ damaged' # "no"
    BY <1>12 DEF DamageLog
  <2> QED
    BY <2>1, <2>3, <2>4 DEF Durable!Next, Durable!Wipe
<1>13. CASE VoteStep
  BY <1>13, <1>a, <1>f DEF VoteStep, logVars
<1>15. ASSUME NEW g \in Groups \ {Mine}, NEW v \in 1..MaxTerm, OthersVote(g, v) PROVE Stutter
  BY <1>15, <1>f DEF OthersVote
<1>14. CASE Crash
  <2>1. commands' = NoCommands /\ kept' = kept /\ damaged' = damaged
    BY <1>14 DEF Crash, Kill, LosePower, LogMemoryLost
  <2>2. wal' \o <<>> = wal'
    BY <1>d, ConcatEmptySeq
  <2>3. Accepted' = wal'
    BY <1>c, <1>e, <2>1, <2>2
  <2>4. \E n \in 0..Len(wal) : kept <= n /\ wal' = SubSeq(wal, 1, n)
    <3>1. CASE Kill
      <4>1. wal' = SubSeq(wal, 1, Len(wal))
        BY <3>1, <1>d, SubSeqFull DEF Kill
      <4> QED
        BY <1>b, <4>1
    <3>2. CASE LosePower
      BY <3>2, <1>b DEF LosePower, PrefixInv
    <3> QED
      BY <1>14, <3>1, <3>2 DEF Crash
  <2>5. PICK n \in 0..Len(wal) : kept <= n /\ wal' = SubSeq(wal, 1, n)
    BY <2>4
  <2> DEFINE gone == SubSeq(wal, n + 1, Len(wal))
  <2>6. gone \in Seq(Records) /\ wal = wal' \o gone /\ Len(wal') = n
    BY <1>d, <2>5, InitialPart
  <2>7. CASE walFailed
    <3>1. Accepted = wal' \o gone
      BY <2>6, <2>7 DEF Accepted
    <3> QED
      BY <1>b, <1>d, <2>1, <2>3, <2>5, <2>6, <3>1, ForgetStep
  <2>8. CASE ~walFailed
    <3>1. (wal' \o gone) \o commands.frames = wal' \o (gone \o commands.frames)
      BY <1>d, <2>6, RecordsAssociate
    <3>2. Accepted = wal' \o (gone \o commands.frames)
      BY <2>6, <2>8, <3>1 DEF Accepted
    <3>3. gone \o commands.frames \in Seq(Records)
      BY <1>d, <2>6, ConcatProperties
    <3> QED
      BY <1>b, <1>d, <2>1, <2>3, <2>5, <2>6, <3>2, <3>3, ForgetStep
  <2> QED
    BY <2>7, <2>8
<1> QED
  BY <1>1, <1>2, <1>3, <1>4, <1>5, <1>6, <1>7, <1>8, <1>9, <1>10, <1>11, <1>12, <1>13, <1>14,
     <1>15, <1>a DEF Next, LogWriter

(* A group's log is a durable log: it loses, to kills, power losses, failed writes and *)
(* reopens, only a suffix that nothing answered for; only the loss of its files wipes  *)
(* it (log_store.rs, Writer::flush and recover).                                       *)
THEOREM LogIsDurable == Spec => ImplementsDurableLog
<1>1. Init => Durable!Init
  BY RefineInit
<1>2. PrefixInv /\ PrefixInv' /\ [Next]_vars => [Durable!Next]_(Durable!durableVars)
  BY RefineStep
<1>3. Spec => []PrefixInv
  BY AnsweredIsSynced
<1> QED
  BY <1>1, <1>2, <1>3, PTL DEF Spec, ImplementsDurableLog, Durable!Spec

----------------------------------------------------------------------------
(* Induction, and the fold an open replays the log with.                   *)

(* A non-empty set of naturals has a least element. *)
LEMMA LeastExists ==
  ASSUME NEW S \in SUBSET Nat, S # {}
  PROVE  \E x \in S : \A y \in S : x <= y
<1>1. PICK x \in S : \A y \in S : ~(<<y, x>> \in OpToRel(<, Nat))
  BY NatLessThanWellFounded, WFMin
<1>2. ASSUME NEW y \in S PROVE x <= y
  <2>1. ~(<<y, x>> \in {p \in Nat \X Nat : p[1] < p[2]})
    BY <1>1, Zenon DEF OpToRel
  <2>2. <<y, x>> \in Nat \X Nat /\ <<y, x>>[1] = y /\ <<y, x>>[2] = x
    OBVIOUS
  <2> QED
    BY <2>1, <2>2
<1> QED
  BY <1>2

(* Induction up to a bound, over a set. *)
LEMMA UpTo ==
  ASSUME NEW N \in Nat, NEW S, 0 \in S, \A n \in 0..N : n < N /\ n \in S => n + 1 \in S
  PROVE  \A n \in 0..N : n \in S
<1> DEFINE T == {n \in 0..N : n \notin S}
<1>1. SUFFICES ASSUME T # {} PROVE FALSE
  OBVIOUS
<1>2. PICK x \in T : \A y \in T : x <= y
  <2>1. T \in SUBSET Nat
    OBVIOUS
  <2> HIDE DEF T
  <2> QED
    BY <1>1, <2>1, LeastExists
<1>3. x # 0 /\ x - 1 \in 0..N /\ x - 1 \notin T
  BY <1>2
<1>4. x - 1 \in S /\ x - 1 < N /\ (x - 1) + 1 = x
  BY <1>2, <1>3
<1> QED
  BY <1>2, <1>3, <1>4

(* A non-empty set of naturals below a bound has a greatest element, its Max. *)
LEMMA GreatestExists ==
  ASSUME NEW N \in Nat, NEW S \in SUBSET (0..N), S # {}
  PROVE  Max(S) \in S /\ \A y \in S : y <= Max(S)
<1> DEFINE B == {n \in Nat : \A y \in S : y <= n}
<1>1. N \in B /\ B \in SUBSET Nat
  OBVIOUS
<1>2. PICK m \in B : \A n \in B : m <= n
  BY <1>1, LeastExists
<1>3. m \in S
  <2>1. SUFFICES ASSUME m \notin S PROVE FALSE
    OBVIOUS
  <2>2. \A y \in S : y \in Nat /\ y <= m - 1
    BY <1>2, <2>1
  <2>3. m - 1 \in Nat
    <3>1. PICK y : y \in S
      OBVIOUS
    <3>2. y \in Nat /\ y <= m - 1 /\ m \in Nat
      BY <1>2, <2>2, <3>1
    <3> QED
      BY <3>2
  <2>4. m - 1 \in B
    BY <2>2, <2>3
  <2> QED
    BY <1>2, <2>4
<1>4. \E x \in S : \A y \in S : x >= y
  BY <1>2, <1>3
<1> QED
  BY <1>4 DEF Max

(* The indexes a replay goes through. *)
ReplaySteps(ix, recs) ==
  CHOOSE f : f = [n \in 0..Len(recs) |-> IF n = 0 THEN ix ELSE ApplyRecord(f[n - 1], recs[n])]

(* The fold of apply over the scanned records (log_store.rs, Index::apply) *)
(* is well defined.                                                        *)
LEMMA StepsExist ==
  ASSUME NEW ix, NEW recs, Len(recs) \in Nat
  PROVE  \E f : f = [n \in 0..Len(recs) |-> IF n = 0 THEN ix ELSE ApplyRecord(f[n - 1], recs[n])]
<1> DEFINE D(f, m) == f = [n \in 0..m |-> IF n = 0 THEN ix ELSE ApplyRecord(f[n - 1], recs[n])]
           S == {m \in Nat : \E f : D(f, m)}
<1>1. 0 \in S
  <2> DEFINE f == [n \in 0..0 |-> ix]
  <2>1. f = [n \in 0..0 |-> IF n = 0 THEN ix ELSE ApplyRecord(f[n - 1], recs[n])]
    OBVIOUS
  <2> QED
    BY <2>1
<1>2. ASSUME NEW m \in 0..Len(recs), m < Len(recs), m \in S PROVE m + 1 \in S
  <2>1. PICK f : D(f, m)
    BY <1>2
  <2> DEFINE g == [n \in 0..(m + 1) |-> IF n <= m THEN f[n] ELSE ApplyRecord(f[m], recs[m + 1])]
  <2>2. ASSUME NEW n \in 0..(m + 1)
        PROVE  g[n] = IF n = 0 THEN ix ELSE ApplyRecord(g[n - 1], recs[n])
    <3>1. CASE n = 0
      BY <2>1, <3>1
    <3>2. CASE n # 0 /\ n <= m
      <4>1. g[n] = f[n] /\ g[n - 1] = f[n - 1] /\ n \in 0..m
        BY <3>2
      <4>2. f[n] = ApplyRecord(f[n - 1], recs[n])
        BY <2>1, <3>2, <4>1
      <4> QED
        BY <3>2, <4>1, <4>2
    <3>3. CASE n = m + 1
      BY <3>3
    <3> QED
      BY <3>1, <3>2, <3>3
  <2>3. D(g, m + 1)
    BY <2>2
  <2>4. \E h : D(h, m + 1)
    BY <2>3
  <2> QED
    BY <2>4
<1>3. Len(recs) \in S
  <2>1. \A n \in 0..Len(recs) : n < Len(recs) /\ n \in S => n + 1 \in S
    BY <1>2
  <2> HIDE DEF S
  <2>2. \A n \in 0..Len(recs) : n \in S
    BY <1>1, <2>1, UpTo
  <2> QED
    BY <2>2
<1> QED
  BY <1>3

(* What each step of that fold computes, and that ApplyAll is its last *)
(* step.                                                               *)
LEMMA StepsFacts ==
  ASSUME NEW ix, NEW recs, Len(recs) \in Nat
  PROVE  LET f == ReplaySteps(ix, recs)
         IN  /\ f = [n \in 0..Len(recs) |-> IF n = 0 THEN ix ELSE ApplyRecord(f[n - 1], recs[n])]
             /\ f[0] = ix
             /\ \A n \in 1..Len(recs) : f[n] = ApplyRecord(f[n - 1], recs[n])
             /\ ApplyAll(ix, recs) = f[Len(recs)]
<1> DEFINE f == ReplaySteps(ix, recs)
<1>1. f = [n \in 0..Len(recs) |-> IF n = 0 THEN ix ELSE ApplyRecord(f[n - 1], recs[n])]
  BY StepsExist DEF ReplaySteps
<1>2. ApplyAll(ix, recs) = f[Len(recs)]
  BY DEF ApplyAll, ReplaySteps
<1> HIDE DEF f
<1>3. f[0] = ix
  BY <1>1
<1>4. ASSUME NEW n \in 1..Len(recs) PROVE f[n] = ApplyRecord(f[n - 1], recs[n])
  BY <1>1
<1> QED
  BY <1>1, <1>2, <1>3, <1>4 DEF f

----------------------------------------------------------------------------
(* The vote log (vote_log.rs): its inductive invariant.                    *)

(* A group's votes are in order, slot after slot and sector after sector. *)
InOrder(f) ==
  \A k, l \in DOMAIN f : \A i \in DOMAIN f[k], j \in DOMAIN f[l] :
    (k < l \/ (k = l /\ i < j)) /\ f[k][i][1] = f[l][j][1] => f[k][i][2] <= f[l][j][2]

(* No sector is empty. *)
Full(f) == \A k \in DOMAIN f : f[k] # <<>>

(* Every vote promised is in the file, or a higher one is. *)
Holding(f, p) == \A g \in Groups : p[g] # 0 => \E r \in VotesIn(f) : r[1] = g /\ p[g] <= r[2]

(* The file has no vote above those promised. *)
Under(f, p) == \A r \in VotesIn(f) : r[2] <= p[r[1]]

(* At most one vote a group. *)
OneEach(votes) == \A i, j \in DOMAIN votes : votes[i][1] = votes[j][1] => i = j

(* A writer runs. *)
Up == voteWriter # "none"

(* The file: in order, with every promise in its fsynced part, and fully *)
(* fsynced between batches.                                              *)
FileInv ==
  /\ InOrder(file)
  /\ Holding(SubSeq(file, 1, synced), promised)
  /\ Up => latest = promised /\ Full(file)
  /\ voteWriter \in {"idle", "rewriting", "renamed"} /\ ~voteFailed =>
       synced = Len(file) /\ Under(file, promised)

(* The file a rename replaced, which may come back until its directory is *)
(* fsynced.                                                               *)
RenamedInv ==
  /\ \A f \in renamed : InOrder(f) /\ Full(f) /\ Holding(f, promised) /\ Under(f, promised)
  /\ renamed # {} => voteWriter \in {"none", "renamed"} \/ (voteWriter = "idle" /\ voteFailed)
  /\ voteWriter \in {"rewriting", "renamed"} => ~voteFailed

(* The batch between its write and its fsync, and the queue behind it: one *)
(* vote a group, above the one promised.                                   *)
BatchInv ==
  /\ voteWriter = "written" =>
       /\ \A r \in VotesIn(file) : r[2] <= promised[r[1]] \/ r \in ToSet(batch)
       /\ ~voteFailed => ToSet(batch) \subseteq VotesIn(file)
  /\ voteWriter # "written" => batch = <<>>
  /\ OneEach(requests) /\ OneEach(batch)
  /\ \A r \in ToSet(requests), b \in ToSet(batch) : r[1] # b[1]
  /\ \A r \in ToSet(requests) \cup ToSet(batch) :
       /\ Up /\ r[2] > promised[r[1]]
       /\ ~closing => saving[r[1]] = r[2]

(* Where a hole can be: nowhere but at the end, unless a batch spanned *)
(* sectors.                                                            *)
TailInv ==
  /\ ~spanned => Len(file) - synced <= 1 /\ \A k \in DOMAIN file : file[k] = <<>> => k = Len(file)
  /\ refused => spanned

(* The inductive invariant of the vote log. *)
VoteFileInv == VoteTypeOK /\ FileInv /\ RenamedInv /\ BatchInv /\ TailInv
----------------------------------------------------------------------------
(* Sectors.                                                                *)

(* A sector is a short sequence of votes. *)
LEMMA SectorFacts ==
  ASSUME NEW s \in Sector
  PROVE  /\ s \in Seq(Requests) /\ Len(s) \in 0..SlotsPerSector /\ DOMAIN s = 1..Len(s)
         /\ \A i \in DOMAIN s : s[i] \in Requests
         /\ s = <<>> <=> Len(s) = 0
<1>1. PICK n \in 0..SlotsPerSector : s \in [1..n -> Requests]
  BY DEF Sector
<1>2. n \in Nat
  BY VoteLogAssumption
<1>3. s \in Seq(Requests) /\ Len(s) = n
  BY <1>1, <1>2
<1> QED
  BY <1>1, <1>2, <1>3, EmptySeq

(* A vote to be saved is a group and a term above zero. *)
LEMMA RequestFacts ==
  ASSUME NEW r \in Requests
  PROVE  r[1] \in Groups /\ r[2] \in 1..MaxTerm /\ r = <<r[1], r[2]>> /\ r[2] \in Nat /\ r[2] # 0
BY VoteLogAssumption DEF Requests

(* A vote log is a sequence of sectors and every record of it is a vote. *)
LEMMA FileFacts ==
  ASSUME NEW f \in Seq(Sector)
  PROVE  /\ Len(f) \in Nat /\ DOMAIN f = 1..Len(f)
         /\ \A k \in DOMAIN f : f[k] \in Sector
         /\ \A r \in VotesIn(f) : r \in Requests
<1>1. Len(f) \in Nat /\ DOMAIN f = 1..Len(f) /\ \A k \in DOMAIN f : f[k] \in Sector
  BY LenProperties
<1>2. ASSUME NEW r \in VotesIn(f) PROVE r \in Requests
  <2>1. PICK k \in DOMAIN f : r \in ToSet(f[k])
    BY DEF VotesIn
  <2>2. f[k] \in Sector
    BY <1>1, <2>1
  <2> QED
    BY <2>1, <2>2, SectorFacts DEF ToSet
<1> QED
  BY <1>1, <1>2

(* A vote is in a log when some slot of some sector holds it. *)
LEMMA VotesAt ==
  ASSUME NEW f, NEW r
  PROVE  r \in VotesIn(f) <=> \E k \in DOMAIN f : \E i \in DOMAIN f[k] : f[k][i] = r
BY DEF VotesIn, ToSet

(* The sectors of two files put together. *)
LEMMA ConcatSectors ==
  ASSUME NEW f \in Seq(Sector), NEW h \in Seq(Sector)
  PROVE  /\ f \o h \in Seq(Sector) /\ Len(f \o h) = Len(f) + Len(h)
         /\ \A k \in DOMAIN (f \o h) :
              \/ k \in DOMAIN f /\ (f \o h)[k] = f[k]
              \/ k > Len(f) /\ k - Len(f) \in DOMAIN h /\ (f \o h)[k] = h[k - Len(f)]
         /\ \A k \in DOMAIN f : k \in DOMAIN (f \o h) /\ (f \o h)[k] = f[k]
         /\ \A k \in DOMAIN h : k + Len(f) \in DOMAIN (f \o h) /\ (f \o h)[k + Len(f)] = h[k]
<1>1. /\ f \o h \in Seq(Sector) /\ Len(f \o h) = Len(f) + Len(h)
      /\ \A i \in 1..(Len(f) + Len(h)) : (f \o h)[i] = IF i <= Len(f) THEN f[i] ELSE h[i - Len(f)]
  BY ConcatProperties
<1>2. /\ DOMAIN f = 1..Len(f) /\ DOMAIN h = 1..Len(h) /\ Len(f) \in Nat /\ Len(h) \in Nat
      /\ DOMAIN (f \o h) = 1..(Len(f) + Len(h))
  BY <1>1, LenProperties
<1> QED
  BY <1>1, <1>2

(* An append adds the votes it lays out and loses none. *)
LEMMA ConcatVotes ==
  ASSUME NEW f \in Seq(Sector), NEW h \in Seq(Sector)
  PROVE  VotesIn(f \o h) = VotesIn(f) \cup VotesIn(h)
<1>1. ASSUME NEW r \in VotesIn(f \o h) PROVE r \in VotesIn(f) \cup VotesIn(h)
  <2>1. PICK k \in DOMAIN (f \o h) : \E i \in DOMAIN (f \o h)[k] : (f \o h)[k][i] = r
    BY <1>1, VotesAt
  <2>2. CASE k \in DOMAIN f /\ (f \o h)[k] = f[k]
    BY <2>1, <2>2, VotesAt
  <2>3. CASE k - Len(f) \in DOMAIN h /\ (f \o h)[k] = h[k - Len(f)]
    BY <2>1, <2>3, VotesAt
  <2> QED
    BY <2>1, <2>2, <2>3, ConcatSectors
<1>2. ASSUME NEW r \in VotesIn(f) PROVE r \in VotesIn(f \o h)
  <2>1. PICK k \in DOMAIN f : \E i \in DOMAIN f[k] : f[k][i] = r
    BY <1>2, VotesAt
  <2>2. k \in DOMAIN (f \o h) /\ (f \o h)[k] = f[k]
    BY <2>1, ConcatSectors
  <2> QED
    BY <2>1, <2>2, VotesAt
<1>3. ASSUME NEW r \in VotesIn(h) PROVE r \in VotesIn(f \o h)
  <2>1. PICK k \in DOMAIN h : \E i \in DOMAIN h[k] : h[k][i] = r
    BY <1>3, VotesAt
  <2>2. k + Len(f) \in DOMAIN (f \o h) /\ (f \o h)[k + Len(f)] = h[k]
    BY <2>1, ConcatSectors
  <2> QED
    BY <2>1, <2>2, VotesAt
<1> QED
  BY <1>1, <1>2, <1>3

(* Appending sectors that hold records leaves no hole in the log. *)
LEMMA ConcatFull ==
  ASSUME NEW f \in Seq(Sector), NEW h \in Seq(Sector), Full(f), Full(h)
  PROVE  Full(f \o h)
BY ConcatSectors DEF Full

(* Sectors with higher votes may follow. *)
LEMMA ConcatInOrder ==
  ASSUME NEW f \in Seq(Sector), NEW h \in Seq(Sector), InOrder(f), InOrder(h),
         \A r \in VotesIn(f), q \in VotesIn(h) : r[1] = q[1] => r[2] <= q[2]
  PROVE  InOrder(f \o h)
<1> DEFINE u == f \o h
<1> SUFFICES ASSUME NEW k \in DOMAIN u, NEW l \in DOMAIN u, NEW i \in DOMAIN u[k], NEW j \in DOMAIN u[l],
                    k < l \/ (k = l /\ i < j), u[k][i][1] = u[l][j][1]
             PROVE  u[k][i][2] <= u[l][j][2]
  BY DEF InOrder
<1>0. Len(f) \in Nat /\ DOMAIN f = 1..Len(f) /\ k \in Nat /\ l \in Nat
  <2>1. u \in Seq(Sector)
    BY ConcatSectors
  <2> QED
    BY <2>1, FileFacts
<1>1. \/ k \in DOMAIN f /\ u[k] = f[k]
      \/ k > Len(f) /\ k - Len(f) \in DOMAIN h /\ u[k] = h[k - Len(f)]
  BY ConcatSectors
<1>2. \/ l \in DOMAIN f /\ u[l] = f[l]
      \/ l > Len(f) /\ l - Len(f) \in DOMAIN h /\ u[l] = h[l - Len(f)]
  BY ConcatSectors
<1> HIDE DEF u
<1>3. CASE l \in DOMAIN f /\ u[l] = f[l]
  <2>1. k \in DOMAIN f /\ u[k] = f[k]
    BY <1>0, <1>1, <1>3
  <2> QED
    BY <1>3, <2>1 DEF InOrder
<1>4. CASE l > Len(f) /\ l - Len(f) \in DOMAIN h /\ u[l] = h[l - Len(f)]
  <2>1. CASE k \in DOMAIN f /\ u[k] = f[k]
    BY <1>4, <2>1, VotesAt
  <2>2. CASE k > Len(f) /\ k - Len(f) \in DOMAIN h /\ u[k] = h[k - Len(f)]
    <3>1. k - Len(f) < l - Len(f) \/ (k - Len(f) = l - Len(f) /\ i < j)
      BY <1>0
    <3> QED
      BY <1>4, <2>2, <3>1 DEF InOrder
  <2> QED
    BY <1>1, <2>1, <2>2
<1> QED
  BY <1>2, <1>3, <1>4

(* The first sectors of a file. *)
LEMMA FirstSectors ==
  ASSUME NEW f \in Seq(Sector), NEW n \in 0..Len(f)
  PROVE  LET h == SubSeq(f, 1, n)
         IN  /\ h \in Seq(Sector) /\ Len(h) = n
             /\ \A k \in DOMAIN h : k \in DOMAIN f /\ h[k] = f[k] /\ k <= n
             /\ \A k \in DOMAIN f : k <= n => k \in DOMAIN h
             /\ VotesIn(h) \subseteq VotesIn(f)
             /\ InOrder(f) => InOrder(h)
             /\ Full(f) => Full(h)
<1> DEFINE h == SubSeq(f, 1, n)
<1>0. Len(f) \in Nat /\ DOMAIN f = 1..Len(f) /\ n \in Nat
  BY FileFacts
<1>1. h \in Seq(Sector) /\ Len(h) = n /\ \A k \in 1..n : h[k] = f[k]
  BY <1>0, SubSeqProperties
<1>2. DOMAIN h = 1..n
  BY <1>1, LenProperties
<1> HIDE DEF h
<1>3. \A k \in DOMAIN h : k \in DOMAIN f /\ h[k] = f[k] /\ k <= n
  BY <1>0, <1>1, <1>2
<1>4. VotesIn(h) \subseteq VotesIn(f)
  BY <1>3, VotesAt
<1>5. InOrder(f) => InOrder(h)
  BY <1>3 DEF InOrder
<1>6. Full(f) => Full(h)
  BY <1>3 DEF Full
<1>7. \A k \in DOMAIN f : k <= n => k \in DOMAIN h
  BY <1>0, <1>2
<1> QED
  BY <1>1, <1>3, <1>4, <1>5, <1>6, <1>7 DEF h

----------------------------------------------------------------------------
(* What a scan of the vote log finds.                                      *)

(* What the last record of a group says. *)
LEMMA ApplyFacts ==
  ASSUME NEW votes \in Seq(Requests), NEW known, NEW g \in Groups
  PROVE  \/ /\ \A i \in DOMAIN votes : votes[i][1] # g
            /\ Apply(votes, known)[g] = known[g]
         \/ \E m \in DOMAIN votes :
              /\ votes[m][1] = g /\ Apply(votes, known)[g] = votes[m][2]
              /\ \A i \in DOMAIN votes : votes[i][1] = g => i <= m
<1> DEFINE mine == {i \in DOMAIN votes : votes[i][1] = g}
<1>1. Apply(votes, known)[g] = IF mine = {} THEN known[g] ELSE votes[Max(mine)][2]
  BY DEF Apply
<1>2. CASE mine = {}
  BY <1>1, <1>2
<1>3. CASE mine # {}
  <2>1. Len(votes) \in Nat /\ DOMAIN votes = 1..Len(votes)
    BY LenProperties
  <2>2. mine \in SUBSET (0..Len(votes))
    BY <2>1
  <2> HIDE DEF mine
  <2>3. Max(mine) \in mine /\ \A i \in mine : i <= Max(mine)
    BY <1>3, <2>1, <2>2, GreatestExists
  <2> QED
    BY <1>1, <1>3, <2>3 DEF mine
<1> QED
  BY <1>2, <1>3

(* Scanning a file in order finds the highest vote of every group. *)
LEMMA ScanFacts ==
  ASSUME NEW f \in Seq(Sector), InOrder(f)
  PROVE  /\ Scan(f) \in [Groups -> 0..MaxTerm]
         /\ \A r \in VotesIn(f) : r[2] <= Scan(f)[r[1]]
         /\ \A g \in Groups : Scan(f)[g] # 0 => <<g, Scan(f)[g]>> \in VotesIn(f)
<1>0. Len(f) \in Nat /\ DOMAIN f = 1..Len(f) /\ \A k \in DOMAIN f : f[k] \in Sector
  BY FileFacts
<1>1. ASSUME NEW g \in Groups
      PROVE  /\ Scan(f)[g] \in 0..MaxTerm
             /\ \A r \in VotesIn(f) : r[1] = g => r[2] <= Scan(f)[g]
             /\ Scan(f)[g] # 0 => <<g, Scan(f)[g]>> \in VotesIn(f)
  <2> DEFINE mine == {k \in DOMAIN f : \E r \in ToSet(f[k]) : r[1] = g}
  <2>1. Scan(f)[g] = IF mine = {} THEN 0 ELSE Apply(f[Max(mine)], NoVotes)[g]
    BY DEF Scan
  <2>2. CASE mine = {}
    <3>1. \A r \in VotesIn(f) : r[1] # g
      BY <2>2 DEF VotesIn
    <3>2. 0 \in 0..MaxTerm
      BY VoteLogAssumption
    <3> QED
      BY <2>1, <2>2, <3>1, <3>2
  <2>3. CASE mine # {}
    <3>1. mine \in SUBSET (0..Len(f))
      BY <1>0
    <3>2. Max(mine) \in mine /\ \A k \in mine : k <= Max(mine)
      <4> HIDE DEF mine
      <4> QED
        BY <1>0, <2>3, <3>1, GreatestExists
    <3> DEFINE m == Max(mine)
    <3>3. m \in DOMAIN f /\ \E r \in ToSet(f[m]) : r[1] = g
      BY <3>2
    <3>4. \A k \in DOMAIN f : \A i \in DOMAIN f[k] : f[k][i][1] = g => k <= m
      BY <3>2 DEF ToSet
    <3>5. Scan(f)[g] = Apply(f[m], NoVotes)[g]
      BY <2>1, <2>3
    <3> HIDE DEF mine, m
    <3>6. f[m] \in Seq(Requests) /\ DOMAIN f[m] = 1..Len(f[m]) /\ Len(f[m]) \in Nat
      BY <1>0, <3>3, SectorFacts
    <3>7. PICK i \in DOMAIN f[m] : /\ f[m][i][1] = g /\ Scan(f)[g] = f[m][i][2]
                                   /\ \A j \in DOMAIN f[m] : f[m][j][1] = g => j <= i
      <4>1. \E j \in DOMAIN f[m] : f[m][j][1] = g
        BY <3>3 DEF ToSet
      <4>2. PICK i \in DOMAIN f[m] : /\ f[m][i][1] = g /\ Apply(f[m], NoVotes)[g] = f[m][i][2]
                                     /\ \A j \in DOMAIN f[m] : f[m][j][1] = g => j <= i
        <5> DEFINE s == f[m]
        <5>1. s \in Seq(Requests) /\ ~(\A j \in DOMAIN s : s[j][1] # g)
          BY <3>6, <4>1
        <5> HIDE DEF s
        <5>2. \E i \in DOMAIN s : /\ s[i][1] = g /\ Apply(s, NoVotes)[g] = s[i][2]
                                  /\ \A j \in DOMAIN s : s[j][1] = g => j <= i
          BY <5>1, ApplyFacts
        <5> QED
          BY <5>2 DEF s
      <4> QED
        BY <3>5, <4>2
    <3>8. f[m][i] \in VotesIn(f) /\ f[m][i] \in Requests
      BY <3>3, <3>7, VotesAt, FileFacts
    <3>9. f[m][i] = <<g, Scan(f)[g]>> /\ Scan(f)[g] \in 1..MaxTerm
      BY <3>7, <3>8, RequestFacts
    <3>10. ASSUME NEW r \in VotesIn(f), r[1] = g PROVE r[2] <= Scan(f)[g]
      <4>1. PICK k \in DOMAIN f : \E j \in DOMAIN f[k] : f[k][j] = r
        BY VotesAt
      <4>2. PICK j \in DOMAIN f[k] : f[k][j] = r
        BY <4>1
      <4>3. k <= m
        BY <3>4, <3>10, <4>1, <4>2
      <4>4. CASE k < m
        BY <3>3, <3>7, <3>10, <4>2, <4>4 DEF InOrder
      <4>5. CASE k = m /\ j < i
        BY <3>3, <3>7, <3>10, <4>2, <4>5 DEF InOrder
      <4>6. CASE k = m /\ j = i
        BY <3>7, <3>9, <4>2, <4>6
      <4>7. k = m => j <= i
        BY <3>7, <3>10, <4>2
      <4>8. k \in Nat /\ m \in Nat /\ (k = m => j \in Nat /\ i \in Nat)
        BY <1>0, <3>3, <3>6, <4>1, <4>2
      <4> QED
        BY <4>3, <4>4, <4>5, <4>6, <4>7, <4>8
    <3>11. Scan(f)[g] \in 0..MaxTerm
      BY <3>9, VoteLogAssumption
    <3> QED
      BY <3>8, <3>9, <3>10, <3>11
  <2> QED
    BY <2>2, <2>3
<1>2. Scan(f) \in [Groups -> 0..MaxTerm]
  <2>1. Scan(f) = [g \in Groups |-> Scan(f)[g]]
    BY DEF Scan
  <2> QED
    BY <1>1, <2>1
<1>3. ASSUME NEW r \in VotesIn(f) PROVE r[2] <= Scan(f)[r[1]]
  BY <1>1, FileFacts, RequestFacts
<1> QED
  BY <1>1, <1>2, <1>3

(* What recovery keeps of a log that is not corrupt: all its votes, and no empty sector. *)
LEMMA ValidPartFacts ==
  ASSUME NEW f \in Seq(Sector), ~Corrupt(f)
  PROVE  \E m \in 0..Len(f) :
           /\ ValidPart(f) = SubSeq(f, 1, m)
           /\ Full(ValidPart(f))
           /\ \A k \in DOMAIN f : k > m => f[k] = <<>>
<1> DEFINE held == {k \in DOMAIN f : f[k] # <<>>}
           m == Max({0} \cup held)
<1>0. Len(f) \in Nat /\ DOMAIN f = 1..Len(f)
  BY FileFacts
<1>1. ({0} \cup held) \in SUBSET (0..Len(f))
  BY <1>0
<1>2. m \in {0} \cup held /\ \A k \in {0} \cup held : k <= m
  <2> HIDE DEF held
  <2> QED
    BY <1>0, <1>1, GreatestExists
<1>3. m \in 0..Len(f) /\ ValidPart(f) = SubSeq(f, 1, m)
  BY <1>1, <1>2 DEF ValidPart
<1>4. \A k \in DOMAIN f : k > m => f[k] = <<>>
  <2>1. ASSUME NEW k \in DOMAIN f, k > m, f[k] # <<>> PROVE FALSE
    <3>1. k <= m
      BY <1>2, <2>1
    <3>2. k \in Nat /\ m \in Nat
      BY <1>0, <1>3
    <3> HIDE DEF m
    <3> QED
      BY <2>1, <3>1, <3>2
  <2> QED
    BY <2>1
<1>5. m # 0 => m \in DOMAIN f /\ f[m] # <<>>
  BY <1>2
<1> HIDE DEF m
<1>6. Full(ValidPart(f))
  <2>1. SUFFICES ASSUME NEW k \in DOMAIN SubSeq(f, 1, m), SubSeq(f, 1, m)[k] = <<>> PROVE FALSE
    BY <1>3 DEF Full
  <2>2. k \in DOMAIN f /\ f[k] = <<>> /\ k <= m
    BY <1>3, <2>1, FirstSectors
  <2>3. m # 0 /\ k # m /\ k \in Nat /\ m \in Nat
    BY <1>0, <1>3, <1>5, <2>2
  <2> QED
    BY <1>5, <2>2, <2>3 DEF Corrupt
<1> QED
  BY <1>3, <1>4, <1>6

(* Cutting empty sectors off the end of the log loses no vote (the set_len *)
(* of the open).                                                           *)
LEMMA CutVotes ==
  ASSUME NEW f \in Seq(Sector), NEW m \in 0..Len(f), \A k \in DOMAIN f : k > m => f[k] = <<>>
  PROVE  VotesIn(SubSeq(f, 1, m)) = VotesIn(f)
<1> DEFINE h == SubSeq(f, 1, m)
<1>0. Len(f) \in Nat /\ DOMAIN f = 1..Len(f)
  BY FileFacts
<1>1. /\ \A k \in DOMAIN h : k \in DOMAIN f /\ h[k] = f[k] /\ k <= m
      /\ \A k \in DOMAIN f : k <= m => k \in DOMAIN h
      /\ VotesIn(h) \subseteq VotesIn(f)
  BY FirstSectors
<1> HIDE DEF h
<1>2. ASSUME NEW r \in VotesIn(f) PROVE r \in VotesIn(h)
  <2>1. PICK k \in DOMAIN f : \E i \in DOMAIN f[k] : f[k][i] = r
    BY VotesAt
  <2>2. f[k] # <<>>
    BY <2>1
  <2>3. k <= m
    BY <1>0, <2>1, <2>2
  <2> QED
    BY <1>1, <2>1, <2>3, VotesAt
<1> QED
  BY <1>1, <1>2 DEF h

----------------------------------------------------------------------------
(* How a batch and a rewrite are laid out over sectors.                    *)

(* Slots to sectors. *)
LEMMA Sectors ==
  ASSUME NEW L \in Nat, NEW S \in Nat, S > 0
  PROVE  LET q == (L + S - 1) \div S
         IN  /\ q \in Nat /\ L <= q * S
             /\ \A i \in 1..q : (i - 1) * S < L /\ (i - 1) * S \in Nat /\ i * S = (i - 1) * S + S
             /\ L = 0 => q = 0
             /\ L <= S => q <= 1
<1> DEFINE q == (L + S - 1) \div S
<1>0. L + S - 1 \in Nat
  OBVIOUS
<1>1. q \in Nat /\ q * S <= L + S - 1 /\ L + S - 1 < q * S + S
  BY <1>0, SMT
<1> HIDE DEF q
<1>2. L <= q * S
  BY <1>1
<1>3. ASSUME NEW i \in 1..q PROVE (i - 1) * S < L /\ (i - 1) * S \in Nat /\ i * S = (i - 1) * S + S
  <2>1. i \in Nat /\ i - 1 \in Nat /\ i <= q
    BY <1>1
  <2>2. i * S = (i - 1) * S + S /\ (i - 1) * S \in Nat
    BY <2>1, SMT
  <2>3. i * S <= q * S
    BY <1>1, <2>1, SMT
  <2> QED
    BY <1>1, <2>2, <2>3
<1>4. L = 0 => q = 0
  <2>1. ASSUME q >= 1, L = 0 PROVE FALSE
    <3>1. 1 * S <= q * S
      BY <1>1, <2>1, SMT
    <3> QED
      BY <1>1, <2>1, <3>1
  <2> QED
    BY <1>1, <2>1
<1>5. L <= S => q <= 1
  <2>1. ASSUME q >= 2, L <= S PROVE FALSE
    <3>1. 2 * S <= q * S
      BY <1>1, <2>1, SMT
    <3> QED
      BY <1>1, <2>1, <3>1
  <2> QED
    BY <1>1, <2>1
<1> QED
  BY <1>1, <1>2, <1>3, <1>4, <1>5 DEF q

(* Multiplication is monotone. *)
LEMMA TimesMonotone ==
  ASSUME NEW a \in Nat, NEW b \in Nat, NEW c \in Nat, a <= b
  PROVE  a * c <= b * c
BY SMT

(* The slot a record goes to. *)
LEMMA SlotOf ==
  ASSUME NEW S \in Nat, S > 0, NEW q \in Nat, NEW p \in Nat, p # 0, p <= q * S
  PROVE  \E i \in 1..q : (i - 1) * S < p /\ p <= i * S
<1> DEFINE T == {i \in Nat : p <= i * S}
<1>1. q \in T /\ T \in SUBSET Nat
  OBVIOUS
<1>2. PICK i \in T : \A j \in T : i <= j
  <2> HIDE DEF T
  <2> QED
    BY <1>1, LeastExists
<1>3. i # 0
  BY <1>2, SMT
<1>4. i - 1 \in Nat /\ i - 1 \notin T
  BY <1>2, <1>3
<1>5. ~(p <= (i - 1) * S)
  BY <1>4
<1>6. (i - 1) * S \in Nat
  BY <1>4, SMT
<1> QED
  BY <1>1, <1>2, <1>3, <1>5, <1>6

(* Laying votes out over sectors keeps every vote and its order, and a *)
(* batch that fits one sector takes one (vote_log.rs, lay_out).        *)
LEMMA LayOutFacts ==
  ASSUME NEW votes \in Seq(Requests)
  PROVE  LET f == LayOut(votes)
         IN  /\ f \in Seq(Sector) /\ Full(f)
             /\ VotesIn(f) = ToSet(votes)
             /\ \A k \in DOMAIN f : \A i \in DOMAIN f[k] :
                  /\ (k - 1) * SlotsPerSector + i \in DOMAIN votes
                  /\ f[k][i] = votes[(k - 1) * SlotsPerSector + i]
                  /\ i \in 1..SlotsPerSector
             /\ Len(votes) <= SlotsPerSector => Len(f) <= 1
<1> DEFINE S == SlotsPerSector
           L == Len(votes)
           q == (L + S - 1) \div S
           f == LayOut(votes)
           last(i) == IF i * S < L THEN i * S ELSE L
<1>0. S \in Nat /\ S > 0 /\ L \in Nat /\ DOMAIN votes = 1..L
  BY VoteLogAssumption, LenProperties
<1>1. /\ q \in Nat /\ L <= q * S
      /\ \A i \in 1..q : (i - 1) * S < L /\ (i - 1) * S \in Nat /\ i * S = (i - 1) * S + S
      /\ L <= S => q <= 1
  BY <1>0, Sectors
<1>2. f = [i \in 1..q |-> SubSeq(votes, (i - 1) * S + 1, last(i))]
  BY DEF LayOut
<1> HIDE DEF S, L, q, f
<1>3. ASSUME NEW i \in 1..q
      PROVE  /\ f[i] = SubSeq(votes, (i - 1) * S + 1, last(i))
             /\ f[i] \in Seq(Requests) /\ Len(f[i]) = last(i) - (i - 1) * S
             /\ Len(f[i]) \in 1..S
             /\ \A j \in 1..Len(f[i]) : f[i][j] = votes[(i - 1) * S + j] /\ (i - 1) * S + j \in 1..L
  <2>1. (i - 1) * S < L /\ (i - 1) * S \in Nat /\ i * S = (i - 1) * S + S
    BY <1>1
  <2> DEFINE a == (i - 1) * S
  <2>2. f[i] = SubSeq(votes, a + 1, last(i))
    BY <1>2
  <2>3. last(i) \in (a + 1)..L /\ last(i) <= a + S /\ last(i) \in Nat
    BY <1>0, <2>1
  <2> HIDE DEF a, last
  <2>4. a \in Nat
    BY <2>1 DEF a
  <2>5. a + 1 \in 1..(L + 1) /\ last(i) \in ((a + 1) - 1)..L
    BY <1>0, <2>3, <2>4
  <2>6. /\ f[i] \in Seq(Requests) /\ Len(f[i]) = last(i) - (a + 1) + 1
        /\ \A j \in 1..(last(i) - (a + 1) + 1) : f[i][j] = votes[(a + 1) + j - 1]
    BY <2>2, <2>5, SubSeqProperties DEF L
  <2>7. Len(f[i]) = last(i) - a /\ Len(f[i]) \in 1..S
    BY <1>0, <2>3, <2>4, <2>6
  <2>8. ASSUME NEW j \in 1..Len(f[i]) PROVE f[i][j] = votes[a + j] /\ a + j \in 1..L
    <3>1. (a + 1) + j - 1 = a + j /\ j \in 1..(last(i) - (a + 1) + 1)
      BY <2>3, <2>4, <2>6, <2>7
    <3> QED
      BY <1>0, <2>3, <2>4, <2>6, <2>7, <3>1
  <2> QED
    BY <2>2, <2>6, <2>7, <2>8 DEF a
<1>4. ASSUME NEW i \in 1..q PROVE f[i] \in Sector /\ f[i] # <<>> /\ DOMAIN f[i] = 1..Len(f[i])
  <2>1. f[i] \in [1..Len(f[i]) -> Requests] /\ DOMAIN f[i] = 1..Len(f[i])
    BY <1>3, LenProperties
  <2>2. Len(f[i]) \in 0..S /\ Len(f[i]) # 0
    <3>1. Len(f[i]) \in 1..S
      BY <1>3
    <3> QED
      BY <1>0, <3>1
  <2>3. f[i] # <<>>
    BY <2>2
  <2> QED
    BY <2>1, <2>2, <2>3 DEF Sector, S
<1>5. f \in Seq(Sector) /\ Len(f) = q /\ DOMAIN f = 1..q
  <2>1. f \in [1..q -> Sector]
    BY <1>2, <1>4
  <2> QED
    BY <1>1, <2>1
<1>6. Full(f)
  BY <1>4, <1>5 DEF Full
<1>7. \A k \in DOMAIN f : \A i \in DOMAIN f[k] :
        (k - 1) * S + i \in DOMAIN votes /\ f[k][i] = votes[(k - 1) * S + i] /\ i \in 1..S
  <2> SUFFICES ASSUME NEW k \in 1..q, NEW i \in 1..Len(f[k])
               PROVE  (k - 1) * S + i \in DOMAIN votes /\ f[k][i] = votes[(k - 1) * S + i] /\ i \in 1..S
    BY <1>4, <1>5
  <2>1. f[k][i] = votes[(k - 1) * S + i] /\ (k - 1) * S + i \in 1..L /\ Len(f[k]) \in 1..S
    BY <1>3
  <2> QED
    BY <1>0, <2>1
<1>8. ToSet(votes) \subseteq VotesIn(f)
  <2> SUFFICES ASSUME NEW p \in 1..L PROVE votes[p] \in VotesIn(f)
    BY <1>0 DEF ToSet
  <2>1. p \in Nat /\ p # 0 /\ p <= q * S
    <3>1. q * S \in Nat
      BY <1>0, <1>1, SMT
    <3> QED
      BY <1>0, <1>1, <3>1
  <2>2. PICK i \in 1..q : (i - 1) * S < p /\ p <= i * S
    BY <1>0, <1>1, <2>1, SlotOf
  <2>3. (i - 1) * S \in Nat /\ i * S = (i - 1) * S + S /\ Len(f[i]) = last(i) - (i - 1) * S
    BY <1>1, <1>3
  <2> DEFINE a == (i - 1) * S
             j == p - a
  <2>4. j \in 1..Len(f[i]) /\ a + j = p
    BY <1>0, <2>1, <2>2, <2>3
  <2>5. f[i][j] = votes[a + j]
    BY <1>3, <2>4
  <2> HIDE DEF a, j
  <2> QED
    BY <1>4, <1>5, <2>4, <2>5, VotesAt
<1>9. VotesIn(f) \subseteq ToSet(votes)
  <2> SUFFICES ASSUME NEW r \in VotesIn(f) PROVE r \in ToSet(votes)
    OBVIOUS
  <2>1. PICK k \in DOMAIN f : \E i \in DOMAIN f[k] : f[k][i] = r
    BY VotesAt
  <2> QED
    BY <1>7, <2>1 DEF ToSet
<1>10. Len(votes) <= SlotsPerSector => Len(f) <= 1
  BY <1>1, <1>5 DEF L, S
<1> QED
  BY <1>5, <1>6, <1>7, <1>8, <1>9, <1>10 DEF f, S

(* A batch with one vote a group is in order on its sectors. *)
LEMMA LayOutInOrder ==
  ASSUME NEW votes \in Seq(Requests), OneEach(votes)
  PROVE  InOrder(LayOut(votes))
<1> DEFINE f == LayOut(votes)
           S == SlotsPerSector
<1>1. \A k \in DOMAIN f : \A i \in DOMAIN f[k] :
        (k - 1) * S + i \in DOMAIN votes /\ f[k][i] = votes[(k - 1) * S + i] /\ i \in 1..S
  BY LayOutFacts
<1>2. f \in Seq(Sector)
  BY LayOutFacts
<1>3. DOMAIN f = 1..Len(f) /\ Len(f) \in Nat /\ S \in Nat
  BY <1>2, FileFacts, VoteLogAssumption
<1> HIDE DEF f, S
<1>4. SUFFICES ASSUME NEW k \in DOMAIN f, NEW l \in DOMAIN f, NEW i \in DOMAIN f[k], NEW j \in DOMAIN f[l],
                    k < l \/ (k = l /\ i < j), f[k][i][1] = f[l][j][1]
             PROVE  FALSE
  BY DEF InOrder, f
<1>5. (k - 1) * S + i = (l - 1) * S + j
  BY <1>1, <1>4 DEF OneEach
<1>6. i \in 1..S /\ j \in 1..S /\ k \in Nat /\ l \in Nat /\ k - 1 \in Nat /\ l - 1 \in Nat
  BY <1>1, <1>3
<1>7. CASE k = l
  <2>1. (k - 1) * S \in Nat /\ i < j
    BY <1>3, <1>4, <1>6, <1>7
  <2> QED
    BY <1>5, <1>6, <1>7, <2>1
<1>8. CASE k < l
  <2>1. k <= l - 1 /\ k * S = (k - 1) * S + S /\ (k - 1) * S \in Nat
    BY <1>3, <1>6, <1>8, SMT
  <2>2. k * S <= (l - 1) * S
    BY <1>3, <1>6, <2>1, TimesMonotone
  <2>3. (l - 1) * S \in Nat
    BY <1>3, <1>6, SMT
  <2> DEFINE a == (k - 1) * S
             b == (l - 1) * S
  <2>4. a + S <= b /\ a + i = b + j /\ a \in Nat /\ b \in Nat
    BY <1>5, <2>1, <2>2, <2>3
  <2> HIDE DEF a, b
  <2> QED
    BY <1>3, <1>6, <2>4
<1> QED
  BY <1>4, <1>6, <1>7, <1>8

(* The votes a rewrite lays out. *)
LEMMA LatestVotesFacts ==
  ASSUME latest \in [Groups -> 0..MaxTerm]
  PROVE  /\ LatestVotes \in Seq(Requests) /\ OneEach(LatestVotes)
         /\ ToSet(LatestVotes) = {<<g, latest[g]>> : g \in {h \in Groups : latest[h] > 0}}
<1> DEFINE V == {h \in Groups : latest[h] > 0}
           T == {<<g, latest[g]>> : g \in V}
           n == Cardinality(T)
           s == SetToSeq(T)
<1>1. IsFiniteSet(V)
  BY VoteLogAssumption, FS_Subset
<1>2. IsFiniteSet(T)
  <2> DEFINE f == [g \in V |-> <<g, latest[g]>>]
  <2>1. f \in Surjection(V, T)
    BY DEF Surjection
  <2> HIDE DEF f, T, V
  <2> QED
    BY <1>1, <2>1, FS_Surjection
<1>3. n \in Nat /\ ExistsBijection(1..n, T)
  BY <1>2, FS_CardinalityType
<1>4. T \subseteq Requests
  BY VoteLogAssumption DEF Requests
<1>5. LatestVotes = s
  BY DEF LatestVotes
<1> HIDE DEF T
<1>6. \E f \in [1..n -> T] : IsInjective(f)
  <2>1. PICK f : f \in Bijection(1..n, T)
    BY <1>3 DEF ExistsBijection
  <2> QED
    BY <2>1 DEF Bijection, Injection, IsInjective
<1>7. s \in [1..n -> T] /\ IsInjective(s)
  BY <1>6 DEF SetToSeq
<1>8. s \in Injection(1..n, T)
  BY <1>7 DEF Injection, IsInjective
<1>9. Cardinality(1..n) = n /\ IsFiniteSet(1..n)
  BY <1>3, FS_Interval
<1>10. s \in Surjection(1..n, T)
  BY <1>2, <1>8, <1>9, FS_Injection
<1> HIDE DEF n, s
<1>11. s \in Seq(Requests) /\ DOMAIN s = 1..n
  BY <1>3, <1>4, <1>7
<1>12. ToSet(s) = T
  BY <1>7, <1>10, <1>11 DEF Surjection, ToSet
<1>13. OneEach(s)
  <2> SUFFICES ASSUME NEW i \in DOMAIN s, NEW j \in DOMAIN s, s[i][1] = s[j][1] PROVE i = j
    BY DEF OneEach
  <2>1. s[i] \in T /\ s[j] \in T
    BY <1>7, <1>11
  <2>2. s[i] = s[j]
    BY <2>1 DEF T
  <2> QED
    BY <1>7, <2>2 DEF IsInjective
<1> QED
  BY <1>5, <1>11, <1>12, <1>13 DEF T

----------------------------------------------------------------------------
(* The vote log's steps: saves and writes.                                 *)

(* What VoteLog's assumptions say of its constants. *)
LEMMA VoteConstants ==
  /\ MaxTerm \in Nat /\ SlotsPerSector \in Nat /\ SlotsPerSector > 0
  /\ RewriteSectors \in Nat /\ MaxCrashes \in Nat
BY VoteLogAssumption

(* The members of a sequence. *)
LEMMA ToSetFacts ==
  ASSUME NEW R, NEW s \in Seq(R)
  PROVE  /\ \A r \in ToSet(s) : r \in R
         /\ \A r : r \in ToSet(s) <=> \E i \in DOMAIN s : s[i] = r
BY LenProperties DEF ToSet

(* A request joins the queue. *)
LEMMA AppendFacts ==
  ASSUME NEW s \in Seq(Requests), NEW e \in Requests
  PROVE  /\ Append(s, e) \in Seq(Requests) /\ ToSet(Append(s, e)) = ToSet(s) \cup {e}
         /\ OneEach(s) /\ (\A r \in ToSet(s) : r[1] # e[1]) => OneEach(Append(s, e))
<1> DEFINE u == Append(s, e)
<1>1. /\ u \in Seq(Requests) /\ Len(u) = Len(s) + 1 /\ Len(s) \in Nat
      /\ \A i \in 1..Len(s) : u[i] = s[i]
      /\ u[Len(s) + 1] = e
  BY AppendProperties, LenProperties
<1>2. DOMAIN u = 1..(Len(s) + 1) /\ DOMAIN s = 1..Len(s)
  BY <1>1, LenProperties
<1> HIDE DEF u
<1>3. ToSet(u) = ToSet(s) \cup {e}
  <2>1. \A i \in DOMAIN u : u[i] \in ToSet(s) \cup {e}
    BY <1>1, <1>2 DEF ToSet
  <2>2. \A i \in DOMAIN s : s[i] \in ToSet(u)
    BY <1>1, <1>2 DEF ToSet
  <2>3. e \in ToSet(u)
    BY <1>1, <1>2 DEF ToSet
  <2> QED
    BY <2>1, <2>2, <2>3 DEF ToSet
<1>4. ASSUME OneEach(s), \A r \in ToSet(s) : r[1] # e[1] PROVE OneEach(u)
  BY <1>1, <1>2, <1>4 DEF OneEach, ToSet
<1> QED
  BY <1>1, <1>3, <1>4 DEF u

(* The empty queue and the empty log. *)
LEMMA EmptyFacts ==
  /\ <<>> \in Seq(Requests) /\ <<>> \in Seq(Sector) /\ ToSet(<<>>) = {} /\ OneEach(<<>>)
  /\ VotesIn(<<>>) = {} /\ InOrder(<<>>) /\ Full(<<>>) /\ Len(<<>>) = 0
BY DEF ToSet, OneEach, VotesIn, InOrder, Full

(* A fresh vote log satisfies VoteFileInv. *)
LEMMA VoteInitInv == VoteInit => VoteFileInv
<1> SUFFICES ASSUME VoteInit PROVE VoteFileInv
  OBVIOUS
<1> USE EmptyFacts DEF VoteInit
<1>1. NoVotes \in [Groups -> 0..MaxTerm] /\ \A g \in Groups : NoVotes[g] = 0
  BY VoteLogAssumption DEF NoVotes
<1>2. VoteTypeOK
  <2>1. synced \in 0..Len(file) /\ voteCrashes \in 0..MaxCrashes
    BY VoteConstants
  <2> QED
    BY <1>1, <2>1 DEF VoteTypeOK
<1>3. FileInv
  <2>1. Holding(SubSeq(file, 1, synced), promised)
    BY <1>1 DEF Holding
  <2> QED
    BY <2>1 DEF FileInv, Under
<1>4. RenamedInv
  BY DEF RenamedInv
<1>5. BatchInv
  BY DEF BatchInv
<1>6. TailInv
  BY DEF TailInv
<1> QED
  BY <1>2, <1>3, <1>4, <1>5, <1>6 DEF VoteFileInv

(* The variables a save, a reject, an exit or a close may change. *)
LEMMA SaveKeeps ==
  ASSUME VoteFileInv, NEW g \in Groups, NEW v \in 1..MaxTerm, Save(g, v)
  PROVE  VoteFileInv'
<1> DEFINE e == <<g, v>>
<1>0. /\ voteWriter # "none" /\ ~closing /\ saving[g] = 0 /\ v > latest[g]
      /\ requests' = Append(requests, e)
      /\ saving' = [saving EXCEPT ![g] = v]
      /\ UNCHANGED <<file, synced, renamed, latest, batch, voteWriter, voteFailed, closing,
                     refusal, promised, voteCrashes>>
  BY DEF Save
<1>1. e \in Requests /\ e[1] = g /\ e[2] = v
  BY DEF Requests
<1> HIDE DEF e
<1>2. /\ requests \in Seq(Requests) /\ batch \in Seq(Requests) /\ saving \in [Groups -> 0..MaxTerm]
      /\ latest \in [Groups -> 0..MaxTerm] /\ latest = promised
  BY <1>0 DEF VoteFileInv, VoteTypeOK, FileInv, Up
<1>3. \A r \in ToSet(requests) \cup ToSet(batch) : r \in Requests /\ saving[r[1]] = r[2]
  <2>1. \A r \in ToSet(requests) \cup ToSet(batch) : r \in Requests
    BY <1>2, ToSetFacts
  <2> QED
    BY <1>0, <2>1 DEF VoteFileInv, BatchInv
<1>4. \A r \in ToSet(requests) \cup ToSet(batch) : r[1] # g
  BY <1>0, <1>3, RequestFacts
<1>5. /\ requests' \in Seq(Requests) /\ ToSet(requests') = ToSet(requests) \cup {e}
      /\ OneEach(requests')
  BY <1>0, <1>1, <1>2, <1>4, AppendFacts DEF VoteFileInv, BatchInv
<1>6. VoteTypeOK'
  <2>1. saving' \in [Groups -> 0..MaxTerm]
    BY <1>0, <1>2
  <2> QED
    BY <1>0, <1>5, <2>1 DEF VoteFileInv, VoteTypeOK, refusal
<1>7. FileInv' /\ RenamedInv' /\ TailInv'
  BY <1>0 DEF VoteFileInv, FileInv, RenamedInv, TailInv, refusal, Up
<1>8. BatchInv'
  <2>1. \A r \in ToSet(requests) \cup ToSet(batch) : saving'[r[1]] = r[2]
    BY <1>0, <1>2, <1>3, <1>4, RequestFacts
  <2>2. saving'[g] = v /\ v > promised[g]
    BY <1>0, <1>2
  <2>3. \A r \in ToSet(requests') \cup ToSet(batch') :
          Up' /\ r[2] > promised'[r[1]] /\ saving'[r[1]] = r[2]
    BY <1>0, <1>1, <1>5, <2>1, <2>2 DEF VoteFileInv, BatchInv, Up
  <2>4. \A r \in ToSet(requests'), b \in ToSet(batch') : r[1] # b[1]
    BY <1>0, <1>1, <1>4, <1>5 DEF VoteFileInv, BatchInv
  <2> QED
    BY <1>0, <1>5, <2>3, <2>4 DEF VoteFileInv, BatchInv
<1> QED
  BY <1>6, <1>7, <1>8 DEF VoteFileInv

(* Writer::write may write all of the batch or stop part way: the part not *)
(* written is promised to nobody.                                          *)
LEMMA WriteBatchKeeps ==
  ASSUME VoteFileInv, WriteBatch
  PROVE  VoteFileInv'
<1>0. /\ voteWriter = "idle" /\ requests # <<>> /\ ~voteFailed
      /\ requests' = <<>> /\ batch' = requests /\ voteWriter' = "written"
      /\ spanned' = (spanned \/ Len(requests) > SlotsPerSector)
      /\ UNCHANGED <<synced, renamed, latest, closing, saving, refused, promised, voteCrashes>>
  BY DEF WriteBatch
<1>1. PICK n \in 0..Len(requests) :
        /\ file' = file \o LayOut(SubSeq(requests, 1, n))
        /\ voteFailed' = (n < Len(requests))
  BY DEF WriteBatch
<1> DEFINE part == SubSeq(requests, 1, n)
           h == LayOut(part)
<1>2. /\ file \in Seq(Sector) /\ requests \in Seq(Requests) /\ synced \in 0..Len(file)
      /\ promised \in [Groups -> 0..MaxTerm] /\ latest = promised /\ Full(file) /\ InOrder(file)
      /\ synced = Len(file) /\ Under(file, promised) /\ batch = <<>> /\ renamed = {}
      /\ OneEach(requests)
      /\ \A r \in ToSet(requests) : r[2] > promised[r[1]] /\ (~closing => saving[r[1]] = r[2])
  BY <1>0 DEF VoteFileInv, VoteTypeOK, FileInv, RenamedInv, BatchInv, Up
<1>3. Len(requests) \in Nat /\ DOMAIN requests = 1..Len(requests)
  BY <1>2, LenProperties
<1>4. /\ part \in Seq(Requests) /\ Len(part) = n /\ DOMAIN part = 1..n
      /\ \A i \in 1..n : part[i] = requests[i]
  <2>1. part \in Seq(Requests) /\ Len(part) = n /\ \A i \in 1..n : part[i] = requests[i]
    BY <1>2, <1>3, SubSeqProperties
  <2> QED
    BY <2>1, LenProperties
<1>5. OneEach(part) /\ ToSet(part) \subseteq ToSet(requests) /\ (n = Len(requests) => part = requests)
  <2>1. n = Len(requests) => part = requests
    BY <1>2, SubSeqFull
  <2> HIDE DEF part
  <2>2. \A i \in 1..n : i \in DOMAIN requests
    BY <1>3
  <2>3. OneEach(part)
    BY <1>2, <1>4, <2>2 DEF OneEach
  <2>4. ToSet(part) \subseteq ToSet(requests)
    BY <1>4, <2>2 DEF ToSet
  <2> QED
    BY <2>1, <2>3, <2>4
<1> HIDE DEF part
<1>6. /\ h \in Seq(Sector) /\ Full(h) /\ VotesIn(h) = ToSet(part)
      /\ Len(part) <= SlotsPerSector => Len(h) <= 1
  BY <1>4, LayOutFacts
<1>7. InOrder(h)
  BY <1>4, <1>5, LayOutInOrder
<1>8. file' = file \o h
  BY <1>1 DEF part
<1> HIDE DEF h
<1>9. VotesIn(file') = VotesIn(file) \cup ToSet(part)
  BY <1>2, <1>6, <1>8, ConcatVotes
<1>10. file' \in Seq(Sector) /\ Len(file') = Len(file) + Len(h) /\ Len(file) \in Nat /\ Len(h) \in Nat
  BY <1>2, <1>6, <1>8, ConcatSectors, FileFacts
<1>11. Full(file')
  BY <1>2, <1>6, <1>8, ConcatFull
<1>12. InOrder(file')
  <2>1. ASSUME NEW r \in VotesIn(file), NEW q \in VotesIn(h), r[1] = q[1] PROVE r[2] <= q[2]
    <3>1. r[2] <= promised[r[1]] /\ q[2] > promised[q[1]]
      BY <1>2, <1>5, <1>6 DEF Under
    <3>2. r \in Requests /\ q \in Requests
      BY <1>2, <1>6, FileFacts
    <3>3. r[2] \in Nat /\ q[2] \in Nat /\ promised[r[1]] \in Nat
      BY <1>2, <3>2, RequestFacts, VoteLogAssumption
    <3> QED
      BY <2>1, <3>1, <3>3
  <2> QED
    BY <1>2, <1>6, <1>7, <1>8, <2>1, ConcatInOrder
<1>13. SubSeq(file', 1, synced) = SubSeq(file, 1, synced)
  <2>1. SubSeq(file \o h, 1, Len(file)) = file
    <3>1. CASE Len(file) = 0
      BY <1>2, <3>1, SubSeqEmpty, EmptySeq
    <3>2. CASE Len(file) > 0
      BY <1>2, <1>6, <1>10, <3>2, SubSeqOfConcat1, SubSeqFull
    <3> QED
      BY <1>10, <3>1, <3>2
  <2>2. SubSeq(file, 1, Len(file)) = file
    BY <1>2, SubSeqFull
  <2> QED
    BY <1>2, <1>8, <2>1, <2>2
<1>14. VoteTypeOK'
  <2>1. synced' \in 0..Len(file')
    BY <1>0, <1>2, <1>10
  <2> QED
    BY <1>0, <1>1, <1>2, <1>10, <2>1, EmptyFacts DEF VoteFileInv, VoteTypeOK
<1>15. FileInv'
  BY <1>0, <1>2, <1>11, <1>12, <1>13 DEF VoteFileInv, FileInv, Up
<1>16. RenamedInv'
  BY <1>0, <1>2 DEF RenamedInv
<1>17. BatchInv'
  <2>1. \A r \in VotesIn(file') : r[2] <= promised[r[1]] \/ r \in ToSet(requests)
    BY <1>2, <1>5, <1>9 DEF Under
  <2>2. ~voteFailed' => ToSet(requests) \subseteq VotesIn(file')
    <3>1. ASSUME ~voteFailed' PROVE n = Len(requests)
      <4>1. ~(n < Len(requests))
        BY <1>1, <3>1, Zenon
      <4>2. n \in Nat /\ Len(requests) \in Nat /\ n <= Len(requests)
        BY <1>3
      <4> QED
        BY <4>1, <4>2
    <3> QED
      BY <1>5, <1>9, <3>1
  <2> QED
    BY <1>0, <1>2, <2>1, <2>2, EmptyFacts DEF BatchInv, Up
<1>18. TailInv'
  <2>1. ASSUME ~spanned' PROVE Len(file') - synced' <= 1
    <3>1. Len(requests) <= SlotsPerSector
      <4>1. ~(Len(requests) > SlotsPerSector)
        BY <1>0, <2>1
      <4> QED
        BY <1>3, <4>1, VoteConstants
    <3>2. Len(h) <= 1
      BY <1>3, <1>4, <1>6, <3>1, VoteLogAssumption
    <3> QED
      BY <1>0, <1>2, <1>10, <3>2
  <2>2. \A k \in DOMAIN file' : file'[k] # <<>>
    BY <1>11 DEF Full
  <2>3. refused' => spanned'
    BY <1>0 DEF VoteFileInv, TailInv
  <2> QED
    BY <2>1, <2>2, <2>3 DEF TailInv
<1> QED
  BY <1>14, <1>15, <1>16, <1>17, <1>18 DEF VoteFileInv

----------------------------------------------------------------------------
(* The vote log's steps: the rest of the writer.                           *)

(* A writer that failed answers every later save with the error. *)
LEMMA RejectBatchKeeps ==
  ASSUME VoteFileInv, RejectBatch
  PROVE  VoteFileInv'
<1>0. /\ voteWriter = "idle" /\ requests' = <<>> /\ saving' = NoVotes
      /\ UNCHANGED <<file, synced, renamed, latest, batch, voteWriter, voteFailed, closing,
                     refusal, promised, voteCrashes>>
  BY DEF RejectBatch
<1>1. batch = <<>>
  BY <1>0 DEF VoteFileInv, BatchInv
<1>2. NoVotes \in [Groups -> 0..MaxTerm]
  BY VoteConstants DEF NoVotes
<1>3. VoteTypeOK'
  BY <1>0, <1>2, EmptyFacts DEF VoteFileInv, VoteTypeOK, refusal
<1>4. FileInv' /\ RenamedInv' /\ TailInv'
  BY <1>0 DEF VoteFileInv, FileInv, RenamedInv, TailInv, refusal, Up
<1>5. BatchInv'
  BY <1>0, <1>1, EmptyFacts DEF BatchInv
<1> QED
  BY <1>3, <1>4, <1>5 DEF VoteFileInv

(* Publishing a batch raises a group's vote to the one in the batch. *)
LEMMA CommitRaises ==
  ASSUME VoteFileInv, voteWriter = "written", NEW g \in Groups
  PROVE  LET a == Apply(batch, latest)
         IN  /\ a[g] \in 0..MaxTerm /\ promised[g] \in Nat /\ a[g] \in Nat
             /\ promised[g] <= a[g] /\ Higher(promised, a)[g] = a[g]
             /\ (\A r \in ToSet(batch) : r[1] # g) => a[g] = promised[g]
             /\ \A r \in ToSet(batch) : r[1] = g => a[g] = r[2]
<1> DEFINE a == Apply(batch, latest)
<1>1. /\ batch \in Seq(Requests) /\ latest \in [Groups -> 0..MaxTerm] /\ latest = promised
      /\ OneEach(batch) /\ \A r \in ToSet(batch) : r[2] > promised[r[1]]
  BY DEF VoteFileInv, VoteTypeOK, FileInv, BatchInv, Up
<1>2. promised[g] \in 0..MaxTerm /\ promised[g] \in Nat
  BY <1>1, VoteConstants
<1>3. CASE (\A i \in DOMAIN batch : batch[i][1] # g) /\ a[g] = latest[g]
  <2>1. \A r \in ToSet(batch) : r[1] # g
    BY <1>3 DEF ToSet
  <2> QED
    BY <1>1, <1>2, <1>3, <2>1 DEF Higher
<1>4. CASE \E m \in DOMAIN batch : batch[m][1] = g /\ a[g] = batch[m][2]
  <2>1. PICK m \in DOMAIN batch : batch[m][1] = g /\ a[g] = batch[m][2]
    BY <1>4
  <2>2. batch[m] \in ToSet(batch) /\ batch[m] \in Requests
    BY <1>1, <2>1, ToSetFacts
  <2>3. a[g] \in 1..MaxTerm /\ a[g] > promised[g]
    BY <1>1, <2>1, <2>2, RequestFacts
  <2>4. \A r \in ToSet(batch) : r[1] = g => a[g] = r[2]
    BY <1>1, <2>1 DEF ToSet, OneEach
  <2>5. a[g] \in 0..MaxTerm /\ a[g] \in Nat /\ promised[g] <= a[g]
    BY <1>2, <2>3, VoteConstants
  <2>6. Higher(promised, a)[g] = a[g]
    BY <1>2, <2>3, <2>5 DEF Higher
  <2> QED
    BY <1>2, <2>1, <2>2, <2>4, <2>5, <2>6
<1> QED
  BY <1>1, <1>3, <1>4, ApplyFacts

(* The fsync, then the publication in latest and the answers: what is *)
(* answered is on the disk.                                           *)
LEMMA CommitBatchKeeps ==
  ASSUME VoteFileInv, CommitBatch
  PROVE  VoteFileInv'
<1> DEFINE a == Apply(batch, latest)
<1>0. /\ voteWriter = "written" /\ ~voteFailed
      /\ synced' = Len(file) /\ latest' = a /\ promised' = Higher(promised, a)
      /\ saving' = [g \in Groups |-> IF g \in Answered THEN 0 ELSE saving[g]]
      /\ batch' = <<>>
      /\ voteWriter' = IF Len(file) > RewriteSectors THEN "rewriting" ELSE "idle"
      /\ UNCHANGED <<file, renamed, requests, voteFailed, closing, refusal, voteCrashes>>
  BY DEF CommitBatch
<1>1. /\ file \in Seq(Sector) /\ requests \in Seq(Requests) /\ batch \in Seq(Requests)
      /\ synced \in 0..Len(file) /\ InOrder(file) /\ Full(file)
      /\ Holding(SubSeq(file, 1, synced), promised)
      /\ renamed = {} /\ saving \in [Groups -> 0..MaxTerm]
      /\ promised \in [Groups -> 0..MaxTerm]
      /\ ToSet(batch) \subseteq VotesIn(file)
      /\ \A r \in VotesIn(file) : r[2] <= promised[r[1]] \/ r \in ToSet(batch)
      /\ \A r \in ToSet(requests), b \in ToSet(batch) : r[1] # b[1]
  BY <1>0 DEF VoteFileInv, VoteTypeOK, FileInv, RenamedInv, BatchInv, Up
<1>2. \A g \in Groups :
        /\ a[g] \in 0..MaxTerm /\ promised[g] \in Nat /\ a[g] \in Nat
        /\ promised[g] <= a[g] /\ Higher(promised, a)[g] = a[g]
        /\ (\A r \in ToSet(batch) : r[1] # g) => a[g] = promised[g]
        /\ \A r \in ToSet(batch) : r[1] = g => a[g] = r[2]
  BY <1>0, CommitRaises
<1>3. a = [g \in Groups |-> a[g]] /\ Higher(promised, a) = [g \in Groups |-> Higher(promised, a)[g]]
  BY DEF Apply, Higher
<1> HIDE DEF a
<1>4. promised' = a /\ a \in [Groups -> 0..MaxTerm]
  BY <1>0, <1>2, <1>3
<1>5. Under(file, a)
  <2> SUFFICES ASSUME NEW r \in VotesIn(file) PROVE r[2] <= a[r[1]]
    BY DEF Under
  <2>1. r[1] \in Groups /\ r[2] \in Nat
    BY <1>1, FileFacts, RequestFacts
  <2>2. CASE r[2] <= promised[r[1]]
    BY <1>2, <2>1, <2>2
  <2>3. CASE r \in ToSet(batch)
    BY <1>2, <2>1, <2>3
  <2> QED
    BY <1>1, <2>2, <2>3
<1>6. Holding(file, a)
  <2> SUFFICES ASSUME NEW g \in Groups, a[g] # 0
               PROVE  \E r \in VotesIn(file) : r[1] = g /\ a[g] <= r[2]
    BY DEF Holding
  <2>1. CASE \A r \in ToSet(batch) : r[1] # g
    <3>1. a[g] = promised[g]
      BY <1>2, <2>1
    <3>2. \E r \in VotesIn(SubSeq(file, 1, synced)) : r[1] = g /\ a[g] <= r[2]
      BY <1>1, <3>1 DEF Holding
    <3>3. VotesIn(SubSeq(file, 1, synced)) \subseteq VotesIn(file)
      BY <1>1, FirstSectors
    <3> QED
      BY <3>2, <3>3
  <2>2. CASE \E r \in ToSet(batch) : r[1] = g
    BY <1>1, <1>2, <2>2
  <2> QED
    BY <2>1, <2>2
<1>7. SubSeq(file, 1, Len(file)) = file /\ Len(file) \in Nat
  BY <1>1, SubSeqFull, FileFacts
<1>8. VoteTypeOK'
  <2>1. saving' \in [Groups -> 0..MaxTerm]
    BY <1>0, <1>1, VoteConstants
  <2>2. synced' \in 0..Len(file')
    BY <1>0, <1>7
  <2>3. voteWriter' \in {"none", "idle", "written", "rewriting", "renamed"}
    BY <1>0
  <2> QED
    BY <1>0, <1>4, <2>1, <2>2, <2>3, EmptyFacts DEF VoteFileInv, VoteTypeOK, refusal
<1>9. voteWriter' \in {"idle", "rewriting"}
  BY <1>0
<1>10. FileInv'
  BY <1>0, <1>1, <1>4, <1>5, <1>6, <1>7 DEF FileInv
<1>11. RenamedInv'
  BY <1>0, <1>1, <1>9 DEF RenamedInv
<1>12. BatchInv'
  <2>1. ASSUME NEW r \in ToSet(requests)
        PROVE  /\ r[2] > a[r[1]]
               /\ ~closing => saving'[r[1]] = r[2]
    <3>1. r[1] \in Groups /\ \A b \in ToSet(batch) : b[1] # r[1]
      BY <1>1, ToSetFacts, RequestFacts
    <3>2. a[r[1]] = promised[r[1]]
      BY <1>2, <3>1
    <3>3. r[1] \notin Answered
      BY <3>1 DEF Answered, ToSet
    <3>4. r[2] > promised[r[1]] /\ (~closing => saving[r[1]] = r[2])
      BY DEF VoteFileInv, BatchInv
    <3> QED
      BY <1>0, <3>1, <3>2, <3>3, <3>4
  <2>2. OneEach(requests)
    BY DEF VoteFileInv, BatchInv
  <2> QED
    BY <1>0, <1>4, <1>9, <2>1, <2>2, EmptyFacts DEF BatchInv, Up
<1>13. TailInv'
  BY <1>0, <1>7 DEF VoteFileInv, TailInv, refusal
<1> QED
  BY <1>8, <1>10, <1>11, <1>12, <1>13 DEF VoteFileInv

(* A batch whose write or fsync failed is answered with the error. *)
LEMMA FailBatchKeeps ==
  ASSUME VoteFileInv, FailBatch
  PROVE  VoteFileInv'
<1>0. /\ voteWriter = "written" /\ voteFailed' = TRUE /\ batch' = <<>> /\ voteWriter' = "idle"
      /\ saving' = [g \in Groups |-> IF g \in Answered THEN 0 ELSE saving[g]]
      /\ UNCHANGED <<file, synced, renamed, latest, requests, closing, refusal, promised,
                     voteCrashes>>
  BY DEF FailBatch
<1>1. VoteTypeOK'
  <2>1. saving' \in [Groups -> 0..MaxTerm]
    BY <1>0, VoteConstants DEF VoteFileInv, VoteTypeOK
  <2> QED
    BY <1>0, <2>1, EmptyFacts DEF VoteFileInv, VoteTypeOK, refusal
<1>2. FileInv' /\ RenamedInv' /\ TailInv'
  BY <1>0 DEF VoteFileInv, FileInv, RenamedInv, TailInv, refusal, Up
<1>3. BatchInv'
  <2>1. ASSUME NEW r \in ToSet(requests), ~closing PROVE saving'[r[1]] = r[2]
    <3>1. r[1] \in Groups /\ \A b \in ToSet(batch) : b[1] # r[1]
      BY ToSetFacts, RequestFacts DEF VoteFileInv, VoteTypeOK, BatchInv
    <3>2. r[1] \notin Answered
      BY <3>1 DEF Answered, ToSet
    <3> QED
      BY <1>0, <2>1, <3>1, <3>2 DEF VoteFileInv, BatchInv
  <2> QED
    BY <1>0, <2>1, EmptyFacts DEF VoteFileInv, BatchInv, Up
<1> QED
  BY <1>1, <1>2, <1>3 DEF VoteFileInv

(* The rename of the rewritten log: the old file and the new one both hold *)
(* every promised vote, so either may come back.                           *)
LEMMA RenameRewriteKeeps ==
  ASSUME VoteFileInv, RenameRewrite
  PROVE  VoteFileInv'
<1>0. /\ voteWriter = "rewriting" /\ voteWriter' = "renamed"
      /\ renamed' = renamed \cup {SubSeq(file, 1, synced)}
      /\ file' = LayOut(LatestVotes) /\ synced' = Len(file')
      /\ UNCHANGED <<latest, requests, batch, voteFailed, closing, saving, refusal, promised,
                     voteCrashes>>
  BY DEF RenameRewrite
<1>1. /\ file \in Seq(Sector) /\ latest \in [Groups -> 0..MaxTerm] /\ ~voteFailed
      /\ synced = Len(file) /\ latest = promised /\ Full(file) /\ InOrder(file)
      /\ Under(file, promised) /\ renamed = {} /\ Holding(SubSeq(file, 1, synced), promised)
      /\ batch = <<>>
  BY <1>0 DEF VoteFileInv, VoteTypeOK, FileInv, RenamedInv, BatchInv, Up
<1>2. renamed' = {file}
  BY <1>0, <1>1, SubSeqFull
<1>3. /\ LatestVotes \in Seq(Requests) /\ OneEach(LatestVotes)
      /\ ToSet(LatestVotes) = {<<g, latest[g]>> : g \in {h \in Groups : latest[h] > 0}}
  BY <1>1, LatestVotesFacts
<1>4. file' \in Seq(Sector) /\ Full(file') /\ VotesIn(file') = ToSet(LatestVotes) /\ InOrder(file')
  BY <1>0, <1>3, LayOutFacts, LayOutInOrder
<1>5. SubSeq(file', 1, synced') = file' /\ Len(file') \in Nat
  BY <1>0, <1>4, SubSeqFull, FileFacts
<1>6. Under(file', promised) /\ Holding(file', promised)
  <2>1. \A g \in Groups : latest[g] \in Nat
    BY <1>1, VoteConstants
  <2>2. Under(file', promised)
    BY <1>1, <1>3, <1>4, <2>1 DEF Under
  <2>3. Holding(file', promised)
    <3> SUFFICES ASSUME NEW g \in Groups, promised[g] # 0
                 PROVE  \E r \in VotesIn(file') : r[1] = g /\ promised[g] <= r[2]
      BY DEF Holding
    <3>1. <<g, latest[g]>> \in VotesIn(file')
      BY <1>1, <1>3, <1>4, <2>1
    <3> QED
      BY <1>1, <2>1, <3>1
  <2> QED
    BY <2>2, <2>3
<1>7. VoteTypeOK'
  <2>1. synced' \in 0..Len(file')
    BY <1>0, <1>5
  <2> QED
    BY <1>0, <1>1, <1>2, <1>4, <2>1 DEF VoteFileInv, VoteTypeOK, refusal
<1>8. FileInv'
  BY <1>0, <1>1, <1>4, <1>5, <1>6 DEF FileInv
<1>9. RenamedInv'
  <2>1. Holding(file, promised)
    BY <1>1, SubSeqFull
  <2> QED
    BY <1>0, <1>1, <1>2, <2>1 DEF RenamedInv
<1>10. BatchInv'
  BY <1>0, <1>1, EmptyFacts DEF VoteFileInv, BatchInv, Up
<1>11. TailInv'
  BY <1>0, <1>4, <1>5 DEF VoteFileInv, TailInv, refusal, Full
<1> QED
  BY <1>7, <1>8, <1>9, <1>10, <1>11 DEF VoteFileInv

(* The directory fsync after a rename, a rewrite that fails and the exit *)
(* of the writer touch no record.                                        *)
LEMMA OtherWriterKeeps ==
  ASSUME VoteFileInv, FinishRewrite \/ FailRewrite \/ ExitWriter
  PROVE  VoteFileInv'
<1>1. CASE FinishRewrite
  <2>1. VoteTypeOK' /\ FileInv' /\ RenamedInv' /\ TailInv'
    BY <1>1 DEF FinishRewrite, VoteFileInv, VoteTypeOK, FileInv, RenamedInv, TailInv, refusal, Up
  <2>2. BatchInv'
    BY <1>1 DEF FinishRewrite, VoteFileInv, BatchInv, refusal, Up
  <2> QED
    BY <2>1, <2>2 DEF VoteFileInv
<1>2. CASE FailRewrite
  <2>1. VoteTypeOK' /\ FileInv' /\ RenamedInv' /\ TailInv'
    BY <1>2 DEF FailRewrite, VoteFileInv, VoteTypeOK, FileInv, RenamedInv, TailInv, refusal, Up
  <2>2. BatchInv'
    BY <1>2 DEF FailRewrite, VoteFileInv, BatchInv, refusal, Up
  <2> QED
    BY <2>1, <2>2 DEF VoteFileInv
<1>3. CASE ExitWriter
  <2>1. VoteTypeOK' /\ FileInv' /\ RenamedInv' /\ TailInv'
    BY <1>3 DEF ExitWriter, VoteFileInv, VoteTypeOK, FileInv, RenamedInv, TailInv, refusal, Up
  <2>2. BatchInv'
    BY <1>3, EmptyFacts DEF ExitWriter, VoteFileInv, BatchInv, refusal, Up
  <2> QED
    BY <2>1, <2>2 DEF VoteFileInv
<1> QED
  BY <1>1, <1>2, <1>3

----------------------------------------------------------------------------
(* The vote log's steps: opens, closes and power losses; its theorems.     *)

(* What an open cuts off holds no vote. *)
LEMMA OpenCuts ==
  ASSUME VoteFileInv, ~Corrupt(file)
  PROVE  LET v == ValidPart(file)
         IN  /\ v \in Seq(Sector) /\ Len(v) \in Nat /\ Full(v) /\ InOrder(v)
             /\ VotesIn(v) = VotesIn(file) /\ Len(v) <= Len(file)
             /\ \A n \in 0..Len(v) : n <= synced =>
                  VotesIn(SubSeq(v, 1, n)) = VotesIn(SubSeq(file, 1, n))
             /\ synced > Len(v) => VotesIn(SubSeq(file, 1, synced)) \subseteq VotesIn(v)
<1> DEFINE v == ValidPart(file)
<1>0. file \in Seq(Sector) /\ InOrder(file) /\ synced \in 0..Len(file)
  BY DEF VoteFileInv, VoteTypeOK, FileInv
<1>1. PICK m \in 0..Len(file) :
        v = SubSeq(file, 1, m) /\ Full(v) /\ \A k \in DOMAIN file : k > m => file[k] = <<>>
  BY <1>0, ValidPartFacts
<1> HIDE DEF v
<1>2. v \in Seq(Sector) /\ Len(v) = m /\ InOrder(v)
  BY <1>0, <1>1, FirstSectors
<1>3. VotesIn(v) = VotesIn(file)
  BY <1>0, <1>1, CutVotes
<1>4. Len(file) \in Nat
  BY <1>0, FileFacts
<1>5. ASSUME NEW n \in 0..Len(v) PROVE SubSeq(v, 1, n) = SubSeq(file, 1, n)
  <2>1. SubSeq(file, 1, n) \in Seq(Sector) /\ Len(SubSeq(file, 1, n)) = n /\ n \in 0..Len(file)
    BY <1>0, <1>2, <1>4, FirstSectors
  <2>2. SubSeq(v, 1, n) \in Seq(Sector) /\ Len(SubSeq(v, 1, n)) = n
    BY <1>2, FirstSectors
  <2>3. ASSUME NEW i \in 1..n PROVE SubSeq(v, 1, n)[i] = SubSeq(file, 1, n)[i]
    <3>1. i \in DOMAIN SubSeq(file, 1, n) /\ i \in DOMAIN SubSeq(v, 1, n)
      BY <2>1, <2>2, LenProperties
    <3>2. SubSeq(file, 1, n)[i] = file[i]
      BY <1>0, <2>1, <3>1, FirstSectors
    <3>3. i \in DOMAIN v /\ SubSeq(v, 1, n)[i] = v[i]
      BY <1>2, <3>1, FirstSectors
    <3>4. v[i] = file[i]
      BY <1>0, <1>1, <3>3, FirstSectors
    <3> QED
      BY <3>2, <3>3, <3>4
  <2> QED
    BY <2>1, <2>2, <2>3, SeqEqual
<1>6. VotesIn(SubSeq(file, 1, synced)) \subseteq VotesIn(file)
  BY <1>0, FirstSectors
<1>7. Len(v) \in Nat /\ Len(v) <= Len(file)
  BY <1>1, <1>2, <1>4
<1>8. \A n \in 0..Len(v) : n <= synced => VotesIn(SubSeq(v, 1, n)) = VotesIn(SubSeq(file, 1, n))
  BY <1>5
<1>9. VotesIn(SubSeq(file, 1, synced)) \subseteq VotesIn(v)
  BY <1>3, <1>6
<1>10. Full(v)
  BY <1>1
<1> QED
  BY <1>2, <1>3, <1>7, <1>8, <1>9, <1>10 DEF v

(* The open scans the file, cuts what no record follows and publishes the *)
(* highest vote of every group.                                           *)
LEMMA OpenVotesKeeps ==
  ASSUME VoteFileInv, OpenVotes
  PROVE  VoteFileInv'
<1> DEFINE s == Scan(file)
<1>0. /\ voteWriter = "none" /\ ~refused /\ ~Corrupt(file) /\ renamed' = {}
      /\ file' = ValidPart(file) /\ synced' = Len(file') /\ latest' = s
      /\ promised' = Higher(promised, latest') /\ voteWriter' = "idle" /\ voteFailed' = FALSE
      /\ UNCHANGED <<requests, batch, closing, saving, refusal, voteCrashes>>
  BY DEF OpenVotes
<1>1. /\ file \in Seq(Sector) /\ InOrder(file) /\ promised \in [Groups -> 0..MaxTerm]
      /\ synced \in 0..Len(file)
      /\ Holding(SubSeq(file, 1, synced), promised) /\ requests \in Seq(Requests)
      /\ batch \in Seq(Requests)
  BY DEF VoteFileInv, VoteTypeOK, FileInv
<1>2. ToSet(requests) = {} /\ ToSet(batch) = {} /\ batch = <<>>
  BY <1>0 DEF VoteFileInv, BatchInv, Up
<1>3. /\ file' \in Seq(Sector) /\ Len(file') \in Nat /\ Full(file') /\ InOrder(file')
      /\ VotesIn(file') = VotesIn(file)
  BY <1>0, OpenCuts
<1>4. /\ s \in [Groups -> 0..MaxTerm]
      /\ \A r \in VotesIn(file) : r[2] <= s[r[1]]
      /\ \A g \in Groups : s[g] # 0 => <<g, s[g]>> \in VotesIn(file)
  BY <1>1, ScanFacts
<1> HIDE DEF s
<1>5. \A g \in Groups : promised[g] <= s[g] /\ promised[g] \in Nat /\ s[g] \in Nat
  <2> SUFFICES ASSUME NEW g \in Groups PROVE promised[g] <= s[g] /\ promised[g] \in Nat /\ s[g] \in Nat
    OBVIOUS
  <2>1. promised[g] \in Nat /\ s[g] \in Nat
    BY <1>1, <1>4, VoteConstants
  <2>2. CASE promised[g] # 0
    <3>1. PICK r \in VotesIn(SubSeq(file, 1, synced)) : r[1] = g /\ promised[g] <= r[2]
      BY <1>1, <2>2 DEF Holding
    <3>2. r \in VotesIn(file)
      BY <1>1, <3>1, FirstSectors
    <3>3. r[2] <= s[g] /\ r[2] \in Nat
      BY <1>1, <1>4, <3>1, <3>2, FileFacts, RequestFacts
    <3> QED
      BY <2>1, <3>1, <3>3
  <2> QED
    BY <2>1, <2>2
<1>6. promised' = s
  <2>1. \A g \in Groups : Higher(promised, s)[g] = s[g]
    BY <1>5 DEF Higher
  <2>2. Higher(promised, s) = [g \in Groups |-> Higher(promised, s)[g]]
    BY DEF Higher
  <2> QED
    BY <1>0, <1>4, <2>1, <2>2
<1>7. Under(file', s) /\ Holding(file', s)
  <2>1. Under(file', s)
    BY <1>3, <1>4 DEF Under
  <2>2. Holding(file', s)
    <3> SUFFICES ASSUME NEW g \in Groups, s[g] # 0
                 PROVE  \E r \in VotesIn(file') : r[1] = g /\ s[g] <= r[2]
      BY DEF Holding
    <3>1. <<g, s[g]>> \in VotesIn(file') /\ s[g] \in Nat
      BY <1>3, <1>4, <1>5
    <3> QED
      BY <3>1
  <2> QED
    BY <2>1, <2>2
<1>8. SubSeq(file', 1, synced') = file'
  BY <1>0, <1>3, SubSeqFull
<1>9. VoteTypeOK'
  <2>1. synced' \in 0..Len(file')
    BY <1>0, <1>3
  <2> QED
    BY <1>0, <1>3, <1>4, <1>6, <2>1 DEF VoteFileInv, VoteTypeOK, refusal
<1>10. FileInv'
  BY <1>0, <1>3, <1>6, <1>7, <1>8 DEF FileInv
<1>11. RenamedInv'
  BY <1>0 DEF RenamedInv
<1>12. BatchInv'
  BY <1>0, <1>2 DEF VoteFileInv, BatchInv, Up
<1>13. TailInv'
  BY <1>0, <1>3 DEF VoteFileInv, TailInv, refusal, Full
<1> QED
  BY <1>9, <1>10, <1>11, <1>12, <1>13 DEF VoteFileInv

(* An open that fails after its set_len loses no vote either. *)
LEMMA OpenVotesFailsKeeps ==
  ASSUME VoteFileInv, OpenVotesFails
  PROVE  VoteFileInv'
<1>0. /\ voteWriter = "none" /\ ~refused /\ ~Corrupt(file) /\ renamed' = {}
      /\ file' = ValidPart(file)
      /\ synced' = IF synced < Len(file') THEN synced ELSE Len(file')
      /\ UNCHANGED <<latest, requests, batch, voteWriter, voteFailed, closing, saving, refusal,
                     promised, voteCrashes>>
  BY DEF OpenVotesFails
<1>1. /\ file \in Seq(Sector) /\ synced \in 0..Len(file) /\ Len(file) \in Nat
      /\ Holding(SubSeq(file, 1, synced), promised)
  BY FileFacts DEF VoteFileInv, VoteTypeOK, FileInv
<1>2. /\ file' \in Seq(Sector) /\ Len(file') \in Nat /\ Full(file') /\ InOrder(file')
      /\ Len(file') <= Len(file)
      /\ \A n \in 0..Len(file') : n <= synced =>
            VotesIn(SubSeq(file', 1, n)) = VotesIn(SubSeq(file, 1, n))
      /\ synced > Len(file') => VotesIn(SubSeq(file, 1, synced)) \subseteq VotesIn(file')
  BY <1>0, OpenCuts
<1>3. synced' \in 0..Len(file') /\ synced' <= synced /\ synced \in Nat
  BY <1>0, <1>1, <1>2
<1>4. VotesIn(SubSeq(file, 1, synced)) \subseteq VotesIn(SubSeq(file', 1, synced'))
  <2>1. CASE synced <= Len(file')
    <3>1. synced' = synced /\ synced \in 0..Len(file')
      BY <1>0, <1>1, <1>2, <2>1
    <3> QED
      BY <1>2, <1>3, <3>1
  <2>2. CASE synced > Len(file')
    <3>1. synced' = Len(file')
      BY <1>0, <1>1, <1>2, <2>2
    <3>2. SubSeq(file', 1, synced') = file'
      BY <1>2, <3>1, SubSeqFull
    <3> QED
      BY <1>2, <2>2, <3>2
  <2> QED
    BY <1>1, <1>2, <2>1, <2>2
<1>5. Holding(SubSeq(file', 1, synced'), promised)
  BY <1>1, <1>4 DEF Holding
<1>6. VoteTypeOK'
  BY <1>0, <1>2, <1>3 DEF VoteFileInv, VoteTypeOK, refusal
<1>7. FileInv'
  BY <1>0, <1>2, <1>5 DEF VoteFileInv, FileInv, Up
<1>8. RenamedInv' /\ BatchInv'
  BY <1>0 DEF VoteFileInv, RenamedInv, BatchInv, Up
<1>9. TailInv'
  <2>1. Len(file) - synced <= 1 => Len(file') - synced' <= 1
    BY <1>0, <1>1, <1>2, <1>3
  <2> QED
    BY <1>0, <1>2, <2>1 DEF VoteFileInv, TailInv, refusal, Full
<1> QED
  BY <1>6, <1>7, <1>8, <1>9 DEF VoteFileInv

(* An open that refuses a corrupt file leaves the file as it is; only a *)
(* batch of several sectors can have torn it.                           *)
LEMMA RefuseVotesKeeps ==
  ASSUME VoteFileInv, RefuseVotes
  PROVE  VoteFileInv'
<1>0. /\ voteWriter = "none" /\ Corrupt(file) /\ renamed' = {} /\ refused' = TRUE /\ spanned' = spanned
      /\ UNCHANGED <<file, synced, latest, requests, batch, voteWriter, voteFailed, closing,
                     saving, promised, voteCrashes>>
  BY DEF RefuseVotes
<1>1. spanned
  <2>1. SUFFICES ASSUME ~spanned PROVE FALSE
    OBVIOUS
  <2>2. PICK i \in DOMAIN file, j \in DOMAIN file : i < j /\ file[i] = <<>>
    BY <1>0 DEF Corrupt
  <2>3. i = Len(file)
    BY <2>1, <2>2 DEF VoteFileInv, TailInv
  <2>4. DOMAIN file = 1..Len(file) /\ Len(file) \in Nat
    BY FileFacts DEF VoteFileInv, VoteTypeOK
  <2> QED
    BY <2>2, <2>3, <2>4
<1>2. VoteTypeOK' /\ FileInv'
  BY <1>0 DEF VoteFileInv, VoteTypeOK, FileInv, Up
<1>3. RenamedInv' /\ BatchInv' /\ TailInv'
  BY <1>0, <1>1 DEF VoteFileInv, RenamedInv, BatchInv, TailInv, Up
<1> QED
  BY <1>2, <1>3 DEF VoteFileInv

(* Dropping the handle queues nothing and writes nothing. *)
LEMMA CloseVotesKeeps ==
  ASSUME VoteFileInv, CloseVotes
  PROVE  VoteFileInv'
<1>0. /\ voteCrashes < MaxCrashes /\ voteCrashes' = voteCrashes + 1 /\ closing' = TRUE /\ saving' = NoVotes
      /\ UNCHANGED <<file, synced, renamed, latest, requests, batch, voteWriter, voteFailed,
                     refusal, promised>>
  BY DEF CloseVotes
<1>1. NoVotes \in [Groups -> 0..MaxTerm]
  BY VoteConstants DEF NoVotes
<1>2. voteCrashes' \in 0..MaxCrashes
  BY <1>0, VoteConstants DEF VoteFileInv, VoteTypeOK
<1>3. VoteTypeOK'
  BY <1>0, <1>1, <1>2 DEF VoteFileInv, VoteTypeOK, refusal
<1>4. FileInv' /\ RenamedInv' /\ TailInv'
  BY <1>0 DEF VoteFileInv, FileInv, RenamedInv, TailInv, refusal, Up
<1>5. BatchInv'
  BY <1>0 DEF VoteFileInv, BatchInv, Up
<1> QED
  BY <1>3, <1>4, <1>5 DEF VoteFileInv

(* A power loss keeps what was fsynced, any part of what was not, and the *)
(* file a rename replaced if its directory was not fsynced.               *)
LEMMA VoteCrashKeeps ==
  ASSUME VoteFileInv, VoteCrash
  PROVE  VoteFileInv'
<1>0. voteCrashes' \in 0..MaxCrashes
  BY VoteConstants DEF VoteCrash, VoteFileInv, VoteTypeOK
<1>1. /\ requests' = <<>> /\ batch' = <<>> /\ latest' = NoVotes /\ voteWriter' = "none"
      /\ voteFailed' = FALSE /\ closing' = FALSE /\ saving' = NoVotes
      /\ UNCHANGED <<refusal, promised>>
  BY DEF VoteCrash, KillVotes, LosePowerVotes, VoteMemoryLost
<1>2. NoVotes \in [Groups -> 0..MaxTerm]
  BY VoteConstants DEF NoVotes
<1>3. BatchInv'
  BY <1>1, EmptyFacts DEF BatchInv
<1>4. ASSUME file' \in Seq(Sector), synced' \in 0..Len(file'), InOrder(file'),
             Holding(SubSeq(file', 1, synced'), promised),
             \A f \in renamed' : f \in renamed,
             ~spanned => /\ Len(file') - synced' <= 1
                         /\ \A k \in DOMAIN file' : file'[k] = <<>> => k = Len(file')
      PROVE  VoteFileInv'
  <2>1. VoteTypeOK'
    BY <1>0, <1>1, <1>2, <1>4, EmptyFacts DEF VoteFileInv, VoteTypeOK, refusal
  <2>2. FileInv'
    BY <1>1, <1>4 DEF FileInv, Up
  <2>3. RenamedInv'
    BY <1>1, <1>4 DEF VoteFileInv, RenamedInv
  <2>4. TailInv'
    BY <1>1, <1>4 DEF VoteFileInv, TailInv, refusal
  <2> QED
    BY <1>3, <2>1, <2>2, <2>3, <2>4 DEF VoteFileInv
<1>5. /\ file \in Seq(Sector) /\ synced \in 0..Len(file) /\ InOrder(file) /\ Len(file) \in Nat
      /\ Holding(SubSeq(file, 1, synced), promised) /\ DOMAIN file = 1..Len(file)
  BY FileFacts DEF VoteFileInv, VoteTypeOK, FileInv
<1>6. CASE KillVotes
  <2>1. UNCHANGED <<file, synced, renamed>>
    BY <1>6 DEF KillVotes
  <2> QED
    BY <1>4, <1>5, <2>1 DEF VoteFileInv, TailInv
<1>7. CASE LosePowerVotes
  <2>0. renamed' = {}
    BY <1>7 DEF LosePowerVotes
  <2>1. ASSUME NEW n \in synced..Len(file), NEW zeroed \in SUBSET ((synced + 1)..n),
               file' = [i \in 1..n |-> IF i \in zeroed THEN <<>> ELSE file[i]], synced' = n
        PROVE  VoteFileInv'
    <3>1. n \in Nat /\ synced \in Nat /\ synced <= n /\ n <= Len(file)
      BY <1>5
    <3>2. <<>> \in Sector
      <4>1. <<>> \in [1..0 -> Requests] /\ 0 \in 0..SlotsPerSector
        BY VoteConstants
      <4> QED
        BY <4>1 DEF Sector
    <3>3. \A i \in 1..n : file[i] \in Sector /\ i \in DOMAIN file
      BY <1>5, <3>1, FileFacts
    <3>4. file' \in Seq(Sector) /\ Len(file') = n /\ DOMAIN file' = 1..n
      <4>1. file' \in [1..n -> Sector]
        BY <2>1, <3>2, <3>3
      <4> QED
        BY <3>1, <4>1
    <3>5. \A i \in 1..n : file'[i] = <<>> \/ file'[i] = file[i]
      BY <2>1
    <3>6. \A i \in 1..synced : file'[i] = file[i]
      BY <2>1, <3>1
    <3>7. InOrder(file')
      <4> SUFFICES ASSUME NEW k \in DOMAIN file', NEW l \in DOMAIN file', NEW i \in DOMAIN file'[k],
                          NEW j \in DOMAIN file'[l], k < l \/ (k = l /\ i < j),
                          file'[k][i][1] = file'[l][j][1]
                   PROVE  file'[k][i][2] <= file'[l][j][2]
        BY DEF InOrder
      <4>1. file'[k] = file[k] /\ file'[l] = file[l] /\ k \in DOMAIN file /\ l \in DOMAIN file
        BY <3>3, <3>4, <3>5
      <4> QED
        BY <1>5, <4>1 DEF InOrder
    <3>8. SubSeq(file', 1, n) = file'
      BY <3>4, SubSeqFull
    <3>9. VotesIn(SubSeq(file, 1, synced)) \subseteq VotesIn(file')
      <4> SUFFICES ASSUME NEW r \in VotesIn(SubSeq(file, 1, synced)) PROVE r \in VotesIn(file')
        OBVIOUS
      <4> DEFINE h == SubSeq(file, 1, synced)
      <4>1. PICK k \in DOMAIN h : \E i \in DOMAIN h[k] : h[k][i] = r
        BY VotesAt
      <4>2. h[k] = file[k] /\ k \in DOMAIN file /\ k <= synced
        BY <1>5, <4>1, FirstSectors
      <4> HIDE DEF h
      <4>3. k \in 1..synced
        BY <1>5, <3>1, <4>2
      <4>4. k \in DOMAIN file' /\ file'[k] = file[k]
        BY <3>1, <3>4, <3>6, <4>3
      <4> QED
        BY <4>1, <4>2, <4>4, VotesAt
    <3>10. Holding(SubSeq(file', 1, synced'), promised)
      BY <1>5, <2>1, <3>8, <3>9 DEF Holding
    <3>11. ASSUME ~spanned
           PROVE  Len(file') - synced' <= 1 /\ \A k \in DOMAIN file' : file'[k] = <<>> => k = Len(file')
      <4>1. Len(file) - synced <= 1 /\ \A k \in DOMAIN file : file[k] = <<>> => k = Len(file)
        BY <3>11 DEF VoteFileInv, TailInv
      <4>2. ASSUME NEW k \in 1..n, file'[k] = <<>> PROVE k = n
        <5>1. CASE k \in zeroed
          BY <1>5, <3>1, <4>1, <5>1
        <5>2. CASE k \notin zeroed
          <6>1. file[k] = <<>>
            BY <2>1, <4>2, <5>2
          <6>2. k = Len(file)
            BY <3>3, <4>1, <6>1
          <6>3. k \in Nat /\ k <= n /\ n <= k
            BY <3>1, <6>2
          <6> QED
            BY <3>1, <6>3
        <5> QED
          BY <5>1, <5>2
      <4> QED
        BY <2>1, <3>1, <3>4, <4>2
    <3>12. synced' \in 0..Len(file')
      BY <2>1, <3>1, <3>4
    <3> QED
      BY <1>4, <2>0, <3>4, <3>7, <3>10, <3>11, <3>12
  <2>2. ASSUME file' \in renamed, synced' = Len(file') PROVE VoteFileInv'
    <3>1. file' \in Seq(Sector) /\ InOrder(file') /\ Full(file') /\ Holding(file', promised)
      BY <2>2 DEF VoteFileInv, VoteTypeOK, RenamedInv
    <3>2. Len(file') \in Nat /\ SubSeq(file', 1, synced') = file'
      BY <2>2, <3>1, FileFacts, SubSeqFull
    <3>3. synced' \in 0..Len(file') /\ Len(file') - synced' <= 1
      BY <2>2, <3>2
    <3> QED
      BY <1>4, <2>0, <3>1, <3>2, <3>3 DEF Full
  <2> QED
    BY <1>7, <2>1, <2>2 DEF LosePowerVotes
<1> QED
  BY <1>6, <1>7 DEF VoteCrash

(* Every step of the vote log preserves VoteFileInv. *)
LEMMA VoteStepKeeps == VoteFileInv /\ [VoteNext]_voteVars => VoteFileInv'
<1> SUFFICES ASSUME VoteFileInv, [VoteNext]_voteVars PROVE VoteFileInv'
  OBVIOUS
<1>1. CASE UNCHANGED voteVars
  <2>1. VoteTypeOK' /\ FileInv'
    BY <1>1 DEF voteVars, refusal, VoteFileInv, VoteTypeOK, FileInv, Up
  <2>2. RenamedInv' /\ BatchInv' /\ TailInv'
    BY <1>1 DEF voteVars, refusal, VoteFileInv, RenamedInv, BatchInv, TailInv, Up
  <2> QED
    BY <2>1, <2>2 DEF VoteFileInv
<1>2. CASE VoteWriter
  BY <1>2, WriteBatchKeeps, RejectBatchKeeps, CommitBatchKeeps, FailBatchKeeps,
     RenameRewriteKeeps, OtherWriterKeeps DEF VoteWriter
<1> QED
  BY <1>1, <1>2, SaveKeeps, OpenVotesKeeps, OpenVotesFailsKeeps, RefuseVotesKeeps,
     CloseVotesKeeps, VoteCrashKeeps DEF VoteNext

(* The inductive invariant holds in every state of a vote log, for any *)
(* groups, terms, sector size, rewrite threshold and number of power   *)
(* losses.                                                             *)
THEOREM VoteFileHolds == VoteSpec => []VoteFileInv
<1>1. VoteInit => VoteFileInv
  BY VoteInitInv
<1>2. VoteFileInv /\ [VoteNext]_voteVars => VoteFileInv'
  BY VoteStepKeeps
<1> QED
  BY <1>1, <1>2, PTL DEF VoteSpec

(* A vote the writer answered for, or an open exposed, is never forgotten: *)
(* every later open finds it or a higher one, through torn batches,        *)
(* rewrites and power losses (vote_log.rs: Writer::write fsyncs before     *)
(* Writer::commit answers; rewrite renames a synced file).                 *)
THEOREM VotesSurvive == VoteSpec => []VotesAreKept
<1>1. VoteFileInv => VotesAreKept
  <2> SUFFICES ASSUME VoteFileInv, voteWriter # "none", NEW g \in Groups PROVE latest[g] >= promised[g]
    BY DEF VotesAreKept
  <2>1. latest = promised /\ promised[g] \in Nat
    BY VoteConstants DEF VoteFileInv, VoteTypeOK, FileInv, Up
  <2> QED
    BY <2>1
<1> QED
  BY <1>1, VoteFileHolds, PTL

(* An open refuses a vote log only after a batch that took more than one   *)
(* sector: a power loss can tear no smaller one (vote_log.rs, scan against *)
(* lay_out).                                                               *)
THEOREM VoteLogReopens == VoteSpec => []VoteInv
<1>1. VoteFileInv => VoteInv
  BY DEF VoteFileInv, VoteInv, TailInv, SmallBatchesReopen
<1> QED
  BY <1>1, VoteFileHolds, PTL

----------------------------------------------------------------------------
(* The group with its vote log: the parts of its inductive invariant.      *)

(* The votes that can still be read back: written, queued, or in a file a power loss *)
(* may bring back.                                                                   *)
Stored ==
  VotesIn(file) \cup ToSet(requests) \cup ToSet(batch) \cup UNION {VotesIn(f) : f \in renamed}

(* A record an fsync has to cover. *)
Firm(r) == r.kind # "committed"

(* Who waits for what: the one call of openraft that is unanswered, and where its *)
(* command is.                                                                    *)
CallInv ==
  /\ handle \in {"closed", "open", "closing"}
  /\ walWriter \in {"none", "idle", "written"}
  /\ caller \in {"idle", "marker", "fence", "cast"}
  /\ casting \in 0..MaxTerm
  /\ caller \in {"fence", "cast"} => casting # 0
  /\ handle # "open" => caller = "idle"
  /\ handle = "open" => voteWriter # "none" /\ ~closing
  /\ walWriter # "written" => taken = {}
  /\ handle = "open" =>
       /\ "durable" \in taken \cup commands.kinds => caller = "marker"
       /\ "fence" \in taken \cup commands.kinds => caller = "fence"
       /\ ~(taken \cap {"durable", "fence"} # {} /\ commands.kinds \cap {"durable", "fence"} # {})

(* What no fsync has covered will be covered by the next answer. *)
SyncInv ==
  /\ \A p \in DOMAIN commands.frames : Firm(commands.frames[p]) => NeedsSync(commands.kinds)
  /\ walWriter = "idle" /\ ~walFailed =>
       \A p \in (walSynced + 1)..Len(wal) : ~Firm(wal[p])
  /\ walWriter = "written" /\ ~walFailed =>
       \A p \in (walSynced + 1)..Len(wal) : Firm(wal[p]) => NeedsSync(taken)

(* A vote that can be read back came after its fsync; one that waits behind its fence *)
(* follows a record the fence will find covered.                                      *)
FollowInv ==
  /\ follows \in [1..MaxTerm -> Nat]
  /\ \A v \in 1..MaxTerm : <<Mine, v>> \in Stored => follows[v] <= walSynced
  /\ caller = "cast" => follows[casting] <= walSynced
  /\ caller = "fence" /\ ~walFailed /\ follows[casting] > walSynced =>
       /\ follows[casting] \in DOMAIN Accepted
       /\ Firm(Accepted[follows[casting]])
       /\ "fence" \in taken => follows[casting] <= Len(wal)

(* A log that is not on the disk has no vote; one that was lost after a vote stays closed. *)
VoterInv ==
  /\ handle # "closed" => segment = "durable"
  /\ damaged = "no" /\ segment # "durable" =>
       promised[Mine] = 0 /\ \A v \in 1..MaxTerm : <<Mine, v>> \notin Stored
  /\ damaged = "voted" =>
       handle = "closed" /\ walWriter = "none" /\ segment = "none" /\ promised[Mine] # 0
  /\ lostLog => damaged # "no"

(* A step of the vote log other than a save. *)
QuietVote ==
  VoteWriter \/ OpenVotes \/ OpenVotesFails \/ RefuseVotes \/ CloseVotes \/ VoteCrash

----------------------------------------------------------------------------
(* No step but a save makes a vote appear. *)
LEMMA StoredShrinks ==
  ASSUME VoteFileInv, QuietVote
  PROVE  Stored' \subseteq Stored
<1>0. /\ file \in Seq(Sector) /\ requests \in Seq(Requests) /\ batch \in Seq(Requests)
      /\ synced \in 0..Len(file)
  BY DEF VoteFileInv, VoteTypeOK
<1>1. CASE WriteBatch
  <2>1. PICK n \in 0..Len(requests) : file' = file \o LayOut(SubSeq(requests, 1, n))
    BY <1>1 DEF WriteBatch
  <2>2. requests' = <<>> /\ batch' = requests /\ renamed' = renamed
    BY <1>1 DEF WriteBatch
  <2>3. SubSeq(requests, 1, n) \in Seq(Requests) /\ ToSet(SubSeq(requests, 1, n)) \subseteq ToSet(requests)
    <3>1. requests \in Seq(Requests) /\ Len(requests) \in Nat /\ DOMAIN requests = 1..Len(requests)
      BY <1>0, LenProperties
    <3>2. /\ SubSeq(requests, 1, n) \in Seq(Requests) /\ Len(SubSeq(requests, 1, n)) = n
          /\ \A i \in 1..n : SubSeq(requests, 1, n)[i] = requests[i]
      BY <3>1, SubSeqProperties
    <3>3. DOMAIN SubSeq(requests, 1, n) = 1..n
      BY <3>2, LenProperties
    <3>4. \A i \in 1..n : i \in DOMAIN requests
      BY <3>1
    <3> QED
      BY <3>2, <3>3, <3>4 DEF ToSet
  <2>4. VotesIn(file') = VotesIn(file) \cup ToSet(SubSeq(requests, 1, n))
    BY <1>0, <2>1, <2>3, LayOutFacts, ConcatVotes
  <2> QED
    BY <2>2, <2>3, <2>4, EmptyFacts DEF Stored
<1>2. CASE RejectBatch
  BY <1>2, EmptyFacts DEF RejectBatch, Stored
<1>3. CASE CommitBatch \/ FailBatch
  <2>1. batch' = <<>> /\ UNCHANGED <<file, renamed, requests>>
    BY <1>3 DEF CommitBatch, FailBatch
  <2> QED
    BY <2>1, EmptyFacts DEF Stored
<1>4. CASE RenameRewrite
  <2>1. /\ renamed' = renamed \cup {SubSeq(file, 1, synced)} /\ file' = LayOut(LatestVotes)
        /\ UNCHANGED <<requests, batch>> /\ voteWriter = "rewriting"
    BY <1>4 DEF RenameRewrite
  <2>2. /\ latest \in [Groups -> 0..MaxTerm] /\ ~voteFailed /\ latest = promised
        /\ Under(file, promised) /\ Holding(SubSeq(file, 1, synced), promised)
    BY <2>1 DEF VoteFileInv, VoteTypeOK, FileInv, RenamedInv, Up
  <2>3. VotesIn(SubSeq(file, 1, synced)) \subseteq VotesIn(file)
    BY <1>0, FirstSectors
  <2>4. VotesIn(file') = {<<g, latest[g]>> : g \in {h \in Groups : latest[h] > 0}}
    BY <2>1, <2>2, LatestVotesFacts, LayOutFacts
  <2>5. ASSUME NEW g \in Groups, latest[g] > 0 PROVE <<g, latest[g]>> \in VotesIn(file)
    <3>1. latest[g] \in Nat /\ latest[g] # 0
      BY <2>2, <2>5, VoteConstants
    <3>2. PICK r \in VotesIn(SubSeq(file, 1, synced)) : r[1] = g /\ promised[g] <= r[2]
      BY <2>2, <2>5, <3>1 DEF Holding
    <3>3. r \in VotesIn(file) /\ r \in Requests /\ r[2] <= promised[g]
      BY <1>0, <2>2, <2>3, <3>2, FileFacts DEF Under
    <3>4. r = <<r[1], r[2]>> /\ r[2] \in Nat
      BY <3>3, RequestFacts
    <3>5. r[2] = latest[g]
      BY <2>2, <3>1, <3>2, <3>3, <3>4
    <3> QED
      BY <3>2, <3>3, <3>4, <3>5
  <2>6. VotesIn(file') \subseteq VotesIn(file)
    BY <2>4, <2>5
  <2> QED
    BY <2>1, <2>3, <2>6 DEF Stored
<1>5. CASE FinishRewrite \/ FailRewrite \/ ExitWriter
  BY <1>5 DEF FinishRewrite, FailRewrite, ExitWriter, Stored
<1>6. CASE OpenVotes \/ OpenVotesFails
  <2>1. ~Corrupt(file) /\ renamed' = {} /\ file' = ValidPart(file) /\ UNCHANGED <<requests, batch>>
    BY <1>6 DEF OpenVotes, OpenVotesFails
  <2>2. VotesIn(file') = VotesIn(file)
    BY <2>1, OpenCuts
  <2> QED
    BY <2>1, <2>2 DEF Stored
<1>7. CASE RefuseVotes \/ CloseVotes
  BY <1>7 DEF RefuseVotes, CloseVotes, Stored
<1>8. CASE VoteCrash
  <2>1. requests' = <<>> /\ batch' = <<>>
    BY <1>8 DEF VoteCrash, KillVotes, LosePowerVotes, VoteMemoryLost
  <2>2. CASE KillVotes
    BY <2>1, <2>2, EmptyFacts DEF KillVotes, Stored
  <2>3. CASE LosePowerVotes
    <3>1. renamed' = {}
      BY <2>3 DEF LosePowerVotes
    <3>2. CASE file' \in renamed
      BY <2>1, <3>1, <3>2, EmptyFacts DEF Stored
    <3>3. ASSUME NEW n \in synced..Len(file), NEW zeroed \in SUBSET ((synced + 1)..n),
                 file' = [i \in 1..n |-> IF i \in zeroed THEN <<>> ELSE file[i]]
          PROVE  VotesIn(file') \subseteq VotesIn(file)
      <4> SUFFICES ASSUME NEW r \in VotesIn(file') PROVE r \in VotesIn(file)
        OBVIOUS
      <4>1. PICK k \in DOMAIN file' : \E i \in DOMAIN file'[k] : file'[k][i] = r
        BY VotesAt
      <4>2. k \in 1..n /\ k \notin zeroed /\ file'[k] = file[k]
        BY <3>3, <4>1
      <4>3. k \in DOMAIN file
        BY <1>0, <4>2, FileFacts
      <4> QED
        BY <4>1, <4>2, <4>3, VotesAt
    <3>4. CASE \E n \in synced..Len(file) : \E zeroed \in SUBSET ((synced + 1)..n) :
                 file' = [i \in 1..n |-> IF i \in zeroed THEN <<>> ELSE file[i]]
      <4>1. VotesIn(file') \subseteq VotesIn(file)
        BY <3>3, <3>4
      <4> QED
        BY <2>1, <3>1, <4>1, EmptyFacts DEF Stored
    <3> QED
      BY <2>3, <3>2, <3>4 DEF LosePowerVotes
  <2> QED
    BY <1>8, <2>2, <2>3 DEF VoteCrash
<1> QED
  BY <1>1, <1>2, <1>3, <1>4, <1>5, <1>6, <1>7, <1>8 DEF QuietVote, VoteWriter

(* A vote is answered for or exposed only if it can be read back. *)
LEMMA PromisesAreStored ==
  ASSUME VoteFileInv, QuietVote, NEW g \in Groups
  PROVE  /\ promised'[g] = promised[g] \/ <<g, promised'[g]>> \in Stored
         /\ promised[g] \in Nat /\ promised'[g] \in Nat /\ promised[g] <= promised'[g]
<1>0. promised \in [Groups -> 0..MaxTerm] /\ promised[g] \in Nat
  BY VoteConstants DEF VoteFileInv, VoteTypeOK
<1>1. CASE CommitBatch
  <2>1. voteWriter = "written" /\ promised' = Higher(promised, Apply(batch, latest))
    BY <1>1 DEF CommitBatch
  <2>2. /\ promised'[g] = Apply(batch, latest)[g] /\ promised'[g] \in Nat /\ promised[g] <= promised'[g]
        /\ (\A r \in ToSet(batch) : r[1] # g) => promised'[g] = promised[g]
        /\ \A r \in ToSet(batch) : r[1] = g => promised'[g] = r[2]
    BY <2>1, CommitRaises
  <2>3. ASSUME NEW r \in ToSet(batch), r[1] = g PROVE <<g, promised'[g]>> \in Stored
    <3>1. r \in Requests
      BY ToSetFacts DEF VoteFileInv, VoteTypeOK
    <3>2. r = <<g, promised'[g]>>
      BY <2>2, <2>3, <3>1, RequestFacts
    <3> QED
      BY <3>2 DEF Stored
  <2> QED
    BY <1>0, <2>2, <2>3
<1>2. CASE OpenVotes
  <2>1. promised' = Higher(promised, Scan(file))
    BY <1>2 DEF OpenVotes
  <2>2. /\ Scan(file) \in [Groups -> 0..MaxTerm]
        /\ Scan(file)[g] # 0 => <<g, Scan(file)[g]>> \in VotesIn(file)
    BY ScanFacts DEF VoteFileInv, VoteTypeOK, FileInv
  <2>3. Scan(file)[g] \in Nat
    BY <2>2, VoteConstants
  <2>4. promised'[g] = IF promised[g] > Scan(file)[g] THEN promised[g] ELSE Scan(file)[g]
    BY <2>1 DEF Higher
  <2>5. CASE promised[g] > Scan(file)[g]
    BY <1>0, <2>4, <2>5
  <2>6. CASE promised[g] <= Scan(file)[g]
    <3>1. promised'[g] = Scan(file)[g]
      BY <1>0, <2>3, <2>4, <2>6
    <3>2. CASE Scan(file)[g] = 0
      BY <1>0, <2>6, <3>1, <3>2
    <3>3. CASE Scan(file)[g] # 0
      BY <1>0, <2>2, <2>3, <2>6, <3>1, <3>3 DEF Stored
    <3> QED
      BY <3>2, <3>3
  <2> QED
    BY <1>0, <2>3, <2>5, <2>6
<1>3. CASE promised' = promised
  BY <1>0, <1>3
<1> QED
  BY <1>1, <1>2, <1>3 DEF QuietVote, VoteWriter, WriteBatch, RejectBatch, FailBatch, RenameRewrite,
     FinishRewrite, FailRewrite, ExitWriter, OpenVotesFails, RefuseVotes, CloseVotes, VoteCrash,
     KillVotes, LosePowerVotes

(* A save adds its vote and no other. *)
LEMMA SaveStores ==
  ASSUME VoteFileInv, NEW g \in Groups, NEW v \in 1..MaxTerm, Save(g, v)
  PROVE  Stored' = Stored \cup {<<g, v>>} /\ promised' = promised
<1>1. <<g, v>> \in Requests
  BY DEF Requests
<1>2. ToSet(requests') = ToSet(requests) \cup {<<g, v>>}
  BY <1>1, AppendFacts DEF Save, VoteFileInv, VoteTypeOK
<1> QED
  BY <1>2 DEF Save, Stored

(* A step of the group is a step of the vote log, or leaves the vote log alone. *)
LEMMA GroupSteps ==
  ASSUME CallInv, Next
  PROVE  \/ UNCHANGED voteVars
         \/ CastVote /\ casting \in 1..MaxTerm
         \/ \E g \in Groups \ {Mine}, v \in 1..MaxTerm : OthersVote(g, v)
         \/ (VoteStep \/ CloseHost \/ Crash) /\ QuietVote
<1>0. casting \in 0..MaxTerm /\ (caller = "cast" => casting # 0)
  BY DEF CallInv
<1>1. CASE Calls
  <2>1. CASE CastVote
    BY <1>0, <2>1, VoteConstants DEF CastVote
  <2>2. CASE ~CastVote
    BY <1>1, <2>2, CallsWrite DEF Write
  <2> QED
    BY <2>1, <2>2
<1>2. CASE LogWriter
  BY <1>2 DEF LogWriter, TakeCommands, AnswerCommands, FailCommands, RejectCommands, ExitLogWriter
<1>3. CASE RefuseLog \/ OpenLog \/ OpenLogFails \/ DamageLog
  BY <1>3 DEF RefuseLog, OpenLog, OpenLogFails, DamageLog
<1>4. CASE CloseHost
  BY <1>4 DEF CloseHost, QuietVote
<1>5. CASE VoteStep
  BY <1>5 DEF VoteStep, QuietVote
<1>6. CASE Crash
  BY <1>6 DEF Crash, Kill, LosePower, VoteCrash, QuietVote
<1> QED
  BY <1>1, <1>2, <1>3, <1>4, <1>5, <1>6 DEF Next

(* The vote log's invariant survives every step of the group. *)
LEMMA GroupVoteStep ==
  ASSUME VoteFileInv, CallInv, [Next]_vars
  PROVE  VoteFileInv'
<1>1. CASE UNCHANGED vars
  BY <1>1, VoteStepKeeps DEF vars
<1>2. CASE UNCHANGED voteVars
  BY <1>2, VoteStepKeeps
<1>3. CASE CastVote /\ casting \in 1..MaxTerm
  BY <1>3, SaveKeeps, GroupLogAssumption DEF CastVote
<1>4. CASE \E g \in Groups \ {Mine}, v \in 1..MaxTerm : OthersVote(g, v)
  BY <1>4, SaveKeeps DEF OthersVote
<1>5. CASE QuietVote
  <2>1. VoteNext
    BY <1>5 DEF QuietVote, VoteNext
  <2> QED
    BY <2>1, VoteStepKeeps
<1> QED
  BY <1>1, <1>2, <1>3, <1>4, <1>5, GroupSteps

----------------------------------------------------------------------------
(* One call at a time.                                                     *)

(* What a call queues, and what it then waits for: an append's callback and a lazy *)
(* marker keep nobody waiting.                                                     *)
CallShape(kind, frames) ==
  \/ kind = "append" /\ UNCHANGED <<caller, casting, follows>>
  \/ kind = "durable" /\ caller' = "marker" /\ UNCHANGED <<casting, follows>>
  \/ /\ kind = "lazy" /\ UNCHANGED <<caller, casting, follows>>
     /\ \A p \in DOMAIN frames : ~Firm(frames[p])
  \/ kind = "fence" /\ frames = <<>> /\ caller' = "fence" /\ \E v \in 1..MaxTerm : SaveVote(v)

(* Every call of openraft but the cast has one of these shapes. *)
LEMMA CallShapes ==
  ASSUME Calls, ~CastVote
  PROVE  /\ Ready
         /\ \E ix, kind : \E frames \in Seq(Records) :
              Write(ix, kind, frames) /\ CallShape(kind, frames)
<1> DEFINE Found == Ready /\ \E ix, kind : \E frames \in Seq(Records) :
                                Write(ix, kind, frames) /\ CallShape(kind, frames)
<1>0. \A id \in LogIds \cup {NoId} : \A k \in {"truncate", "purge", "committed"} :
        <<[kind |-> k, id |-> id]>> \in Seq(Records)
  BY DEF Records
<1>1. ASSUME NEW t \in 1..MaxTerm, NEW first \in 0..MaxIndex, NEW last \in 0..MaxIndex,
             first <= last, AppendEntries(t, first, last)
      PROVE  Found
  <2> DEFINE run == [k \in 1..(last - first + 1) |-> EntryRecord(t, first + k - 1)]
  <2>1. Write(ApplyAll(index, run), "append", run) /\ CallShape("append", run) /\ Ready
    BY <1>1 DEF AppendEntries, CallShape
  <2>2. run \in Seq(Records)
    BY <1>1, RunIsRecords
  <2> HIDE DEF run
  <2> QED
    BY <2>1, <2>2
<1>2. ASSUME NEW id \in LogIds \cup {NoId}, TruncateAfter(id) PROVE Found
  <2>1. /\ Write(Truncate(index, id), "durable", <<[kind |-> "truncate", id |-> id]>>)
        /\ CallShape("durable", <<[kind |-> "truncate", id |-> id]>>) /\ Ready
    BY <1>2 DEF TruncateAfter, CallShape
  <2> QED
    BY <1>0, <2>1
<1>3. ASSUME NEW id \in LogIds, PurgeLog(id) PROVE Found
  <2>1. /\ Write(Purge(index, id), "durable", <<[kind |-> "purge", id |-> id]>>)
        /\ CallShape("durable", <<[kind |-> "purge", id |-> id]>>) /\ Ready
    BY <1>3 DEF PurgeLog, CallShape
  <2> QED
    BY <1>0, <2>1
<1>4. ASSUME NEW id \in LogIds, SaveCommitted(id) PROVE Found
  <2>0. ASSUME NEW p \in DOMAIN <<[kind |-> "committed", id |-> id]>>
        PROVE  ~Firm(<<[kind |-> "committed", id |-> id]>>[p])
    BY DEF Firm
  <2>1. /\ Write(Commit(index, id), "lazy", <<[kind |-> "committed", id |-> id]>>)
        /\ CallShape("lazy", <<[kind |-> "committed", id |-> id]>>) /\ Ready
    BY <1>4, <2>0 DEF SaveCommitted, CallShape
  <2> QED
    BY <1>0, <2>1
<1>5. ASSUME NEW v \in 1..MaxTerm, SaveVote(v) PROVE Found
  <2>1. Write(index, "fence", <<>>) /\ CallShape("fence", <<>>) /\ Ready /\ <<>> \in Seq(Records)
    BY <1>5 DEF SaveVote, CallShape
  <2> QED
    BY <2>1
<1> QED
  BY <1>1, <1>2, <1>3, <1>4, <1>5 DEF Calls

(* A running vote log stays up under an open handle. *)
LEMMA VoteLogStaysUp ==
  ASSUME VoteStep, handle = "open", voteWriter # "none", ~closing
  PROVE  voteWriter' # "none" /\ ~closing'
<1>1. CASE VoteWriter
  <2>1. ~ExitWriter
    BY DEF ExitWriter
  <2> QED
    BY <1>1, <2>1 DEF VoteWriter, WriteBatch, RejectBatch, CommitBatch, FailBatch, RenameRewrite,
       FinishRewrite, FailRewrite
<1>2. CASE ~VoteWriter
  BY <1>2 DEF VoteStep, OpenVotes, OpenVotesFails, RefuseVotes
<1> QED
  BY <1>1, <1>2

(* What the answer of a batch does to the caller. *)
LEMMA AnswerShape ==
  ASSUME CallInv, NEW kinds, NEW ok \in BOOLEAN, Answer(kinds, ok)
  PROVE  /\ \/ UNCHANGED <<caller, casting>> /\ (handle # "open" \/ kinds \cap {"durable", "fence"} = {})
            \/ ok /\ handle = "open" /\ caller = "fence" /\ caller' = "cast" /\ casting' = casting
            \/ caller' = "idle" /\ casting' = 0
BY DEF Answer

(* No call is open in a fresh group. *)
LEMMA CallInit == Init => CallInv
BY VoteConstants DEF Init, VoteInit, LogInit, CallInv, NoCommands

(* openraft's calls stay one at a time: every step keeps CallInv. *)
LEMMA CallStep ==
  ASSUME PrefixInv, CallInv, [Next]_vars
  PROVE  CallInv'
<1>0. /\ NoCommands.kinds = {} /\ 0 \in 0..MaxTerm
      /\ walWriter = "none" => commands = NoCommands
      /\ handle = "open" => walWriter # "none"
  BY VoteConstants DEF NoCommands, PrefixInv
<1>1. CASE UNCHANGED vars
  BY <1>1 DEF vars, voteVars, logVars, CallInv
<1>2. CASE CastVote
  BY <1>0, <1>2 DEF CastVote, Save, CallInv
<1>3. CASE Calls /\ ~CastVote
  <2>1. /\ handle = "open" /\ caller = "idle"
        /\ UNCHANGED <<voteVars, handle, walWriter, taken>>
    BY <1>3, CallShapes DEF Ready, Write
  <2>2. {"durable", "fence"} \cap (taken \cup commands.kinds) = {}
    BY <2>1 DEF CallInv
  <2>3. ASSUME NEW kind, commands'.kinds = commands.kinds \cup {kind},
               \/ kind \in {"append", "lazy"} /\ UNCHANGED <<caller, casting>>
               \/ kind = "durable" /\ caller' = "marker" /\ UNCHANGED casting
               \/ kind = "fence" /\ caller' = "fence" /\ casting' \in 1..MaxTerm
        PROVE  CallInv'
    BY <2>1, <2>2, <2>3, VoteConstants DEF CallInv, voteVars
  <2>4. PICK ix, kind : \E frames \in Seq(Records) : Write(ix, kind, frames) /\ CallShape(kind, frames)
    BY <1>3, CallShapes
  <2>5. commands'.kinds = commands.kinds \cup {kind}
    BY <2>4 DEF Write
  <2>6. (\E v \in 1..MaxTerm : SaveVote(v)) => casting' \in 1..MaxTerm
    BY DEF SaveVote
  <2> QED
    BY <2>3, <2>4, <2>5, <2>6 DEF CallShape
<1>4. CASE TakeCommands
  BY <1>0, <1>4 DEF TakeCommands, CallInv, voteVars
<1>5. CASE AnswerCommands
  <2>1. /\ Answer(taken, TRUE) /\ taken' = {} /\ walWriter' = "idle"
        /\ UNCHANGED <<voteVars, handle, commands>>
    BY <1>5 DEF AnswerCommands
  <2>2. CASE UNCHANGED <<caller, casting>> /\ (handle # "open" \/ taken \cap {"durable", "fence"} = {})
    BY <1>0, <2>1, <2>2 DEF CallInv, voteVars
  <2>3. CASE handle = "open" /\ taken \cap {"durable", "fence"} # {} /\ casting' \in {casting, 0}
             /\ caller' \in {"idle", "cast"} /\ (caller' = "cast" => caller = "fence" /\ casting' = casting)
    BY <1>0, <2>1, <2>3 DEF CallInv, voteVars
  <2> QED
    BY <2>1, <2>2, <2>3 DEF Answer
<1>6. CASE FailCommands
  <2>1. /\ Answer(taken, FALSE) /\ taken' = {} /\ walWriter' = "idle"
        /\ UNCHANGED <<voteVars, handle, commands>>
    BY <1>6 DEF FailCommands
  <2>2. CASE UNCHANGED <<caller, casting>> /\ (handle # "open" \/ taken \cap {"durable", "fence"} = {})
    BY <1>0, <2>1, <2>2 DEF CallInv, voteVars
  <2>3. CASE handle = "open" /\ taken \cap {"durable", "fence"} # {} /\ casting' \in {casting, 0}
             /\ caller' \in {"idle", "cast"} /\ (caller' = "cast" => caller = "fence" /\ casting' = casting)
    BY <1>0, <2>1, <2>3 DEF CallInv, voteVars
  <2> QED
    BY <2>1, <2>2, <2>3 DEF Answer
<1>7. CASE RejectCommands
  <2>1. /\ Answer(commands.kinds, FALSE) /\ commands' = NoCommands /\ walWriter = "idle"
        /\ UNCHANGED <<voteVars, handle, taken, walWriter>>
    BY <1>7 DEF RejectCommands
  <2> QED
    BY <1>0, <2>1, AnswerShape DEF CallInv, voteVars
<1>8. CASE ExitLogWriter
  BY <1>8 DEF ExitLogWriter, CallInv, voteVars
<1>9. CASE RefuseLog \/ OpenLogFails \/ DamageLog
  BY <1>9 DEF RefuseLog, OpenLogFails, DamageLog, CallInv, voteVars
<1>10. CASE OpenLog
  BY <1>0, <1>10 DEF OpenLog, CanOpen, CallInv, voteVars
<1>11. CASE CloseHost
  BY <1>0, <1>11 DEF CloseHost, CallInv
<1>12. CASE VoteStep
  BY <1>12, VoteLogStaysUp DEF VoteStep, logVars, CallInv
<1>13. CASE Crash
  <2>1. handle' = "closed" /\ walWriter' = "none" /\ taken' = {} /\ caller' = "idle" /\ casting' = 0
    BY <1>13 DEF Crash, Kill, LosePower, LogMemoryLost
  <2> QED
    BY <1>0, <2>1 DEF CallInv
<1>14. ASSUME NEW g \in Groups \ {Mine}, NEW v \in 1..MaxTerm, OthersVote(g, v) PROVE CallInv'
  BY <1>14 DEF OthersVote, Save, CallInv
<1> QED
  BY <1>1, <1>2, <1>3, <1>4, <1>5, <1>6, <1>7, <1>8, <1>9, <1>10, <1>11, <1>12, <1>13, <1>14
     DEF Next, LogWriter

----------------------------------------------------------------------------
(* What the next fsync covers.                                             *)

(* The records of two sequences put together. *)
LEMMA ConcatRecords ==
  ASSUME NEW s \in Seq(Records), NEW t \in Seq(Records)
  PROVE  /\ s \o t \in Seq(Records) /\ Len(s \o t) = Len(s) + Len(t)
         /\ Len(s) \in Nat /\ Len(t) \in Nat
         /\ DOMAIN s = 1..Len(s) /\ DOMAIN t = 1..Len(t)
         /\ DOMAIN (s \o t) = 1..(Len(s) + Len(t))
         /\ \A p \in 1..Len(s) : (s \o t)[p] = s[p]
         /\ \A p \in (Len(s) + 1)..(Len(s) + Len(t)) :
              (s \o t)[p] = t[p - Len(s)] /\ p - Len(s) \in 1..Len(t)
<1>1. /\ s \o t \in Seq(Records) /\ Len(s \o t) = Len(s) + Len(t)
      /\ \A i \in 1..(Len(s) + Len(t)) : (s \o t)[i] = IF i <= Len(s) THEN s[i] ELSE t[i - Len(s)]
  BY ConcatProperties
<1>2. /\ Len(s) \in Nat /\ Len(t) \in Nat /\ DOMAIN s = 1..Len(s) /\ DOMAIN t = 1..Len(t)
      /\ DOMAIN (s \o t) = 1..(Len(s) + Len(t))
  BY <1>1, LenProperties
<1>3. ASSUME NEW p \in (Len(s) + 1)..(Len(s) + Len(t))
      PROVE  (s \o t)[p] = t[p - Len(s)] /\ p - Len(s) \in 1..Len(t)
  BY <1>1, <1>2
<1> QED
  BY <1>1, <1>2, <1>3

(* A batch that is taken whole: the WAL is then what had been accepted. *)
LEMMA TakenWhole ==
  ASSUME PrefixInv, TakeCommands, ~walFailed'
  PROVE  /\ ~walFailed /\ wal' = wal \o commands.frames /\ Accepted' = Accepted
         /\ Accepted = wal \o commands.frames
<1>1. PICK n \in 0..Len(commands.frames) :
        wal' = wal \o SubSeq(commands.frames, 1, n) /\ walFailed' = (n < Len(commands.frames))
  BY DEF TakeCommands
<1>2. ~walFailed /\ commands' = NoCommands /\ wal \in Seq(Records) /\ commands.frames \in Seq(Records)
  BY DEF TakeCommands, PrefixInv
<1>a. ~(n < Len(commands.frames))
  BY <1>1, Zenon
<1>b. Len(commands.frames) \in Nat
  BY <1>2, LenProperties
<1>3. n = Len(commands.frames)
  BY <1>a, <1>b
<1>4. wal' = wal \o commands.frames
  BY <1>1, <1>2, <1>3, SubSeqFull
<1>5. wal' \in Seq(Records) /\ commands'.frames = <<>>
  BY <1>2, <1>4, ConcatProperties DEF NoCommands
<1>6. wal' \o commands'.frames = wal'
  BY <1>5, ConcatEmptySeq
<1> QED
  BY <1>2, <1>4, <1>6 DEF Accepted

(* A fresh log has nothing to fsync. *)
LEMMA SyncInit == Init => SyncInv
BY DEF Init, LogInit, SyncInv, NoCommands

(* The writer fsyncs before it answers whatever needs it: every step keeps *)
(* SyncInv (log_store.rs, Writer::flush).                                  *)
LEMMA SyncStep ==
  ASSUME PrefixInv, CallInv, SyncInv, [Next]_vars
  PROVE  SyncInv'
<1>0. /\ NoCommands.frames = <<>> /\ DOMAIN <<>> = {} /\ walSynced \in Nat /\ Len(wal) \in Nat
      /\ walSynced <= Len(wal) /\ wal \in Seq(Records) /\ commands.frames \in Seq(Records)
  BY LenProperties DEF NoCommands, PrefixInv
<1>1. CASE UNCHANGED <<wal, walSynced, commands, walWriter, walFailed, taken>>
  BY <1>1 DEF SyncInv
<1>2. CASE Calls /\ ~CastVote
  <2>1. PICK ix, kind : \E frames \in Seq(Records) : Write(ix, kind, frames) /\ CallShape(kind, frames)
    BY <1>2, CallShapes
  <2>2. PICK frames \in Seq(Records) : Write(ix, kind, frames) /\ CallShape(kind, frames)
    BY <2>1
  <2>3. /\ commands'.frames = commands.frames \o frames /\ commands'.kinds = commands.kinds \cup {kind}
        /\ UNCHANGED <<wal, walSynced, walWriter, walFailed, taken>>
    BY <2>2 DEF Write
  <2>4. kind \in {"append", "durable"} \/ \A p \in DOMAIN frames : ~Firm(frames[p])
    BY <2>2 DEF CallShape
  <2>5. ASSUME NEW p \in DOMAIN commands'.frames, Firm(commands'.frames[p])
        PROVE  NeedsSync(commands'.kinds)
    <3>1. CASE kind \in {"append", "durable"}
      BY <2>3, <3>1 DEF NeedsSync
    <3>2. CASE \A q \in DOMAIN frames : ~Firm(frames[q])
      <4>1. p \in DOMAIN commands.frames /\ commands'.frames[p] = commands.frames[p]
        BY <1>0, <2>3, <2>5, <3>2, ConcatRecords
      <4>2. NeedsSync(commands.kinds)
        BY <2>5, <4>1 DEF SyncInv
      <4> QED
        BY <2>3, <4>2 DEF NeedsSync
    <3> QED
      BY <2>4, <3>1, <3>2
  <2> QED
    BY <2>3, <2>5 DEF SyncInv
<1>3. CASE TakeCommands
  <2>1. commands' = NoCommands /\ walWriter' = "written" /\ taken' = commands.kinds /\ walWriter = "idle"
        /\ walSynced' = walSynced
    BY <1>3 DEF TakeCommands
  <2>2. ASSUME ~walFailed', NEW p \in (walSynced + 1)..Len(wal'), Firm(wal'[p])
        PROVE  NeedsSync(commands.kinds)
    <3>1. ~walFailed /\ wal' = wal \o commands.frames
      BY <1>3, <2>2, TakenWhole
    <3>2. CASE p <= Len(wal)
      <4>1. p \in 1..Len(wal) /\ p \in (walSynced + 1)..Len(wal)
        BY <1>0, <2>2, <3>2
      <4>2. wal'[p] = wal[p]
        BY <1>0, <3>1, <4>1, ConcatRecords
      <4> QED
        BY <2>1, <2>2, <3>1, <4>1, <4>2 DEF SyncInv
    <3>3. CASE p > Len(wal)
      <4>0. Len(wal') = Len(wal) + Len(commands.frames) /\ Len(commands.frames) \in Nat
        BY <1>0, <3>1, ConcatRecords
      <4>1. p \in (Len(wal) + 1)..(Len(wal) + Len(commands.frames))
        BY <1>0, <2>2, <3>3, <4>0
      <4>2. wal'[p] = commands.frames[p - Len(wal)] /\ p - Len(wal) \in DOMAIN commands.frames
        BY <1>0, <3>1, <4>1, ConcatRecords
      <4> QED
        BY <2>2, <4>2 DEF SyncInv
    <3> QED
      BY <1>0, <2>2, <3>2, <3>3
  <2> QED
    BY <1>0, <2>1, <2>2 DEF SyncInv
<1>4. CASE AnswerCommands
  <2>1. /\ walWriter = "written" /\ ~walFailed /\ walWriter' = "idle"
        /\ UNCHANGED <<wal, commands, walFailed>>
        /\ NeedsSync(taken) => walSynced' = Len(wal)
        /\ ~NeedsSync(taken) => walSynced' = walSynced
    BY <1>4 DEF AnswerCommands
  <2> QED
    BY <1>0, <2>1 DEF SyncInv
<1>5. CASE FailCommands
  BY <1>5 DEF FailCommands, SyncInv
<1>6. CASE RejectCommands
  BY <1>0, <1>6 DEF RejectCommands, SyncInv
<1>7. CASE ExitLogWriter
  BY <1>7 DEF ExitLogWriter, SyncInv
<1>8. CASE OpenLog
  BY <1>0, <1>8 DEF OpenLog, SyncInv
<1>9. CASE DamageLog
  BY <1>9 DEF DamageLog, SyncInv
<1>10. CASE Crash
  <2>1. walWriter' = "none" /\ commands' = NoCommands
    BY <1>10 DEF Crash, Kill, LosePower, LogMemoryLost
  <2> QED
    BY <1>0, <2>1 DEF SyncInv
<1>11. CASE CastVote \/ RefuseLog \/ OpenLogFails \/ CloseHost \/ VoteStep
  BY <1>1, <1>11 DEF CastVote, RefuseLog, OpenLogFails, CloseHost, VoteStep, logVars
<1>12. ASSUME NEW g \in Groups \ {Mine}, NEW v \in 1..MaxTerm, OthersVote(g, v) PROVE SyncInv'
  BY <1>1, <1>12 DEF OthersVote
<1>13. CASE UNCHANGED vars
  BY <1>1, <1>13 DEF vars, logVars
<1> QED
  BY <1>2, <1>3, <1>4, <1>5, <1>6, <1>7, <1>8, <1>9, <1>10, <1>11, <1>12, <1>13 DEF Next, LogWriter

----------------------------------------------------------------------------
(* Votes follow the log.                                                   *)

GroupInv == PrefixInv /\ VoteFileInv /\ CallInv /\ SyncInv /\ FollowInv /\ VoterInv

(* A vote openraft may save is not one that can be read back, unless the file has it: a *)
(* failed write left it there.                                                          *)
LEMMA FreshVote ==
  ASSUME VoteFileInv, CallInv, Ready, NEW v \in 1..MaxTerm, v > latest[Mine],
         <<Mine, v>> \notin VotesIn(file)
  PROVE  <<Mine, v>> \notin Stored
<1>0. /\ handle = "open" /\ saving[Mine] = 0 /\ voteWriter # "none" /\ ~closing /\ Mine \in Groups
      /\ latest = promised /\ promised[Mine] \in Nat /\ v \in Nat /\ v # 0
  BY GroupLogAssumption, VoteConstants DEF Ready, CallInv, VoteFileInv, VoteTypeOK, FileInv, Up
<1>1. <<Mine, v>> \notin ToSet(requests) \cup ToSet(batch)
  BY <1>0 DEF VoteFileInv, BatchInv
<1>2. ASSUME NEW f \in renamed PROVE <<Mine, v>> \notin VotesIn(f)
  <2>1. Under(f, promised)
    BY DEF VoteFileInv, RenamedInv
  <2> QED
    BY <1>0, <2>1 DEF Under
<1> QED
  BY <1>1, <1>2 DEF Stored

(* The last firm record of a sequence. *)
LEMMA LastWriteFacts ==
  ASSUME NEW recs \in Seq(Records)
  PROVE  /\ LastWrite(recs) \in Nat
         /\ LastWrite(recs) # 0 => LastWrite(recs) \in DOMAIN recs /\ Firm(recs[LastWrite(recs)])
<1> DEFINE firm == {i \in DOMAIN recs : recs[i].kind # "committed"}
<1>1. DOMAIN recs = 1..Len(recs) /\ Len(recs) \in Nat
  BY LenProperties
<1>2. CASE firm = {}
  BY <1>2 DEF LastWrite
<1>3. CASE firm # {}
  <2>1. LastWrite(recs) = Max(firm) /\ firm \in SUBSET (0..Len(recs))
    BY <1>1, <1>3 DEF LastWrite
  <2>2. Max(firm) \in firm
    <3> HIDE DEF firm
    <3> QED
      BY <1>1, <1>3, <2>1, GreatestExists
  <2>3. Max(firm) \in DOMAIN recs /\ recs[Max(firm)].kind # "committed"
    BY <2>2
  <2> HIDE DEF firm
  <2> QED
    BY <1>1, <2>1, <2>3 DEF Firm
<1> QED
  BY <1>2, <1>3

(* A fresh group has no vote. *)
LEMMA FollowInit == Init => FollowInv
<1> SUFFICES ASSUME Init PROVE FollowInv
  OBVIOUS
<1>1. /\ caller = "idle" /\ walSynced = 0 /\ follows = [v \in 1..MaxTerm |-> 0]
  BY DEF Init, LogInit
<1> QED
  BY <1>1 DEF FollowInv

(* A step that leaves the calls alone and forgets no fsync. *)
LEMMA FollowKept ==
  ASSUME FollowInv, UNCHANGED <<follows>>, Stored' \subseteq Stored,
         walSynced \in Nat, walSynced' \in Nat, walSynced <= walSynced',
         \/ caller' \notin {"fence", "cast"}
         \/ UNCHANGED <<caller, casting, taken, walFailed, Accepted, wal>> /\ casting \in 1..MaxTerm
  PROVE  FollowInv'
<1>1. \A v \in 1..MaxTerm : follows[v] \in Nat
  BY DEF FollowInv
<1>2. \A v \in 1..MaxTerm : <<Mine, v>> \in Stored' => follows'[v] <= walSynced'
  BY <1>1 DEF FollowInv
<1>3. CASE caller' \notin {"fence", "cast"}
  BY <1>2, <1>3 DEF FollowInv
<1>4. CASE UNCHANGED <<caller, casting, taken, walFailed, Accepted, wal>> /\ casting \in 1..MaxTerm
  <2>1. follows'[casting'] = follows[casting] /\ follows[casting] \in Nat
    BY <1>1, <1>4
  <2>2. follows[casting] > walSynced' => follows[casting] > walSynced
    BY <2>1
  <2>3. follows[casting] <= walSynced => follows[casting] <= walSynced'
    BY <2>1
  <2> QED
    BY <1>2, <1>4, <2>1, <2>2, <2>3 DEF FollowInv
<1> QED
  BY <1>3, <1>4

(* save_vote sends its fence before the vote goes to the vote log: every *)
(* step keeps FollowInv.                                                 *)
LEMMA FollowStep ==
  ASSUME PrefixInv, VoteFileInv, CallInv, SyncInv, FollowInv, [Next]_vars
  PROVE  FollowInv'
<1>0. /\ walSynced \in Nat /\ walSynced <= Len(wal) /\ Len(wal) \in Nat
      /\ wal \in Seq(Records) /\ commands.frames \in Seq(Records)
      /\ casting \in 0..MaxTerm /\ (caller \in {"fence", "cast"} => casting \in 1..MaxTerm)
      /\ handle # "open" => caller = "idle"
  BY LenProperties, VoteConstants DEF PrefixInv, CallInv
<1>1. ASSUME UNCHANGED <<follows, walSynced, caller, casting, taken, walFailed, wal, commands>>,
             Stored' \subseteq Stored
      PROVE  FollowInv'
  <2>1. Accepted' = Accepted
    BY <1>1 DEF Accepted
  <2> QED
    BY <1>0, <1>1, <2>1, FollowKept
<1>2. UNCHANGED voteVars => Stored' = Stored
  BY DEF voteVars, Stored
<1>3. CASE UNCHANGED vars
  BY <1>1, <1>2, <1>3 DEF vars, logVars
<1>4. CASE CastVote
  <2>1. /\ caller = "cast" /\ Save(Mine, casting) /\ caller' = "idle"
        /\ UNCHANGED <<walSynced, follows>>
    BY <1>4 DEF CastVote
  <2>2. Stored' = Stored \cup {<<Mine, casting>>}
    BY <1>0, <2>1, SaveStores, GroupLogAssumption
  <2>3. follows[casting] <= walSynced
    BY <2>1 DEF FollowInv
  <2>4. ASSUME NEW v \in 1..MaxTerm, <<Mine, v>> \in Stored' PROVE follows[v] <= walSynced
    <3>1. CASE <<Mine, v>> \in Stored
      BY <3>1 DEF FollowInv
    <3>2. CASE <<Mine, v>> = <<Mine, casting>>
      BY <2>3, <3>2
    <3> QED
      BY <2>2, <2>4, <3>1, <3>2
  <2> QED
    BY <2>1, <2>4 DEF FollowInv
<1>5. CASE Calls /\ ~CastVote
  <2>1. Ready /\ \E ix, kind : \E frames \in Seq(Records) : Write(ix, kind, frames) /\ CallShape(kind, frames)
    BY <1>5, CallShapes
  <2>2. /\ handle = "open" /\ caller = "idle" /\ UNCHANGED <<voteVars, wal, walSynced, taken, walFailed>>
    BY <2>1 DEF Ready, Write
  <2>3. CASE caller' \notin {"fence", "cast"} /\ follows' = follows
    BY <1>0, <1>2, <2>2, <2>3, FollowKept
  <2>4. ASSUME NEW v \in 1..MaxTerm, SaveVote(v) PROVE FollowInv'
    <3>1. /\ v > latest[Mine] /\ Write(index, "fence", <<>>) /\ caller' = "fence" /\ casting' = v
          /\ follows' = IF <<Mine, v>> \in VotesIn(file) THEN follows
                        ELSE [follows EXCEPT ![v] = LastWrite(Accepted)]
      BY <2>4 DEF SaveVote
    <3>2. commands'.frames = commands.frames
      BY <1>0, <3>1, ConcatEmptySeq DEF Write
    <3>3. Accepted' = Accepted /\ Accepted \in Seq(Records)
      BY <1>0, <2>2, <3>2, ConcatProperties DEF Accepted
    <3>4. "fence" \notin taken /\ Stored' = Stored
      BY <1>2, <2>2 DEF CallInv
    <3>5. follows \in [1..MaxTerm -> Nat]
      BY DEF FollowInv
    <3>6. CASE <<Mine, v>> \in VotesIn(file)
      <4>1. follows' = follows /\ <<Mine, v>> \in Stored
        BY <3>1, <3>6 DEF Stored
      <4>2. follows[v] <= walSynced /\ follows[v] \in Nat
        BY <3>5, <4>1 DEF FollowInv
      <4>3. ~(follows'[casting'] > walSynced')
        BY <1>0, <2>2, <3>1, <4>1, <4>2
      <4> QED
        BY <2>2, <3>1, <3>4, <4>1, <4>3 DEF FollowInv
    <3>7. CASE <<Mine, v>> \notin VotesIn(file)
      <4> DEFINE last == LastWrite(Accepted)
      <4>1. last \in Nat /\ (last # 0 => last \in DOMAIN Accepted /\ Firm(Accepted[last]))
        BY <3>3, LastWriteFacts
      <4> HIDE DEF last
      <4>2. follows' = [follows EXCEPT ![v] = last]
        BY <3>1, <3>7 DEF last
      <4>3. follows' \in [1..MaxTerm -> Nat] /\ follows'[v] = last
            /\ \A w \in 1..MaxTerm : w # v => follows'[w] = follows[w]
        BY <3>5, <4>1, <4>2
      <4>4. <<Mine, v>> \notin Stored
        BY <2>1, <3>1, <3>7, FreshVote
      <4>5. ASSUME NEW w \in 1..MaxTerm, <<Mine, w>> \in Stored' PROVE follows'[w] <= walSynced'
        BY <2>2, <3>4, <4>3, <4>4, <4>5 DEF FollowInv
      <4>6. last > walSynced => last # 0
        BY <1>0, <4>1
      <4> QED
        BY <2>2, <3>1, <3>3, <3>4, <4>1, <4>3, <4>5, <4>6 DEF FollowInv
    <3> QED
      BY <3>6, <3>7
  <2> QED
    BY <2>1, <2>2, <2>3, <2>4 DEF CallShape
<1>6. CASE TakeCommands
  <2>1. /\ UNCHANGED <<voteVars, walSynced, caller, casting, follows>> /\ taken' = commands.kinds
        /\ walWriter = "idle" /\ ~walFailed
    BY <1>6 DEF TakeCommands
  <2>2. \A w \in 1..MaxTerm : <<Mine, w>> \in Stored' => follows'[w] <= walSynced'
    BY <1>2, <2>1 DEF FollowInv
  <2>3. ASSUME caller' = "fence", ~walFailed', follows'[casting'] > walSynced'
        PROVE  /\ follows'[casting'] \in DOMAIN Accepted'
               /\ Firm(Accepted'[follows'[casting']])
               /\ follows'[casting'] <= Len(wal')
    <3>1. Accepted' = Accepted /\ Accepted = wal'
      BY <1>6, <2>3, TakenWhole
    <3>2. follows[casting] \in DOMAIN Accepted /\ Firm(Accepted[follows[casting]])
      BY <2>1, <2>3 DEF FollowInv
    <3>3. DOMAIN wal' = 1..Len(wal')
      <4>1. wal' \in Seq(Records)
        BY <1>0, <1>6, <2>3, TakenWhole, ConcatProperties
      <4> QED
        BY <4>1, LenProperties
    <3>4. wal' \in Seq(Records)
      BY <1>0, <1>6, <2>3, TakenWhole, ConcatProperties
    <3>5. Len(wal') \in Nat
      BY <3>4, LenProperties
    <3> QED
      BY <2>1, <3>1, <3>2, <3>3, <3>5
  <2> QED
    BY <2>1, <2>2, <2>3 DEF FollowInv
<1>7. CASE AnswerCommands
  <2>1. /\ walWriter = "written" /\ ~walFailed /\ Answer(taken, TRUE) /\ taken' = {}
        /\ UNCHANGED <<voteVars, wal, commands, walFailed, follows>>
        /\ NeedsSync(taken) => walSynced' = Len(wal)
        /\ ~NeedsSync(taken) => walSynced' = walSynced
    BY <1>7 DEF AnswerCommands
  <2>2. walSynced' \in Nat /\ walSynced <= walSynced' /\ Stored' \subseteq Stored /\ Accepted' = Accepted
    BY <1>0, <1>2, <2>1 DEF Accepted
  <2>3. \A w \in 1..MaxTerm : follows[w] \in Nat /\ (<<Mine, w>> \in Stored' => follows'[w] <= walSynced')
    BY <1>0, <2>1, <2>2 DEF FollowInv
  <2>4. CASE caller' \notin {"fence", "cast"}
    BY <1>0, <2>1, <2>2, <2>4, FollowKept
  <2>5. CASE UNCHANGED <<caller, casting>> /\ caller \in {"fence", "cast"}
    <3>1. follows[casting] \in Nat /\ follows'[casting'] = follows[casting]
      BY <1>0, <2>1, <2>3, <2>5
    <3>2. follows[casting] > walSynced' => follows[casting] > walSynced
      BY <1>0, <2>2, <3>1
    <3>3. follows[casting] <= walSynced => follows[casting] <= walSynced'
      BY <1>0, <2>2, <3>1
    <3> QED
      BY <2>1, <2>2, <2>3, <2>5, <3>1, <3>2, <3>3 DEF FollowInv
  <2>6. CASE caller = "fence" /\ caller' = "cast" /\ casting' = casting /\ "fence" \in taken
    <3>1. follows[casting] \in Nat /\ follows'[casting'] = follows[casting]
      BY <1>0, <2>1, <2>3, <2>6
    <3>2. ASSUME follows[casting] > walSynced PROVE follows[casting] <= walSynced'
      <4>1. /\ follows[casting] \in DOMAIN Accepted /\ Firm(Accepted[follows[casting]])
            /\ follows[casting] <= Len(wal)
        BY <2>1, <2>6, <3>2 DEF FollowInv
      <4>2. follows[casting] \in 1..Len(wal) /\ follows[casting] \in (walSynced + 1)..Len(wal)
        BY <1>0, <3>1, <3>2, <4>1
      <4>3. Accepted[follows[casting]] = wal[follows[casting]]
        BY <1>0, <2>1, <4>2, ConcatRecords DEF Accepted
      <4>4. NeedsSync(taken)
        BY <2>1, <4>1, <4>2, <4>3 DEF SyncInv
      <4> QED
        BY <2>1, <4>1, <4>4
    <3>3. follows[casting] <= walSynced'
      BY <1>0, <2>2, <3>1, <3>2
    <3> QED
      BY <2>1, <2>3, <2>6, <3>1, <3>3 DEF FollowInv
  <2>7. CASE handle = "open" /\ taken \cap {"durable", "fence"} # {}
    <3>1. "fence" \in taken \/ caller = "marker"
      BY <2>7 DEF CallInv
    <3> QED
      BY <2>1, <2>4, <2>6, <2>7, <3>1 DEF Answer
  <2>8. CASE handle # "open" \/ taken \cap {"durable", "fence"} = {}
    BY <2>1, <2>4, <2>5, <2>8 DEF Answer
  <2> QED
    BY <2>7, <2>8
<1>8. CASE FailCommands \/ RejectCommands
  <2>1. /\ walFailed' = TRUE /\ UNCHANGED <<voteVars, walSynced, follows>>
        /\ Answer(taken, FALSE) \/ Answer(commands.kinds, FALSE)
    <3>1. CASE FailCommands
      BY <3>1 DEF FailCommands
    <3>2. CASE RejectCommands
      BY <3>2 DEF RejectCommands
    <3> QED
      BY <1>8, <3>1, <3>2
  <2>2. UNCHANGED <<caller, casting>> \/ caller' = "idle"
    BY <2>1 DEF Answer
  <2> QED
    BY <1>2, <2>1, <2>2 DEF FollowInv
<1>9. CASE OpenLog
  <2>1. /\ handle = "closed" /\ walSynced' = Len(wal) /\ UNCHANGED <<voteVars, caller, casting, follows>>
    BY <1>9 DEF OpenLog, CanOpen
  <2> QED
    BY <1>0, <1>2, <2>1, FollowKept
<1>10. CASE DamageLog
  <2>1. /\ handle = "closed" /\ walSynced' = 0 /\ UNCHANGED <<voteVars, caller>>
        /\ follows' = [v \in 1..MaxTerm |-> 0]
    BY <1>10 DEF DamageLog
  <2> QED
    BY <1>0, <2>1 DEF FollowInv
<1>11. CASE ExitLogWriter \/ RefuseLog \/ OpenLogFails
  <2>1. UNCHANGED <<voteVars, follows, walSynced, caller, casting, taken, walFailed, wal, commands>>
    BY <1>11 DEF ExitLogWriter, RefuseLog, OpenLogFails
  <2> QED
    BY <1>1, <1>2, <2>1
<1>12. CASE VoteStep
  <2>1. UNCHANGED logVars /\ QuietVote
    BY <1>12 DEF VoteStep, QuietVote
  <2> QED
    BY <1>1, <2>1, StoredShrinks DEF logVars
<1>13. CASE CloseHost
  <2>1. QuietVote /\ caller' = "idle" /\ UNCHANGED <<follows, walSynced>>
    BY <1>13 DEF CloseHost, QuietVote
  <2> QED
    BY <1>0, <2>1, StoredShrinks, FollowKept
<1>14. CASE Crash
  <2>1. QuietVote /\ caller' = "idle" /\ UNCHANGED follows
    BY <1>14 DEF Crash, Kill, LosePower, LogMemoryLost, VoteCrash, QuietVote
  <2>2. walSynced' \in Nat /\ walSynced <= walSynced'
    BY <1>0, <1>14 DEF Crash, Kill, LosePower
  <2> QED
    BY <1>0, <2>1, <2>2, StoredShrinks, FollowKept
<1>15. ASSUME NEW g \in Groups \ {Mine}, NEW v \in 1..MaxTerm, OthersVote(g, v) PROVE FollowInv'
  <2>1. /\ Save(g, v)
        /\ UNCHANGED <<follows, walSynced, caller, casting, taken, walFailed, wal, commands>>
    BY <1>15 DEF OthersVote
  <2>2. Stored' = Stored \cup {<<g, v>>} /\ g # Mine
    BY <1>15, <2>1, SaveStores
  <2>3. \A w : <<Mine, w>> \in Stored' => <<Mine, w>> \in Stored
    BY <2>2
  <2>4. Accepted' = Accepted
    BY <2>1 DEF Accepted
  <2> QED
    BY <2>1, <2>3, <2>4 DEF FollowInv
<1> QED
  BY <1>3, <1>4, <1>5, <1>6, <1>7, <1>8, <1>9, <1>10, <1>11, <1>12, <1>13, <1>14, <1>15 DEF Next, LogWriter

----------------------------------------------------------------------------
(* Voters have their log.                                                  *)

(* The group has a vote: one answered or exposed, or one that can be read back. *)
Voted == promised[Mine] # 0 \/ \E v \in 1..MaxTerm : <<Mine, v>> \in Stored

(* A fresh group has neither log nor vote. *)
LEMMA VoterInit == Init => VoterInv
<1> SUFFICES ASSUME Init PROVE VoterInv
  OBVIOUS
<1>1. /\ promised[Mine] = 0 /\ file = <<>> /\ requests = <<>> /\ batch = <<>> /\ renamed = {}
      /\ handle = "closed" /\ damaged = "no" /\ lostLog = FALSE
  BY GroupLogAssumption DEF Init, VoteInit, LogInit, NoVotes
<1>2. Stored = {}
  BY <1>1, EmptyFacts DEF Stored
<1> QED
  BY <1>1, <1>2 DEF VoterInv

(* Votes come only from a cast: no other step gives the group its first vote, and no step *)
(* takes the answered one away.                                                           *)
LEMMA VotedKept ==
  ASSUME VoteFileInv, CallInv, Next
  PROVE  /\ ~CastVote => (Voted' => Voted)
         /\ promised[Mine] # 0 => promised'[Mine] # 0
<1>0. Mine \in Groups
  BY GroupLogAssumption
<1>1. CASE UNCHANGED voteVars
  BY <1>1 DEF voteVars, Voted, Stored
<1>2. CASE CastVote /\ casting \in 1..MaxTerm
  <2>1. promised' = promised
    BY <1>0, <1>2, SaveStores DEF CastVote
  <2> QED
    BY <1>2, <2>1
<1>3. ASSUME NEW g \in Groups \ {Mine}, NEW v \in 1..MaxTerm, OthersVote(g, v)
      PROVE  (Voted' => Voted) /\ (promised[Mine] # 0 => promised'[Mine] # 0)
  <2>1. Stored' = Stored \cup {<<g, v>>} /\ promised' = promised /\ g # Mine
    BY <1>3, SaveStores DEF OthersVote
  <2> QED
    BY <2>1 DEF Voted
<1>4. CASE QuietVote
  <2>1. Stored' \subseteq Stored
    BY <1>4, StoredShrinks
  <2>2. /\ promised'[Mine] = promised[Mine] \/ <<Mine, promised'[Mine]>> \in Stored
        /\ promised[Mine] \in Nat /\ promised'[Mine] \in Nat /\ promised[Mine] <= promised'[Mine]
    BY <1>0, <1>4, PromisesAreStored
  <2>3. promised' \in [Groups -> 0..MaxTerm]
    <3>1. VoteFileInv'
      BY GroupVoteStep
    <3> QED
      BY <3>1 DEF VoteFileInv, VoteTypeOK
  <2>4. promised'[Mine] # 0 => promised'[Mine] \in 1..MaxTerm
    BY <1>0, <2>3, VoteConstants
  <2> QED
    BY <2>1, <2>2, <2>4 DEF Voted
<1> QED
  BY <1>1, <1>2, <1>3, <1>4, GroupSteps

(* open_with makes the segment durable before the first vote and refuses a *)
(* voter whose log is gone: every step keeps VoterInv.                     *)
LEMMA VoterStep ==
  ASSUME VoteFileInv, CallInv, VoterInv, [Next]_vars
  PROVE  VoterInv'
<1>0. /\ handle # "closed" => segment = "durable"
      /\ damaged = "no" /\ segment # "durable" => ~Voted
      /\ damaged = "voted" =>
           handle = "closed" /\ walWriter = "none" /\ segment = "none" /\ promised[Mine] # 0
      /\ lostLog => damaged # "no"
  BY DEF VoterInv, Voted
<1>1. ASSUME handle' # "closed" => segment' = "durable",
             damaged' = "no" /\ segment' # "durable" => ~Voted',
             damaged' = "voted" =>
               handle' = "closed" /\ walWriter' = "none" /\ segment' = "none" /\ promised'[Mine] # 0,
             lostLog' => damaged' # "no"
      PROVE  VoterInv'
  BY <1>1 DEF VoterInv, Voted
<1>2. CASE UNCHANGED vars
  BY <1>2 DEF vars, logVars, voteVars, VoterInv, Stored
<1>3. voteWriter # "none" => latest[Mine] = promised[Mine]
  BY DEF VoteFileInv, FileInv, Up
<1>4. promised[Mine] \in Nat
  BY GroupLogAssumption, VoteConstants DEF VoteFileInv, VoteTypeOK
<1>5. Next => (~CastVote => (Voted' => Voted)) /\ (promised[Mine] # 0 => promised'[Mine] # 0)
  BY VotedKept
<1>6. ASSUME Next, ~CastVote, UNCHANGED <<handle, walWriter, segment, damaged, lostLog>> PROVE VoterInv'
  BY <1>0, <1>1, <1>5, <1>6
<1>7. CASE CastVote
  <2>1. caller = "cast" /\ UNCHANGED <<handle, walWriter, segment, damaged, lostLog>>
    BY <1>7 DEF CastVote
  <2>2. handle = "open"
    BY <2>1 DEF CallInv
  <2> QED
    BY <1>0, <1>1, <2>1, <2>2
<1>8. CASE Calls /\ ~CastVote
  <2>1. Ready /\ UNCHANGED <<handle, walWriter, segment, damaged, lostLog>>
    BY <1>8, CallShapes DEF Write
  <2> QED
    BY <1>6, <1>8, <2>1 DEF Next
<1>9. ASSUME UNCHANGED <<voteVars, handle, segment, damaged, lostLog>>, walWriter # "none"
      PROVE  VoterInv'
  <2>1. promised' = promised /\ Stored' = Stored
    BY <1>9 DEF voteVars, Stored
  <2> QED
    BY <1>9, <2>1 DEF VoterInv
<1>10. CASE LogWriter
  <2>1. CASE TakeCommands \/ AnswerCommands \/ FailCommands \/ RejectCommands
    <3>1. walWriter # "none" /\ UNCHANGED <<voteVars, handle, segment, damaged, lostLog>>
      BY <2>1 DEF TakeCommands, AnswerCommands, FailCommands, RejectCommands
    <3> QED
      BY <1>9, <3>1
  <2>2. CASE ExitLogWriter
    <3>1. handle = "closing" /\ handle' = "closed" /\ UNCHANGED <<voteVars, segment, damaged, lostLog>>
      BY <2>2 DEF ExitLogWriter
    <3>2. promised' = promised /\ Stored' = Stored
      BY <3>1 DEF voteVars, Stored
    <3> QED
      BY <3>1, <3>2 DEF VoterInv
  <2> QED
    BY <1>10, <2>1, <2>2 DEF LogWriter
<1>11. CASE RefuseLog
  <2>1. /\ CanOpen /\ latest[Mine] > 0
        /\ segment = "none" /\ UNCHANGED <<voteVars, handle, segment, walWriter, damaged>>
    BY <1>11 DEF RefuseLog
  <2>2. promised[Mine] # 0
    BY <1>3, <1>4, <2>1 DEF CanOpen
  <2>3. damaged # "no"
    BY <1>0, <2>1, <2>2 DEF Voted
  <2>4. promised' = promised /\ Stored' = Stored
    BY <2>1 DEF voteVars, Stored
  <2> QED
    BY <2>1, <2>3, <2>4 DEF VoterInv
<1>12. CASE OpenLog \/ OpenLogFails
  <2>1. /\ CanOpen /\ (latest[Mine] = 0 \/ segment # "none")
        /\ UNCHANGED <<voteVars, damaged, lostLog>>
    BY <1>12 DEF OpenLog, OpenLogFails
  <2>2. damaged # "voted"
    BY <1>0, <1>3, <2>1 DEF CanOpen
  <2>3. promised' = promised /\ Stored' = Stored
    BY <2>1 DEF voteVars, Stored
  <2>4. CASE OpenLog
    <3>1. segment' = "durable"
      BY <2>4 DEF OpenLog
    <3> QED
      BY <1>0, <2>1, <2>2, <3>1 DEF VoterInv
  <2>5. CASE OpenLogFails
    <3>1. handle = "closed" /\ handle' = handle /\ (segment' = "durable" <=> segment = "durable")
      BY <2>1, <2>5 DEF OpenLogFails, CanOpen
    <3> QED
      BY <2>1, <2>2, <2>3, <3>1 DEF VoterInv
  <2> QED
    BY <1>12, <2>4, <2>5
<1>13. CASE CloseHost
  <2>1. handle = "open" /\ UNCHANGED <<segment, walWriter, damaged, lostLog>>
    BY <1>13 DEF CloseHost
  <2> QED
    BY <1>0, <1>1, <2>1
<1>14. CASE DamageLog
  <2>1. /\ damaged = "no" /\ handle = "closed" /\ walWriter = "none"
        /\ UNCHANGED <<voteVars, handle, walWriter>> /\ segment' = "none"
        /\ damaged' = IF promised[Mine] > 0 THEN "voted" ELSE "unvoted"
    BY <1>14 DEF DamageLog
  <2>2. promised' = promised
    BY <2>1 DEF voteVars
  <2>3. damaged' # "no" /\ (damaged' = "voted" => promised[Mine] # 0)
    BY <1>4, <2>1
  <2> QED
    BY <2>1, <2>2, <2>3 DEF VoterInv
<1>15. CASE VoteStep
  <2>1. UNCHANGED <<handle, walWriter, segment, damaged, lostLog>>
    BY <1>15 DEF VoteStep, logVars
  <2>2. QuietVote
    BY <1>15 DEF VoteStep, QuietVote
  <2>3. CASE CastVote
    BY <1>7, <2>3
  <2>4. CASE ~CastVote
    BY <1>6, <1>15, <2>1, <2>4 DEF Next
  <2> QED
    BY <2>3, <2>4
<1>16. CASE Crash
  <2>1. /\ handle' = "closed" /\ walWriter' = "none" /\ UNCHANGED <<damaged, lostLog>>
        /\ segment' = segment \/ (segment = "created" /\ segment' = "none")
    BY <1>16 DEF Crash, Kill, LosePower, LogMemoryLost
  <2>2. CASE CastVote
    BY <1>7, <2>2
  <2>3. CASE ~CastVote
    <3>1. (Voted' => Voted) /\ (promised[Mine] # 0 => promised'[Mine] # 0)
      BY <1>5, <1>16, <2>3 DEF Next
    <3> QED
      BY <1>0, <1>1, <2>1, <3>1
  <2> QED
    BY <2>2, <2>3
<1>17. ASSUME NEW g \in Groups \ {Mine}, NEW v \in 1..MaxTerm, OthersVote(g, v) PROVE VoterInv'
  <2>1. UNCHANGED <<handle, walWriter, segment, damaged, lostLog>> /\ Next
    BY <1>17 DEF OthersVote, Next
  <2>2. CASE CastVote
    BY <1>7, <2>2
  <2> QED
    BY <1>6, <2>1, <2>2
<1> QED
  BY <1>2, <1>7, <1>8, <1>10, <1>11, <1>12, <1>13, <1>14, <1>15, <1>16, <1>17 DEF Next

(* The conjuncts are kept together. *)
THEOREM GroupInvHolds == Spec => []GroupInv
<1>1. Init => GroupInv
  BY PrefixInit, VoteInitInv, CallInit, SyncInit, FollowInit, VoterInit DEF GroupInv, Init
<1>2. GroupInv /\ [Next]_vars => GroupInv'
  BY PrefixStep, GroupVoteStep, CallStep, SyncStep, FollowStep, VoterStep DEF GroupInv
<1> QED
  BY <1>1, <1>2, PTL DEF Spec

(* A group's vote is never on the disk before the log it was cast on: what *)
(* the log held when save_vote was called is fsynced before the vote is    *)
(* stored (log_store.rs, save_vote: the fence before the shared vote log). *)
THEOREM VotesComeAfterTheLog == Spec => []VotesFollowTheLog
<1>1. GroupInv => VotesFollowTheLog
  BY DEF GroupInv, FollowInv, VotesFollowTheLog, Stored
<1> QED
  BY <1>1, GroupInvHolds, PTL

(* A group that has voted never starts without its log: the segment and *)
(* its directory are on the disk before the first vote, and a log lost  *)
(* after one is refused at the open (log_store.rs, open_with:           *)
(* sync_ancestors, holds_segments, lost).                               *)
THEOREM VotersStartWithTheirLog == Spec => []VotersHaveTheirLog
<1>1. GroupInv => VotersHaveTheirLog
  BY DEF GroupInv, VoterInv, VotersHaveTheirLog, VotersKeepTheirLog, LostLogsAreRefused
<1> QED
  BY <1>1, GroupInvHolds, PTL

----------------------------------------------------------------------------
(* The index: what its operations do.                                      *)

(* The values of Index. *)
Indexes ==
  [entries : UNION {[D -> 1..MaxTerm] : D \in SUBSET (0..MaxIndex)},
   purged : LogIds \cup {NoId}, committed : LogIds \cup {NoId}]

(* An index whose committed id does not lie past its entries, which lie past the purged. *)
Unpurged(ix) == \A k \in DOMAIN ix.entries : k > ix.purged.index

Sound(ix) == ix \in Indexes /\ ix.committed.index <= LastLogId(ix).index /\ Unpurged(ix)

(* Every prefix of the records replays to such an index and admits the entry after it. *)
Replays(recs) ==
  \A n \in 0..Len(recs) :
    /\ Sound(Replay(SubSeq(recs, 1, n)))
    /\ n > 0 /\ recs[n].kind = "entry" => Admits(Replay(SubSeq(recs, 1, n - 1)), recs[n].id.index)

(* The WAL replays, and so does what is queued behind it while the writer is healthy: then *)
(* the index is what that replay gives.                                                   *)
ReplayInv ==
  /\ index \in Indexes
  /\ Replays(wal)
  /\ ~walFailed => Replays(wal \o commands.frames)
  /\ handle = "open" /\ ~walFailed => index = Replay(wal \o commands.frames)
----------------------------------------------------------------------------
(* Log ids and indexes.                                                    *)

(* The fields of a log id. *)
LEMMA IdFacts ==
  ASSUME NEW id \in LogIds \cup {NoId}
  PROVE  /\ id.term \in 0..MaxTerm /\ id.index \in -1..MaxIndex /\ id.index \in Int /\ id.term \in Int
         /\ id.index >= -1
         /\ id \in LogIds => id.term \in 1..MaxTerm /\ id.index \in 0..MaxIndex
         /\ id = NoId => id.index = -1
         /\ id.index # -1 => id \in LogIds
         /\ MaxIndex \in Nat /\ MaxTerm \in Nat
<1>1. MaxTerm \in Nat /\ MaxIndex \in Nat
  BY VoteConstants, GroupLogAssumption
<1>2. CASE id \in LogIds
  <2>1. id.term \in 1..MaxTerm /\ id.index \in 0..MaxIndex
    BY <1>2 DEF LogIds
  <2>2. NoId.index = -1
    BY DEF NoId
  <2> QED
    BY <1>1, <1>2, <2>1, <2>2
<1>3. CASE id = NoId
  <2>1. id.term = 0 /\ id.index = -1
    BY <1>3 DEF NoId
  <2>2. id \notin LogIds
    BY <2>1, <1>1 DEF LogIds
  <2> QED
    BY <1>1, <1>3, <2>1, <2>2
<1> QED
  BY <1>2, <1>3

(* The fields of an index. *)
LEMMA IndexFacts ==
  ASSUME NEW ix \in Indexes
  PROVE  /\ DOMAIN ix.entries \in SUBSET (0..MaxIndex)
         /\ ix.entries \in [DOMAIN ix.entries -> 1..MaxTerm]
         /\ \A k \in DOMAIN ix.entries : k \in 0..MaxIndex /\ k \in Int /\ k >= 0
         /\ ix.purged \in LogIds \cup {NoId} /\ ix.committed \in LogIds \cup {NoId}
         /\ ix = [entries |-> ix.entries, purged |-> ix.purged, committed |-> ix.committed]
<1>1. /\ ix.entries \in UNION {[D -> 1..MaxTerm] : D \in SUBSET (0..MaxIndex)}
      /\ ix.purged \in LogIds \cup {NoId} /\ ix.committed \in LogIds \cup {NoId}
      /\ ix = [entries |-> ix.entries, purged |-> ix.purged, committed |-> ix.committed]
  BY DEF Indexes
<1>2. PICK D \in SUBSET (0..MaxIndex) : ix.entries \in [D -> 1..MaxTerm]
  BY <1>1
<1>3. MaxIndex \in Nat
  BY GroupLogAssumption
<1>4. DOMAIN ix.entries = D
  BY <1>2
<1> QED
  BY <1>1, <1>2, <1>3, <1>4

(* What makes a value of Index. *)
LEMMA IndexMade ==
  ASSUME NEW D \in SUBSET (0..MaxIndex), NEW m \in [D -> 1..MaxTerm],
         NEW p \in LogIds \cup {NoId}, NEW c \in LogIds \cup {NoId}
  PROVE  [entries |-> m, purged |-> p, committed |-> c] \in Indexes
BY DEF Indexes

(* The last log id is the highest entry, or what was purged (log_store.rs, *)
(* last_log_id).                                                           *)
LEMMA LastFacts ==
  ASSUME NEW ix \in Indexes
  PROVE  /\ DOMAIN ix.entries = {} => LastLogId(ix) = ix.purged
         /\ DOMAIN ix.entries # {} =>
              /\ LastLogId(ix).index \in DOMAIN ix.entries
              /\ \A k \in DOMAIN ix.entries : k <= LastLogId(ix).index
         /\ LastLogId(ix).index \in Int /\ LastLogId(ix).index >= -1
<1>1. CASE DOMAIN ix.entries = {}
  <2>1. LastLogId(ix) = ix.purged
    BY <1>1 DEF LastLogId
  <2> QED
    BY <1>1, <2>1, IndexFacts, IdFacts
<1>2. CASE DOMAIN ix.entries # {}
  <2> DEFINE i == Max(DOMAIN ix.entries)
  <2>1. LastLogId(ix) = [term |-> ix.entries[i], index |-> i]
    BY <1>2 DEF LastLogId
  <2>2. i \in DOMAIN ix.entries /\ \A k \in DOMAIN ix.entries : k <= i
    BY <1>2, IndexFacts, GreatestExists, GroupLogAssumption
  <2> HIDE DEF i
  <2>3. LastLogId(ix).index = i
    BY <2>1
  <2>4. i \in Int /\ i >= -1
    BY <2>2, IndexFacts
  <2> QED
    BY <1>2, <2>2, <2>3, <2>4
<1> QED
  BY <1>1, <1>2

(* The highest entry is the last one. *)
LEMMA LastIs ==
  ASSUME NEW ix \in Indexes, NEW i \in DOMAIN ix.entries, \A k \in DOMAIN ix.entries : k <= i
  PROVE  LastLogId(ix).index = i
<1>1. LastLogId(ix).index \in DOMAIN ix.entries /\ i <= LastLogId(ix).index
  BY LastFacts
<1>2. LastLogId(ix).index <= i /\ LastLogId(ix).index \in Int /\ i \in Int
  BY <1>1, IndexFacts
<1> QED
  BY <1>1, <1>2

(* The entries a truncation leaves. *)
LEMMA BelowFacts ==
  ASSUME NEW ix \in Indexes, NEW i \in Int
  PROVE  /\ DOMAIN Below(ix.entries, i) = {k \in DOMAIN ix.entries : k < i}
         /\ Below(ix.entries, i) \in [{k \in DOMAIN ix.entries : k < i} -> 1..MaxTerm]
         /\ {k \in DOMAIN ix.entries : k < i} \in SUBSET (0..MaxIndex)
<1>1. ix.entries \in [DOMAIN ix.entries -> 1..MaxTerm] /\ DOMAIN ix.entries \in SUBSET (0..MaxIndex)
  BY IndexFacts
<1> QED
  BY <1>1 DEF Below

(* Placing an entry above the purge point makes it the last one. *)
LEMMA PlaceFacts ==
  ASSUME NEW ix \in Indexes, NEW id \in LogIds \cup {NoId}
  PROVE  LET new == Place(ix, id)
         IN  /\ new \in Indexes /\ new.purged = ix.purged /\ new.committed = ix.committed
             /\ id \in LogIds /\ id.index > ix.purged.index =>
                  DOMAIN new.entries # {} /\ LastLogId(new).index = id.index
             /\ Unpurged(ix) => Unpurged(new)
<1> DEFINE new == Place(ix, id)
           under == Below(ix.entries, id.index)
           U == {k \in DOMAIN ix.entries : k < id.index}
           m == [j \in U \cup {id.index} |-> IF j = id.index THEN id.term ELSE under[j]]
<1>0. id.index \in Int
  BY IdFacts
<1>1. DOMAIN under = U /\ under \in [U -> 1..MaxTerm] /\ U \in SUBSET (0..MaxIndex)
  BY <1>0, BelowFacts
<1>2. /\ ix = [entries |-> ix.entries, purged |-> ix.purged, committed |-> ix.committed]
      /\ ix.purged \in LogIds \cup {NoId} /\ ix.committed \in LogIds \cup {NoId}
  BY IndexFacts
<1>3. new = [ix EXCEPT !.entries = IF id.index > ix.purged.index THEN m ELSE under]
  BY <1>1 DEF Place
<1>4. CASE id \in LogIds /\ id.index > ix.purged.index
  <2>1. id.term \in 1..MaxTerm /\ id.index \in 0..MaxIndex
    BY <1>4, IdFacts
  <2>2. m \in [U \cup {id.index} -> 1..MaxTerm] /\ U \cup {id.index} \in SUBSET (0..MaxIndex)
    BY <1>1, <2>1
  <2>3. DOMAIN m = U \cup {id.index} /\ \A k \in U : k < id.index
    OBVIOUS
  <2> HIDE DEF m
  <2>4. new = [entries |-> m, purged |-> ix.purged, committed |-> ix.committed]
    BY <1>2, <1>3, <1>4
  <2> HIDE DEF new, U
  <2>5. new \in Indexes
    BY <1>2, <2>2, <2>4, IndexMade
  <2>6. id.index \in DOMAIN new.entries /\ \A k \in DOMAIN new.entries : k <= id.index
    <3>1. new.entries = m
      BY <2>4
    <3>2. \A k \in U : k <= id.index
      BY <1>0, <1>1, <2>3, GroupLogAssumption
    <3> QED
      BY <1>0, <2>3, <3>1, <3>2
  <2>7. LastLogId(new).index = id.index
    BY <2>5, <2>6, LastIs
  <2>8. new.purged = ix.purged /\ new.committed = ix.committed
    BY <2>4
  <2>9. Unpurged(ix) => Unpurged(new)
    <3>1. new.entries = m
      BY <2>4
    <3> QED
      BY <1>4, <2>3, <2>8, <3>1 DEF Unpurged, U
  <2> QED
    BY <2>5, <2>6, <2>7, <2>8, <2>9 DEF new
<1>5. CASE ~(id.index > ix.purged.index)
  <2>1. new = [entries |-> under, purged |-> ix.purged, committed |-> ix.committed]
    BY <1>2, <1>3, <1>5
  <2>2. Unpurged(ix) => Unpurged(new)
    BY <1>1, <2>1 DEF Unpurged
  <2> HIDE DEF under, U
  <2>3. new \in Indexes
    BY <1>1, <1>2, <2>1, IndexMade
  <2> QED
    BY <1>5, <2>1, <2>2, <2>3
<1>6. id \notin LogIds => ~(id.index > ix.purged.index)
  BY <1>2, IdFacts
<1> QED
  BY <1>4, <1>5, <1>6

(* What truncate_after does to an index. *)
LEMMA TruncateFacts ==
  ASSUME NEW ix \in Indexes, NEW id \in LogIds \cup {NoId}
  PROVE  LET new == Truncate(ix, id)
         IN  /\ new \in Indexes /\ new.purged = ix.purged /\ new.committed = ix.committed
             /\ DOMAIN new.entries = {k \in DOMAIN ix.entries : k < id.index + 1}
<1> DEFINE new == Truncate(ix, id)
           U == {k \in DOMAIN ix.entries : k < id.index + 1}
           m == Below(ix.entries, id.index + 1)
<1>1. id.index + 1 \in Int
  BY IdFacts
<1>2. DOMAIN m = U /\ m \in [U -> 1..MaxTerm] /\ U \in SUBSET (0..MaxIndex)
  BY <1>1, BelowFacts
<1>3. /\ ix = [entries |-> ix.entries, purged |-> ix.purged, committed |-> ix.committed]
      /\ ix.purged \in LogIds \cup {NoId} /\ ix.committed \in LogIds \cup {NoId}
  BY IndexFacts
<1>4. new = [entries |-> m, purged |-> ix.purged, committed |-> ix.committed]
  BY <1>3 DEF Truncate
<1> HIDE DEF m, U, new
<1>5. new \in Indexes
  BY <1>2, <1>3, <1>4, IndexMade
<1>6. DOMAIN new.entries = U /\ new.purged = ix.purged /\ new.committed = ix.committed
  BY <1>2, <1>4
<1> QED
  BY <1>5, <1>6 DEF new, U

(* What purge does to an index. *)
LEMMA PurgeFacts ==
  ASSUME NEW ix \in Indexes, NEW id \in LogIds \cup {NoId}
  PROVE  LET new == Purge(ix, id)
         IN  /\ new \in Indexes /\ new.committed = ix.committed
             /\ new.purged = IF Above(id, ix.purged) THEN id ELSE ix.purged
             /\ DOMAIN new.entries = {k \in DOMAIN ix.entries : k > id.index}
<1> DEFINE new == Purge(ix, id)
           U == {k \in DOMAIN ix.entries : k > id.index}
           m == [j \in U |-> ix.entries[j]]
           p == IF Above(id, ix.purged) THEN id ELSE ix.purged
<1>3. /\ ix = [entries |-> ix.entries, purged |-> ix.purged, committed |-> ix.committed]
      /\ ix.purged \in LogIds \cup {NoId} /\ ix.committed \in LogIds \cup {NoId}
      /\ ix.entries \in [DOMAIN ix.entries -> 1..MaxTerm] /\ DOMAIN ix.entries \in SUBSET (0..MaxIndex)
  BY IndexFacts
<1>2. DOMAIN m = U /\ m \in [U -> 1..MaxTerm] /\ U \in SUBSET (0..MaxIndex) /\ p \in LogIds \cup {NoId}
  BY <1>3
<1>4. new = [entries |-> m, purged |-> p, committed |-> ix.committed]
  <2>1. new = [ix EXCEPT !.entries = m, !.purged = p]
    BY Zenon DEF Purge
  <2> HIDE DEF m, p, new
  <2> QED
    BY <1>3, <2>1
<1> HIDE DEF m, U, new, p
<1>5. new \in Indexes
  BY <1>2, <1>3, <1>4, IndexMade
<1>6. DOMAIN new.entries = U /\ new.purged = p /\ new.committed = ix.committed
  BY <1>2, <1>4
<1> QED
  BY <1>5, <1>6 DEF new, U, p

(* What a committed record does to an index. *)
LEMMA CommitFacts ==
  ASSUME NEW ix \in Indexes, NEW id \in LogIds \cup {NoId}
  PROVE  LET new == Commit(ix, id)
         IN  /\ new \in Indexes /\ new.entries = ix.entries /\ new.purged = ix.purged
             /\ new.committed = IF Above(id, ix.committed) THEN id ELSE ix.committed
             /\ LastLogId(new) = LastLogId(ix)
<1> DEFINE new == Commit(ix, id)
           c == IF Above(id, ix.committed) THEN id ELSE ix.committed
<1>3. /\ ix = [entries |-> ix.entries, purged |-> ix.purged, committed |-> ix.committed]
      /\ ix.purged \in LogIds \cup {NoId} /\ ix.committed \in LogIds \cup {NoId}
      /\ ix.entries \in [DOMAIN ix.entries -> 1..MaxTerm] /\ DOMAIN ix.entries \in SUBSET (0..MaxIndex)
  BY IndexFacts
<1>2. c \in LogIds \cup {NoId}
  BY <1>3
<1>4. new = [entries |-> ix.entries, purged |-> ix.purged, committed |-> c]
  BY <1>3 DEF Commit
<1> HIDE DEF new, c
<1>5. new \in Indexes
  BY <1>2, <1>3, <1>4, IndexMade
<1>6. new.entries = ix.entries /\ new.purged = ix.purged /\ new.committed = c
  BY <1>4
<1>7. LastLogId(new) = LastLogId(ix)
  BY <1>6 DEF LastLogId
<1> QED
  BY <1>5, <1>6, <1>7 DEF new, c

(* Applying a record gives an index. *)
LEMMA ApplyRecordFacts ==
  ASSUME NEW ix \in Indexes, NEW r \in Records
  PROVE  ApplyRecord(ix, r) \in Indexes
<1>1. r.kind \in {"entry", "truncate", "purge", "committed"} /\ r.id \in LogIds \cup {NoId}
  BY DEF Records
<1>2. CASE r.kind = "entry"
  BY <1>1, <1>2, PlaceFacts DEF ApplyRecord
<1>3. CASE r.kind = "truncate"
  BY <1>1, <1>3, TruncateFacts DEF ApplyRecord
<1>4. CASE r.kind = "purge"
  BY <1>1, <1>4, PurgeFacts DEF ApplyRecord
<1>5. CASE r.kind = "committed"
  BY <1>1, <1>5, CommitFacts DEF ApplyRecord
<1> QED
  BY <1>1, <1>2, <1>3, <1>4, <1>5

----------------------------------------------------------------------------
(* The index: replaying a log.                                             *)

----------------------------------------------------------------------------
(* Replay.  Each fact is an induction over the records, by UpTo.           *)

(* Replays of equal records go through equal indexes. *)
LEMMA SameSteps ==
  ASSUME NEW ix, NEW a, NEW b, Len(a) \in Nat, Len(b) \in Nat, NEW n \in Nat, n <= Len(a), n <= Len(b),
         \A i \in 1..n : a[i] = b[i]
  PROVE  \A k \in 0..n : ReplaySteps(ix, a)[k] = ReplaySteps(ix, b)[k]
<1> DEFINE f == ReplaySteps(ix, a)
           g == ReplaySteps(ix, b)
           S == {k \in 0..n : f[k] = g[k]}
<1>1. f[0] = ix /\ \A k \in 1..Len(a) : f[k] = ApplyRecord(f[k - 1], a[k])
  BY StepsFacts
<1>2. g[0] = ix /\ \A k \in 1..Len(b) : g[k] = ApplyRecord(g[k - 1], b[k])
  BY StepsFacts
<1> HIDE DEF f, g
<1>3. 0 \in S
  BY <1>1, <1>2
<1>4. ASSUME NEW k \in 0..n, k < n, k \in S PROVE k + 1 \in S
  <2>1. k + 1 \in 1..Len(a) /\ k + 1 \in 1..Len(b) /\ k + 1 \in 1..n /\ (k + 1) - 1 = k
    BY <1>4
  <2>2. f[k + 1] = ApplyRecord(f[k], a[k + 1]) /\ g[k + 1] = ApplyRecord(g[k], b[k + 1])
    BY <1>1, <1>2, <2>1
  <2> QED
    BY <1>4, <2>1, <2>2
<1>5. \A k \in 0..n : k \in S
  <2> HIDE DEF S
  <2> QED
    BY <1>3, <1>4, UpTo
<1> QED
  BY <1>5 DEF f, g

(* The replay of a prefix is what the replay of the whole has reached there. *)
LEMMA ReplayOfPrefix ==
  ASSUME NEW recs \in Seq(Records), NEW n \in 0..Len(recs)
  PROVE  Replay(SubSeq(recs, 1, n)) = ReplaySteps(EmptyIndex, recs)[n]
<1> DEFINE h == SubSeq(recs, 1, n)
<1>1. Len(recs) \in Nat
  BY LenProperties
<1>2. Len(h) = n /\ \A i \in 1..n : h[i] = recs[i]
  BY <1>1, SubSeqProperties
<1> HIDE DEF h
<1>3. Len(h) \in Nat /\ n \in Nat /\ n <= Len(h) /\ n <= Len(recs)
  BY <1>1, <1>2
<1>4. \A k \in 0..n : ReplaySteps(EmptyIndex, h)[k] = ReplaySteps(EmptyIndex, recs)[k]
  BY <1>1, <1>2, <1>3, SameSteps
<1>5. Replay(h) = ReplaySteps(EmptyIndex, h)[Len(h)]
  BY <1>3, StepsFacts DEF Replay
<1>6. n \in 0..n
  BY <1>3
<1> QED
  BY <1>2, <1>4, <1>5, <1>6 DEF h

(* An empty log replays to an empty index. *)
LEMMA EmptySound ==
  /\ EmptyIndex \in Indexes /\ Sound(EmptyIndex) /\ Replay(<<>>) = EmptyIndex /\ Replays(<<>>)
<1>1. <<>> \in [{} -> 1..MaxTerm] /\ {} \in SUBSET (0..MaxIndex) /\ NoId \in LogIds \cup {NoId}
  OBVIOUS
<1>2. EmptyIndex \in Indexes
  BY <1>1, IndexMade DEF EmptyIndex
<1>3. /\ EmptyIndex.committed = NoId /\ EmptyIndex.purged = NoId /\ DOMAIN EmptyIndex.entries = {}
      /\ NoId.index = -1
  BY DEF EmptyIndex, NoId
<1>4. Sound(EmptyIndex)
  BY <1>2, <1>3, LastFacts DEF Sound, Unpurged
<1>5. Len(<<>>) = 0
  OBVIOUS
<1>6. Replay(<<>>) = EmptyIndex
  BY <1>5, StepsFacts DEF Replay
<1>7. Replays(<<>>)
  <2>1. <<>> \in Seq(Records) /\ SubSeq(<<>>, 1, 0) = <<>>
    OBVIOUS
  <2>2. ASSUME NEW n \in 0..Len(<<>>) PROVE n = 0
    BY <1>5
  <2>3. ~(0 > 0)
    OBVIOUS
  <2>4. Sound(Replay(SubSeq(<<>>, 1, 0)))
    BY <1>4, <1>6, <2>1
  <2> QED
    BY <2>2, <2>3, <2>4 DEF Replays
<1> QED
  BY <1>2, <1>4, <1>6, <1>7

(* A prefix of what replays does so too. *)
LEMMA ReplaysPrefix ==
  ASSUME NEW recs \in Seq(Records), Replays(recs), NEW n \in 0..Len(recs)
  PROVE  Replays(SubSeq(recs, 1, n))
<1> DEFINE h == SubSeq(recs, 1, n)
<1>1. Len(recs) \in Nat
  BY LenProperties
<1>2. h \in Seq(Records) /\ Len(h) = n /\ \A i \in 1..n : h[i] = recs[i]
  BY <1>1, SubSeqProperties
<1>3. ASSUME NEW k \in 0..n PROVE Replay(SubSeq(h, 1, k)) = Replay(SubSeq(recs, 1, k))
  <2>1. k \in 0..Len(h) /\ k \in 0..Len(recs)
    BY <1>1, <1>2
  <2>2. Replay(SubSeq(h, 1, k)) = ReplaySteps(EmptyIndex, h)[k]
    BY <1>2, <2>1, ReplayOfPrefix
  <2>3. Replay(SubSeq(recs, 1, k)) = ReplaySteps(EmptyIndex, recs)[k]
    BY <2>1, ReplayOfPrefix
  <2> HIDE DEF h
  <2>5. n \in Nat /\ Len(h) \in Nat /\ n <= Len(h) /\ n <= Len(recs)
    BY <1>1, <1>2
  <2>4. \A j \in 0..n : ReplaySteps(EmptyIndex, h)[j] = ReplaySteps(EmptyIndex, recs)[j]
    BY <1>1, <1>2, <2>5, SameSteps
  <2> QED
    BY <2>2, <2>3, <2>4
<1> HIDE DEF h
<1>4. ASSUME NEW k \in 0..n
      PROVE  /\ Sound(Replay(SubSeq(h, 1, k)))
             /\ k > 0 /\ h[k].kind = "entry" => Admits(Replay(SubSeq(h, 1, k - 1)), h[k].id.index)
  <2>1. k \in 0..Len(recs)
    BY <1>1
  <2>2. Sound(Replay(SubSeq(recs, 1, k)))
    BY <2>1 DEF Replays
  <2>3. ASSUME k > 0, h[k].kind = "entry" PROVE Admits(Replay(SubSeq(h, 1, k - 1)), h[k].id.index)
    <3>1. k \in 1..n /\ k - 1 \in 0..n
      BY <1>1, <2>3
    <3>2. h[k] = recs[k] /\ Replay(SubSeq(h, 1, k - 1)) = Replay(SubSeq(recs, 1, k - 1))
      BY <1>2, <1>3, <3>1
    <3> QED
      BY <2>1, <2>3, <3>2 DEF Replays
  <2> QED
    BY <1>3, <2>2, <2>3
<1>5. Replays(h)
  BY <1>2, <1>4 DEF Replays
<1> QED
  BY <1>5 DEF h

(* The replay of more records goes on where the replay of the first ones stopped. *)
LEMMA StepsOfConcat ==
  ASSUME NEW s \in Seq(Records), NEW t \in Seq(Records)
  PROVE  /\ \A k \in 0..Len(t) :
              ReplaySteps(EmptyIndex, s \o t)[Len(s) + k] = ReplaySteps(Replay(s), t)[k]
         /\ \A k \in 0..Len(s) : ReplaySteps(EmptyIndex, s \o t)[k] = ReplaySteps(EmptyIndex, s)[k]
<1> DEFINE u == s \o t
           f == ReplaySteps(Replay(s), t)
           g == ReplaySteps(EmptyIndex, u)
           S == {k \in 0..Len(t) : g[Len(s) + k] = f[k]}
<1>0. /\ Len(s) \in Nat /\ Len(t) \in Nat /\ u \in Seq(Records) /\ Len(u) = Len(s) + Len(t)
      /\ \A p \in 1..Len(s) : u[p] = s[p]
      /\ \A p \in (Len(s) + 1)..(Len(s) + Len(t)) : u[p] = t[p - Len(s)]
  BY ConcatRecords
<1> HIDE DEF u
<1>1. f[0] = Replay(s) /\ \A k \in 1..Len(t) : f[k] = ApplyRecord(f[k - 1], t[k])
  BY <1>0, StepsFacts
<1>b. Len(u) \in Nat /\ Len(s) <= Len(u) /\ Len(s) <= Len(s)
  BY <1>0
<1>2. \A k \in 1..(Len(s) + Len(t)) : g[k] = ApplyRecord(g[k - 1], u[k])
  <2>1. \A k \in 1..Len(u) : g[k] = ApplyRecord(g[k - 1], u[k])
    BY <1>b, StepsFacts
  <2> QED
    BY <1>0, <2>1
<1>3. \A k \in 0..Len(s) : g[k] = ReplaySteps(EmptyIndex, s)[k]
  <2>1. PICK n : n = Len(s)
    OBVIOUS
  <2>2. n \in Nat /\ n <= Len(u) /\ n <= Len(s) /\ Len(u) \in Nat /\ Len(s) \in Nat
    BY <1>0, <1>b, <2>1
  <2>4. \A i \in 1..n : u[i] = s[i]
    BY <1>0, <2>1
  <2>3. \A k \in 0..n : ReplaySteps(EmptyIndex, u)[k] = ReplaySteps(EmptyIndex, s)[k]
    BY <2>2, <2>4, SameSteps
  <2> QED
    BY <2>1, <2>3
<1>4. Replay(s) = ReplaySteps(EmptyIndex, s)[Len(s)]
  BY <1>0, StepsFacts DEF Replay
<1> HIDE DEF f, g
<1>5. 0 \in S
  <2>1. Len(s) \in 0..Len(s) /\ Len(s) + 0 = Len(s)
    BY <1>0
  <2>2. g[Len(s) + 0] = f[0]
    BY <1>1, <1>3, <1>4, <2>1
  <2> QED
    BY <1>0, <2>2
<1>6. ASSUME NEW k \in 0..Len(t), k < Len(t), k \in S PROVE k + 1 \in S
  <2> DEFINE p == Len(s) + (k + 1)
  <2>1. /\ p \in 1..(Len(s) + Len(t)) /\ p \in (Len(s) + 1)..(Len(s) + Len(t))
        /\ p - 1 = Len(s) + k /\ p - Len(s) = k + 1 /\ k + 1 \in 1..Len(t) /\ (k + 1) - 1 = k
    BY <1>0, <1>6
  <2> HIDE DEF p
  <2>2. g[p] = ApplyRecord(g[Len(s) + k], t[k + 1])
    BY <1>0, <1>2, <2>1
  <2>3. f[k + 1] = ApplyRecord(f[k], t[k + 1])
    BY <1>1, <2>1
  <2>4. g[Len(s) + k] = f[k]
    BY <1>6
  <2>5. k + 1 \in 0..Len(t)
    BY <1>0, <2>1
  <2> QED
    BY <2>2, <2>3, <2>4, <2>5 DEF p
<1>7. \A k \in 0..Len(t) : k \in S
  <2> HIDE DEF S
  <2> QED
    BY <1>0, <1>5, <1>6, UpTo
<1> QED
  BY <1>3, <1>7 DEF f, g, u

(* Records that each meet a sound index extend a log that replays. *)
LEMMA ReplaysMore ==
  ASSUME NEW s \in Seq(Records), NEW t \in Seq(Records), Replays(s),
         \A k \in 1..Len(t) :
           /\ Sound(ReplaySteps(Replay(s), t)[k])
           /\ t[k].kind = "entry" => Admits(ReplaySteps(Replay(s), t)[k - 1], t[k].id.index)
  PROVE  Replays(s \o t) /\ Replay(s \o t) = ApplyAll(Replay(s), t)
<1> DEFINE f == ReplaySteps(Replay(s), t)
           g == ReplaySteps(EmptyIndex, s \o t)
<1>0. /\ Len(s) \in Nat /\ Len(t) \in Nat /\ s \o t \in Seq(Records) /\ Len(s \o t) = Len(s) + Len(t)
      /\ \A p \in 1..Len(s) : (s \o t)[p] = s[p]
      /\ \A p \in (Len(s) + 1)..(Len(s) + Len(t)) : (s \o t)[p] = t[p - Len(s)] /\ p - Len(s) \in 1..Len(t)
  BY ConcatRecords
<1>1. \A k \in 0..Len(t) : g[Len(s) + k] = f[k]
  BY StepsOfConcat
<1>2. \A k \in 0..Len(s) : g[k] = ReplaySteps(EmptyIndex, s)[k]
  BY StepsOfConcat
<1>3. \A k \in 0..Len(s) : Replay(SubSeq(s, 1, k)) = ReplaySteps(EmptyIndex, s)[k]
  BY ReplayOfPrefix
<1>4. \A k \in 0..(Len(s) + Len(t)) : Replay(SubSeq(s \o t, 1, k)) = g[k]
  BY <1>0, ReplayOfPrefix
<1>5. \A k \in 1..Len(t) : Sound(f[k]) /\ (t[k].kind = "entry" => Admits(f[k - 1], t[k].id.index))
  OBVIOUS
<1>a. ApplyAll(Replay(s), t) = f[Len(t)] /\ Replay(s \o t) = g[Len(s \o t)]
  <2>1. Len(s \o t) \in Nat
    BY <1>0
  <2>2. ApplyAll(EmptyIndex, s \o t) = g[Len(s \o t)]
    BY <2>1, StepsFacts
  <2>3. ApplyAll(Replay(s), t) = f[Len(t)]
    BY <1>0, StepsFacts
  <2> QED
    BY <2>2, <2>3 DEF Replay
<1> HIDE DEF f, g
<1>6. ASSUME NEW k \in 0..(Len(s) + Len(t))
      PROVE  /\ Sound(g[k])
             /\ k > 0 /\ (s \o t)[k].kind = "entry" => Admits(g[k - 1], (s \o t)[k].id.index)
  <2>1. CASE k <= Len(s)
    <3>1. k \in 0..Len(s)
      BY <1>0, <2>1
    <3>2. Sound(g[k])
      BY <1>2, <1>3, <3>1 DEF Replays
    <3>3. ASSUME k > 0, (s \o t)[k].kind = "entry" PROVE Admits(g[k - 1], (s \o t)[k].id.index)
      <4>1. k \in 1..Len(s) /\ k - 1 \in 0..Len(s)
        BY <1>0, <3>1, <3>3
      <4>2. (s \o t)[k] = s[k] /\ g[k - 1] = Replay(SubSeq(s, 1, k - 1))
        BY <1>0, <1>2, <1>3, <4>1
      <4> QED
        BY <3>1, <3>3, <4>2 DEF Replays
    <3> QED
      BY <3>2, <3>3
  <2>2. CASE k > Len(s)
    <3> DEFINE j == k - Len(s)
    <3>1. /\ j \in 1..Len(t) /\ k = Len(s) + j /\ k - 1 = Len(s) + (j - 1)
          /\ j \in 0..Len(t) /\ j - 1 \in 0..Len(t) /\ k \in (Len(s) + 1)..(Len(s) + Len(t))
      BY <1>0, <2>2
    <3>2. (s \o t)[k] = t[j]
      BY <1>0, <3>1
    <3> HIDE DEF j
    <3>3. g[k] = f[j] /\ g[k - 1] = f[j - 1]
      BY <1>1, <3>1
    <3> QED
      BY <1>5, <3>1, <3>2, <3>3
  <2> QED
    BY <1>0, <2>1, <2>2
<1>7. Replays(s \o t)
  <2> SUFFICES ASSUME NEW k \in 0..Len(s \o t)
               PROVE  /\ Sound(Replay(SubSeq(s \o t, 1, k)))
                      /\ k > 0 /\ (s \o t)[k].kind = "entry" =>
                           Admits(Replay(SubSeq(s \o t, 1, k - 1)), (s \o t)[k].id.index)
    BY DEF Replays
  <2>1. k \in 0..(Len(s) + Len(t)) /\ (k > 0 => k - 1 \in 0..(Len(s) + Len(t)))
    BY <1>0
  <2> QED
    BY <1>4, <1>6, <2>1
<1>8. Replay(s \o t) = ApplyAll(Replay(s), t)
  <2>1. Len(t) \in 0..Len(t) /\ Len(s) + Len(t) = Len(s \o t)
    BY <1>0
  <2> QED
    BY <1>1, <1>a, <2>1
<1> QED
  BY <1>7, <1>8

(* The same for one record. *)
LEMMA ReplaysOne ==
  ASSUME NEW s \in Seq(Records), NEW r \in Records, Replays(s), Sound(ApplyRecord(Replay(s), r)),
         r.kind # "entry"
  PROVE  Replays(s \o <<r>>) /\ Replay(s \o <<r>>) = ApplyRecord(Replay(s), r)
<1> DEFINE t == <<r>>
<1>1. t \in Seq(Records) /\ Len(t) = 1 /\ t[1] = r
  OBVIOUS
<1> HIDE DEF t
<1>2. /\ ReplaySteps(Replay(s), t)[0] = Replay(s)
      /\ ReplaySteps(Replay(s), t)[1] = ApplyRecord(ReplaySteps(Replay(s), t)[1 - 1], t[1])
      /\ ApplyAll(Replay(s), t) = ReplaySteps(Replay(s), t)[Len(t)]
  <2>1. Len(t) \in Nat /\ 1 \in 1..Len(t)
    BY <1>1
  <2> QED
    BY <2>1, StepsFacts
<1>3. ReplaySteps(Replay(s), t)[1] = ApplyRecord(Replay(s), r)
  BY <1>1, <1>2
<1>4. \A k \in 1..Len(t) : k = 1
  BY <1>1
<1>5. Replays(s \o t) /\ Replay(s \o t) = ApplyAll(Replay(s), t)
  BY <1>1, <1>3, <1>4, ReplaysMore
<1> QED
  BY <1>1, <1>2, <1>3, <1>5 DEF t

(* Records applied to an index give an index. *)
LEMMA ApplyAllTyped ==
  ASSUME NEW ix \in Indexes, NEW recs \in Seq(Records)
  PROVE  ApplyAll(ix, recs) \in Indexes
<1> DEFINE f == ReplaySteps(ix, recs)
           S == {k \in 0..Len(recs) : f[k] \in Indexes}
<1>0. Len(recs) \in Nat /\ \A k \in 1..Len(recs) : recs[k] \in Records
  BY LenProperties, ElementOfSeq
<1>1. /\ f[0] = ix /\ \A k \in 1..Len(recs) : f[k] = ApplyRecord(f[k - 1], recs[k])
      /\ ApplyAll(ix, recs) = f[Len(recs)]
  BY <1>0, StepsFacts
<1> HIDE DEF f
<1>2. 0 \in S
  BY <1>0, <1>1
<1>3. ASSUME NEW k \in 0..Len(recs), k < Len(recs), k \in S PROVE k + 1 \in S
  <2>1. k + 1 \in 1..Len(recs) /\ (k + 1) - 1 = k /\ k + 1 \in 0..Len(recs)
    BY <1>0, <1>3
  <2>2. f[k + 1] = ApplyRecord(f[k], recs[k + 1]) /\ f[k] \in Indexes
    BY <1>1, <1>3, <2>1
  <2> QED
    BY <1>0, <2>1, <2>2, ApplyRecordFacts
<1>4. \A k \in 0..Len(recs) : k \in S
  <2> HIDE DEF S
  <2> QED
    BY <1>0, <1>2, <1>3, UpTo
<1>5. Len(recs) \in 0..Len(recs)
  BY <1>0
<1> QED
  BY <1>1, <1>4, <1>5

----------------------------------------------------------------------------
(* The index: what keeps it sound.                                         *)

(* A truncation openraft may ask for leaves the committed id within the log. *)
LEMMA TruncateSound ==
  ASSUME NEW ix, Sound(ix), NEW id \in LogIds \cup {NoId}, id \in {NoId, ix.purged} \/ Holds(ix, id),
         id.index >= ix.committed.index
  PROVE  Sound(Truncate(ix, id))
<1> DEFINE new == Truncate(ix, id)
<1>0. ix \in Indexes /\ id.index \in Int /\ id.index >= -1
  BY IdFacts DEF Sound
<1>1. /\ new \in Indexes /\ new.purged = ix.purged /\ new.committed = ix.committed
      /\ DOMAIN new.entries = {k \in DOMAIN ix.entries : k < id.index + 1}
  BY <1>0, TruncateFacts
<1>2. ix.committed.index \in Int
  BY <1>0, IndexFacts, IdFacts
<1>u. Unpurged(new)
  BY <1>1 DEF Sound, Unpurged
<1> HIDE DEF new
<1>3. CASE Holds(ix, id)
  <2>1. id.index \in DOMAIN new.entries
    BY <1>0, <1>1, <1>3 DEF Holds
  <2>2. id.index <= LastLogId(new).index /\ LastLogId(new).index \in Int
    BY <1>1, <2>1, LastFacts
  <2> QED
    BY <1>0, <1>1, <1>2, <1>u, <2>2 DEF Sound, new
<1>4. CASE id = NoId
  <2>1. ix.committed.index <= -1
    BY <1>4 DEF NoId
  <2>2. LastLogId(new).index >= -1 /\ LastLogId(new).index \in Int
    BY <1>1, LastFacts
  <2> QED
    BY <1>1, <1>2, <1>u, <2>1, <2>2 DEF Sound, new
<1>5. CASE id = ix.purged
  <2>1. ~ \E k \in DOMAIN ix.entries : k < id.index + 1
    <3>1. \A k \in DOMAIN ix.entries : k \in Int /\ k > id.index
      BY <1>0, <1>5, IndexFacts DEF Sound, Unpurged
    <3> QED
      BY <1>0, <3>1
  <2>2. LastLogId(new) = id
    BY <1>1, <1>5, <2>1, LastFacts
  <2> QED
    BY <1>1, <1>u, <2>2 DEF Sound, new
<1> QED
  BY <1>3, <1>4, <1>5

(* So does a purge, of committed entries or of the whole log. *)
LEMMA PurgeSound ==
  ASSUME NEW ix, Sound(ix), NEW id \in LogIds, Above(id, ix.purged),
         \/ Holds(ix, id) /\ id.index <= ix.committed.index
         \/ id.index > LastLogId(ix).index
  PROVE  Sound(Purge(ix, id))
<1> DEFINE new == Purge(ix, id)
<1>0. ix \in Indexes /\ id \in LogIds \cup {NoId} /\ id.index \in Int
  BY IdFacts DEF Sound
<1>1. /\ new \in Indexes /\ new.purged = id /\ new.committed = ix.committed
      /\ DOMAIN new.entries = {k \in DOMAIN ix.entries : k > id.index}
  BY <1>0, PurgeFacts
<1>2. ix.committed.index \in Int /\ ix.committed.index <= LastLogId(ix).index /\ LastLogId(ix).index \in Int
  BY <1>0, IndexFacts, IdFacts, LastFacts DEF Sound
<1>u. Unpurged(new)
  BY <1>1 DEF Unpurged
<1> HIDE DEF new
<1>3. LastLogId(new).index \in Int
  BY <1>1, LastFacts
<1>4. CASE DOMAIN new.entries = {}
  <2>1. LastLogId(new) = id
    BY <1>1, <1>4, LastFacts
  <2>2. CASE DOMAIN ix.entries = {} \/ id.index > LastLogId(ix).index
    <3>1. id.index > LastLogId(ix).index
      BY <2>2 DEF Holds
    <3> QED
      BY <1>0, <1>1, <1>2, <1>u, <2>1, <3>1 DEF Sound, new
  <2>3. CASE DOMAIN ix.entries # {} /\ Holds(ix, id)
    <3>1. LastLogId(ix).index \in DOMAIN ix.entries
      BY <1>0, <2>3, LastFacts
    <3>2. ~(LastLogId(ix).index > id.index)
      BY <1>1, <1>4, <3>1
    <3> QED
      BY <1>0, <1>1, <1>2, <1>u, <2>1, <3>2 DEF Sound, new
  <2> QED
    BY <2>2, <2>3
<1>5. CASE DOMAIN new.entries # {}
  <2>1. PICK k \in DOMAIN ix.entries : k > id.index /\ k \in DOMAIN new.entries
    BY <1>1, <1>5
  <2>2. k \in Int /\ k <= LastLogId(ix).index /\ LastLogId(ix).index \in DOMAIN ix.entries
    BY <1>0, <2>1, IndexFacts, LastFacts
  <2>3. LastLogId(ix).index \in DOMAIN new.entries
    BY <1>0, <1>1, <1>2, <2>1, <2>2
  <2>4. LastLogId(ix).index <= LastLogId(new).index
    BY <1>1, <2>3, LastFacts
  <2> QED
    BY <1>1, <1>2, <1>3, <1>u, <2>4 DEF Sound, new
<1> QED
  BY <1>4, <1>5

(* A committed id that the log holds leaves the index sound. *)
LEMMA CommitSound ==
  ASSUME NEW ix, Sound(ix), NEW id \in LogIds, Holds(ix, id)
  PROVE  Sound(Commit(ix, id))
<1> DEFINE new == Commit(ix, id)
<1>0. ix \in Indexes /\ id \in LogIds \cup {NoId} /\ ix.committed.index <= LastLogId(ix).index
  BY DEF Sound
<1>1. /\ new \in Indexes /\ LastLogId(new) = LastLogId(ix)
      /\ new.committed = IF Above(id, ix.committed) THEN id ELSE ix.committed
  BY <1>0, CommitFacts
<1>2. id.index <= LastLogId(ix).index
  BY <1>0, LastFacts DEF Holds
<1>u. Unpurged(new)
  BY <1>0, CommitFacts DEF Sound, Unpurged
<1> HIDE DEF new
<1>3. new.committed.index <= LastLogId(new).index
  BY <1>0, <1>1, <1>2
<1> QED
  BY <1>1, <1>3, <1>u DEF Sound, new

(* A run that is admitted at its first entry is admitted at every one. *)
LEMMA RunReplays ==
  ASSUME NEW ix, Sound(ix), NEW t \in 1..MaxTerm, NEW first \in 0..MaxIndex, NEW last \in 0..MaxIndex,
         first <= last, first > ix.committed.index, Admits(ix, first)
  PROVE  LET run == [k \in 1..(last - first + 1) |-> EntryRecord(t, first + k - 1)]
         IN  \A k \in 1..Len(run) :
               /\ Sound(ReplaySteps(ix, run)[k])
               /\ Admits(ReplaySteps(ix, run)[k - 1], run[k].id.index)
<1> DEFINE run == [k \in 1..(last - first + 1) |-> EntryRecord(t, first + k - 1)]
           f == ReplaySteps(ix, run)
           L == last - first + 1
<1>0. MaxIndex \in Nat /\ MaxTerm \in Nat /\ first \in Nat /\ last \in Nat /\ L \in Nat
  BY GroupLogAssumption, VoteConstants
<1>1. run \in Seq(Records)
  BY RunIsRecords
<1>2. Len(run) = L
  BY <1>0
<1>3. \A k \in 1..L : /\ run[k].kind = "entry" /\ run[k].id \in LogIds /\ run[k].id.index = first + k - 1
  BY <1>0 DEF EntryRecord, LogIds
<1> HIDE DEF run, L
<1>4. f[0] = ix /\ \A k \in 1..L : f[k] = ApplyRecord(f[k - 1], run[k])
  BY <1>0, <1>2, StepsFacts
<1> HIDE DEF f
<1>5. ix \in Indexes /\ ix.purged.index \in Int /\ ix.committed.index \in Int
  BY IndexFacts, IdFacts DEF Sound
<1>6. ix.purged.index < first
  <2>1. CASE ix.purged = NoId
    BY <1>0, <2>1 DEF NoId
  <2>2. CASE first \in (ix.purged.index + 1)..(LastLogId(ix).index + 1)
    BY <1>0, <1>5, <2>2, LastFacts
  <2> QED
    BY <2>1, <2>2 DEF Admits
<1> DEFINE Q(k) == /\ f[k] \in Indexes /\ f[k].purged = ix.purged /\ f[k].committed = ix.committed
                   /\ Unpurged(f[k]) /\ (k > 0 => LastLogId(f[k]).index = first + k - 1)
           S == {k \in 0..L : Q(k)}
<1>7. 0 \in S
  BY <1>0, <1>4, <1>5 DEF Sound
<1>8. ASSUME NEW k \in 0..L, k < L, k \in S PROVE k + 1 \in S
  <2>1. k + 1 \in 1..L /\ (k + 1) - 1 = k /\ k + 1 \in 0..L /\ k \in Nat
    BY <1>0, <1>8
  <2>2. /\ f[k + 1] = ApplyRecord(f[k], run[k + 1]) /\ f[k] \in Indexes /\ f[k].purged = ix.purged
        /\ f[k].committed = ix.committed /\ Unpurged(f[k])
    <3>1. f[k + 1] = ApplyRecord(f[k], run[k + 1])
      BY <1>4, <2>1
    <3>2. Q(k)
      <4> HIDE DEF Q
      <4> QED
        BY <1>8
    <3> QED
      BY <3>1, <3>2
  <2>3. f[k + 1] = Place(f[k], run[k + 1].id)
    BY <1>3, <2>1, <2>2 DEF ApplyRecord
  <2>4. run[k + 1].id \in LogIds /\ run[k + 1].id.index = first + (k + 1) - 1
    BY <1>3, <2>1
  <2>5. run[k + 1].id.index > f[k].purged.index
    BY <1>0, <1>5, <1>6, <2>1, <2>2, <2>4
  <2>6. /\ f[k + 1] \in Indexes /\ f[k + 1].purged = f[k].purged /\ f[k + 1].committed = f[k].committed
        /\ LastLogId(f[k + 1]).index = run[k + 1].id.index /\ Unpurged(f[k + 1])
    BY <2>2, <2>3, <2>4, <2>5, PlaceFacts
  <2> QED
    BY <2>1, <2>2, <2>4, <2>6
<1>9. \A k \in 0..L : k \in S
  <2> HIDE DEF S
  <2> QED
    BY <1>0, <1>7, <1>8, UpTo
<1>a. \A k \in 0..L : Q(k)
  <2> HIDE DEF Q
  <2> QED
    BY <1>9
<1>10. ASSUME NEW k \in 1..L PROVE Sound(f[k]) /\ Admits(f[k - 1], run[k].id.index)
  <2>1. k \in 0..L /\ k > 0 /\ k - 1 \in 0..L /\ k \in Nat
    BY <1>0
  <2>2. /\ f[k] \in Indexes /\ f[k].committed = ix.committed /\ LastLogId(f[k]).index = first + k - 1
        /\ Unpurged(f[k])
    BY <1>a, <2>1
  <2>3. Sound(f[k])
    BY <1>0, <1>5, <2>1, <2>2 DEF Sound
  <2>4. run[k].id.index = first + k - 1
    BY <1>3
  <2>5. CASE k = 1
    <3>1. f[k - 1] = ix /\ run[k].id.index = first
      BY <1>0, <1>4, <2>4, <2>5
    <3> QED
      BY <2>3, <3>1
  <2>6. CASE k # 1
    <3>1. k - 1 > 0
      BY <2>1, <2>6
    <3>2. LastLogId(f[k - 1]).index = first + (k - 1) - 1 /\ f[k - 1].purged = ix.purged
      BY <1>a, <2>1, <3>1
    <3>3. first + k - 1 \in (f[k - 1].purged.index + 1)..(LastLogId(f[k - 1]).index + 1)
      BY <1>0, <1>5, <1>6, <2>1, <3>2
    <3> QED
      BY <2>3, <2>4, <3>3 DEF Admits
  <2> QED
    BY <2>5, <2>6
<1> QED
  BY <1>2, <1>10 DEF f, run

----------------------------------------------------------------------------
(* The index is a replay of the log.                                       *)

(* What CallInv, PrefixInv and FollowInv leave open of the types. *)
KindInv ==
  /\ commands \in [frames : Seq(Records), kinds : SUBSET Kinds]
  /\ taken \subseteq Kinds
  /\ segment \in {"none", "created", "durable"}
  /\ walFailed \in BOOLEAN /\ lostLog \in BOOLEAN
  /\ damaged \in {"no", "unvoted", "voted"}
  /\ writes \in 0..MaxWrites

(* A fresh group has no record. *)
LEMMA KindInit == Init => KindInv
<1> SUFFICES ASSUME Init PROVE KindInv
  OBVIOUS
<1>1. NoCommands \in [frames : Seq(Records), kinds : SUBSET Kinds]
  BY DEF NoCommands
<1>2. writes \in 0..MaxWrites
  BY GroupLogAssumption DEF Init, LogInit
<1>3. /\ commands = NoCommands /\ taken = {} /\ segment = "none" /\ damaged = "no"
      /\ walFailed \in BOOLEAN /\ lostLog \in BOOLEAN
  BY DEF Init, LogInit
<1> QED
  BY <1>1, <1>2, <1>3 DEF KindInv

(* Every step keeps KindInv: only openraft's calls make records. *)
LEMMA KindStep ==
  ASSUME KindInv, [Next]_vars
  PROVE  KindInv'
<1>0. NoCommands \in [frames : Seq(Records), kinds : SUBSET Kinds] /\ MaxWrites \in Nat
  BY GroupLogAssumption DEF NoCommands
<1>1. CASE UNCHANGED vars
  BY <1>1 DEF vars, logVars, KindInv
<1>2. CASE Calls /\ ~CastVote
  <2>1. PICK ix, kind : \E frames \in Seq(Records) : Write(ix, kind, frames) /\ CallShape(kind, frames)
    BY <1>2, CallShapes
  <2>2. PICK frames \in Seq(Records) : Write(ix, kind, frames) /\ CallShape(kind, frames)
    BY <2>1
  <2>3. /\ commands' = [frames |-> commands.frames \o frames, kinds |-> commands.kinds \cup {kind}]
        /\ writes' = writes + 1
        /\ UNCHANGED <<segment, taken, walFailed, lostLog, damaged>>
    BY <2>2 DEF Write
  <2>4. kind \in Kinds
    BY <2>2 DEF CallShape, Kinds
  <2>5. commands.frames \o frames \in Seq(Records)
    BY ConcatProperties DEF KindInv
  <2>6. writes < MaxWrites
    BY <1>2, CallShapes DEF Ready
  <2>7. writes' \in 0..MaxWrites
    BY <1>0, <2>3, <2>6 DEF KindInv
  <2> QED
    BY <2>3, <2>4, <2>5, <2>7 DEF KindInv
<1>3. CASE TakeCommands
  <2>1. PICK n \in 0..Len(commands.frames) : walFailed' = (n < Len(commands.frames))
    BY <1>3 DEF TakeCommands
  <2>2. walFailed' \in BOOLEAN
    BY <2>1
  <2> QED
    BY <1>0, <1>3, <2>2 DEF TakeCommands, KindInv
<1>4. CASE AnswerCommands \/ FailCommands \/ RejectCommands \/ ExitLogWriter
  <2>1. /\ UNCHANGED <<segment, lostLog, damaged, writes>> /\ taken' \in {taken, {}}
        /\ walFailed' \in {walFailed, TRUE} /\ commands' \in {commands, NoCommands}
    BY <1>4 DEF AnswerCommands, FailCommands, RejectCommands, ExitLogWriter
  <2> QED
    BY <1>0, <2>1 DEF KindInv
<1>5. CASE CastVote \/ CloseHost \/ VoteStep \/ RefuseLog
  <2>1. UNCHANGED <<commands, taken, segment, walFailed, damaged, writes>> /\ lostLog' \in {lostLog, TRUE}
    BY <1>5 DEF CastVote, CloseHost, VoteStep, RefuseLog, logVars
  <2> QED
    BY <2>1 DEF KindInv
<1>6. CASE OpenLog \/ OpenLogFails
  <2>1. /\ UNCHANGED <<commands, taken, lostLog, damaged, writes>>
        /\ segment' \in {segment, "created", "durable"} /\ walFailed' \in {walFailed, FALSE}
    BY <1>6 DEF OpenLog, OpenLogFails
  <2> QED
    BY <2>1 DEF KindInv
<1>7. CASE DamageLog
  <2>1. /\ UNCHANGED <<commands, taken, walFailed, lostLog, writes>> /\ segment' = "none"
        /\ damaged' \in {"voted", "unvoted"}
    BY <1>7 DEF DamageLog
  <2> QED
    BY <2>1 DEF KindInv
<1>8. CASE Crash
  <2>1. /\ commands' = NoCommands /\ taken' = {} /\ walFailed' = FALSE
        /\ UNCHANGED <<lostLog, damaged, writes>> /\ segment' \in {segment, "none"}
    BY <1>8 DEF Crash, Kill, LosePower, LogMemoryLost
  <2> QED
    BY <1>0, <2>1 DEF KindInv
<1>9. ASSUME NEW g \in Groups \ {Mine}, NEW v \in 1..MaxTerm, OthersVote(g, v) PROVE KindInv'
  <2>1. /\ UNCHANGED <<commands, taken, segment, walFailed, lostLog, damaged>> /\ writes < MaxWrites
        /\ writes' = writes + 1
    BY <1>9 DEF OthersVote
  <2>2. writes' \in 0..MaxWrites
    BY <1>0, <2>1 DEF KindInv
  <2> QED
    BY <2>1, <2>2 DEF KindInv
<1> QED
  BY <1>1, <1>2, <1>3, <1>4, <1>5, <1>6, <1>7, <1>8, <1>9 DEF Next, LogWriter

----------------------------------------------------------------------------
(* The replay.                                                             *)

(* A fresh log replays to the empty index. *)
LEMMA ReplayInit == Init => ReplayInv
<1> SUFFICES ASSUME Init PROVE ReplayInv
  OBVIOUS
<1>1. /\ index = EmptyIndex /\ wal = <<>> /\ commands.frames = <<>> /\ handle = "closed"
  BY DEF Init, LogInit, NoCommands
<1>2. wal \o commands.frames = <<>>
  BY <1>1
<1> QED
  BY <1>1, <1>2, EmptySound DEF ReplayInv

(* A call keeps the invariant if its frames replay to the index it leaves. *)
LEMMA WriteReplays ==
  ASSUME PrefixInv, ReplayInv, NEW ix \in Indexes, NEW kind, NEW frames \in Seq(Records),
         Write(ix, kind, frames), handle = "open",
         ~walFailed => /\ Replays((wal \o commands.frames) \o frames)
                       /\ Replay((wal \o commands.frames) \o frames) = ix
  PROVE  ReplayInv'
<1>1. /\ index' = ix /\ commands'.frames = commands.frames \o frames
      /\ UNCHANGED <<wal, walFailed, handle>>
  BY DEF Write
<1>2. wal' \o commands'.frames = (wal \o commands.frames) \o frames
  <2>1. wal \in Seq(Records) /\ commands.frames \in Seq(Records)
    BY DEF PrefixInv
  <2>2. (wal \o commands.frames) \o frames = wal \o (commands.frames \o frames)
    <3>1. \A a, b, c \in Seq(Records) : (a \o b) \o c = a \o (b \o c)
      BY ConcatAssociative
    <3> QED
      BY <2>1, <3>1, Zenon
  <2> QED
    BY <1>1, <2>2
<1> QED
  BY <1>1, <1>2 DEF ReplayInv

(* Each of openraft's calls (append, truncate_after, purge,          *)
(* save_committed) applies to the index what it sends to the writer. *)
LEMMA CallsReplay ==
  ASSUME PrefixInv, ReplayInv, Calls, ~CastVote
  PROVE  ReplayInv'
<1> DEFINE A == wal \o commands.frames
<1>0. A \in Seq(Records) /\ handle = "open" /\ index \in Indexes
  BY ConcatProperties, CallShapes DEF PrefixInv, ReplayInv, Ready
<1>1. ~walFailed => Replays(A) /\ index = Replay(A) /\ Sound(index)
  <2>1. ASSUME ~walFailed PROVE Sound(Replay(A))
    <3>1. Replays(A) /\ Len(A) \in Nat
      BY <1>0, <2>1, LenProperties DEF ReplayInv
    <3>2. Len(A) \in 0..Len(A)
      BY <3>1
    <3>3. SubSeq(A, 1, Len(A)) = A
      BY <1>0, SubSeqFull
    <3> HIDE DEF A
    <3> QED
      BY <3>1, <3>2, <3>3 DEF Replays
  <2> QED
    BY <1>0, <2>1 DEF ReplayInv
<1> HIDE DEF A
<1>2. ASSUME NEW r \in Records, r.kind # "entry", NEW kind,
             Write(ApplyRecord(index, r), kind, <<r>>),
             ~walFailed => Sound(ApplyRecord(index, r))
      PROVE  ReplayInv'
  <2>1. ApplyRecord(index, r) \in Indexes /\ <<r>> \in Seq(Records)
    BY <1>0, ApplyRecordFacts
  <2>2. ~walFailed => Replays(A \o <<r>>) /\ Replay(A \o <<r>>) = ApplyRecord(index, r)
    BY <1>0, <1>1, <1>2, ReplaysOne
  <2> QED
    BY <1>0, <1>2, <2>1, <2>2, WriteReplays DEF A
<1>3. ASSUME NEW t \in 1..MaxTerm, NEW first \in 0..MaxIndex, NEW last \in 0..MaxIndex,
             first <= last, AppendEntries(t, first, last)
      PROVE  ReplayInv'
  <2> DEFINE run == [k \in 1..(last - first + 1) |-> EntryRecord(t, first + k - 1)]
  <2>1. /\ Write(ApplyAll(index, run), "append", run) /\ first > index.committed.index
        /\ Admits(index, first)
    BY <1>3 DEF AppendEntries
  <2>2. run \in Seq(Records)
    BY <1>3, RunIsRecords
  <2>3. ASSUME ~walFailed
        PROVE  \A k \in 1..Len(run) :
                 /\ Sound(ReplaySteps(index, run)[k])
                 /\ Admits(ReplaySteps(index, run)[k - 1], run[k].id.index)
    BY <1>1, <1>3, <2>1, <2>3, RunReplays
  <2> HIDE DEF run
  <2>4. ~walFailed => Replays(A \o run) /\ Replay(A \o run) = ApplyAll(index, run)
    BY <1>0, <1>1, <2>2, <2>3, ReplaysMore
  <2>5. ApplyAll(index, run) \in Indexes
    BY <1>0, <2>2, ApplyAllTyped
  <2> QED
    BY <1>0, <2>1, <2>2, <2>4, <2>5, WriteReplays DEF A
<1>4. ASSUME NEW id \in LogIds \cup {NoId}, TruncateAfter(id) PROVE ReplayInv'
  <2> DEFINE r == [kind |-> "truncate", id |-> id]
  <2>1. r \in Records /\ r.kind = "truncate" /\ r.id = id
    BY DEF Records
  <2>2. /\ Write(Truncate(index, id), "durable", <<r>>) /\ (id \in {NoId, index.purged} \/ Holds(index, id))
        /\ id.index >= index.committed.index
    BY <1>4 DEF TruncateAfter
  <2> HIDE DEF r
  <2>3. ApplyRecord(index, r) = Truncate(index, id)
    BY <2>1 DEF ApplyRecord
  <2>4. ~walFailed => Sound(Truncate(index, id))
    BY <1>1, <2>2, TruncateSound
  <2> QED
    BY <1>2, <2>1, <2>2, <2>3, <2>4
<1>5. ASSUME NEW id \in LogIds, PurgeLog(id) PROVE ReplayInv'
  <2> DEFINE r == [kind |-> "purge", id |-> id]
  <2>1. r \in Records /\ r.kind = "purge" /\ r.id = id
    BY DEF Records
  <2>2. /\ Write(Purge(index, id), "durable", <<r>>) /\ Above(id, index.purged)
        /\ \/ Holds(index, id) /\ id.index <= index.committed.index
           \/ id.index > LastLogId(index).index
    BY <1>5 DEF PurgeLog
  <2> HIDE DEF r
  <2>3. ApplyRecord(index, r) = Purge(index, id)
    BY <2>1 DEF ApplyRecord
  <2>4. ~walFailed => Sound(Purge(index, id))
    BY <1>1, <2>2, PurgeSound
  <2> QED
    BY <1>2, <2>1, <2>2, <2>3, <2>4
<1>6. ASSUME NEW id \in LogIds, SaveCommitted(id) PROVE ReplayInv'
  <2> DEFINE r == [kind |-> "committed", id |-> id]
  <2>1. r \in Records /\ r.kind = "committed" /\ r.id = id
    BY DEF Records
  <2>2. Write(Commit(index, id), "lazy", <<r>>) /\ Holds(index, id)
    BY <1>6 DEF SaveCommitted
  <2> HIDE DEF r
  <2>3. ApplyRecord(index, r) = Commit(index, id)
    BY <2>1 DEF ApplyRecord
  <2>4. ~walFailed => Sound(Commit(index, id))
    BY <1>1, <2>2, CommitSound
  <2> QED
    BY <1>2, <2>1, <2>2, <2>3, <2>4
<1>7. ASSUME NEW v \in 1..MaxTerm, SaveVote(v) PROVE ReplayInv'
  <2>1. Write(index, "fence", <<>>) /\ <<>> \in Seq(Records)
    BY <1>7 DEF SaveVote
  <2>2. A \o <<>> = A
    BY <1>0, ConcatEmptySeq
  <2> QED
    BY <1>0, <1>1, <2>1, <2>2, WriteReplays DEF A
<1> QED
  BY <1>3, <1>4, <1>5, <1>6, <1>7 DEF Calls

(* Every step keeps ReplayInv. *)
LEMMA ReplayStep ==
  ASSUME PrefixInv, ReplayInv, [Next]_vars
  PROVE  ReplayInv'
<1>0. /\ wal \in Seq(Records) /\ commands.frames \in Seq(Records) /\ Len(wal) \in Nat
      /\ walSynced \in Nat /\ NoCommands.frames = <<>>
      /\ walWriter = "none" => commands = NoCommands
      /\ wal \o <<>> = wal
  BY LenProperties, ConcatEmptySeq DEF PrefixInv, NoCommands
<1>1. CASE UNCHANGED <<index, wal, commands, walFailed, handle>>
  BY <1>1 DEF ReplayInv
<1>2. CASE Calls /\ ~CastVote
  BY <1>2, CallsReplay
<1>3. CASE TakeCommands
  <2>1. /\ ~walFailed /\ commands' = NoCommands /\ UNCHANGED <<index, handle>>
        /\ Replays(wal \o commands.frames)
    BY <1>3 DEF TakeCommands, ReplayInv
  <2>2. PICK n \in 0..Len(commands.frames) : wal' = wal \o SubSeq(commands.frames, 1, n)
    BY <1>3 DEF TakeCommands
  <2>3. wal' = SubSeq(wal \o commands.frames, 1, Len(wal) + n) /\ wal' \in Seq(Records)
    <3> DEFINE u == wal \o commands.frames
               w == wal \o SubSeq(commands.frames, 1, n)
               h == SubSeq(commands.frames, 1, n)
    <3>1. h \in Seq(Records) /\ Len(h) = n /\ Len(commands.frames) \in Nat
          /\ \A i \in 1..n : h[i] = commands.frames[i]
      BY <1>0, SubSeqProperties, LenProperties
    <3>2. /\ w \in Seq(Records) /\ Len(w) = Len(wal) + n
          /\ \A p \in 1..Len(wal) : w[p] = wal[p]
          /\ \A p \in (Len(wal) + 1)..(Len(wal) + n) : w[p] = h[p - Len(wal)] /\ p - Len(wal) \in 1..n
      BY <1>0, <3>1, ConcatRecords
    <3>3. /\ u \in Seq(Records) /\ Len(u) = Len(wal) + Len(commands.frames)
          /\ \A p \in 1..Len(wal) : u[p] = wal[p]
          /\ \A p \in (Len(wal) + 1)..(Len(wal) + Len(commands.frames)) : u[p] = commands.frames[p - Len(wal)]
      BY <1>0, ConcatRecords
    <3> HIDE DEF u, w, h
    <3>4. Len(wal) + n \in 0..Len(u) /\ Len(wal) + n \in Nat
      BY <1>0, <3>1, <3>3
    <3>5. /\ SubSeq(u, 1, Len(wal) + n) \in Seq(Records) /\ Len(SubSeq(u, 1, Len(wal) + n)) = Len(wal) + n
          /\ \A p \in 1..(Len(wal) + n) : SubSeq(u, 1, Len(wal) + n)[p] = u[p]
      BY <3>3, <3>4, SubSeqProperties
    <3>6. ASSUME NEW p \in 1..(Len(wal) + n) PROVE w[p] = u[p]
      <4>1. CASE p <= Len(wal)
        <5>1. p \in 1..Len(wal)
          BY <1>0, <4>1
        <5> QED
          BY <3>2, <3>3, <5>1
      <4>2. CASE p > Len(wal)
        <5>1. p \in (Len(wal) + 1)..(Len(wal) + n) /\ p \in (Len(wal) + 1)..(Len(wal) + Len(commands.frames))
          BY <1>0, <3>1, <4>2
        <5> QED
          BY <3>1, <3>2, <3>3, <5>1
      <4> QED
        BY <1>0, <4>1, <4>2
    <3>7. w = SubSeq(u, 1, Len(wal) + n)
      BY <3>2, <3>5, <3>6, SeqEqual
    <3> QED
      BY <2>2, <3>2, <3>7 DEF u, w
  <2>4. Len(wal) + n \in 0..Len(wal \o commands.frames) /\ wal \o commands.frames \in Seq(Records)
    BY <1>0, ConcatRecords
  <2>5. Replays(wal')
    BY <2>1, <2>3, <2>4, ReplaysPrefix
  <2>6. wal' \o commands'.frames = wal'
    BY <1>0, <2>1, <2>3, ConcatEmptySeq
  <2>7. ASSUME ~walFailed' PROVE wal' = wal \o commands.frames
    BY <1>3, <2>7, TakenWhole
  <2> QED
    BY <2>1, <2>5, <2>6, <2>7 DEF ReplayInv
<1>4. CASE AnswerCommands
  BY <1>1, <1>4 DEF AnswerCommands
<1>5. CASE FailCommands \/ RejectCommands
  <2>1. walFailed' = TRUE /\ UNCHANGED <<index, wal, handle>>
    <3>1. CASE FailCommands
      BY <3>1 DEF FailCommands
    <3>2. CASE RejectCommands
      BY <3>2 DEF RejectCommands
    <3> QED
      BY <1>5, <3>1, <3>2
  <2> QED
    BY <2>1 DEF ReplayInv
<1>6. CASE ExitLogWriter \/ CloseHost
  <2>1. handle' # "open" /\ UNCHANGED <<index, wal, commands, walFailed>>
    BY <1>6 DEF ExitLogWriter, CloseHost
  <2> QED
    BY <2>1 DEF ReplayInv
<1>7. CASE OpenLog
  <2>1. /\ walWriter = "none" /\ index' = Replay(wal) /\ UNCHANGED <<wal, commands>> /\ walFailed' = FALSE
    BY <1>7 DEF OpenLog, CanOpen
  <2>2. wal' \o commands'.frames = wal
    BY <1>0, <2>1
  <2>3. Replay(wal) \in Indexes
    <3>1. Replays(wal) /\ Len(wal) \in 0..Len(wal) /\ SubSeq(wal, 1, Len(wal)) = wal
      BY <1>0, SubSeqFull DEF ReplayInv
    <3> QED
      BY <3>1 DEF Replays, Sound
  <2> QED
    BY <2>1, <2>2, <2>3 DEF ReplayInv
<1>8. CASE DamageLog
  <2>1. /\ walWriter = "none" /\ handle = "closed" /\ wal' = <<>>
        /\ UNCHANGED <<index, commands, handle>>
    BY <1>8 DEF DamageLog
  <2>2. wal' \o commands'.frames = <<>>
    BY <1>0, <2>1
  <2> QED
    BY <2>1, <2>2, EmptySound DEF ReplayInv
<1>9. CASE Crash
  <2>1. index' = EmptyIndex /\ commands' = NoCommands /\ handle' = "closed"
    BY <1>9 DEF Crash, Kill, LosePower, LogMemoryLost
  <2>2. ASSUME wal' \in Seq(Records), Replays(wal') PROVE ReplayInv'
    <3>1. wal' \o commands'.frames = wal'
      BY <1>0, <2>1, <2>2, ConcatEmptySeq
    <3> QED
      BY <2>1, <2>2, <3>1, EmptySound DEF ReplayInv
  <2>3. CASE Kill
    BY <1>0, <2>2, <2>3 DEF Kill, ReplayInv
  <2>4. CASE LosePower
    <3>1. PICK n \in walSynced..Len(wal) : wal' = SubSeq(wal, 1, n)
      BY <2>4 DEF LosePower
    <3>2. n \in 0..Len(wal)
      BY <1>0
    <3>3. Replays(wal') /\ wal' \in Seq(Records)
      BY <1>0, <3>1, <3>2, ReplaysPrefix, InitialPart DEF ReplayInv
    <3> QED
      BY <2>2, <3>3
  <2> QED
    BY <1>9, <2>3, <2>4 DEF Crash
<1>10. CASE CastVote \/ RefuseLog \/ OpenLogFails \/ VoteStep
  BY <1>1, <1>10 DEF CastVote, RefuseLog, OpenLogFails, VoteStep, logVars
<1>11. ASSUME NEW g \in Groups \ {Mine}, NEW v \in 1..MaxTerm, OthersVote(g, v) PROVE ReplayInv'
  BY <1>1, <1>11 DEF OthersVote
<1>12. CASE UNCHANGED vars
  BY <1>1, <1>12 DEF vars, logVars
<1> QED
  BY <1>2, <1>3, <1>4, <1>5, <1>6, <1>7, <1>8, <1>9, <1>10, <1>11, <1>12 DEF Next, LogWriter

(* What replays is not rejected. *)
LEMMA ReplaysAccepted ==
  ASSUME NEW recs \in Seq(Records), Replays(recs)
  PROVE  ~Rejected(recs) /\ Replay(recs).committed.index <= LastLogId(Replay(recs)).index
<1>1. Len(recs) \in Nat /\ DOMAIN recs = 1..Len(recs) /\ SubSeq(recs, 1, Len(recs)) = recs
  BY LenProperties, SubSeqFull
<1>2. Len(recs) \in 0..Len(recs)
  BY <1>1
<1>3. Sound(Replay(recs))
  BY <1>1, <1>2 DEF Replays
<1>4. ASSUME NEW i \in DOMAIN recs, recs[i].kind = "entry"
      PROVE  Admits(Replay(SubSeq(recs, 1, i - 1)), recs[i].id.index)
  <2>1. i \in 0..Len(recs) /\ i > 0
    BY <1>1
  <2> QED
    BY <1>4, <2>1 DEF Replays
<1> QED
  BY <1>3, <1>4 DEF Rejected, Sound

(* While the writer is healthy the in-memory index is what a replay of the *)
(* log and of the queued frames would rebuild, and whatever prefix a power *)
(* loss leaves replays without a hole and with its committed id in reach   *)
(* (log_store.rs: append, truncate_after, purge and save_committed against *)
(* the Replay of recover).                                                 *)
THEOREM IndexAgreesWithWal == Spec => []IndexInv
<1>1. Init => KindInv /\ ReplayInv
  BY KindInit, ReplayInit
<1>2. GroupInv /\ KindInv /\ ReplayInv /\ [Next]_vars => KindInv' /\ ReplayInv'
  BY KindStep, ReplayStep DEF GroupInv
<1>3. ASSUME GroupInv, KindInv, ReplayInv PROVE IndexInv
  <2>1. TypeOK
    <3>1. \A i \in DOMAIN index.entries : i \in 0..MaxIndex /\ index.entries[i] \in 1..MaxTerm
      BY <1>3, IndexFacts DEF ReplayInv
    <3>2. {index.purged, index.committed} \subseteq LogIds \cup {NoId}
      BY <1>3, IndexFacts DEF ReplayInv
    <3>3. /\ wal \in Seq(Records) /\ 0 <= kept /\ kept <= walSynced /\ walSynced <= Len(wal)
      BY <1>3 DEF GroupInv, PrefixInv
    <3>4. /\ handle \in {"closed", "open", "closing"} /\ walWriter \in {"none", "idle", "written"}
          /\ caller \in {"idle", "marker", "fence", "cast"} /\ casting \in 0..MaxTerm
          /\ follows \in [1..MaxTerm -> Nat]
      BY <1>3 DEF GroupInv, CallInv, FollowInv
    <3>5. {walFailed, lostLog} \subseteq BOOLEAN
      BY <1>3, Zenon DEF KindInv
    <3> QED
      BY <1>3, <3>1, <3>2, <3>3, <3>4, <3>5 DEF KindInv, TypeOK
  <2>2. IndexIsReplay
    BY <1>3 DEF ReplayInv, IndexIsReplay, Accepted
  <2>3. EveryPrefixReplays
    <3> SUFFICES ASSUME NEW n \in walSynced..Len(wal)
                 PROVE  LET left == SubSeq(wal, 1, n)
                        IN  /\ ~Rejected(left)
                            /\ Replay(left).committed.index <= LastLogId(Replay(left)).index
      BY DEF EveryPrefixReplays
    <3>1. wal \in Seq(Records) /\ walSynced \in Nat /\ Len(wal) \in Nat /\ Replays(wal)
      BY <1>3, LenProperties DEF GroupInv, PrefixInv, ReplayInv
    <3>2. n \in 0..Len(wal)
      BY <3>1
    <3>3. SubSeq(wal, 1, n) \in Seq(Records) /\ Replays(SubSeq(wal, 1, n))
      BY <3>1, <3>2, InitialPart, ReplaysPrefix
    <3> QED
      BY <3>3, ReplaysAccepted
  <2> QED
    BY <2>1, <2>2, <2>3 DEF IndexInv
<1> QED
  BY <1>1, <1>2, <1>3, GroupInvHolds, PTL DEF Spec

=============================================================================
