------------------------------ MODULE MCVoteLog -----------------------------
(* Three groups and sectors of two slots: a batch of one or two votes fits *)
(* a sector, a batch of three spans two.                                   *)
EXTENDS VoteLog

ThreeGroups == {1, 2, 3}
=============================================================================
