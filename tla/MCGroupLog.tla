----------------------------- MODULE MCGroupLog -----------------------------
(* Two groups share a vote log of one-slot sectors, so that a batch of     *)
(* both their votes can be torn; three writes let a truncation, a purge, a *)
(* commit or a vote come between two appends.                              *)
EXTENDS GroupLog

TwoGroups == {1, 2}
=============================================================================
