---------------------------- MODULE MCRecovery -----------------------------
(* Four frames and three crashes: one frame is delivered by a replay and   *)
(* lost by the next crash, another takes its offset, and two follow.       *)
EXTENDS Recovery
=============================================================================
