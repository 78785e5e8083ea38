--------------------------- MODULE MCGroupCommit ---------------------------
(* Three requests: two windows can overlap while a third frame arrives     *)
(* between the capture of one flush and its sync.                          *)
EXTENDS GroupCommit

CONSTANTS r1, r2, r3
Requests == {r1, r2, r3}
=============================================================================
