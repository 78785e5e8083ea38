------------------------------- MODULE MCLane -------------------------------
(* Two workers and a lane of one place: three items fill the place, keep   *)
(* both workers busy and make a sender wait; two panics can take both      *)
(* workers of a generation.                                                *)
EXTENDS Lane

CONSTANTS i1, i2, i3, w1, w2
=============================================================================
