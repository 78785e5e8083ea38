--------------------------- MODULE MCPublication ---------------------------
(* Two frames let a record be put back by one publish while a cut that has *)
(* already drained the buffers carries the other.  Wide: a counter that    *)
(* ends at three cuts lets a cut run, a second wait in the slot and a      *)
(* third be captured and coalesced, and reaches the exhausted counter.     *)
(* Full: a slot that holds a record takes no second cut.  One panic sets   *)
(* the latch.                                                              *)
EXTENDS Publication

Wide == [reserved |-> 4, ceiling |-> 1]
Full == [reserved |-> 2, ceiling |-> 0]
SmallSites == {Wide, Full}
=============================================================================
