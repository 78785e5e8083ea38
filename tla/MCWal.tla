------------------------------- MODULE MCWal -------------------------------
(* A segment holds four units and frames take one or three, so that an     *)
(* append may or must rotate and a frame may end a segment; two            *)
(* crashes let what a kill leaves in the page cache be lost by the next    *)
(* power loss.                                                             *)
EXTENDS Wal
=============================================================================
