----------------------------- MODULE DurableLog -----------------------------
(***************************************************************************)
(* What a group's log promises openraft, whatever runs underneath: a       *)
(* sequence of records that only grows at its end, and loses only a suffix *)
(* no answer and no recovery ever covered, unless its disk is lost.        *)
(***************************************************************************)
EXTENDS Naturals, Sequences, SequencesExt

VARIABLES
  records,  \* the records accepted, in order
  kept,     \* how many of them must survive every fault
  wiped     \* whether the disk under the log was lost

durableVars == <<records, kept, wiped>>

Init == records = <<>> /\ kept = 0 /\ wiped = FALSE

\* A write is accepted: it is readable, and not yet durable.
Accept ==
  /\ IsPrefix(records, records')
  /\ UNCHANGED <<kept, wiped>>

\* An answer, or a recovery that exposes the log, covers a longer prefix.
Keep ==
  /\ kept' \in kept..Len(records)
  /\ UNCHANGED <<records, wiped>>

\* A fault takes a suffix that nothing covered; the recovery after it covers the rest.
Forget ==
  /\ IsPrefix(records', records)
  /\ kept <= Len(records')
  /\ kept' \in kept..Len(records')
  /\ UNCHANGED wiped

\* The disk itself is lost, once, and every promise with it.
Wipe ==
  /\ ~wiped /\ wiped' = TRUE
  /\ records' = <<>> /\ kept' = 0

Next == Accept \/ Keep \/ Forget \/ Wipe

Spec == Init /\ [][Next]_durableVars
=============================================================================
