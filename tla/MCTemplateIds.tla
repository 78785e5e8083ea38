--------------------------- MODULE MCTemplateIds ---------------------------
(* Five kinds of site.  Shared: two receivers compete for blocks, a store  *)
(* call may fail.  Upgraded: they ran before there was a high-water and    *)
(* each starts twice.  Unauthorised: they start once and may not bootstrap.*)
(* Tampered: one receiver whose high-water is deleted or rolled back.      *)
(* Local: one receiver on a store without conditional writes.              *)
EXTENDS TemplateIds, TLC

CONSTANTS r1, r2

Shared == [receivers |-> {r1, r2}, authorized |-> {r1, r2}, conditional |-> TRUE, legacy |-> {},
           maxId |-> 5, block |-> 2, readyBlocks |-> 1, starts |-> 1, faults |-> 1, tampers |-> 0]
Upgraded == [Shared EXCEPT !.legacy = {1}, !.maxId = 4, !.starts = 2, !.faults = 0]
Unauthorised == [Upgraded EXCEPT !.authorized = {}, !.starts = 1]
Tampered(r) == [Shared EXCEPT !.receivers = {r}, !.authorized = {r}, !.maxId = 6,
                              !.readyBlocks = 2, !.starts = 3, !.tampers = 1]
Local(r) == [Shared EXCEPT !.receivers = {r}, !.authorized = {r}, !.conditional = FALSE,
                           !.maxId = 7, !.starts = 3]

SmallSites ==
  {Shared, Upgraded, Unauthorised} \cup {Tampered(r) : r \in {r1, r2}} \cup {Local(r) : r \in {r1, r2}}
ReceiverSymmetry == Permutations(Receiver)
=============================================================================
