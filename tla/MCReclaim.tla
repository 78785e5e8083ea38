----------------------------- MODULE MCReclaim -----------------------------
(* Six kinds of root.  Shared: two tenants fill three segments, nothing   *)
(* fails.  Faulty: one tenant fills three segments, a call fails and a     *)
(* snapshot is lost.  Crowded: two tenants, one planned row, the same      *)
(* faults.  Overlapping: the file halves of two passes run at once, two    *)
(* unlinks each.  Restarted: three faults, so that a slot write fails, the *)
(* process is killed and restarted, and then power is lost.  Upgraded: a   *)
(* root of version-1 segments whose callers change mode.                   *)
EXTENDS Reclaim, TLC

CONSTANTS a, b

Shared == [tenants |-> {a, b}, cap |-> 1, modes |-> {"Known"}, legacy |-> 0, halves |-> {1},
           frames |-> 3, segments |-> 3, faults |-> 0, lost |-> 0]
Faulty(t) == [Shared EXCEPT !.tenants = {t}, !.faults = 1, !.lost = 1]
Crowded == [Shared EXCEPT !.frames = 2, !.faults = 1, !.lost = 1]
Overlapping(t) == [Crowded EXCEPT !.tenants = {t}, !.cap = 2, !.halves = {1, 2}]
Restarted(t) == [Shared EXCEPT !.tenants = {t}, !.frames = 2, !.faults = 3]
Upgraded(t) == [Crowded EXCEPT !.tenants = {t}, !.modes = {"Known", "NoConsumer"},
                               !.legacy = 2, !.faults = 2]

SmallSites ==
  {Shared, Crowded}
    \cup UNION {{Faulty(t), Overlapping(t), Restarted(t), Upgraded(t)} : t \in {a, b}}
TenantSymmetry == Permutations({a, b})
=============================================================================
