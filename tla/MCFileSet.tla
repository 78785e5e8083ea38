----------------------------- MODULE MCFileSet -----------------------------
(* Eight kinds of partition.  Busy: two compactors, three flush files,     *)
(* each put twice, no query.  Erasing: the same with two files, the row of *)
(* one to be erased, and no fault; Retried: a fault, and one put each.     *)
(* Local: a store without compare-and-swap, two confirming rounds.  Then a *)
(* query over one compactor that may fail, over a local partition that is  *)
(* being erased, over a local one whose compactor commits often enough to  *)
(* overtake every listing, and over two compactors.                        *)
EXTENDS FileSet, TLC

Busy == [flush |-> Name, erased |-> {}, compactors |-> Compactor, cas |-> TRUE, rounds |-> 1,
         puts |-> 2, outputs |-> 3, faults |-> 1, attempts |-> 2,
         listings |-> 2, queries |-> 0]
Erasing(f, e) == [Busy EXCEPT !.flush = {f, e}, !.erased = {e}, !.faults = 0]
Retried(f, e) == [Erasing(f, e) EXCEPT !.puts = 1, !.faults = 1]
Local(e, c) == [Busy EXCEPT !.erased = {e}, !.compactors = {c}, !.cas = FALSE, !.rounds = 2,
                            !.outputs = 4, !.faults = 2]
Queried(c) == [Busy EXCEPT !.compactors = {c}, !.puts = 1, !.queries = 1]
QueriedLocal(f, e, c) ==
    [Local(e, c) EXCEPT !.flush = {f, e}, !.rounds = 1, !.outputs = 3, !.faults = 0,
                        !.queries = 1]
Overtaken(e, c) ==
    [Local(e, c) EXCEPT !.puts = 1, !.rounds = 1, !.outputs = 3, !.faults = 0, !.queries = 1]
QueriedPeers(F) == [Busy EXCEPT !.flush = F, !.puts = 1, !.faults = 0, !.queries = 1]

SmallSites ==
    {Busy}
      \cup {QueriedPeers(F) : F \in {G \in SUBSET Name : Cardinality(G) = 2}}
      \cup {Queried(c) : c \in Compactor}
      \cup UNION {{Erasing(p[1], p[2]), Retried(p[1], p[2])} :
                     p \in {q \in Name \X Name : q[1] # q[2]}}
      \cup UNION {{Local(e, c), Overtaken(e, c)} : e \in Name, c \in Compactor}
      \cup {QueriedLocal(p[1], p[2], c) :
               p \in {q \in Name \X Name : q[1] # q[2]}, c \in Compactor}

Symmetry == Permutations(Name) \cup Permutations(Compactor)
=============================================================================
