----------------------------- MODULE MCServices -----------------------------
(* The instance of Services that TLC checks. *)
EXTENDS Services, TLC

\* Ticks before the deadline.
LeadTimes == [k \in {"1d", "1h"} |-> IF k = "1d" THEN 2 ELSE 1]

\* A client begins with the first page, or asks for one below it.
FirstPages == {-1, 1}

\* Sound: in each instance the calls, rows and processes that are exchanged are
\* of one kind, and no property names one.  (A goal and a remark of Life are of
\* two kinds, so the remark is c4.)
Symmetry == Permutations(Requests) \cup Permutations(Procs)

=============================================================================
