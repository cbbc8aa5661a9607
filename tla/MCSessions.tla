----------------------------- MODULE MCSessions -----------------------------
(***************************************************************************)
(* The instance of Sessions that TLC checks.                               *)
(***************************************************************************)
EXTENDS Sessions, TLC

\* Calls of a kind do the same.
Symmetry == Permutations(Refreshes)

=============================================================================
