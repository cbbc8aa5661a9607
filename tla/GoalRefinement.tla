--------------------------- MODULE GoalRefinement ---------------------------
(***************************************************************************)
(* GoalLifecycle implements GoalContract while no rescore interferes.      *)
(***************************************************************************)
EXTENDS GoalLifecycle

EvidenceOf(g) ==
    IF TimelyProof(g) THEN "timely" ELSE IF HasProof(g) THEN "late" ELSE "none"

ToldOf(g) ==
    IF notices[g]["achieved"] > 0 THEN "achieved"
    ELSE IF notices[g]["failed"] > 0 THEN "failed" ELSE "none"

Contract ==
    INSTANCE GoalContract WITH
      phase <- status,
      evidence <- [g \in Goals |-> EvidenceOf(g)],
      due <- [g \in Goals |-> Overdue(g)],
      counted <- [g \in Goals |-> streaks[g] > 0],
      told <- [g \in Goals |-> ToldOf(g)]

\* Requests, retries, stalls, lock expiry and crashes, in any order, do to a
\* goal only what its owner may expect (Rescores = {}).
KeepsContract == Contract!ContractSpec

=============================================================================
