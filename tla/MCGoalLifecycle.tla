--------------------------- MODULE MCGoalLifecycle ---------------------------
(***************************************************************************)
(* The instances of GoalLifecycle that TLC checks.                         *)
(***************************************************************************)
EXTENDS GoalRefinement, TLC

\* How many failures of each kind an instance may suffer.
BudgetOf(db, redis, queue, crash, stall) ==
    [k \in FaultKinds |->
       CASE k = "db" -> db [] k = "redis" -> redis [] k = "queue" -> queue
         [] k = "crash" -> crash [] k = "stall" -> stall]

AnyOneFault == BudgetOf(1, 1, 1, 1, 1)
WorkerFaults == BudgetOf(2, 1, 0, 1, 1)
DbFaults == BudgetOf(2, 0, 0, 0, 0)
OneDbFault == BudgetOf(1, 0, 0, 0, 0)
OneCrash == BudgetOf(0, 0, 0, 1, 0)
OneQueueFault == BudgetOf(0, 0, 1, 0, 0)
NoFault == BudgetOf(0, 0, 0, 0, 0)

Symmetry == Permutations(Submits) \cup Permutations(Runs)

=============================================================================
