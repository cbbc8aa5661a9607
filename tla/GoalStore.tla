------------------------------ MODULE GoalStore ------------------------------
(***************************************************************************)
(* The PostgreSQL rows that the life of a goal turns on, the wall clock    *)
(* they are compared with, and the budget of failures an instance may      *)
(* suffer.  A goal is a row of table "manifestation"; of its columns only  *)
(* status and deadline decide anything here (the confidence score, the     *)
(* texts and the achievedAt/failedAt stamps are never read back by the     *)
(* code modelled in this family of modules).                               *)
(***************************************************************************)
EXTENDS Integers, FiniteSets

CONSTANTS
    Goals,      \* the goals that may ever be created
    Requests,   \* HTTP requests, each used at most once
    MaxTime,    \* bound on the clock
    Grace,      \* ticks between a deadline and its check (5 days in the code)
    Budget      \* how many failures of each kind may happen

FaultKinds == {"db", "redis", "queue", "crash", "stall"}

ASSUME StoreAssumption ==
    /\ MaxTime \in Nat
    /\ Grace \in Nat \ {0}
    /\ Budget \in [FaultKinds -> Nat]

VARIABLES
    now,        \* the clock, in ticks much longer than a query
    status,     \* manifestation.status, "none" while there is no row
    deadline,   \* manifestation.deadline
    proofs,     \* rows of table "proof"
    faults      \* what is left of Budget

storeVars == <<status, deadline, proofs>>

Settled == {"achieved", "failed"}
Statuses == {"none", "pending"} \cup Settled
ProofRows == [goal : Goals, req : Requests, at : 0..MaxTime]

StoreTypeOK ==
    /\ now \in 0..MaxTime
    /\ status \in [Goals -> Statuses]
    /\ deadline \in [Goals -> Nat]
    /\ proofs \subseteq ProofRows
    /\ faults \in [FaultKinds -> Nat]

StoreInit ==
    /\ now = 0
    /\ status = [g \in Goals |-> "none"]
    /\ deadline = [g \in Goals |-> 0]
    /\ proofs = {}
    /\ faults = Budget

\* One failure of the given kind happens, if the budget allows it.
Suffer(kind) ==
    /\ faults[kind] > 0
    /\ faults' = [faults EXCEPT ![kind] = @ - 1]

-----------------------------------------------------------------------------
\* A slip: every goal passes the "is it still pending?" test.
StillPendingAlways(g) == status[g] # "none"

StillPending(g) == status[g] = "pending"

\* A slip: the test forgets that its argument must lie ahead.
AheadOrPast(d) == d \in Nat

Ahead(d) == d > now

HasProof(g) == \E p \in proofs : p.goal = g

TimelyProof(g) == \E p \in proofs : p.goal = g /\ p.at <= deadline[g]

\* A slip: the job is due at the deadline, without the grace period.
DueAtDeadline(g) == deadline[g]

DeadlineCheckAt(g) == deadline[g] + Grace

\* A slip: a proof stored exactly at the deadline does not count.
StrictVerdictFor(g) ==
    IF \E p \in proofs : p.goal = g /\ p.at < deadline[g]
    THEN "achieved" ELSE "failed"

VerdictFor(g) == IF TimelyProof(g) THEN "achieved" ELSE "failed"

-----------------------------------------------------------------------------
InsertManifestation(g, d) ==
    /\ status[g] = "none"
    /\ status' = [status EXCEPT ![g] = "pending"]
    /\ deadline' = [deadline EXCEPT ![g] = d]
    /\ UNCHANGED proofs

\* A slip: the unique index on proof.manifestationId is missing.
NoUniqueIndex(g) == TRUE

ProofIsUnique(g) == ~HasProof(g)

InsertProof(g, r) ==
    /\ proofs' = proofs \cup {[goal |-> g, req |-> r, at |-> now]}
    /\ UNCHANGED <<status, deadline>>

\* UPDATE manifestation SET status = s WHERE id = g: no test of the old value.
WriteStatus(g, s) ==
    /\ status' = [status EXCEPT ![g] = s]
    /\ UNCHANGED <<deadline, proofs>>

\* Time passes only in the composition, which knows what bounds it.
Advance ==
    /\ now < MaxTime
    /\ now' = now + 1

=============================================================================
