---------------------------- MODULE GoalContract ----------------------------
(***************************************************************************)
(* What the owner of a goal may rely on, without requests, jobs, locks or  *)
(* a database: a goal is opened, may be proved once, falls due, is settled *)
(* once by its evidence, and is counted and announced at most once.        *)
(***************************************************************************)
CONSTANT Goals

VARIABLES
    phase,      \* "none", "pending", "achieved" or "failed"
    evidence,   \* "none", "timely" or "late"
    due,        \* are the deadline and the grace period over?
    counted,    \* did the goal's end reach the owner's streak?
    told        \* what the owner was told of the goal's end

contractVars == <<phase, evidence, due, counted, told>>

ContractInit ==
    /\ phase = [g \in Goals |-> "none"]
    /\ evidence = [g \in Goals |-> "none"]
    /\ due = [g \in Goals |-> FALSE]
    /\ counted = [g \in Goals |-> FALSE]
    /\ told = [g \in Goals |-> "none"]

Open(g) ==
    /\ phase[g] = "none"
    /\ phase' = [phase EXCEPT ![g] = "pending"]
    /\ UNCHANGED <<evidence, due, counted, told>>

Prove(g) ==
    /\ phase[g] # "none"
    /\ evidence[g] = "none"
    /\ ~due[g]
    /\ \E e \in {"timely", "late"} : evidence' = [evidence EXCEPT ![g] = e]
    /\ UNCHANGED <<phase, due, counted, told>>

\* The clock is everybody's: several goals may fall due at once.
FallDue ==
    /\ \E S \in SUBSET {g \in Goals : phase[g] # "none"} :
         due' = [g \in Goals |-> due[g] \/ g \in S]
    /\ UNCHANGED <<phase, evidence, counted, told>>

Achieve(g) ==
    /\ phase[g] = "pending"
    /\ due[g]
    /\ evidence[g] = "timely"
    /\ phase' = [phase EXCEPT ![g] = "achieved"]
    /\ UNCHANGED <<evidence, due, counted, told>>

Fail(g) ==
    /\ phase[g] = "pending"
    /\ due[g]
    /\ evidence[g] # "timely"
    /\ phase' = [phase EXCEPT ![g] = "failed"]
    /\ UNCHANGED <<evidence, due, counted, told>>

Count(g) ==
    /\ phase[g] \in {"achieved", "failed"}
    /\ due[g]
    /\ ~counted[g]
    /\ counted' = [counted EXCEPT ![g] = TRUE]
    /\ UNCHANGED <<phase, evidence, due, told>>

Tell(g) ==
    /\ counted[g]
    /\ told[g] = "none"
    /\ told' = [told EXCEPT ![g] = phase[g]]
    /\ UNCHANGED <<phase, evidence, due, counted>>

ContractNext ==
    \/ FallDue
    \/ \E g \in Goals : \/ Open(g) \/ Prove(g) \/ Achieve(g) \/ Fail(g)
                        \/ Count(g) \/ Tell(g)

ContractSpec == ContractInit /\ [][ContractNext]_contractVars

=============================================================================
