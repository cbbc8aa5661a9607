---------------------------- MODULE GoalRequests ----------------------------
(***************************************************************************)
(* The HTTP requests that write a goal's row: creating it, submitting its  *)
(* proof, and every request that ends in recomputeConfidence (a comment, a *)
(* reaction, the removal of a reaction: here "rescores").  Requests run in *)
(* several API processes and share nothing but the database and the queue, *)
(* so each query is a step of its own.                                     *)
(*                                                                         *)
(* repository.save(entity) of TypeORM, which is outside src, is two        *)
(* queries: it SELECTs the row with the relations the entity was loaded    *)
(* with, compares, and UPDATEs what differs, with no lock and no test of   *)
(* the old value.  Only the status column and the proofs are followed      *)
(* here.  A proof of the goal that the entity does not contain is to be    *)
(* detached from it: its manifestationId would become NULL, the column     *)
(* refuses that, and the save throws without having changed anything.      *)
(***************************************************************************)
EXTENDS DeadlineJobs

CONSTANTS
    Submits,            \* requests that submit a proof
    Rescores,           \* requests that end in recomputeConfidence
    MaxDeadline,        \* bound on the deadlines a user may choose
    RequestLifetime     \* ticks after which a request no longer writes

ASSUME RequestsAssumption ==
    /\ Submits \subseteq Requests
    /\ Rescores \subseteq Requests
    /\ Submits \cap Rescores = {}
    /\ MaxDeadline \in Nat
    /\ RequestLifetime \in 1..Grace

VARIABLES
    creating,   \* goals saved whose deadline job is not scheduled yet
    req         \* per request: where it is and the entity it holds

requestVars == <<creating, req>>

\* The entity a request holds: its status, and whether a proof is among the
\* proofs it was loaded with.
ReqPcs == {"idle", "check", "insert", "mark", "score", "write", "done"}
ReqRows == [pc : ReqPcs, goal : Goals \cup {NoGoal},
            entity : Statuses, proven : BOOLEAN, start : 0..MaxTime]

RequestsTypeOK ==
    /\ creating \subseteq Goals
    /\ req \in [Submits \cup Rescores -> ReqRows]

FreshRequest == [pc |-> "idle", goal |-> NoGoal, entity |-> "none",
                 proven |-> FALSE, start |-> 0]
OverRequest == [FreshRequest EXCEPT !.pc = "done"]

RequestsInit ==
    /\ creating = {}
    /\ req = [r \in Submits \cup Rescores |-> FreshRequest]

InFlight(r) == req[r].pc \notin {"idle", "done"}

Rest(r) == req' = [req EXCEPT ![r] = OverRequest]

-----------------------------------------------------------------------------
CreateManifestation(g, d) ==
    /\ Ahead(d)
    /\ InsertManifestation(g, d)
    /\ creating' = creating \cup {g}
    /\ UNCHANGED <<now, faults, jobVars, effectVars, req>>

ScheduleJobs(g) ==
    /\ g \in creating
    /\ AddDeadlineJob(g)
    /\ creating' = creating \ {g}
    /\ UNCHANGED <<now, storeVars, faults, lock, run, effectVars, req>>

\* BullMQ is not ready and the function returns, an add throws (that of a
\* reminder comes first), or the process dies after the row is saved.
LeaveUnscheduled(g) ==
    /\ g \in creating
    /\ Suffer("queue")
    /\ creating' = creating \ {g}
    /\ UNCHANGED <<now, storeVars, jobVars, effectVars, req>>

-----------------------------------------------------------------------------
\* findById, with the goal's proofs.
Holds(r, pc, g) ==
    req' = [req EXCEPT ![r] = [pc |-> pc, goal |-> g, entity |-> status[g],
                               proven |-> HasProof(g), start |-> now]]

\* submitProof: findById and the guards on what it returned.  A request the
\* guards refuse changes nothing.
StartSubmit(r, g) ==
    /\ req[r].pc = "idle"
    /\ StillPending(g)
    /\ Ahead(deadline[g])
    /\ Holds(r, "check", g)
    /\ UNCHANGED <<now, storeVars, faults, jobVars, effectVars, creating>>

\* findByManifestationId, before the upload.
CheckExisting(r) ==
    /\ req[r].pc = "check"
    /\ IF HasProof(req[r].goal)
       THEN Rest(r)
       ELSE req' = [req EXCEPT ![r].pc = "insert"]
    /\ UNCHANGED <<now, storeVars, faults, jobVars, effectVars, creating>>

\* A slip: the insert is not awaited, and fails unnoticed.
UnawaitedStore(r) ==
    /\ req[r].pc = "insert"
    /\ req' = [req EXCEPT
                 ![r] = [@ EXCEPT !.pc = "mark", !.entity = "achieved"]]
    /\ UNCHANGED <<now, storeVars, faults, jobVars, effectVars, creating>>

\* After the upload: the row is inserted unless the unique index refuses it;
\* the entity read at the start becomes ACHIEVED in memory.
StoreProof(r) ==
    /\ req[r].pc = "insert"
    /\ ProofIsUnique(req[r].goal)
    /\ InsertProof(req[r].goal, r)
    /\ req' = [req EXCEPT
                 ![r] = [@ EXCEPT !.pc = "mark", !.entity = "achieved"]]
    /\ UNCHANGED <<now, faults, jobVars, effectVars, creating>>

DuplicateProof(r) ==
    /\ req[r].pc = "insert"
    /\ ~ProofIsUnique(req[r].goal)
    /\ Rest(r)
    /\ UNCHANGED <<now, storeVars, faults, jobVars, effectVars, creating>>

-----------------------------------------------------------------------------
\* recomputeConfidence: findById.
StartRescore(r, g) ==
    /\ req[r].pc = "idle"
    /\ status[g] # "none"
    /\ Holds(r, "score", g)
    /\ UNCHANGED <<now, storeVars, faults, jobVars, effectVars, creating>>

-----------------------------------------------------------------------------
\* save(entity): submitProof's of the goal it takes for achieved ("mark"), and
\* recomputeConfidence's of the goal it read ("score").
Saves(r) == req[r].pc \in {"mark", "score"}

Detaches(r) == HasProof(req[r].goal) /\ ~req[r].proven

\* The SELECT of save finds a proof the entity does not contain.  submitProof
\* itself has just inserted one, so its save always ends here: what follows
\* it in the code, a recomputeConfidence, is never reached.
SaveRejected(r) ==
    /\ Saves(r)
    /\ Detaches(r)
    /\ Rest(r)
    /\ UNCHANGED <<now, storeVars, faults, jobVars, effectVars, creating>>

\* The row has the entity's status, it is not written.
SaveFindsSame(r) ==
    /\ Saves(r)
    /\ ~Detaches(r)
    /\ status[req[r].goal] = req[r].entity
    /\ Rest(r)
    /\ UNCHANGED <<now, storeVars, faults, jobVars, effectVars, creating>>

SaveFindsChange(r) ==
    /\ Saves(r)
    /\ ~Detaches(r)
    /\ status[req[r].goal] # req[r].entity
    /\ req' = [req EXCEPT ![r].pc = "write"]
    /\ UNCHANGED <<now, storeVars, faults, jobVars, effectVars, creating>>

\* The UPDATE of save.
SaveWrites(r) ==
    /\ req[r].pc = "write"
    /\ WriteStatus(req[r].goal, req[r].entity)
    /\ Rest(r)
    /\ UNCHANGED <<now, faults, jobVars, effectVars, creating>>

\* An await throws, or the process dies: nothing already written is undone.
Abandon(r) ==
    /\ InFlight(r)
    /\ Rest(r)
    /\ UNCHANGED <<now, storeVars, faults, jobVars, effectVars, creating>>

RequestStep(r) ==
    \/ CheckExisting(r) \/ StoreProof(r) \/ DuplicateProof(r)
    \/ SaveRejected(r)
    \/ SaveFindsSame(r) \/ SaveFindsChange(r) \/ SaveWrites(r)

RequestsNext ==
    \/ \E g \in Goals :
         \/ \E d \in 1..MaxDeadline : CreateManifestation(g, d)
         \/ ScheduleJobs(g)
         \/ LeaveUnscheduled(g)
         \/ \E r \in Submits : StartSubmit(r, g)
         \/ \E r \in Rescores : StartRescore(r, g)
    \/ \E r \in Submits \cup Rescores : RequestStep(r) \/ Abandon(r)

\* No request outlives RequestLifetime: the clock waits for it to end.
RequestsInTime ==
    \A r \in Submits \cup Rescores :
      InFlight(r) => now < req[r].start + RequestLifetime

=============================================================================
