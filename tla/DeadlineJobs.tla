---------------------------- MODULE DeadlineJobs ----------------------------
(***************************************************************************)
(* The delayed job of each goal in the BullMQ queue                        *)
(* "goal-deadline-queue", the worker process that runs it, the Redis lock  *)
(* "job-lock:<queue>:<job id>" around each run, and finalizeByDeadline.    *)
(*                                                                         *)
(* A run of a job is one of the worker's concurrent slots.  Each await of  *)
(* the processor that touches shared state ends one action, so that other  *)
(* runs, requests, the lock's expiry and a crash may come in between.      *)
(***************************************************************************)
EXTENDS GoalStore

CONSTANTS
    Runs,       \* slots of the worker (concurrency 10 in the code)
    NoRun,      \* "the job has no owner"
    NoGoal,     \* "the slot or request has no goal"
    Attempts,   \* attempts of a job (5 in the code)
    MaxStalled  \* times a job may stall (BullMQ's default, 1)

ASSUME JobsAssumption ==
    /\ NoRun \notin Runs
    /\ NoGoal \notin Goals
    /\ Attempts \in Nat \ {0}
    /\ MaxStalled \in Nat

VARIABLES
    job,        \* per goal: its deadline job in Redis
    lock,       \* per goal: is the Redis lock key set?  (its value is '1')
    run,        \* per slot: the processor call in progress
    streaks,    \* per goal: calls of updateStreak that took effect for it
    notices     \* per goal and verdict: notifications stored

jobVars == <<job, lock, run>>
effectVars == <<streaks, notices>>

JobStates == {"none", "waiting", "active", "done", "dead"}
RunPcs == {"idle", "lock", "txn", "streak", "notify", "release"}
Verdicts == {"ignored"} \cup Settled
JobRows == [state : JobStates, run : Runs \cup {NoRun},
            attempts : Nat, stalls : Nat]
RunRows == [pc : RunPcs, goal : Goals \cup {NoGoal},
            verdict : Verdicts, ok : BOOLEAN]

JobsTypeOK ==
    /\ job \in [Goals -> JobRows]
    /\ lock \in [Goals -> BOOLEAN]
    /\ run \in [Runs -> RunRows]
    /\ streaks \in [Goals -> Nat]
    /\ notices \in [Goals -> [Settled -> Nat]]

NoJob == [state |-> "none", run |-> NoRun, attempts |-> 0, stalls |-> 0]
IdleRun == [pc |-> "idle", goal |-> NoGoal, verdict |-> "ignored", ok |-> TRUE]

JobsInit ==
    /\ job = [g \in Goals |-> NoJob]
    /\ lock = [g \in Goals |-> FALSE]
    /\ run = [w \in Runs |-> IdleRun]
    /\ streaks = [g \in Goals |-> 0]
    /\ notices = [g \in Goals |-> [v \in Settled |-> 0]]

-----------------------------------------------------------------------------
\* deadlineQueue.add: the job waits until the deadline plus the grace period.
AddDeadlineJob(g) == job' = [job EXCEPT ![g] = [NoJob EXCEPT !.state = "waiting"]]

\* A slip: the failed attempt is the last one whatever "attempts" says.
NeverRetry(j) == FALSE

RetryLeft(j) == j.attempts + 1 < Attempts

\* A slip: the failed job keeps its owner.
KeepsOwner(j) ==
    [state |-> IF RetryLeft(j) THEN "waiting" ELSE "dead",
     run |-> j.run, attempts |-> j.attempts + 1, stalls |-> j.stalls]

\* What BullMQ does with a job whose processor threw.
AfterFailure(j) ==
    [state |-> IF RetryLeft(j) THEN "waiting" ELSE "dead",
     run |-> NoRun, attempts |-> j.attempts + 1, stalls |-> j.stalls]

AfterSuccess(j) == [j EXCEPT !.state = "done", !.run = NoRun]

\* The processor of slot w returns (ok) or throws.  BullMQ moves the job only
\* for the slot that still owns it.
Finish(w, ok) ==
    LET g == run[w].goal IN
    /\ run' = [run EXCEPT ![w] = IdleRun]
    /\ job' = IF job[g].run # w THEN job
              ELSE [job EXCEPT ![g] = IF ok THEN AfterSuccess(@)
                                            ELSE AfterFailure(@)]

Pick(w, g) ==
    /\ run[w].pc = "idle"
    /\ job[g].state = "waiting"
    /\ now >= DeadlineCheckAt(g)
    /\ run' = [run EXCEPT ![w] = [IdleRun EXCEPT !.pc = "lock", !.goal = g]]
    /\ job' = [job EXCEPT ![g] = [@ EXCEPT !.state = "active", !.run = w]]
    /\ UNCHANGED <<now, storeVars, faults, lock, effectVars>>

-----------------------------------------------------------------------------
\* SET lockKey '1' EX 120 NX
AcquireLock(w) ==
    LET g == run[w].goal IN
    /\ run[w].pc = "lock"
    /\ ~lock[g]
    /\ lock' = [lock EXCEPT ![g] = TRUE]
    /\ run' = [run EXCEPT ![w].pc = "txn"]
    /\ UNCHANGED <<now, storeVars, faults, job, effectVars>>

\* The key exists: the run is taken for a duplicate and returns successfully.
SkipHeldLock(w) ==
    /\ run[w].pc = "lock"
    /\ lock[run[w].goal]
    /\ Finish(w, TRUE)
    /\ UNCHANGED <<now, storeVars, faults, lock, effectVars>>

LockError(w) ==
    /\ run[w].pc = "lock"
    /\ Suffer("redis")
    /\ Finish(w, FALSE)
    /\ UNCHANGED <<now, storeVars, lock, effectVars>>

-----------------------------------------------------------------------------
\* The transaction of finalizeByDeadline: the row is read FOR UPDATE, so no
\* other write of it and no insert of a proof that references it comes between
\* the read and the commit.
FinalizeIgnored(w) ==
    /\ run[w].pc = "txn"
    /\ ~StillPending(run[w].goal)
    /\ run' = [run EXCEPT ![w].pc = "release"]
    /\ UNCHANGED <<now, storeVars, faults, job, lock, effectVars>>

Finalize(w) ==
    LET g == run[w].goal IN
    /\ run[w].pc = "txn"
    /\ StillPending(g)
    /\ WriteStatus(g, VerdictFor(g))
    /\ run' = [run EXCEPT
                 ![w] = [@ EXCEPT !.pc = "streak", !.verdict = VerdictFor(g)]]
    /\ UNCHANGED <<now, faults, job, lock, effectVars>>

\* After the commit, outside any transaction.
UpdateStreak(w) ==
    LET g == run[w].goal IN
    /\ run[w].pc = "streak"
    /\ streaks' = [streaks EXCEPT ![g] = @ + 1]
    /\ run' = [run EXCEPT ![w].pc = "notify"]
    /\ UNCHANGED <<now, storeVars, faults, job, lock, notices>>

\* notify stores nothing when the owner has switched the preference off.
\* The e-mail and the cache invalidation that follow never throw.
Notify(w) ==
    /\ run[w].pc = "notify"
    /\ \E wanted \in BOOLEAN :
         notices' = IF wanted
                    THEN [notices EXCEPT
                            ![run[w].goal][run[w].verdict] = @ + 1]
                    ELSE notices
    /\ run' = [run EXCEPT ![w].pc = "release"]
    /\ UNCHANGED <<now, storeVars, faults, job, lock, streaks>>

\* A query throws; the transaction, if this was in it, is rolled back.
DbError(w) ==
    /\ run[w].pc \in {"txn", "streak", "notify"}
    /\ Suffer("db")
    /\ run' = [run EXCEPT ![w] = [@ EXCEPT !.pc = "release", !.ok = FALSE]]
    /\ UNCHANGED <<now, storeVars, job, lock, effectVars>>

\* A slip: the block swallows the error, the job looks processed.
SwallowingRelease(w) ==
    /\ run[w].pc = "release"
    /\ lock' = [lock EXCEPT ![run[w].goal] = FALSE]
    /\ Finish(w, TRUE)
    /\ UNCHANGED <<now, storeVars, faults, effectVars>>

\* The finally block: DEL lockKey, whoever set it.
Release(w) ==
    /\ run[w].pc = "release"
    /\ lock' = [lock EXCEPT ![run[w].goal] = FALSE]
    /\ Finish(w, run[w].ok)
    /\ UNCHANGED <<now, storeVars, faults, effectVars>>

\* DEL itself fails: the attempt fails and the key stays until it expires.
ReleaseError(w) ==
    /\ run[w].pc = "release"
    /\ Suffer("redis")
    /\ Finish(w, FALSE)
    /\ UNCHANGED <<now, storeVars, lock, effectVars>>

-----------------------------------------------------------------------------
\* The 120 seconds of a lock key are over, whatever its run is doing.
LockExpire(g) ==
    /\ lock[g]
    /\ lock' = [lock EXCEPT ![g] = FALSE]
    /\ UNCHANGED <<now, storeVars, faults, job, run, effectVars>>

\* The worker process dies and PM2 starts it again.  Jobs it ran stay active
\* in Redis without an owner, lock keys stay set.
CrashWorker ==
    /\ Suffer("crash")
    /\ run' = [w \in Runs |-> IdleRun]
    /\ job' = [g \in Goals |-> [job[g] EXCEPT !.run = NoRun]]
    /\ UNCHANGED <<now, storeVars, lock, effectVars>>

\* BullMQ's stalled check: an active job whose owner no longer renews it goes
\* back to the queue, or to the failed set when it stalled too often.
AfterStall(j) ==
    [state |-> IF j.stalls < MaxStalled THEN "waiting" ELSE "dead",
     run |-> NoRun, attempts |-> j.attempts, stalls |-> j.stalls + 1]

MoveStalled(g) ==
    /\ job[g].state = "active"
    /\ job' = [job EXCEPT ![g] = AfterStall(@)]

RecoverOrphan(g) ==
    /\ job[g].run = NoRun
    /\ MoveStalled(g)
    /\ UNCHANGED <<now, storeVars, faults, lock, run, effectVars>>

\* The owner is alive but missed its renewals (a blocked event loop, a
\* connection that came back late).
StallLiveRun(g) ==
    /\ job[g].run # NoRun
    /\ Suffer("stall")
    /\ MoveStalled(g)
    /\ UNCHANGED <<now, storeVars, lock, run, effectVars>>

RunStep(w) ==
    \/ AcquireLock(w) \/ SkipHeldLock(w)
    \/ FinalizeIgnored(w) \/ Finalize(w)
    \/ UpdateStreak(w) \/ Notify(w)
    \/ Release(w)

RunFault(w) == LockError(w) \/ DbError(w) \/ ReleaseError(w)

JobsNext ==
    \/ \E w \in Runs : RunStep(w) \/ RunFault(w) \/ \E g \in Goals : Pick(w, g)
    \/ \E g \in Goals : LockExpire(g) \/ RecoverOrphan(g) \/ StallLiveRun(g)
    \/ CrashWorker

=============================================================================
