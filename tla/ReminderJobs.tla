----------------------------- MODULE ReminderJobs -----------------------------
(***************************************************************************)
(* The reminders of one goal: the delayed jobs "1d" and "1h" that          *)
(* scheduleManifestationJobs puts into "goal-reminder-queue", and the      *)
(* processor of reminder.worker.ts with its Redis lock of 60 seconds.      *)
(*                                                                         *)
(* The rest of the goal's life is the environment here: a proof achieves   *)
(* it, the worker of the deadline queue fails it after the grace period,   *)
(* and a save of an entity read earlier opens an achieved goal again (see  *)
(* GoalRequests).  Jobs, locks and slots are as in DeadlineJobs.           *)
(***************************************************************************)
EXTENDS Integers, FiniteSets

CONSTANTS
    Runs,           \* slots of the worker (concurrency 20 in the code)
    NoRun,          \* "the job has no owner"
    Lead,           \* per kind of reminder: ticks before the deadline
    Attempts,       \* attempts of a job (5 in the code)
    MaxStalled,     \* times a job may stall (BullMQ's default, 1)
    Grace,          \* ticks between a deadline and its check
    RunTime,        \* bound: ticks a run, or the adds, last
    MaxDeadline, MaxTime,   \* bounds on deadlines and the clock
    MaxFaults       \* bound on the failures

Kinds == {"1d", "1h"}

RemindersAssumption ==
    /\ NoRun \notin Runs /\ IsFiniteSet(Runs)
    /\ Lead \in [Kinds -> Nat \ {0}]
    /\ Attempts \in Nat \ {0} /\ MaxStalled \in Nat
    /\ RunTime \in Nat \ {0} /\ Grace \in Nat /\ RunTime <= Grace
    /\ MaxDeadline \in Nat /\ MaxTime \in Nat /\ MaxFaults \in Nat

VARIABLES
    now,
    status, deadline,   \* columns of the goal, "none" and 0 without a row
    adding,     \* create: the add that is next, and when it read the clock
    job,        \* per kind: its job
    lock,       \* per kind: is the key "job-lock:<queue>:<job id>" set?
    run,        \* per slot: the processor call in progress
    sent,       \* history, per kind: reminders stored
    failedToo,  \* history: one was stored of a goal that had failed
    outcome,    \* history, per kind: why the last run that returned did
    hits,       \* history, per kind: failures its job met
    faults      \* failures so far

goalVars == <<status, deadline>>
jobVars == <<job, lock, run>>
notices == <<sent, failedToo>>
history == <<notices, outcome, hits>>
vars == <<now, goalVars, adding, jobVars, history, faults>>

Statuses == {"none", "pending", "achieved", "failed"}
Adds == {"none", "1d", "1h", "deadline", "over", "dropped"}
JobRows == [state : {"none", "waiting", "active", "done", "dead"},
            run : Runs \cup {NoRun}, attempts : Nat, stalls : Nat,
            ready : Int]
Outcomes == {"none", "sent", "settled", "late", "unwanted", "skipped"}
RunRows == [pc : {"idle", "lock", "read", "notify", "release"},
            kind : Kinds, since : Nat, why : Outcomes, ok : BOOLEAN]

\* Types; a waiting or finished job has no owner, an active one is owned by a
\* slot that runs it; each slot owns one job at most.
TypeOK ==
    /\ now \in Nat /\ faults \in Nat
    /\ status \in Statuses /\ deadline \in Nat
    /\ adding \in [next : Adds, began : Nat]
    /\ job \in [Kinds -> JobRows]
    /\ lock \in [Kinds -> BOOLEAN]
    /\ run \in [Runs -> RunRows]
    /\ sent \in [Kinds -> Nat] /\ failedToo \in BOOLEAN
    /\ outcome \in [Kinds -> Outcomes]
    /\ hits \in [Kinds -> Nat]
    /\ \A k \in Kinds : job[k].run # NoRun =>
         /\ job[k].state = "active"
         /\ run[job[k].run].pc # "idle" /\ run[job[k].run].kind = k

NoJob == [state |-> "none", run |-> NoRun, attempts |-> 0, stalls |-> 0,
          ready |-> 0]
IdleRun == [pc |-> "idle", kind |-> "1d", since |-> 0, why |-> "none",
            ok |-> TRUE]

Init ==
    /\ now = 0 /\ status = "none" /\ deadline = 0
    /\ adding = [next |-> "none", began |-> 0]
    /\ job = [k \in Kinds |-> NoJob]
    /\ lock = [k \in Kinds |-> FALSE]
    /\ run = [w \in Runs |-> IdleRun]
    /\ sent = [k \in Kinds |-> 0] /\ failedToo = FALSE
    /\ outcome = [k \in Kinds |-> "none"]
    /\ hits = [k \in Kinds |-> 0]
    /\ faults = 0

\* A failure that the jobs of the given kinds meet.
Strike(kinds) ==
    /\ faults < MaxFaults
    /\ faults' = faults + 1
    /\ hits' = [k \in Kinds |-> IF k \in kinds THEN hits[k] + 1 ELSE hits[k]]

-----------------------------------------------------------------------------
\* The goal is saved; scheduleManifestationJobs reads the clock.
Create(d) ==
    /\ status = "none"
    /\ d > now
    /\ status' = "pending" /\ deadline' = d
    /\ adding' = [next |-> "1d", began |-> now]
    /\ UNCHANGED <<now, jobVars, history, faults>>

AddAfter(k) == IF k = "1d" THEN "1h" ELSE "deadline"

RemindAt(k) == deadline - Lead[k]

\* reminderQueue.add, awaited before the next add; the delay was counted from
\* the time read at the start.  No reminder whose time has passed.
AddReminder(k) ==
    /\ adding.next = k
    /\ adding' = [adding EXCEPT !.next = AddAfter(k)]
    /\ job' = IF RemindAt(k) <= adding.began THEN job
              ELSE [job EXCEPT ![k] =
                      [NoJob EXCEPT !.state = "waiting",
                                    !.ready = now + RemindAt(k) - adding.began]]
    /\ UNCHANGED <<now, goalVars, lock, run, history, faults>>

AddDeadlineCheck ==
    /\ adding.next = "deadline"
    /\ adding' = [adding EXCEPT !.next = "over"]
    /\ UNCHANGED <<now, goalVars, jobVars, history, faults>>

\* BullMQ is not ready, an add throws, or the process dies between two adds.
AddsFail ==
    /\ adding.next \in {"1d", "1h", "deadline"}
    /\ Strike({})
    /\ adding' = [adding EXCEPT !.next = "dropped"]
    /\ UNCHANGED <<now, goalVars, jobVars, notices, outcome>>

-----------------------------------------------------------------------------
RetryLeft(j) == j.attempts + 1 < Attempts

AfterFailure(j) ==
    [j EXCEPT !.state = IF RetryLeft(j) THEN "waiting" ELSE "dead",
              !.run = NoRun, !.attempts = @ + 1]

AfterSuccess(j) == [j EXCEPT !.state = "done", !.run = NoRun]

\* The processor returns (ok) or throws.
Finish(w, ok) ==
    LET k == run[w].kind IN
    /\ run' = [run EXCEPT ![w] = IdleRun]
    /\ job' = IF job[k].run # w THEN job
              ELSE [job EXCEPT ![k] = IF ok THEN AfterSuccess(@)
                                            ELSE AfterFailure(@)]

Pick(w, k) ==
    /\ run[w].pc = "idle"
    /\ job[k].state = "waiting" /\ now >= job[k].ready
    /\ run' = [run EXCEPT ![w] = [IdleRun EXCEPT !.pc = "lock", !.kind = k,
                                                 !.since = now]]
    /\ job' = [job EXCEPT ![k].state = "active", ![k].run = w]
    /\ UNCHANGED <<now, goalVars, adding, lock, history, faults>>

\* A slip: the two jobs of a goal share one key.
KeyOfGoal(k) == Kinds

LockKey(k) == {k}

Held(k) == \E l \in LockKey(k) : lock[l]

SetLock(k, held) ==
    lock' = [l \in Kinds |-> IF l \in LockKey(k) THEN held ELSE lock[l]]

\* SET lockKey '1' EX 60 NX
AcquireLock(w) ==
    /\ run[w].pc = "lock"
    /\ ~Held(run[w].kind)
    /\ SetLock(run[w].kind, TRUE)
    /\ run' = [run EXCEPT ![w].pc = "read"]
    /\ UNCHANGED <<now, goalVars, adding, job, history, faults>>

\* The key exists: the run takes itself for a duplicate and returns.
SkipHeldLock(w) ==
    /\ run[w].pc = "lock"
    /\ Held(run[w].kind)
    /\ Finish(w, TRUE)
    /\ outcome' = [outcome EXCEPT ![run[w].kind] = "skipped"]
    /\ UNCHANGED <<now, goalVars, adding, lock, notices, hits, faults>>

\* A slip: the reminder goes out although the deadline is over.
LateToo == FALSE

TooLate == deadline <= now

\* findById and the two checks.
ReadGoal(w) ==
    /\ run[w].pc = "read"
    /\ run' = [run EXCEPT ![w] =
         CASE status # "pending" ->
                [@ EXCEPT !.pc = "release", !.why = "settled"]
           [] status = "pending" /\ TooLate ->
                [@ EXCEPT !.pc = "release", !.why = "late"]
           [] OTHER -> [@ EXCEPT !.pc = "notify"]]
    /\ UNCHANGED <<now, goalVars, adding, job, lock, history, faults>>

\* A slip: one run tells of both reminders.
TellsBoth(k) ==
    /\ sent' = [l \in Kinds |-> sent[l] + 1]
    /\ failedToo' = (failedToo \/ status = "failed")

Tell(k) ==
    /\ sent' = [sent EXCEPT ![k] = @ + 1]
    /\ failedToo' = (failedToo \/ status = "failed")

\* notificationService.notify, which stores nothing for an owner who does not
\* want reminders.
Notify(w) ==
    /\ run[w].pc = "notify"
    /\ \/ /\ Tell(run[w].kind)
          /\ run' = [run EXCEPT ![w].pc = "release", ![w].why = "sent"]
       \/ /\ run' = [run EXCEPT ![w].pc = "release", ![w].why = "unwanted"]
          /\ UNCHANGED notices
    /\ UNCHANGED <<now, goalVars, adding, job, lock, outcome, hits, faults>>

\* The finally block: DEL lockKey, whoever set it.
Release(w) ==
    /\ run[w].pc = "release"
    /\ SetLock(run[w].kind, FALSE)
    /\ Finish(w, run[w].ok)
    /\ outcome' = IF run[w].ok THEN [outcome EXCEPT ![run[w].kind] = run[w].why]
                  ELSE outcome
    /\ UNCHANGED <<now, goalVars, adding, notices, hits, faults>>

-----------------------------------------------------------------------------
\* SET or DEL is rejected: the attempt fails, a key that is set stays.
RedisError(w) ==
    /\ run[w].pc \in {"lock", "release"}
    /\ Strike({run[w].kind})
    /\ Finish(w, FALSE)
    /\ UNCHANGED <<now, goalVars, adding, lock, notices, outcome>>

\* A query throws; the notification may have been stored all the same.
DbError(w) ==
    /\ run[w].pc \in {"read", "notify"}
    /\ Strike({run[w].kind})
    /\ \/ UNCHANGED notices
       \/ run[w].pc = "notify" /\ Tell(run[w].kind)
    /\ run' = [run EXCEPT ![w].pc = "release", ![w].ok = FALSE]
    /\ UNCHANGED <<now, goalVars, adding, job, lock, outcome>>

\* The 60 seconds of a key are over.
LockExpire(k) ==
    /\ lock[k]
    /\ lock' = [lock EXCEPT ![k] = FALSE]
    /\ UNCHANGED <<now, goalVars, adding, job, run, history, faults>>

\* The worker dies and is started again: jobs stay active without an owner,
\* keys stay set.
CrashWorker ==
    /\ Strike({run[w].kind : w \in {v \in Runs : run[v].pc # "idle"}})
    /\ run' = [w \in Runs |-> IdleRun]
    /\ job' = [k \in Kinds |-> [job[k] EXCEPT !.run = NoRun]]
    /\ UNCHANGED <<now, goalVars, adding, lock, notices, outcome>>

\* A slip: the stalled check finds the job and leaves it.
OnlySeen(j) == j

AfterStall(j) ==
    [j EXCEPT !.state = IF j.stalls < MaxStalled THEN "waiting" ELSE "dead",
              !.run = NoRun, !.stalls = @ + 1]

RecoverOrphan(k) ==
    /\ job[k].state = "active" /\ job[k].run = NoRun
    /\ job' = [job EXCEPT ![k] = AfterStall(@)]
    /\ UNCHANGED <<now, goalVars, adding, lock, run, history, faults>>

StallLiveRun(k) ==
    /\ job[k].state = "active" /\ job[k].run # NoRun
    /\ Strike({k})
    /\ job' = [job EXCEPT ![k] = AfterStall(@)]
    /\ UNCHANGED <<now, goalVars, adding, lock, run, notices, outcome>>

-----------------------------------------------------------------------------
\* The environment: a proof, the deadline job, a stale save.
GoalMoves ==
    /\ \/ status = "pending" /\ status' = "achieved"
       \/ status = "achieved" /\ status' = "pending"
       \/ /\ status = "pending" /\ adding.next = "over"
          /\ now >= deadline + Grace
          /\ status' = "failed"
    /\ UNCHANGED <<now, deadline, adding, jobVars, history, faults>>

\* No run and no request lasts longer than RunTime: the clock waits for it.
Tick ==
    /\ now < MaxTime
    /\ adding.next \in {"1d", "1h", "deadline"} => now < adding.began + RunTime
    /\ \A w \in Runs : run[w].pc # "idle" => now < run[w].since + RunTime
    /\ now' = now + 1
    /\ UNCHANGED <<goalVars, adding, jobVars, history, faults>>

RunStep(w) ==
    \/ AcquireLock(w) \/ SkipHeldLock(w) \/ ReadGoal(w) \/ Notify(w)
    \/ Release(w)

Next ==
    \/ \E d \in 1..MaxDeadline : Create(d)
    \/ \E k \in Kinds : AddReminder(k)
    \/ AddDeadlineCheck \/ AddsFail
    \/ \E w \in Runs : RunStep(w) \/ RedisError(w) \/ DbError(w)
    \/ \E w \in Runs, k \in Kinds : Pick(w, k)
    \/ \E k \in Kinds : LockExpire(k) \/ RecoverOrphan(k) \/ StallLiveRun(k)
    \/ CrashWorker
    \/ GoalMoves \/ Tick

Spec == Init /\ [][Next]_vars

\* Time passes, jobs are added, the worker picks and runs those that are ready,
\* the stalled check runs.  Nobody has to touch the goal, nothing has to fail.
Fairness ==
    /\ WF_vars(Tick)
    /\ WF_vars(\E k \in Kinds : AddReminder(k)) /\ WF_vars(AddDeadlineCheck)
    /\ \A w \in Runs : WF_vars(RunStep(w))
    /\ \A k \in Kinds : /\ WF_vars(\E w \in Runs : Pick(w, k))
                        /\ WF_vars(RecoverOrphan(k))

FairSpec == Spec /\ Fairness

-----------------------------------------------------------------------------
\* A run takes itself for a duplicate only if its own job met a failure
\* before: the jobs of a goal do not shut each other out, however long one
\* waits or lasts.
SkipsNeedAFault ==
    \A k \in Kinds : outcome[k] = "skipped" => hits[k] > 0

\* A failure costs the owner at most one repeated reminder, though a run may
\* outlive its key and its job, and its DEL takes the key of the next.
RepeatsNeedFaults == \A k \in Kinds : sent[k] <= 1 + hits[k]

\* Nobody is reminded of a goal that has failed, though it may fail while
\* a run is under way and a job may be picked up days late.
NeverRemindsOfFailed == ~failedToo

\* A queued reminder does not stay in the queue for ever, and is given up only
\* after failures.
QueuedReminderEnds ==
    \A k \in Kinds :
      job[k].state = "waiting" ~>
        job[k].state = "done" \/ (job[k].state = "dead" /\ hits[k] > 0)

=============================================================================
