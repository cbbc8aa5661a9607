---------------------------- MODULE GoalLifecycle ----------------------------
(***************************************************************************)
(* The life of a goal: the API's requests, the deadline worker, the clock  *)
(* and the failures between them, over one database, one queue and one     *)
(* lock per job.                                                           *)
(***************************************************************************)
EXTENDS GoalRequests

vars == <<now, storeVars, faults, jobVars, effectVars, requestVars>>

Init == StoreInit /\ JobsInit /\ RequestsInit

Tick ==
    /\ Advance
    /\ RequestsInTime
    /\ UNCHANGED <<storeVars, faults, jobVars, effectVars, requestVars>>

Next ==
    \/ Tick
    \/ JobsNext /\ UNCHANGED requestVars
    \/ RequestsNext

Spec == Init /\ [][Next]_vars

\* What the schedulers of Node.js, BullMQ and Redis give: time passes, a
\* request and a run that can take a step take one or fail, a job that is due
\* is picked, a key expires, an orphaned job is noticed.  No failure is fair.
Fairness ==
    /\ WF_vars(Tick)
    /\ \A w \in Runs : WF_vars(RunStep(w) /\ UNCHANGED requestVars)
    /\ \A g \in Goals :
         /\ WF_vars((\E w \in Runs : Pick(w, g)) /\ UNCHANGED requestVars)
         /\ WF_vars(LockExpire(g) /\ UNCHANGED requestVars)
         /\ WF_vars(RecoverOrphan(g) /\ UNCHANGED requestVars)
         /\ WF_vars(ScheduleJobs(g))
    /\ \A r \in Submits \cup Rescores : WF_vars(RequestStep(r))

FairSpec == Spec /\ Fairness

-----------------------------------------------------------------------------
(* Safety, whatever fails *)

\* Every variable keeps its type; the slots and requests without a goal are
\* exactly those not at work; a job's owner is a slot that is running it.
TypeOK ==
    /\ StoreTypeOK
    /\ JobsTypeOK
    /\ RequestsTypeOK
    /\ \A w \in Runs : (run[w].pc = "idle") <=> (run[w].goal = NoGoal)
    /\ \A r \in Submits \cup Rescores : InFlight(r) <=> (req[r].goal # NoGoal)
    /\ \A g \in Goals : job[g].run # NoRun =>
         job[g].state = "active" /\ run[job[g].run].goal = g

\* submitProof's check for an existing proof and its insert are separated by
\* an upload: the unique index still leaves a goal at most one proof.
OneProofPerGoal ==
    \A p, q \in proofs : p.goal = q.goal => p = q

\* A goal is ACHIEVED only by a proof stored by its deadline.  submitProof,
\* which may store its proof later than that and saves the goal as ACHIEVED,
\* never succeeds in doing so; the worker and the saves of rescores, which
\* write back what they read, do nothing else.
AchievedHasTimelyProof ==
    \A g \in Goals : status[g] = "achieved" => TimelyProof(g)

\* A goal is never FAILED by the worker, or by a save that writes an old
\* status back, although a proof was stored by its deadline: the check comes
\* a grace period later, when no timely proof can still appear.
FailedHasNoTimelyProof ==
    \A g \in Goals : status[g] = "failed" => ~TimelyProof(g)

\* However often a deadline job runs (retries, stalls, a goal reopened by a
\* stale save and settled again), its notifications tell one story: the one
\* the stored proofs tell.
NoticesTellTheVerdict ==
    \A g \in Goals :
      /\ notices[g]["achieved"] > 0 => TimelyProof(g)
      /\ notices[g]["failed"] > 0 => ~TimelyProof(g)

-----------------------------------------------------------------------------
(* Why they hold: nothing is held in memory or stored without its evidence *)

Overdue(g) == status[g] # "none" /\ now >= DeadlineCheckAt(g)

\* Once one of these holds it holds for ever: a proof stored now is late.
Earned(g) == Overdue(g) /\ TimelyProof(g)
Missed(g) == Overdue(g) /\ ~TimelyProof(g)

GoalsExist ==
    /\ \A p \in proofs : status[p.goal] # "none"
    /\ \A g \in Goals :
         g \in creating \/ job[g].state # "none" => status[g] # "none"
    /\ \A r \in Submits \cup Rescores :
         InFlight(r) => status[req[r].goal] # "none" /\ req[r].entity # "none"

RunsAreDue ==
    \A w \in Runs :
      /\ run[w].pc # "idle" => Overdue(run[w].goal)
      /\ run[w].pc \in {"streak", "notify"} => run[w].verdict \in Settled

\* A submission does not get past the save that follows its insert: the goal
\* has a proof by then that the entity, read before, does not contain.
OnlyRescoresWrite ==
    /\ \A r \in Submits :
         /\ req[r].pc \notin {"score", "write"}
         /\ InFlight(r) /\ req[r].proven => HasProof(req[r].goal)
         /\ req[r].pc \in {"insert", "mark"} => ~req[r].proven
         /\ req[r].pc = "mark" => HasProof(req[r].goal)
    /\ \A r \in Rescores : req[r].pc \notin {"check", "insert", "mark"}

RowEvidence ==
    \A g \in Goals :
      /\ status[g] = "achieved" => Earned(g)
      /\ status[g] = "failed" => Missed(g)

RescoreEvidence ==
    \A r \in Rescores : InFlight(r) =>
      /\ req[r].entity = "achieved" => Earned(req[r].goal)
      /\ req[r].entity = "failed" => Missed(req[r].goal)

RunEvidence ==
    \A w \in Runs : run[w].pc # "idle" =>
      /\ run[w].verdict = "achieved" => TimelyProof(run[w].goal)
      /\ run[w].verdict = "failed" => Missed(run[w].goal)

NoticeEvidence ==
    \A g \in Goals :
      /\ notices[g]["achieved"] > 0 => status[g] # "none" /\ TimelyProof(g)
      /\ notices[g]["failed"] > 0 => Missed(g)

\* Whatever a row, an entity that may be saved, a run of the worker or a
\* notification says of a goal, stale or not, is backed by the stored proofs
\* and the clock.
EvidenceInv ==
    /\ GoalsExist /\ RunsAreDue /\ OnlyRescoresWrite
    /\ RowEvidence /\ RescoreEvidence /\ RunEvidence /\ NoticeEvidence

-----------------------------------------------------------------------------
(* Safety while no rescore interferes (Rescores = {}) *)

\* A status other than PENDING is final, and so is the evidence it was given
\* by: no submission that passed its guards in time stores its proof only
\* after the goal was found to have none.
SettledStays ==
    [][\A g \in Goals : status[g] \in Settled =>
         status'[g] = status[g] /\ (HasProof(g)' <=> HasProof(g))]_vars

NoticesOf(g) == notices[g]["achieved"] + notices[g]["failed"]

\* Retries, stalled jobs picked twice, an expired or wrongly deleted lock and
\* crashes never make the worker count a streak or notify twice for one goal.
EffectsAtMostOnce ==
    \A g \in Goals :
      /\ streaks[g] <= 1
      /\ NoticesOf(g) <= streaks[g]

-----------------------------------------------------------------------------
(* Why they hold *)

\* A submission in flight passed its guards before the deadline, and recently.
SubmitsInTime ==
    \A r \in Submits : InFlight(r) =>
      /\ now <= req[r].start + RequestLifetime
      /\ req[r].start < deadline[req[r].goal]

AtEffects(w, g) == run[w].pc \in {"streak", "notify"} /\ run[w].goal = g

\* The run that settled a goal, and no other, carries out its effects, each
\* once and in their order.
EffectsInOrder ==
    \A g \in Goals :
      /\ \A v, w \in Runs : AtEffects(v, g) /\ AtEffects(w, g) => v = w
      /\ \A w \in Runs : AtEffects(w, g) =>
           /\ status[g] \in Settled /\ run[w].verdict = status[g]
           /\ streaks[g] = IF run[w].pc = "streak" THEN 0 ELSE 1
           /\ NoticesOf(g) = 0
      /\ streaks[g] > 0 => status[g] \in Settled
      /\ streaks[g] <= 1 /\ NoticesOf(g) <= streaks[g]

\* A submission is over before the goal's check may begin, and a goal has one
\* run that settles it.
FinalityInv == SubmitsInTime /\ EffectsInOrder

-----------------------------------------------------------------------------
(* Liveness, without crashes, stalls and Redis errors *)

OutOfAttempts(g) == job[g].state = "dead" /\ job[g].attempts = Attempts

\* A goal whose deadline job is queued is eventually settled, unless its
\* attempts were used up by database errors and the job is kept as failed.
ScheduledGoalSettles ==
    \A g \in Goals :
      job[g].state = "waiting" ~> (status[g] \in Settled \/ OutOfAttempts(g))

\* A goal with a timely proof and a queued job ends ACHIEVED, although the
\* submitProof that stored the proof fails, or dies, right after it.
TimelyProofAchieves ==
    \A g \in Goals :
      (job[g].state = "waiting" /\ TimelyProof(g)) ~>
        (status[g] = "achieved" \/ OutOfAttempts(g))

-----------------------------------------------------------------------------
(* What the repository's README promises, and the runs refute *)

\* README.md:79: a goal whose deadline passed without proof is marked failed
\* by the worker, once the grace period is over.
OverdueGoalFails ==
    \A g \in Goals :
      (status[g] = "pending" /\ now >= DeadlineCheckAt(g)) ~>
        (status[g] = "failed" \/ HasProof(g))

\* README.md:69: the owner's streak is updated on achievement and failure.
\* An error between the commit and the update is retried, but the retry finds
\* a settled goal and ignores it.
SettlingUpdatesStreak ==
    \A g \in Goals : status[g] \in Settled ~> streaks[g] > 0

=============================================================================
