------------------------ MODULE GoalLifecycle_proofs ------------------------
(***************************************************************************)
(* Proofs about GoalLifecycle for every number of goals, requests, slots,  *)
(* attempts and failures, and every grace period, in three chapters: what  *)
(* always holds; what holds as long as no request ends in a stale rescore  *)
(* (Rescores = {}), where a settled status is final and settling a goal    *)
(* takes effect once at most; and that GoalLifecycle, without rescores,    *)
(* implements GoalContract.                                                *)
(***************************************************************************)
EXTENDS GoalRefinement, TLAPS

\* All the actions, for the case split of a step.
LEMMA StepCases ==
    ASSUME Next
    PROVE  \/ Tick
           \/ \E g \in Goals :
                \/ \E d \in 1..MaxDeadline : CreateManifestation(g, d)
                \/ ScheduleJobs(g) \/ LeaveUnscheduled(g)
                \/ \E r \in Submits : StartSubmit(r, g)
                \/ \E r \in Rescores : StartRescore(r, g)
           \/ \E r \in Submits \cup Rescores : RequestStep(r) \/ Abandon(r)
           \/ /\ UNCHANGED requestVars
              /\ \/ \E w \in Runs :
                      RunStep(w) \/ RunFault(w) \/ \E g \in Goals : Pick(w, g)
                 \/ \E g \in Goals :
                      LockExpire(g) \/ RecoverOrphan(g) \/ StallLiveRun(g)
                 \/ CrashWorker
BY DEF Next, JobsNext, RequestsNext

-----------------------------------------------------------------------------
(* Type correctness *)

\* A job that failed is a job.
LEMMA AfterFailureType ==
    ASSUME NEW j \in JobRows
    PROVE  AfterFailure(j) \in JobRows /\ AfterFailure(j).run = NoRun
BY DEF AfterFailure, JobRows, JobStates

\* A job that succeeded is a job.
LEMMA AfterSuccessType ==
    ASSUME NEW j \in JobRows
    PROVE  AfterSuccess(j) \in JobRows /\ AfterSuccess(j).run = NoRun
BY DEF AfterSuccess, JobRows, JobStates

\* A job that stalled is a job.
LEMMA AfterStallType ==
    ASSUME NEW j \in JobRows
    PROVE  AfterStall(j) \in JobRows /\ AfterStall(j).run = NoRun
BY DEF AfterStall, JobRows, JobStates

\* A slot that stops running leaves a well-typed queue, owned by the others.
LEMMA FinishType ==
    ASSUME TypeOK, NEW w \in Runs, run[w].pc # "idle", NEW ok \in BOOLEAN,
           Finish(w, ok)
    PROVE  /\ job' \in [Goals -> JobRows]
           /\ run' = [run EXCEPT ![w] = IdleRun]
           /\ \A g \in Goals : job'[g].run # NoRun =>
                job'[g] = job[g] /\ job[g].run # w
<1> DEFINE h == run[w].goal
<1>1. /\ run \in [Runs -> RunRows] /\ job \in [Goals -> JobRows]
      /\ run[w].pc = "idle" <=> h = NoGoal
      /\ \A g \in Goals : job[g].run # NoRun => run[job[g].run].goal = g
  BY DEF TypeOK, JobsTypeOK
<1>2. h \in Goals
  BY <1>1 DEF RunRows
<1>3. CASE job[h].run # w
  BY <1>1, <1>2, <1>3, JobsAssumption DEF Finish
<1>4. CASE job[h].run = w
  <2>1. PICK j \in JobRows : j.run = NoRun /\ job' = [job EXCEPT ![h] = j]
    BY <1>1, <1>2, <1>4, AfterFailureType, AfterSuccessType DEF Finish
  <2> QED
    BY <1>1, <1>2, <1>4, <2>1, JobsAssumption DEF Finish
<1> QED
  BY <1>3, <1>4

\* The initial state is well typed.
LEMMA TypeInit == Init => TypeOK
BY StoreAssumption, JobsAssumption, RequestsAssumption
   DEF Init, StoreInit, JobsInit, RequestsInit, TypeOK, StoreTypeOK, JobsTypeOK,
       RequestsTypeOK, NoJob, IdleRun, FreshRequest, JobRows, RunRows, ReqRows,
       Statuses, JobStates, RunPcs, Verdicts, ReqPcs, Settled, InFlight

\* What TypeOK says of one request, of one slot and of one job.
ReqOK(n) == n \in ReqRows /\ (n.pc \notin {"idle", "done"} <=> n.goal # NoGoal)
RunOK(n) == n \in RunRows /\ (n.pc = "idle" <=> n.goal = NoGoal)

\* A step that gives one request a sound row keeps the types.
LEMMA ReqRowKept ==
    ASSUME TypeOK, StoreTypeOK', UNCHANGED <<jobVars, effectVars, creating>>,
           NEW r \in Submits \cup Rescores, NEW n, ReqOK(n),
           req' = [req EXCEPT ![r] = n]
    PROVE  TypeOK'
BY DEF TypeOK, JobsTypeOK, RequestsTypeOK, ReqOK, InFlight, jobVars, effectVars

\* A step that gives one run a sound row keeps the types.
LEMMA RunRowKept ==
    ASSUME TypeOK, StoreTypeOK', UNCHANGED <<job, requestVars>>,
           lock' \in [Goals -> BOOLEAN],
           streaks' \in [Goals -> Nat], notices' \in [Goals -> [Settled -> Nat]],
           NEW w \in Runs, NEW n, RunOK(n), n.goal = run[w].goal,
           run' = [run EXCEPT ![w] = n]
    PROVE  TypeOK'
BY JobsAssumption
   DEF TypeOK, JobsTypeOK, RequestsTypeOK, RunOK, InFlight, requestVars

\* Every request's row is sound.
LEMMA ReqRowOK ==
    ASSUME TypeOK, NEW r \in Submits \cup Rescores
    PROVE  /\ ReqOK(req[r])
           /\ InFlight(r) <=> req[r].pc \notin {"idle", "done"}
BY DEF TypeOK, RequestsTypeOK, ReqOK, InFlight

\* Every run's row is sound.
LEMMA RunRowOK == ASSUME TypeOK, NEW w \in Runs PROVE RunOK(run[w])
BY DEF TypeOK, JobsTypeOK, RunOK

\* The rows that requests are given are sound.
LEMMA ReqRowTypes ==
    /\ ReqOK(OverRequest)
    /\ \A n \in ReqRows, p \in ReqPcs \ {"idle", "done"} :
         ReqOK(n) /\ n.pc \notin {"idle", "done"} => ReqOK([n EXCEPT !.pc = p])
    /\ \A n \in ReqRows :
         ReqOK(n) /\ n.pc \notin {"idle", "done"} =>
           ReqOK([n EXCEPT !.pc = "mark", !.entity = "achieved"])
<1>1. ReqOK(OverRequest)
  <2>1. FreshRequest \in ReqRows /\ FreshRequest.goal = NoGoal
    BY StoreAssumption DEF FreshRequest, ReqRows, ReqPcs, Statuses
  <2>2. \A n \in ReqRows : /\ [n EXCEPT !.pc = "done"] \in ReqRows
                           /\ [n EXCEPT !.pc = "done"].pc = "done"
                           /\ [n EXCEPT !.pc = "done"].goal = n.goal
    BY DEF ReqRows, ReqPcs
  <2> QED
    BY <2>1, <2>2 DEF ReqOK, OverRequest
<1>2. ASSUME NEW n \in ReqRows, NEW p \in ReqPcs \ {"idle", "done"},
             ReqOK(n), n.pc \notin {"idle", "done"}
      PROVE  ReqOK([n EXCEPT !.pc = p])
  BY <1>2 DEF ReqOK, ReqRows
<1>3. ASSUME NEW n \in ReqRows, ReqOK(n), n.pc \notin {"idle", "done"}
      PROVE  ReqOK([n EXCEPT !.pc = "mark", !.entity = "achieved"])
  BY <1>3 DEF ReqOK, ReqRows, ReqPcs, Statuses, Settled
<1> QED
  BY <1>1, <1>2, <1>3

\* The rows that runs are given are sound.
LEMMA RunRowTypes ==
    /\ RunOK(IdleRun)
    /\ \A n \in RunRows, p \in RunPcs \ {"idle"} :
         RunOK(n) /\ n.pc # "idle" =>
           /\ RunOK([n EXCEPT !.pc = p])
           /\ [n EXCEPT !.pc = p].goal = n.goal
    /\ \A n \in RunRows, v \in Settled :
         RunOK(n) /\ n.pc # "idle" =>
           /\ RunOK([n EXCEPT !.pc = "streak", !.verdict = v])
           /\ [n EXCEPT !.pc = "streak", !.verdict = v].goal = n.goal
    /\ \A n \in RunRows :
         RunOK(n) /\ n.pc # "idle" =>
           /\ RunOK([n EXCEPT !.pc = "release", !.ok = FALSE])
           /\ [n EXCEPT !.pc = "release", !.ok = FALSE].goal = n.goal
<1> USE DEF RunOK, RunRows, RunPcs, Verdicts
<1>1. RunOK(IdleRun)
  BY DEF IdleRun
<1>2. ASSUME NEW n \in RunRows, NEW p \in RunPcs \ {"idle"}, RunOK(n),
             n.pc # "idle"
      PROVE  /\ RunOK([n EXCEPT !.pc = p])
             /\ [n EXCEPT !.pc = p].goal = n.goal
  BY <1>2
<1>3. ASSUME NEW n \in RunRows, NEW v \in Settled, RunOK(n), n.pc # "idle"
      PROVE  /\ RunOK([n EXCEPT !.pc = "streak", !.verdict = v])
             /\ [n EXCEPT !.pc = "streak", !.verdict = v].goal = n.goal
  BY <1>3
<1>4. ASSUME NEW n \in RunRows, RunOK(n), n.pc # "idle"
      PROVE  /\ RunOK([n EXCEPT !.pc = "release", !.ok = FALSE])
             /\ [n EXCEPT !.pc = "release", !.ok = FALSE].goal = n.goal
  BY <1>4
<1> QED
  BY <1>1, <1>2, <1>3, <1>4

\* The store keeps its types when the clock and the rows stay as they are.
LEMMA StoreKept ==
    ASSUME StoreTypeOK, UNCHANGED <<now, storeVars>>,
           UNCHANGED faults \/ \E k \in FaultKinds : Suffer(k)
    PROVE  StoreTypeOK'
BY DEF StoreTypeOK, storeVars, Suffer

\* What a request may do.
StepOf(r) ==
    \/ RequestStep(r) \/ Abandon(r)
    \/ r \in Submits /\ \E g \in Goals : StartSubmit(r, g)
    \/ r \in Rescores /\ \E g \in Goals : StartRescore(r, g)

\* The steps of requests.
LEMMA TypeRequests ==
    ASSUME TypeOK, NEW r \in Submits \cup Rescores, StepOf(r)
    PROVE  TypeOK'
<1>r. /\ req[r] \in ReqRows /\ ReqOK(req[r])
      /\ InFlight(r) <=> req[r].pc \notin {"idle", "done"}
      /\ req[r].pc \notin {"idle", "done"} => req[r].goal \in Goals
  BY ReqRowOK DEF ReqOK, ReqRows
<1>s. StoreTypeOK
  BY DEF TypeOK
<1>p. {"check", "insert", "mark", "score", "write"} = ReqPcs \ {"idle", "done"}
  BY DEF ReqPcs
<1>h. ASSUME NEW g \in Goals, NEW pc \in ReqPcs \ {"idle", "done"},
             Holds(r, pc, g),
             UNCHANGED <<now, storeVars, faults, jobVars, effectVars, creating>>
      PROVE  TypeOK'
  <2> DEFINE n == [pc |-> pc, goal |-> g, entity |-> status[g],
                   proven |-> HasProof(g), start |-> now]
  <2>1. HasProof(g) \in BOOLEAN
    BY DEF HasProof
  <2>2. ReqOK(n)
    BY <1>s, <2>1, JobsAssumption DEF ReqOK, ReqRows, StoreTypeOK
  <2>3. req' = [req EXCEPT ![r] = n]
    BY <1>h DEF Holds
  <2> HIDE DEF n
  <2> QED
    BY <1>h, <1>s, <2>2, <2>3, StoreKept, ReqRowKept
<1>1. ASSUME NEW g \in Goals, StartSubmit(r, g) PROVE TypeOK'
  BY <1>1, <1>h, <1>p DEF StartSubmit
<1>2. ASSUME NEW g \in Goals, StartRescore(r, g) PROVE TypeOK'
  BY <1>2, <1>h, <1>p DEF StartRescore
<1>3. CASE CheckExisting(r)
  <2>1. \/ req' = [req EXCEPT ![r] = OverRequest]
        \/ req' = [req EXCEPT ![r] = [req[r] EXCEPT !.pc = "insert"]]
    BY <1>3 DEF CheckExisting, Rest
  <2> QED
    BY <1>3, <1>r, <1>s, <1>p, <2>1, StoreKept, ReqRowKept, ReqRowTypes
       DEF CheckExisting
<1>4. CASE StoreProof(r)
  <2>1. StoreTypeOK'
    BY <1>4, <1>r, <1>s, RequestsAssumption
       DEF StoreProof, InsertProof, StoreTypeOK, ProofRows
  <2>2. ReqOK([req[r] EXCEPT !.pc = "mark", !.entity = "achieved"])
    BY <1>4, <1>r, ReqRowTypes DEF StoreProof
  <2> QED
    BY <1>4, <2>1, <2>2, ReqRowKept DEF StoreProof
<1>5. CASE DuplicateProof(r) \/ Abandon(r) \/ SaveRejected(r) \/ SaveFindsSame(r)
  BY <1>5, <1>s, StoreKept, ReqRowKept, ReqRowTypes
     DEF DuplicateProof, Abandon, SaveRejected, SaveFindsSame, Rest
<1>6. CASE SaveFindsChange(r)
  <2>1. /\ req' = [req EXCEPT ![r] = [req[r] EXCEPT !.pc = "write"]]
        /\ req[r].pc \notin {"idle", "done"}
    BY <1>6 DEF SaveFindsChange, Saves
  <2> QED
    BY <1>6, <1>r, <1>s, <1>p, <2>1, StoreKept, ReqRowKept, ReqRowTypes
       DEF SaveFindsChange
<1>7. CASE SaveWrites(r)
  <2>1. StoreTypeOK'
    BY <1>7, <1>r, <1>s DEF SaveWrites, WriteStatus, StoreTypeOK, ReqRows
  <2> QED
    BY <1>7, <2>1, ReqRowKept, ReqRowTypes DEF SaveWrites, Rest
<1> QED
  BY <1>1, <1>2, <1>3, <1>4, <1>5, <1>6, <1>7 DEF StepOf, RequestStep

\* A counter goes up.
LEMMA CountUp ==
    ASSUME NEW S, NEW f \in [S -> Nat], NEW v
    PROVE  [f EXCEPT ![v] = @ + 1] \in [S -> Nat]
<1>1. ASSUME NEW x \in S PROVE [f EXCEPT ![v] = @ + 1][x] \in Nat
  <2>1. f[x] \in Nat /\ f[x] + 1 \in Nat
    OBVIOUS
  <2> QED
    BY <2>1, Zenon
<1> QED
  BY <1>1, Zenon

\* The steps of the worker's slots.
LEMMA TypeRuns ==
    ASSUME TypeOK, UNCHANGED requestVars, NEW w \in Runs,
           RunStep(w) \/ RunFault(w) \/ \E g \in Goals : Pick(w, g)
    PROVE  TypeOK'
<1>r. /\ run[w] \in RunRows /\ RunOK(run[w]) /\ run[w].ok \in BOOLEAN
      /\ run[w].pc # "idle" => run[w].goal \in Goals
  BY RunRowOK DEF RunOK, RunRows
<1>s. StoreTypeOK /\ JobsTypeOK /\ RequestsTypeOK
  BY DEF TypeOK
<1>f. {"db", "redis"} \subseteq FaultKinds
  BY DEF FaultKinds
<1>p. {"lock", "txn", "streak", "notify", "release"} = RunPcs \ {"idle"}
  BY DEF RunPcs
<1>1. ASSUME NEW ok \in BOOLEAN, run[w].pc # "idle", Finish(w, ok),
             StoreTypeOK', lock' \in [Goals -> BOOLEAN], UNCHANGED effectVars
      PROVE  TypeOK'
  <2>1. /\ job' \in [Goals -> JobRows] /\ run' = [run EXCEPT ![w] = IdleRun]
        /\ \A g \in Goals : job'[g].run # NoRun =>
             job'[g] = job[g] /\ job[g].run # w
    BY <1>1, FinishType
  <2>2. \A g \in Goals : job[g].run \in Runs \cup {NoRun}
    BY <1>s DEF JobsTypeOK, JobRows
  <2>3. JobsTypeOK' /\ RequestsTypeOK'
    BY <1>1, <1>s, <2>1, RunRowTypes
       DEF JobsTypeOK, RequestsTypeOK, RunOK, effectVars, requestVars
  <2>4. \A v \in Runs : (run'[v].pc = "idle") <=> (run'[v].goal = NoGoal)
    BY <2>1, <1>s, RunRowTypes DEF TypeOK, JobsTypeOK, RunOK
  <2>5. \A h \in Goals : job'[h].run # NoRun =>
          job'[h].state = "active" /\ run'[job'[h].run].goal = h
    BY <2>1, <2>2, <1>s DEF TypeOK, JobsTypeOK
  <2> QED
    BY <1>1, <2>3, <2>4, <2>5 DEF TypeOK, InFlight, requestVars
<1>2. ASSUME NEW g \in Goals, Pick(w, g) PROVE TypeOK'
  <2> DEFINE n == [IdleRun EXCEPT !.pc = "lock", !.goal = g]
             j == [job[g] EXCEPT !.state = "active", !.run = w]
  <2>1. RunOK(n) /\ n.pc = "lock" /\ n.goal = g
    BY JobsAssumption DEF RunOK, RunRows, RunPcs, IdleRun, Verdicts
  <2>2. j \in JobRows /\ j.run = w /\ j.state = "active"
    BY <1>s DEF JobsTypeOK, JobRows, JobStates
  <2>3. run' = [run EXCEPT ![w] = n] /\ job' = [job EXCEPT ![g] = j]
    BY <1>2 DEF Pick
  <2>4. StoreTypeOK' /\ UNCHANGED <<lock, effectVars>> /\ run[w].pc = "idle"
    BY <1>2, <1>s, StoreKept DEF Pick
  <2>5. \A h \in Goals : job[h].run # w
    BY <1>r, <2>4, JobsAssumption DEF TypeOK
  <2>6. JobsTypeOK' /\ RequestsTypeOK'
    BY <1>s, <2>1, <2>2, <2>3, <2>4
       DEF JobsTypeOK, RequestsTypeOK, RunOK, effectVars, requestVars
  <2>7. \A v \in Runs : (run'[v].pc = "idle") <=> (run'[v].goal = NoGoal)
    BY <2>1, <2>3, JobsAssumption, <1>s DEF TypeOK, JobsTypeOK
  <2>8. \A h \in Goals : job'[h].run # NoRun =>
          job'[h].state = "active" /\ run'[job'[h].run].goal = h
    BY <2>1, <2>2, <2>3, <2>5, <1>s DEF TypeOK, JobsTypeOK
  <2> QED
    BY <2>4, <2>6, <2>7, <2>8 DEF TypeOK, InFlight, requestVars
<1>3. CASE AcquireLock(w)
  BY <1>3, <1>r, <1>s, <1>p, StoreKept, RunRowKept, RunRowTypes
     DEF AcquireLock, JobsTypeOK, effectVars
<1>4. CASE SkipHeldLock(w) \/ LockError(w)
  BY <1>1, <1>4, <1>s, <1>f, StoreKept DEF SkipHeldLock, LockError, JobsTypeOK
<1>5. CASE Release(w) \/ ReleaseError(w)
  BY <1>1, <1>5, <1>r, <1>s, <1>f, StoreKept DEF Release, ReleaseError, JobsTypeOK
<1>6. CASE FinalizeIgnored(w)
  BY <1>6, <1>r, <1>s, <1>p, StoreKept, RunRowKept, RunRowTypes
     DEF FinalizeIgnored, JobsTypeOK, effectVars
<1>7. CASE Finalize(w)
  <2>1. VerdictFor(run[w].goal) \in Settled
    BY DEF VerdictFor, Settled
  <2>2. StoreTypeOK'
    BY <1>7, <1>s, <2>1 DEF Finalize, WriteStatus, StoreTypeOK, Statuses
  <2> QED
    BY <1>7, <1>r, <1>s, <2>1, <2>2, RunRowKept, RunRowTypes
       DEF Finalize, JobsTypeOK, effectVars
<1>8. CASE UpdateStreak(w)
  <2>1. streaks' \in [Goals -> Nat]
    BY <1>8, <1>r, <1>s DEF UpdateStreak, JobsTypeOK
  <2>2. /\ StoreTypeOK' /\ lock' \in [Goals -> BOOLEAN]
        /\ notices' \in [Goals -> [Settled -> Nat]]
    BY <1>8, <1>s, StoreKept DEF UpdateStreak, JobsTypeOK
  <2> QED
    BY <1>8, <1>r, <1>p, <2>1, <2>2, RunRowKept, RunRowTypes DEF UpdateStreak
<1>9. CASE Notify(w)
  <2> DEFINE g == run[w].goal
             v == run[w].verdict
  <2>0. notices \in [Goals -> [Settled -> Nat]]
    BY <1>s DEF JobsTypeOK
  <2>1. notices' \in [Goals -> [Settled -> Nat]]
    <3>1. CASE notices' = notices
      BY <2>0, <3>1
    <3>2. CASE notices' = [notices EXCEPT ![g][v] = @ + 1]
      <4>1. notices[g] \in [Settled -> Nat]
        BY <1>9, <1>r, <2>0 DEF Notify
      <4>2. [notices[g] EXCEPT ![v] = @ + 1] \in [Settled -> Nat]
        BY <4>1, CountUp
      <4> QED
        BY <2>0, <3>2, <4>2
    <3> QED
      BY <1>9, <3>1, <3>2 DEF Notify
  <2> QED
    BY <1>9, <1>r, <1>s, <1>p, <2>1, StoreKept, RunRowKept, RunRowTypes
       DEF Notify, JobsTypeOK
<1>10. CASE DbError(w)
  BY <1>10, <1>r, <1>s, <1>f, StoreKept, RunRowKept, RunRowTypes
     DEF DbError, JobsTypeOK, effectVars
<1> QED
  BY <1>2, <1>3, <1>4, <1>5, <1>6, <1>7, <1>8, <1>9, <1>10 DEF RunStep, RunFault

\* Every step keeps the types.
LEMMA TypeStep == TypeOK /\ [Next]_vars => TypeOK'
<1> SUFFICES ASSUME TypeOK, [Next]_vars PROVE TypeOK'
  OBVIOUS
<1> USE StoreAssumption, JobsAssumption, RequestsAssumption
    DEF TypeOK, StoreTypeOK, JobsTypeOK, RequestsTypeOK, jobVars, effectVars,
        requestVars, InFlight, Suffer
<1>1. CASE UNCHANGED vars
  BY <1>1 DEF vars, storeVars
<1>2. CASE Tick
  BY <1>2 DEF Tick, Advance, storeVars
<1>3. ASSUME NEW g \in Goals, NEW d \in 1..MaxDeadline,
             CreateManifestation(g, d)
      PROVE  TypeOK'
  BY <1>3 DEF CreateManifestation, InsertManifestation, Statuses
<1>4. ASSUME NEW g \in Goals, ScheduleJobs(g) \/ LeaveUnscheduled(g)
      PROVE  TypeOK'
  <2>1. CASE ScheduleJobs(g)
    <3> DEFINE j == [NoJob EXCEPT !.state = "waiting"]
    <3>1. j \in JobRows /\ j.run = NoRun
      BY DEF NoJob, JobRows, JobStates
    <3>2. /\ job' = [job EXCEPT ![g] = j]
          /\ creating' = creating \ {g}
          /\ UNCHANGED <<now, storeVars, faults, lock, run, effectVars, req>>
      BY <2>1 DEF ScheduleJobs, AddDeadlineJob
    <3>3. StoreTypeOK'
      BY <3>2, StoreKept
    <3> HIDE DEF j
    <3> QED
      BY <3>1, <3>2, <3>3
  <2>2. CASE LeaveUnscheduled(g)
    BY <2>2 DEF LeaveUnscheduled, storeVars, FaultKinds
  <2> QED
    BY <1>4, <2>1, <2>2
<1>5. ASSUME NEW g \in Goals, LockExpire(g), UNCHANGED requestVars
      PROVE  TypeOK'
  BY <1>5 DEF LockExpire, storeVars
<1>6. ASSUME NEW g \in Goals, RecoverOrphan(g) \/ StallLiveRun(g),
             UNCHANGED requestVars
      PROVE  TypeOK'
  <2>1. PICK j \in JobRows : j.run = NoRun /\ job' = [job EXCEPT ![g] = j]
    BY <1>6, AfterStallType DEF RecoverOrphan, StallLiveRun, MoveStalled
  <2>2. StoreTypeOK'
    BY <1>6, StoreKept DEF RecoverOrphan, StallLiveRun, FaultKinds
  <2> QED
    BY <1>6, <2>1, <2>2 DEF RecoverOrphan, StallLiveRun
<1>7. CASE CrashWorker /\ UNCHANGED requestVars
  <2>1. \A j \in JobRows : /\ [j EXCEPT !.run = NoRun] \in JobRows
                          /\ [j EXCEPT !.run = NoRun].run = NoRun
    BY DEF JobRows
  <2>2. IdleRun \in RunRows /\ IdleRun.pc = "idle" /\ IdleRun.goal = NoGoal
    BY DEF IdleRun, RunRows, RunPcs, Verdicts
  <2>3. StoreTypeOK'
    BY <1>7, StoreKept DEF CrashWorker, FaultKinds
  <2> QED
    BY <1>7, <2>1, <2>2, <2>3 DEF CrashWorker
<1> QED
  BY <1>1, <1>2, <1>3, <1>4, <1>5, <1>6, <1>7, TypeRequests, TypeRuns, StepCases
     DEF StepOf

\* Every reachable state has the types TypeOK names, slots and requests hold
\* a goal exactly while they work, and a job's owner is a slot running it.
THEOREM TypeCorrect == Spec => []TypeOK
BY TypeInit, TypeStep, PTL DEF Spec

-----------------------------------------------------------------------------
(* Requests: what a step does to the row of a request, and to the proofs     *)

\* A request reads the goal it is about.
Begins(r) ==
    \E g \in Goals :
      /\ status[g] # "none"
      /\ req'[r] = [pc |-> IF r \in Submits THEN "check" ELSE "score",
                    goal |-> g, entity |-> status[g],
                    proven |-> HasProof(g), start |-> now]
      /\ r \in Submits => now < deadline[g]

\* A request passes its check, stores its proof, or gets to its UPDATE.
GoesOn(r) ==
    /\ InFlight(r)
    /\ req'[r].goal = req[r].goal
    /\ req'[r].start = req[r].start /\ req'[r].proven = req[r].proven
    /\ \/ /\ req[r].pc = "check" /\ req'[r].pc = "insert"
          /\ req'[r].entity = req[r].entity /\ ~HasProof(req[r].goal)
       \/ /\ req[r].pc = "insert" /\ req'[r].pc = "mark"
          /\ req'[r].entity = "achieved" /\ HasProof(req[r].goal)'
       \/ /\ Saves(r) /\ ~Detaches(r) /\ req'[r].pc = "write"
          /\ req'[r].entity = req[r].entity

ReqMoves(r) == req'[r] = req[r] \/ ~InFlight(r)' \/ Begins(r) \/ GoesOn(r)

\* A request moves as ReqMoves says, alone, and in no time.
LEMMA StepOfMoves ==
    ASSUME TypeOK, NEW r \in Submits \cup Rescores, StepOf(r)
    PROVE  /\ UNCHANGED <<now, faults, jobVars, effectVars, creating>>
           /\ \A s \in Submits \cup Rescores : ReqMoves(s)
<1>r. /\ req \in [Submits \cup Rescores -> ReqRows] /\ req[r] \in ReqRows
      /\ deadline \in [Goals -> Nat] /\ now \in Int
  BY StoreAssumption DEF TypeOK, StoreTypeOK, RequestsTypeOK
<1>f. UNCHANGED <<now, faults, jobVars, effectVars, creating>>
  BY DEF StepOf, RequestStep, Abandon, StartSubmit, StartRescore,
         CheckExisting, StoreProof, DuplicateProof, SaveRejected,
         SaveFindsSame, SaveFindsChange, SaveWrites
<1>o. ASSUME ReqMoves(r), NEW n, req' = [req EXCEPT ![r] = n]
      PROVE  \A s \in Submits \cup Rescores : ReqMoves(s)
  BY <1>r, <1>o DEF ReqMoves
<1>1. ASSUME NEW g \in Goals, r \in Submits, StartSubmit(r, g)
      PROVE  \A s \in Submits \cup Rescores : ReqMoves(s)
  <2>1. req'[r] = [pc |-> "check", goal |-> g, entity |-> status[g],
                   proven |-> HasProof(g), start |-> now]
    BY <1>1, <1>r DEF StartSubmit, Holds
  <2>2. status[g] # "none" /\ now < deadline[g]
    BY <1>1, <1>r DEF StartSubmit, StillPending, Ahead
  <2>3. Begins(r)
    BY <1>1, <2>1, <2>2 DEF Begins
  <2> QED
    BY <1>1, <1>o, <2>3 DEF ReqMoves, StartSubmit, Holds
<1>2. ASSUME NEW g \in Goals, r \in Rescores, StartRescore(r, g)
      PROVE  \A s \in Submits \cup Rescores : ReqMoves(s)
  <2>1. req'[r] = [pc |-> "score", goal |-> g, entity |-> status[g],
                   proven |-> HasProof(g), start |-> now]
    BY <1>2, <1>r DEF StartRescore, Holds
  <2>2. status[g] # "none" /\ r \notin Submits
    BY <1>2, RequestsAssumption DEF StartRescore
  <2>3. Begins(r)
    BY <1>2, <2>1, <2>2 DEF Begins
  <2> QED
    BY <1>2, <1>o, <2>3 DEF ReqMoves, StartRescore, Holds
<1>3. ASSUME Rest(r) PROVE \A s \in Submits \cup Rescores : ReqMoves(s)
  <2>1. ~InFlight(r)'
    BY <1>3, <1>r DEF Rest, OverRequest, FreshRequest, InFlight
  <2> QED
    BY <1>3, <1>o, <2>1 DEF Rest, ReqMoves
<1>4. CASE CheckExisting(r) /\ ~Rest(r)
  <2>1. req' = [req EXCEPT ![r] = [req[r] EXCEPT !.pc = "insert"]]
    BY <1>4 DEF CheckExisting
  <2>2. /\ req'[r].pc = "insert" /\ req'[r].goal = req[r].goal
        /\ req'[r].start = req[r].start /\ req'[r].proven = req[r].proven
        /\ req'[r].entity = req[r].entity
    BY <1>r, <2>1 DEF ReqRows
  <2>3. GoesOn(r)
    BY <1>4, <2>2 DEF CheckExisting, GoesOn, InFlight
  <2> QED
    BY <1>f, <1>o, <2>1, <2>3 DEF ReqMoves
<1>5. CASE StoreProof(r)
  <2> DEFINE p == [goal |-> req[r].goal, req |-> r, at |-> now]
  <2>1. req' = [req EXCEPT
                  ![r] = [req[r] EXCEPT !.pc = "mark", !.entity = "achieved"]]
    BY <1>5 DEF StoreProof
  <2>2. /\ req'[r].pc = "mark" /\ req'[r].goal = req[r].goal
        /\ req'[r].start = req[r].start /\ req'[r].proven = req[r].proven
        /\ req'[r].entity = "achieved"
    BY <1>r, <2>1 DEF ReqRows
  <2>3. HasProof(req[r].goal)'
    <3>1. p \in proofs' /\ p.goal = req[r].goal
      BY <1>5 DEF StoreProof, InsertProof
    <3> QED
      BY <2>2, <3>1 DEF HasProof
  <2>4. GoesOn(r)
    BY <1>5, <2>2, <2>3 DEF StoreProof, GoesOn, InFlight
  <2> QED
    BY <1>f, <1>o, <2>1, <2>4 DEF ReqMoves
<1>6. CASE SaveFindsChange(r)
  <2>1. req' = [req EXCEPT ![r] = [req[r] EXCEPT !.pc = "write"]]
    BY <1>6 DEF SaveFindsChange
  <2>2. /\ req'[r].pc = "write" /\ req'[r].goal = req[r].goal
        /\ req'[r].start = req[r].start /\ req'[r].proven = req[r].proven
        /\ req'[r].entity = req[r].entity
    BY <1>r, <2>1 DEF ReqRows
  <2>3. GoesOn(r)
    BY <1>6, <2>2 DEF SaveFindsChange, Saves, GoesOn, InFlight
  <2> QED
    BY <1>f, <1>o, <2>1, <2>3 DEF ReqMoves
<1> QED
  BY <1>f, <1>1, <1>2, <1>3, <1>4, <1>5, <1>6
     DEF StepOf, RequestStep, DuplicateProof, SaveRejected, SaveFindsSame,
         SaveWrites, Abandon

\* Every step moves requests as ReqMoves says, or is a tick.
LEMMA AllReqMoves ==
    ASSUME TypeOK, [Next]_vars
    PROVE  /\ \A r \in Submits \cup Rescores : ReqMoves(r)
           /\ UNCHANGED now \/ (Tick /\ UNCHANGED req)
<1>1. ASSUME UNCHANGED req PROVE \A r \in Submits \cup Rescores : ReqMoves(r)
  BY <1>1 DEF ReqMoves
<1>2. CASE UNCHANGED vars
  BY <1>1, <1>2 DEF vars, requestVars
<1>3. CASE Tick
  BY <1>1, <1>3 DEF Tick, requestVars
<1>4. CASE JobsNext /\ UNCHANGED requestVars
  BY <1>1, <1>4
     DEF requestVars, JobsNext, RunStep, RunFault, Pick, AcquireLock,
         SkipHeldLock, LockError, FinalizeIgnored, Finalize, UpdateStreak,
         Notify, DbError, Release, ReleaseError, LockExpire, RecoverOrphan,
         StallLiveRun, CrashWorker
<1>5. ASSUME NEW g \in Goals,
             \/ \E d \in 1..MaxDeadline : CreateManifestation(g, d)
             \/ ScheduleJobs(g) \/ LeaveUnscheduled(g)
      PROVE  UNCHANGED <<now, req>>
  BY <1>5 DEF CreateManifestation, ScheduleJobs, LeaveUnscheduled
<1> QED
  BY <1>1, <1>2, <1>3, <1>4, <1>5, StepOfMoves DEF Next, RequestsNext, StepOf

\* Proofs are only stored, never changed or removed.
LEMMA ProofWriters ==
    ASSUME [Next]_vars
    PROVE  \/ UNCHANGED proofs
           \/ \E r \in Submits \cup Rescores : StoreProof(r)
<1> USE DEF storeVars, InsertManifestation, WriteStatus
<1>1. CASE UNCHANGED vars
  BY <1>1 DEF vars
<1>2. CASE Tick
  BY <1>2 DEF Tick
<1>3. ASSUME NEW g \in Goals,
             \/ \E d \in 1..MaxDeadline : CreateManifestation(g, d)
             \/ ScheduleJobs(g) \/ LeaveUnscheduled(g)
             \/ \E r \in Submits : StartSubmit(r, g)
             \/ \E r \in Rescores : StartRescore(r, g)
             \/ LockExpire(g) \/ RecoverOrphan(g) \/ StallLiveRun(g)
      PROVE  UNCHANGED proofs
  BY <1>3 DEF CreateManifestation, ScheduleJobs, LeaveUnscheduled,
              StartSubmit, StartRescore, LockExpire, RecoverOrphan,
              StallLiveRun
<1>4. ASSUME NEW r \in Submits \cup Rescores, RequestStep(r) \/ Abandon(r)
      PROVE  UNCHANGED proofs \/ StoreProof(r)
  BY <1>4 DEF RequestStep, CheckExisting, DuplicateProof, SaveRejected,
              SaveFindsSame, SaveFindsChange, SaveWrites, Abandon
<1>5. ASSUME NEW w \in Runs,
             RunStep(w) \/ RunFault(w) \/ \E g \in Goals : Pick(w, g)
      PROVE  UNCHANGED proofs
  BY <1>5 DEF RunStep, RunFault, Pick, AcquireLock, SkipHeldLock, LockError,
              FinalizeIgnored, Finalize, UpdateStreak, Notify, DbError,
              Release, ReleaseError
<1>6. CASE CrashWorker
  BY <1>6 DEF CrashWorker
<1> QED
  BY <1>1, <1>2, <1>3, <1>4, <1>5, <1>6, StepCases

\* Only rescores come to write a goal's row: a submission that stored a proof
\* holds an entity without it, and is rejected.
LEMMA WritersStep ==
    ASSUME TypeOK, OnlyRescoresWrite, [Next]_vars
    PROVE  OnlyRescoresWrite'
<1>1. \A g : HasProof(g) => HasProof(g)'
  BY ProofWriters DEF HasProof, StoreProof, InsertProof
<1>m. \A r \in Submits \cup Rescores : ReqMoves(r)
  BY AllReqMoves
<1>2. ASSUME NEW r \in Submits
      PROVE  /\ req'[r].pc \notin {"score", "write"}
             /\ InFlight(r)' /\ req'[r].proven => HasProof(req[r].goal)'
             /\ req'[r].pc \in {"insert", "mark"} => ~req'[r].proven
             /\ req'[r].pc = "mark" => HasProof(req[r].goal)'
  <2>i. /\ req[r].pc \notin {"score", "write"}
        /\ InFlight(r) /\ req[r].proven => HasProof(req[r].goal)
        /\ req[r].pc \in {"insert", "mark"} => ~req[r].proven
        /\ req[r].pc = "mark" => HasProof(req[r].goal)
    BY DEF OnlyRescoresWrite
  <2>e. req'[r].goal = req[r].goal /\ HasProof(req[r].goal) =>
          HasProof(req[r].goal)'
    BY <1>1 DEF HasProof
  <2>1. CASE req'[r] = req[r]
    <3>1. HasProof(req[r].goal) => HasProof(req[r].goal)'
      BY <2>1, <2>e
    <3> QED
      BY <2>1, <2>i, <3>1 DEF InFlight
  <2>2. CASE ~InFlight(r)'
    BY <2>2 DEF InFlight
  <2>3. CASE Begins(r)
    <3>1. PICK g \in Goals :
            req'[r] = [pc |-> "check", goal |-> g, entity |-> status[g],
                       proven |-> HasProof(g), start |-> now]
      BY <2>3 DEF Begins
    <3>2. /\ req'[r].pc = "check" /\ req'[r].goal = g
          /\ req'[r].proven = HasProof(g)
      BY <3>1
    <3>3. HasProof(g) => HasProof(req[r].goal)'
      BY <1>1, <3>2 DEF HasProof
    <3> QED
      BY <3>2, <3>3
  <2>4. CASE GoesOn(r)
    <3>1. HasProof(req[r].goal) => HasProof(req[r].goal)'
      BY <2>4, <2>e DEF GoesOn
    <3>2. CASE req[r].pc = "check" /\ req'[r].pc = "insert"
                 /\ ~HasProof(req[r].goal)
      BY <2>4, <2>i, <3>1, <3>2 DEF GoesOn
    <3>3. CASE req[r].pc = "insert" /\ req'[r].pc = "mark"
                 /\ HasProof(req[r].goal)'
      BY <2>4, <2>i, <3>1, <3>3 DEF GoesOn
    <3>4. CASE Saves(r) /\ ~Detaches(r)
      BY <2>i, <3>4 DEF Saves, Detaches
    <3> QED
      BY <2>4, <3>2, <3>3, <3>4 DEF GoesOn
  <2> QED
    BY <1>m, <2>1, <2>2, <2>3, <2>4 DEF ReqMoves
<1>3. ASSUME NEW r \in Rescores
      PROVE  req'[r].pc \notin {"check", "insert", "mark"}
  <2>1. ReqMoves(r) /\ r \notin Submits
    BY <1>m, RequestsAssumption
  <2>2. req[r].pc \notin {"check", "insert", "mark"}
    BY DEF OnlyRescoresWrite
  <2>3. CASE Begins(r)
    <3>1. PICK g \in Goals :
            req'[r] = [pc |-> "score", goal |-> g, entity |-> status[g],
                       proven |-> HasProof(g), start |-> now]
      BY <2>1, <2>3 DEF Begins
    <3>2. req'[r].pc = "score"
      BY <3>1
    <3> QED
      BY <3>2
  <2>4. CASE GoesOn(r)
    BY <2>2, <2>4 DEF GoesOn
  <2>5. CASE req'[r] = req[r] \/ ~InFlight(r)'
    BY <2>2, <2>5 DEF InFlight
  <2> QED
    BY <2>1, <2>3, <2>4, <2>5 DEF ReqMoves
<1> QED
  BY <1>2, <1>3 DEF OnlyRescoresWrite, InFlight

-----------------------------------------------------------------------------
(* Evidence.  First what a step can do to each kind of state, action by      *)
(* action; the invariants then follow without looking at actions again.      *)

\* A slot stays, ends, begins an overdue goal, or goes on with its goal and
\* the verdict it has or reaches.
RunMoves(w) ==
    \/ run'[w] = run[w]
    \/ run'[w].pc = "idle"
    \/ /\ run'[w].pc = "lock" /\ run'[w].verdict = "ignored"
       /\ run'[w].goal \in Goals /\ Overdue(run'[w].goal)
    \/ /\ run[w].pc # "idle" /\ run'[w].goal = run[w].goal
       /\ run'[w].verdict = run[w].verdict
       /\ run'[w].pc \in {"streak", "notify"} => run[w].pc = "streak"
    \/ /\ run[w].pc # "idle" /\ run'[w].goal = run[w].goal
       /\ run'[w].verdict = VerdictFor(run[w].goal)

\* The status of a row stays, is that of a new goal, is the worker's verdict,
\* or is what a rescore read of it.
StatusMoves(g) ==
    \/ status'[g] = status[g]
    \/ status[g] = "none" /\ status'[g] = "pending"
    \/ \E w \in Runs : /\ run[w].pc # "idle" /\ run[w].goal = g
                       /\ status'[g] = VerdictFor(g)
    \/ \E r \in Rescores :
         InFlight(r) /\ req[r].goal = g /\ status'[g] = req[r].entity

\* Rows stay; a new proof is stamped with the present.
RowsMove ==
    /\ now' \in Int /\ now' >= now
    /\ proofs \subseteq proofs'
    /\ \A p \in proofs' \ proofs : p.at = now /\ status[p.goal] # "none"
    /\ \A g \in Goals : status[g] # "none" => deadline'[g] = deadline[g]

\* Notifications stay, or a slot counts one for its verdict.
NoticesMove(g) ==
    \/ notices'[g] = notices[g]
    \/ \E w \in Runs : /\ run[w].pc = "notify" /\ run[w].goal = g
                       /\ notices'[g] = [notices[g] EXCEPT ![run[w].verdict] = @ + 1]

\* A job and an unfinished creation come from a stored goal.
JobMoves(g) ==
    g \in creating' \/ job'[g].state # "none" =>
      g \in creating \/ job[g].state # "none"
        \/ status[g] # "none" \/ status'[g] = "pending"

MovesOK ==
    /\ \A w \in Runs : RunMoves(w)
    /\ \A r \in Submits \cup Rescores : ReqMoves(r)
    /\ \A g \in Goals : StatusMoves(g) /\ NoticesMove(g) /\ JobMoves(g)
    /\ RowsMove

\* Most steps leave the rows alone.
LEMMA RowsKept ==
    ASSUME TypeOK, UNCHANGED <<now, storeVars>>
    PROVE  RowsMove /\ \A g \in Goals : StatusMoves(g)
BY DEF RowsMove, StatusMoves, storeVars, TypeOK, StoreTypeOK

\* The steps of requests move as MovesOK says.
LEMMA RequestMoves ==
    ASSUME TypeOK, EvidenceInv, NEW r \in Submits \cup Rescores, StepOf(r)
    PROVE  MovesOK
<1>r. /\ req \in [Submits \cup Rescores -> ReqRows] /\ req[r] \in ReqRows
      /\ InFlight(r) => req[r].goal \in Goals /\ status[req[r].goal] # "none"
  BY DEF TypeOK, RequestsTypeOK, ReqRows, EvidenceInv, GoalsExist
<1>f. /\ UNCHANGED <<now, faults, jobVars, effectVars, creating>>
      /\ \A s \in Submits \cup Rescores : ReqMoves(s)
  BY StepOfMoves
<1>1. /\ \A w \in Runs : RunMoves(w)
      /\ \A g \in Goals : NoticesMove(g) /\ JobMoves(g)
  BY <1>f DEF RunMoves, NoticesMove, JobMoves, jobVars, effectVars
<1>2. SUFFICES RowsMove /\ \A g \in Goals : StatusMoves(g)
  BY <1>1, <1>f DEF MovesOK
<1>3. CASE UNCHANGED storeVars
  BY <1>3, <1>f, RowsKept
<1>4. CASE StoreProof(r)
  <2>1. InFlight(r)
    BY <1>4 DEF StoreProof, InFlight
  <2> QED
    BY <1>4, <1>f, <1>r, <2>1
       DEF StoreProof, InsertProof, RowsMove, StatusMoves, TypeOK, StoreTypeOK
<1>5. CASE SaveWrites(r)
  <2>1. InFlight(r) /\ r \in Rescores
    BY <1>5 DEF SaveWrites, InFlight, EvidenceInv, OnlyRescoresWrite
  <2> QED
    BY <1>5, <1>f, <2>1
       DEF SaveWrites, WriteStatus, RowsMove, StatusMoves, TypeOK, StoreTypeOK
<1> QED
  BY <1>3, <1>4, <1>5
     DEF StepOf, RequestStep, Abandon, StartSubmit, StartRescore,
         CheckExisting, DuplicateProof, SaveRejected, SaveFindsSame,
         SaveFindsChange

\* The steps of runs move as MovesOK says.
LEMMA RunStepMoves ==
    ASSUME TypeOK, EvidenceInv, UNCHANGED requestVars, NEW w \in Runs,
           RunStep(w) \/ RunFault(w) \/ \E g \in Goals : Pick(w, g)
    PROVE  MovesOK
<1>r. /\ run \in [Runs -> RunRows] /\ run[w] \in RunRows
      /\ run[w].pc # "idle" => run[w].goal \in Goals /\ Overdue(run[w].goal)
      /\ now \in Nat
  BY StoreAssumption
     DEF TypeOK, StoreTypeOK, JobsTypeOK, RunRows, EvidenceInv, RunsAreDue
<1>q. \A r \in Submits \cup Rescores : ReqMoves(r)
  BY DEF ReqMoves, requestVars
<1>j. ASSUME NEW h \in Goals, status[h] # "none",
             \A g \in Goals : g = h \/ job'[g] = job[g]
      PROVE  \A g \in Goals : JobMoves(g)
  BY <1>j DEF JobMoves, requestVars
<1>1. ASSUME RunMoves(w), NEW n, run' = [run EXCEPT ![w] = n]
      PROVE  \A v \in Runs : RunMoves(v)
  BY <1>r, <1>1 DEF RunMoves
<1>2. ASSUME NEW p, p \in {"streak", "notify"} => run[w].pc = "streak",
             run' = [run EXCEPT ![w] = [@ EXCEPT !.pc = p]], run[w].pc # "idle"
      PROVE  \A v \in Runs : RunMoves(v)
  <2>1. RunMoves(w)
    BY <1>2, <1>r DEF RunMoves, RunRows
  <2> QED
    BY <1>1, <1>2, <2>1
<1>n. ASSUME UNCHANGED notices PROVE \A g \in Goals : NoticesMove(g)
  BY <1>n DEF NoticesMove
<1>3. ASSUME NEW ok \in BOOLEAN, run[w].pc # "idle", Finish(w, ok),
             UNCHANGED <<now, storeVars, effectVars>>
      PROVE  MovesOK
  <2>1. RunMoves(w)
    BY <1>3, <1>r DEF Finish, RunMoves, IdleRun
  <2>2. run' = [run EXCEPT ![w] = IdleRun]
    BY <1>3 DEF Finish
  <2>3. \A g \in Goals : JobMoves(g)
    <3>1. \A g \in Goals : g = run[w].goal \/ job'[g] = job[g]
      BY <1>3 DEF Finish, TypeOK, JobsTypeOK
    <3>2. status[run[w].goal] # "none" /\ run[w].goal \in Goals
      BY <1>3, <1>r DEF Overdue
    <3> QED
      BY <1>j, <3>1, <3>2
  <2> QED
    BY <1>1, <1>3, <1>n, <1>q, <2>1, <2>2, <2>3, RowsKept DEF MovesOK, effectVars
<1>k. ASSUME UNCHANGED job PROVE \A g \in Goals : JobMoves(g)
  BY <1>k DEF JobMoves, requestVars
<1>4. ASSUME NEW g \in Goals, Pick(w, g) PROVE MovesOK
  <2>1. status[g] # "none"
    BY <1>4 DEF Pick, EvidenceInv, GoalsExist
  <2>2. run'[w] = [pc |-> "lock", goal |-> g, verdict |-> "ignored", ok |-> TRUE]
    BY <1>4, <1>r DEF Pick, IdleRun
  <2>3. RunMoves(w)
    <3>1. Overdue(g)
      BY <1>4, <2>1 DEF Pick, Overdue
    <3>2. /\ run'[w].pc = "lock" /\ run'[w].verdict = "ignored"
          /\ run'[w].goal = g
      BY <2>2
    <3> QED
      BY <3>1, <3>2 DEF RunMoves
  <2>4. \A h \in Goals : JobMoves(h)
    BY <1>4, <1>j, <2>1 DEF Pick, TypeOK, JobsTypeOK
  <2> QED
    BY <1>1, <1>4, <1>n, <1>q, <2>3, <2>4, RowsKept DEF Pick, MovesOK, effectVars
<1>5. CASE AcquireLock(w)
  BY <1>2, <1>5, <1>k, <1>n, <1>q, RowsKept DEF AcquireLock, MovesOK, effectVars
<1>6. CASE SkipHeldLock(w) \/ LockError(w)
  BY <1>3, <1>6 DEF SkipHeldLock, LockError
<1>7. CASE Release(w) \/ ReleaseError(w)
  <2>1. run[w].ok \in BOOLEAN
    BY <1>r DEF RunRows
  <2> QED
    BY <1>3, <1>7, <2>1 DEF Release, ReleaseError
<1>8. CASE FinalizeIgnored(w)
  BY <1>2, <1>8, <1>k, <1>n, <1>q, RowsKept DEF FinalizeIgnored, MovesOK, effectVars
<1>9. CASE Finalize(w)
  <2>1. run'[w].goal = run[w].goal /\ run'[w].verdict = VerdictFor(run[w].goal)
    BY <1>9, <1>r DEF Finalize, RunRows
  <2>2. RunMoves(w)
    BY <1>9, <2>1 DEF Finalize, RunMoves
  <2>3. RowsMove /\ \A g \in Goals : StatusMoves(g)
    BY <1>9, <1>r
       DEF Finalize, WriteStatus, RowsMove, StatusMoves, TypeOK, StoreTypeOK
  <2> QED
    BY <1>1, <1>9, <1>k, <1>n, <1>q, <2>2, <2>3 DEF Finalize, MovesOK, effectVars
<1>10. CASE UpdateStreak(w)
  BY <1>2, <1>10, <1>k, <1>n, <1>q, RowsKept DEF UpdateStreak, MovesOK
<1>11. CASE Notify(w)
  <2>1. \A g \in Goals : NoticesMove(g)
    <3> DEFINE h == run[w].goal
               f == [notices[h] EXCEPT ![run[w].verdict] = @ + 1]
    <3>1. notices' = notices \/ notices' = [notices EXCEPT ![h] = f]
      BY <1>11 DEF Notify
    <3>2. \A g \in Goals : notices'[g] = notices[g] \/ (g = h /\ notices'[g] = f)
      BY <3>1 DEF TypeOK, JobsTypeOK
    <3> QED
      BY <1>11, <3>2 DEF Notify, NoticesMove
  <2> QED
    BY <1>2, <1>11, <1>k, <1>q, <2>1, RowsKept DEF Notify, MovesOK
<1>12. CASE DbError(w)
  <2>1. RunMoves(w)
    BY <1>12, <1>r DEF DbError, RunMoves, RunRows
  <2> QED
    BY <1>1, <1>12, <1>k, <1>n, <1>q, <2>1, RowsKept DEF DbError, MovesOK, effectVars
<1> QED
  BY <1>4, <1>5, <1>6, <1>7, <1>8, <1>9, <1>10, <1>11, <1>12 DEF RunStep, RunFault

\* Every step moves as MovesOK says.
LEMMA AllMoves == ASSUME TypeOK, EvidenceInv, [Next]_vars PROVE MovesOK
<1>1. ASSUME UNCHANGED run PROVE \A w \in Runs : RunMoves(w)
  BY <1>1 DEF RunMoves
<1>2. \A r \in Submits \cup Rescores : ReqMoves(r)
  BY AllReqMoves
<1>3. ASSUME UNCHANGED notices PROVE \A g \in Goals : NoticesMove(g)
  BY <1>3 DEF NoticesMove
<1>4. ASSUME UNCHANGED <<job, creating>> PROVE \A g \in Goals : JobMoves(g)
  BY <1>4 DEF JobMoves
<1> USE <1>1, <1>2, <1>3, <1>4 DEF MovesOK, effectVars, requestVars, jobVars
<1>5. CASE UNCHANGED vars
  BY <1>5, RowsKept DEF vars
<1>6. CASE Tick
  BY <1>6, StoreAssumption
     DEF Tick, Advance, RowsMove, StatusMoves, storeVars, TypeOK, StoreTypeOK
<1>7. ASSUME NEW g \in Goals, NEW d \in 1..MaxDeadline,
             CreateManifestation(g, d)
      PROVE  MovesOK
  <2>1. RowsMove /\ \A h \in Goals : StatusMoves(h)
    BY <1>7, StoreAssumption DEF CreateManifestation, InsertManifestation,
                RowsMove, StatusMoves, TypeOK, StoreTypeOK
  <2>2. \A h \in Goals : JobMoves(h)
    BY <1>7 DEF CreateManifestation, InsertManifestation, JobMoves, TypeOK,
                StoreTypeOK
  <2> QED
    BY <1>7, <2>1, <2>2 DEF CreateManifestation
<1>8. ASSUME NEW g \in Goals, ScheduleJobs(g) \/ LeaveUnscheduled(g)
      PROVE  MovesOK
  <2>1. \A h \in Goals : JobMoves(h)
    BY <1>8 DEF ScheduleJobs, LeaveUnscheduled, AddDeadlineJob, JobMoves,
                TypeOK, JobsTypeOK
  <2> QED
    BY <1>8, <2>1, RowsKept DEF ScheduleJobs, LeaveUnscheduled
<1>9. ASSUME NEW g \in Goals, LockExpire(g), UNCHANGED requestVars
      PROVE  MovesOK
  BY <1>9, RowsKept DEF LockExpire
<1>10. ASSUME NEW g \in Goals, RecoverOrphan(g) \/ StallLiveRun(g),
              UNCHANGED requestVars
       PROVE  MovesOK
  <2>1. \A h \in Goals : JobMoves(h)
    BY <1>10 DEF RecoverOrphan, StallLiveRun, MoveStalled, JobMoves, TypeOK,
                 JobsTypeOK
  <2> QED
    BY <1>10, <2>1, RowsKept DEF RecoverOrphan, StallLiveRun
<1>11. CASE CrashWorker /\ UNCHANGED requestVars
  <2>1. \A w \in Runs : RunMoves(w)
    BY <1>11 DEF CrashWorker, RunMoves, IdleRun
  <2>2. \A g \in Goals : JobMoves(g)
    BY <1>11 DEF CrashWorker, JobMoves, TypeOK, JobsTypeOK, JobRows
  <2> QED
    BY <1>11, <2>1, <2>2, RowsKept DEF CrashWorker
<1> QED
  BY <1>5, <1>6, <1>7, <1>8, <1>9, <1>10, <1>11, RequestMoves, RunStepMoves,
     StepCases DEF StepOf

\* What is known of a goal that exists stays known.
LEMMA Persistence ==
    ASSUME TypeOK, GoalsExist, MovesOK, NEW g \in Goals, status[g] # "none"
    PROVE  /\ status'[g] # "none"
           /\ TimelyProof(g) => TimelyProof(g)'
           /\ Overdue(g) => Overdue(g)'
           /\ Earned(g) => Earned(g)'
           /\ Missed(g) => Missed(g)'
<1>1. /\ now \in Nat /\ now' \in Int /\ now' >= now /\ Grace \in Nat \ {0}
      /\ deadline'[g] = deadline[g] /\ deadline[g] \in Nat
  BY StoreAssumption DEF TypeOK, StoreTypeOK, MovesOK, RowsMove
<1>2. status'[g] # "none"
  <2>1. VerdictFor(g) # "none"
    BY DEF VerdictFor
  <2>2. StatusMoves(g)
    BY DEF MovesOK
  <2>3. \A r \in Rescores : InFlight(r) => req[r].entity # "none"
    BY DEF GoalsExist
  <2> QED
    BY <2>1, <2>2, <2>3 DEF StatusMoves
<1>4. TimelyProof(g) => TimelyProof(g)'
  BY <1>1 DEF MovesOK, RowsMove, TimelyProof
<1>5. Overdue(g) => Overdue(g)'
  BY <1>1, <1>2 DEF Overdue, DeadlineCheckAt
<1>6. Overdue(g) /\ TimelyProof(g)' => TimelyProof(g)
  <2> SUFFICES ASSUME Overdue(g), NEW p \in proofs', p.goal = g,
                      p.at <= deadline[g]
               PROVE  TimelyProof(g)
    BY <1>1 DEF TimelyProof
  <2>1. now > deadline[g]
    BY <1>1 DEF Overdue, DeadlineCheckAt
  <2>2. p \in proofs
    BY <1>1, <2>1 DEF MovesOK, RowsMove
  <2> QED
    BY <2>2 DEF TimelyProof
<1> QED
  BY <1>2, <1>4, <1>5, <1>6 DEF Missed, Earned

\* The worker's verdict on an overdue goal is backed by the proofs.
LEMMA VerdictEvidence ==
    ASSUME NEW g \in Goals, Overdue(g)
    PROVE  /\ VerdictFor(g) \in Settled
           /\ VerdictFor(g) = "achieved" => Earned(g)
           /\ VerdictFor(g) = "failed" => Missed(g)
BY DEF VerdictFor, Earned, Missed, Settled

\* A timely proof is a proof.
LEMMA TimelyIsProof ==
    ASSUME NEW g \in Goals, TimelyProof(g) PROVE HasProof(g)
BY DEF TimelyProof, HasProof

\* Nothing is claimed at first.
LEMMA EvidenceInit == Init => EvidenceInv
<1> SUFFICES ASSUME Init PROVE EvidenceInv
  OBVIOUS
<1> USE DEF Init, StoreInit, JobsInit, RequestsInit
<1>1. GoalsExist
  BY DEF GoalsExist, NoJob, InFlight, FreshRequest
<1>2. RunsAreDue /\ RunEvidence
  BY DEF RunsAreDue, RunEvidence, IdleRun
<1>3. RowEvidence /\ NoticeEvidence
  BY DEF RowEvidence, NoticeEvidence, Settled
<1>4. RescoreEvidence /\ OnlyRescoresWrite
  BY DEF RescoreEvidence, OnlyRescoresWrite, InFlight, FreshRequest
<1> QED
  BY <1>1, <1>2, <1>3, <1>4 DEF EvidenceInv

\* Every step keeps EvidenceInv.
LEMMA EvidenceStep ==
    ASSUME TypeOK, TypeOK', EvidenceInv, [Next]_vars
    PROVE  EvidenceInv'
<1>m. MovesOK
  BY AllMoves
<1>e. GoalsExist /\ RunsAreDue /\ RowEvidence /\ RescoreEvidence /\ RunEvidence
      /\ NoticeEvidence /\ OnlyRescoresWrite
  BY DEF EvidenceInv
<1>k. ASSUME NEW g \in Goals, status[g] # "none"
      PROVE  /\ status'[g] # "none"
             /\ TimelyProof(g) => TimelyProof(g)'
             /\ Overdue(g) => Overdue(g)'
             /\ Earned(g) => Earned(g)'
             /\ Missed(g) => Missed(g)'
  BY <1>m, <1>e, <1>k, Persistence
<1>g. /\ \A w \in Runs : run[w].pc # "idle" => run[w].goal \in Goals
      /\ \A r \in Submits \cup Rescores :
           InFlight(r) => req[r].goal \in Goals /\ status[req[r].goal] # "none"
      /\ \A p \in proofs' : p.goal \in Goals
  BY <1>e DEF TypeOK, JobsTypeOK, RequestsTypeOK, StoreTypeOK, ProofRows,
              RunRows, ReqRows, GoalsExist
<1>d. \A g \in Goals : (Overdue(g) \/ Earned(g) \/ Missed(g)) =>
        status[g] # "none"
  BY DEF Overdue, Earned, Missed
<1>1. GoalsExist'
  <2>1. ASSUME NEW p \in proofs' PROVE status'[p.goal] # "none"
    BY <1>m, <1>e, <1>g, <1>k, <2>1 DEF MovesOK, RowsMove, GoalsExist
  <2>2. ASSUME NEW g \in Goals, g \in creating' \/ job'[g].state # "none"
        PROVE  status'[g] # "none"
    <3>1. JobMoves(g)
      BY <1>m DEF MovesOK
    <3> QED
      BY <1>e, <1>k, <2>2, <3>1 DEF JobMoves, GoalsExist
  <2>3. ASSUME NEW r \in Submits \cup Rescores, InFlight(r)'
        PROVE  status'[req'[r].goal] # "none" /\ req'[r].entity # "none"
    <3>1. CASE req'[r] = req[r]
      BY <1>e, <1>g, <1>k, <2>3, <3>1 DEF GoalsExist, InFlight
    <3>2. CASE Begins(r)
      BY <1>k, <3>2 DEF Begins
    <3>3. CASE GoesOn(r)
      BY <1>e, <1>g, <1>k, <3>3 DEF GoesOn, GoalsExist
    <3> QED
      BY <1>m, <2>3, <3>1, <3>2, <3>3 DEF MovesOK, ReqMoves
  <2> QED
    BY <2>1, <2>2, <2>3 DEF GoalsExist
<1>2. RunsAreDue' /\ RunEvidence'
  <2> SUFFICES ASSUME NEW w \in Runs, run'[w].pc # "idle"
               PROVE  /\ Overdue(run[w].goal)'
                      /\ run'[w].pc \in {"streak", "notify"} =>
                           run'[w].verdict \in Settled
                      /\ run'[w].verdict = "achieved" => TimelyProof(run[w].goal)'
                      /\ run'[w].verdict = "failed" => Missed(run[w].goal)'
    BY DEF RunsAreDue, RunEvidence
  <2>1. RunMoves(w)
    BY <1>m DEF MovesOK
  <2>2. PICK g \in Goals : g = run'[w].goal /\ Overdue(g)
    BY <1>e, <1>g, <2>1 DEF RunMoves, RunsAreDue
  <2>3. CASE run[w].pc # "idle" /\ g = run[w].goal
              /\ run'[w].verdict = VerdictFor(g)
    <3>1. /\ Overdue(g)' /\ run'[w].verdict \in Settled
          /\ run'[w].verdict = "achieved" => TimelyProof(g)'
          /\ run'[w].verdict = "failed" => Missed(g)'
      BY <1>k, <1>d, <2>2, <2>3, VerdictEvidence DEF Earned
    <3> QED
      BY <2>2, <3>1 DEF Overdue, Missed, TimelyProof, DeadlineCheckAt
  <2>4. CASE run[w].pc # "idle" /\ g = run[w].goal
              /\ run'[w].verdict = run[w].verdict
              /\ (run'[w].pc \in {"streak", "notify"} =>
                    run[w].pc \in {"streak", "notify"})
    <3>1. /\ Overdue(g)'
          /\ run'[w].pc \in {"streak", "notify"} => run'[w].verdict \in Settled
          /\ run'[w].verdict = "achieved" => TimelyProof(g)'
          /\ run'[w].verdict = "failed" => Missed(g)'
      BY <1>e, <1>k, <1>d, <2>2, <2>4 DEF RunsAreDue, RunEvidence
    <3> QED
      BY <2>2, <3>1 DEF Overdue, Missed, TimelyProof, DeadlineCheckAt
  <2>5. CASE run'[w].pc = "lock" /\ run'[w].verdict = "ignored"
    <3>1. Overdue(g)'
      BY <1>k, <1>d, <2>2
    <3> QED
      BY <2>2, <2>5, <3>1 DEF Overdue, DeadlineCheckAt
  <2> QED
    BY <2>1, <2>2, <2>3, <2>4, <2>5 DEF RunMoves
<1>3. RowEvidence'
  <2> SUFFICES ASSUME NEW g \in Goals
               PROVE  /\ status'[g] = "achieved" => Earned(g)'
                      /\ status'[g] = "failed" => Missed(g)'
    BY DEF RowEvidence
  <2>1. StatusMoves(g)
    BY <1>m DEF MovesOK
  <2>2. CASE status'[g] = status[g]
    BY <1>e, <1>k, <2>2 DEF RowEvidence
  <2>3. CASE status'[g] = "pending"
    BY <2>3
  <2>4. ASSUME NEW w \in Runs, run[w].pc # "idle", run[w].goal = g,
               status'[g] = VerdictFor(g)
        PROVE  /\ status'[g] = "achieved" => Earned(g)'
               /\ status'[g] = "failed" => Missed(g)'
    <3>1. Overdue(g) /\ status[g] # "none"
      BY <1>e, <1>d, <2>4 DEF RunsAreDue
    <3> QED
      BY <1>k, <2>4, <3>1, VerdictEvidence
  <2>5. ASSUME NEW r \in Rescores, InFlight(r), req[r].goal = g,
               status'[g] = req[r].entity
        PROVE  /\ status'[g] = "achieved" => Earned(g)'
               /\ status'[g] = "failed" => Missed(g)'
    BY <1>e, <1>g, <1>k, <2>5 DEF RescoreEvidence
  <2> QED
    BY <2>1, <2>2, <2>3, <2>4, <2>5 DEF StatusMoves
<1>4. RescoreEvidence'
  <2> SUFFICES ASSUME NEW r \in Rescores, InFlight(r)'
               PROVE  /\ req'[r].entity = "achieved" => Earned(req[r].goal)'
                      /\ req'[r].entity = "failed" => Missed(req[r].goal)'
    BY DEF RescoreEvidence
  <2>1. req'[r] = req[r] \/ Begins(r) \/ GoesOn(r)
    BY <1>m DEF MovesOK, ReqMoves
  <2>2. PICK g \in Goals : g = req'[r].goal /\ status[g] # "none"
    <3>1. CASE req'[r] = req[r]
      BY <1>g, <3>1 DEF InFlight
    <3>2. CASE Begins(r)
      BY <3>2 DEF Begins
    <3>3. CASE GoesOn(r)
      BY <1>g, <3>3 DEF GoesOn
    <3> QED
      BY <2>1, <3>1, <3>2, <3>3
  <2>3. SUFFICES /\ req'[r].entity = "achieved" => Earned(g)'
                 /\ req'[r].entity = "failed" => Missed(g)'
    BY <2>2 DEF Earned, Missed, Overdue, TimelyProof, DeadlineCheckAt
  <2>4. CASE /\ InFlight(r) /\ g = req[r].goal
             /\ req'[r].entity = req[r].entity
    BY <1>e, <1>k, <2>2, <2>4 DEF RescoreEvidence
  <2>5. CASE Begins(r)
    <3>1. req'[r].entity = status[g]
      BY <2>2, <2>5 DEF Begins
    <3> QED
      BY <1>e, <1>k, <2>2, <3>1 DEF RowEvidence
  <2>6. CASE GoesOn(r)
    BY <1>e, <2>2, <2>4, <2>6 DEF GoesOn, OnlyRescoresWrite
  <2>7. CASE req'[r] = req[r]
    BY <2>2, <2>4, <2>7 DEF InFlight
  <2> QED
    BY <2>1, <2>5, <2>6, <2>7
<1>5. NoticeEvidence'
  <2> SUFFICES ASSUME NEW g \in Goals
               PROVE  /\ notices'[g]["achieved"] > 0 =>
                           status'[g] # "none" /\ TimelyProof(g)'
                      /\ notices'[g]["failed"] > 0 => Missed(g)'
    BY DEF NoticeEvidence
  <2>1. NoticesMove(g)
    BY <1>m DEF MovesOK
  <2>2. CASE notices'[g] = notices[g]
    BY <1>e, <1>k, <1>d, <2>2 DEF NoticeEvidence
  <2>3. ASSUME NEW w \in Runs, run[w].pc = "notify", run[w].goal = g,
               notices'[g] = [notices[g] EXCEPT ![run[w].verdict] = @ + 1]
        PROVE  /\ notices'[g]["achieved"] > 0 =>
                     status'[g] # "none" /\ TimelyProof(g)'
               /\ notices'[g]["failed"] > 0 => Missed(g)'
    <3>1. Overdue(g) /\ status[g] # "none"
      BY <1>e, <1>d, <2>3 DEF RunsAreDue
    <3>2. notices[g] \in [Settled -> Nat]
      BY DEF TypeOK, JobsTypeOK
    <3>3. \A v \in Settled : v = run[w].verdict \/ notices'[g][v] = notices[g][v]
      BY <2>3, <3>2
    <3>4. {"achieved", "failed"} = Settled
      BY DEF Settled
    <3> QED
      BY <1>e, <1>k, <1>d, <2>3, <3>1, <3>3, <3>4 DEF NoticeEvidence, RunEvidence
  <2> QED
    BY <2>1, <2>2, <2>3 DEF NoticesMove
<1>6. OnlyRescoresWrite'
  BY <1>e, WritersStep
<1> QED
  BY <1>1, <1>2, <1>3, <1>4, <1>5, <1>6 DEF EvidenceInv

-----------------------------------------------------------------------------
\* Rows, entities that may be saved, runs and notifications never say of a
\* goal what the stored proofs and the clock do not support, at any
\* interleaving, with any number of stale saves, retries, stalls and crashes.
THEOREM EvidenceCorrect == Spec => []EvidenceInv
<1>1. TypeOK /\ TypeOK' /\ EvidenceInv /\ [Next]_vars => EvidenceInv'
  BY EvidenceStep
<1> QED
  BY EvidenceInit, TypeCorrect, <1>1, PTL DEF Spec

\* An achieved goal has a proof stored by its deadline.
THEOREM AchievedCorrect == Spec => []AchievedHasTimelyProof
<1>1. EvidenceInv => AchievedHasTimelyProof
  BY DEF EvidenceInv, RowEvidence, Earned, AchievedHasTimelyProof
<1> QED
  BY EvidenceCorrect, <1>1, PTL

\* A failed goal has no proof stored by its deadline.
THEOREM FailedCorrect == Spec => []FailedHasNoTimelyProof
<1>1. EvidenceInv => FailedHasNoTimelyProof
  BY DEF EvidenceInv, RowEvidence, Missed, FailedHasNoTimelyProof
<1> QED
  BY EvidenceCorrect, <1>1, PTL

\* All notifications about a goal's end agree with the stored proofs.
THEOREM NoticesCorrect == Spec => []NoticesTellTheVerdict
<1>1. EvidenceInv => NoticesTellTheVerdict
  BY DEF EvidenceInv, NoticeEvidence, Missed, NoticesTellTheVerdict
<1> QED
  BY EvidenceCorrect, <1>1, PTL

\* A goal has at most one proof, whatever requests race for it.
THEOREM OneProofCorrect == Spec => []OneProofPerGoal
<1>1. Init => OneProofPerGoal
  BY DEF Init, StoreInit, OneProofPerGoal
<1>2. OneProofPerGoal /\ [Next]_vars => OneProofPerGoal'
  <2> SUFFICES ASSUME OneProofPerGoal, [Next]_vars PROVE OneProofPerGoal'
    OBVIOUS
  <2>1. CASE UNCHANGED proofs
    BY <2>1 DEF OneProofPerGoal
  <2>2. ASSUME NEW r \in Submits \cup Rescores, StoreProof(r)
        PROVE  OneProofPerGoal'
    <3> DEFINE p == [goal |-> req[r].goal, req |-> r, at |-> now]
    <3>1. proofs' = proofs \cup {p} /\ \A q \in proofs : q.goal # p.goal
      BY <2>2 DEF StoreProof, InsertProof, ProofIsUnique, HasProof
    <3> HIDE DEF p
    <3> QED
      BY <3>1 DEF OneProofPerGoal
  <2> QED
    BY <2>1, <2>2, ProofWriters
<1> QED
  BY <1>1, <1>2, PTL DEF Spec

-----------------------------------------------------------------------------
(***************************************************************************)
(*                          Without stale rescores                         *)
(***************************************************************************)

\* Who writes a status.
LEMMA StatusWriters ==
    ASSUME [Next]_vars
    PROVE  \/ UNCHANGED <<now, status>>
           \/ Tick
           \/ \E g \in Goals, d \in 1..MaxDeadline : CreateManifestation(g, d)
           \/ \E w \in Runs : Finalize(w)
           \/ \E r \in Submits \cup Rescores : SaveWrites(r)
<1> USE DEF storeVars
<1>1. CASE UNCHANGED vars
  BY <1>1 DEF vars
<1>2. ASSUME NEW g \in Goals,
             \/ ScheduleJobs(g) \/ LeaveUnscheduled(g)
             \/ \E r \in Submits : StartSubmit(r, g)
             \/ \E r \in Rescores : StartRescore(r, g)
             \/ LockExpire(g) \/ RecoverOrphan(g) \/ StallLiveRun(g)
      PROVE  UNCHANGED <<now, status>>
  BY <1>2 DEF ScheduleJobs, LeaveUnscheduled, StartSubmit, StartRescore,
              LockExpire, RecoverOrphan, StallLiveRun
<1>3. ASSUME NEW r \in Submits \cup Rescores, RequestStep(r) \/ Abandon(r)
      PROVE  UNCHANGED <<now, status>> \/ SaveWrites(r)
  BY <1>3 DEF RequestStep, CheckExisting, StoreProof, InsertProof,
              DuplicateProof, SaveRejected, SaveFindsSame, SaveFindsChange,
              Abandon
<1>4. ASSUME NEW w \in Runs,
             RunStep(w) \/ RunFault(w) \/ \E g \in Goals : Pick(w, g)
      PROVE  UNCHANGED <<now, status>> \/ Finalize(w)
  BY <1>4 DEF RunStep, RunFault, Pick, AcquireLock, SkipHeldLock, LockError,
              FinalizeIgnored, UpdateStreak, Notify, DbError, Release,
              ReleaseError
<1>5. CASE CrashWorker
  BY <1>5 DEF CrashWorker
<1> QED
  BY <1>1, <1>2, <1>3, <1>4, <1>5, StepCases

-----------------------------------------------------------------------------
(* Submissions and the deadline *)

\* While a submission works on a goal, the goal is not overdue.
LEMMA NotOverdue ==
    ASSUME TypeOK, SubmitsInTime, NEW r \in Submits, InFlight(r)
    PROVE  req[r].goal \in Goals /\ ~Overdue(req[r].goal)
<1>1. /\ now \in Nat /\ req[r].start \in Nat /\ req[r].goal \in Goals
      /\ deadline[req[r].goal] \in Nat
  BY StoreAssumption
     DEF TypeOK, StoreTypeOK, RequestsTypeOK, ReqRows, InFlight
<1>2. /\ now <= req[r].start + RequestLifetime
      /\ req[r].start < deadline[req[r].goal]
  BY DEF SubmitsInTime
<1>3. RequestLifetime \in Nat /\ Grace \in Nat /\ RequestLifetime <= Grace
  BY StoreAssumption, RequestsAssumption
<1> QED
  BY <1>1, <1>2, <1>3 DEF Overdue, DeadlineCheckAt

\* Nobody but the worker writes a status then, and only while it is pending.
LEMMA StatusFinal ==
    ASSUME Rescores = {}, TypeOK, EvidenceInv, [Next]_vars,
           NEW g \in Goals, status[g] \in Settled
    PROVE  status'[g] = status[g]
<1>t. status \in [Goals -> Statuses]
  BY DEF TypeOK, StoreTypeOK
<1>1. ASSUME NEW h \in Goals, NEW d \in 1..MaxDeadline, CreateManifestation(h, d)
      PROVE  status'[g] = status[g]
  BY <1>1, <1>t DEF CreateManifestation, InsertManifestation, Settled
<1>2. ASSUME NEW w \in Runs, Finalize(w) PROVE status'[g] = status[g]
  BY <1>2, <1>t DEF Finalize, WriteStatus, StillPending, Settled
<1>3. ASSUME NEW r \in Submits, SaveWrites(r) PROVE FALSE
  BY <1>3 DEF SaveWrites, EvidenceInv, OnlyRescoresWrite
<1>4. CASE Tick
  BY <1>4 DEF Tick, storeVars
<1> QED
  BY <1>1, <1>2, <1>3, <1>4, StatusWriters

\* A proof is stored only for a goal that is not settled: a settled goal is
\* overdue, and no submission is under way for it.
LEMMA ProofsFinal ==
    ASSUME TypeOK, EvidenceInv, SubmitsInTime, [Next]_vars,
           NEW g \in Goals, status[g] \in Settled
    PROVE  HasProof(g)' <=> HasProof(g)
<1>1. Overdue(g)
  BY DEF EvidenceInv, RowEvidence, Earned, Missed, Settled
<1>2. CASE UNCHANGED proofs
  BY <1>2 DEF HasProof
<1>3. ASSUME NEW r \in Submits \cup Rescores, StoreProof(r)
      PROVE  HasProof(g)' <=> HasProof(g)
  <2> DEFINE p == [goal |-> req[r].goal, req |-> r, at |-> now]
  <2>1. r \in Submits /\ InFlight(r)
    BY <1>3 DEF StoreProof, InFlight, EvidenceInv, OnlyRescoresWrite
  <2>2. req[r].goal # g
    BY <1>1, <2>1, NotOverdue
  <2>3. proofs' = proofs \cup {p} /\ p.goal # g
    BY <1>3, <2>2 DEF StoreProof, InsertProof
  <2> HIDE DEF p
  <2> QED
    BY <2>3 DEF HasProof
<1> QED
  BY <1>2, <1>3, ProofWriters

\* Submissions stay in time.
LEMMA SubmitsStep ==
    ASSUME TypeOK, TypeOK', EvidenceInv, SubmitsInTime, [Next]_vars
    PROVE  SubmitsInTime'
<1>t. /\ now \in Nat /\ now' \in Nat /\ RequestLifetime \in Nat \ {0}
      /\ req \in [Submits \cup Rescores -> ReqRows]
      /\ \A r \in Submits : InFlight(r) =>
           req[r].goal \in Goals /\ status[req[r].goal] # "none"
      /\ \A r \in Submits : req[r].start \in Nat
  BY StoreAssumption, RequestsAssumption
     DEF TypeOK, StoreTypeOK, RequestsTypeOK, ReqRows, EvidenceInv, GoalsExist
<1>d. \A g \in Goals : status[g] # "none" => deadline'[g] = deadline[g]
  BY AllMoves DEF MovesOK, RowsMove
<1>1. CASE UNCHANGED req /\ Tick
  BY <1>1, <1>t DEF Tick, Advance, RequestsInTime, storeVars, SubmitsInTime,
                    InFlight
<1>2. CASE UNCHANGED now
  <2> SUFFICES ASSUME NEW r \in Submits, InFlight(r)'
               PROVE  /\ now <= req'[r].start + RequestLifetime
                      /\ req'[r].start < deadline'[req'[r].goal]
    BY <1>2 DEF SubmitsInTime, InFlight
  <2>1. CASE req'[r] = req[r]
    BY <2>1, <1>t, <1>d DEF SubmitsInTime, InFlight
  <2>2. CASE Begins(r)
    <3>1. PICK g \in Goals :
            /\ status[g] # "none" /\ now < deadline[g]
            /\ req'[r].goal = g /\ req'[r].start = now
      BY <2>2 DEF Begins
    <3> QED
      BY <3>1, <1>t, <1>d
  <2>3. CASE GoesOn(r)
    BY <2>3, <1>t, <1>d DEF GoesOn, SubmitsInTime
  <2> QED
    BY <2>1, <2>2, <2>3, AllReqMoves DEF ReqMoves
<1> QED
  BY <1>1, <1>2, AllReqMoves

-----------------------------------------------------------------------------
(* The effects of settling a goal *)

\* The run of slot w is for another goal, or at no effect, or as it was.
Aside(w, g) == AtEffects(w, g)' => AtEffects(w, g) /\ run'[w] = run[w]

SameCounts(g) == streaks'[g] = streaks[g] /\ notices'[g] = notices[g]

\* What a step does to the effects of a goal: nothing; a run settles the goal
\* and will begin them; a run counts the streak; a run notifies or does not.
EffectMoves(g) ==
    \/ SameCounts(g) /\ \A v \in Runs : Aside(v, g)
    \/ \E w \in Runs :
         /\ \A v \in Runs \ {w} : Aside(v, g)
         /\ \/ /\ status[g] = "pending" /\ status'[g] \in Settled
               /\ run'[w].pc = "streak" /\ run'[w].verdict = status'[g]
               /\ SameCounts(g)
            \/ /\ AtEffects(w, g) /\ run[w].pc = "streak"
               /\ run'[w].pc = "notify" /\ run'[w].goal = g
               /\ run'[w].verdict = run[w].verdict
               /\ streaks'[g] = streaks[g] + 1 /\ notices'[g] = notices[g]
            \/ /\ AtEffects(w, g) /\ run[w].pc = "notify"
               /\ run'[w].pc = "release" /\ streaks'[g] = streaks[g]
               /\ \/ notices'[g] = notices[g]
                  \/ \E v \in Settled :
                       notices'[g] = [notices[g] EXCEPT ![v] = @ + 1]

\* Steps of runs move as EffectMoves says.
LEMMA RunEffects ==
    ASSUME TypeOK, EvidenceInv, NEW w \in Runs, NEW g \in Goals,
           RunStep(w) \/ RunFault(w) \/ \E h \in Goals : Pick(w, h)
    PROVE  EffectMoves(g)
<1>r. /\ run \in [Runs -> RunRows] /\ run[w] \in RunRows
      /\ streaks \in [Goals -> Nat] /\ notices \in [Goals -> [Settled -> Nat]]
      /\ status \in [Goals -> Statuses]
      /\ run[w].pc # "idle" => run[w].goal \in Goals
  BY DEF TypeOK, StoreTypeOK, JobsTypeOK, RunRows
<1>o. ASSUME NEW n, run' = [run EXCEPT ![w] = n]
      PROVE  run'[w] = n /\ \A v \in Runs \ {w} : Aside(v, g)
  BY <1>o, <1>r DEF Aside, AtEffects
<1>1. ASSUME NEW n, run' = [run EXCEPT ![w] = n], UNCHANGED effectVars,
             n.pc \notin {"streak", "notify"}
      PROVE  EffectMoves(g)
  BY <1>1, <1>o DEF EffectMoves, SameCounts, Aside, AtEffects, effectVars
<1>2. ASSUME NEW p, p \notin {"streak", "notify"}, UNCHANGED effectVars,
             run' = [run EXCEPT ![w] = [@ EXCEPT !.pc = p]]
      PROVE  EffectMoves(g)
  <2>1. [run[w] EXCEPT !.pc = p].pc = p
    BY <1>r DEF RunRows
  <2> QED
    BY <1>1, <1>2, <2>1
<1>3. ASSUME NEW ok, Finish(w, ok), UNCHANGED effectVars PROVE EffectMoves(g)
  BY <1>1, <1>3 DEF Finish, IdleRun
<1>4. ASSUME NEW h \in Goals, Pick(w, h) PROVE EffectMoves(g)
  <2>1. [IdleRun EXCEPT !.pc = "lock", !.goal = h].pc = "lock"
    BY DEF IdleRun
  <2> QED
    BY <1>1, <1>4, <2>1 DEF Pick
<1>5. CASE AcquireLock(w) \/ FinalizeIgnored(w)
  BY <1>2, <1>5 DEF AcquireLock, FinalizeIgnored
<1>6. CASE SkipHeldLock(w) \/ LockError(w) \/ Release(w) \/ ReleaseError(w)
  BY <1>3, <1>6 DEF SkipHeldLock, LockError, Release, ReleaseError
<1>7. CASE DbError(w)
  <2>1. [run[w] EXCEPT !.pc = "release", !.ok = FALSE].pc = "release"
    BY <1>r DEF RunRows
  <2> QED
    BY <1>1, <1>7, <2>1 DEF DbError
<1>8. CASE Finalize(w)
  <2> DEFINE h == run[w].goal
             n == [run[w] EXCEPT !.pc = "streak", !.verdict = VerdictFor(h)]
  <2>1. n.pc = "streak" /\ n.goal = h /\ n.verdict = VerdictFor(h)
    BY <1>r DEF RunRows
  <2>2. run' = [run EXCEPT ![w] = n] /\ SameCounts(g)
    BY <1>8 DEF Finalize, SameCounts, effectVars
  <2>3. run'[w] = n /\ \A v \in Runs \ {w} : Aside(v, g)
    BY <1>o, <2>2
  <2>4. CASE g = h
    <3>1. VerdictFor(h) \in Settled
      BY DEF VerdictFor, Settled
    <3>2. /\ status[g] = "pending" /\ status'[g] \in Settled
          /\ status'[g] = VerdictFor(h)
      BY <1>8, <1>r, <2>4, <3>1 DEF Finalize, WriteStatus, StillPending
    <3> QED
      BY <2>1, <2>2, <2>3, <3>2 DEF EffectMoves
  <2>5. CASE g # h
    BY <2>1, <2>2, <2>3, <2>5 DEF EffectMoves, Aside, AtEffects
  <2> QED
    BY <2>4, <2>5
<1>9. CASE UpdateStreak(w)
  <2> DEFINE h == run[w].goal
             n == [run[w] EXCEPT !.pc = "notify"]
  <2>1. n.pc = "notify" /\ n.goal = h /\ n.verdict = run[w].verdict
    BY <1>r DEF RunRows
  <2>2. run' = [run EXCEPT ![w] = n]
    BY <1>9 DEF UpdateStreak
  <2>3. run'[w] = n /\ \A v \in Runs \ {w} : Aside(v, g)
    BY <1>o, <2>2
  <2>4. /\ run[w].pc = "streak" /\ notices' = notices
        /\ streaks' = [streaks EXCEPT ![h] = @ + 1]
    BY <1>9 DEF UpdateStreak
  <2>5. CASE g = h
    BY <1>r, <2>1, <2>3, <2>4, <2>5 DEF EffectMoves, AtEffects
  <2>6. CASE g # h
    BY <1>r, <2>1, <2>3, <2>4, <2>6
       DEF EffectMoves, Aside, AtEffects, SameCounts
  <2> QED
    BY <2>5, <2>6
<1>10. CASE Notify(w)
  <2> DEFINE h == run[w].goal
             n == [run[w] EXCEPT !.pc = "release"]
             f == [notices[h] EXCEPT ![run[w].verdict] = @ + 1]
  <2>1. n.pc = "release" /\ n.goal = h
    BY <1>r DEF RunRows
  <2>2. run' = [run EXCEPT ![w] = n] /\ streaks' = streaks
    BY <1>10 DEF Notify
  <2>3. run'[w] = n /\ \A v \in Runs \ {w} : Aside(v, g)
    BY <1>o, <2>2
  <2>4. /\ run[w].pc = "notify" /\ run[w].verdict \in Settled
        /\ notices' = notices \/ notices' = [notices EXCEPT ![h] = f]
    BY <1>10 DEF Notify, EvidenceInv, RunsAreDue
  <2>5. CASE g = h
    <3>1. notices'[g] = notices[g] \/ notices'[g] = f
      BY <1>r, <2>4
    <3>2. \/ notices'[g] = notices[g]
          \/ \E v \in Settled :
               notices'[g] = [notices[g] EXCEPT ![v] = @ + 1]
      BY <2>4, <2>5, <3>1
    <3>3. AtEffects(w, g)
      BY <2>4, <2>5 DEF AtEffects
    <3> QED
      BY <2>1, <2>2, <2>3, <2>4, <3>2, <3>3 DEF EffectMoves
  <2>6. CASE g # h
    <3>1. notices'[g] = notices[g]
      BY <1>r, <2>4, <2>6
    <3>2. \A v \in Runs : Aside(v, g)
      BY <2>1, <2>3 DEF Aside, AtEffects
    <3> QED
      BY <2>2, <3>1, <3>2 DEF EffectMoves, SameCounts
  <2> QED
    BY <2>5, <2>6
<1> QED
  BY <1>4, <1>5, <1>6, <1>7, <1>8, <1>9, <1>10 DEF RunStep, RunFault

\* Every step moves as EffectMoves says.
LEMMA AllEffectMoves ==
    ASSUME TypeOK, EvidenceInv, [Next]_vars, NEW g \in Goals
    PROVE  EffectMoves(g)
<1>1. ASSUME UNCHANGED <<run, effectVars>> PROVE EffectMoves(g)
  BY <1>1 DEF EffectMoves, SameCounts, Aside, AtEffects, effectVars
<1>2. CASE UNCHANGED vars
  BY <1>1, <1>2 DEF vars, jobVars
<1>3. CASE Tick
  BY <1>1, <1>3 DEF Tick, jobVars
<1>4. CASE RequestsNext
  BY <1>1, <1>4
     DEF RequestsNext, RequestStep, CreateManifestation, ScheduleJobs,
         LeaveUnscheduled, StartSubmit, StartRescore, CheckExisting, StoreProof,
         DuplicateProof, SaveRejected, SaveFindsSame, SaveFindsChange,
         SaveWrites, Abandon, jobVars
<1>5. ASSUME NEW h \in Goals, LockExpire(h) \/ RecoverOrphan(h) \/ StallLiveRun(h)
      PROVE  EffectMoves(g)
  BY <1>1, <1>5 DEF LockExpire, RecoverOrphan, StallLiveRun
<1>6. CASE CrashWorker
  BY <1>6 DEF CrashWorker, EffectMoves, SameCounts, Aside, AtEffects, IdleRun,
              effectVars
<1> QED
  BY <1>2, <1>3, <1>4, <1>5, <1>6, RunEffects DEF Next, JobsNext

\* A run's effects stay in the order of the code.
LEMMA EffectsStep ==
    ASSUME Rescores = {}, TypeOK, TypeOK', EvidenceInv, FinalityInv, [Next]_vars
    PROVE  EffectsInOrder'
<1> SUFFICES ASSUME NEW g \in Goals
             PROVE  /\ \A v, w \in Runs :
                         AtEffects(v, g)' /\ AtEffects(w, g)' => v = w
                    /\ \A w \in Runs : AtEffects(w, g)' =>
                         /\ status'[g] \in Settled
                         /\ run'[w].verdict = status'[g]
                         /\ streaks'[g] = IF run'[w].pc = "streak" THEN 0 ELSE 1
                         /\ NoticesOf(g)' = 0
                    /\ streaks'[g] > 0 => status'[g] \in Settled
                    /\ streaks'[g] <= 1 /\ NoticesOf(g)' <= streaks'[g]
  BY DEF EffectsInOrder, AtEffects, NoticesOf
<1>i. /\ \A v, w \in Runs : AtEffects(v, g) /\ AtEffects(w, g) => v = w
      /\ \A w \in Runs : AtEffects(w, g) =>
           /\ status[g] \in Settled /\ run[w].verdict = status[g]
           /\ streaks[g] = IF run[w].pc = "streak" THEN 0 ELSE 1
           /\ NoticesOf(g) = 0
      /\ streaks[g] > 0 => status[g] \in Settled
      /\ streaks[g] <= 1 /\ NoticesOf(g) <= streaks[g]
  BY DEF FinalityInv, EffectsInOrder
<1>f. status[g] \in Settled => status'[g] = status[g]
  BY StatusFinal
<1>t. /\ streaks[g] \in Nat /\ streaks'[g] \in Nat
      /\ notices[g]["achieved"] \in Nat /\ notices[g]["failed"] \in Nat
      /\ notices[g] \in [Settled -> Nat]
  BY DEF TypeOK, JobsTypeOK, Settled
<1>s. notices'[g] = notices[g] => NoticesOf(g)' = NoticesOf(g)
  BY DEF NoticesOf
<1>1. CASE SameCounts(g) /\ \A v \in Runs : Aside(v, g)
  BY <1>1, <1>i, <1>f, <1>s DEF SameCounts, Aside
<1>2. ASSUME NEW w \in Runs, \A v \in Runs \ {w} : Aside(v, g),
             status[g] = "pending", status'[g] \in Settled,
             run'[w].pc = "streak", run'[w].verdict = status'[g], SameCounts(g)
      PROVE  /\ \A v, u \in Runs :
                  AtEffects(v, g)' /\ AtEffects(u, g)' => v = u
             /\ \A u \in Runs : AtEffects(u, g)' =>
                  /\ run'[u].verdict = status'[g]
                  /\ streaks'[g] = IF run'[u].pc = "streak" THEN 0 ELSE 1
                  /\ NoticesOf(g)' = 0
             /\ streaks'[g] <= 1 /\ NoticesOf(g)' <= streaks'[g]
  <2>1. \A v \in Runs : ~AtEffects(v, g)
    BY <1>2, <1>i DEF Settled
  <2>2. \A v \in Runs \ {w} : ~AtEffects(v, g)'
    BY <1>2, <2>1 DEF Aside
  <2>3. streaks'[g] = 0 /\ NoticesOf(g)' <= 0 /\ NoticesOf(g) \in Nat
    BY <1>2, <1>i, <1>t, <1>s DEF SameCounts, Settled, NoticesOf
  <2>4. NoticesOf(g)' = 0
    BY <1>2, <1>s, <2>3 DEF SameCounts
  <2> QED
    BY <1>2, <2>2, <2>3, <2>4
<1>3. ASSUME NEW w \in Runs, \A v \in Runs \ {w} : Aside(v, g),
             AtEffects(w, g), run[w].pc = "streak", run'[w].pc = "notify",
             run'[w].verdict = run[w].verdict,
             streaks'[g] = streaks[g] + 1, notices'[g] = notices[g]
      PROVE  /\ \A v, u \in Runs :
                  AtEffects(v, g)' /\ AtEffects(u, g)' => v = u
             /\ \A u \in Runs : AtEffects(u, g)' =>
                  /\ run'[u].verdict = status'[g]
                  /\ streaks'[g] = IF run'[u].pc = "streak" THEN 0 ELSE 1
                  /\ NoticesOf(g)' = 0
             /\ status'[g] \in Settled
             /\ streaks'[g] <= 1 /\ NoticesOf(g)' <= streaks'[g]
  <2>1. \A v \in Runs \ {w} : ~AtEffects(v, g)'
    BY <1>3, <1>i DEF Aside
  <2>2. /\ streaks'[g] = 1 /\ NoticesOf(g)' = 0 /\ status'[g] \in Settled
        /\ run'[w].verdict = status'[g]
    BY <1>3, <1>i, <1>f, <1>s
  <2> QED
    BY <1>3, <2>1, <2>2
<1>4. ASSUME NEW w \in Runs, \A v \in Runs \ {w} : Aside(v, g),
             AtEffects(w, g), run[w].pc = "notify", run'[w].pc = "release",
             streaks'[g] = streaks[g],
             \/ notices'[g] = notices[g]
             \/ \E v \in Settled : notices'[g] = [notices[g] EXCEPT ![v] = @ + 1]
      PROVE  /\ \A v \in Runs : ~AtEffects(v, g)'
             /\ status'[g] \in Settled
             /\ streaks'[g] <= 1 /\ NoticesOf(g)' <= streaks'[g]
  <2>1. \A v \in Runs : ~AtEffects(v, g)'
    BY <1>4, <1>i DEF Aside, AtEffects
  <2>2. /\ streaks'[g] = 1 /\ NoticesOf(g) = 0 /\ status'[g] \in Settled
    BY <1>4, <1>i, <1>f
  <2>3. NoticesOf(g)' <= 1
    <3>1. CASE notices'[g] = notices[g]
      BY <1>s, <2>2, <3>1
    <3>2. ASSUME NEW v \in Settled,
                 notices'[g] = [notices[g] EXCEPT ![v] = @ + 1]
          PROVE  NoticesOf(g)' <= 1
      <4>1. notices[g]["achieved"] = 0 /\ notices[g]["failed"] = 0
        BY <1>t, <2>2 DEF NoticesOf
      <4> QED
        BY <1>t, <3>2, <4>1 DEF NoticesOf, Settled
    <3> QED
      BY <1>4, <3>1, <3>2
  <2> QED
    BY <2>1, <2>2, <2>3
<1> QED
  BY <1>1, <1>2, <1>3, <1>4, AllEffectMoves DEF EffectMoves

-----------------------------------------------------------------------------
\* Nothing is settled or under way at first.
LEMMA FinalityInit == Init => FinalityInv
<1> SUFFICES ASSUME Init PROVE FinalityInv
  OBVIOUS
<1> USE DEF Init, StoreInit, JobsInit, RequestsInit
<1>1. SubmitsInTime
  BY DEF SubmitsInTime, InFlight, FreshRequest
<1>2. EffectsInOrder
  BY DEF EffectsInOrder, AtEffects, IdleRun, NoticesOf, Settled
<1> QED
  BY <1>1, <1>2 DEF FinalityInv

\* Every step keeps FinalityInv.
LEMMA FinalityStep ==
    ASSUME Rescores = {}, TypeOK, TypeOK', EvidenceInv, FinalityInv, [Next]_vars
    PROVE  FinalityInv'
BY SubmitsStep, EffectsStep DEF FinalityInv

\* Every submission is over before the worker may look at its goal, and,
\* without rescores, the run that settles a goal is the only one to act on it.
THEOREM FinalityCorrect ==
    ASSUME Rescores = {} PROVE Spec => []FinalityInv
<1>1. TypeOK /\ TypeOK' /\ EvidenceInv /\ FinalityInv /\ [Next]_vars
        => FinalityInv'
  BY FinalityStep
<1> QED
  BY FinalityInit, TypeCorrect, EvidenceCorrect, <1>1, PTL DEF Spec

\* Without rescores, no step takes back or changes the status of a goal that
\* has been achieved or failed, or adds a proof to it.
THEOREM SettledStaysCorrect ==
    ASSUME Rescores = {} PROVE Spec => SettledStays
<1>1. TypeOK /\ EvidenceInv /\ FinalityInv /\ [Next]_vars
        => [\A g \in Goals : status[g] \in Settled =>
              status'[g] = status[g] /\ (HasProof(g)' <=> HasProof(g))]_vars
  BY StatusFinal, ProofsFinal DEF FinalityInv
<1> QED
  BY TypeCorrect, EvidenceCorrect, FinalityCorrect, <1>1, PTL
     DEF Spec, SettledStays

\* Without rescores, a goal's end counts for the streak at most once and is
\* notified at most once, whatever is retried, stalled, expired or killed.
THEOREM EffectsAtMostOnceCorrect ==
    ASSUME Rescores = {} PROVE Spec => []EffectsAtMostOnce
<1>1. FinalityInv => EffectsAtMostOnce
  BY DEF FinalityInv, EffectsInOrder, EffectsAtMostOnce
<1> QED
  BY FinalityCorrect, <1>1, PTL

-----------------------------------------------------------------------------
(***************************************************************************)
(*                               The contract                              *)
(***************************************************************************)

\* The steps that do something to the contract's state; all others stutter.
LEMMA WhoActs ==
    ASSUME Rescores = {}, EvidenceInv, [Next]_vars
    PROVE  \/ UNCHANGED <<now, storeVars, effectVars>>
           \/ Tick
           \/ \E g \in Goals, d \in 1..MaxDeadline : CreateManifestation(g, d)
           \/ \E r \in Submits : StoreProof(r)
           \/ \E w \in Runs : Finalize(w) \/ UpdateStreak(w) \/ Notify(w)
<1>1. CASE UNCHANGED vars
  BY <1>1 DEF vars
<1>2. ASSUME NEW g \in Goals,
             \/ ScheduleJobs(g) \/ LeaveUnscheduled(g)
             \/ \E r \in Submits : StartSubmit(r, g)
             \/ LockExpire(g) \/ RecoverOrphan(g) \/ StallLiveRun(g)
      PROVE  UNCHANGED <<now, storeVars, effectVars>>
  BY <1>2 DEF ScheduleJobs, LeaveUnscheduled, StartSubmit, LockExpire,
              RecoverOrphan, StallLiveRun
<1>3. ASSUME NEW r \in Submits, RequestStep(r) \/ Abandon(r)
      PROVE  \/ UNCHANGED <<now, storeVars, effectVars>>
             \/ StoreProof(r)
  BY <1>3 DEF RequestStep, CheckExisting, DuplicateProof, SaveRejected,
              SaveFindsSame, SaveFindsChange, SaveWrites, Abandon, EvidenceInv,
              OnlyRescoresWrite
<1>4. ASSUME NEW w \in Runs,
             RunStep(w) \/ RunFault(w) \/ \E g \in Goals : Pick(w, g)
      PROVE  \/ UNCHANGED <<now, storeVars, effectVars>>
             \/ Finalize(w) \/ UpdateStreak(w) \/ Notify(w)
  BY <1>4 DEF RunStep, RunFault, Pick, AcquireLock, SkipHeldLock, LockError,
              FinalizeIgnored, DbError, Release, ReleaseError
<1>5. CASE CrashWorker
  BY <1>5 DEF CrashWorker
<1> QED
  BY <1>1, <1>2, <1>3, <1>4, <1>5, StepCases

-----------------------------------------------------------------------------
(* What leaves each part of the contract's state alone *)

\* A goal's evidence depends on the proofs alone.
LEMMA SameEvidence ==
    ASSUME UNCHANGED <<deadline, proofs>>
    PROVE  [g \in Goals |-> EvidenceOf(g)]' = [g \in Goals |-> EvidenceOf(g)]
BY DEF EvidenceOf, TimelyProof, HasProof

\* Whether a goal is due depends on its deadline and the clock alone.
LEMMA SameDue ==
    ASSUME UNCHANGED <<now, deadline>>,
           \A g \in Goals : status'[g] = "none" <=> status[g] = "none"
    PROVE  [g \in Goals |-> Overdue(g)]' = [g \in Goals |-> Overdue(g)]
BY DEF Overdue, DeadlineCheckAt

\* Who was told depends on the notices alone.
LEMMA SameTold ==
    ASSUME UNCHANGED notices
    PROVE  [g \in Goals |-> ToldOf(g)]' = [g \in Goals |-> ToldOf(g)]
BY DEF ToldOf

\* What was counted depends on the streaks alone.
LEMMA SameCounted ==
    ASSUME UNCHANGED streaks
    PROVE  [g \in Goals |-> streaks[g] > 0]' = [g \in Goals |-> streaks[g] > 0]
OBVIOUS

\* A run at the effects of a goal is a run of an overdue goal.
LEMMA EffectsOfOverdue ==
    ASSUME TypeOK, EvidenceInv, NEW w \in Runs, run[w].pc # "idle"
    PROVE  run[w].goal \in Goals /\ Overdue(run[w].goal)
BY DEF EvidenceInv, RunsAreDue, TypeOK, JobsTypeOK, RunRows

-----------------------------------------------------------------------------
(* One lemma per concrete step *)

\* create opens the goal of the contract.
LEMMA CreateOpens ==
    ASSUME TypeOK, EvidenceInv, NEW g \in Goals, NEW d \in 1..MaxDeadline,
           CreateManifestation(g, d)
    PROVE  Contract!Open(g)
<1>1. /\ status[g] = "none" /\ status' = [status EXCEPT ![g] = "pending"]
      /\ deadline' = [deadline EXCEPT ![g] = d] /\ d > now
      /\ UNCHANGED <<now, proofs, streaks, notices>>
  BY DEF CreateManifestation, InsertManifestation, Ahead, effectVars
<1>2. /\ now \in Nat /\ d \in Nat /\ Grace \in Nat
      /\ status \in [Goals -> Statuses] /\ deadline \in [Goals -> Nat]
  BY StoreAssumption, RequestsAssumption DEF TypeOK, StoreTypeOK
<1>3. \A h \in Goals : EvidenceOf(h)' = EvidenceOf(h)
  <2>1. \A p \in proofs : p.goal # g
    BY <1>1 DEF EvidenceInv, GoalsExist
  <2> QED
    BY <1>1, <1>2, <2>1 DEF EvidenceOf, TimelyProof, HasProof
<1>4. ASSUME NEW h \in Goals PROVE Overdue(h)' = Overdue(h)
  <2>1. CASE h = g
    BY <1>1, <1>2, <2>1 DEF Overdue, DeadlineCheckAt
  <2>2. CASE h # g
    BY <1>1, <1>2, <2>2 DEF Overdue, DeadlineCheckAt
  <2> QED
    BY <2>1, <2>2
<1>5. /\ [h \in Goals |-> EvidenceOf(h)]' = [h \in Goals |-> EvidenceOf(h)]
      /\ [h \in Goals |-> Overdue(h)]' = [h \in Goals |-> Overdue(h)]
  BY <1>3, <1>4
<1> QED
  BY <1>1, <1>5, SameTold, SameCounted DEF Contract!Open

\* A stored proof proves it.
LEMMA StoreProves ==
    ASSUME TypeOK, EvidenceInv, FinalityInv, NEW r \in Submits, StoreProof(r),
           NEW h \in Goals, h = req[r].goal
    PROVE  Contract!Prove(h)
<1> DEFINE p == [goal |-> h, req |-> r, at |-> now]
<1>1. InFlight(r) /\ ~Overdue(h) /\ status[h] # "none"
  <2>1. InFlight(r)
    BY DEF StoreProof, InFlight
  <2> QED
    BY <2>1, NotOverdue DEF FinalityInv, EvidenceInv, GoalsExist
<1>2. /\ proofs' = proofs \cup {p} /\ ~HasProof(h)
      /\ UNCHANGED <<now, status, deadline, streaks, notices>>
  BY DEF StoreProof, InsertProof, ProofIsUnique, effectVars
<1>3. EvidenceOf(h) = "none"
  BY <1>2, TimelyIsProof, <1>1 DEF EvidenceOf
<1>4. EvidenceOf(h)' \in {"timely", "late"}
  <2>1. p \in proofs' /\ p.goal = h
    BY <1>2
  <2>2. \E q \in proofs' : q.goal = h
    BY <2>1
  <2> HIDE DEF p
  <2> QED
    BY <2>2 DEF EvidenceOf, HasProof
<1>5. ASSUME NEW g \in Goals, g # h PROVE EvidenceOf(g)' = EvidenceOf(g)
  <2>1. p.goal = h
    OBVIOUS
  <2> HIDE DEF p
  <2>2. \A q : (q \in proofs' /\ q.goal = g) <=> (q \in proofs /\ q.goal = g)
    BY <1>2, <1>5, <2>1
  <2> QED
    BY <1>2, <2>2 DEF EvidenceOf, TimelyProof, HasProof
<1>6. PICK e \in {"timely", "late"} : EvidenceOf(h)' = e
  BY <1>4
<1> HIDE DEF p
<1>7. [g \in Goals |-> EvidenceOf(g)]' =
        [[g \in Goals |-> EvidenceOf(g)] EXCEPT ![h] = e]
  BY <1>5, <1>6
<1>8. [g \in Goals |-> Overdue(g)]' = [g \in Goals |-> Overdue(g)]
  BY <1>2, SameDue
<1> QED
  BY <1>1, <1>2, <1>3, <1>7, <1>8, SameTold, SameCounted DEF Contract!Prove

\* A step that only writes a settled status leaves the rest of the contract's state.
LEMMA StatusOnly ==
    ASSUME TypeOK, NEW h \in Goals, status[h] # "none", NEW s \in Settled,
           WriteStatus(h, s), UNCHANGED <<now, effectVars>>
    PROVE  /\ status' = [status EXCEPT ![h] = s]
           /\ [g \in Goals |-> EvidenceOf(g)]' = [g \in Goals |-> EvidenceOf(g)]
           /\ [g \in Goals |-> Overdue(g)]' = [g \in Goals |-> Overdue(g)]
           /\ [g \in Goals |-> streaks[g] > 0]' = [g \in Goals |-> streaks[g] > 0]
           /\ [g \in Goals |-> ToldOf(g)]' = [g \in Goals |-> ToldOf(g)]
<1>1. \A g \in Goals : status'[g] = "none" <=> status[g] = "none"
  BY DEF WriteStatus, TypeOK, StoreTypeOK, Settled
<1> QED
  BY <1>1, SameEvidence, SameDue, SameTold, SameCounted DEF WriteStatus, effectVars

\* finalizeByDeadline settles it.
LEMMA FinalizeSettles ==
    ASSUME TypeOK, EvidenceInv, NEW w \in Runs, Finalize(w),
           NEW h \in Goals, h = run[w].goal
    PROVE  Contract!Achieve(h) \/ Contract!Fail(h)
<1>1. /\ status[h] = "pending" /\ WriteStatus(h, VerdictFor(h))
      /\ UNCHANGED <<now, effectVars>>
  BY DEF Finalize, StillPending
<1>2. Overdue(h)
  BY EffectsOfOverdue DEF Finalize
<1>3. CASE TimelyProof(h)
  <2>1. VerdictFor(h) = "achieved" /\ EvidenceOf(h) = "timely"
    BY <1>3 DEF VerdictFor, EvidenceOf
  <2> QED
    BY <1>1, <1>2, <2>1, StatusOnly DEF Contract!Achieve, Settled
<1>4. CASE ~TimelyProof(h)
  <2>1. VerdictFor(h) = "failed" /\ EvidenceOf(h) # "timely"
    BY <1>4 DEF VerdictFor, EvidenceOf
  <2> QED
    BY <1>1, <1>2, <2>1, StatusOnly DEF Contract!Fail, Settled
<1> QED
  BY <1>3, <1>4

\* updateStreak counts it.
LEMMA StreakCounts ==
    ASSUME TypeOK, EvidenceInv, FinalityInv, NEW w \in Runs, UpdateStreak(w),
           NEW h \in Goals, h = run[w].goal
    PROVE  Contract!Count(h)
<1>1. /\ run[w].pc = "streak" /\ streaks' = [streaks EXCEPT ![h] = @ + 1]
      /\ UNCHANGED <<now, status, deadline, proofs, notices>>
  BY DEF UpdateStreak, storeVars
<1>2. Overdue(h)
  BY <1>1, EffectsOfOverdue
<1>3. streaks[h] = 0 /\ status[h] \in Settled
  BY <1>1, <1>2 DEF FinalityInv, EffectsInOrder, AtEffects
<1>4. streaks \in [Goals -> Nat]
  BY DEF TypeOK, JobsTypeOK
<1>5. [g \in Goals |-> streaks[g] > 0]' =
        [[g \in Goals |-> streaks[g] > 0] EXCEPT ![h] = TRUE]
  <2>1. streaks'[h] > 0 /\ \A g \in Goals : g # h => streaks'[g] = streaks[g]
    BY <1>1, <1>2, <1>3, <1>4
  <2> QED
    BY <2>1, Zenon
<1>6. ~(streaks[h] > 0)
  BY <1>3
<1> QED
  BY <1>1, <1>2, <1>3, <1>5, <1>6, SameEvidence, SameDue, SameTold
     DEF Contract!Count, Settled

\* notify tells its owner.
LEMMA NotifyTells ==
    ASSUME TypeOK, EvidenceInv, FinalityInv, NEW w \in Runs, Notify(w),
           NEW h \in Goals, h = run[w].goal, NEW v, v = run[w].verdict
    PROVE  Contract!Tell(h) \/ UNCHANGED Contract!contractVars
<1>1. /\ run[w].pc = "notify"
      /\ UNCHANGED <<now, status, deadline, proofs, streaks>>
      /\ notices' = notices \/ notices' = [notices EXCEPT ![h][v] = @ + 1]
  BY DEF Notify, storeVars
<1>2. Overdue(h)
  BY <1>1, EffectsOfOverdue
<1>3. streaks[h] = 1 /\ NoticesOf(h) = 0 /\ v = status[h] /\ v \in Settled
  BY <1>1, <1>2 DEF FinalityInv, EffectsInOrder, AtEffects
<1>4. /\ notices \in [Goals -> [Settled -> Nat]] /\ notices[h] \in [Settled -> Nat]
      /\ notices[h]["achieved"] \in Nat /\ notices[h]["failed"] \in Nat
  BY <1>2 DEF TypeOK, JobsTypeOK, Settled
<1>5. notices[h]["achieved"] = 0 /\ notices[h]["failed"] = 0
  BY <1>3, <1>4 DEF NoticesOf
<1>6. CASE notices' = notices
  BY <1>1, <1>6, SameEvidence, SameDue, SameTold, SameCounted
     DEF Contract!contractVars
<1>7. CASE notices' = [notices EXCEPT ![h][v] = @ + 1]
  <2>1. ToldOf(h) = "none" /\ streaks[h] > 0
    BY <1>3, <1>5 DEF ToldOf
  <2>2. notices'[h] = [notices[h] EXCEPT ![v] = @ + 1]
    BY <1>2, <1>4, <1>7
  <2>3. ToldOf(h)' = v
    BY <1>3, <1>4, <1>5, <2>2 DEF ToldOf, Settled
  <2>4. \A g \in Goals : g # h => ToldOf(g)' = ToldOf(g)
    BY <1>4, <1>7 DEF ToldOf
  <2>5. [g \in Goals |-> ToldOf(g)]' =
          [[g \in Goals |-> ToldOf(g)] EXCEPT ![h] = status[h]]
    BY <1>3, <2>3, <2>4
  <2> QED
    BY <1>1, <1>2, <2>1, <2>5, SameEvidence, SameDue, SameCounted
       DEF Contract!Tell
<1> QED
  BY <1>1, <1>6, <1>7

\* A tick may make goals fall due.
LEMMA TickFallsDue ==
    ASSUME TypeOK, EvidenceInv, Tick PROVE Contract!FallDue
<1>1. /\ now' = now + 1
      /\ UNCHANGED <<status, deadline, proofs, streaks, notices>>
  BY DEF Tick, Advance, storeVars, effectVars
<1>2. now \in Nat /\ Grace \in Nat /\ deadline \in [Goals -> Nat]
  BY StoreAssumption DEF TypeOK, StoreTypeOK
<1> DEFINE S == {g \in Goals : Overdue(g)'}
<1>3. S \in SUBSET {g \in Goals : status[g] # "none"}
  BY <1>1 DEF Overdue
<1>4. \A g \in Goals : Overdue(g)' = (Overdue(g) \/ g \in S)
  BY <1>1, <1>2 DEF Overdue, DeadlineCheckAt
<1>5. [g \in Goals |-> Overdue(g)]' =
        [g \in Goals |-> [h \in Goals |-> Overdue(h)][g] \/ g \in S]
  BY <1>4
<1> QED
  BY <1>1, <1>3, <1>5, SameEvidence, SameTold, SameCounted DEF Contract!FallDue

-----------------------------------------------------------------------------
\* Initial states map to initial states of the contract.
LEMMA ContractStart == Init => Contract!ContractInit
<1> SUFFICES ASSUME Init PROVE Contract!ContractInit
  OBVIOUS
<1> USE DEF Init, StoreInit, JobsInit
<1>1. \A g \in Goals : EvidenceOf(g) = "none" /\ ToldOf(g) = "none"
  BY DEF EvidenceOf, TimelyProof, HasProof, ToldOf, Settled
<1>2. \A g \in Goals : Overdue(g) = FALSE /\ (streaks[g] > 0) = FALSE
  BY DEF Overdue
<1> QED
  BY <1>1, <1>2 DEF Contract!ContractInit

\* Every step maps to a step of the contract or a stutter.
LEMMA ContractStep ==
    ASSUME Rescores = {}, TypeOK, TypeOK', EvidenceInv, FinalityInv, [Next]_vars
    PROVE  [Contract!ContractNext]_(Contract!contractVars)
<1> USE DEF Contract!ContractNext
<1>1. CASE UNCHANGED <<now, storeVars, effectVars>>
  BY <1>1, SameEvidence, SameDue, SameTold, SameCounted
     DEF Contract!contractVars, storeVars, effectVars
<1>2. CASE Tick
  BY <1>2, TickFallsDue
<1>3. ASSUME NEW g \in Goals, NEW d \in 1..MaxDeadline, CreateManifestation(g, d)
      PROVE  Contract!ContractNext
  BY <1>3, CreateOpens
<1>4. ASSUME NEW r \in Submits, StoreProof(r)
      PROVE  [Contract!ContractNext]_(Contract!contractVars)
  <2>1. PICK h \in Goals : h = req[r].goal
    <3>1. InFlight(r)
      BY <1>4 DEF StoreProof, InFlight
    <3> QED
      BY <3>1, NotOverdue DEF FinalityInv
  <2> QED
    BY <1>4, <2>1, StoreProves
<1>5. ASSUME NEW w \in Runs, Finalize(w) \/ UpdateStreak(w) \/ Notify(w)
      PROVE  [Contract!ContractNext]_(Contract!contractVars)
  <2>1. PICK h \in Goals : h = run[w].goal
    BY <1>5, EffectsOfOverdue DEF Finalize, UpdateStreak, Notify
  <2> QED
    BY <1>5, <2>1, FinalizeSettles, StreakCounts, NotifyTells
<1> QED
  BY <1>1, <1>2, <1>3, <1>4, <1>5, WhoActs

\* Without rescores, GoalLifecycle implements GoalContract: whatever requests,
\* retries, stalls, expired locks and crashes do, a goal is opened, proved,
\* settled by its evidence, counted and announced once each, in this order.
THEOREM KeepsContractCorrect ==
    ASSUME Rescores = {} PROVE Spec => KeepsContract
<1>1. TypeOK /\ TypeOK' /\ EvidenceInv /\ FinalityInv /\ [Next]_vars
        => [Contract!ContractNext]_(Contract!contractVars)
  BY ContractStep
<1> QED
  BY ContractStart, TypeCorrect, EvidenceCorrect, FinalityCorrect, <1>1, PTL
     DEF Spec, KeepsContract, Contract!ContractSpec

=============================================================================
