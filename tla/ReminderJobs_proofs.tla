-------------------------- MODULE ReminderJobs_proofs --------------------------
(***************************************************************************)
(* Proofs about ReminderJobs, for every number of slots, any attempts and  *)
(* stalls, any leads, times and failures.                                  *)
(*                                                                         *)
(* Each kind of reminder has an allowance: one, and one more for each      *)
(* failure its job met.  A reminder stored, a run that may still store     *)
(* one, and a job that a slot may still pick each use one up.              *)
(***************************************************************************)
EXTENDS ReminderJobs, FiniteSetTheorems, TLAPS

-----------------------------------------------------------------------------
(* The invariant *)

\* create has not come to the add of kind k.
NotAdded(k) ==
    adding.next \in {"none", "1d"} \/ (k = "1h" /\ adding.next = "1h")

\* Jobs are added once, and nothing runs before there is a goal.
AddedOnce ==
    /\ \A k \in Kinds : NotAdded(k) => job[k].state = "none"
    /\ status = "none" => /\ adding.next = "none"
                          /\ \A w \in Runs : run[w].pc = "idle"

\* Until a job has met a failure, what runs for it owns it, and a key that is
\* set was set by that run.
KeyIsOwn ==
    \A k \in Kinds : hits[k] = 0 =>
      /\ \A w \in Runs : run[w].pc # "idle" /\ run[w].kind = k => job[k].run = w
      /\ lock[k] => /\ job[k].run # NoRun
                    /\ run[job[k].run].pc \in {"read", "notify", "release"}

\* Runs that may store a reminder, or have it stored by their retry.
Sending(k) ==
    {w \in Runs :
       /\ run[w].kind = k
       /\ \/ run[w].pc \in {"lock", "read", "notify"}
          \/ run[w].pc = "release" /\ ~run[w].ok /\ job[k].run = w}

\* A slot may still pick the job.
Due(k) == job[k].state \in {"none", "waiting"}
          \/ (job[k].state = "active" /\ job[k].run = NoRun)

\* What the job of kind k uses up.
Used(k) == sent[k] + Cardinality(Sending(k)) + (IF Due(k) THEN 1 ELSE 0)

Allowance == \A k \in Kinds : Used(k) <= 1 + hits[k]

\* A run fails in its last step only; one that goes on was not skipped.
OkTillEnd ==
    \A w \in Runs : (run[w].pc # "release" => run[w].ok) /\ run[w].why # "skipped"

\* A run lasts RunTime at most, and notifies only if it read the goal before
\* the deadline; a goal fails Grace ticks after it.
InTime ==
    /\ \A w \in Runs : run[w].pc # "idle" =>
         run[w].since <= now /\ now <= run[w].since + RunTime
    /\ \A w \in Runs : run[w].pc = "notify" => run[w].since < deadline
    /\ status = "failed" => now >= deadline + Grace

RemindersInv ==
    /\ TypeOK /\ AddedOnce /\ KeyIsOwn /\ OkTillEnd /\ Allowance /\ InTime
    /\ SkipsNeedAFault /\ NeverRemindsOfFailed

-----------------------------------------------------------------------------
(* What the steps do *)

\* A job whose state and counts change, and which nobody owns then.
LEMMA Unowned ==
    ASSUME NEW j \in JobRows, NEW s \in {"waiting", "dead"},
           NEW n \in Nat
    PROVE  /\ [j EXCEPT !.state = s, !.run = NoRun, !.attempts = n] \in JobRows
           /\ [j EXCEPT !.state = s, !.run = NoRun, !.stalls = n] \in JobRows
BY DEF JobRows

\* The records that the steps make are rows.
LEMMA Rows ==
    ASSUME RemindersAssumption
    PROVE  /\ NoJob \in JobRows /\ IdleRun \in RunRows
           /\ \A j \in JobRows :
                /\ AfterSuccess(j) \in JobRows /\ AfterSuccess(j).run = NoRun
                /\ AfterSuccess(j).state = "done"
                /\ AfterFailure(j) \in JobRows /\ AfterFailure(j).run = NoRun
                /\ AfterFailure(j).state \in {"waiting", "dead"}
                /\ AfterStall(j) \in JobRows /\ AfterStall(j).run = NoRun
                /\ AfterStall(j).state \in {"waiting", "dead"}
<1>1. NoJob \in JobRows /\ IdleRun \in RunRows
  BY DEF RemindersAssumption, NoJob, IdleRun, JobRows, RunRows, Kinds, Outcomes
<1>2. ASSUME NEW j \in JobRows
      PROVE  /\ AfterSuccess(j) \in JobRows /\ AfterSuccess(j).run = NoRun
             /\ AfterSuccess(j).state = "done"
  BY DEF AfterSuccess, JobRows
<1>3. ASSUME NEW j \in JobRows
      PROVE  /\ AfterFailure(j) \in JobRows /\ AfterFailure(j).run = NoRun
             /\ AfterFailure(j).state \in {"waiting", "dead"}
  <2>1. j.attempts + 1 \in Nat
    BY DEF JobRows
  <2>2. (IF RetryLeft(j) THEN "waiting" ELSE "dead") \in {"waiting", "dead"}
    OBVIOUS
  <2>3. AfterFailure(j) \in JobRows
    BY <2>1, <2>2, Unowned DEF AfterFailure
  <2>4. AfterFailure(j).run = NoRun /\ AfterFailure(j).state \in {"waiting", "dead"}
    BY <2>2 DEF AfterFailure, JobRows
  <2> QED
    BY <2>3, <2>4
<1>4. ASSUME NEW j \in JobRows
      PROVE  /\ AfterStall(j) \in JobRows /\ AfterStall(j).run = NoRun
             /\ AfterStall(j).state \in {"waiting", "dead"}
  <2>1. j.stalls + 1 \in Nat
    BY DEF JobRows
  <2>2. (IF j.stalls < MaxStalled THEN "waiting" ELSE "dead") \in {"waiting", "dead"}
    OBVIOUS
  <2>3. AfterStall(j) \in JobRows
    BY <2>1, <2>2, Unowned DEF AfterStall
  <2>4. AfterStall(j).run = NoRun /\ AfterStall(j).state \in {"waiting", "dead"}
    BY <2>2 DEF AfterStall, JobRows
  <2> QED
    BY <2>3, <2>4
<1> QED
  BY <1>1, <1>2, <1>3, <1>4

\* A row stays one when its place changes.
LEMMA RunRow ==
    ASSUME NEW r \in RunRows,
           NEW pc \in {"idle", "lock", "read", "notify", "release"},
           NEW why \in Outcomes, NEW ok \in BOOLEAN
    PROVE  /\ [r EXCEPT !.pc = pc] \in RunRows
           /\ [r EXCEPT !.pc = pc, !.why = why] \in RunRows
           /\ [r EXCEPT !.pc = pc, !.ok = ok] \in RunRows
BY DEF RunRows

\* The processor of w returns or throws.
LEMMA Finishes ==
    ASSUME RemindersAssumption, TypeOK, NEW w \in Runs, NEW ok \in BOOLEAN,
           Finish(w, ok)
    PROVE  /\ run' \in [Runs -> RunRows] /\ job' \in [Kinds -> JobRows]
           /\ run'[w] = IdleRun
           /\ \A v \in Runs : v # w => run'[v] = run[v]
           /\ \A k \in Kinds : k # run[w].kind \/ job[k].run # w => job'[k] = job[k]
           /\ LET k == run[w].kind IN
              job[k].run = w => job'[k] = IF ok THEN AfterSuccess(job[k])
                                          ELSE AfterFailure(job[k])
<1>1. run \in [Runs -> RunRows] /\ job \in [Kinds -> JobRows]
  BY DEF TypeOK
<1>2. run[w].kind \in Kinds /\ job[run[w].kind] \in JobRows
  BY <1>1 DEF RunRows
<1>3. /\ IdleRun \in RunRows /\ AfterSuccess(job[run[w].kind]) \in JobRows
      /\ AfterFailure(job[run[w].kind]) \in JobRows
  BY <1>2, Rows
<1>4. /\ run' = [run EXCEPT ![w] = IdleRun]
      /\ job' = IF job[run[w].kind].run # w THEN job
                ELSE [job EXCEPT ![run[w].kind] =
                        IF ok THEN AfterSuccess(job[run[w].kind])
                        ELSE AfterFailure(job[run[w].kind])]
  BY <1>1, <1>2 DEF Finish
<1> QED
  BY <1>1, <1>2, <1>3, <1>4

\* A lock keeps its type, and only that of kind k changes.
LEMMA LockMoves ==
    ASSUME TypeOK, NEW k \in Kinds, NEW held \in BOOLEAN, SetLock(k, held)
    PROVE  /\ lock' \in [Kinds -> BOOLEAN] /\ lock'[k] = held
           /\ \A l \in Kinds : l # k => lock'[l] = lock[l]
BY DEF TypeOK, SetLock, LockKey

\* A failure is counted for the kinds that met it.
LEMMA Strikes ==
    ASSUME TypeOK, NEW kinds, Strike(kinds)
    PROVE  /\ faults' \in Nat /\ hits' \in [Kinds -> Nat]
           /\ \A k \in Kinds : hits'[k] = IF k \in kinds THEN hits[k] + 1 ELSE hits[k]
BY DEF TypeOK, Strike

\* A reminder is stored.
LEMMA Tells ==
    ASSUME TypeOK, NEW k \in Kinds, Tell(k)
    PROVE  /\ sent' \in [Kinds -> Nat] /\ failedToo' \in BOOLEAN
           /\ sent'[k] = sent[k] + 1
           /\ \A l \in Kinds : l # k => sent'[l] = sent[l]
           /\ failedToo' = (failedToo \/ status = "failed")
BY DEF TypeOK, Tell

-----------------------------------------------------------------------------
(* The allowance *)

In(w, k) == IF w \in Sending(k) THEN 1 ELSE 0
DueCount(k) == IF Due(k) THEN 1 ELSE 0

\* A set of slots is finite, and w counts in it or not.
LEMMA Counting ==
    ASSUME RemindersAssumption, NEW S \in SUBSET Runs
    PROVE  /\ Cardinality(S) \in Nat
           /\ \A w \in Runs : /\ Cardinality(S \ {w}) \in Nat
                             /\ Cardinality(S) = Cardinality(S \ {w})
                                                 + (IF w \in S THEN 1 ELSE 0)
           /\ \A T \in SUBSET S : Cardinality(T) \in Nat
                                /\ Cardinality(T) <= Cardinality(S)
<1>1. IsFiniteSet(Runs)
  BY DEF RemindersAssumption
<1>2. IsFiniteSet(S) /\ Cardinality(S) \in Nat
  BY <1>1, FS_Subset, FS_CardinalityType
<1>3. ASSUME NEW w \in Runs
      PROVE  /\ Cardinality(S \ {w}) \in Nat
             /\ Cardinality(S) = Cardinality(S \ {w})
                                 + (IF w \in S THEN 1 ELSE 0)
  <2>1. IsFiniteSet(S \ {w}) /\ Cardinality(S \ {w}) \in Nat
    BY <1>2, FS_Subset, FS_CardinalityType
  <2>2. Cardinality(S \ {w}) = IF w \in S THEN Cardinality(S) - 1 ELSE Cardinality(S)
    BY <1>2, FS_RemoveElement
  <2> QED
    BY <1>2, <2>1, <2>2
<1>4. ASSUME NEW T \in SUBSET S
      PROVE  Cardinality(T) \in Nat /\ Cardinality(T) <= Cardinality(S)
  BY <1>2, FS_Subset, FS_CardinalityType
<1> QED
  BY <1>2, <1>3, <1>4

\* A step of slot w on the job of kind k that uses up no more than it is
\* allowed in addition.
LEMMA SlotKeepsAllowance ==
    ASSUME RemindersAssumption, TypeOK, TypeOK', Allowance,
           NEW w \in Runs, NEW k \in Kinds,
           \A v \in Runs : v # w => run'[v] = run[v],
           \A v \in Runs : v # w /\ job'[k].run = v => job[k].run = v,
           \A l \in Kinds : l # k =>
             /\ job'[l] = job[l] /\ sent'[l] = sent[l] /\ hits'[l] = hits[l]
             /\ w \notin Sending(l)' ,
           sent'[k] + In(w, k)' + DueCount(k)' + hits[k]
             <= sent[k] + In(w, k) + DueCount(k) + hits'[k]
    PROVE  Allowance'
<1>1. SUFFICES ASSUME NEW l \in Kinds PROVE Used(l)' <= 1 + hits'[l]
  BY DEF Allowance
<1>2. /\ sent[l] \in Nat /\ sent'[l] \in Nat /\ hits[l] \in Nat /\ hits'[l] \in Nat
      /\ sent[k] \in Nat /\ sent'[k] \in Nat /\ hits[k] \in Nat /\ hits'[k] \in Nat
  BY DEF TypeOK
<1>3. Sending(l) \in SUBSET Runs /\ Sending(l)' \in SUBSET Runs
  BY DEF Sending
<1>4. Sending(l)' \ {w} \subseteq Sending(l) \ {w}
  BY DEF Sending
<1>5. /\ Cardinality(Sending(l)' \ {w}) \in Nat /\ Cardinality(Sending(l) \ {w}) \in Nat
      /\ Cardinality(Sending(l)' \ {w}) <= Cardinality(Sending(l) \ {w})
      /\ Cardinality(Sending(l)) = Cardinality(Sending(l) \ {w}) + In(w, l)
      /\ Cardinality(Sending(l)') = Cardinality(Sending(l)' \ {w}) + In(w, l)'
  <2>1. Sending(l) \ {w} \in SUBSET Runs
    BY <1>3
  <2> QED
    BY <1>3, <1>4, <2>1, Counting DEF In
<1>6. /\ In(w, l) \in {0, 1} /\ In(w, l)' \in {0, 1}
      /\ DueCount(l) \in {0, 1} /\ DueCount(l)' \in {0, 1}
  BY DEF In, DueCount
<1>7. /\ Used(l) = sent[l] + Cardinality(Sending(l)) + DueCount(l)
      /\ Used(l)' = sent'[l] + Cardinality(Sending(l)') + DueCount(l)'
      /\ Used(l) <= 1 + hits[l]
  BY DEF Used, DueCount, Allowance
<1>8. CASE l = k
  BY <1>2, <1>5, <1>6, <1>7, <1>8
<1>9. CASE l # k
  <2>1. In(w, l)' = 0 /\ DueCount(l)' = DueCount(l)
    BY <1>9 DEF In, DueCount, Due
  <2> QED
    BY <1>2, <1>5, <1>6, <1>7, <1>9, <2>1
<1> QED
  BY <1>8, <1>9

\* Other steps make a job due only by a failure, and no run send.
LEMMA OthersKeepAllowance ==
    ASSUME RemindersAssumption, TypeOK, TypeOK', Allowance, sent' = sent,
           \A k \in Kinds : /\ Sending(k)' \subseteq Sending(k)
                            /\ hits'[k] >= hits[k]
                            /\ Due(k)' => Due(k) \/ hits'[k] > hits[k]
    PROVE  Allowance'
<1>1. SUFFICES ASSUME NEW k \in Kinds PROVE Used(k)' <= 1 + hits'[k]
  BY DEF Allowance
<1>2. sent[k] \in Nat /\ hits[k] \in Nat /\ hits'[k] \in Nat
  BY DEF TypeOK
<1>3. Sending(k) \in SUBSET Runs
  BY DEF Sending
<1>4. /\ Cardinality(Sending(k)) \in Nat /\ Cardinality(Sending(k)') \in Nat
      /\ Cardinality(Sending(k)') <= Cardinality(Sending(k))
  BY <1>3, Counting
<1>5. Used(k) <= 1 + hits[k]
  BY DEF Allowance
<1> QED
  BY <1>2, <1>4, <1>5 DEF Used

-----------------------------------------------------------------------------
(* Each step keeps the invariant *)

\* The first state.
LEMMA RemindersInit ==
    ASSUME RemindersAssumption, Init
    PROVE  RemindersInv
<1>1. NoJob \in JobRows /\ IdleRun \in RunRows
  BY Rows
<1>2. TypeOK
  BY <1>1 DEF Init, TypeOK, Statuses, Adds, Outcomes, NoJob
<1>3. AddedOnce /\ KeyIsOwn /\ OkTillEnd /\ InTime
  BY DEF Init, AddedOnce, NotAdded, KeyIsOwn, OkTillEnd, InTime, NoJob, IdleRun
<1>4. SkipsNeedAFault /\ NeverRemindsOfFailed
  BY DEF Init, SkipsNeedAFault, NeverRemindsOfFailed
<1>5. Allowance
  <2>1. SUFFICES ASSUME NEW k \in Kinds PROVE Used(k) <= 1 + hits[k]
    BY DEF Allowance
  <2>2. Sending(k) = {}
    BY DEF Init, Sending, IdleRun
  <2>3. Cardinality(Sending(k)) = 0
    BY <2>2, FS_EmptySet
  <2>4. sent[k] = 0 /\ hits[k] = 0
    BY DEF Init
  <2> QED
    BY <2>3, <2>4 DEF Used
<1> QED
  BY <1>2, <1>3, <1>4, <1>5 DEF RemindersInv

\* Create.
LEMMA CreateKeepsIt ==
    ASSUME RemindersAssumption, RemindersInv,
           NEW d \in 1..MaxDeadline, Create(d)
    PROVE  RemindersInv'
<1> USE DEF RemindersInv, vars, goalVars, jobVars, history, notices
<1>1. TypeOK'
  BY DEF Create, TypeOK, Statuses, Adds, RemindersAssumption
<1>2. AddedOnce' /\ KeyIsOwn' /\ OkTillEnd' /\ InTime'
  <2>1. adding.next = "none" /\ \A w \in Runs : run[w].pc = "idle"
    BY DEF Create, AddedOnce
  <2>2. AddedOnce'
    BY <2>1 DEF Create, AddedOnce, NotAdded
  <2>3. KeyIsOwn' /\ OkTillEnd' /\ InTime'
    BY <2>1 DEF Create, KeyIsOwn, OkTillEnd, InTime
  <2> QED
    BY <2>2, <2>3
<1>3. Allowance'
  BY DEF Create, Allowance, Used, Sending, Due
<1>4. SkipsNeedAFault' /\ NeverRemindsOfFailed'
  BY DEF Create, SkipsNeedAFault, NeverRemindsOfFailed
<1> QED
  BY <1>1, <1>2, <1>3, <1>4

\* AddReminder: the job was not there.
LEMMA AddReminderKeepsIt ==
    ASSUME RemindersAssumption, RemindersInv, NEW k \in Kinds, AddReminder(k)
    PROVE  RemindersInv'
<1> USE DEF RemindersInv, vars, goalVars, jobVars, history, notices
<1>1. job[k].state = "none" /\ job[k].run = NoRun
  BY DEF AddReminder, AddedOnce, NotAdded, Kinds, TypeOK
<1> DEFINE new == [NoJob EXCEPT !.state = "waiting",
                                !.ready = now + RemindAt(k) - adding.began]
<1>2. /\ new \in JobRows /\ new.state = "waiting" /\ new.run = NoRun
      /\ job \in [Kinds -> JobRows]
  <2>1. now + RemindAt(k) - adding.began \in Int
    BY DEF TypeOK, RemindAt, RemindersAssumption
  <2>2. NoJob \in JobRows /\ NoJob.run = NoRun
    BY Rows DEF NoJob
  <2> HIDE DEF RemindersInv
  <2> QED
    BY <2>1, <2>2 DEF JobRows, TypeOK, RemindersInv
<1>3. job' = job \/ job' = [job EXCEPT ![k] = new]
  BY DEF AddReminder
<1> HIDE DEF new
<1>4. /\ job' \in [Kinds -> JobRows] /\ \A l \in Kinds : l # k => job'[l] = job[l]
      /\ job'[k].state \in {"none", "waiting"} /\ job'[k].run = NoRun
  BY <1>1, <1>2, <1>3
<1>5. /\ adding'.next = AddAfter(k) /\ adding' \in [next : Adds, began : Nat]
      /\ adding.next = k
  BY DEF AddReminder, AddAfter, TypeOK, Adds
<1>6. TypeOK'
  BY <1>4, <1>5 DEF AddReminder, TypeOK
<1>7. AddedOnce'
  <2>1. status # "none"
    BY <1>5 DEF AddedOnce, Kinds
  <2> QED
    BY <1>4, <1>5, <2>1 DEF AddReminder, AddedOnce, NotAdded, AddAfter, Kinds
<1>8. KeyIsOwn'
  <2>1. SUFFICES ASSUME NEW l \in Kinds, hits[l] = 0
                 PROVE  /\ job'[l].run = job[l].run
                        /\ \A w \in Runs : run[w].pc # "idle" /\ run[w].kind = l
                                          => job[l].run = w
                        /\ lock[l] => /\ job[l].run # NoRun
                                      /\ run[job[l].run].pc \in {"read", "notify", "release"}
    BY DEF AddReminder, KeyIsOwn
  <2> QED
    BY <1>1, <1>4, <2>1 DEF KeyIsOwn
<1>9. OkTillEnd' /\ InTime' /\ SkipsNeedAFault' /\ NeverRemindsOfFailed'
  BY DEF AddReminder, OkTillEnd, InTime, SkipsNeedAFault, NeverRemindsOfFailed
<1>10. Allowance'
  <2>1. \A l \in Kinds : /\ Sending(l)' \subseteq Sending(l)
                         /\ hits'[l] >= hits[l] /\ (Due(l)' => Due(l))
    <3>1. SUFFICES ASSUME NEW l \in Kinds
                   PROVE  /\ Sending(l)' \subseteq Sending(l)
                          /\ hits'[l] >= hits[l] /\ (Due(l)' => Due(l))
      OBVIOUS
    <3>2. hits' = hits /\ hits[l] \in Nat /\ run' = run
      BY DEF AddReminder, TypeOK
    <3>3. job'[l].run = job[l].run /\ (Due(l)' => Due(l))
      BY <1>1, <1>4 DEF Due
    <3>4. Sending(l)' \subseteq Sending(l)
      BY <3>2, <3>3 DEF Sending
    <3> QED
      BY <3>2, <3>3, <3>4
  <2>2. sent' = sent
    BY DEF AddReminder
  <2> QED
    BY <1>6, <2>1, <2>2, OthersKeepAllowance
<1> QED
  BY <1>6, <1>7, <1>8, <1>9, <1>10

\* AddDeadlineCheck and AddsFail: no job is touched, no hit is counted.
LEMMA OtherAddsKeepIt ==
    ASSUME RemindersAssumption, RemindersInv, AddDeadlineCheck \/ AddsFail
    PROVE  RemindersInv'
<1> USE DEF RemindersInv, vars, goalVars, jobVars, history, notices
<1>1. /\ adding.next \in {"1d", "1h", "deadline"}
      /\ adding'.next \in {"over", "dropped"}
      /\ adding' \in [next : Adds, began : Nat]
  BY DEF AddDeadlineCheck, AddsFail, TypeOK, Adds
<1>2. hits' \in [Kinds -> Nat] /\ faults' \in Nat /\ hits' = hits
  <2>1. CASE AddDeadlineCheck
    BY <2>1 DEF AddDeadlineCheck, TypeOK
  <2>2. CASE AddsFail
    BY <2>2 DEF AddsFail, Strike, TypeOK
  <2> QED
    BY <2>1, <2>2
<1>3. UNCHANGED <<now, status, deadline, job, lock, run, sent, failedToo, outcome>>
  BY DEF AddDeadlineCheck, AddsFail
<1>4. TypeOK'
  BY <1>1, <1>2, <1>3 DEF TypeOK
<1>5. AddedOnce'
  BY <1>1, <1>3 DEF AddedOnce, NotAdded
<1>6. KeyIsOwn' /\ OkTillEnd' /\ InTime' /\ SkipsNeedAFault' /\ NeverRemindsOfFailed'
  BY <1>2, <1>3 DEF KeyIsOwn, OkTillEnd, InTime, SkipsNeedAFault, NeverRemindsOfFailed
<1>7. Allowance'
  <2>1. \A k \in Kinds : /\ Sending(k)' \subseteq Sending(k) /\ hits'[k] >= hits[k]
                         /\ (Due(k)' => Due(k))
    BY <1>2, <1>3 DEF Sending, Due
  <2> QED
    BY <1>3, <1>4, <2>1, OthersKeepAllowance
<1> QED
  BY <1>4, <1>5, <1>6, <1>7

\* The clock, the goal and a key that expires touch no job and no run.
LEMMA OutsideKeepsIt ==
    ASSUME RemindersAssumption, RemindersInv,
           \/ GoalMoves \/ Tick
           \/ \E k \in Kinds : LockExpire(k)
    PROVE  RemindersInv'
<1> USE DEF RemindersInv, vars, goalVars, jobVars, history, notices
<1>1. UNCHANGED <<deadline, adding, job, run, sent, failedToo, outcome, hits, faults>>
  <2> HIDE DEF RemindersInv
  <2>1. CASE GoalMoves
    BY <2>1 DEF GoalMoves
  <2>2. CASE Tick
    BY <2>2 DEF Tick
  <2>3. ASSUME NEW k \in Kinds, LockExpire(k)
        PROVE  UNCHANGED <<deadline, adding, job, run, sent, failedToo, outcome, hits, faults>>
    BY <2>3 DEF LockExpire
  <2> QED
    BY <2>1, <2>2, <2>3
<1>2. /\ now' \in Nat /\ now' >= now
      /\ status' \in Statuses /\ (status' = "none" <=> status = "none")
      /\ lock' \in [Kinds -> BOOLEAN] /\ \A k \in Kinds : lock'[k] => lock[k]
  <2>0. now \in Nat /\ status \in Statuses /\ lock \in [Kinds -> BOOLEAN]
    BY DEF TypeOK
  <2> HIDE DEF RemindersInv
  <2>1. CASE GoalMoves
    BY <2>0, <2>1 DEF GoalMoves, Statuses
  <2>2. CASE Tick
    BY <2>0, <2>2 DEF Tick
  <2>3. ASSUME NEW k \in Kinds, LockExpire(k)
        PROVE  /\ UNCHANGED <<now, status>> /\ lock' \in [Kinds -> BOOLEAN]
               /\ \A l \in Kinds : lock'[l] => lock[l]
    BY <2>0, <2>3 DEF LockExpire
  <2> QED
    BY <2>0, <2>1, <2>2, <2>3
<1>3. TypeOK'
  BY <1>1, <1>2 DEF TypeOK
<1>4. AddedOnce' /\ KeyIsOwn' /\ OkTillEnd' /\ SkipsNeedAFault' /\ NeverRemindsOfFailed'
  <2>1. AddedOnce' /\ OkTillEnd' /\ SkipsNeedAFault' /\ NeverRemindsOfFailed'
    BY <1>1, <1>2 DEF AddedOnce, NotAdded, OkTillEnd, SkipsNeedAFault, NeverRemindsOfFailed
  <2>2. KeyIsOwn'
    BY <1>1, <1>2 DEF KeyIsOwn
  <2> QED
    BY <2>1, <2>2
<1>5. InTime'
  <2>1. CASE GoalMoves
    BY <2>1 DEF GoalMoves, InTime
  <2>2. CASE Tick
    <3>1. now' = now + 1 /\ status' = status
      BY <2>2 DEF Tick
    <3>2. ASSUME NEW w \in Runs, run[w].pc # "idle"
          PROVE  run[w].since <= now' /\ now' <= run[w].since + RunTime
      <4>1. run[w].since \in Nat /\ now \in Nat /\ RunTime \in Nat
        BY DEF TypeOK, RunRows, RemindersAssumption
      <4>2. run[w].since <= now /\ now < run[w].since + RunTime
        BY <2>2, <3>2 DEF Tick, InTime
      <4> QED
        BY <3>1, <4>1, <4>2
    <3>3. status = "failed" => now' >= deadline + Grace
      BY <3>1 DEF InTime, TypeOK, RemindersAssumption
    <3> QED
      BY <1>1, <3>1, <3>2, <3>3 DEF InTime
  <2>3. ASSUME NEW k \in Kinds, LockExpire(k) PROVE InTime'
    BY <2>3 DEF LockExpire, InTime
  <2> QED
    BY <2>1, <2>2, <2>3
<1>6. Allowance'
  BY <1>1 DEF Allowance, Used, Sending, Due
<1> QED
  BY <1>3, <1>4, <1>5, <1>6

\* The stalled check takes a job that nobody owns.
LEMMA RecoverKeepsIt ==
    ASSUME RemindersAssumption, RemindersInv, NEW k \in Kinds, RecoverOrphan(k)
    PROVE  RemindersInv'
<1> USE DEF RemindersInv, vars, goalVars, jobVars, history, notices
<1>1. /\ job' \in [Kinds -> JobRows] /\ \A l \in Kinds : l # k => job'[l] = job[l]
      /\ job'[k].run = NoRun /\ job'[k].state \in {"waiting", "dead"}
      /\ job[k].run = NoRun /\ job[k].state = "active"
  BY Rows DEF RecoverOrphan, TypeOK
<1>2. UNCHANGED <<now, status, deadline, adding, lock, run, sent, failedToo, outcome, hits, faults>>
  BY DEF RecoverOrphan
<1>3. \A l \in Kinds : job'[l].run = job[l].run /\ (Due(l)' => Due(l))
  BY <1>1 DEF Due
<1>4. TypeOK'
  BY <1>1, <1>2 DEF TypeOK
<1>5. AddedOnce' /\ OkTillEnd' /\ InTime' /\ SkipsNeedAFault' /\ NeverRemindsOfFailed'
  BY <1>1, <1>2 DEF AddedOnce, NotAdded, OkTillEnd, InTime, SkipsNeedAFault,
                    NeverRemindsOfFailed
<1>6. KeyIsOwn'
  BY <1>2, <1>3 DEF KeyIsOwn
<1>7. Allowance'
  <2>1. \A l \in Kinds : /\ Sending(l)' \subseteq Sending(l) /\ hits'[l] >= hits[l]
    BY <1>2, <1>3 DEF Sending, TypeOK
  <2> QED
    BY <1>2, <1>3, <1>4, <2>1, OthersKeepAllowance
<1> QED
  BY <1>4, <1>5, <1>6, <1>7

\* The job is taken from a live run: a failure its job met.
LEMMA StallKeepsIt ==
    ASSUME RemindersAssumption, RemindersInv, NEW k \in Kinds, StallLiveRun(k)
    PROVE  RemindersInv'
<1> USE DEF RemindersInv, vars, goalVars, jobVars, history, notices
<1>1. /\ job' \in [Kinds -> JobRows] /\ \A l \in Kinds : l # k => job'[l] = job[l]
      /\ job'[k].run = NoRun /\ job'[k].state \in {"waiting", "dead"}
      /\ job[k].state = "active"
  BY Rows DEF StallLiveRun, TypeOK
<1>2. UNCHANGED <<now, status, deadline, adding, lock, run, sent, failedToo, outcome>>
  BY DEF StallLiveRun
<1>3. /\ faults' \in Nat /\ hits' \in [Kinds -> Nat] /\ hits \in [Kinds -> Nat]
      /\ \A l \in Kinds : l # k => hits'[l] = hits[l]
      /\ hits'[k] = hits[k] + 1
  BY Strikes DEF StallLiveRun, TypeOK
<1>4. TypeOK'
  BY <1>1, <1>2, <1>3 DEF TypeOK
<1>5. AddedOnce' /\ OkTillEnd' /\ InTime' /\ NeverRemindsOfFailed'
  BY <1>1, <1>2 DEF AddedOnce, NotAdded, OkTillEnd, InTime, NeverRemindsOfFailed
<1>6. SkipsNeedAFault'
  BY <1>2, <1>3 DEF SkipsNeedAFault
<1>7. KeyIsOwn'
  <2>1. \A l \in Kinds : hits'[l] = 0 => l # k
    BY <1>3
  <2> QED
    BY <1>1, <1>2, <1>3, <2>1 DEF KeyIsOwn
<1>8. Allowance'
  <2>1. \A l \in Kinds : /\ Sending(l)' \subseteq Sending(l) /\ hits'[l] >= hits[l]
    <3>1. \A l \in Kinds, w \in Runs : job'[l].run = w => job[l].run = w
      BY <1>1 DEF RemindersAssumption
    <3>2. \A l \in Kinds : Sending(l)' \subseteq Sending(l)
      BY <1>2, <3>1 DEF Sending
    <3> QED
      BY <1>3, <3>2
  <2>2. \A l \in Kinds : Due(l)' => Due(l) \/ hits'[l] > hits[l]
    BY <1>1, <1>3 DEF Due
  <2> QED
    BY <1>2, <1>4, <2>1, <2>2, OthersKeepAllowance
<1> QED
  BY <1>4, <1>5, <1>6, <1>7, <1>8

\* The worker dies: no run is left, and the jobs it ran met a failure.
LEMMA CrashKeepsIt ==
    ASSUME RemindersAssumption, RemindersInv, CrashWorker
    PROVE  RemindersInv'
<1> USE DEF RemindersInv, vars, goalVars, jobVars, history, notices
<1> DEFINE struck == {run[w].kind : w \in {v \in Runs : run[v].pc # "idle"}}
<1>1. /\ faults' \in Nat /\ hits' \in [Kinds -> Nat] /\ hits \in [Kinds -> Nat]
      /\ \A k \in Kinds : hits'[k] = IF k \in struck THEN hits[k] + 1 ELSE hits[k]
  BY Strikes DEF CrashWorker, TypeOK
<1>2. UNCHANGED <<now, status, deadline, adding, lock, sent, failedToo, outcome>>
  BY DEF CrashWorker
<1>3. run' \in [Runs -> RunRows] /\ \A w \in Runs : run'[w] = IdleRun
  BY Rows DEF CrashWorker
<1>4. /\ job' \in [Kinds -> JobRows]
      /\ \A k \in Kinds : job'[k].state = job[k].state /\ job'[k].run = NoRun
  <2>1. \A k \in Kinds : job[k] \in JobRows /\ job'[k] = [job[k] EXCEPT !.run = NoRun]
    BY DEF CrashWorker, TypeOK
  <2>2. \A k \in Kinds : /\ job'[k] \in JobRows /\ job'[k].state = job[k].state
                         /\ job'[k].run = NoRun
    BY <2>1 DEF JobRows
  <2> QED
    BY <2>2 DEF CrashWorker
<1>5. \A k \in Kinds : k \notin struck => /\ job[k].run = NoRun
                                         /\ \A w \in Runs : run[w].kind = k => run[w].pc = "idle"
  <2>1. \A k \in Kinds : job[k].run # NoRun => job[k].run \in Runs
    BY DEF TypeOK, JobRows
  <2> QED
    BY <2>1 DEF TypeOK
<1>6. TypeOK'
  BY <1>1, <1>2, <1>3, <1>4 DEF TypeOK
<1>7. AddedOnce' /\ OkTillEnd' /\ InTime' /\ NeverRemindsOfFailed'
  <2>1. IdleRun.pc = "idle" /\ IdleRun.ok = TRUE /\ IdleRun.why # "skipped"
    BY DEF IdleRun
  <2>2. AddedOnce' /\ OkTillEnd' /\ NeverRemindsOfFailed'
    BY <1>2, <1>3, <1>4, <2>1 DEF AddedOnce, NotAdded, OkTillEnd, NeverRemindsOfFailed
  <2>3. InTime'
    BY <1>2, <1>3, <2>1 DEF InTime
  <2> QED
    BY <2>2, <2>3
<1>8. SkipsNeedAFault'
  BY <1>1, <1>2 DEF SkipsNeedAFault
<1>9. KeyIsOwn'
  <2>1. SUFFICES ASSUME NEW k \in Kinds, hits'[k] = 0 PROVE ~lock'[k]
    BY <1>3 DEF KeyIsOwn, IdleRun
  <2>2. hits[k] = 0 /\ k \notin struck
    BY <1>1, <2>1
  <2> HIDE DEF struck
  <2> QED
    BY <1>2, <1>5, <2>2 DEF KeyIsOwn
<1>10. Allowance'
  <2>1. \A k \in Kinds : Sending(k)' = {}
    BY <1>3 DEF Sending, IdleRun
  <2>2. \A k \in Kinds : hits'[k] >= hits[k]
    BY <1>1
  <2>3. ASSUME NEW k \in Kinds, Due(k)' PROVE Due(k) \/ hits'[k] > hits[k]
    <3>1. CASE k \in struck
      BY <1>1, <3>1
    <3>2. CASE k \notin struck
      BY <1>4, <1>5, <2>3, <3>2 DEF Due
    <3> QED
      BY <3>1, <3>2
  <2> QED
    BY <1>2, <1>6, <2>1, <2>2, <2>3, OthersKeepAllowance
<1> QED
  BY <1>6, <1>7, <1>8, <1>9, <1>10

\* A slot picks a job that waits: nobody ran it, unless it met a failure.
LEMMA PickKeepsIt ==
    ASSUME RemindersAssumption, RemindersInv, NEW w \in Runs, NEW k \in Kinds,
           Pick(w, k)
    PROVE  RemindersInv'
<1> USE DEF RemindersInv, vars, goalVars, jobVars, history, notices
<1>1. /\ run[w].pc = "idle" /\ job[k].state = "waiting" /\ job[k].run = NoRun
      /\ run \in [Runs -> RunRows] /\ job \in [Kinds -> JobRows] /\ w # NoRun
  BY DEF Pick, TypeOK, RemindersAssumption
<1>2. UNCHANGED <<now, status, deadline, adding, lock, sent, failedToo, outcome, hits, faults>>
  BY DEF Pick
<1> DEFINE row == [IdleRun EXCEPT !.pc = "lock", !.kind = k, !.since = now]
<1>3. /\ row \in RunRows /\ row.pc = "lock" /\ row.kind = k /\ row.since = now
      /\ row.ok /\ row.why # "skipped"
  BY DEF IdleRun, RunRows, Outcomes, TypeOK
<1>4. run' = [run EXCEPT ![w] = row]
  BY DEF Pick
<1> HIDE DEF row
<1>5. /\ run' \in [Runs -> RunRows] /\ run'[w] = row
      /\ \A v \in Runs : v # w => run'[v] = run[v]
  BY <1>1, <1>3, <1>4
<1>6. /\ job' \in [Kinds -> JobRows] /\ \A l \in Kinds : l # k => job'[l] = job[l]
      /\ job'[k].state = "active" /\ job'[k].run = w
  <2>1. job' = [job EXCEPT ![k] = [@ EXCEPT !.state = "active", !.run = w]]
    BY <1>1 DEF Pick
  <2>2. [job[k] EXCEPT !.state = "active", !.run = w] \in JobRows
    BY <1>1 DEF JobRows
  <2>3. /\ [job[k] EXCEPT !.state = "active", !.run = w].state = "active"
        /\ [job[k] EXCEPT !.state = "active", !.run = w].run = w
    BY <1>1 DEF JobRows
  <2> QED
    BY <1>1, <2>1, <2>2, <2>3
<1>7. TypeOK'
  <2>1. ASSUME NEW l \in Kinds, job'[l].run # NoRun
        PROVE  /\ job'[l].state = "active"
               /\ run'[job'[l].run].pc # "idle" /\ run'[job'[l].run].kind = l
    <3>1. CASE l = k
      BY <1>3, <1>5, <1>6, <3>1
    <3>2. CASE l # k
      <4>1. /\ job[l].run # NoRun /\ job[l].run \in Runs /\ job'[l] = job[l]
        BY <1>1, <1>6, <2>1, <3>2 DEF JobRows
      <4> QED
        BY <1>1, <1>5, <4>1 DEF TypeOK
    <3> QED
      BY <3>1, <3>2
  <2> QED
    BY <1>2, <1>5, <1>6, <2>1 DEF TypeOK
<1>8. AddedOnce'
  BY <1>1, <1>2, <1>3, <1>5, <1>6 DEF AddedOnce, NotAdded
<1>9. OkTillEnd' /\ SkipsNeedAFault' /\ NeverRemindsOfFailed'
  BY <1>2, <1>3, <1>5 DEF OkTillEnd, SkipsNeedAFault, NeverRemindsOfFailed
<1>10. InTime'
  <2>1. now \in Nat /\ RunTime \in Nat
    BY DEF TypeOK, RemindersAssumption
  <2> QED
    BY <1>2, <1>3, <1>5, <2>1 DEF InTime
<1>11. KeyIsOwn'
  <2>1. SUFFICES ASSUME NEW l \in Kinds, hits[l] = 0
                 PROVE  /\ \A v \in Runs : run'[v].pc # "idle" /\ run'[v].kind = l
                                          => job'[l].run = v
                        /\ lock[l] => /\ job'[l].run # NoRun
                                      /\ run'[job'[l].run].pc \in {"read", "notify", "release"}
    BY <1>2 DEF KeyIsOwn
  <2>2. /\ \A v \in Runs : run[v].pc # "idle" /\ run[v].kind = l => job[l].run = v
        /\ lock[l] => /\ job[l].run # NoRun
                      /\ run[job[l].run].pc \in {"read", "notify", "release"}
        /\ job[l].run # NoRun => job[l].run \in Runs
    BY <1>1, <2>1 DEF KeyIsOwn, JobRows
  <2> HIDE DEF RemindersInv
  <2>3. CASE l = k
    <3>1. ~lock[l] /\ \A v \in Runs : v # NoRun
      BY <1>1, <2>2, <2>3 DEF RemindersAssumption
    <3> QED
      BY <1>1, <1>5, <1>6, <2>2, <2>3, <3>1
  <2>4. CASE l # k
    <3>1. job'[l] = job[l] /\ run'[w].kind # l
      BY <1>3, <1>5, <1>6, <2>4
    <3>2. lock[l] => job[l].run \in Runs /\ job[l].run # w
      BY <1>1, <2>2
    <3> QED
      BY <1>5, <2>2, <3>1, <3>2
  <2> QED
    BY <2>3, <2>4
<1>12. Allowance'
  <2>1. w \notin Sending(k) /\ w \in Sending(k)' /\ Due(k) /\ ~Due(k)'
    BY <1>1, <1>3, <1>5, <1>6 DEF Sending, Due
  <2>2. sent[k] \in Nat /\ hits[k] \in Nat
    BY DEF TypeOK
  <2>3. sent'[k] + In(w, k)' + DueCount(k)' + hits[k]
             <= sent[k] + In(w, k) + DueCount(k) + hits'[k]
    BY <1>2, <2>1, <2>2 DEF In, DueCount
  <2>4. \A l \in Kinds : l # k => w \notin Sending(l)'
    BY <1>3, <1>5 DEF Sending
  <2>5. \A v \in Runs : v # w /\ job'[k].run = v => job[k].run = v
    BY <1>6
  <2> QED
    BY <1>2, <1>5, <1>6, <1>7, <2>3, <2>4, <2>5, SlotKeepsAllowance
<1> QED
  BY <1>7, <1>8, <1>9, <1>10, <1>11, <1>12

\* AcquireLock: the run goes on to read the goal, and its key is set.
LEMMA AcquireKeepsIt ==
    ASSUME RemindersAssumption, RemindersInv, NEW w \in Runs, AcquireLock(w)
    PROVE  RemindersInv'
<1> USE DEF RemindersInv, vars, goalVars, jobVars, history, notices
<1>1. /\ run[w].pc = "lock" /\ run[w].kind \in Kinds
      /\ run \in [Runs -> RunRows] /\ job \in [Kinds -> JobRows]
  BY DEF AcquireLock, TypeOK, RunRows
<1>2. UNCHANGED <<now, status, deadline, adding, job, sent, failedToo, outcome, hits, faults>>
  BY DEF AcquireLock
<1>3. /\ lock' \in [Kinds -> BOOLEAN]
      /\ \A l \in Kinds : l # run[w].kind => lock'[l] = lock[l]
  BY <1>1, LockMoves DEF AcquireLock
<1>4. /\ run' \in [Runs -> RunRows]
      /\ run'[w].pc = "read" /\ run'[w].kind = run[w].kind
      /\ run'[w].since = run[w].since /\ run'[w].ok = run[w].ok
      /\ run'[w].why = run[w].why
      /\ \A v \in Runs : v # w => run'[v] = run[v]
  <2>1. /\ run' = [run EXCEPT ![w] = [run[w] EXCEPT !.pc = "read"]]
        /\ run[w] \in RunRows
    BY <1>1 DEF AcquireLock
  <2> DEFINE row == [run[w] EXCEPT !.pc = "read"]
  <2>2. /\ row \in RunRows /\ row.pc = "read" /\ row.kind = run[w].kind
        /\ row.since = run[w].since /\ row.ok = run[w].ok /\ row.why = run[w].why
    BY <2>1 DEF RunRows
  <2> HIDE DEF row, RemindersInv
  <2> QED
    BY <1>1, <2>1, <2>2 DEF row
<1>5. TypeOK'
  <2>1. \A v \in Runs : /\ (run'[v].pc = "idle" <=> run[v].pc = "idle")
                        /\ run'[v].kind = run[v].kind
    BY <1>1, <1>4
  <2>2. \A l \in Kinds : job[l].run # NoRun => job[l].run \in Runs
    BY <1>1 DEF JobRows
  <2> QED
    BY <1>2, <1>3, <1>4, <2>1, <2>2 DEF TypeOK
<1>6. AddedOnce' /\ OkTillEnd' /\ InTime' /\ SkipsNeedAFault' /\ NeverRemindsOfFailed'
  <2>1. AddedOnce' /\ SkipsNeedAFault' /\ NeverRemindsOfFailed'
    BY <1>1, <1>2, <1>4 DEF AddedOnce, NotAdded, SkipsNeedAFault, NeverRemindsOfFailed
  <2>2. OkTillEnd' /\ InTime'
    BY <1>1, <1>2, <1>4 DEF OkTillEnd, InTime
  <2> QED
    BY <2>1, <2>2
<1>7. KeyIsOwn'
  <2>1. SUFFICES ASSUME NEW l \in Kinds, hits[l] = 0
                 PROVE  /\ \A v \in Runs : run'[v].pc # "idle" /\ run'[v].kind = l
                                          => job[l].run = v
                        /\ lock'[l] => /\ job[l].run # NoRun
                                       /\ run'[job[l].run].pc \in {"read", "notify", "release"}
    BY <1>2 DEF KeyIsOwn
  <2>2. \A v \in Runs : run'[v].pc # "idle" /\ run'[v].kind = l => job[l].run = v
    BY <1>1, <1>4, <2>1 DEF KeyIsOwn
  <2>3. w # NoRun /\ (job[l].run # NoRun => job[l].run \in Runs)
    BY <1>1 DEF JobRows, RemindersAssumption
  <2>4. CASE l = run[w].kind
    BY <1>1, <1>4, <2>2, <2>3, <2>4
  <2>5. CASE l # run[w].kind
    <3>1. lock'[l] => /\ job[l].run # NoRun
                      /\ run[job[l].run].pc \in {"read", "notify", "release"}
      BY <1>3, <2>1, <2>5 DEF KeyIsOwn
    <3> QED
      BY <1>4, <2>2, <2>3, <3>1
  <2> QED
    BY <2>4, <2>5
<1>8. Allowance'
  <2>1. \A k \in Kinds : Sending(k)' \subseteq Sending(k)
    BY <1>1, <1>2, <1>4 DEF Sending
  <2>2. \A k \in Kinds : hits'[k] >= hits[k] /\ (Due(k)' => Due(k))
    BY <1>2 DEF Due, TypeOK
  <2> QED
    BY <1>2, <1>5, <2>1, <2>2, OthersKeepAllowance
<1> QED
  BY <1>5, <1>6, <1>7, <1>8

\* ReadGoal: the run goes on to notify only before the deadline.
LEMMA ReadKeepsIt ==
    ASSUME RemindersAssumption, RemindersInv, NEW w \in Runs, ReadGoal(w)
    PROVE  RemindersInv'
<1> USE DEF RemindersInv, vars, goalVars, jobVars, history, notices
<1>1. /\ run[w].pc = "read" /\ run[w].kind \in Kinds /\ run[w].ok
      /\ run \in [Runs -> RunRows] /\ job \in [Kinds -> JobRows]
  BY DEF ReadGoal, TypeOK, RunRows, OkTillEnd
<1>2. UNCHANGED <<now, status, deadline, adding, job, lock, sent, failedToo, outcome, hits, faults>>
  BY DEF ReadGoal
<1>3. /\ run' \in [Runs -> RunRows]
      /\ run'[w].pc \in {"notify", "release"} /\ run'[w].kind = run[w].kind
      /\ run'[w].since = run[w].since /\ run'[w].ok = run[w].ok
      /\ run'[w].why # "skipped"
      /\ run'[w].pc = "notify" => deadline > now
      /\ \A v \in Runs : v # w => run'[v] = run[v]
  <2> DEFINE ended(why) == [run[w] EXCEPT !.pc = "release", !.why = why]
             goesOn == [run[w] EXCEPT !.pc = "notify"]
  <2>1. run[w] \in RunRows /\ deadline \in Nat /\ now \in Nat
    BY <1>1 DEF TypeOK
  <2>2. /\ goesOn \in RunRows /\ goesOn.pc = "notify" /\ goesOn.kind = run[w].kind
        /\ goesOn.since = run[w].since /\ goesOn.ok = run[w].ok /\ goesOn.why = run[w].why
    BY <2>1 DEF RunRows
  <2>3. \A why \in Outcomes :
          /\ ended(why) \in RunRows /\ ended(why).pc = "release"
          /\ ended(why).kind = run[w].kind /\ ended(why).since = run[w].since
          /\ ended(why).ok = run[w].ok /\ ended(why).why = why
    BY <2>1 DEF RunRows
  <2>4. \/ run' = [run EXCEPT ![w] = ended("settled")]
        \/ run' = [run EXCEPT ![w] = ended("late")]
        \/ run' = [run EXCEPT ![w] = goesOn] /\ deadline > now
    <3> HIDE DEF RemindersInv
    <3>1. CASE status # "pending"
      BY <3>1 DEF ReadGoal
    <3>2. CASE status = "pending" /\ TooLate
      BY <3>2 DEF ReadGoal
    <3>3. CASE status = "pending" /\ ~TooLate
      BY <2>1, <3>3 DEF ReadGoal, TooLate
    <3> QED
      BY <3>1, <3>2, <3>3
  <2>5. "settled" \in Outcomes /\ "late" \in Outcomes /\ run[w].why # "skipped"
    BY DEF Outcomes, OkTillEnd
  <2> HIDE DEF ended, goesOn, RemindersInv
  <2> QED
    BY <1>1, <2>2, <2>3, <2>4, <2>5
<1>4. TypeOK'
  <2>1. \A v \in Runs : /\ (run'[v].pc = "idle" <=> run[v].pc = "idle")
                        /\ run'[v].kind = run[v].kind
    BY <1>1, <1>3
  <2>2. \A l \in Kinds : job[l].run # NoRun => job[l].run \in Runs
    BY <1>1 DEF JobRows
  <2> QED
    BY <1>2, <1>3, <2>1, <2>2 DEF TypeOK
<1>5. AddedOnce' /\ OkTillEnd' /\ SkipsNeedAFault' /\ NeverRemindsOfFailed'
  <2>1. AddedOnce' /\ SkipsNeedAFault' /\ NeverRemindsOfFailed'
    BY <1>1, <1>2, <1>3 DEF AddedOnce, NotAdded, SkipsNeedAFault, NeverRemindsOfFailed
  <2>2. OkTillEnd'
    BY <1>1, <1>2, <1>3 DEF OkTillEnd
  <2> QED
    BY <2>1, <2>2
<1>6. InTime'
  <2>1. /\ now \in Nat /\ deadline \in Nat /\ run[w].since \in Nat
        /\ run[w].since <= now /\ now <= run[w].since + RunTime
    BY <1>1 DEF TypeOK, RunRows, InTime
  <2> QED
    BY <1>1, <1>2, <1>3, <2>1 DEF InTime
<1>7. KeyIsOwn'
  <2>1. SUFFICES ASSUME NEW l \in Kinds, hits[l] = 0
                 PROVE  /\ \A v \in Runs : run'[v].pc # "idle" /\ run'[v].kind = l
                                          => job[l].run = v
                        /\ lock[l] => /\ job[l].run # NoRun
                                      /\ run'[job[l].run].pc \in {"read", "notify", "release"}
    BY <1>2 DEF KeyIsOwn
  <2>2. \A v \in Runs : run'[v].pc # "idle" /\ run'[v].kind = l => job[l].run = v
    BY <1>1, <1>3, <2>1 DEF KeyIsOwn
  <2>3. job[l].run # NoRun => job[l].run \in Runs
    BY <1>1 DEF JobRows
  <2>4. lock[l] => /\ job[l].run # NoRun
                   /\ run[job[l].run].pc \in {"read", "notify", "release"}
    BY <2>1 DEF KeyIsOwn
  <2> QED
    BY <1>3, <2>2, <2>3, <2>4
<1>8. Allowance'
  <2>1. \A k \in Kinds : Sending(k)' \subseteq Sending(k)
    BY <1>1, <1>2, <1>3 DEF Sending
  <2>2. \A k \in Kinds : hits'[k] >= hits[k] /\ (Due(k)' => Due(k))
    BY <1>2 DEF Due, TypeOK
  <2> QED
    BY <1>2, <1>4, <2>1, <2>2, OthersKeepAllowance
<1> QED
  BY <1>4, <1>5, <1>6, <1>7, <1>8

\* The processor of w returns or throws: it throws for a failure its job met
\* before or meets now, and leaves no key behind unless one was met.
LEMMA FinishKeepsIt ==
    ASSUME RemindersAssumption, RemindersInv, NEW w \in Runs,
           NEW k \in Kinds, run[w].kind = k,
           NEW ok \in BOOLEAN, Finish(w, ok),
           run[w].pc \in {"lock", "release"},
           UNCHANGED <<now, status, deadline, adding, sent, failedToo>>,
           faults' \in Nat, lock' \in [Kinds -> BOOLEAN],
           hits' \in [Kinds -> Nat], outcome' \in [Kinds -> Outcomes],
           hits'[k] >= hits[k],
           \A l \in Kinds : l # k => /\ lock'[l] = lock[l]
                                            /\ hits'[l] = hits[l],
           hits'[k] = 0 => ~lock'[k],
           ok \/ hits'[k] > hits[k]
              \/ (run[w].pc = "release" /\ ~run[w].ok),
           SkipsNeedAFault'
    PROVE  RemindersInv'
<1>1. /\ TypeOK /\ AddedOnce /\ KeyIsOwn /\ OkTillEnd /\ Allowance /\ InTime
      /\ NeverRemindsOfFailed
  BY DEF RemindersInv
<1>2. /\ k \in Kinds /\ run[w].pc # "idle" /\ w # NoRun
      /\ run \in [Runs -> RunRows] /\ job \in [Kinds -> JobRows]
      /\ \A l \in Kinds : job[l].run # NoRun =>
           /\ job[l].run \in Runs /\ job[l].state = "active"
           /\ run[job[l].run].pc # "idle" /\ run[job[l].run].kind = l
  BY <1>1 DEF TypeOK, RunRows, JobRows, RemindersAssumption
<1>3. /\ run' \in [Runs -> RunRows] /\ job' \in [Kinds -> JobRows]
      /\ run'[w].pc = "idle" /\ run'[w].ok /\ run'[w].why # "skipped"
      /\ \A v \in Runs : v # w => run'[v] = run[v]
      /\ \A l \in Kinds : l # k => job'[l] = job[l]
      /\ job[k].run # w => job'[k] = job[k]
      /\ job[k].run = w => /\ job'[k].run = NoRun
                           /\ job'[k].state \in {"waiting", "done", "dead"}
                           /\ ok => job'[k].state = "done"
  <2>1. job[k] \in JobRows
    BY <1>2
  <2>2. /\ AfterSuccess(job[k]).run = NoRun /\ AfterSuccess(job[k]).state = "done"
        /\ AfterFailure(job[k]).run = NoRun
        /\ AfterFailure(job[k]).state \in {"waiting", "dead"}
    BY <2>1, Rows
  <2>3. job[k].run = w => job'[k] = IF ok THEN AfterSuccess(job[k])
                                    ELSE AfterFailure(job[k])
    BY <1>1, Finishes
  <2>4. /\ run' \in [Runs -> RunRows] /\ job' \in [Kinds -> JobRows]
        /\ run'[w] = IdleRun
        /\ \A v \in Runs : v # w => run'[v] = run[v]
        /\ \A l \in Kinds : l # k \/ job[l].run # w => job'[l] = job[l]
    BY <1>1, Finishes
  <2> QED
    BY <1>2, <2>2, <2>3, <2>4 DEF IdleRun
<1>4. \A l \in Kinds, v \in Runs : job'[l].run = v => v # w /\ job[l].run = v
  BY <1>2, <1>3 DEF RemindersAssumption
<1>5. TypeOK'
  <2>1. ASSUME NEW l \in Kinds, job'[l].run # NoRun
        PROVE  /\ job'[l].state = "active"
               /\ run'[job'[l].run].pc # "idle" /\ run'[job'[l].run].kind = l
    <3>1. job'[l].run \in Runs
      BY <1>3, <2>1 DEF JobRows
    <3>2. job'[l].run # w /\ job[l].run = job'[l].run
      BY <1>4, <3>1
    <3>3. job'[l] = job[l]
      BY <1>3, <2>1, <3>2
    <3> QED
      BY <1>2, <1>3, <2>1, <3>1, <3>2, <3>3
  <2> QED
    BY <1>1, <1>3, <2>1 DEF TypeOK
<1>6. AddedOnce' /\ NeverRemindsOfFailed'
  <2>1. \A l \in Kinds : job[l].state = "none" => job'[l] = job[l]
    BY <1>2, <1>3
  <2> QED
    BY <1>1, <1>3, <2>1 DEF AddedOnce, NotAdded, NeverRemindsOfFailed
<1>7. OkTillEnd' /\ InTime'
  BY <1>1, <1>3 DEF OkTillEnd, InTime
<1>8. KeyIsOwn'
  <2>1. SUFFICES ASSUME NEW l \in Kinds, hits'[l] = 0
                 PROVE  /\ \A v \in Runs : run'[v].pc # "idle" /\ run'[v].kind = l
                                          => job'[l].run = v
                        /\ lock'[l] => /\ job'[l].run # NoRun
                                       /\ run'[job'[l].run].pc \in {"read", "notify", "release"}
    BY DEF KeyIsOwn
  <2>2. hits[l] = 0
    BY <1>1, <2>1 DEF TypeOK
  <2>3. /\ \A v \in Runs : run[v].pc # "idle" /\ run[v].kind = l => job[l].run = v
        /\ lock[l] => /\ job[l].run # NoRun
                      /\ run[job[l].run].pc \in {"read", "notify", "release"}
    BY <1>1, <2>2 DEF KeyIsOwn
  <2>4. CASE l = k
    BY <1>2, <1>3, <2>1, <2>3, <2>4
  <2>5. CASE l # k
    <3>1. job'[l] = job[l] /\ lock'[l] = lock[l]
      BY <1>3, <2>5
    <3>2. job[l].run # w
      BY <1>2, <2>5
    <3>3. lock[l] => job[l].run \in Runs
      BY <1>2, <2>3
    <3> QED
      BY <1>3, <2>3, <3>1, <3>2, <3>3
  <2> QED
    BY <2>4, <2>5
<1>9. Allowance'
  <2>1. /\ sent[k] \in Nat /\ hits[k] \in Nat /\ hits'[k] \in Nat /\ sent' = sent
        /\ hits'[k] >= hits[k]
    BY <1>1, <1>2 DEF TypeOK
  <2>2. \A l \in Kinds : w \notin Sending(l)'
    BY <1>3 DEF Sending
  <2>3. /\ In(w, k)' = 0 /\ In(w, k) \in {0, 1}
        /\ DueCount(k) \in {0, 1} /\ DueCount(k)' \in {0, 1}
    BY <2>2 DEF In, DueCount
  <2>4. DueCount(k)' + hits[k] <= In(w, k) + DueCount(k) + hits'[k]
    <3>1. CASE job[k].run # w
      <4>1. job'[k] = job[k]
        BY <1>3, <3>1
      <4>2. DueCount(k)' = DueCount(k)
        BY <4>1 DEF DueCount, Due
      <4> QED
        BY <2>1, <2>3, <4>2
    <3>2. CASE job[k].run = w /\ ok
      <4>1. ~Due(k)'
        BY <1>3, <3>2 DEF Due
      <4>2. DueCount(k)' = 0
        BY <4>1 DEF DueCount
      <4> QED
        BY <2>1, <2>3, <4>2
    <3>3. CASE hits'[k] > hits[k]
      BY <2>1, <2>3, <3>3
    <3>4. CASE job[k].run = w /\ run[w].pc = "release" /\ ~run[w].ok
      <4>1. In(w, k) = 1
        BY <3>4 DEF In, Sending
      <4> QED
        BY <2>1, <2>3, <4>1
    <3> QED
      BY <3>1, <3>2, <3>3, <3>4
  <2>5. sent'[k] + In(w, k)' + DueCount(k)' + hits[k]
             <= sent[k] + In(w, k) + DueCount(k) + hits'[k]
    BY <2>1, <2>3, <2>4
  <2>6. \A l \in Kinds : l # k => /\ job'[l] = job[l] /\ sent'[l] = sent[l]
                                 /\ hits'[l] = hits[l] /\ w \notin Sending(l)'
    BY <1>3, <2>1, <2>2
  <2>7. \A v \in Runs : v # w /\ job'[k].run = v => job[k].run = v
    BY <1>2, <1>4
  <2> QED
    BY <1>1, <1>2, <1>3, <1>5, <2>5, <2>6, <2>7, SlotKeepsAllowance
<1> QED
  BY <1>5, <1>6, <1>7, <1>8, <1>9 DEF RemindersInv

\* SkipHeldLock: the key is held, so the job met a failure before.
LEMMA SkipKeepsIt ==
    ASSUME RemindersAssumption, RemindersInv, NEW w \in Runs, SkipHeldLock(w)
    PROVE  RemindersInv'
<1> DEFINE k == run[w].kind
<1>1. /\ TypeOK /\ KeyIsOwn /\ SkipsNeedAFault
      /\ run[w].pc = "lock" /\ k \in Kinds /\ lock[k] /\ Finish(w, TRUE)
      /\ outcome' = [outcome EXCEPT ![k] = "skipped"]
  BY DEF SkipHeldLock, RemindersInv, TypeOK, RunRows, Held, LockKey
<1>2. /\ UNCHANGED <<now, status, deadline, adding, sent, failedToo, hits, faults, lock>>
      /\ faults \in Nat /\ lock \in [Kinds -> BOOLEAN] /\ hits \in [Kinds -> Nat]
      /\ outcome \in [Kinds -> Outcomes]
  BY <1>1 DEF SkipHeldLock, goalVars, notices, TypeOK
<1>3. hits[k] > 0
  <2>1. SUFFICES ASSUME hits[k] = 0 PROVE FALSE
    BY <1>1, <1>2
  <2> QED
    BY <1>1, <2>1 DEF KeyIsOwn
<1>4. outcome' \in [Kinds -> Outcomes]
  BY <1>1, <1>2 DEF Outcomes
<1>5. SkipsNeedAFault'
  BY <1>1, <1>2, <1>3 DEF SkipsNeedAFault
<1>6. TRUE \in BOOLEAN /\ hits'[k] >= hits[k] /\ ~(hits'[k] = 0) /\ lock' = lock
      /\ faults' \in Nat /\ hits' \in [Kinds -> Nat]
      /\ \A l \in Kinds : l # k => lock'[l] = lock[l] /\ hits'[l] = hits[l]
  BY <1>1, <1>2, <1>3
<1> HIDE DEF k
<1> QED
  BY <1>1, <1>2, <1>4, <1>5, <1>6, FinishKeepsIt DEF k

\* Release: the key is deleted, and the run says why it ended.
LEMMA ReleaseKeepsIt ==
    ASSUME RemindersAssumption, RemindersInv, NEW w \in Runs, Release(w)
    PROVE  RemindersInv'
<1> DEFINE k == run[w].kind
<1>1. /\ TypeOK /\ SkipsNeedAFault
      /\ run[w].pc = "release" /\ k \in Kinds /\ run[w].ok \in BOOLEAN
      /\ run[w].why \in Outcomes /\ run[w].why # "skipped"
      /\ SetLock(k, FALSE) /\ Finish(w, run[w].ok)
      /\ outcome' = outcome \/ outcome' = [outcome EXCEPT ![k] = run[w].why]
  BY DEF Release, RemindersInv, TypeOK, RunRows, OkTillEnd
<1>2. /\ UNCHANGED <<now, status, deadline, adding, sent, failedToo, hits, faults>>
      /\ faults \in Nat /\ hits \in [Kinds -> Nat] /\ outcome \in [Kinds -> Outcomes]
  BY <1>1 DEF Release, goalVars, notices, TypeOK
<1>3. /\ lock' \in [Kinds -> BOOLEAN] /\ ~lock'[k]
      /\ \A l \in Kinds : l # k => lock'[l] = lock[l]
  BY <1>1, LockMoves
<1>4. outcome' \in [Kinds -> Outcomes] /\ SkipsNeedAFault'
  BY <1>1, <1>2 DEF SkipsNeedAFault
<1> QED
  BY <1>1, <1>2, <1>3, <1>4, FinishKeepsIt

\* RedisError: the attempt fails, and the key stays.
LEMMA RedisErrorKeepsIt ==
    ASSUME RemindersAssumption, RemindersInv, NEW w \in Runs, RedisError(w)
    PROVE  RemindersInv'
<1> DEFINE k == run[w].kind
<1>1. /\ TypeOK /\ SkipsNeedAFault
      /\ run[w].pc \in {"lock", "release"} /\ k \in Kinds
      /\ Strike({k}) /\ Finish(w, FALSE)
  BY DEF RedisError, RemindersInv, TypeOK, RunRows
<1>2. /\ UNCHANGED <<now, status, deadline, adding, sent, failedToo, lock, outcome>>
      /\ hits \in [Kinds -> Nat] /\ outcome \in [Kinds -> Outcomes]
      /\ lock \in [Kinds -> BOOLEAN]
  BY <1>1 DEF RedisError, goalVars, notices, TypeOK
<1>3. /\ faults' \in Nat /\ hits' \in [Kinds -> Nat]
      /\ \A l \in Kinds : l # k => hits'[l] = hits[l]
      /\ hits'[k] = hits[k] + 1
  BY <1>1, Strikes
<1>4. SkipsNeedAFault'
  BY <1>1, <1>2, <1>3 DEF SkipsNeedAFault
<1>5. FALSE \in BOOLEAN /\ hits'[k] > hits[k] /\ hits'[k] >= hits[k] /\ ~(hits'[k] = 0)
      /\ \A l \in Kinds : l # k => lock'[l] = lock[l] /\ hits'[l] = hits[l]
  BY <1>1, <1>2, <1>3
<1>6. lock' \in [Kinds -> BOOLEAN] /\ outcome' \in [Kinds -> Outcomes]
  BY <1>2
<1> HIDE DEF k
<1> QED
  BY <1>1, <1>2, <1>3, <1>4, <1>5, <1>6, FinishKeepsIt DEF k

\* A run stores its reminder or not and goes on to DEL its key: it may have
\* met a failure, and it cannot tell of a goal that has failed.
LEMMA EndKeepsIt ==
    ASSUME RemindersAssumption, RemindersInv, NEW w \in Runs,
           NEW k \in Kinds, run[w].kind = k,
           run[w].pc \in {"read", "notify"}, NEW r \in RunRows,
           r.pc = "release", r.kind = k, r.since = run[w].since,
           r.why # "skipped",
           run' = [run EXCEPT ![w] = r],
           UNCHANGED <<now, status, deadline, adding, job, lock, outcome>>,
           UNCHANGED notices \/ (run[w].pc = "notify" /\ Tell(k)),
           faults' \in Nat, hits' \in [Kinds -> Nat],
           \A l \in Kinds : l # k => hits'[l] = hits[l],
           IF r.ok THEN hits'[k] = hits[k] ELSE hits'[k] = hits[k] + 1
    PROVE  RemindersInv'
<1>1. /\ TypeOK /\ AddedOnce /\ KeyIsOwn /\ OkTillEnd /\ Allowance /\ InTime
      /\ SkipsNeedAFault /\ NeverRemindsOfFailed
  BY DEF RemindersInv
<1>2. /\ run \in [Runs -> RunRows] /\ job \in [Kinds -> JobRows]
      /\ hits \in [Kinds -> Nat] /\ sent \in [Kinds -> Nat]
      /\ \A l \in Kinds : job[l].run # NoRun => job[l].run \in Runs
  BY <1>1 DEF TypeOK, JobRows
<1>3. /\ run' \in [Runs -> RunRows] /\ run'[w] = r
      /\ \A v \in Runs : v # w => run'[v] = run[v]
      /\ \A v \in Runs : /\ (run'[v].pc = "idle" <=> run[v].pc = "idle")
                         /\ run'[v].kind = run[v].kind
  BY <1>2
<1>4. \A l \in Kinds : hits'[l] >= hits[l]
  BY <1>2
<1>5. failedToo' \in BOOLEAN /\ ~failedToo' /\ sent' \in [Kinds -> Nat] /\ sent'[k] \in {sent[k], sent[k] + 1}
      /\ \A l \in Kinds : l # k => sent'[l] = sent[l]
  <2>1. CASE UNCHANGED notices
    BY <1>1, <1>2, <2>1 DEF notices, NeverRemindsOfFailed, TypeOK
  <2>2. CASE run[w].pc = "notify" /\ Tell(k)
    <3>1. status # "failed"
      <4>1. /\ run[w].since \in Nat /\ now \in Nat /\ deadline \in Nat
            /\ RunTime \in Nat /\ Grace \in Nat /\ RunTime <= Grace
        BY <1>1, <1>2 DEF TypeOK, RunRows, RemindersAssumption
      <4>2. run[w].since < deadline /\ now <= run[w].since + RunTime
        BY <1>1, <2>2 DEF InTime
      <4> QED
        BY <1>1, <4>1, <4>2 DEF InTime
    <3> QED
      BY <1>1, <1>2, <2>2, <3>1, Tells DEF NeverRemindsOfFailed
  <2> QED
    BY <2>1, <2>2
<1>6. TypeOK'
  BY <1>1, <1>2, <1>3, <1>5 DEF TypeOK
<1>7. AddedOnce' /\ NeverRemindsOfFailed' /\ SkipsNeedAFault'
  BY <1>1, <1>2, <1>3, <1>4, <1>5 DEF AddedOnce, NotAdded, NeverRemindsOfFailed,
                                     SkipsNeedAFault
<1>8. OkTillEnd' /\ InTime'
  <2>1. run[w].pc # "idle"
    OBVIOUS
  <2> QED
    BY <1>1, <1>3, <2>1 DEF OkTillEnd, InTime
<1>9. KeyIsOwn'
  <2>1. SUFFICES ASSUME NEW l \in Kinds, hits'[l] = 0
                 PROVE  /\ \A v \in Runs : run'[v].pc # "idle" /\ run'[v].kind = l
                                          => job[l].run = v
                        /\ lock[l] => /\ job[l].run # NoRun
                                      /\ run'[job[l].run].pc \in {"read", "notify", "release"}
    BY DEF KeyIsOwn
  <2>2. hits[l] = 0
    BY <1>2, <1>4, <2>1
  <2>3. /\ \A v \in Runs : run[v].pc # "idle" /\ run[v].kind = l => job[l].run = v
        /\ lock[l] => /\ job[l].run # NoRun
                      /\ run[job[l].run].pc \in {"read", "notify", "release"}
    BY <1>1, <2>2 DEF KeyIsOwn
  <2> QED
    BY <1>2, <1>3, <2>3
<1>10. Allowance'
  <2>1. w \in Sending(k)
    BY DEF Sending
  <2>2. r.ok => w \notin Sending(k)'
    BY <1>3 DEF Sending
  <2>3. DueCount(k)' = DueCount(k) /\ DueCount(k) \in {0, 1}
    BY DEF DueCount, Due
  <2>4. In(w, k) = 1 /\ In(w, k)' \in {0, 1} /\ (r.ok => In(w, k)' = 0)
    BY <2>1, <2>2 DEF In
  <2>5. sent'[k] + In(w, k)' + DueCount(k)' + hits[k]
             <= sent[k] + In(w, k) + DueCount(k) + hits'[k]
    <3>1. sent[k] \in Nat /\ hits[k] \in Nat
      BY <1>2
    <3> QED
      BY <1>5, <2>3, <2>4, <3>1
  <2>6. \A l \in Kinds : l # k => /\ job'[l] = job[l] /\ sent'[l] = sent[l]
                                 /\ hits'[l] = hits[l] /\ w \notin Sending(l)'
    BY <1>3, <1>5 DEF Sending
  <2> QED
    BY <1>1, <1>3, <1>6, <2>5, <2>6, SlotKeepsAllowance
<1> QED
  BY <1>1, <1>6, <1>7, <1>8, <1>9, <1>10 DEF RemindersInv

\* Notify: the reminder is stored, unless the owner does not want it.
LEMMA NotifyKeepsIt ==
    ASSUME RemindersAssumption, RemindersInv, NEW w \in Runs, Notify(w)
    PROVE  RemindersInv'
<1> DEFINE k == run[w].kind
           row(why) == [run[w] EXCEPT !.pc = "release", !.why = why]
<1>1. /\ run[w].pc = "notify" /\ run[w] \in RunRows /\ k \in Kinds /\ run[w].ok
      /\ hits \in [Kinds -> Nat] /\ faults \in Nat
      /\ run \in [Runs -> RunRows]
  BY DEF Notify, RemindersInv, TypeOK, RunRows, OkTillEnd
<1>2. UNCHANGED <<now, status, deadline, adding, job, lock, outcome, hits, faults>>
  BY DEF Notify, goalVars
<1>3. ASSUME NEW why \in Outcomes
      PROVE  /\ row(why) \in RunRows /\ row(why).pc = "release" /\ row(why).ok
             /\ row(why).kind = k /\ row(why).since = run[w].since
             /\ row(why).why = why
  BY <1>1 DEF RunRows
<1>4. \E why \in {"sent", "unwanted"} :
        /\ run' = [run EXCEPT ![w] = row(why)]
        /\ UNCHANGED notices \/ Tell(k)
  BY <1>1 DEF Notify
<1>5. PICK why \in {"sent", "unwanted"} :
        /\ run' = [run EXCEPT ![w] = row(why)]
        /\ UNCHANGED notices \/ Tell(k)
  BY <1>4
<1>6. why \in Outcomes
  BY DEF Outcomes
<1> DEFINE r == row(why)
<1>7. /\ r \in RunRows /\ r.pc = "release" /\ r.ok /\ r.kind = k
      /\ r.since = run[w].since /\ r.why # "skipped" /\ run' = [run EXCEPT ![w] = r]
  BY <1>3, <1>5, <1>6
<1> HIDE DEF r
<1> QED
  BY <1>1, <1>2, <1>5, <1>7, EndKeepsIt

\* DbError: the run fails; the reminder may have been stored all the same.
LEMMA DbErrorKeepsIt ==
    ASSUME RemindersAssumption, RemindersInv, NEW w \in Runs, DbError(w)
    PROVE  RemindersInv'
<1> DEFINE k == run[w].kind
           r == [run[w] EXCEPT !.pc = "release", !.ok = FALSE]
<1>1. /\ run[w].pc \in {"read", "notify"} /\ run[w] \in RunRows /\ k \in Kinds
      /\ TypeOK /\ run \in [Runs -> RunRows]
  BY DEF DbError, RemindersInv, TypeOK, RunRows
<1>2. UNCHANGED <<now, status, deadline, adding, job, lock, outcome>>
  BY DEF DbError, goalVars
<1>3. /\ r \in RunRows /\ r.pc = "release" /\ ~r.ok /\ r.kind = k
      /\ r.since = run[w].since /\ r.why # "skipped"
  BY <1>1 DEF RunRows, RemindersInv, OkTillEnd
<1>4. run' = [run EXCEPT ![w] = r]
  BY <1>1 DEF DbError
<1>5. /\ faults' \in Nat /\ hits' \in [Kinds -> Nat]
      /\ hits'[k] = hits[k] + 1 /\ \A l \in Kinds : l # k => hits'[l] = hits[l]
  BY <1>1, Strikes DEF DbError
<1>6. UNCHANGED notices \/ (run[w].pc = "notify" /\ Tell(k))
  BY DEF DbError
<1> HIDE DEF r
<1> QED
  BY <1>1, <1>2, <1>3, <1>4, <1>5, <1>6, EndKeepsIt

-----------------------------------------------------------------------------
(* Theorems *)

\* The invariant of the reminders, for all steps.
THEOREM RemindersCorrect ==
    ASSUME RemindersAssumption PROVE Spec => []RemindersInv
<1>1. Init => RemindersInv
  BY RemindersInit
<1>2. RemindersInv /\ [Next]_vars => RemindersInv'
  <2> SUFFICES ASSUME RemindersInv, [Next]_vars PROVE RemindersInv'
    OBVIOUS
  <2>1. ASSUME NEW d \in 1..MaxDeadline, Create(d) PROVE RemindersInv'
    BY <2>1, CreateKeepsIt
  <2>2. ASSUME NEW k \in Kinds, AddReminder(k) PROVE RemindersInv'
    BY <2>2, AddReminderKeepsIt
  <2>3. CASE AddDeadlineCheck \/ AddsFail
    BY <2>3, OtherAddsKeepIt
  <2>4. ASSUME NEW w \in Runs, RunStep(w) PROVE RemindersInv'
    BY <2>4, AcquireKeepsIt, SkipKeepsIt, ReadKeepsIt, NotifyKeepsIt,
       ReleaseKeepsIt DEF RunStep
  <2>5. ASSUME NEW w \in Runs, RedisError(w) PROVE RemindersInv'
    BY <2>5, RedisErrorKeepsIt
  <2>6. ASSUME NEW w \in Runs, DbError(w) PROVE RemindersInv'
    BY <2>6, DbErrorKeepsIt
  <2>7. ASSUME NEW w \in Runs, NEW k \in Kinds, Pick(w, k) PROVE RemindersInv'
    BY <2>7, PickKeepsIt
  <2>8. ASSUME NEW k \in Kinds, RecoverOrphan(k) PROVE RemindersInv'
    BY <2>8, RecoverKeepsIt
  <2>9. ASSUME NEW k \in Kinds, StallLiveRun(k) PROVE RemindersInv'
    BY <2>9, StallKeepsIt
  <2>10. CASE CrashWorker
    BY <2>10, CrashKeepsIt
  <2>11. CASE GoalMoves \/ Tick \/ \E k \in Kinds : LockExpire(k)
    BY <2>11, OutsideKeepsIt
  <2>12. CASE UNCHANGED vars
    BY <2>12 DEF vars, goalVars, jobVars, history, notices, RemindersInv, TypeOK,
         AddedOnce, NotAdded, KeyIsOwn, OkTillEnd, Allowance, Used, Sending, Due,
         InTime, SkipsNeedAFault, NeverRemindsOfFailed
  <2> QED
    BY <2>1, <2>2, <2>3, <2>4, <2>5, <2>6, <2>7, <2>8, <2>9, <2>10, <2>11, <2>12
       DEF Next
<1> QED
  BY <1>1, <1>2, PTL DEF Spec

\* A job waits without an owner, and an active one is owned by the slot that
\* runs it.
THEOREM RemindersTypeCorrect ==
    ASSUME RemindersAssumption PROVE Spec => []TypeOK
<1>1. RemindersInv => TypeOK
  BY DEF RemindersInv
<1> QED
  BY <1>1, RemindersCorrect, PTL

\* A run takes itself for a duplicate only after a failure of its own job.
THEOREM SkipsCorrect ==
    ASSUME RemindersAssumption PROVE Spec => []SkipsNeedAFault
<1>1. RemindersInv => SkipsNeedAFault
  BY DEF RemindersInv
<1> QED
  BY <1>1, RemindersCorrect, PTL

\* At most one reminder of a kind, and one more per failure its job met.
THEOREM RepeatsCorrect ==
    ASSUME RemindersAssumption PROVE Spec => []RepeatsNeedFaults
<1>1. RemindersInv => RepeatsNeedFaults
  <2>1. SUFFICES ASSUME RemindersInv, NEW k \in Kinds PROVE sent[k] <= 1 + hits[k]
    BY DEF RepeatsNeedFaults
  <2>2. sent[k] \in Nat /\ hits[k] \in Nat /\ Used(k) <= 1 + hits[k]
    BY <2>1 DEF RemindersInv, TypeOK, Allowance
  <2>3. Cardinality(Sending(k)) \in Nat
    <3>1. Sending(k) \in SUBSET Runs
      BY DEF Sending
    <3> QED
      BY <3>1, Counting
  <2> QED
    BY <2>2, <2>3 DEF Used
<1> QED
  BY <1>1, RemindersCorrect, PTL

\* Nobody is reminded of a goal that has failed.
THEOREM NeverRemindsCorrect ==
    ASSUME RemindersAssumption PROVE Spec => []NeverRemindsOfFailed
<1>1. RemindersInv => NeverRemindsOfFailed
  BY DEF RemindersInv
<1> QED
  BY <1>1, RemindersCorrect, PTL

=============================================================================
