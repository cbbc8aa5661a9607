# A formal model of the AchieveX backend

AchieveX is an Express API (several PM2 processes), one BullMQ worker process,
PostgreSQL through TypeORM, and Redis (queue, job locks, cache, rate limits).
The TLA+ modules here model the parts of it in which calls, jobs and processes
race: the life of a goal ("manifestation") from its creation to the end of its
deadline job, its reminders, a user's sessions, the services around them, and
the start and stop of the processes. TLC checks every module on small instances;
TLAPS proves every invariant and action property that the passing runs check, and
the refinement, for every size; liveness stays with TLC. Paths below are relative to
the repository root; line numbers are those of the commit modelled.

## 1. Inventory of the system

| Component | State it keeps | Operations | Interacts with |
|---|---|---|---|
| Goals (`src/modules/manifestation`) | row: status, deadline, confidence, owner | `create`, `list`, `trending`, `getById`, `recomputeConfidence`, `finalizeByDeadline` | queue (schedules jobs), cache, users (success rate, streak), notifications |
| Proofs (`src/modules/proof`) | one row per goal (unique index) | `submitProof` | reads and rewrites the goal row, uploads to Cloudinary, calls `recomputeConfidence` |
| Job scheduling (`src/queues/jobs`) | delayed jobs in Redis, ids derived from the goal | `scheduleManifestationJobs` | called by `create`; skipped when BullMQ is not ready |
| Deadline worker (`src/queues/workers/deadline.worker.ts`) | Redis lock key per job (120 s) | run of a job, 10 at a time | `finalizeByDeadline` in a row-locked transaction, then streak and notification |
| Reminder worker (`reminder.worker.ts`) | Redis lock key per job (60 s) | run of a job, 20 at a time | reads the goal, notifies |
| Queue configuration (`src/config/bullmq.ts`) | readiness flag, 5 attempts, exponential backoff | initialise, close | both workers, scheduling |
| Sessions (`src/modules/auth`, refresh token repository) | users' password hash and reset token; refresh token rows | register, login, refresh, logout, forgot and reset password | e-mail, JWT |
| Users (`user.repository.ts`, `src/modules/user`) | streak, follows, bookmarks | `updateStreak`, `getSuccessRate`, follow, bookmark, lists | deadline worker, confidence |
| Comments, reactions | rows; unique (user, goal, type) reaction; threads | create, soft delete, remove, list | end in `recomputeConfidence`, notify the owner |
| Notifications | rows, one preference row per user (unique) | `notify`, mark read, list, get and update preferences | sockets |
| Cache (`common/utils/cache.ts`), lists of goals | Redis keys and a per-process map, 60 s | get, set, delete | goals |
| Rate limiter | Redis counter with expiry, per-process map as fallback | consume | every route |
| Redis client (`config/redis.ts`) | one connection per process, a readiness flag set once | initialise, close | cache, rate limiter, queues |
| Confidence (`common/utils/algorithm.ts`) | none (pure) | score, time factor, activity | goals |
| Process life (`server.ts`, `worker-entry.ts`, `ecosystem.config.js`) | connections, readiness flags | bootstrap with migrations, shutdown | everything |
| Sockets (`src/sockets`) | the clients connected to one API process | connect, emit to a user | notifications |
| Plumbing (controllers, DTOs, validation, e-mail, logging, container) | none | translation of requests | services |

What is hard here:

* **Requests of several processes interleave at every await.** `submitProof`
  checks for an existing proof, uploads a file, and only then inserts; follows,
  bookmarks, reactions and preference rows are looked for first and inserted
  later, with only a unique index between two callers.
* **Entities are saved whole.** TypeORM's `save` compares the entity with the row
  and updates what differs, without a lock: a status, a password, a preference or a
  score read before and changed meanwhile is written back.
* **Jobs are delivered at least once.** Attempts are retried, a worker that dies
  leaves an active job that BullMQ puts back, a slow worker may lose its job to
  another slot while it still runs.
* **The lock around a run is a plain key.** It has no owner, expires, survives a
  crash, and a run that finds it set reports success.
* **Effects after a commit.** Streak, score and notification follow the change they
  belong to; an error between them makes the retry see a change already made.
* **A job may never be queued** although its goal was stored.
* **Redis is optional, per process and for life.** A process that found no Redis at
  start, or lost it, goes on with its own map; the flag is never cleared and nothing
  reconnects, so the processes' ideas of a counter or a list part.
* **Commands that belong together are apart**: INCR and EXPIRE, a change and the
  deletion of its cached list, two pages of one list.
* **Several API processes start and stop at once**: all try the migrations, signals
  may come twice, and connections are closed under whatever still runs.

What each component is held to is said with the runs in section 3; where the code
does not keep the promise one would expect, the property says exactly how far it
does, and where a document promises more, there is a finding.

## 2. Modules

| Module | Models |
|---|---|
| `GoalStore` | the rows and indexes of PostgreSQL the lifecycle uses, the clock, the failure budget |
| `DeadlineJobs` | the queue's job per goal, the lock key, the worker's slots, `finalizeByDeadline`, crash and stall |
| `GoalRequests` | `create` + `scheduleManifestationJobs`, `submitProof`, `recomputeConfidence`, TypeORM's `save` |
| `GoalLifecycle` | their composition, `Spec`, `FairSpec` and the properties |
| `GoalContract` | the abstract life of a goal: opened, proved, due, settled once; its streak counted and its owner told once, in that order |
| `GoalRefinement` | the refinement mapping from `GoalLifecycle` to `GoalContract` |
| `ReminderJobs` | the two reminders of a goal: their adds, the processor of `reminder.worker.ts`, its lock, retries, stalls and crashes |
| `Sessions` | one user's sessions: the six calls of `auth.service.ts`, the tables `users` and `refresh_tokens`, and `updateStreak`'s save of the user row |
| `SocialLinks` | follows, bookmarks, reactions: find, then insert or delete, then score and notify |
| `Engagement` | comments, replies, soft deletion and reactions of one goal, and the score each of them has recomputed |
| `Notifications` | `notify`, preferences from the first row on, `updatePreferences`, `markRead` |
| `Confidence` | the score and its parts as integers, and when it is stored |
| `Paging` | a client that reads a list page by page while rows come, go and change score, from the database or from cached pages |
| `RedisClient` | the connection each process has or has not; shared by the next two and `ProcessLife` |
| `RateLimiter` | INCR, EXPIRE, TTL and the decision; the fallback map; expiry, lost connections, crashes |
| `ListCache` | a cached list in Redis and in each process's map, fills and deletions |
| `ProcessLife` | start, migrations, readiness, signals, shutdown, death and restart of two kinds of process; the requests and jobs under way; clients that hang up; socket clients |
| `Services` | the nine services from `ReminderJobs` and `SocialLinks` on, side by side, and what is claimed of each |
| `MCGoalLifecycle`, `MCSessions`, `MCServices` | instances for TLC |
| `MCProgress` | instances of four services for progress |
| `GoalLifecycle_proofs`, `Sessions_proofs`, `SocialLinks_proofs`, `ListCache_proofs`, `RateLimiter_proofs`, `Notifications_proofs`, `ReminderJobs_proofs` | theorems about one module each and their proofs (section 4) |
| `Services_proofs` | the theorems about `Services`, and the proofs about `Engagement`, `Paging`, `Confidence` and `ProcessLife` |

`GoalStore`, `DeadlineJobs`, `GoalRequests`, `GoalLifecycle`, `GoalRefinement`
form one chain of EXTENDS. The other services meet in calls, not in shared state:
each module keeps the rows it is about, and what another service does to them
appears as a few actions of the environment (`GoalMoves` in `ReminderJobs`, the
save of the streak in `Sessions`). Since they share no variable, what holds of each
alone holds of all running side by side. `Services` instantiates all nine with a
variable `turn`: a behaviour is one of the service that has the turn, the others
are off. So one run (of `MCServices`, which only gives the constants) checks
them all, and a theorem about `Services` states exactly what that run checks.

Names follow the code: `StartSubmit`, `CheckExisting`, `StoreProof`,
`SaveRejected` are the awaits of `submitProof` in order; `StartRescore`,
`SaveFindsChange`, `SaveWrites` those of `recomputeConfidence`;
`AcquireLock`, `Finalize`, `UpdateStreak`, `Notify`, `Release` those of the deadline
processor; `Find`, `Insert`, `Deliver` those of `notify`. A definition introduced as
"a slip" is not used by the specification: it is a plausible mistake in the code, and
substituting it makes a run fail (PROJECT.json pairs them, under `mutants`).

### How state corresponds to the code

* `status[g]`, `deadline[g]`: columns of the goal's row, `"none"` before it is
  inserted. The enum also has `expired`; no code ever writes it.
* `proofs`: rows with the goal, the request that inserted them, `createdAt`.
* `job[g]`: state of the one deadline job, its owner slot, failed attempts,
  stalls. `"done"` stands for a removed job (`removeOnComplete`), `"dead"` for
  the failed set (`removeOnFail: false`).
* `lock[g]`: whether the key exists. Its value is always `'1'`, so nothing says
  who set it, and `Release` deletes whatever is there.
* `run[w]`: a processor call: where it is, its goal, the verdict it committed,
  whether the body threw.
* `req[r]`: a request: where it is, the goal, and of *the entity it holds in memory*
  the status, which a stale save writes back, and whether a proof was loaded with it
  (`proven`): a save of an entity that lacks a stored proof rejects.
* `streaks[g]`, `notices[g]`: how often `updateStreak` was carried out and how
  many notifications were stored for this goal, by verdict.
* `faults`: what is left of the failures an instance may suffer: a query that
  throws (`db`), a Redis command (`redis`), a job not queued (`queue`), the
  worker's death (`crash`), a live run losing its job (`stall`).

In `Sessions`:

* `user`: password and reset token (hash and expiry) of the row. A password is
  named by the call that chose it, a reset token by the call that asked for it.
* `row[t]`: the row of token `t`. `signRefreshToken` signs user, role and second,
  so a user's tokens are named by the second, and two calls in one second sign
  *the same string*; the unique index refuses the second insert.
* `call[c]`: where a call is, the token it read, the token it signed.
* `saving[s]`: a call of `updateStreak`: the entity it loaded, and the columns
  TypeORM found different when it compared.
* `row[t].password`, `row[t].late` and the variables `latest`, `spent`, `changed`,
  `ended`, `raced` are history: the password a session was opened with, whether its
  call was under way when sessions were ended, the password chosen last, the reset
  tokens replaced or used, the resets that got so far, the refreshes that revoked
  what was revoked already.

Elsewhere:

* `ReminderJobs`: `adding` is how far the three awaited adds are and when they read
  the clock; `job`, `lock`, `run` per kind of reminder as in `DeadlineJobs`. `sent`,
  `outcome`, `hits` are history: reminders stored, why the last run that returned
  did, and the failures a job met.
* `SocialLinks`: `rows` are named by the call that inserted them, which stands for
  the row's id. `call[c].seen` is history: whether the row was there at the moments
  of the call; `older`, the rows there were when a removal looked.
* `Engagement`: `score` is the pair of numbers the stored score was computed from;
  `loaded` the relations of the entity a call holds; `overlapped` is history.
* `Notifications`: `pref` and `stored` are the row; `call[c].entity`, `dirty` what
  `save` compares and updates; `chosen`, `mixed`, `seen` are history: the choice
  saved last, the columns saved while somebody else was saving, the choices
  that held during a call.
* `RateLimiter`: `counter` and `ttl` are the key; `memory[p]` is `memoryRateStore`;
  `req[r].fresh` and `age` are history: whether the counter that gave `r` its number
  still lives, and for how long `r` has been answered.
* `ListCache`: a list is the `version` of the database it was read from; `gone[v]` is
  for how long version `v` has been superseded; `cache` and `memory[p]` are the
  entries.
* `Paging`: `key[r]` is `createdAt` or the score, `Absent` while the row is not in
  the list; `Orders` are the orders in which PostgreSQL may return equal keys, anew
  for each page; `pages` are the cached responses. `moved`, `outdated` and the
  `current` of a response are history: a score changed or a row left since the client
  began, it was given a page from before a change, the list is still as the page was
  read.
* `Confidence`: scores in units of 0.0001, the scale of the column.
* `ProcessLife`: `open[p]` are a process's connections, `ready[p]` is `bullMqReady`,
  `stops[p]` counts the calls of `shutdown`, `task[t]` is a request or a job and the
  process that has it, `hungUp` the requests whose client closed the connection,
  `attached[c]` the process a socket client is connected to.

### What is abstracted

One query is one step. The finalising transaction is one step, because it reads
the goal `FOR UPDATE`: other updates of the row, and inserts of proofs (their
foreign key needs the row), wait for its commit. A commit whose acknowledgement
is lost equals `Finalize` followed by `DbError`. In the goal's life the confidence
score is left out: nothing there reads it back (`Engagement` and `Confidence` have
it). Titles, texts, stamps and e-mail are left out; the e-mail and cache helpers
never throw. Requests refused by a guard before they touch a row change nothing, so
they are not steps.

External behaviour, modelled from how `src/` uses it:

* TypeORM's `save` is SELECT, compare, UPDATE of the columns that differ. The SELECT
  loads the relations the entity was loaded with, and a stored proof, comment or
  reaction that the entity lacks is to be detached from the goal: its
  `manifestationId` would become NULL, which the column refuses, so the save rejects
  and nothing is changed. `submitProof` loads the goal with `proofs: []`, inserts a
  proof and saves that entity: *this save always rejects* (`SaveRejected`). The user
  is told that the submission failed (500) although the proof is stored, a retry is
  told that there is one (409), and it is the deadline job that makes the goal
  `achieved`. A rescore whose entity lacks a row stored since rejects too (`Detaches`
  in `GoalRequests` and `Engagement`). Any save may throw for other reasons as well
  (`Abandon`). `getCount` counts distinct rows of the query's main entity.
* BullMQ retries an attempt that threw, finds an active job without a living owner
  in its stalled check, and picks a job once at a time. An `add` may throw. BullMQ
  5.71.1, which `package-lock.json` pins, accepts a custom id with colons only if it
  has exactly three parts. The id of a deadline job has three; those of reminders,
  `goal:<id>:reminder:1d`, have four and are refused. So `create` throws, after it
  stored the goal and before it adds the deadline job, for every deadline more than
  an hour ahead: `LeaveUnscheduled` and `AddsFail` are then the rule, and so is
  finding 3. What the modules say of queued reminders, and of deadline jobs of goals
  that would have one, is said for ids that the queue accepts.
* Redis carries out one command at a time and expires keys on its own.
* `server.close` waits for connections: those of requests that are being answered, and
  upgraded ones. It does not wait for the handler of a client that hung up, which goes
  on while the connections it needs are closed, until `process.exit` cuts it off. A
  second call's callback is given an error, the second `shutdown` rejects, and the
  unhandled rejection ends the process.
* PM2 starts a process that is not running, and may kill one.

## 3. What the runs check

| Run | Instance and question | Result |
|---|---|---|
| `lifecycle_safety` | one goal, two submissions, a rescore, two slots, one failure of every kind: do rows, requests and notifications agree with the proofs? | holds |
| `worker_once` | no rescores; two query errors, a Redis error, a crash, a stall: is a goal settled once, with one streak and one notification at most, as in `GoalContract`? | holds |
| `goal_settles` | FairSpec, query errors only: does a queued goal get settled, and with a timely proof achieved? | holds unless the attempts are used up |
| `sessions` | a registration, a login, two refreshes, a logout, a forgotten password, a reset, a save of the streak: do sessions multiply or come back, what survives a reset? | only as the properties below allow |
| `services_safe` | the nine services of `MCServices`, each with two or more actors and one failure | holds |
| `services_progress` | rate limiter, cache, reminders and processes under their fairness | holds |
| `crash_keeps_lock` | one crash | violated: finding 1 |
| `stale_rescore` | one rescore, no failure | violated: finding 2 |
| `never_scheduled` | one job not queued | violated: finding 3 |
| `streak_lost` | no submission, one query error | violated: finding 4 |
| `unheard_notification` | one API process, one client, no failure | violated: finding 5 |
| `success_rate` | an owner with two goals that ended differently | violated: finding 6 |

### Goals

`OneProofPerGoal`, `AchievedHasTimelyProof`, `FailedHasNoTimelyProof` and
`NoticesTellTheVerdict` (however often a job runs, all its notifications tell the
one story the proofs tell). That nothing is achieved by a late proof, though
`submitProof` sets the status without a look at the time, hangs on its save being
rejected. `SettledStays` (a settled status is final, and no proof is stored after it),
`EffectsAtMostOnce`, and `KeepsContract`, the refinement of `GoalContract`, all under
`Rescores = {}`, because finding 2 breaks them. `ScheduledGoalSettles` and
`TimelyProofAchieves` for progress.

The clock ticks through 0..5, deadlines are 1 or 2, the grace period (5 days in
the code) is 2 ticks and a request lives at most 2. A submission that starts just
before a deadline can thus store its proof exactly at it, or one tick late, and
the deadline job may run in the first or a later tick after the grace period. Two
attempts per job instead of 5 let one error be retried and two exhaust it; one
stall is tolerated, as in BullMQ. Goals share only the worker's slots and
process, and properties speak of one goal at a time, so the instances have one
goal; two submissions race for the proof, two slots for the job.

Fairness (`FairSpec`): time passes; a request or run that can take a step takes
one; a due job is picked; a lock key expires; an orphaned job is noticed by the
stalled check; a stored goal gets scheduled. These are what Node's event loop,
BullMQ's worker and Redis' expiry do on their own. No failure is fair, and
`LeaveUnscheduled`, `Abandon` and the errors may always pre-empt the step.

### Sessions

The repository says little of sessions, so these properties say exactly how far
the code keeps the promise one would expect:

* `RevokedForGood`: an ended session never comes back. Tokens signed in one second
  collide, so this hangs on the unique index.
* `SessionsAccounted`: the live sessions are no more than one per registration and
  login, plus one for each refresh that lost a race: two refreshes with one
  token may both pass the check at `auth.service.ts:114` and both store a token.
* `ResetEndsSessions` (in `ResetInv`): after a reset, a session opened with an
  older password is alive only if the call that stored it was under way when
  sessions were ended (`auth.service.ts:179` comes after a login or refresh read
  the database, and before its insert), or a reset stopped between lines 178
  and 179, or the old password was put back.
* `PasswordKept`, `ResetTokenSpent` (in `LinksInv`): a chosen password is lost, and
  a replaced or used reset token found again, only after a save of the streak that
  loaded the user before the change and compared after it. Nothing in the code prevents this; the
  window is the few milliseconds between the two SELECTs of `updateStreak`.

Clock, session and reset link last one tick, so there are two seconds: enough for a
collision, for distinct tokens, and for an expired token and link. Two refreshes race;
the registration stands for any call that opens a session, as login does from the
same point on.

### Services

* **Rate limiter.** `BurstBound`: within the length of a window, Redis, or the map of
  one process, admits at most twice the limit (the end of one window and the start of
  the next), whatever connections and processes fail. `BlockedIsFreed`: a user who
  ran into the limit is let in again, unless a connection lost or a process killed
  between INCR and EXPIRE left a counter that never expires. Three requests, two
  processes, a limit of 1 and a window of 2 ticks are the least in which a fourth
  request could be one too many. That processes that lost Redis count on their own
  means the limit is per counter, not per user.
* **Cached lists.** `AnswersAreRecent`: what a caller is given was current a lifetime
  and the time of a fill ago, or later, though deletions are raced, lost, or made in
  another process only. `StaleHasReason`: Redis holds a superseded trending list only
  if its fill raced the change, its deletion is to come, or was lost. `Converges`:
  once nothing changes, all processes answer the current list in the end (checked of
  the key without deletions, the harder case). Two fills, one change, two processes,
  a lifetime of 2 ticks, one mishap.
* **Reminders.** `SkipsNeedAFault`: a run takes itself for a duplicate only if its own
  job met a failure before; so only a failure loses a reminder, as in finding 1, but
  there is no statement of the repository about reminders to hold this against.
  `RepeatsNeedFaults`: each failure repeats a reminder at most once.
  `NeverRemindsOfFailed`: nobody is reminded of a failed goal, though a goal may fail
  during a run. (An achieved one may be: the read and the notification are apart.)
  `QueuedReminderEnds`. Two slots, two attempts, one failure; deadlines up to 3 and
  leads of 2 and 1 ticks, so that reminders are due, late, or never queued.
* **Notifications.** `ChoiceKept`: a column holds the choice saved last, unless it was
  saved while another update was saving. `DeliveredAsChosen`: `notify` stores its
  notification if, and only if, the user wanted it at some time during the call.
  `FailsOnlyAtFirst`: only calls from before the preference row existed can lose to
  each other. Three calls of any kind, one error.
* **Follows, bookmarks, reactions.** `AnswersAreTrue`: what a call answers was true at
  some moment of the call. `RemovalSparesNewer`: a removal does not take a
  reaction made since it looked. `UntoldNeedsFailure`: a follow or reaction whose
  owner was not told comes from a call that failed after its insert; the retry finds
  the row and tells nobody. Four calls: two that add and two that remove.
* **Comments and score.** `ScoreIsCurrent`: when nobody computes it any more, the
  score is that of the goal's comments and reactions, unless an error ended a call or
  two calls overlapped. Soft-deleted comments count. That threads are whole is part of
  the type invariant. Three calls, replies included.
* **Pages.** `MissedHasReason`: a client that reads to the end gets every row that
  was there when it began, however many are added meanwhile, except rows that tie
  with another (no list's order has a tie-breaker). Lists of goals have three more
  reasons, and the property names each: a score changed; a goal was settled and left
  a list of the pending; the client was given a page from before a change, because
  pages of goals are cached one by one for 60 s for whoever is not logged in
  (`manifestation.service.ts:92-119`) and a change deletes only the trending list.
  Three rows, keys 0..2, so that ties and distinct keys both occur; limits of 0
  (raised to 1) and 4 (cut to `MaxLimit` = 2); a page below the first; one cached
  page at a time, which may be of any page and limit and expire at any time.
* **Confidence.** `StoredOnlyAges`: between requests the stored score is what would
  be computed now plus at most the fifth that time is worth, as long as the owner's
  success rate is the same. The counts go to 14, past the point where activity is
  capped (20 comments' worth with reactions and proof), and the clock past the
  deadline.
* **Processes.** `WorkKeepsConnections`: no request whose client waits for it, and
  no running job, ever finds a connection closed under it, however signals, a second
  shutdown and the closing interleave. `OnlyMishapsLose`: without a mishap a request
  is lost, or a goal stored without a job, only if its client hung up and a process
  was told to stop: the handler nobody waits for is overtaken by the shutdown.
  `ComesUp`: every process comes up, also one that lost the race for the migrations.
  `QueuedRuns`: a queued job is run, unless the worker lives on without Redis.
  `StopsUnlessAttached`: a process told to stop stops, unless a client stays attached:
  `server.close` waits for sockets nobody closes, until PM2 kills the process. Two API
  processes and the worker, one request of each kind, two signals and one mishap;
  socket clients, which matter only to the last property and finding 5, are in
  `services_progress` (with one signal) and `unheard_notification`.

Each module states its own fairness (`Fairness`), and `MCProgress` repeats it for
the service that has the turn: time passes, what a process's event loop or BullMQ
can do next it does, PM2 starts what is down. No user has to send anything and no
failure has to happen. One mishap at a time is explored because every property that
excuses a failure is about that failure; what several do together is covered where
it is proved (section 4).

Deadlock checking is off in all runs: clocks are bounded and calls are made once, so
a behaviour may come to rest. Symmetry is used in the four runs of safety
properties (`lifecycle_safety`, `worker_once`, `sessions`, `services_safe`), and
only between calls, rows, slots or processes of one kind.

### Findings

1. **A crash with the lock held loses the goal** (`deadline.worker.ts:13-21`).
   The key lives 120 s, BullMQ recovers the job within about a minute, the
   recovered run finds the key, logs "duplicate" and succeeds; the job is
   removed and the goal is pending for ever. `src/README.md:79` promises it is
   marked failed.
2. **A stale save reopens a settled goal** (`manifestation.service.ts:154-174`).
   A comment or reaction that read the goal before the worker settled it writes
   `pending` back; no job is left.
3. **A goal without a job is never settled** (`manifestation.jobs.ts:21`,
   `manifestation.service.ts:66-67`): one stored while BullMQ was not ready, or just
   before the process died, and, as BullMQ refuses the reminders' ids (section 2), one
   whose deadline is more than an hour ahead. `src/README.md:79` again.
4. **An error after the commit loses the streak** (`manifestation.service.ts:229`).
   The deadline job commits the status and then updates the streak and notifies. When
   one of these throws, the job is retried, finds a settled goal and ignores it.
   `src/README.md:69` says streaks are updated on achievement and failure.
5. **Notifications of the worker are never emitted** (`sockets/index.ts:47`). The
   socket server exists in API processes only, and each reaches its own clients only.
   `src/README.md:63` lists "Notification preferences + real-time Socket.IO events".
   Reminders and deadline notifications, which the worker alone sends, are found only
   in the stored list.
6. **The success rate is 1 or 0** (`user.repository.ts:83-104`). Both counts are of
   users joined with their goals, and `getCount` counts distinct users. `src/README.md:56`
   weighs `successRate` with 0.5, as a rate.

Three more things are shown by properties that hold, without a statement of the
repository against them: a submission fails after it stored its proof, and the goal
is achieved only when the deadline job runs (`AchievedHasTimelyProof`,
`TimelyProofAchieves`); a reminder is lost as a deadline check is in finding 1; a
client that stays connected holds up a shutdown, and one that hangs up may have its
request cut off by it.
Two hazards are in no module: the key of the trending list does not name the limit it
was asked with (`manifestation.service.ts:125`), and a page or limit that is not a
number becomes NaN and goes on to the query (`manifestation.controller.ts:27`).

## 4. What is proved

`GoalLifecycle_proofs` proves, for every number of goals, requests and slots, any
attempts and stalls, any failure budget and any grace period (assumptions
`StoreAssumption`, `JobsAssumption`, `RequestsAssumption`):

* `TypeCorrect`: `Spec => []TypeOK`;
* `EvidenceCorrect`: `Spec => []EvidenceInv`, and from it
  `AchievedCorrect`, `FailedCorrect`, `NoticesCorrect`;
* `OneProofCorrect`.

The first three invariants are not inductive: a stale save writes whatever
status a request holds in memory, and a notification repeats whatever verdict a
run holds. `EvidenceInv` therefore says the same of all four places: a row, a
rescore's entity, a run's verdict and a stored notification that claims
"achieved" has a timely proof behind it, and one that claims "failed" belongs to a
goal whose grace period is over without one (`Missed`). A submission's entity claims
more than that, so a part of its own (`OnlyRescoresWrite`) says that submissions do
not get past their save: the proof is stored by then, and was not when the entity was
loaded. `Missed` is stable
because a proof stored now is stamped after the deadline (`Persistence`); that
needs `Grace > 0`, and nothing about how long requests live. The proof first
shows, action by action, what a step can do to each kind of state (`RunMoves`,
`ReqMoves`, `StatusMoves`, `RowsMove`, `NoticesMove`, `JobMoves`), then derives
the invariant from these alone.

The same module proves, when no rescore happens (`Rescores = {}`; finding 2
shows why that is needed), `FinalityCorrect`, `SettledStaysCorrect` and
`EffectsAtMostOnceCorrect`. Two facts carry them. A submission is accepted only
before the deadline and a request lives at most `RequestLifetime`, which is at
most `Grace`: so when the deadline job may run, no submission still holds a goal
it read, and only `Finalize` writes a status (`SubmitsInTime`). And a run's
effects follow its own commit in order: a run at `UpdateStreak` or `Notify` is
the only one that found the goal pending, its effects are not yet done, and the
goal still has its verdict (`EffectsInOrder`).

It also proves `KeepsContractCorrect`: under the same condition
each step of requests, jobs, lock expiry, crash, stall and retry is a step of
`GoalContract` or a stutter under the mapping of `GoalRefinement`. The contract's
goal is settled once, when it is due: achieved with timely evidence, failed
without; it is then counted, then told; its
"at most once" is what the Redis lock and the row lock are for, and the proof
shows that the row lock and the status test do it alone.

`Sessions_proofs` proves all properties of `Sessions` for any number of calls and
any lifetimes. `ResetInv` is the inductive form of
`ResetEndsSessions`: it says the same of the sessions that calls are about to
store, and that a reset which has not ended the sessions is not counted as
having done so. `LinksInv` is that of `ResetTokenSpent`: the tokens in the row, in
the entities being saved and in the resets under way all come from calls of
`forgotPassword`, each of which made a new one. `SessionsAccounted` compares two
sums of cardinalities. Counting a refresh that has revoked its token and not yet stored
the new one together with the live sessions (`Rotating`), each step changes the sums by
at most one, and by the right one (`AccountMoves`, `AccountKept`); a refresh is in
`raced` only once it has revoked (`RacedLate`), so no race is counted twice.

`SocialLinks_proofs` proves the properties of `SocialLinks`, and `NoDuplicates`, for
any number of calls. Its invariant follows a call's `seen`: a call that found the row
saw it there and one that found none saw it gone; whoever inserts or deletes shows the
change to every call under way. So a refused insert, whose caller found nothing, has
since seen the row of the winner. `RemovalSparesNewer` needs that a row found is
one of `older`, and that rows are never inserted twice under one id.

`ListCache_proofs` proves `AnswersAreRecent` for every lifetime, fill time and number of
processes, from the fact that an entry ages in step with the version it holds and was
stored at most `FillTime` after its query (`CacheInv`); no deletion is needed for
that. `StaleHasReason` is proved for the key whose deletions the code makes.

`RateLimiter_proofs` proves `WindowBound`: one life of a counter, in Redis or in a
map, admits no more than the limit. The invariant says that a counter deals out its
numbers once (`Dealt`, `Distinct`), and that the request that created the key is the
only one to set its expiry, so that no expiry is prolonged and none set on a key that
is gone (`KeyInv`); the bound is then counted with an injection into 1..MaxRequests.
`BurstBound` needs two lives. `BurstInv` says that a request with a number of a life that
is over is old enough to be a whole window's length old when the present life ends
(`StaleAged`), so those younger than a window come from the last life alone and have
distinct numbers (`StaleDistinct`): two sets of at most `MaxRequests`.

`Notifications_proofs` proves `ChoiceKept`, `DeliveredAsChosen` and
`FailsOnlyAtFirst` for any number of calls. The invariant follows one column: an update
that holds an entity holds the stored value, or the column is mixed, because whoever
changed it saw somebody else saving; so what a save writes beside its own choice is
mixed, and what `notify` reads is the choice or mixed.

`ReminderJobs_proofs` proves the properties of `ReminderJobs` for any slots, attempts,
stalls and leads, and any grace period no shorter than a run. Its invariant keeps an
account (`Allowance`): the reminders stored, the runs that may still store one and
the pick to come are together at most one more than the failures the job met, so a key
deleted by the wrong run never repeats a reminder for free. Until the first failure
whatever runs owns the job and the key (`KeyIsOwn`); that a run reads the goal before
the deadline and lasts `RunTime` at most (`InTime`) keeps it clear of the failing.

`Services_proofs` has two parts. For the five services with a proof module of their
own it shows that a behaviour of `Services` with their turn is one of that module
(`LimiterRuns` and the like), and so lifts each theorem to the property the run
`services_safe` checks. For the other four it proves the invariant in place:

* **Score** (`ScoresInv`): a call between its read and its save holds the goal's
  comments and reactions as they are, or calls overlapped: any change makes
  whoever holds an older reading an overlap. Threads are whole because a reply's
  parent is a stored comment and comments are never removed (`ReplyKeepsThreads`).
* **Pages** (`ListsInv`): a row that ties with no other has in every order the
  database may choose the place its rank says (`PlaceIsRank`, by counting the rows
  not below it). A cached page whose list has not changed since is one the query could
  return now (`CurrentPages`). So while no key changed, no row left and no page was out
  of date, rows that are added only raise a row's rank, and the reader has skipped no
  more rows than the rank of each row it was not given (`AheadOfReader`). At the last
  page no rank is left for such a row.
* **Confidence** (`AgesInv`): the stored score is that of some earlier time, from
  the activity there is now, or from none before there was any. The score is a sum in
  which only the time's part is rounded (`ScoreIsSum`), and that part never grows with
  time (`TimePartGrows`), so the two scores differ by a fifth at most.
* **Processes** (`LifeInv`): `Opened` says in which phase which connection is open,
  `Placed` that requests and jobs are held by processes that serve, and by closing
  ones only if the client hung up; a process leaves the serving phase when nobody
  waits for it or it dies, and closes afterwards. Without a mishap a process past
  `queues` has Redis (`Unharmed`), so a goal whose handler was not overtaken gets its
  job; and a process that closes was told to stop (`Signalled`).

With `TypesOKHolds` every invariant and action property of the passing runs is a
theorem. The theorems assume what the modules' `...Assumption` say of their constants:
finite sets of rows and slots where something is counted, bounds that are numbers,
positive windows, lifetimes and limits, and, in `Paging`, that a client begins on the
first page (`normalizePagination` makes every smaller number that page).
`ServicesAssumption` conjoins those of the services, and TLC evaluates all of them.

Only model-checked: liveness (out of the prover's reach: `goal_settles` and
`services_progress`), and the findings, which are counterexamples.

## 5. What is left

* An abstract specification of reminders, as `GoalContract` is for the deadline.
* `trending` with its limit in the key's value, once the repository says what the
  answer should be.

Not modelled: controllers, DTOs and validation, the container, logging (translation
and wiring, no state); e-mail and Cloudinary (pure I/O whose result nothing reads
back; the upload is the gap between two steps of `submitProof`); `getMe`, `getById` and
the lists of followers and bookmarks (one read, no change); the SQL of the migrations
(`ProcessLife` has their application as a whole; their unique indexes and foreign
keys are in the modules whose rows they guard).
