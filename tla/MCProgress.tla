----------------------------- MODULE MCProgress -----------------------------
(***************************************************************************)
(* The instances of the processes' and Redis' services that TLC checks for *)
(* progress.  As in MCServices, a behaviour is one of the service that has *)
(* the turn; the others stay where they begin.                             *)
(***************************************************************************)
EXTENDS Integers

CONSTANTS
    c1, c2,             \* requests, calls, slots or clients
    p1, p2, worker,     \* processes
    None                \* no process or slot

VARIABLES
    turn,
    limiterLink, counter, ttl, memory, req, limiterMishaps,
    cacheLink, version, gone, cache, entries, fill, writer, missed,
    cacheMishaps,
    now, status, deadline, adding, job, lock, run, sent, failedToo, outcome,
    hits, faults,
    link, phase, open, ready, stops, schema, task, hungUp, attached, deaf,
    signals, mishaps

Limiter == INSTANCE RateLimiter
    WITH Procs <- {p1}, Requests <- {c1, c2}, NoProc <- None,
         MaxRequests <- 1, WindowSeconds <- 2, MaxCount <- 3, MaxMishaps <- 1,
         link <- limiterLink, mishaps <- limiterMishaps

Trending == INSTANCE ListCache
    WITH Procs <- {p1, p2}, Key <- "list", Fills <- {c1}, Writers <- {c2},
         NoProc <- None, Ttl <- 2, FillTime <- 1, MaxVersion <- 1,
         MaxMishaps <- 1,
         link <- cacheLink, memory <- entries, mishaps <- cacheMishaps

Reminders == INSTANCE ReminderJobs
    WITH Runs <- {c1}, NoRun <- None,
         Lead <- [k \in {"1d", "1h"} |-> IF k = "1d" THEN 2 ELSE 1],
         Attempts <- 2, MaxStalled <- 1, Grace <- 1, RunTime <- 1,
         MaxDeadline <- 3, MaxTime <- 4, MaxFaults <- 1

Life == INSTANCE ProcessLife
    WITH Procs <- {p1, p2, worker}, Apis <- {p1, p2}, Worker <- worker,
         Goals <- {c1}, Remarks <- {}, Clients <- {c2}, Nowhere <- None,
         MaxSignals <- 1, MaxMishaps <- 1

\* What the modules assume of their constants.
ASSUME ProgressAssumption ==
    /\ Limiter!LimiterAssumption /\ Trending!CacheAssumption
    /\ Reminders!RemindersAssumption /\ Life!LifeAssumption

R == <<limiterLink, counter, ttl, memory, req, limiterMishaps>>
T == <<cacheLink, version, gone, cache, entries, fill, writer, missed,
       cacheMishaps>>
J == <<now, status, deadline, adding, job, lock, run, sent, failedToo,
       outcome, hits, faults>>
F == <<link, phase, open, ready, stops, schema, task, hungUp, attached, deaf,
       signals, mishaps>>
vars == <<turn, R, T, J, F>>

\* A service that does not have the turn begins in one of its states only.
Init ==
    /\ turn \in {"limiter", "trending", "reminders", "life"}
    /\ Limiter!Init /\ Trending!Init /\ Reminders!Init /\ Life!Init
    /\ turn # "limiter" => limiterLink = [p \in {p1} |-> "up"]
    /\ turn # "trending" => cacheLink = [p \in {p1, p2} |-> "up"]

Next ==
    \/ turn = "limiter" /\ Limiter!Next /\ UNCHANGED <<turn, T, J, F>>
    \/ turn = "trending" /\ Trending!Next /\ UNCHANGED <<turn, R, J, F>>
    \/ turn = "reminders" /\ Reminders!Next /\ UNCHANGED <<turn, R, T, F>>
    \/ turn = "life" /\ Life!Next /\ UNCHANGED <<turn, R, T, J>>

\* The service that has the turn is scheduled as the Fairness of its module
\* says.
LimiterFairness ==
    LET On(A) == turn = "limiter" /\ A IN
    /\ WF_R(On(Limiter!Tick))
    /\ \A r \in {c1, c2} : WF_R(On(Limiter!RequestStep(r)))

TrendingFairness ==
    LET On(A) == turn = "trending" /\ A IN
    /\ WF_T(On(Trending!Tick))
    /\ WF_T(On(Trending!FillStep(c1)))
    /\ WF_T(On(Trending!WriterStep(c2)))

RemindersFairness ==
    LET On(A) == turn = "reminders" /\ A IN
    /\ WF_J(On(Reminders!Tick))
    /\ WF_J(On(\E k \in Reminders!Kinds : Reminders!AddReminder(k)))
    /\ WF_J(On(Reminders!AddDeadlineCheck))
    /\ WF_J(On(Reminders!RunStep(c1)))
    /\ \A k \in Reminders!Kinds :
         WF_J(On(Reminders!Pick(c1, k))) /\ WF_J(On(Reminders!RecoverOrphan(k)))

LifeFairness ==
    LET On(A) == turn = "life" /\ A IN
    /\ \A p \in {p1, p2, worker} : WF_F(On(Life!ProcStep(p)))
    /\ WF_F(On(Life!TaskStep(c1)))

FairSpec ==
    /\ Init /\ [][Next]_vars
    /\ LimiterFairness /\ TrendingFairness
    /\ RemindersFairness /\ LifeFairness

-----------------------------------------------------------------------------
\* The properties, of the service that has the turn; each is explained in its
\* module.

\* A blocked user is let in again, unless a failure left the counter for ever.
BlockedIsFreed == turn = "limiter" => Limiter!BlockedIsFreed

\* When changes stop, every process serves the current list in the end.
Converges == turn = "trending" => Trending!Converges

\* A queued reminder ends, and is given up only after failures.
QueuedReminderEnds == turn = "reminders" => Reminders!QueuedReminderEnds

\* Processes come up.
ComesUp == turn = "life" => Life!ComesUp

\* Queued jobs are run.
QueuedRuns == turn = "life" => Life!QueuedRuns

\* A process told to stop stops, unless a client stays.
StopsUnlessAttached == turn = "life" => Life!StopsUnlessAttached

=============================================================================
