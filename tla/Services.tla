------------------------------ MODULE Services ------------------------------
(***************************************************************************)
(* The services around the goals, put together.  They share no state in    *)
(* these modules, so what is true of each alone is true of all of them     *)
(* running side by side: a behaviour here is one of the service that has   *)
(* the turn, the others are off.                                           *)
(***************************************************************************)
EXTENDS Integers

CONSTANTS
    Procs, Worker,              \* the API processes, and the worker
    None,                       \* no process, call or row
    Requests,                   \* of the rate limiter
    MaxRequests, WindowSeconds, MaxCount,
    Fills, Writers,             \* of the cached trending list
    Ttl, FillTime, MaxVersion,
    Runs,                       \* slots of the reminder worker
    Lead, Attempts, MaxStalled, Grace, RunTime, MaxDeadline, MaxFaults,
    NoticeCalls, Types,         \* notifications
    LinkCalls,                  \* follows, bookmarks and reactions
    ScoreCalls, Foreign,        \* comments on a goal, and a row of another one
    ListRows, MaxKey, AskedPages, AskedLimits, MaxLimit,    \* lists read
    MaxEntries,                         \* by pages
    Lifetime, MaxActivity, MaxGoals,    \* the confidence score
    Goals, Remarks, Clients, MaxSignals,    \* life of the processes
    MaxTime, MaxMishaps, MaxErrors      \* bounds several services share

VARIABLES
    turn,
    limiterLink, counter, ttl, memory, req, limiterMishaps,
    cacheLink, version, gone, cache, entries, fill, writer, missed,
    cacheMishaps,
    now, status, deadline, adding, job, lock, run, sent, failedToo, outcome,
    hits, faults,
    stored, pref, call, inbox, read, chosen, mixed, errors,
    rows, linkCall, told, untold, linkErrors,
    comments, parent, deleted, reactions, score, scoreCall, overlapped,
    scoreErrors,
    key, pages, asked, reading, start, seen, moved, outdated,
    age, remarks, reacted, proof, achieved, failed, confidence, rate,
    link, phase, open, ready, stops, schema, task, hungUp, attached, deaf,
    signals, mishaps

Limiter == INSTANCE RateLimiter
    WITH NoProc <- None, link <- limiterLink, mishaps <- limiterMishaps

Trending == INSTANCE ListCache
    WITH Key <- "trending", NoProc <- None,
         link <- cacheLink, memory <- entries, mishaps <- cacheMishaps

Reminders == INSTANCE ReminderJobs WITH NoRun <- None

Notices == INSTANCE Notifications WITH Calls <- NoticeCalls

Links == INSTANCE SocialLinks
    WITH Calls <- LinkCalls, NoRow <- None,
         call <- linkCall, errors <- linkErrors

Scores == INSTANCE Engagement
    WITH Calls <- ScoreCalls, NoParent <- None, Elsewhere <- Foreign,
         call <- scoreCall, errors <- scoreErrors

Lists == INSTANCE Paging WITH Rows <- ListRows

Ages == INSTANCE Confidence
    WITH MaxCount <- MaxActivity, now <- age, comments <- remarks,
         reactions <- reacted, score <- confidence

Life == INSTANCE ProcessLife
    WITH Procs <- Procs \cup {Worker}, Apis <- Procs, Nowhere <- None

\* What the modules assume of their constants.
ASSUME ServicesAssumption ==
    /\ Limiter!LimiterAssumption /\ Trending!CacheAssumption
    /\ Reminders!RemindersAssumption /\ Notices!NotificationsAssumption
    /\ Links!LinksAssumption /\ Scores!EngagementAssumption
    /\ Lists!PagingAssumption /\ Ages!ConfidenceAssumption
    /\ Life!LifeAssumption

Turns == {"limiter", "trending", "reminders", "notices", "links", "scores",
          "lists", "ages", "life"}

Off == None

Init ==
    /\ turn \in Turns
    /\ IF turn = "limiter" THEN Limiter!Init
       ELSE /\ limiterLink = Off /\ counter = Off /\ ttl = Off
            /\ memory = Off /\ req = Off /\ limiterMishaps = Off
    /\ IF turn = "trending" THEN Trending!Init
       ELSE /\ cacheLink = Off /\ version = Off /\ gone = Off /\ cache = Off
            /\ entries = Off /\ fill = Off /\ writer = Off /\ missed = Off
            /\ cacheMishaps = Off
    /\ IF turn = "reminders" THEN Reminders!Init
       ELSE /\ now = Off /\ status = Off /\ deadline = Off /\ adding = Off
            /\ job = Off /\ lock = Off /\ run = Off /\ sent = Off
            /\ failedToo = Off /\ outcome = Off /\ hits = Off /\ faults = Off
    /\ IF turn = "notices" THEN Notices!Init
       ELSE /\ stored = Off /\ pref = Off /\ call = Off /\ inbox = Off
            /\ read = Off /\ chosen = Off /\ mixed = Off /\ errors = Off
    /\ IF turn = "links" THEN Links!Init
       ELSE /\ rows = Off /\ linkCall = Off /\ told = Off /\ untold = Off
            /\ linkErrors = Off
    /\ IF turn = "scores" THEN Scores!Init
       ELSE /\ comments = Off /\ parent = Off /\ deleted = Off
            /\ reactions = Off /\ score = Off /\ scoreCall = Off
            /\ overlapped = Off /\ scoreErrors = Off
    /\ IF turn = "lists" THEN Lists!Init
       ELSE /\ key = Off /\ pages = Off /\ asked = Off /\ reading = Off
            /\ start = Off /\ seen = Off /\ moved = Off /\ outdated = Off
    /\ IF turn = "ages" THEN Ages!Init
       ELSE /\ age = Off /\ remarks = Off /\ reacted = Off /\ proof = Off
            /\ achieved = Off /\ failed = Off /\ confidence = Off
            /\ rate = Off
    /\ IF turn = "life" THEN Life!Init
       ELSE /\ link = Off /\ phase = Off /\ open = Off /\ ready = Off
            /\ stops = Off /\ schema = Off /\ task = Off /\ hungUp = Off
            /\ attached = Off /\ deaf = Off /\ signals = Off
            /\ mishaps = Off

-----------------------------------------------------------------------------
R == <<limiterLink, counter, ttl, memory, req, limiterMishaps>>
T == <<cacheLink, version, gone, cache, entries, fill, writer, missed,
       cacheMishaps>>
J == <<now, status, deadline, adding, job, lock, run, sent, failedToo,
       outcome, hits, faults>>
N == <<stored, pref, call, inbox, read, chosen, mixed, errors>>
L == <<rows, linkCall, told, untold, linkErrors>>
S == <<comments, parent, deleted, reactions, score, scoreCall, overlapped,
       scoreErrors>>
P == <<key, pages, asked, reading, start, seen, moved, outdated>>
A == <<age, remarks, reacted, proof, achieved, failed, confidence, rate>>
F == <<link, phase, open, ready, stops, schema, task, hungUp, attached, deaf,
       signals, mishaps>>

LimiterStep ==
    turn = "limiter" /\ Limiter!Next
    /\ UNCHANGED <<turn, T, J, N, L, S, P, A, F>>
TrendingStep ==
    turn = "trending" /\ Trending!Next
    /\ UNCHANGED <<turn, R, J, N, L, S, P, A, F>>
RemindersStep ==
    turn = "reminders" /\ Reminders!Next
    /\ UNCHANGED <<turn, R, T, N, L, S, P, A, F>>
NoticesStep ==
    turn = "notices" /\ Notices!Next
    /\ UNCHANGED <<turn, R, T, J, L, S, P, A, F>>
LinksStep ==
    turn = "links" /\ Links!Next
    /\ UNCHANGED <<turn, R, T, J, N, S, P, A, F>>
ScoresStep ==
    turn = "scores" /\ Scores!Next
    /\ UNCHANGED <<turn, R, T, J, N, L, P, A, F>>
ListsStep ==
    turn = "lists" /\ Lists!Next
    /\ UNCHANGED <<turn, R, T, J, N, L, S, A, F>>
AgesStep ==
    turn = "ages" /\ Ages!Next
    /\ UNCHANGED <<turn, R, T, J, N, L, S, P, F>>
LifeStep ==
    turn = "life" /\ Life!Next
    /\ UNCHANGED <<turn, R, T, J, N, L, S, P, A>>

Next ==
    \/ LimiterStep \/ TrendingStep \/ RemindersStep \/ NoticesStep
    \/ LinksStep \/ ScoresStep \/ ListsStep \/ AgesStep \/ LifeStep

vars == <<turn, R, T, J, N, L, S, P, A, F>>

Spec == Init /\ [][Next]_vars

-----------------------------------------------------------------------------
\* The properties, of the service that has the turn; each is explained in its
\* module.

\* Types of every service.
TypesOK ==
    CASE turn = "limiter" -> Limiter!TypeOK
      [] turn = "trending" -> Trending!TypeOK
      [] turn = "reminders" -> Reminders!TypeOK
      [] turn = "notices" -> Notices!TypeOK
      [] turn = "links" -> Links!TypeOK
      [] turn = "scores" -> Scores!TypeOK
      [] turn = "lists" -> Lists!TypeOK
      [] turn = "ages" -> Ages!TypeOK
      [] turn = "life" -> Life!TypeOK

\* No counter of the rate limiter admits more than two windows' requests in
\* the length of one.
BurstBound == turn = "limiter" => Limiter!BurstBound

\* What the cache answers was true a lifetime and a fill ago, at most.
AnswersAreRecent == turn = "trending" => Trending!AnswersAreRecent

\* A superseded list in Redis was raced, or its deletion is due or was lost.
StaleHasReason == turn = "trending" => Trending!StaleHasReason

\* No reminder is taken for a duplicate unless its job met a failure.
SkipsNeedAFault == turn = "reminders" => Reminders!SkipsNeedAFault

\* A failure repeats a reminder at most once.
RepeatsNeedFaults == turn = "reminders" => Reminders!RepeatsNeedFaults

\* Nobody is reminded of a failed goal.
NeverRemindsOfFailed == turn = "reminders" => Reminders!NeverRemindsOfFailed

\* A preference is the user's last choice, unless updates overlapped.
ChoiceKept == turn = "notices" => Notices!ChoiceKept

\* A notification is stored if, and only if, the user wanted it.
DeliveredAsChosen == turn = "notices" => Notices!DeliveredAsChosen

\* Only first calls lose to each other on the index of the preferences.
FailsOnlyAtFirst == turn = "notices" => Notices!FailsOnlyAtFirst

\* Follows, bookmarks and reactions answer what was true during the call.
AnswersAreTrue == turn = "links" => Links!AnswersAreTrue

\* Who was not told of a follow or reaction met a failure.
UntoldNeedsFailure == turn = "links" => Links!UntoldNeedsFailure

\* The removal of a reaction spares one that is newer.
RemovalSparesNewer ==
    [][turn = "links" => Links!SparesNewer]_vars

\* The score is current once nobody computes it, unless calls overlapped.
ScoreIsCurrent == turn = "scores" => Scores!ScoreIsCurrent

\* A reader misses rows only among ties, when the list itself changed, or when
\* it was given an outdated page.
MissedHasReason == turn = "lists" => Lists!MissedHasReason

\* Between requests the stored score only ages.
StoredOnlyAges == turn = "ages" => Ages!StoredOnlyAges

\* Work somebody waits for keeps the connections it needs.
WorkKeepsConnections == turn = "life" => Life!WorkKeepsConnections

\* Stopping and starting loses no request and no job of a client that stays.
OnlyMishapsLose == turn = "life" => Life!OnlyMishapsLose

=============================================================================
