-------------------------- MODULE Services_proofs --------------------------
(***************************************************************************)
(* Proofs about the services that run beside the goals.                    *)
(***************************************************************************)
EXTENDS Services, FiniteSetTheorems, TLAPS

\* The service that has the turn keeps it.
LEMMA TurnKept == [Next]_vars => turn' = turn
BY DEF Next, vars, LimiterStep, TrendingStep, RemindersStep, NoticesStep,
       LinksStep, ScoresStep, ListsStep, AgesStep, LifeStep

-----------------------------------------------------------------------------
\* Limiter: the rate limiter.

LimiterP == INSTANCE RateLimiter_proofs
    WITH NoProc <- None, link <- limiterLink, mishaps <- limiterMishaps

\* The theorems about the rate limiter are about the
\* module Services composes.
LEMMA LimiterSame ==
    /\ Limiter!LimiterAssumption => LimiterP!LimiterAssumption
    /\ Limiter!Init => LimiterP!Init
    /\ Limiter!Next => LimiterP!Next
<1>1. Limiter!LimiterAssumption => LimiterP!LimiterAssumption
  BY DEF
    Limiter!LimiterAssumption, LimiterP!LimiterAssumption
<1>2. Limiter!Init => LimiterP!Init
  BY DEF
    Limiter!Init, Limiter!LinkInit, Limiter!Never, Limiter!NoRecord,
    Limiter!Idle, Limiter!BootLinks, LimiterP!Init, LimiterP!LinkInit,
    LimiterP!Never, LimiterP!NoRecord, LimiterP!Idle, LimiterP!BootLinks
<1>3. Limiter!Next => LimiterP!Next
  BY DEF
    Limiter!Next, Limiter!Incr, Limiter!ArriveOffline, Limiter!RequestStep,
    Limiter!Disconnect, Limiter!Crash, Limiter!Tick, Limiter!Answers,
    Limiter!NextNumber, Limiter!AfterIncr, Limiter!ConsumeMemory,
    Limiter!Expire, Limiter!Decide, Limiter!FallBack, Limiter!LoseLink,
    Limiter!Reboot, Limiter!NoRecord, Limiter!InFlight, Limiter!Idle,
    Limiter!Never, Limiter!Aged, Limiter!Older, Limiter!Counted,
    Limiter!Verdict, Limiter!BootLinks, Limiter!Outlived, LimiterP!Next,
    LimiterP!Incr, LimiterP!ArriveOffline, LimiterP!RequestStep,
    LimiterP!Disconnect, LimiterP!Crash, LimiterP!Tick, LimiterP!Answers,
    LimiterP!NextNumber, LimiterP!AfterIncr, LimiterP!ConsumeMemory,
    LimiterP!Expire, LimiterP!Decide, LimiterP!FallBack, LimiterP!LoseLink,
    LimiterP!Reboot, LimiterP!NoRecord, LimiterP!InFlight, LimiterP!Idle,
    LimiterP!Never, LimiterP!Aged, LimiterP!Older, LimiterP!Counted,
    LimiterP!Verdict, LimiterP!BootLinks, LimiterP!Outlived
<1> QED
  BY <1>1, <1>2, <1>3

\* A behaviour with the turn of the rate limiter is one of that service.
LEMMA LimiterRuns ==
    Spec /\ turn = "limiter" => LimiterP!Spec /\ [](turn = "limiter")
<1>1. Init /\ turn = "limiter" => LimiterP!Init
  BY LimiterSame DEF Init
<1>2. turn = "limiter" /\ [Next]_vars
        => (turn = "limiter")' /\ [LimiterP!Next]_(LimiterP!vars)
  <2>1. ASSUME turn = "limiter", Next
        PROVE  (turn = "limiter")' /\ LimiterP!Next
    BY <2>1, LimiterSame
    DEF Next, LimiterStep, TrendingStep, RemindersStep, NoticesStep,
        LinksStep, ScoresStep, ListsStep, AgesStep, LifeStep
  <2>2. ASSUME turn = "limiter", UNCHANGED vars
        PROVE  (turn = "limiter")' /\ UNCHANGED LimiterP!vars
    BY <2>2 DEF vars, R, LimiterP!vars
  <2> QED
    BY <2>1, <2>2
<1> QED
  BY <1>1, <1>2, PTL DEF Spec, LimiterP!Spec


\* The limiter admits at most twice the limit in one window's length, whatever
\* connections and processes fail (the proof is that of RateLimiter_proofs).
THEOREM BurstBoundHolds == Spec => []BurstBound
<1>1. LimiterP!Spec => []LimiterP!BurstBound
  BY LimiterP!BurstCorrect, LimiterSame, ServicesAssumption
  DEF ServicesAssumption
<1>2. turn = "limiter" /\ LimiterP!BurstBound => BurstBound
  BY DEF
    BurstBound, Limiter!BurstBound, Limiter!Admitted, Limiter!Source,
    LimiterP!BurstBound, LimiterP!Admitted, LimiterP!Source,
    Limiter!Cardinality, LimiterP!Cardinality
<1>3. ~(turn = "limiter") => BurstBound
  BY DEF BurstBound
<1>4. ~(turn = "limiter") /\ [Next]_vars => ~(turn = "limiter")'
  BY TurnKept
<1> QED
  BY <1>1, <1>2, <1>3, <1>4, LimiterRuns, PTL DEF Spec


\* Types of the rate limiter.
LEMMA LimiterTypes == Spec => [](turn = "limiter" => Limiter!TypeOK)
<1>1. LimiterP!Spec => []LimiterP!TypeOK
  BY LimiterP!LimiterTypeCorrect, LimiterSame, ServicesAssumption
  DEF ServicesAssumption
<1>2. LimiterP!TypeOK => Limiter!TypeOK
  BY DEF
    Limiter!TypeOK, Limiter!LinkTypeOK, Limiter!Never, Limiter!Records,
    Limiter!RequestRows, Limiter!Links, Limiter!Pcs, LimiterP!TypeOK,
    LimiterP!LinkTypeOK, LimiterP!Never, LimiterP!Records,
    LimiterP!RequestRows, LimiterP!Links, LimiterP!Pcs
<1>3. ~(turn = "limiter") /\ [Next]_vars => ~(turn = "limiter")'
  BY TurnKept
<1> QED
  BY <1>1, <1>2, <1>3, LimiterRuns, PTL DEF Spec


-----------------------------------------------------------------------------
\* Trending: the cached list.

TrendingP == INSTANCE ListCache_proofs
    WITH Key <- "trending", NoProc <- None,
         link <- cacheLink, memory <- entries, mishaps <- cacheMishaps

\* The theorems about the cached list are about the
\* module Services composes.
LEMMA TrendingSame ==
    /\ Trending!CacheAssumption => TrendingP!CacheAssumption
    /\ Trending!Init => TrendingP!Init
    /\ Trending!Next => TrendingP!Next
<1>1. Trending!CacheAssumption => TrendingP!CacheAssumption
  BY DEF
    Trending!CacheAssumption, TrendingP!CacheAssumption
<1>2. Trending!Init => TrendingP!Init
  BY DEF
    Trending!Init, Trending!LinkInit, Trending!Versions, Trending!NoEntry,
    Trending!IdleFill, Trending!IdleWriter, Trending!BootLinks,
    TrendingP!Init, TrendingP!LinkInit, TrendingP!Versions, TrendingP!NoEntry,
    TrendingP!IdleFill, TrendingP!IdleWriter, TrendingP!BootLinks
<1>3. Trending!Next => TrendingP!Next
  BY DEF
    Trending!Next, Trending!FillStep, Trending!Hit, Trending!Miss,
    Trending!WriterStep, Trending!SkipDelete, Trending!Change,
    Trending!Disconnect, Trending!Crash, Trending!Tick, Trending!Query,
    Trending!Keep, Trending!Store, Trending!Found, Trending!vars,
    Trending!IdleFill, Trending!Forget, Trending!Delete, Trending!Mishap,
    Trending!IdleWriter, Trending!AfterChange, Trending!LoseLink,
    Trending!Reboot, Trending!NoEntry, Trending!Versions, Trending!VeryOld,
    Trending!Aged, Trending!Stored, Trending!Answers, Trending!BootLinks,
    TrendingP!Next, TrendingP!FillStep, TrendingP!Hit, TrendingP!Miss,
    TrendingP!WriterStep, TrendingP!SkipDelete, TrendingP!Change,
    TrendingP!Disconnect, TrendingP!Crash, TrendingP!Tick, TrendingP!Query,
    TrendingP!Keep, TrendingP!Store, TrendingP!Found, TrendingP!vars,
    TrendingP!IdleFill, TrendingP!Forget, TrendingP!Delete, TrendingP!Mishap,
    TrendingP!IdleWriter, TrendingP!AfterChange, TrendingP!LoseLink,
    TrendingP!Reboot, TrendingP!NoEntry, TrendingP!Versions,
    TrendingP!VeryOld, TrendingP!Aged, TrendingP!Stored, TrendingP!Answers,
    TrendingP!BootLinks
<1> QED
  BY <1>1, <1>2, <1>3

\* A behaviour with the turn of the cached list is one of that service.
LEMMA TrendingRuns ==
    Spec /\ turn = "trending" => TrendingP!Spec /\ [](turn = "trending")
<1>1. Init /\ turn = "trending" => TrendingP!Init
  BY TrendingSame DEF Init
<1>2. turn = "trending" /\ [Next]_vars
        => (turn = "trending")' /\ [TrendingP!Next]_(TrendingP!vars)
  <2>1. ASSUME turn = "trending", Next
        PROVE  (turn = "trending")' /\ TrendingP!Next
    BY <2>1, TrendingSame
    DEF Next, LimiterStep, TrendingStep, RemindersStep, NoticesStep,
        LinksStep, ScoresStep, ListsStep, AgesStep, LifeStep
  <2>2. ASSUME turn = "trending", UNCHANGED vars
        PROVE  (turn = "trending")' /\ UNCHANGED TrendingP!vars
    BY <2>2 DEF vars, T, TrendingP!vars
  <2> QED
    BY <2>1, <2>2
<1> QED
  BY <1>1, <1>2, PTL DEF Spec, TrendingP!Spec


\* What the cache answers was true a lifetime and a fill ago at most.
THEOREM AnswersAreRecentHolds == Spec => []AnswersAreRecent
<1>1. TrendingP!Spec => []TrendingP!AnswersAreRecent
  BY TrendingP!RecentCorrect, TrendingSame, ServicesAssumption
  DEF ServicesAssumption
<1>2. turn = "trending" /\ TrendingP!AnswersAreRecent => AnswersAreRecent
  BY DEF
    AnswersAreRecent, Trending!AnswersAreRecent, Trending!EntryIsRecent,
    TrendingP!AnswersAreRecent, TrendingP!EntryIsRecent
<1>3. ~(turn = "trending") => AnswersAreRecent
  BY DEF AnswersAreRecent
<1>4. ~(turn = "trending") /\ [Next]_vars => ~(turn = "trending")'
  BY TurnKept
<1> QED
  BY <1>1, <1>2, <1>3, <1>4, TrendingRuns, PTL DEF Spec


\* A superseded trending list in Redis was raced by a fill, or its deletion is
\* due or was lost: the code deletes that key after every change.
THEOREM StaleHasReasonHolds == Spec => []StaleHasReason
<1>1. TrendingP!Spec => []TrendingP!StaleHasReason
  BY TrendingP!StaleCorrect, TrendingSame, ServicesAssumption
  DEF ServicesAssumption
<1>2. turn = "trending" /\ TrendingP!StaleHasReason => StaleHasReason
  BY DEF
    StaleHasReason, Trending!StaleHasReason, TrendingP!StaleHasReason
<1>3. ~(turn = "trending") => StaleHasReason
  BY DEF StaleHasReason
<1>4. ~(turn = "trending") /\ [Next]_vars => ~(turn = "trending")'
  BY TurnKept
<1> QED
  BY <1>1, <1>2, <1>3, <1>4, TrendingRuns, PTL DEF Spec


\* Types of the cached list.
LEMMA TrendingTypes == Spec => [](turn = "trending" => Trending!TypeOK)
<1>1. TrendingP!Spec => []TrendingP!TypeOK
  BY TrendingP!CacheTypeCorrect, TrendingSame, ServicesAssumption
  DEF ServicesAssumption
<1>2. TrendingP!TypeOK => Trending!TypeOK
  BY DEF
    Trending!TypeOK, Trending!LinkTypeOK, Trending!Versions, Trending!Entries,
    Trending!FillRows, Trending!WriterRows, Trending!Links, TrendingP!TypeOK,
    TrendingP!LinkTypeOK, TrendingP!Versions, TrendingP!Entries,
    TrendingP!FillRows, TrendingP!WriterRows, TrendingP!Links
<1>3. ~(turn = "trending") /\ [Next]_vars => ~(turn = "trending")'
  BY TurnKept
<1> QED
  BY <1>1, <1>2, <1>3, TrendingRuns, PTL DEF Spec


-----------------------------------------------------------------------------
\* Reminders: the reminder worker.

RemindersP == INSTANCE ReminderJobs_proofs
    WITH NoRun <- None

\* The theorems about the reminder worker are about the
\* module Services composes.
LEMMA RemindersSame ==
    /\ Reminders!RemindersAssumption => RemindersP!RemindersAssumption
    /\ Reminders!Init => RemindersP!Init
    /\ Reminders!Next => RemindersP!Next
<1>1. Reminders!RemindersAssumption => RemindersP!RemindersAssumption
  BY DEF
    Reminders!RemindersAssumption, Reminders!Kinds,
    RemindersP!RemindersAssumption, RemindersP!Kinds, Reminders!IsFiniteSet,
    RemindersP!IsFiniteSet
<1>2. Reminders!Init => RemindersP!Init
  BY DEF
    Reminders!Init, Reminders!Kinds, Reminders!NoJob, Reminders!IdleRun,
    RemindersP!Init, RemindersP!Kinds, RemindersP!NoJob, RemindersP!IdleRun
<1>3. Reminders!Next => RemindersP!Next
  BY DEF
    Reminders!Next, Reminders!Create, Reminders!Kinds, Reminders!AddReminder,
    Reminders!AddDeadlineCheck, Reminders!AddsFail, Reminders!RunStep,
    Reminders!RedisError, Reminders!DbError, Reminders!Pick,
    Reminders!LockExpire, Reminders!RecoverOrphan, Reminders!StallLiveRun,
    Reminders!CrashWorker, Reminders!GoalMoves, Reminders!Tick,
    Reminders!jobVars, Reminders!history, Reminders!AddAfter,
    Reminders!RemindAt, Reminders!NoJob, Reminders!goalVars, Reminders!Strike,
    Reminders!notices, Reminders!AcquireLock, Reminders!SkipHeldLock,
    Reminders!ReadGoal, Reminders!Notify, Reminders!Release, Reminders!Finish,
    Reminders!Tell, Reminders!IdleRun, Reminders!AfterStall, Reminders!Held,
    Reminders!SetLock, Reminders!TooLate, Reminders!AfterSuccess,
    Reminders!AfterFailure, Reminders!LockKey, Reminders!RetryLeft,
    RemindersP!Next, RemindersP!Create, RemindersP!Kinds,
    RemindersP!AddReminder, RemindersP!AddDeadlineCheck, RemindersP!AddsFail,
    RemindersP!RunStep, RemindersP!RedisError, RemindersP!DbError,
    RemindersP!Pick, RemindersP!LockExpire, RemindersP!RecoverOrphan,
    RemindersP!StallLiveRun, RemindersP!CrashWorker, RemindersP!GoalMoves,
    RemindersP!Tick, RemindersP!jobVars, RemindersP!history,
    RemindersP!AddAfter, RemindersP!RemindAt, RemindersP!NoJob,
    RemindersP!goalVars, RemindersP!Strike, RemindersP!notices,
    RemindersP!AcquireLock, RemindersP!SkipHeldLock, RemindersP!ReadGoal,
    RemindersP!Notify, RemindersP!Release, RemindersP!Finish, RemindersP!Tell,
    RemindersP!IdleRun, RemindersP!AfterStall, RemindersP!Held,
    RemindersP!SetLock, RemindersP!TooLate, RemindersP!AfterSuccess,
    RemindersP!AfterFailure, RemindersP!LockKey, RemindersP!RetryLeft
<1> QED
  BY <1>1, <1>2, <1>3

\* A behaviour with the turn of the reminder worker is one of that service.
LEMMA RemindersRuns ==
    Spec /\ turn = "reminders" => RemindersP!Spec /\ [](turn = "reminders")
<1>1. Init /\ turn = "reminders" => RemindersP!Init
  BY RemindersSame DEF Init
<1>2. turn = "reminders" /\ [Next]_vars
        => (turn = "reminders")' /\ [RemindersP!Next]_(RemindersP!vars)
  <2>1. ASSUME turn = "reminders", Next
        PROVE  (turn = "reminders")' /\ RemindersP!Next
    BY <2>1, RemindersSame
    DEF Next, LimiterStep, TrendingStep, RemindersStep, NoticesStep,
        LinksStep, ScoresStep, ListsStep, AgesStep, LifeStep
  <2>2. ASSUME turn = "reminders", UNCHANGED vars
        PROVE  (turn = "reminders")' /\ UNCHANGED RemindersP!vars
    BY <2>2 DEF vars, J, RemindersP!vars, RemindersP!goalVars,
        RemindersP!jobVars, RemindersP!history, RemindersP!notices
  <2> QED
    BY <2>1, <2>2
<1> QED
  BY <1>1, <1>2, PTL DEF Spec, RemindersP!Spec


\* A reminder is taken for a duplicate only after its job met a failure.
THEOREM SkipsNeedAFaultHolds == Spec => []SkipsNeedAFault
<1>1. RemindersP!Spec => []RemindersP!SkipsNeedAFault
  BY RemindersP!SkipsCorrect, RemindersSame, ServicesAssumption
  DEF ServicesAssumption
<1>2. turn = "reminders" /\ RemindersP!SkipsNeedAFault => SkipsNeedAFault
  BY DEF
    SkipsNeedAFault, Reminders!SkipsNeedAFault, Reminders!Kinds,
    RemindersP!SkipsNeedAFault, RemindersP!Kinds
<1>3. ~(turn = "reminders") => SkipsNeedAFault
  BY DEF SkipsNeedAFault
<1>4. ~(turn = "reminders") /\ [Next]_vars => ~(turn = "reminders")'
  BY TurnKept
<1> QED
  BY <1>1, <1>2, <1>3, <1>4, RemindersRuns, PTL DEF Spec


\* A reminder is sent once more than its job met failures, at most.
THEOREM RepeatsNeedFaultsHolds == Spec => []RepeatsNeedFaults
<1>1. RemindersP!Spec => []RemindersP!RepeatsNeedFaults
  BY RemindersP!RepeatsCorrect, RemindersSame, ServicesAssumption
  DEF ServicesAssumption
<1>2. turn = "reminders" /\ RemindersP!RepeatsNeedFaults => RepeatsNeedFaults
  BY DEF
    RepeatsNeedFaults, Reminders!RepeatsNeedFaults, Reminders!Kinds,
    RemindersP!RepeatsNeedFaults, RemindersP!Kinds
<1>3. ~(turn = "reminders") => RepeatsNeedFaults
  BY DEF RepeatsNeedFaults
<1>4. ~(turn = "reminders") /\ [Next]_vars => ~(turn = "reminders")'
  BY TurnKept
<1> QED
  BY <1>1, <1>2, <1>3, <1>4, RemindersRuns, PTL DEF Spec


\* A goal the reminder worker read as failed is reminded of to nobody.
THEOREM NeverRemindsOfFailedHolds == Spec => []NeverRemindsOfFailed
<1>1. RemindersP!Spec => []RemindersP!NeverRemindsOfFailed
  BY RemindersP!NeverRemindsCorrect, RemindersSame, ServicesAssumption
  DEF ServicesAssumption
<1>2. turn = "reminders" /\ RemindersP!NeverRemindsOfFailed
        => NeverRemindsOfFailed
  BY DEF
    NeverRemindsOfFailed, Reminders!NeverRemindsOfFailed,
    RemindersP!NeverRemindsOfFailed
<1>3. ~(turn = "reminders") => NeverRemindsOfFailed
  BY DEF NeverRemindsOfFailed
<1>4. ~(turn = "reminders") /\ [Next]_vars => ~(turn = "reminders")'
  BY TurnKept
<1> QED
  BY <1>1, <1>2, <1>3, <1>4, RemindersRuns, PTL DEF Spec


\* Types of the reminder worker.
LEMMA RemindersTypes == Spec => [](turn = "reminders" => Reminders!TypeOK)
<1>1. RemindersP!Spec => []RemindersP!TypeOK
  BY RemindersP!RemindersTypeCorrect, RemindersSame, ServicesAssumption
  DEF ServicesAssumption
<1>2. RemindersP!TypeOK => Reminders!TypeOK
  BY DEF
    Reminders!TypeOK, Reminders!Statuses, Reminders!Adds, Reminders!Kinds,
    Reminders!JobRows, Reminders!RunRows, Reminders!Outcomes,
    RemindersP!TypeOK, RemindersP!Statuses, RemindersP!Adds, RemindersP!Kinds,
    RemindersP!JobRows, RemindersP!RunRows, RemindersP!Outcomes
<1>3. ~(turn = "reminders") /\ [Next]_vars => ~(turn = "reminders")'
  BY TurnKept
<1> QED
  BY <1>1, <1>2, <1>3, RemindersRuns, PTL DEF Spec


-----------------------------------------------------------------------------
\* Notices: the notifications.

NoticesP == INSTANCE Notifications_proofs
    WITH Calls <- NoticeCalls

\* The theorems about the notifications are about the
\* module Services composes.
LEMMA NoticesSame ==
    /\ Notices!NotificationsAssumption => NoticesP!NotificationsAssumption
    /\ Notices!Init => NoticesP!Init
    /\ Notices!Next => NoticesP!Next
<1>1. Notices!NotificationsAssumption => NoticesP!NotificationsAssumption
  BY DEF
    Notices!NotificationsAssumption, Notices!AllTypes,
    NoticesP!NotificationsAssumption, NoticesP!AllTypes
<1>2. Notices!Init => NoticesP!Init
  BY DEF
    Notices!Init, Notices!Defaults, Notices!Fresh, Notices!Columns,
    Notices!SomeType, Notices!NoChoice, Notices!Preference, NoticesP!Init,
    NoticesP!Defaults, NoticesP!Fresh, NoticesP!Columns, NoticesP!SomeType,
    NoticesP!NoChoice, NoticesP!Preference
<1>3. Notices!Next => NoticesP!Next
  BY DEF
    Notices!Next, Notices!Start, Notices!NoChoice, Notices!SomeType,
    Notices!Choices, Notices!Find, Notices!Insert, Notices!InsertRefused,
    Notices!Deliver, Notices!MarkRead, Notices!SelectFindsSame,
    Notices!SelectFindsChange, Notices!Write, Notices!QueryError,
    Notices!Fresh, Notices!Preference, Notices!rows, Notices!history,
    Notices!Columns, Notices!RowFound, Notices!AfterEnsure, Notices!Loaded,
    Notices!Defaults, Notices!Wanted, Notices!Differing, Notices!Assigned,
    Notices!ChoiceSaved, Notices!ColumnOf, Notices!OthersSaving,
    NoticesP!Next, NoticesP!Start, NoticesP!NoChoice, NoticesP!SomeType,
    NoticesP!Choices, NoticesP!Find, NoticesP!Insert, NoticesP!InsertRefused,
    NoticesP!Deliver, NoticesP!MarkRead, NoticesP!SelectFindsSame,
    NoticesP!SelectFindsChange, NoticesP!Write, NoticesP!QueryError,
    NoticesP!Fresh, NoticesP!Preference, NoticesP!rows, NoticesP!history,
    NoticesP!Columns, NoticesP!RowFound, NoticesP!AfterEnsure,
    NoticesP!Loaded, NoticesP!Defaults, NoticesP!Wanted, NoticesP!Differing,
    NoticesP!Assigned, NoticesP!ChoiceSaved, NoticesP!ColumnOf,
    NoticesP!OthersSaving
<1> QED
  BY <1>1, <1>2, <1>3

\* A behaviour with the turn of the notifications is one of that service.
LEMMA NoticesRuns ==
    Spec /\ turn = "notices" => NoticesP!Spec /\ [](turn = "notices")
<1>1. Init /\ turn = "notices" => NoticesP!Init
  BY NoticesSame DEF Init
<1>2. turn = "notices" /\ [Next]_vars
        => (turn = "notices")' /\ [NoticesP!Next]_(NoticesP!vars)
  <2>1. ASSUME turn = "notices", Next
        PROVE  (turn = "notices")' /\ NoticesP!Next
    BY <2>1, NoticesSame
    DEF Next, LimiterStep, TrendingStep, RemindersStep, NoticesStep,
        LinksStep, ScoresStep, ListsStep, AgesStep, LifeStep
  <2>2. ASSUME turn = "notices", UNCHANGED vars
        PROVE  (turn = "notices")' /\ UNCHANGED NoticesP!vars
    BY <2>2 DEF vars, N, NoticesP!vars, NoticesP!rows, NoticesP!history
  <2> QED
    BY <2>1, <2>2
<1> QED
  BY <1>1, <1>2, PTL DEF Spec, NoticesP!Spec


\* The preferences keep the last choice, unless updates overlapped.
THEOREM ChoiceKeptHolds == Spec => []ChoiceKept
<1>1. NoticesP!Spec => []NoticesP!ChoiceKept
  BY NoticesP!ChoiceKeptCorrect, NoticesSame, ServicesAssumption
  DEF ServicesAssumption
<1>2. turn = "notices" /\ NoticesP!ChoiceKept => ChoiceKept
  BY DEF
    ChoiceKept, Notices!ChoiceKept, Notices!Columns, Notices!Preference,
    NoticesP!ChoiceKept, NoticesP!Columns, NoticesP!Preference
<1>3. ~(turn = "notices") => ChoiceKept
  BY DEF ChoiceKept
<1>4. ~(turn = "notices") /\ [Next]_vars => ~(turn = "notices")'
  BY TurnKept
<1> QED
  BY <1>1, <1>2, <1>3, <1>4, NoticesRuns, PTL DEF Spec


\* A notification is stored exactly when the preference read for it says so.
THEOREM DeliveredAsChosenHolds == Spec => []DeliveredAsChosen
<1>1. NoticesP!Spec => []NoticesP!DeliveredAsChosen
  BY NoticesP!DeliveredCorrect, NoticesSame, ServicesAssumption
  DEF ServicesAssumption
<1>2. turn = "notices" /\ NoticesP!DeliveredAsChosen => DeliveredAsChosen
  BY DEF
    DeliveredAsChosen, Notices!DeliveredAsChosen, Notices!ColumnOf,
    Notices!Preference, NoticesP!DeliveredAsChosen, NoticesP!ColumnOf,
    NoticesP!Preference
<1>3. ~(turn = "notices") => DeliveredAsChosen
  BY DEF DeliveredAsChosen
<1>4. ~(turn = "notices") /\ [Next]_vars => ~(turn = "notices")'
  BY TurnKept
<1> QED
  BY <1>1, <1>2, <1>3, <1>4, NoticesRuns, PTL DEF Spec


\* Only calls that found no preferences lose on the unique index.
THEOREM FailsOnlyAtFirstHolds == Spec => []FailsOnlyAtFirst
<1>1. NoticesP!Spec => []NoticesP!FailsOnlyAtFirst
  BY NoticesP!FailsOnlyAtFirstCorrect, NoticesSame, ServicesAssumption
  DEF ServicesAssumption
<1>2. turn = "notices" /\ NoticesP!FailsOnlyAtFirst => FailsOnlyAtFirst
  BY DEF
    FailsOnlyAtFirst, Notices!FailsOnlyAtFirst, NoticesP!FailsOnlyAtFirst
<1>3. ~(turn = "notices") => FailsOnlyAtFirst
  BY DEF FailsOnlyAtFirst
<1>4. ~(turn = "notices") /\ [Next]_vars => ~(turn = "notices")'
  BY TurnKept
<1> QED
  BY <1>1, <1>2, <1>3, <1>4, NoticesRuns, PTL DEF Spec


\* Types of the notifications.
LEMMA NoticesTypes == Spec => [](turn = "notices" => Notices!TypeOK)
<1>1. NoticesP!Spec => []NoticesP!TypeOK
  BY NoticesP!NotificationsTypeCorrect, NoticesSame, ServicesAssumption
  DEF ServicesAssumption
<1>2. NoticesP!TypeOK => Notices!TypeOK
  BY DEF
    Notices!TypeOK, Notices!Columns, Notices!CallRows, Notices!Preference,
    Notices!Pcs, Notices!Choices, NoticesP!TypeOK, NoticesP!Columns,
    NoticesP!CallRows, NoticesP!Preference, NoticesP!Pcs, NoticesP!Choices
<1>3. ~(turn = "notices") /\ [Next]_vars => ~(turn = "notices")'
  BY TurnKept
<1> QED
  BY <1>1, <1>2, <1>3, NoticesRuns, PTL DEF Spec


-----------------------------------------------------------------------------
\* Links: follows, bookmarks and reactions.

LinksP == INSTANCE SocialLinks_proofs
    WITH Calls <- LinkCalls, NoRow <- None,
         call <- linkCall, errors <- linkErrors

\* The theorems about follows, bookmarks and reactions are about the
\* module Services composes.
LEMMA LinksSame ==
    /\ Links!LinksAssumption => LinksP!LinksAssumption
    /\ Links!Init => LinksP!Init
    /\ Links!Next => LinksP!Next
<1>1. Links!LinksAssumption => LinksP!LinksAssumption
  BY DEF
    Links!LinksAssumption, LinksP!LinksAssumption
<1>2. Links!Init => LinksP!Init
  BY DEF
    Links!Init, Links!Idle, LinksP!Init, LinksP!Idle
<1>3. Links!Next => LinksP!Next
  BY DEF
    Links!Next, Links!Kinds, Links!Start, Links!FindForAdd, Links!Insert,
    Links!InsertRefused, Links!FindForRemove, Links!Delete, Links!Rescore,
    Links!Notify, Links!Fail, Links!FirstQuery, Links!Present, Links!Goto,
    Links!WhenPresent, Links!IsUnique, Links!Change, Links!AfterInsert,
    Links!Of, Links!Doomed, Links!InFlight, Links!Ends, LinksP!Next,
    LinksP!Kinds, LinksP!Start, LinksP!FindForAdd, LinksP!Insert,
    LinksP!InsertRefused, LinksP!FindForRemove, LinksP!Delete, LinksP!Rescore,
    LinksP!Notify, LinksP!Fail, LinksP!FirstQuery, LinksP!Present,
    LinksP!Goto, LinksP!WhenPresent, LinksP!IsUnique, LinksP!Change,
    LinksP!AfterInsert, LinksP!Of, LinksP!Doomed, LinksP!InFlight, LinksP!Ends
<1> QED
  BY <1>1, <1>2, <1>3

\* A behaviour with the turn of follows, bookmarks and reactions is one of
\* that service.
LEMMA LinksRuns ==
    Spec /\ turn = "links" => LinksP!Spec /\ [](turn = "links")
<1>1. Init /\ turn = "links" => LinksP!Init
  BY LinksSame DEF Init
<1>2. turn = "links" /\ [Next]_vars
        => (turn = "links")' /\ [LinksP!Next]_(LinksP!vars)
  <2>1. ASSUME turn = "links", Next
        PROVE  (turn = "links")' /\ LinksP!Next
    BY <2>1, LinksSame
    DEF Next, LimiterStep, TrendingStep, RemindersStep, NoticesStep,
        LinksStep, ScoresStep, ListsStep, AgesStep, LifeStep
  <2>2. ASSUME turn = "links", UNCHANGED vars
        PROVE  (turn = "links")' /\ UNCHANGED LinksP!vars
    BY <2>2 DEF vars, L, LinksP!vars
  <2> QED
    BY <2>1, <2>2
<1> QED
  BY <1>1, <1>2, PTL DEF Spec, LinksP!Spec


\* Follows, bookmarks and reactions answer what was true during the call.
THEOREM AnswersAreTrueHolds == Spec => []AnswersAreTrue
<1>1. LinksP!Spec => []LinksP!AnswersAreTrue
  BY LinksP!AnswersCorrect, LinksSame, ServicesAssumption
  DEF ServicesAssumption
<1>2. turn = "links" /\ LinksP!AnswersAreTrue => AnswersAreTrue
  BY DEF
    AnswersAreTrue, Links!AnswersAreTrue, LinksP!AnswersAreTrue
<1>3. ~(turn = "links") => AnswersAreTrue
  BY DEF AnswersAreTrue
<1>4. ~(turn = "links") /\ [Next]_vars => ~(turn = "links")'
  BY TurnKept
<1> QED
  BY <1>1, <1>2, <1>3, <1>4, LinksRuns, PTL DEF Spec


\* Whoever was not told of a follow or reaction met a failure.
THEOREM UntoldNeedsFailureHolds == Spec => []UntoldNeedsFailure
<1>1. LinksP!Spec => []LinksP!UntoldNeedsFailure
  BY LinksP!UntoldCorrect, LinksSame, ServicesAssumption
  DEF ServicesAssumption
<1>2. turn = "links" /\ LinksP!UntoldNeedsFailure => UntoldNeedsFailure
  BY DEF
    UntoldNeedsFailure, Links!UntoldNeedsFailure, Links!InFlight, Links!Ends,
    LinksP!UntoldNeedsFailure, LinksP!InFlight, LinksP!Ends
<1>3. ~(turn = "links") => UntoldNeedsFailure
  BY DEF UntoldNeedsFailure
<1>4. ~(turn = "links") /\ [Next]_vars => ~(turn = "links")'
  BY TurnKept
<1> QED
  BY <1>1, <1>2, <1>3, <1>4, LinksRuns, PTL DEF Spec


\* The removal of a reaction deletes the row it found, and spares one that is
\* newer (the where of the delete names the id).
THEOREM RemovalSparesNewerHolds == Spec => RemovalSparesNewer
<1>1. LinksP!Spec => LinksP!RemovalSparesNewer
  BY LinksP!RemovalSparesNewerCorrect, LinksSame, ServicesAssumption
  DEF ServicesAssumption
<1>2. LinksP!SparesNewer => Links!SparesNewer
  BY DEF
    Links!SparesNewer, LinksP!SparesNewer
<1>3. turn = "links" /\ [Next]_vars /\ [LinksP!SparesNewer]_(LinksP!vars)
        => [turn = "links" => Links!SparesNewer]_vars
  <2>1. ASSUME turn = "links", Next, UNCHANGED LinksP!vars
        PROVE  UNCHANGED vars
    BY <2>1
    DEF Next, LimiterStep, TrendingStep, RemindersStep, NoticesStep,
        LinksStep, ScoresStep, ListsStep, AgesStep, LifeStep, vars, L,
        LinksP!vars
  <2> QED
    BY <1>2, <2>1
<1>4. ~(turn = "links") /\ [Next]_vars
        => ~(turn = "links")' /\ [turn = "links" => Links!SparesNewer]_vars
  BY TurnKept
<1> QED
  BY <1>1, <1>3, <1>4, LinksRuns, PTL
  DEF Spec, RemovalSparesNewer, LinksP!RemovalSparesNewer


\* Types of follows, bookmarks and reactions.
LEMMA LinksTypes == Spec => [](turn = "links" => Links!TypeOK)
<1>1. LinksP!Spec => []LinksP!TypeOK
  BY LinksP!LinksTypeCorrect, LinksSame, ServicesAssumption
  DEF ServicesAssumption
<1>2. LinksP!TypeOK => Links!TypeOK
  BY DEF
    Links!TypeOK, Links!Rows, Links!CallRows, Links!Kinds, Links!Pcs,
    Links!Ends, LinksP!TypeOK, LinksP!Rows, LinksP!CallRows, LinksP!Kinds,
    LinksP!Pcs, LinksP!Ends
<1>3. ~(turn = "links") /\ [Next]_vars => ~(turn = "links")'
  BY TurnKept
<1> QED
  BY <1>1, <1>2, <1>3, LinksRuns, PTL DEF Spec

-----------------------------------------------------------------------------
\* Scores: comments and reactions, and the score computed from them.

\* The rows each call has inserted, or may no longer insert.
Rowed ==
    /\ IsFiniteSet(comments) /\ IsFiniteSet(reactions)
    /\ \A c \in ScoreCalls :
         /\ IsFiniteSet(scoreCall[c].loaded.comments)
         /\ IsFiniteSet(scoreCall[c].loaded.reactions)
         /\ scoreCall[c].pc \in {"idle", "check", "insert"}
              => c \notin comments \cup reactions
         /\ scoreCall[c].pc = "check" => scoreCall[c].op = "comment"
         /\ scoreCall[c].pc = "insert" /\ scoreCall[c].op = "comment"
              => scoreCall[c].target \in comments \cup {None}
         /\ scoreCall[c].pc = "find"
              => scoreCall[c].op \in {"unreact", "softDelete"}
         /\ scoreCall[c].pc = "mark" => scoreCall[c].target \in comments

\* The module Engagement counts as this one does.
LEMMA SameCount == \A X : Scores!Cardinality(X) = Cardinality(X)
BY DEF Scores!Cardinality, Cardinality

\* What a call has loaded is the goal's, unless calls overlapped.
LoadedNow ==
    \/ overlapped
    \/ \A c \in ScoreCalls :
         Scores!Holding(c) => scoreCall[c].loaded = Scores!Now

ScoresInv ==
    Scores!TypeOK /\ Rowed /\ LoadedNow /\ Scores!ScoreIsCurrent

\* What the proofs use of the constants.
LEMMA ScoresConstants ==
    /\ None \notin ScoreCalls /\ Foreign \notin ScoreCalls /\ None # Foreign
    /\ MaxErrors \in Nat
BY ServicesAssumption DEF ServicesAssumption, Scores!EngagementAssumption

\* The threads of the comments C, whose parents are par.
Whole(C, par) ==
    /\ \A d \in C : par[d] \in C \cup {None}
    /\ \A X \in (SUBSET C) \ {{}} : \E d \in X : par[d] \notin X

\* A reply whose parent is a comment, or nothing, keeps the threads whole.
LEMMA ReplyKeepsThreads ==
    ASSUME NEW C, NEW c, NEW before, NEW after, c \notin C, None \notin C,
           None # c, Whole(C, before), after[c] \in C \cup {None},
           \A d \in C : after[d] = before[d]
    PROVE  Whole(C \cup {c}, after)
<1>1. \A d \in C \cup {c} : after[d] \in C \cup {c} \cup {None}
  BY DEF Whole
<1>2. ASSUME NEW X \in (SUBSET (C \cup {c})) \ {{}}
      PROVE  \E d \in X : after[d] \notin X
  <2>1. CASE X \ {c} = {}
    BY <2>1
  <2>2. CASE X \ {c} # {}
    <3>1. X \ {c} \in (SUBSET C) \ {{}}
      BY <2>2
    <3>2. PICK d \in X \ {c} : before[d] \notin X \ {c}
      BY <3>1 DEF Whole
    <3> QED
      BY <3>2 DEF Whole
  <2> QED
    BY <2>1, <2>2
<1> QED
  BY <1>1, <1>2 DEF Whole

\* The numbers of finite sets of rows.
LEMMA NumbersAreNat ==
    ASSUME NEW loaded, IsFiniteSet(loaded.comments),
           IsFiniteSet(loaded.reactions)
    PROVE  Scores!Numbers(loaded) \in [comments : Nat, reactions : Nat]
BY FS_CardinalityType, SameCount DEF Scores!Numbers

\* There are no rows yet, and a score of none.
LEMMA ScoresInit == Scores!Init => ScoresInv
<1> SUFFICES ASSUME Scores!Init PROVE ScoresInv
  OBVIOUS
<1> USE ScoresConstants DEF Scores!Init
<1>1. Scores!ThreadsAreWhole
  BY DEF Scores!ThreadsAreWhole
<1>2. scoreCall \in [ScoreCalls -> Scores!CallRows]
  BY DEF Scores!Idle, Scores!Nothing, Scores!CallRows, Scores!Pcs,
     Scores!Ops, Scores!Parents, Scores!Loads
<1>3. Scores!TypeOK
  BY <1>1, <1>2 DEF Scores!TypeOK, Scores!Parents
<1>4. Rowed /\ LoadedNow
  BY FS_EmptySet DEF Rowed, LoadedNow, Scores!Idle, Scores!Nothing,
     Scores!Holding
<1>5. Scores!ScoreIsCurrent
  BY FS_EmptySet, SameCount
  DEF Scores!ScoreIsCurrent, Scores!Numbers, Scores!Now
<1> QED
  BY <1>3, <1>4, <1>5 DEF ScoresInv

\* What Rowed says of the row of one call.
RowOK(c, row) ==
    /\ IsFiniteSet(row.loaded.comments) /\ IsFiniteSet(row.loaded.reactions)
    /\ row.pc \in {"idle", "check", "insert"}
         => c \notin comments \cup reactions
    /\ row.pc = "check" => row.op = "comment"
    /\ row.pc = "insert" /\ row.op = "comment"
         => row.target \in comments \cup {None}
    /\ row.pc = "find" => row.op \in {"unreact", "softDelete"}
    /\ row.pc = "mark" => row.target \in comments

\* A step that leaves the rows of comments and reactions, and the score, alone.
LEMMA QuietStep ==
    ASSUME ScoresInv, NEW c \in ScoreCalls, NEW row \in Scores!CallRows,
           scoreCall' = [scoreCall EXCEPT ![c] = row],
           UNCHANGED <<comments, parent, reactions, score, overlapped>>,
           deleted' \subseteq comments,
           scoreErrors' \in Nat, scoreErrors' >= scoreErrors,
           row.op = scoreCall[c].op \/ scoreCall[c].pc = "idle",
           RowOK(c, row),
           row.pc \in {"select", "write"}
             => overlapped \/ row.loaded = Scores!Now,
           \/ overlapped \/ scoreErrors' > 0
           \/ row.pc \in {"read", "select", "write"}
           \/ scoreCall[c].pc \notin {"read", "select", "write"}
           \/ score = Scores!Numbers(Scores!Now)
    PROVE  ScoresInv'
<1> USE ScoresConstants
<1>1. Scores!TypeOK'
  <2>1. scoreCall' \in [ScoreCalls -> Scores!CallRows]
    BY DEF ScoresInv, Scores!TypeOK
  <2>2. Scores!ThreadsAreWhole'
    BY DEF ScoresInv, Scores!TypeOK, Scores!ThreadsAreWhole
  <2>3. /\ \A d \in comments : scoreCall'[d].op = "comment"
        /\ \A d \in reactions : scoreCall'[d].op = "react"
    BY DEF ScoresInv, Scores!TypeOK, Rowed
  <2> QED
    BY <2>1, <2>2, <2>3 DEF ScoresInv, Scores!TypeOK
<1>2. \A d \in ScoreCalls :
        scoreCall'[d] = IF d = c THEN row ELSE scoreCall[d]
  BY DEF ScoresInv, Scores!TypeOK
<1>3. Rowed'
  BY <1>2 DEF ScoresInv, Rowed, RowOK
<1>4. LoadedNow'
  BY <1>2 DEF ScoresInv, LoadedNow, Scores!Holding, Scores!Now
<1>5. Scores!ScoreIsCurrent'
  <2>1. UNCHANGED Scores!Numbers(Scores!Now)
    BY DEF Scores!Numbers, Scores!Now
  <2> HIDE DEF Scores!Numbers
  <2>2. scoreErrors \in Nat
    BY DEF ScoresInv, Scores!TypeOK
  <2> QED
    BY <1>2, <2>1, <2>2
    DEF ScoresInv, Scores!ScoreIsCurrent, Scores!Scoring
<1> QED
  BY <1>1, <1>3, <1>4, <1>5 DEF ScoresInv

\* Requests and queries that change no row.
LEMMA QueriesKeep ==
    ASSUME ScoresInv, NEW c \in ScoreCalls,
           \/ \E p \in Scores!Parents : Scores!Start(c, "comment", p)
           \/ Scores!Start(c, "react", None)
           \/ \E t \in ScoreCalls : \/ Scores!Start(c, "unreact", t)
                                    \/ Scores!Start(c, "softDelete", t)
           \/ Scores!CheckParent(c) \/ Scores!Find(c) \/ Scores!MarkDeleted(c)
           \/ Scores!Read(c) \/ Scores!Select(c) \/ Scores!SaveThrows(c)
           \/ Scores!Fail(c)
    PROVE  ScoresInv'
<1>0. /\ scoreCall[c] \in Scores!CallRows /\ RowOK(c, scoreCall[c])
      /\ scoreErrors \in Nat /\ deleted \subseteq comments
      /\ Scores!Holding(c) => overlapped \/ scoreCall[c].loaded = Scores!Now
      /\ scoreCall \in [ScoreCalls -> Scores!CallRows]
      /\ comments \subseteq ScoreCalls /\ reactions \subseteq ScoreCalls
      /\ IsFiniteSet(comments) /\ IsFiniteSet(reactions)
  BY DEF ScoresInv, Scores!TypeOK, Rowed, RowOK, LoadedNow
<1>1. ASSUME NEW op \in Scores!Ops, NEW t \in Scores!Parents,
             Scores!Start(c, op, t), op = "react" => t = None
      PROVE  ScoresInv'
  <2> DEFINE row == [pc |-> Scores!FirstQuery(op, t), op |-> op,
                     target |-> t, loaded |-> Scores!Nothing]
  <2>1. /\ scoreCall' = [scoreCall EXCEPT ![c] = row]
        /\ scoreCall[c].pc = "idle"
        /\ UNCHANGED <<comments, parent, deleted, reactions, score,
                       overlapped, scoreErrors>>
    BY <1>1 DEF Scores!Start
  <2>2. /\ row.pc \in {"check", "insert", "find"}
        /\ row.pc = "check" => op = "comment"
        /\ row.pc = "insert" /\ op = "comment" => t = None
        /\ row.pc = "find" => op \in {"unreact", "softDelete"}
    BY <1>1 DEF Scores!FirstQuery, Scores!Ops
  <2>3. row \in Scores!CallRows /\ RowOK(c, row)
    BY <1>0, <2>1, <2>2, FS_EmptySet
    DEF Scores!CallRows, Scores!Pcs, Scores!Loads, Scores!Nothing, RowOK
  <2>4. row.pc \notin {"select", "write"}
    BY <2>2
  <2> HIDE DEF row
  <2>5. /\ UNCHANGED <<comments, parent, reactions, score, overlapped>>
        /\ deleted' \subseteq comments
        /\ scoreErrors' \in Nat /\ scoreErrors' >= scoreErrors
    BY <1>0, <2>1
  <2>6. scoreCall[c].pc \notin {"read", "select", "write"}
    BY <2>1
  <2> QED
    BY <2>1, <2>3, <2>4, <2>5, <2>6, QuietStep
<1>2. ASSUME NEW pc \in Scores!Pcs, NEW loaded,
             scoreCall' = [scoreCall EXCEPT ![c].pc = pc, ![c].loaded = loaded],
             loaded = scoreCall[c].loaded \/ loaded = Scores!Now,
             pc \in {"select", "write"} => overlapped \/ loaded = Scores!Now,
             UNCHANGED <<comments, parent, reactions, score, overlapped>>,
             deleted' \subseteq comments,
             scoreErrors' \in Nat, scoreErrors' >= scoreErrors,
             pc \notin {"idle", "check", "find"},
             pc = "insert" => /\ scoreCall[c].pc = "check"
                              /\ scoreCall[c].target \in comments,
             pc = "mark" => scoreCall[c].target \in comments,
             \/ overlapped \/ scoreErrors' > 0
             \/ pc \in {"read", "select", "write"}
             \/ scoreCall[c].pc \notin {"read", "select", "write"}
             \/ score = Scores!Numbers(Scores!Now)
      PROVE  ScoresInv'
  <2> DEFINE row == [scoreCall[c] EXCEPT !.pc = pc, !.loaded = loaded]
  <2>1. scoreCall' = [scoreCall EXCEPT ![c] = row]
    BY <1>0, <1>2
  <2>2. loaded \in Scores!Loads
    BY <1>0, <1>2 DEF Scores!CallRows, Scores!Loads, Scores!Now
  <2>3. /\ row \in Scores!CallRows /\ row.pc = pc /\ row.loaded = loaded
        /\ row.op = scoreCall[c].op /\ row.target = scoreCall[c].target
    BY <1>0, <2>2 DEF Scores!CallRows
  <2> HIDE DEF row
  <2>4. IsFiniteSet(loaded.comments) /\ IsFiniteSet(loaded.reactions)
    BY <1>0, <1>2 DEF RowOK, Scores!Now
  <2>5. RowOK(c, row)
    BY <1>0, <1>2, <2>3, <2>4 DEF RowOK
  <2> QED
    BY <1>2, <2>1, <2>3, <2>5, QuietStep
<1>3. \A pc \in Scores!Pcs : Scores!Goto(c, pc) =>
        scoreCall' = [scoreCall EXCEPT ![c].pc = pc,
                                       ![c].loaded = scoreCall[c].loaded]
  BY <1>0 DEF Scores!Goto, Scores!CallRows
<1>4. CASE \/ \E p \in Scores!Parents : Scores!Start(c, "comment", p)
           \/ Scores!Start(c, "react", None)
           \/ \E t \in ScoreCalls : \/ Scores!Start(c, "unreact", t)
                                    \/ Scores!Start(c, "softDelete", t)
  BY <1>1, <1>4 DEF Scores!Ops, Scores!Parents
<1>5. CASE Scores!CheckParent(c)
  <2>1. PICK pc \in {"insert", "refused"} :
          /\ Scores!Goto(c, pc)
          /\ pc = "insert" => scoreCall[c].target \in comments
    BY <1>5 DEF Scores!CheckParent, Scores!ParentIsValid
  <2>2. /\ scoreCall[c].pc = "check"
        /\ UNCHANGED <<comments, parent, deleted, reactions, score,
                       overlapped, scoreErrors>>
    BY <1>5 DEF Scores!CheckParent
  <2>3. pc \in Scores!Pcs
    BY DEF Scores!Pcs, Scores!Ends
  <2>4. scoreCall' = [scoreCall EXCEPT ![c].pc = pc,
                                       ![c].loaded = scoreCall[c].loaded]
    BY <1>3, <2>1, <2>3
  <2>5. deleted' \subseteq comments /\ scoreErrors' \in Nat
        /\ scoreErrors' >= scoreErrors
    BY <1>0, <2>2
  <2> QED
    BY <1>2, <2>1, <2>2, <2>3, <2>4, <2>5
<1>6. CASE Scores!Find(c)
  <2>1. PICK pc \in {"remove", "ok", "mark", "refused"} :
          /\ Scores!Goto(c, pc)
          /\ pc = "mark" => scoreCall[c].target \in comments
    BY <1>6 DEF Scores!Find
  <2>2. /\ scoreCall[c].pc = "find"
        /\ UNCHANGED <<comments, parent, deleted, reactions, score,
                       overlapped, scoreErrors>>
    BY <1>6 DEF Scores!Find
  <2>3. pc \in Scores!Pcs
    BY DEF Scores!Pcs, Scores!Ends
  <2>4. scoreCall' = [scoreCall EXCEPT ![c].pc = pc,
                                       ![c].loaded = scoreCall[c].loaded]
    BY <1>3, <2>1, <2>3
  <2>5. deleted' \subseteq comments /\ scoreErrors' \in Nat
        /\ scoreErrors' >= scoreErrors
    BY <1>0, <2>2
  <2> QED
    BY <1>2, <2>1, <2>2, <2>3, <2>4, <2>5
<1>7. CASE Scores!MarkDeleted(c)
  <2>1. /\ scoreCall[c].pc = "mark" /\ Scores!Goto(c, "ok")
        /\ deleted' = deleted \cup {scoreCall[c].target}
        /\ UNCHANGED <<comments, parent, reactions, score, overlapped,
                       scoreErrors>>
    BY <1>7 DEF Scores!MarkDeleted
  <2>2. "ok" \in Scores!Pcs
    BY DEF Scores!Pcs, Scores!Ends
  <2>3. scoreCall' = [scoreCall EXCEPT ![c].pc = "ok",
                                       ![c].loaded = scoreCall[c].loaded]
    BY <1>3, <2>1, <2>2
  <2>4. deleted' \subseteq comments /\ scoreErrors' \in Nat
        /\ scoreErrors' >= scoreErrors
    BY <1>0, <2>1 DEF RowOK
  <2> QED
    BY <1>2, <2>1, <2>2, <2>3, <2>4
<1>8. CASE Scores!Read(c)
  <2>1. scoreCall' = [scoreCall EXCEPT ![c].pc = "select",
                                       ![c].loaded = Scores!Now]
    BY <1>8 DEF Scores!Read
  <2>2. /\ UNCHANGED <<comments, parent, reactions, score, overlapped>>
        /\ deleted' \subseteq comments
        /\ scoreErrors' \in Nat /\ scoreErrors' >= scoreErrors
    BY <1>0, <1>8 DEF Scores!Read
  <2>3. "select" \in Scores!Pcs
    BY DEF Scores!Pcs
  <2> QED
    BY <1>2, <2>1, <2>2, <2>3
<1>9. CASE Scores!Select(c)
  <2>1. overlapped \/ scoreCall[c].loaded = Scores!Now
    BY <1>0, <1>9 DEF Scores!Select, Scores!Holding
  <2>2. PICK pc \in {"ok", "write"} :
          /\ Scores!Goto(c, pc)
          /\ pc = "ok" => Scores!Numbers(scoreCall[c].loaded) = score
    BY <1>9 DEF Scores!Select
  <2>3. /\ scoreCall[c].pc = "select"
        /\ UNCHANGED <<comments, parent, deleted, reactions, score,
                       overlapped, scoreErrors>>
    BY <1>9 DEF Scores!Select
  <2>4. pc \in Scores!Pcs
    BY DEF Scores!Pcs, Scores!Ends
  <2>5. scoreCall' = [scoreCall EXCEPT ![c].pc = pc,
                                       ![c].loaded = scoreCall[c].loaded]
    BY <1>3, <2>2, <2>4
  <2>6. deleted' \subseteq comments /\ scoreErrors' \in Nat
        /\ scoreErrors' >= scoreErrors
    BY <1>0, <2>3
  <2> QED
    BY <1>2, <2>1, <2>2, <2>3, <2>4, <2>5, <2>6
<1>10. CASE Scores!SaveThrows(c)
  <2>1. overlapped /\ Scores!Goto(c, "failed")
    BY <1>0, <1>10 DEF Scores!SaveThrows, Scores!Detaches, Scores!Holding,
                       Scores!Now
  <2>2. UNCHANGED <<comments, parent, deleted, reactions, score, overlapped,
                    scoreErrors>>
    BY <1>10 DEF Scores!SaveThrows
  <2>3. "failed" \in Scores!Pcs
    BY DEF Scores!Pcs, Scores!Ends
  <2>4. scoreCall' = [scoreCall EXCEPT ![c].pc = "failed",
                                       ![c].loaded = scoreCall[c].loaded]
    BY <1>3, <2>1, <2>3
  <2>5. deleted' \subseteq comments /\ scoreErrors' \in Nat
        /\ scoreErrors' >= scoreErrors
    BY <1>0, <2>2
  <2> QED
    BY <1>2, <2>1, <2>2, <2>3, <2>4, <2>5
<1>11. CASE Scores!Fail(c)
  <2>1. "failed" \in Scores!Pcs
    BY DEF Scores!Pcs, Scores!Ends
  <2>2. scoreCall' = [scoreCall EXCEPT ![c].pc = "failed",
                                       ![c].loaded = scoreCall[c].loaded]
    BY <1>3, <1>11, <2>1 DEF Scores!Fail
  <2>3. /\ UNCHANGED <<comments, parent, reactions, score, overlapped>>
        /\ deleted' \subseteq comments
        /\ scoreErrors' \in Nat /\ scoreErrors' >= scoreErrors
        /\ scoreErrors' > 0
    BY <1>0, <1>11 DEF Scores!Fail
  <2> QED
    BY <1>2, <2>1, <2>2, <2>3
<1> QED
  BY <1>4, <1>5, <1>6, <1>7, <1>8, <1>9, <1>10, <1>11

\* Steps that change the rows or the score disturb those who hold them.
LEMMA ChangesKeep ==
    ASSUME ScoresInv, NEW c \in ScoreCalls,
           \/ Scores!InsertComment(c) \/ Scores!InsertReaction(c)
           \/ Scores!RemoveReaction(c) \/ Scores!Write(c)
    PROVE  ScoresInv'
<1> USE ScoresConstants
<1>1. PICK pc \in {"read", "ok"} :
        /\ scoreCall' = [scoreCall EXCEPT ![c].pc = pc]
        /\ pc = "ok" => /\ Scores!Write(c)
                        /\ scoreCall[c].pc = "write"
                        /\ UNCHANGED <<comments, reactions>>
                        /\ score' = Scores!Numbers(scoreCall[c].loaded)
        /\ pc = "read" => score' = score
  BY DEF Scores!InsertComment, Scores!InsertReaction, Scores!RemoveReaction,
     Scores!Write, Scores!Goto, Scores!AfterRemove
<1>2. /\ Scores!Disturb(c) /\ UNCHANGED <<deleted, scoreErrors>>
      /\ comments' \in {comments, comments \cup {c}}
      /\ reactions' \subseteq reactions \cup {c}
      /\ c \in comments' \ comments
           => scoreCall[c].pc = "insert" /\ scoreCall[c].op = "comment"
      /\ c \in reactions' \ reactions
           => scoreCall[c].pc = "insert" /\ scoreCall[c].op = "react"
  BY DEF Scores!InsertComment, Scores!InsertReaction, Scores!RemoveReaction,
     Scores!Write
<1>3. /\ scoreCall \in [ScoreCalls -> Scores!CallRows]
      /\ comments \subseteq ScoreCalls /\ reactions \subseteq ScoreCalls
      /\ parent \in [ScoreCalls -> Scores!Parents]
      /\ deleted \subseteq comments /\ overlapped \in BOOLEAN
      /\ scoreErrors \in Nat
  BY DEF ScoresInv, Scores!TypeOK
<1>4. \A d \in ScoreCalls :
        /\ scoreCall'[d].op = scoreCall[d].op
        /\ scoreCall'[d].target = scoreCall[d].target
        /\ scoreCall'[d].loaded = scoreCall[d].loaded
        /\ scoreCall'[d].pc = IF d = c THEN pc ELSE scoreCall[d].pc
  BY <1>1, <1>3 DEF Scores!CallRows
<1>5. IsFiniteSet(comments') /\ IsFiniteSet(reactions')
  <2>1. IsFiniteSet(comments \cup {c}) /\ IsFiniteSet(reactions \cup {c})
    BY FS_AddElement DEF ScoresInv, Rowed
  <2> QED
    BY <1>2, <2>1, FS_Subset DEF ScoresInv, Rowed
<1>6. Rowed'
  <2>1. comments \subseteq comments' /\ comments' \subseteq comments \cup {c}
    BY <1>2
  <2> QED
    BY <1>2, <1>4, <1>5, <2>1 DEF ScoresInv, Rowed
<1>7. score' \in [comments : Nat, reactions : Nat]
  <2>1. Scores!Numbers(scoreCall[c].loaded)
          \in [comments : Nat, reactions : Nat]
    BY NumbersAreNat DEF ScoresInv, Rowed
  <2> QED
    BY <1>1, <2>1 DEF ScoresInv, Scores!TypeOK
<1>8. Scores!ThreadsAreWhole' /\ parent' \in [ScoreCalls -> Scores!Parents]
  <2>1. CASE Scores!InsertComment(c)
    <3>1. /\ comments' = comments \cup {c} /\ c \notin comments
          /\ parent' = [parent EXCEPT ![c] = scoreCall[c].target]
          /\ scoreCall[c].target \in comments \cup {None}
      BY <2>1 DEF Scores!InsertComment, ScoresInv, Rowed
    <3>2. parent' \in [ScoreCalls -> Scores!Parents]
      BY <1>3, <3>1 DEF Scores!Parents
    <3>3. /\ parent'[c] = scoreCall[c].target
          /\ \A d \in comments : parent'[d] = parent[d]
      BY <1>3, <3>1
    <3>4. Whole(comments, parent)
      BY DEF ScoresInv, Scores!TypeOK, Scores!ThreadsAreWhole, Whole
    <3>5. Whole(comments \cup {c}, parent')
      <4>1. c \notin comments /\ None \notin comments /\ None # c
        BY <1>3, <3>1
      <4>2. /\ parent'[c] \in comments \cup {None}
            /\ \A d \in comments : parent'[d] = parent[d]
        BY <3>1, <3>3
      <4> HIDE ScoresConstants
      <4> QED
        BY <3>4, <4>1, <4>2, ReplyKeepsThreads
    <3> QED
      BY <3>1, <3>2, <3>5 DEF Scores!ThreadsAreWhole, Whole
  <2>2. CASE ~Scores!InsertComment(c)
    <3>1. UNCHANGED <<comments, parent>>
      BY <2>2 DEF Scores!InsertReaction, Scores!RemoveReaction, Scores!Write
    <3> QED
      BY <1>3, <3>1 DEF ScoresInv, Scores!TypeOK, Scores!ThreadsAreWhole
  <2> QED
    BY <2>1, <2>2
<1>9. Scores!TypeOK'
  <2>1. scoreCall' \in [ScoreCalls -> Scores!CallRows]
    BY <1>1, <1>3 DEF Scores!CallRows, Scores!Pcs, Scores!Ends
  <2>2. /\ comments' \subseteq ScoreCalls /\ reactions' \subseteq ScoreCalls
        /\ deleted' \subseteq comments'
        /\ overlapped' \in BOOLEAN /\ scoreErrors' \in Nat
    BY <1>2, <1>3 DEF Scores!Disturb
  <2>3. /\ \A d \in comments' : scoreCall'[d].op = "comment"
        /\ \A d \in reactions' : scoreCall'[d].op = "react"
    BY <1>2, <1>3, <1>4 DEF ScoresInv, Scores!TypeOK
  <2> QED
    BY <1>7, <1>8, <2>1, <2>2, <2>3 DEF Scores!TypeOK
<1>10. LoadedNow'
  <2>1. ~overlapped' =>
          \A d \in ScoreCalls :
            d # c => scoreCall[d].pc \notin {"select", "write"}
    BY <1>2 DEF Scores!Disturb, Scores!Holding
  <2> QED
    BY <1>4, <2>1 DEF LoadedNow, Scores!Holding
<1>11. Scores!ScoreIsCurrent'
  <2>1. CASE pc = "read"
    BY <1>4, <2>1 DEF Scores!ScoreIsCurrent, Scores!Scoring
  <2>2. CASE pc = "ok"
    <3>1. overlapped \/ scoreCall[c].loaded = Scores!Now
      BY <1>1, <2>2 DEF ScoresInv, LoadedNow, Scores!Holding
    <3>2. Scores!Now' = Scores!Now
      BY <1>1, <2>2 DEF Scores!Now
    <3>3. overlapped => overlapped'
      BY <1>2 DEF Scores!Disturb
    <3>4. Scores!Numbers(Scores!Now)' = Scores!Numbers(Scores!Now)
      BY <3>2 DEF Scores!Numbers
    <3> QED
      BY <1>1, <2>2, <3>1, <3>3, <3>4 DEF Scores!ScoreIsCurrent
  <2> QED
    BY <2>1, <2>2
<1> QED
  BY <1>6, <1>9, <1>10, <1>11 DEF ScoresInv

\* The invariant of the scores, in every reachable state with their turn.
THEOREM ScoresHold == Spec => [](turn = "scores" => ScoresInv)
<1>1. Init => (turn = "scores" => ScoresInv)
  BY ScoresInit DEF Init
<1>2. (turn = "scores" => ScoresInv) /\ [Next]_vars
        => (turn = "scores" => ScoresInv)'
  <2> SUFFICES ASSUME turn = "scores" => ScoresInv, [Next]_vars,
                      (turn = "scores")'
               PROVE  ScoresInv'
    OBVIOUS
  <2>1. turn = "scores" /\ ScoresInv
    BY TurnKept
  <2>2. Scores!Next \/ UNCHANGED S
    BY <2>1 DEF Next, LimiterStep, TrendingStep, RemindersStep, NoticesStep,
       LinksStep, ScoresStep, ListsStep, AgesStep, LifeStep, vars
  <2>3. CASE Scores!Next
    BY <2>1, <2>3, QueriesKeep, ChangesKeep DEF Scores!Next
  <2>4. CASE UNCHANGED S
    BY <2>1, <2>4
    DEF S, ScoresInv, Scores!TypeOK, Scores!ThreadsAreWhole, Rowed, LoadedNow,
        Scores!ScoreIsCurrent, Scores!Holding, Scores!Scoring, Scores!Now,
        Scores!Numbers
  <2> QED
    BY <2>2, <2>3, <2>4
<1> QED
  BY <1>1, <1>2, PTL DEF Spec

\* When nobody computes it, the stored score is of the goal's comments and
\* reactions, unless calls overlapped or one failed.
THEOREM ScoreIsCurrentHolds == Spec => []ScoreIsCurrent
<1>1. (turn = "scores" => ScoresInv) => ScoreIsCurrent
  BY DEF ScoresInv, ScoreIsCurrent
<1> QED
  BY <1>1, ScoresHold, PTL

-----------------------------------------------------------------------------
\* Lists: reading page by page.

\* The rows not below r, and whether another row has r's key.
NotBelow(r) == {q \in Lists!Listed : key[q] >= key[r]}
Untied(r) == \A q \in Lists!Listed \ {r} : key[q] # key[r]

\* The number of rows the next page skips.
Skipped == Lists!NormalizePagination(asked).offset

\* What the reader was not given yet is still ahead of it.
AheadOfReader ==
    reading = "pages" /\ ~moved /\ ~outdated =>
      \A r \in start \ seen :
        Untied(r) => Cardinality(NotBelow(r)) > Skipped

\* A cached page that no change followed is what its query would still find.
CurrentPages ==
    \A e \in pages : e.current =>
      \E page \in Int, limit \in Int :
        e \in Lists!Found(
                Lists!NormalizePagination([page |-> page, limit |-> limit]))

ListsInv ==
    /\ Lists!TypeOK
    /\ CurrentPages
    /\ reading = "no" => start = {} /\ seen = {} /\ ~moved
    /\ AheadOfReader
    /\ Lists!MissedHasReason

\* The numbers of rows and of pages the module Paging speaks of.
LEMMA ListsConstants ==
    /\ MaxKey \in Nat /\ AskedPages \subseteq Int /\ AskedLimits \subseteq Int
    /\ \A page \in AskedPages : page <= 1
    /\ IsFiniteSet(ListRows) /\ MaxLimit \in Nat /\ MaxLimit >= 1
<1>1. Lists!IsFiniteSet(ListRows) => IsFiniteSet(ListRows)
  BY DEF Lists!IsFiniteSet, IsFiniteSet
<1>2. Lists!PagingAssumption
  BY ServicesAssumption DEF ServicesAssumption
<1> QED
  BY <1>1, <1>2 DEF Lists!PagingAssumption

\* The module Paging counts as this one does.
LEMMA ListsCount == \A X : Lists!Cardinality(X) = Cardinality(X)
BY DEF Lists!Cardinality, Cardinality

\* A request's limit and page are at least one; its offset is what the pages
\* before it hold.
LEMMA Pagination ==
    ASSUME NEW page \in Int, NEW limit \in Int
    PROVE  LET p == Lists!NormalizePagination([page |-> page, limit |-> limit])
           IN /\ p.page \in Nat /\ p.limit \in Nat /\ p.limit >= 1
              /\ p.offset \in Int
              /\ p.offset + p.limit = p.page * p.limit
              /\ page <= 1 => p.offset = 0
              /\ page >= 1 => p.page = page
<1> DEFINE from == Lists!AtLeastOne(page)
           granted == Lists!AtMost(MaxLimit, Lists!AtLeastOne(limit))
<1>1. /\ from \in Nat /\ from >= 1
      /\ page <= 1 => from = 1
      /\ page >= 1 => from = page
  BY DEF Lists!AtLeastOne
<1>2. granted \in Nat /\ granted >= 1
  BY ListsConstants DEF Lists!AtLeastOne, Lists!AtMost
<1>3. Lists!NormalizePagination([page |-> page, limit |-> limit])
        = [page |-> from, limit |-> granted, offset |-> (from - 1) * granted]
  BY DEF Lists!NormalizePagination
<1> HIDE DEF from, granted
<1>4. /\ (from - 1) * granted \in Int
      /\ (from - 1) * granted + granted = from * granted
  BY <1>1, <1>2
<1>5. from = 1 => (from - 1) * granted = 0
  BY <1>2
<1> DEFINE p == Lists!NormalizePagination([page |-> page, limit |-> limit])
<1>6. p.page = from /\ p.limit = granted /\ p.offset = (from - 1) * granted
  BY <1>3
<1> HIDE DEF p
<1>7. p.page >= 1 /\ p.page \in Nat /\ p.limit \in Nat /\ p.limit >= 1
  BY <1>1, <1>2, <1>6
<1>8. p.offset \in Int /\ p.offset + p.limit = p.page * p.limit
  BY <1>4, <1>6
<1>9. (page <= 1 => p.offset = 0) /\ (page >= 1 => p.page = page)
  BY <1>1, <1>5, <1>6
<1> QED
  BY <1>7, <1>8, <1>9 DEF p

\* The page and the limit give the offset.
LEMMA SameOffset ==
    ASSUME NEW a, NEW b,
           Lists!NormalizePagination(a).page
             = Lists!NormalizePagination(b).page,
           Lists!NormalizePagination(a).limit
             = Lists!NormalizePagination(b).limit
    PROVE  Lists!NormalizePagination(a) = Lists!NormalizePagination(b)
BY DEF Lists!NormalizePagination

\* The limit of the next page is that of this one.
LEMMA NextPage ==
    ASSUME NEW page \in Int, NEW limit \in Int, NEW next \in Int, next >= 1
    PROVE  LET p == Lists!NormalizePagination([page |-> page, limit |-> limit])
               q == Lists!NormalizePagination([page |-> next, limit |-> limit])
           IN q.limit = p.limit /\ q.offset = (next - 1) * p.limit
BY DEF Lists!NormalizePagination, Lists!AtLeastOne

\* The elements of C whose key is not below that of r.
AtLeast(C, keys, r) == {q \in C : keys[q] >= keys[r]}

\* s has all of C in falling order of the keys, which are numbers.
Falling(C, keys, s) ==
    /\ \A q \in C : keys[q] \in Int
    /\ s \in [1..Cardinality(C) -> C]
    /\ \A i, j \in 1..Cardinality(C) : i # j => s[i] # s[j]
    /\ \A i, j \in 1..Cardinality(C) : i < j => keys[s[i]] >= keys[s[j]]

\* No other element of C has the key of r.
Alone(C, keys, r) == r \in C /\ \A q \in C \ {r} : keys[q] # keys[r]

\* In a sequence of all of a finite set, in falling order of their keys, the
\* number of the elements not below one without ties is its place.
LEMMA PlaceIsRank ==
    ASSUME NEW C, NEW keys, NEW s, NEW r,
           IsFiniteSet(C), Falling(C, keys, s), Alone(C, keys, r)
    PROVE  \E k \in 1..Cardinality(C) :
             s[k] = r /\ Cardinality(AtLeast(C, keys, r)) = k
<1> DEFINE n == Cardinality(C)
           D == 1..n
<1> USE DEF Falling, Alone
<1>0. n \in Nat
  BY FS_CardinalityType
<1>1. IsFiniteSet(D) /\ Cardinality(D) = n
  BY <1>0, FS_Interval
<1>2. s \in Injection(D, C)
  BY DEF Injection, IsInjective
<1>3. s \in Surjection(D, C)
  BY <1>1, <1>2, FS_Injection
<1>4. PICK k \in D : s[k] = r
  BY <1>3 DEF Surjection
<1> DEFINE K == 1..k
           above == {q \in C : keys[q] >= keys[r]}
           f == [i \in K |-> s[i]]
<1>5. k \in Nat /\ K \subseteq D
  BY <1>0
<1>6. IsFiniteSet(K) /\ Cardinality(K) = k
  BY <1>5, FS_Interval
<1>7. \A i \in D : s[i] \in above <=> i \in K
  <2>1. SUFFICES ASSUME NEW i \in D
                 PROVE  keys[s[i]] >= keys[r] <=> i <= k
    BY <1>0, <1>5
  <2>2. i \in Int /\ k \in Int /\ s[i] \in C
        /\ keys[s[i]] \in Int /\ keys[r] \in Int
    BY <1>0, <1>5
  <2>3. CASE i < k
    BY <1>4, <2>2, <2>3
  <2>4. CASE i = k
    BY <1>4, <2>2, <2>4
  <2>5. CASE i > k
    <3>1. keys[r] >= keys[s[i]] /\ s[i] # r
      BY <1>4, <2>2, <2>5
    <3>2. keys[s[i]] # keys[r]
      BY <2>2, <3>1
    <3> QED
      BY <2>2, <2>5, <3>1, <3>2
  <2> QED
    BY <2>2, <2>3, <2>4, <2>5
<1>8. f \in Bijection(K, above)
  <2>1. f \in [K -> above]
    BY <1>5, <1>7
  <2>2. \A i, j \in K : f[i] = f[j] => i = j
    BY <1>5
  <2>3. \A q \in above : \E i \in K : f[i] = q
    BY <1>3, <1>7 DEF Surjection
  <2> QED
    BY <2>1, <2>2, <2>3 DEF Bijection, Injection, Surjection, IsInjective
<1>9. Cardinality(above) = k
  BY <1>6, <1>8, FS_Bijection DEF ExistsBijection
<1> QED
  BY <1>4, <1>9 DEF AtLeast


\* After a change no cached page is current.
LEMMA BecomesOutdates ==
    ASSUME ListsInv, NEW r \in ListRows, NEW k, Lists!Becomes(r, k)
    PROVE  pages' \subseteq Lists!Responses /\ CurrentPages'
<1>1. \A e \in Lists!Responses :
        /\ [e EXCEPT !.current = FALSE] \in Lists!Responses
        /\ ~[e EXCEPT !.current = FALSE].current
  BY DEF Lists!Responses
<1>2. /\ pages' = {[e EXCEPT !.current = FALSE] : e \in pages}
      /\ pages \subseteq Lists!Responses
  BY DEF Lists!Becomes, ListsInv, Lists!TypeOK
<1>3. \A e \in pages' : e \in Lists!Responses /\ ~e.current
  BY <1>1, <1>2
<1> QED
  BY <1>3 DEF CurrentPages

\* A row is added.
LEMMA AddKeeps ==
    ASSUME ListsInv, NEW r \in ListRows, Lists!Add(r)
    PROVE  ListsInv'
<1>0. ListsInv /\ Lists!Add(r)
  OBVIOUS
<1>1. PICK k \in 0..MaxKey : Lists!Becomes(r, k)
  BY <1>0 DEF Lists!Add
<1>2. /\ key[r] = Lists!Absent /\ key' = [key EXCEPT ![r] = k]
      /\ UNCHANGED <<asked, reading, start, seen, moved, outdated>>
      /\ key \in [ListRows -> Lists!Absent..MaxKey]
  BY <1>0, <1>1 DEF Lists!Add, Lists!Becomes, ListsInv, Lists!TypeOK
<1>3. \A q \in ListRows : key'[q] = IF q = r THEN k ELSE key[q]
  BY <1>2
<1>4. Lists!Listed' = Lists!Listed \cup {r}
  BY <1>1, <1>2, <1>3, ListsConstants DEF Lists!Listed, Lists!Absent
<1>5. key' \in [ListRows -> Lists!Absent..MaxKey]
  BY <1>1, <1>2, ListsConstants DEF Lists!Absent
<1>6. pages' \subseteq Lists!Responses /\ CurrentPages'
  BY <1>0, <1>1, BecomesOutdates
<1>7. Lists!TypeOK'
  BY <1>2, <1>4, <1>5, <1>6, <1>0 DEF ListsInv, Lists!TypeOK, Lists!Responses
<1>8. r \notin Lists!Listed
  BY <1>2 DEF Lists!Listed
<1>9. ~moved => start \subseteq Lists!Listed
  BY <1>0 DEF ListsInv, Lists!TypeOK
<1>10. ASSUME ~moved
       PROVE  \A q \in start \ seen : Untied(q)' => Untied(q)
  BY <1>2, <1>3, <1>4, <1>8, <1>9, <1>10 DEF Untied, Lists!Listed
<1>11. ASSUME ~moved
       PROVE  \A q \in start \ seen :
                Cardinality(NotBelow(q)) <= Cardinality(NotBelow(q)')
  <2>1. TAKE q \in start \ seen
  <2>2. NotBelow(q) \subseteq NotBelow(q)' /\ NotBelow(q)' \subseteq ListRows
    BY <1>2, <1>3, <1>4, <1>8, <1>9, <1>11 DEF NotBelow, Lists!Listed
  <2> QED
    BY <2>2, ListsConstants, FS_Subset
<1>12. AheadOfReader'
  <2>1. SUFFICES ASSUME reading = "pages", ~moved, ~outdated,
                        NEW q \in start \ seen, Untied(q)'
                 PROVE  Cardinality(NotBelow(q)') > Skipped'
    BY <1>2 DEF AheadOfReader
  <2>2. Cardinality(NotBelow(q)) > Skipped /\ Skipped' = Skipped
    BY <1>0, <1>2, <1>10, <2>1 DEF ListsInv, AheadOfReader, Skipped
  <2>3. Skipped \in Int
    BY <1>0, Pagination DEF Skipped, ListsInv, Lists!TypeOK
  <2>4. IsFiniteSet(NotBelow(q)) /\ IsFiniteSet(NotBelow(q)')
    BY ListsConstants, FS_Subset DEF NotBelow, Lists!Listed
  <2>5. Cardinality(NotBelow(q)) \in Nat /\ Cardinality(NotBelow(q)') \in Nat
    BY <2>4, FS_CardinalityType
  <2> QED
    BY <1>11, <2>1, <2>2, <2>3, <2>5
<1>13. Lists!MissedHasReason'
  BY <1>0, <1>2, <1>3, <1>4, <1>8, <1>9
  DEF ListsInv, Lists!MissedHasReason, Lists!Listed
<1> QED
  BY <1>0, <1>2, <1>6, <1>7, <1>12, <1>13 DEF ListsInv

\* A score is computed anew, or a goal leaves the list.
LEMMA MoveKeeps ==
    ASSUME ListsInv, NEW r \in ListRows, Lists!Rescore(r) \/ Lists!Depart(r)
    PROVE  ListsInv'
<1>1. PICK k \in Lists!Absent..MaxKey : Lists!Becomes(r, k)
  BY ListsConstants
  DEF Lists!Rescore, Lists!Depart, Lists!NewKeys, Lists!Absent
<1>2. /\ key \in [ListRows -> Lists!Absent..MaxKey]
      /\ key' = [key EXCEPT ![r] = k]
      /\ UNCHANGED <<asked, reading, start, seen, outdated>>
      /\ moved' = (moved \/ reading # "no")
  BY <1>1
  DEF Lists!Rescore, Lists!Depart, Lists!Becomes, ListsInv, Lists!TypeOK
<1>3. key' \in [ListRows -> Lists!Absent..MaxKey]
  BY <1>1, <1>2
<1>4. pages' \subseteq Lists!Responses /\ CurrentPages'
  BY <1>1, BecomesOutdates
<1>5. reading # "no" => moved'
  BY <1>2
<1>6. /\ reading = "no" => start' = {} /\ seen' = {} /\ ~moved'
      /\ moved' \in BOOLEAN
  BY <1>2 DEF ListsInv, Lists!TypeOK
<1>7. Lists!TypeOK'
  BY <1>2, <1>3, <1>4, <1>5, <1>6
  DEF ListsInv, Lists!TypeOK, Lists!Responses
<1>8. AheadOfReader' /\ Lists!MissedHasReason'
  BY <1>2, <1>5 DEF AheadOfReader, Lists!MissedHasReason
<1> QED
  BY <1>2, <1>4, <1>6, <1>7, <1>8 DEF ListsInv

\* Found in an unchanged list.
LEMMA SameFound ==
    ASSUME key' = key, NEW p
    PROVE  Lists!Found(p)' = Lists!Found(p) /\ Lists!Listed' = Lists!Listed
<1>1. Lists!Listed' = Lists!Listed
  BY DEF Lists!Listed
<1>2. Lists!Orders' = Lists!Orders
  BY <1>1 DEF Lists!Orders
<1> QED
  BY <1>1, <1>2 DEF Lists!Found

\* What a query finds is a response of the list as it is.
LEMMA FoundIsResponse ==
    ASSUME ListsInv, NEW page \in Int, NEW limit \in Int,
           NEW e \in Lists!Found(
             Lists!NormalizePagination([page |-> page, limit |-> limit]))
    PROVE  e \in Lists!Responses /\ e.current
<1> DEFINE p == Lists!NormalizePagination([page |-> page, limit |-> limit])
<1>1. p.page \in Nat /\ p.limit \in Nat
  BY Pagination
<1>2. IsFiniteSet(Lists!Listed) /\ Lists!Cardinality(Lists!Listed) \in Nat
  BY ListsConstants, ListsCount, FS_Subset, FS_CardinalityType
  DEF Lists!Listed
<1> HIDE DEF p
<1>3. PICK s \in Lists!Orders :
        e = [page |-> p.page, limit |-> p.limit,
             rows |-> {s[i] : i \in {j \in DOMAIN s :
                          j > p.offset /\ j <= p.offset + p.limit}},
             total |-> Lists!Cardinality(Lists!Listed), current |-> TRUE]
  BY DEF Lists!Found, p
<1>4. e.rows \subseteq ListRows
  BY <1>3, ListsCount DEF Lists!Orders, Lists!SetToSeqs, Lists!Listed
<1> QED
  BY <1>1, <1>2, <1>3, <1>4 DEF Lists!Responses

\* A response is cached, or expires.
LEMMA CacheKeeps ==
    ASSUME ListsInv,
           \/ \E page \in Int, limit \in Int :
                Lists!FillPage([page |-> page, limit |-> limit])
           \/ \E e \in pages : Lists!Expire(e)
    PROVE  ListsInv'
<1>1. UNCHANGED <<key, asked, reading, start, seen, moved, outdated>>
  BY DEF Lists!FillPage, Lists!Expire
<1>2. pages' \subseteq Lists!Responses /\ CurrentPages'
  <2>1. CASE \E e \in pages : Lists!Expire(e)
    BY <1>1, <2>1, SameFound
    DEF Lists!Expire, CurrentPages, ListsInv, Lists!TypeOK
  <2>2. CASE \E page \in Int, limit \in Int :
               Lists!FillPage([page |-> page, limit |-> limit])
    <3>1. PICK page \in Int, limit \in Int :
            Lists!FillPage([page |-> page, limit |-> limit])
      BY <2>2
    <3>2. PICK e \in Lists!Found(
                  Lists!NormalizePagination([page |-> page, limit |-> limit])) :
            pages' = pages \cup {e}
      BY <3>1 DEF Lists!FillPage
    <3>3. e \in Lists!Responses
      BY <3>2, FoundIsResponse
    <3>4. \A d \in pages' : d.current =>
            \E pg \in Int, lm \in Int :
              d \in Lists!Found(
                      Lists!NormalizePagination([page |-> pg, limit |-> lm]))
      BY <3>2 DEF ListsInv, CurrentPages
    <3>5. CurrentPages'
      BY <1>1, <3>4, SameFound DEF CurrentPages
    <3> QED
      BY <3>2, <3>3, <3>5 DEF ListsInv, Lists!TypeOK
  <2> QED
    BY <2>1, <2>2
<1>3. Lists!Listed' = Lists!Listed
  BY <1>1 DEF Lists!Listed
<1>4. Lists!TypeOK'
  BY <1>1, <1>2, <1>3 DEF ListsInv, Lists!TypeOK, Lists!Responses
<1>5. AheadOfReader'
  BY <1>1, <1>3 DEF ListsInv, AheadOfReader, Untied, NotBelow, Skipped
<1>6. Lists!MissedHasReason'
  BY <1>1, <1>3 DEF ListsInv, Lists!MissedHasReason
<1> QED
  BY <1>1, <1>2, <1>4, <1>5, <1>6 DEF ListsInv

\* A client begins to read.
LEMMA BeginKeeps ==
    ASSUME ListsInv, NEW page \in AskedPages, NEW limit \in AskedLimits,
           Lists!Begin(page, limit)
    PROVE  ListsInv'
<1>1. /\ reading = "no" /\ reading' = "pages" /\ start' = Lists!Listed
      /\ asked' = [page |-> page, limit |-> limit]
      /\ UNCHANGED <<key, pages, seen, moved, outdated>>
      /\ key \in [ListRows -> Lists!Absent..MaxKey]
  BY DEF Lists!Begin, ListsInv, Lists!TypeOK
<1>2. Lists!Listed' = Lists!Listed
  BY <1>1 DEF Lists!Listed
<1>3. asked' \in [page : Int, limit : Int]
  BY <1>1, ListsConstants
<1>4. Lists!TypeOK' /\ CurrentPages'
  <2>1. CurrentPages'
    BY <1>1, SameFound DEF ListsInv, CurrentPages
  <2>2. Lists!Listed \subseteq ListRows
    BY DEF Lists!Listed
  <2> QED
    BY <1>1, <1>2, <1>3, <2>1, <2>2
    DEF ListsInv, Lists!TypeOK, Lists!Responses
<1>5. Skipped' = 0
  BY <1>1, ListsConstants, Pagination DEF Skipped
<1>6. \A r \in Lists!Listed : Cardinality(NotBelow(r)') > 0
  <2>1. TAKE r \in Lists!Listed
  <2>2. NotBelow(r)' \subseteq ListRows /\ r \in NotBelow(r)'
    BY <1>1, <1>2, ListsConstants DEF NotBelow, Lists!Listed, Lists!Absent
  <2>3. IsFiniteSet(NotBelow(r)')
    BY <2>2, ListsConstants, FS_Subset
  <2>4. Cardinality(NotBelow(r)') \in Nat /\ Cardinality(NotBelow(r)') # 0
    BY <2>2, <2>3, FS_EmptySet, FS_CardinalityType
  <2> QED
    BY <2>4
<1>7. AheadOfReader'
  BY <1>1, <1>5, <1>6 DEF AheadOfReader
<1> QED
  BY <1>1, <1>4, <1>7 DEF ListsInv, Lists!MissedHasReason

\* A page is read, from the database or from a cache that is not outdated.
LEMMA CurrentPageKeeps ==
    ASSUME ListsInv, reading = "pages",
           NEW e \in Lists!Found(Lists!NormalizePagination(asked)),
           Lists!Receive(e), UNCHANGED outdated
    PROVE  ListsInv'
<1> DEFINE p == Lists!NormalizePagination(asked)
           n == Cardinality(Lists!Listed)
<1>0. ListsInv /\ Lists!TypeOK
  BY DEF ListsInv
<1>1. PICK s \in Lists!Orders :
        e = [page |-> p.page, limit |-> p.limit,
             rows |-> {s[i] : i \in {j \in DOMAIN s :
                          j > p.offset /\ j <= p.offset + p.limit}},
             total |-> n, current |-> TRUE]
  BY ListsCount DEF Lists!Found
<1>2. /\ reading = "pages"
      /\ asked' = [asked EXCEPT !.page = p.page + 1]
      /\ reading' = IF p.page * p.limit >= n THEN "over" ELSE "pages"
      /\ UNCHANGED <<key, pages, start, moved, outdated>>
      /\ seen' = seen \cup {s[i] : i \in {j \in DOMAIN s :
                              j > p.offset /\ j <= p.offset + p.limit}}
  <2> HIDE DEF p, n
  <2> QED
    BY <1>1 DEF Lists!Receive
<1>3. PICK page \in Int, limit \in Int :
        asked = [page |-> page, limit |-> limit]
  BY <1>0 DEF Lists!TypeOK
<1>4. /\ p.page \in Nat /\ p.limit \in Nat /\ p.limit >= 1 /\ p.offset \in Int
      /\ p.offset + p.limit = p.page * p.limit
  BY <1>3, Pagination
<1>5. asked' = [page |-> p.page + 1, limit |-> limit]
  BY <1>2, <1>3
<1>6. Skipped' = p.page * p.limit
  <2> DEFINE next == p.page + 1
  <2>1. next \in Int /\ next >= 1 /\ next - 1 = p.page
    BY <1>4
  <2>2. Skipped'
          = Lists!NormalizePagination([page |-> next, limit |-> limit]).offset
    BY <1>5 DEF Skipped
  <2>3. p = Lists!NormalizePagination([page |-> page, limit |-> limit])
    BY <1>3
  <2> HIDE DEF p, next
  <2>4. Skipped' = (next - 1) * p.limit
    BY <2>1, <2>2, <2>3, NextPage
  <2> QED
    BY <2>1, <2>4
<1>7. /\ IsFiniteSet(Lists!Listed) /\ n \in Nat
      /\ Lists!Listed' = Lists!Listed
  BY <1>2, ListsConstants, FS_Subset, FS_CardinalityType DEF Lists!Listed
<1>8. /\ s \in [1..n -> Lists!Listed]
      /\ \A i, j \in 1..n : i # j => s[i] # s[j]
      /\ \A i, j \in 1..n : i < j => key[s[i]] >= key[s[j]]
  BY ListsCount DEF Lists!Orders, Lists!SetToSeqs
<1>9. Lists!TypeOK'
  <2>1. asked' \in [page : Int, limit : Int]
    BY <1>4, <1>5
  <2>2. /\ seen' \subseteq ListRows
        /\ ~moved /\ ~outdated => seen' \subseteq Lists!Listed
    BY <1>0, <1>2, <1>8 DEF Lists!TypeOK, Lists!Listed
  <2> QED
    BY <1>0, <1>2, <1>7, <2>1, <2>2 DEF Lists!TypeOK, Lists!Responses
<1>10. ASSUME NEW r \in start \ seen', Untied(r), ~moved, ~outdated
       PROVE  /\ Cardinality(NotBelow(r)) > p.page * p.limit
              /\ Cardinality(NotBelow(r)) <= n
  <2>1. r \in Lists!Listed /\ r \in start \ seen
    BY <1>0, <1>2, <1>10 DEF Lists!TypeOK
  <2>2. \A q \in Lists!Listed : key[q] \in Int
    BY <1>0, ListsConstants DEF Lists!TypeOK, Lists!Listed, Lists!Absent
  <2>3. PICK k \in 1..n : s[k] = r /\ Cardinality(NotBelow(r)) = k
    <3>1. Alone(Lists!Listed, key, r)
      BY <1>10, <2>1 DEF Untied, Alone
    <3>2. Falling(Lists!Listed, key, s)
      BY <1>8, <2>2 DEF Falling
    <3>3. \E k \in 1..Cardinality(Lists!Listed) :
            /\ s[k] = r
            /\ Cardinality(AtLeast(Lists!Listed, key, r)) = k
      BY <1>7, <3>1, <3>2, PlaceIsRank
    <3> QED
      BY <3>3 DEF NotBelow, AtLeast
  <2>4. k > p.offset
    BY <1>0, <1>2, <1>10, <2>1, <2>3 DEF ListsInv, AheadOfReader, Skipped
  <2>5. ~(k <= p.offset + p.limit)
    BY <1>2, <1>8, <1>10, <2>3, <2>4
  <2> HIDE DEF p
  <2> QED
    BY <1>4, <1>7, <2>3, <2>5
<1>11. AheadOfReader'
  BY <1>2, <1>6, <1>7, <1>10 DEF AheadOfReader, Untied, NotBelow
<1>12. Lists!MissedHasReason'
  <2>1. SUFFICES ASSUME reading' = "over", ~moved, ~outdated,
                        NEW r \in start \ seen',
                        Untied(r)
                 PROVE  FALSE
    BY <1>2, <1>7 DEF Lists!MissedHasReason, Untied
  <2>2. p.page * p.limit >= n
    BY <1>2, <2>1
  <2>3. /\ Cardinality(NotBelow(r)) > p.page * p.limit
        /\ Cardinality(NotBelow(r)) <= n
    BY <1>10, <2>1
  <2>4. Cardinality(NotBelow(r)) \in Nat /\ p.page * p.limit \in Int
    <3>1. IsFiniteSet(NotBelow(r))
      BY ListsConstants, FS_Subset DEF NotBelow, Lists!Listed
    <3> HIDE DEF p
    <3> QED
      BY <1>4, <3>1, FS_CardinalityType
  <2> HIDE DEF p, n
  <2> QED
    BY <1>7, <2>2, <2>3, <2>4
<1>13. CurrentPages'
  BY <1>0, <1>2, SameFound DEF ListsInv, CurrentPages
<1> QED
  BY <1>2, <1>9, <1>11, <1>12, <1>13 DEF ListsInv

\* A page a cache has may be outdated: then nothing is said of what is missed.
LEMMA ReadKeeps ==
    ASSUME ListsInv, Lists!ReadPage \/ \E e \in pages : Lists!ReadCached(e)
    PROVE  ListsInv'
<1>1. CASE Lists!ReadPage
  BY <1>1, CurrentPageKeeps DEF Lists!ReadPage
<1>2. ASSUME NEW e \in pages, Lists!ReadCached(e)
      PROVE  ListsInv'
  <2>1. /\ reading = "pages" /\ Lists!Receive(e)
        /\ e.page = Lists!NormalizePagination(asked).page
        /\ e.limit = Lists!NormalizePagination(asked).limit
        /\ outdated' = (outdated \/ ~e.current)
    BY <1>2 DEF Lists!ReadCached
  <2>2. e \in Lists!Responses /\ outdated \in BOOLEAN /\ e.current \in BOOLEAN
    BY DEF ListsInv, Lists!TypeOK, Lists!Responses
  <2>3. CASE e.current
    <3>1. PICK page \in Int, limit \in Int :
            e \in Lists!Found(
                    Lists!NormalizePagination([page |-> page, limit |-> limit]))
      BY <2>3 DEF ListsInv, CurrentPages
    <3> DEFINE q == Lists!NormalizePagination([page |-> page, limit |-> limit])
    <3>2. e.page = q.page /\ e.limit = q.limit
      BY <3>1 DEF Lists!Found
    <3>3. q = Lists!NormalizePagination(asked)
      BY <2>1, <3>2, SameOffset
    <3>4. UNCHANGED outdated
      BY <2>1, <2>2, <2>3
    <3> QED
      BY <2>1, <3>1, <3>3, <3>4, CurrentPageKeeps
  <2>4. CASE ~e.current
    <3>1. /\ outdated' = TRUE
          /\ UNCHANGED <<key, pages, start, moved>>
          /\ seen' = seen \cup e.rows
          /\ asked' = [asked EXCEPT !.page = e.page + 1]
          /\ reading' \in {"pages", "over"}
      BY <2>1, <2>4 DEF Lists!Receive
    <3>2. /\ seen' \subseteq ListRows
          /\ asked' \in [page : Int, limit : Int]
      BY <2>2, <3>1 DEF ListsInv, Lists!TypeOK, Lists!Responses
    <3>3. Lists!Listed' = Lists!Listed /\ CurrentPages'
      BY <3>1, SameFound DEF ListsInv, CurrentPages
    <3>4. Lists!TypeOK'
      BY <3>1, <3>2, <3>3 DEF ListsInv, Lists!TypeOK, Lists!Responses
    <3> QED
      BY <3>1, <3>3, <3>4 DEF ListsInv, AheadOfReader, Lists!MissedHasReason
  <2> QED
    BY <2>2, <2>3, <2>4
<1> QED
  BY <1>1, <1>2

\* The invariant of the lists, in every reachable state with their turn.
THEOREM ListsHold == Spec => [](turn = "lists" => ListsInv)
<1>1. Init => (turn = "lists" => ListsInv)
  <2>1. SUFFICES ASSUME Lists!Init PROVE ListsInv
    BY DEF Init
  <2>2. Lists!TypeOK
    <3>1. Lists!Absent \in Lists!Absent..MaxKey
      BY ListsConstants DEF Lists!Absent
    <3>2. key \in [ListRows -> Lists!Absent..MaxKey]
      BY <2>1, <3>1 DEF Lists!Init
    <3>3. moved \in BOOLEAN /\ outdated \in BOOLEAN
      BY <2>1 DEF Lists!Init
    <3> QED
      BY <2>1, <3>2, <3>3 DEF Lists!Init, Lists!TypeOK
  <2> QED
    BY <2>1, <2>2
    DEF ListsInv, CurrentPages, Lists!Init, AheadOfReader, Lists!MissedHasReason
<1>2. (turn = "lists" => ListsInv) /\ [Next]_vars
        => (turn = "lists" => ListsInv)'
  <2>1. SUFFICES ASSUME turn = "lists", ListsInv, [Next]_vars PROVE ListsInv'
    BY TurnKept
  <2>2. CASE Lists!Next
    <3>1. CASE \E page \in 1..Lists!Cardinality(ListRows),
                  limit \in AskedLimits :
                 Lists!FillPage([page |-> page, limit |-> limit])
      <4>1. Lists!Cardinality(ListRows) \in Nat
        BY ListsConstants, ListsCount, FS_CardinalityType
      <4>2. \E page \in Int, limit \in Int :
              Lists!FillPage([page |-> page, limit |-> limit])
        BY <3>1, <4>1, ListsConstants
      <4> QED
        BY <2>1, <4>2, CacheKeeps
    <3>2. CASE \E r \in ListRows : Lists!Add(r)
      BY <2>1, <3>2, AddKeeps
    <3>3. CASE \E r \in ListRows : Lists!Rescore(r) \/ Lists!Depart(r)
      BY <2>1, <3>3, MoveKeeps
    <3>4. CASE \E page \in AskedPages, limit \in AskedLimits :
                 Lists!Begin(page, limit)
      BY <2>1, <3>4, BeginKeeps
    <3>5. CASE \E e \in pages : Lists!Expire(e)
      BY <2>1, <3>5, CacheKeeps
    <3>6. CASE Lists!ReadPage \/ \E e \in pages : Lists!ReadCached(e)
      BY <2>1, <3>6, ReadKeeps
    <3> QED
      BY <2>2, <3>1, <3>2, <3>3, <3>4, <3>5, <3>6 DEF Lists!Next
  <2>3. CASE UNCHANGED P
    <3> USE <2>3 DEF P
    <3>1. Lists!TypeOK'
      BY <2>1, <2>3 DEF ListsInv, Lists!TypeOK, Lists!Listed, Lists!Responses
    <3>2. AheadOfReader'
      BY <2>1, <2>3 DEF ListsInv, AheadOfReader, Untied, NotBelow, Skipped,
         Lists!Listed
    <3>3. Lists!MissedHasReason'
      BY <2>1, <2>3 DEF ListsInv, Lists!MissedHasReason, Lists!Listed
    <3>4. CurrentPages'
      BY <2>1, SameFound DEF ListsInv, CurrentPages
    <3> QED
      BY <2>1, <2>3, <3>1, <3>2, <3>3, <3>4 DEF ListsInv
  <2> QED
    BY <2>1, <2>2, <2>3
    DEF Next, vars, P, LimiterStep, TrendingStep, RemindersStep, NoticesStep,
        LinksStep, ScoresStep, ListsStep, AgesStep, LifeStep
<1> QED
  BY <1>1, <1>2, PTL DEF Spec

\* A reader that reached the end missed only rows that share their key with
\* another, unless a score changed, a goal left, or a page was outdated.
THEOREM MissedHasReasonHolds == Spec => []MissedHasReason
<1>1. (turn = "lists" => ListsInv) => MissedHasReason
  BY DEF MissedHasReason, ListsInv
<1> QED
  BY <1>1, ListsHold, PTL

-----------------------------------------------------------------------------
\* Ages: the confidence score between two computations.

\* Multiplication by a positive number keeps the order.
LEMMA TimesKeepsOrder ==
    ASSUME NEW d \in Nat \ {0}, NEW i \in Int, NEW j \in Int, i < j
    PROVE  d * i + d <= d * j /\ d * (i + 1) = d * i + d
<1>1. d * (i + 1) = d * i + d
  OBVIOUS
<1>2. PICK k \in Nat : j = i + 1 + k
  <2>1. j - i - 1 \in Nat /\ j = i + 1 + (j - i - 1)
    OBVIOUS
  <2> QED
    BY <2>1
<1>3. d * j = d * (i + 1) + d * k /\ d * k \in Nat
  BY <1>2
<1> QED
  BY <1>1, <1>3

\* The quotient is the number between whose multiples the dividend lies.
LEMMA QuotientIs ==
    ASSUME NEW d \in Nat \ {0}, NEW n \in Int, NEW q \in Int,
           d * q <= n, n < d * q + d
    PROVE  n \div d = q
<1> DEFINE r == n \div d
<1>1. r \in Int /\ d * r <= n /\ n < d * r + d
  OBVIOUS
<1> HIDE DEF r
<1>2. ~ (r < q)
  <2> SUFFICES ASSUME r < q PROVE FALSE
    OBVIOUS
  <2>1. d * r + d <= d * q /\ d * r \in Int /\ d * q \in Int
    BY <1>1, TimesKeepsOrder
  <2> QED
    BY <1>1, <2>1
<1>3. ~ (q < r)
  <2> SUFFICES ASSUME q < r PROVE FALSE
    OBVIOUS
  <2>1. d * q + d <= d * r /\ d * r \in Int /\ d * q \in Int
    BY <1>1, TimesKeepsOrder
  <2> QED
    BY <1>1, <2>1
<1>4. r = q
  BY <1>1, <1>2, <1>3
<1> QED
  BY <1>4 DEF r

\* What the time left adds to a score, in units of 0.0001.
TimePart(left) == (4000 * left + Lifetime) \div (2 * Lifetime)

\* What the proofs use of the constants.
LEMMA AgesConstants ==
    /\ Lifetime \in Nat \ {0} /\ MaxTime \in Nat
    /\ MaxActivity \in Nat /\ MaxGoals \in Nat
BY ServicesAssumption DEF ServicesAssumption, Ages!ConfidenceAssumption

\* The time left adds a fifth of the score at most,
LEMMA TimePartType ==
    ASSUME NEW left \in Nat, left <= Lifetime
    PROVE  TimePart(left) \in Nat /\ TimePart(left) <= 2000
<1> DEFINE d == 2 * Lifetime
           n == 4000 * left + Lifetime
           q == n \div d
<1>1. d \in Nat \ {0} /\ n \in Nat /\ n < 2001 * d
  BY AgesConstants
<1> HIDE DEF d, n
<1>2. q \in Int /\ d * q <= n /\ n < d * q + d
  BY <1>1
<1> HIDE DEF q
<1>3. ~ (q < 0)
  <2> SUFFICES ASSUME q < 0 PROVE FALSE
    OBVIOUS
  <2>1. d * q + d <= d * 0 /\ d * q \in Int
    BY <1>1, <1>2, TimesKeepsOrder
  <2> QED
    BY <1>1, <1>2, <2>1
<1>4. ~ (2000 < q)
  <2> SUFFICES ASSUME 2000 < q PROVE FALSE
    OBVIOUS
  <2>1. d * 2000 + d <= d * q /\ d * q \in Int
    BY <1>1, <1>2, TimesKeepsOrder
  <2> QED
    BY <1>1, <1>2, <2>1
<1> QED
  BY <1>2, <1>3, <1>4 DEF TimePart, d, n, q

\* and never more with less time.
LEMMA TimePartGrows ==
    ASSUME NEW less \in Nat, NEW more \in Nat,
           less <= more, more <= Lifetime
    PROVE  TimePart(less) <= TimePart(more)
<1> DEFINE d == 2 * Lifetime
           m == 4000 * less + Lifetime
           n == 4000 * more + Lifetime
           p == m \div d
           q == n \div d
<1>1. d \in Nat \ {0} /\ m \in Nat /\ n \in Nat /\ m <= n
  BY AgesConstants
<1> HIDE DEF d, m, n
<1>2. /\ p \in Int /\ d * p <= m
      /\ q \in Int /\ n < d * q + d
  BY <1>1
<1> HIDE DEF p, q
<1>3. ~ (q < p)
  <2> SUFFICES ASSUME q < p PROVE FALSE
    OBVIOUS
  <2>1. d * q + d <= d * p /\ d * q \in Int /\ d * p \in Int
    BY <1>1, <1>2, TimesKeepsOrder
  <2> QED
    BY <1>1, <1>2, <2>1
<1> QED
  BY <1>2, <1>3 DEF TimePart, d, m, n, p, q

\* A score is the sum of its three parts: only the time's is rounded.
LEMMA ScoreIsSum ==
    ASSUME NEW percent \in Nat, NEW act \in Nat, NEW left \in Nat
    PROVE  Ages!Score(percent, act, left)
             = 50 * percent + 30 * act + TimePart(left)
<1> DEFINE d == 2 * Lifetime
           n == 4000 * left + Lifetime
           q == n \div d
           k == 50 * percent + 30 * act
           sum == 50 * percent * Lifetime + 30 * act * Lifetime + 2000 * left
<1>1. d \in Nat \ {0} /\ n \in Nat /\ k \in Nat /\ sum \in Nat
  BY AgesConstants
<1>2. 2 * sum + Lifetime = d * k + n
  <2>1. /\ 50 * percent * Lifetime = Lifetime * (50 * percent)
        /\ 30 * act * Lifetime = Lifetime * (30 * act)
    BY AgesConstants
  <2>2. Lifetime * k = Lifetime * (50 * percent) + Lifetime * (30 * act)
    BY AgesConstants
  <2>3. d * k = 2 * (Lifetime * k)
    BY AgesConstants
  <2> QED
    BY <2>1, <2>2, <2>3, AgesConstants
<1>3. Ages!Score(percent, act, left) = (d * k + n) \div d
  BY <1>2 DEF Ages!Score
<1> HIDE DEF d, n, k, sum
<1>4. q \in Int /\ d * q <= n /\ n < d * q + d
  BY <1>1
<1> HIDE DEF q
<1>5. d * (k + q) = d * k + d * q /\ d * k \in Int /\ d * q \in Int
  BY <1>1, <1>4
<1>6. /\ d * k + n \in Int /\ k + q \in Int
      /\ d * (k + q) <= d * k + n /\ d * k + n < d * (k + q) + d
  BY <1>1, <1>4, <1>5
<1>7. (d * k + n) \div d = k + q
  BY <1>1, <1>6, QuotientIs
<1> QED
  BY <1>3, <1>7 DEF TimePart, d, n, k, q

-----------------------------------------------------------------------------
\* The stored score was computed at some time since the goal was created, from
\* the activity there is now, or from none before there was any.
ScoredOnce ==
    \E t \in 0..age :
      \E act \in {0, Ages!Activity(remarks, reacted, proof)} :
        /\ confidence = Ages!Score(rate, act, Ages!TimeLeft(t))
        /\ act = 0 => remarks = 0 /\ reacted = 0 /\ proof = FALSE

AgesInv == Ages!TypeOK /\ ScoredOnce

\* A success rate is a percentage,
LEMMA RateType ==
    ASSUME NEW a \in Nat, NEW f \in Nat
    PROVE  Ages!SuccessRate(a, f) \in Nat /\ Ages!SuccessRate(a, f) <= 100
<1>1. Ages!UsersWith(a) \in 0..1 /\ Ages!UsersWith(a + f) \in 0..1
  BY DEF Ages!UsersWith
<1> QED
  BY <1>1 DEF Ages!SuccessRate

\* so is the activity of a goal, which is never none,
LEMMA ActivityType ==
    ASSUME NEW c \in Nat, NEW r \in Nat, NEW p \in BOOLEAN
    PROVE  /\ Ages!Activity(c, r, p) \in Nat \ {0}
           /\ Ages!Activity(c, r, p) <= 100
<1>1. (IF p THEN 30 ELSE 2) \in {2, 30}
  OBVIOUS
<1> QED
  BY <1>1 DEF Ages!Activity, Ages!AtMost

\* and the time left is part of the goal's life.
LEMMA LeftType ==
    ASSUME NEW t \in Nat
    PROVE  Ages!TimeLeft(t) \in Nat /\ Ages!TimeLeft(t) <= Lifetime
BY AgesConstants DEF Ages!TimeLeft

\* A score is not above the largest one.
LEMMA ScoreType ==
    ASSUME NEW percent \in Nat, NEW act \in Nat, NEW left \in Nat,
           percent <= 100, act <= 100, left <= Lifetime
    PROVE  /\ Ages!Score(percent, act, left) \in Nat
           /\ Ages!Score(percent, act, left) <= Ages!One
<1>1. Ages!Score(percent, act, left)
        = 50 * percent + 30 * act + TimePart(left)
  BY ScoreIsSum
<1>2. TimePart(left) \in Nat /\ TimePart(left) <= 2000
  BY TimePartType
<1> QED
  BY <1>1, <1>2 DEF Ages!One

\* A goal that was just created has the score of no activity.
LEMMA AgesInit == Ages!Init => AgesInv
<1> SUFFICES ASSUME Ages!Init PROVE AgesInv
  OBVIOUS
<1>1. /\ age = 0 /\ remarks = 0 /\ reacted = 0
      /\ achieved \in Nat /\ failed \in Nat /\ achieved + failed <= MaxGoals
      /\ rate \in Nat /\ rate <= 100
  BY RateType, AgesConstants DEF Ages!Init
<1>2. Ages!TimeLeft(0) \in Nat /\ Ages!TimeLeft(0) <= Lifetime
  BY LeftType
<1>3. confidence \in Nat /\ confidence <= Ages!One
  BY <1>1, <1>2, ScoreType DEF Ages!Init
<1>4. Ages!TypeOK
  <2>1. proof \in BOOLEAN
    BY DEF Ages!Init
  <2>2. /\ age \in 0..MaxTime
        /\ remarks \in 0..MaxActivity /\ reacted \in 0..MaxActivity
    BY <1>1, AgesConstants
  <2> QED
    BY <1>1, <1>3, <2>1, <2>2 DEF Ages!TypeOK
<1>5. ScoredOnce
  BY <1>1 DEF ScoredOnce, Ages!Init
<1> QED
  BY <1>4, <1>5 DEF AgesInv

\* Every request leaves the goal with some activity.
LEMMA SomeActivity ==
    ASSUME remarks \in Nat, remarks <= MaxActivity, reacted \in Nat,
           reacted <= MaxActivity, proof \in BOOLEAN,
           Ages!Comment \/ Ages!React \/ Ages!Unreact \/ Ages!Prove
    PROVE  \E c \in Nat, r \in Nat, p \in BOOLEAN :
             c <= MaxActivity /\ r <= MaxActivity /\ Ages!Becomes(c, r, p)
<1>1. CASE Ages!Comment
  <2>1. remarks + 1 \in Nat /\ remarks + 1 <= MaxActivity
    BY <1>1, AgesConstants DEF Ages!Comment
  <2>2. Ages!Becomes(remarks + 1, reacted, proof)
    BY <1>1 DEF Ages!Comment
  <2> QED
    BY <2>1, <2>2
<1>2. CASE Ages!React
  <2>1. reacted + 1 \in Nat /\ reacted + 1 <= MaxActivity
    BY <1>2, AgesConstants DEF Ages!React
  <2>2. Ages!Becomes(remarks, reacted + 1, proof)
    BY <1>2 DEF Ages!React
  <2> QED
    BY <2>1, <2>2
<1>3. CASE Ages!Unreact
  <2>1. reacted - 1 \in Nat /\ reacted - 1 <= MaxActivity
    BY <1>3, AgesConstants DEF Ages!Unreact
  <2>2. Ages!Becomes(remarks, reacted - 1, proof)
    BY <1>3 DEF Ages!Unreact
  <2> QED
    BY <2>1, <2>2
<1>4. CASE Ages!Prove
  BY <1>4 DEF Ages!Prove
<1> QED
  BY <1>1, <1>2, <1>3, <1>4

\* A request scores the goal anew; other goals' ends and time leave the score.
LEMMA AgesStepKeeps == AgesInv /\ [Ages!Next]_A => AgesInv'
<1> SUFFICES ASSUME AgesInv, [Ages!Next]_A PROVE AgesInv'
  OBVIOUS
<1> USE AgesConstants
<1>0. /\ age \in Nat /\ age <= MaxTime
      /\ remarks \in Nat /\ remarks <= MaxActivity
      /\ reacted \in Nat /\ reacted <= MaxActivity
      /\ proof \in BOOLEAN
      /\ achieved \in Nat /\ failed \in Nat /\ achieved + failed <= MaxGoals
      /\ confidence \in Nat /\ confidence <= Ages!One
      /\ rate \in Nat /\ rate <= 100
  BY DEF AgesInv, Ages!TypeOK
<1>1. ASSUME NEW c \in Nat, NEW r \in Nat, NEW p \in BOOLEAN,
             c <= MaxActivity, r <= MaxActivity, Ages!Becomes(c, r, p)
      PROVE  AgesInv'
  <2>1. /\ remarks' = c /\ reacted' = r /\ proof' = p
        /\ UNCHANGED <<age, achieved, failed>>
        /\ rate' = Ages!SuccessRate(achieved, failed)
        /\ confidence' = Ages!Score(rate', Ages!Activity(c, r, p),
                                    Ages!TimeLeft(age))
    BY <1>1 DEF Ages!Becomes, Ages!Fresh, Ages!goals
  <2>2. /\ rate' \in Nat /\ rate' <= 100
        /\ Ages!Activity(c, r, p) \in Nat \ {0}
        /\ Ages!Activity(c, r, p) <= 100
        /\ Ages!TimeLeft(age) \in Nat /\ Ages!TimeLeft(age) <= Lifetime
    BY <1>0, <2>1, RateType, ActivityType, LeftType
  <2>3. confidence' \in Nat /\ confidence' <= Ages!One
    <3>1. Ages!Activity(c, r, p) \in Nat
      BY <2>2
    <3> QED
      BY <2>1, <2>2, <3>1, ScoreType
  <2>4. Ages!TypeOK'
    <3>1. proof' \in BOOLEAN
      BY <1>1, <2>1
    <3>2. /\ age' \in 0..MaxTime
          /\ remarks' \in 0..MaxActivity /\ reacted' \in 0..MaxActivity
      BY <1>0, <1>1, <2>1
    <3>3. /\ achieved' \in Nat /\ failed' \in Nat
          /\ achieved' + failed' <= MaxGoals
      BY <1>0, <2>1
    <3> QED
      BY <2>2, <2>3, <3>1, <3>2, <3>3 DEF Ages!TypeOK
  <2>5. ScoredOnce'
    <3>1. Ages!Activity(c, r, p) # 0
      BY <2>2
    <3> QED
      BY <1>0, <2>1, <3>1 DEF ScoredOnce
  <2> QED
    BY <2>4, <2>5 DEF AgesInv
<1>2. CASE Ages!Comment \/ Ages!React \/ Ages!Unreact \/ Ages!Prove
  BY <1>0, <1>1, <1>2, SomeActivity
<1>3. CASE Ages!OtherGoalEnds \/ Ages!Tick \/ UNCHANGED A
  <2>1. /\ UNCHANGED <<remarks, reacted, proof, rate, confidence>>
        /\ age' \in Nat /\ age <= age' /\ age' <= MaxTime
        /\ achieved' \in Nat /\ failed' \in Nat
        /\ achieved' + failed' <= MaxGoals
    BY <1>0, <1>3 DEF Ages!OtherGoalEnds, Ages!Tick,
       A, Ages!activity, Ages!goals, Ages!stored
  <2>2. 0..age \subseteq 0..age'
    BY <1>0, <2>1
  <2>3. ScoredOnce'
    BY <2>1, <2>2 DEF AgesInv, ScoredOnce
  <2>4. Ages!TypeOK'
    <3>1. proof' \in BOOLEAN
      BY <1>0, <2>1
    <3>2. /\ age' \in 0..MaxTime
          /\ remarks' \in 0..MaxActivity /\ reacted' \in 0..MaxActivity
      BY <1>0, <2>1
    <3> QED
      BY <1>0, <2>1, <3>1, <3>2, Zenon DEF Ages!TypeOK
  <2> QED
    BY <2>3, <2>4 DEF AgesInv
<1> QED
  BY <1>2, <1>3 DEF Ages!Next

\* The invariant of the confidence, in every reachable state with its turn.
THEOREM AgesHold == Spec => [](turn = "ages" => AgesInv)
<1>1. Init => (turn = "ages" => AgesInv)
  BY AgesInit DEF Init
<1>2. (turn = "ages" => AgesInv) /\ [Next]_vars
        => (turn = "ages" => AgesInv)'
  <2> SUFFICES ASSUME turn = "ages" => AgesInv, [Next]_vars,
                      (turn = "ages")'
               PROVE  AgesInv'
    OBVIOUS
  <2>1. turn = "ages" /\ AgesInv
    BY TurnKept
  <2>2. [Ages!Next]_A
    BY <2>1 DEF Next, LimiterStep, TrendingStep, RemindersStep, NoticesStep,
       LinksStep, ScoresStep, ListsStep, AgesStep, LifeStep, vars
  <2> QED
    BY <2>1, <2>2, AgesStepKeeps
<1> QED
  BY <1>1, <1>2, PTL DEF Spec

\* Two sums with the same first part, where the second part of the former is
\* at most that of the latter and its third is not below.
LEMMA Ageing ==
    ASSUME NEW r \in Nat, NEW a \in Nat, NEW b \in Nat, NEW s \in Nat,
           NEW t \in Nat, NEW m, NEW n, s <= 2000, t <= s,
           a = b \/ (a = 0 /\ b = 2),
           m = 50 * r + 30 * a + s, n = 50 * r + 30 * b + t
    PROVE  m <= n + 2000 /\ m >= n - 60
OBVIOUS

\* Until a request computes it anew the stored score is wrong by the time that
\* passed, and by the activity of an empty goal, at most: it never drifts.
THEOREM StoredOnlyAgesHolds == Spec => []StoredOnlyAges
<1>1. ASSUME AgesInv PROVE Ages!StoredOnlyAges
  <2> DEFINE most == Ages!Activity(remarks, reacted, proof)
             fresh == Ages!Score(rate, most, Ages!TimeLeft(age))
  <2>1. PICK t \in 0..age, act \in {0, most} :
          /\ confidence = Ages!Score(rate, act, Ages!TimeLeft(t))
          /\ act = 0 => remarks = 0 /\ reacted = 0 /\ proof = FALSE
    BY <1>1 DEF AgesInv, ScoredOnce
  <2>2. /\ age \in Nat /\ t \in Nat /\ t <= age /\ rate \in Nat
        /\ remarks \in Nat /\ reacted \in Nat /\ proof \in BOOLEAN
    BY <1>1, AgesConstants DEF AgesInv, Ages!TypeOK
  <2>3. /\ Ages!TimeLeft(t) \in Nat /\ Ages!TimeLeft(age) \in Nat
        /\ Ages!TimeLeft(t) <= Lifetime /\ Ages!TimeLeft(age) <= Lifetime
        /\ Ages!TimeLeft(age) <= Ages!TimeLeft(t)
    BY <2>2, AgesConstants DEF Ages!TimeLeft
  <2>4. most \in Nat /\ act \in Nat
    BY <2>2, ActivityType
  <2> DEFINE then == TimePart(Ages!TimeLeft(t))
             today == TimePart(Ages!TimeLeft(age))
  <2>5. then \in Nat /\ today \in Nat /\ then <= 2000 /\ today <= then
    BY <2>3, TimePartType, TimePartGrows
  <2>6. /\ confidence = 50 * rate + 30 * act + then
        /\ fresh = 50 * rate + 30 * most + today
    BY <2>1, <2>2, <2>3, <2>4, ScoreIsSum
  <2>7. Ages!Activity(0, 0, FALSE) = 2
    BY DEF Ages!Activity, Ages!AtMost
  <2>8. act = 0 => most = 2
    BY <2>1, <2>7
  <2>9. rate \in Nat /\ (act = most \/ (act = 0 /\ most = 2))
    BY <2>1, <2>2, <2>8
  <2> HIDE DEF then, today, most, fresh
  <2>10. confidence <= fresh + 2000 /\ confidence >= fresh - 60
    BY <2>4, <2>5, <2>6, <2>9, Ageing
  <2>11. rate = Ages!SuccessRate(achieved, failed)
           => Ages!Fresh(remarks, reacted, proof, age) = fresh
    BY DEF fresh, most, Ages!Fresh
  <2>12. 30 * Ages!Activity(0, 0, FALSE) = 60
    <3>1. 30 * 2 = 60
      OBVIOUS
    <3> QED
      BY <2>7, <3>1, Zenon
  <2>13. Ages!One \div 5 = 2000
    BY DEF Ages!One
  <2>14. confidence <= fresh + Ages!One \div 5
    BY <2>10, <2>13
  <2>15. confidence >= fresh - 30 * Ages!Activity(0, 0, FALSE)
    <3>1. confidence >= fresh - 60
      BY <2>10
    <3> QED
      BY <2>12, <3>1, Zenon
  <2> QED
    BY <2>11, <2>14, <2>15, Zenon DEF Ages!StoredOnlyAges
<1>2. (turn = "ages" => AgesInv) => StoredOnlyAges
  BY <1>1 DEF StoredOnlyAges
<1> QED
  BY <1>2, AgesHold, PTL

-----------------------------------------------------------------------------
\* Life: processes that start, serve and stop.

\* The processes of Life.
All == Procs \cup {Worker}

\* A connection is open from its opening on, until the process flushes.
Opened ==
    \A p \in All :
      /\ phase[p] \in {"pending", "migrating", "redis", "queues", "listen",
                       "serving"}
           => "database" \in open[p]
      /\ phase[p] = "queues" /\ link[p] # "off" => "redis" \in open[p]
      /\ ready[p] /\ phase[p] # "flushing"
           => /\ phase[p] \in {"listen", "serving"}
              /\ {"queues", "redis"} \subseteq open[p]

\* Work is under way in the processes that serve, of the kind the task needs;
\* in a process that closes its connections only for clients that hung up.
Placed ==
    \A t \in Life!Tasks :
      /\ task[t].at # None =>
           \/ phase[task[t].at] = "serving"
           \/ t \in hungUp /\ phase[task[t].at] = "flushing"
      /\ task[t].state \in {"request", "stored"} => task[t].at \in Procs

\* Without mishap a process that is past Redis has it, with its queues.
Unharmed ==
    mishaps = MaxMishaps =>
      /\ \A p \in All :
           /\ phase[p] \in {"queues", "listen", "serving"} => link[p] = "up"
           /\ phase[p] \in {"listen", "serving"} => ready[p]
      /\ \A t \in Life!Tasks :
           task[t].state \in {"lost", "unscheduled"}
             => t \in hungUp /\ signals < MaxSignals

\* The signals a process was sent are no longer to come, and one that closes
\* its connections was sent one.
Signalled ==
    \A p \in All :
      /\ stops[p] + signals <= MaxSignals
      /\ phase[p] = "flushing" => stops[p] > 0

LifeInv == Life!TypeOK /\ Opened /\ Placed /\ Unharmed /\ Signalled

\* What the proofs use of the constants.
LEMMA LifeConstants ==
    /\ Worker \notin Procs /\ None \notin All
    /\ MaxSignals \in Nat /\ MaxMishaps \in Nat
BY ServicesAssumption DEF ServicesAssumption, Life!LifeAssumption, All

\* Nothing runs yet.
LEMMA LifeInit == Life!Init => LifeInv
<1> SUFFICES ASSUME Life!Init PROVE LifeInv
  OBVIOUS
<1> USE LifeConstants DEF Life!Init
<1>1. Life!TypeOK
  <2>1. Life!LinkTypeOK /\ phase \in [All -> Life!Phases]
    BY DEF Life!LinkTypeOK, Life!Links, Life!Phases, All
  <2>2. /\ open \in [All -> SUBSET Life!Connections]
        /\ ready \in [All -> BOOLEAN] /\ schema \in BOOLEAN
    BY DEF All
  <2>3. /\ stops \in [All -> 0..MaxSignals]
        /\ signals \in 0..MaxSignals /\ mishaps \in 0..MaxMishaps
    BY DEF All
  <2>4. /\ task \in [Life!Tasks -> Life!TaskRows]
        /\ hungUp \subseteq Life!Tasks
        /\ attached \in [Clients -> Procs \cup {None}] /\ deaf \subseteq Clients
    BY DEF Life!TaskRows
  <2> QED
    BY <2>1, <2>2, <2>3, <2>4 DEF Life!TypeOK, All
<1>2. Opened /\ Placed /\ Unharmed
  BY DEF Opened, Placed, Unharmed, All
<1>3. Signalled
  BY DEF Signalled, All
<1> QED
  BY <1>1, <1>2, <1>3 DEF LifeInv

\* The end of a process, without mishap, harms only tasks nobody waits for, of a
\* process that was told to stop.
LEMMA EndKeeps ==
    ASSUME LifeInv, NEW p \in All, Life!End(p),
           signals' \in 0..signals, mishaps' \in 0..mishaps,
           mishaps' = mishaps =>
             \/ phase[p] \notin {"serving", "flushing"}
             \/ stops[p] > 0 /\ Life!Awaited(p) = {}
    PROVE  LifeInv'
<1> USE LifeConstants
<1>0. Life!TypeOK /\ Life!TypeOK' 
  <2>1. \A t \in Life!Tasks : Life!Interrupted(t) \in Life!TaskRows
    BY DEF Life!Interrupted, Life!TaskRows
  <2> QED
    BY <2>1 DEF LifeInv, Life!TypeOK, Life!LinkTypeOK, Life!Links, Life!Phases,
     Life!Connections, Life!End, Life!To, All
<1>1. Opened'
  BY <1>0 DEF LifeInv, Life!TypeOK, Opened, Life!End, Life!To, All
<1>2. \A t \in Life!Tasks :
        task'[t] = IF task[t].at = p THEN Life!Interrupted(t) ELSE task[t]
  BY DEF Life!End, Life!WorkOf
<1>3. \A t \in Life!Tasks : task[t].at = p =>
         task'[t].at = None /\ task'[t].state \notin {"request", "stored"}
  <2>1. \A t \in Life!Tasks :
          /\ Life!Interrupted(t).at = None
          /\ Life!Interrupted(t).state \in {"queued", "unscheduled", "lost"}
    BY DEF Life!Interrupted
  <2> QED
    BY <1>2, <2>1
<1>4. Placed'
  BY <1>0, <1>2, <1>3
  DEF LifeInv, Life!TypeOK, Placed, Life!End, Life!To, All, Life!TaskRows
<1>5. Unharmed'
  <2> SUFFICES ASSUME mishaps' = MaxMishaps PROVE Unharmed'
    BY DEF Unharmed
  <2>1. mishaps = MaxMishaps
    BY <1>0 DEF Life!TypeOK
  <2>2. \A t \in Life!Tasks : task[t].at = p =>
          t \in hungUp /\ signals < MaxSignals
    <3>1. TAKE t \in Life!Tasks
    <3>2. HAVE task[t].at = p
    <3>3. stops[p] > 0 /\ Life!Awaited(p) = {}
      <4>1. mishaps' = mishaps /\ phase[p] \in {"serving", "flushing"}
        BY <2>1, <3>2 DEF LifeInv, Placed, All
      <4> QED
        BY <4>1
    <3>4. t \in hungUp
      BY <3>2, <3>3 DEF Life!Awaited, Life!WorkOf
    <3>5. stops[p] \in Nat /\ signals \in Nat
          /\ stops[p] + signals <= MaxSignals
      BY DEF LifeInv, Life!TypeOK, Signalled, All
    <3> QED
      BY <3>3, <3>4, <3>5
  <2>3. signals \in Nat /\ signals' \in Nat /\ signals' <= signals
    BY <1>0 DEF Life!TypeOK
  <2>4. \A t \in Life!Tasks :
          task[t].state \in {"lost", "unscheduled"} \/ task[t].at = p
            => t \in hungUp' /\ signals' < MaxSignals
    BY <2>1, <2>2, <2>3 DEF LifeInv, Unharmed, Life!End
  <2>5. \A t \in Life!Tasks :
          task'[t].state \in {"lost", "unscheduled"}
            => t \in hungUp' /\ signals' < MaxSignals
    BY <1>2, <2>4
  <2> QED
    BY <1>0, <2>1, <2>5
    DEF LifeInv, Life!TypeOK, Unharmed, Life!End, Life!To, All
<1>6. Signalled'
  <2>1. signals \in Nat /\ signals' \in Nat /\ signals' <= signals
    BY <1>0 DEF Life!TypeOK
  <2>2. \A q \in All : /\ stops[q] \in Nat
                       /\ stops'[q] = IF q = p THEN 0 ELSE stops[q]
    BY <1>0 DEF Life!TypeOK, Life!End, All
  <2>3. \A q \in All : /\ stops[q] + signals <= MaxSignals
                       /\ phase'[q] = "flushing" => q # p /\ stops[q] > 0
    BY <1>0 DEF LifeInv, Signalled, Life!TypeOK, Life!End, Life!To, All
  <2>4. \A q \in All : stops'[q] + signals' <= MaxSignals
    BY <2>1, <2>2, <2>3
  <2>5. \A q \in All : phase'[q] = "flushing" => stops'[q] > 0
    BY <2>2, <2>3
  <2> QED
    BY <2>4, <2>5 DEF Signalled
<1> QED
  BY <1>0, <1>1, <1>4, <1>5, <1>6 DEF LifeInv

\* What a process does by itself, and the loss of its Redis connection: each
\* step opens before it relies, and drains before it closes.
LEMMA LifeProcStep ==
    ASSUME LifeInv, NEW p \in All, Life!ProcStep(p) \/ Life!Disconnect(p)
    PROVE  LifeInv'
<1> USE LifeConstants
    DEF LifeInv, Life!TypeOK, Life!LinkTypeOK, Life!Links, Life!Phases,
        Life!Connections, All
<1>1. CASE Life!Start(p)
  <2> USE <1>1 DEF Life!Start, Life!To
  <2>1. Life!TypeOK'
    OBVIOUS
  <2>2. Opened'
    BY DEF Opened
  <2>3. Placed'
    BY DEF Placed, Life!TaskRows
  <2>4. Unharmed'
    BY DEF Unharmed
  <2>5. Signalled'
    BY DEF Signalled
  <2> QED
    BY <2>1, <2>2, <2>3, <2>4, <2>5
<1>2. CASE Life!OpenDatabase(p)
  <2> USE <1>2 DEF Life!OpenDatabase, Life!To
  <2>1. Life!TypeOK'
    OBVIOUS
  <2>2. Opened'
    BY DEF Opened
  <2>3. Placed'
    BY DEF Placed, Life!TaskRows
  <2>4. Unharmed'
    BY DEF Unharmed
  <2>5. Signalled'
    BY DEF Signalled
  <2> QED
    BY <2>1, <2>2, <2>3, <2>4, <2>5
<1>3. CASE Life!ListPending(p)
  <2> USE <1>3 DEF Life!ListPending, Life!To, Life!HasPending
  <2>1. Life!TypeOK'
    OBVIOUS
  <2>2. Opened'
    BY DEF Opened
  <2>3. Placed'
    BY DEF Placed, Life!TaskRows
  <2>4. Unharmed'
    BY DEF Unharmed
  <2>5. Signalled'
    BY DEF Signalled
  <2> QED
    BY <2>1, <2>2, <2>3, <2>4, <2>5
<1>4. CASE Life!Migrate(p)
  <2> USE <1>4 DEF Life!Migrate, Life!To
  <2>1. Life!TypeOK'
    OBVIOUS
  <2>2. Opened'
    BY DEF Opened
  <2>3. Placed'
    BY DEF Placed, Life!TaskRows
  <2>4. Unharmed'
    BY DEF Unharmed
  <2>5. Signalled'
    BY DEF Signalled
  <2> QED
    BY <2>1, <2>2, <2>3, <2>4, <2>5
<1>5. CASE Life!InitializeRedis(p)
  <2> USE <1>5 DEF Life!InitializeRedis, Life!To, Life!Reboot,
               Life!BootLinks, Life!Mishap
  <2>1. Life!TypeOK'
    OBVIOUS
  <2>2. Opened'
    BY DEF Opened
  <2>3. Placed'
    BY DEF Placed, Life!TaskRows
  <2>4. Unharmed'
    BY DEF Unharmed
  <2>5. Signalled'
    BY DEF Signalled
  <2> QED
    BY <2>1, <2>2, <2>3, <2>4, <2>5
<1>6. CASE Life!ApiQueues(p)
  <2> USE <1>6 DEF Life!ApiQueues, Life!To, Life!InitializeBullMQ,
               Life!IsRedisReady
  <2>1. Life!TypeOK'
    OBVIOUS
  <2>2. Opened'
    BY DEF Opened
  <2>3. Placed'
    BY DEF Placed, Life!TaskRows
  <2>4. Unharmed'
    BY DEF Unharmed
  <2>5. Signalled'
    BY DEF Signalled
  <2> QED
    BY <2>1, <2>2, <2>3, <2>4, <2>5
<1>7. CASE p = Worker /\ Life!WorkerQueues
  <2> USE <1>7 DEF Life!WorkerQueues, Life!To, Life!InitializeBullMQ,
               Life!IsRedisReady
  <2>1. Life!TypeOK'
    OBVIOUS
  <2>2. Opened'
    BY DEF Opened
  <2>3. Placed'
    BY DEF Placed, Life!TaskRows
  <2>4. Unharmed'
    BY DEF Unharmed
  <2>5. Signalled'
    BY DEF Signalled
  <2> QED
    BY <2>1, <2>2, <2>3, <2>4, <2>5
<1>8. CASE Life!Listen(p)
  <2> USE <1>8 DEF Life!Listen, Life!To
  <2>1. Life!TypeOK'
    OBVIOUS
  <2>2. Opened'
    BY DEF Opened
  <2>3. Placed'
    BY DEF Placed, Life!TaskRows
  <2>4. Unharmed'
    BY DEF Unharmed
  <2>5. Signalled'
    BY DEF Signalled
  <2> QED
    BY <2>1, <2>2, <2>3, <2>4, <2>5
<1>9. CASE Life!CloseOne(p)
  <2> USE <1>9 DEF Life!CloseOne
  <2>1. Life!TypeOK'
    OBVIOUS
  <2>2. Opened'
    BY DEF Opened
  <2>3. Placed'
    BY DEF Placed, Life!TaskRows
  <2>4. Unharmed'
    BY DEF Unharmed
  <2>5. Signalled'
    BY DEF Signalled
  <2> QED
    BY <2>1, <2>2, <2>3, <2>4, <2>5
<1>10. CASE Life!Disconnect(p)
  <2> USE <1>10 DEF Life!Disconnect, Life!LoseLink, Life!Mishap
  <2>1. Life!TypeOK'
    OBVIOUS
  <2>2. Opened'
    BY DEF Opened
  <2>3. Placed'
    BY DEF Placed, Life!TaskRows
  <2>4. Unharmed'
    BY DEF Unharmed
  <2>5. Signalled'
    BY DEF Signalled
  <2> QED
    BY <2>1, <2>2, <2>3, <2>4, <2>5
<1>11. CASE \/ Life!MigrateFails(p) \/ Life!Exit(p)
            \/ p = Worker /\ Life!WorkerLeaves
  <2>1. CASE Life!MigrateFails(p)
    BY <1>11, <2>1, EndKeeps DEF Life!MigrateFails
  <2>2. CASE p = Worker /\ Life!WorkerLeaves
    BY <1>11, <2>2, EndKeeps DEF Life!WorkerLeaves
  <2>3. CASE Life!Exit(p)
    <3>1. phase[p] = "flushing" /\ stops[p] > 0
      BY <2>3 DEF Life!Exit, Signalled
    <3>2. Life!Awaited(p) = {}
      BY <3>1 DEF Placed, Life!Awaited, Life!WorkOf
    <3> QED
      BY <2>3, <3>1, <3>2, EndKeeps DEF Life!Exit
  <2> QED
    BY <1>11, <2>1, <2>2, <2>3
<1>12. CASE Life!StopsWaiting(p)
  <2>1. CASE Life!End(p)
    BY <1>12, <2>1, EndKeeps
    DEF Life!StopsWaiting, LifeInv, Life!TypeOK, Life!Drained
  <2>2. CASE ~Life!End(p)
    <3>1. Life!Awaited(p) = {} /\ stops[p] > 0
      BY <1>12 DEF Life!StopsWaiting, Life!Drained
    <3>2. /\ phase' = [phase EXCEPT ![p] = "flushing"]
          /\ UNCHANGED <<open, ready, stops, schema, task, hungUp, attached,
                         deaf, link, signals, mishaps>>
      BY <1>12, <2>2 DEF Life!StopsWaiting, Life!To
    <3>3. Life!TypeOK'
      BY <3>2
    <3>4. Opened'
      BY <3>2 DEF Opened
    <3>5. Placed'
      BY <3>1, <3>2 DEF Placed, Life!Awaited, Life!WorkOf
    <3>6. Unharmed' /\ Signalled'
      BY <3>1, <3>2 DEF Unharmed, Signalled
    <3> QED
      BY <3>3, <3>4, <3>5, <3>6 DEF LifeInv
  <2> QED
    BY <2>1, <2>2
<1> QED
  BY <1>1, <1>2, <1>3, <1>4, <1>5, <1>6, <1>7, <1>8, <1>9, <1>10, <1>11,
     <1>12
  DEF Life!ProcStep, Life!BootStep, Life!StopStep

\* Work moves on inside the process that holds it, which serves or closes
\* its connections under handlers nobody waits for.
LEMMA LifeTaskStep ==
    ASSUME LifeInv, NEW t \in Life!Tasks,
           Life!TaskStep(t) \/ \E p \in Procs : Life!Accept(p, t)
    PROVE  LifeInv'
<1> USE LifeConstants DEF Life!Move, Life!Elsewhere
<1> DEFINE Excused == t \in hungUp /\ signals < MaxSignals
           May(a) == a # None =>
                       \/ phase[a] = "serving"
                       \/ t \in hungUp /\ phase[a] = "flushing"
<1>1. PICK s \in {"request", "stored", "queued", "unscheduled", "run", "done",
                  "lost"},
           a \in All \cup {None} :
        /\ task' = [task EXCEPT ![t] = [state |-> s, at |-> a]]
        /\ hungUp' = IF s \in {"queued", "done"} THEN hungUp \ {t} ELSE hungUp
        /\ s \in {"request", "stored"} => a \in Procs
        /\ s \in {"queued", "done"} => a = None
        /\ May(a)
        /\ mishaps = MaxMishaps /\ s \in {"lost", "unscheduled"} => Excused
  <2>0. /\ task[t].at \in All \cup {None}
        /\ May(task[t].at)
        /\ task[t].state \in {"request", "stored"} => task[t].at \in Procs
    BY DEF LifeInv, Placed, Life!TypeOK, Life!TaskRows, All
  <2>6. ASSUME task[t].at # None, phase[task[t].at] # "serving" PROVE Excused
    <3>1. /\ stops[task[t].at] > 0 /\ stops[task[t].at] \in Nat
          /\ stops[task[t].at] + signals <= MaxSignals /\ signals \in Nat
      BY <2>0, <2>6 DEF LifeInv, Signalled, Life!TypeOK, All
    <3> QED
      BY <2>0, <2>6, <3>1
  <2>1. CASE \E p \in Procs : Life!Accept(p, t)
    BY <2>1 DEF Life!Accept, Life!Working, All
  <2>2. CASE Life!StoreGoal(t)
    BY <2>0, <2>2 DEF Life!StoreGoal
  <2>3. CASE Life!Schedule(t)
    <3>1. task[t].at \in Procs /\ task[t].at # None
      BY <2>0, <2>3 DEF Life!Schedule, All
    <3>2. ASSUME mishaps = MaxMishaps, phase[task[t].at] = "serving"
          PROVE  ready[task[t].at] /\ Life!Answers(task[t].at)
      BY <3>1, <3>2 DEF LifeInv, Unharmed, Life!Answers, All
    <3>3. mishaps = MaxMishaps
            => (ready[task[t].at] /\ Life!Answers(task[t].at)) \/ Excused
      BY <2>6, <3>1, <3>2
    <3> HIDE DEF Excused
    <3> QED
      BY <2>3, <3>3 DEF Life!Schedule
  <2>4. CASE Life!Remark(t) \/ Life!Finalize(t) \/ Life!RunBreaks(t)
    BY <2>4 DEF Life!Remark, Life!Finalize, Life!RunBreaks
  <2>5. CASE Life!Pick(t)
    BY <2>5 DEF Life!Pick, Life!Working, All
  <2>7. CASE Life!FindsItClosed(t)
    <3>1. task[t].at \in Procs /\ task[t].at # None
      BY <2>0, <2>7 DEF Life!FindsItClosed, All
    <3>2. phase[task[t].at] # "serving"
      BY <2>7, <3>1
      DEF LifeInv, Opened, Life!FindsItClosed, Life!HasDatabase, All
    <3>3. Excused
      BY <2>6, <3>1, <3>2
    <3> QED
      BY <2>7, <3>3 DEF Life!FindsItClosed
  <2> QED
    BY <2>1, <2>2, <2>3, <2>4, <2>5, <2>7 DEF Life!TaskStep
<1>2. /\ UNCHANGED <<phase, open, ready, stops, schema, signals, mishaps,
                     link, attached>>
      /\ deaf' \subseteq Clients
  BY DEF Life!TaskStep, Life!Accept, Life!StoreGoal, Life!Schedule,
         Life!FindsItClosed, Life!Remark, Life!Pick, Life!Finalize,
         Life!RunBreaks, Life!Emit, LifeInv, Life!TypeOK
<1>3. Life!TypeOK'
  <2>1. task' \in [Life!Tasks -> Life!TaskRows]
    BY <1>1 DEF LifeInv, Life!TypeOK, Life!TaskRows, All
  <2>2. hungUp' \subseteq Life!Tasks
    BY <1>1 DEF LifeInv, Life!TypeOK
  <2> QED
    BY <1>2, <2>1, <2>2 DEF LifeInv, Life!TypeOK, Life!LinkTypeOK
<1>4. Opened' /\ Signalled'
  BY <1>2 DEF LifeInv, Opened, Signalled
<1>5. \A u \in Life!Tasks :
        task'[u] = IF u = t THEN [state |-> s, at |-> a] ELSE task[u]
  BY <1>1 DEF LifeInv, Life!TypeOK
<1>6. Placed'
  BY <1>1, <1>2, <1>5 DEF LifeInv, Placed
<1>7. Unharmed'
  BY <1>1, <1>2, <1>5 DEF LifeInv, Unharmed
<1> QED
  BY <1>3, <1>4, <1>6, <1>7 DEF LifeInv

\* Every step of the processes, of their work and of the clients.
LEMMA LifeStepKeeps == LifeInv /\ [Life!Next]_F => LifeInv'
<1> SUFFICES ASSUME LifeInv, [Life!Next]_F PROVE LifeInv'
  OBVIOUS
<1>1. ASSUME NEW p \in All, Life!ProcStep(p) \/ Life!Disconnect(p)
      PROVE  LifeInv'
  BY <1>1, LifeProcStep
<1>2. ASSUME NEW p \in All, Life!BootFails(p) \/ Life!Kill(p)
      PROVE  LifeInv'
  BY <1>2, EndKeeps
  DEF Life!BootFails, Life!Kill, Life!Mishap, LifeInv, Life!TypeOK
<1>3. ASSUME NEW p \in All, Life!Signal(p)
      PROVE  LifeInv'
  <2>1. CASE phase[p] \in {"serving", "flushing"}
    <3>1. /\ stops' = [stops EXCEPT ![p] = @ + 1] /\ signals' = signals - 1
          /\ signals > 0
          /\ UNCHANGED <<phase, open, ready, schema, task, hungUp, attached,
                         deaf, link, mishaps>>
      BY <1>3, <2>1 DEF Life!Signal
    <3>2. Signalled' /\ Life!TypeOK'
      BY <3>1, LifeConstants
      DEF LifeInv, Signalled, Life!TypeOK, Life!LinkTypeOK, All
    <3>3. Opened' /\ Placed'
      BY <3>1 DEF LifeInv, Opened, Placed
    <3>4. signals \in Nat
      BY DEF LifeInv, Life!TypeOK
    <3>5. Unharmed'
      BY <3>1, <3>4, LifeConstants DEF LifeInv, Unharmed
    <3> QED
      BY <3>2, <3>3, <3>5 DEF LifeInv
  <2>2. CASE phase[p] \notin {"serving", "flushing"}
    BY <1>3, <2>2, EndKeeps DEF Life!Signal, LifeInv, Life!TypeOK
  <2> QED
    BY <2>1, <2>2
<1>4. ASSUME NEW t \in Life!Tasks,
             Life!TaskStep(t) \/ \E p \in Procs : Life!Accept(p, t)
      PROVE  LifeInv'
  BY <1>4, LifeTaskStep
<1>5. ASSUME NEW c \in Clients,
             Life!Leave(c) \/ \E p \in Procs : Life!Attach(c, p)
      PROVE  LifeInv'
  <2>1. /\ UNCHANGED <<phase, open, ready, stops, schema, signals, mishaps,
                       link, task, hungUp, deaf>>
        /\ attached' \in [Clients -> Procs \cup {None}]
    BY <1>5 DEF Life!Leave, Life!Attach, Life!Elsewhere, LifeInv, Life!TypeOK
  <2> QED
    BY <2>1 DEF LifeInv, Life!TypeOK, Life!LinkTypeOK, Opened, Placed,
       Unharmed, Signalled
<1>6. CASE UNCHANGED F
  BY <1>6 DEF F, LifeInv, Life!TypeOK, Life!LinkTypeOK, Opened, Placed,
     Unharmed, Signalled
<1>7. ASSUME NEW t \in Life!Tasks, Life!HangUp(t)
      PROVE  LifeInv'
  <2>1. /\ UNCHANGED <<phase, open, ready, stops, schema, signals, mishaps,
                       link, task, attached, deaf>>
        /\ hungUp' = hungUp \cup {t}
    BY <1>7 DEF Life!HangUp, Life!Elsewhere
  <2> QED
    BY <2>1 DEF LifeInv, Life!TypeOK, Life!LinkTypeOK, Opened, Placed,
       Unharmed, Signalled
<1> QED
  BY <1>1, <1>2, <1>3, <1>4, <1>5, <1>6, <1>7 DEF Life!Next, All

\* The invariant of the processes, in every reachable state with their turn.
THEOREM LifeHolds == Spec => [](turn = "life" => LifeInv)
<1>1. Init => (turn = "life" => LifeInv)
  BY LifeInit DEF Init
<1>2. (turn = "life" => LifeInv) /\ [Next]_vars
        => (turn = "life" => LifeInv)'
  <2> SUFFICES ASSUME turn = "life" => LifeInv, [Next]_vars, (turn = "life")'
               PROVE  LifeInv'
    BY DEF vars
  <2>1. turn = "life"
    BY TurnKept
  <2>2. [Life!Next]_F
    BY <2>1 DEF Next, LimiterStep, TrendingStep, RemindersStep, NoticesStep,
       LinksStep, ScoresStep, ListsStep, AgesStep, LifeStep, vars
  <2> QED
    BY <2>1, <2>2, LifeStepKeeps
<1> QED
  BY <1>1, <1>2, PTL DEF Spec

\* Work somebody waits for finds the connections it needs open, however
\* shutdown, signals, clients that hang up and failures interleave with it.
THEOREM WorkKeepsConnectionsHolds == Spec => []WorkKeepsConnections
<1>1. (turn = "life" => LifeInv) => WorkKeepsConnections
  <2> SUFFICES ASSUME LifeInv, NEW p \in All, Life!Awaited(p) # {}
               PROVE  Life!Needs(p) \subseteq open[p]
    BY DEF WorkKeepsConnections, Life!WorkKeepsConnections, All
  <2>1. phase[p] = "serving"
    BY LifeConstants DEF LifeInv, Placed, Life!Awaited, Life!WorkOf
  <2> QED
    BY <2>1 DEF LifeInv, Opened, Life!Needs
<1> QED
  BY <1>1, LifeHolds, PTL

\* Without a mishap only the requests of clients that hung up are cut off, or
\* leave their goal unscheduled, and only where a process was told to stop.
THEOREM OnlyMishapsLoseHolds == Spec => []OnlyMishapsLose
<1>1. (turn = "life" => LifeInv) => OnlyMishapsLose
  BY DEF LifeInv, Unharmed, OnlyMishapsLose, Life!OnlyMishapsLose
<1> QED
  BY <1>1, LifeHolds, PTL

-----------------------------------------------------------------------------
\* The types of all services.

\* A service always has the turn.
LEMMA SomeTurn == Spec => [](turn \in Turns)
<1>1. Init => turn \in Turns
  BY DEF Init
<1>2. turn \in Turns /\ [Next]_vars => (turn \in Turns)'
  BY TurnKept DEF Turns
<1> QED
  BY <1>1, <1>2, PTL DEF Spec

\* Every service keeps its types, and with them the references between its
\* rows that the types of the modules state.
THEOREM TypesOKHolds == Spec => []TypesOK
<1>1. (turn = "scores" => ScoresInv) => (turn = "scores" => Scores!TypeOK)
  BY DEF ScoresInv
<1>2. (turn = "lists" => ListsInv) => (turn = "lists" => Lists!TypeOK)
  BY DEF ListsInv
<1>3. (turn = "ages" => AgesInv) => (turn = "ages" => Ages!TypeOK)
  BY DEF AgesInv
<1>4. (turn = "life" => LifeInv) => (turn = "life" => Life!TypeOK)
  BY DEF LifeInv
<1>5. /\ turn \in Turns
      /\ turn = "limiter" => Limiter!TypeOK
      /\ turn = "trending" => Trending!TypeOK
      /\ turn = "reminders" => Reminders!TypeOK
      /\ turn = "notices" => Notices!TypeOK
      /\ turn = "links" => Links!TypeOK
      /\ turn = "scores" => Scores!TypeOK
      /\ turn = "lists" => Lists!TypeOK
      /\ turn = "ages" => Ages!TypeOK
      /\ turn = "life" => Life!TypeOK
      => TypesOK
  BY DEF Turns, TypesOK
<1> QED
  BY <1>1, <1>2, <1>3, <1>4, <1>5, SomeTurn, LimiterTypes, TrendingTypes,
     RemindersTypes, NoticesTypes, LinksTypes, ScoresHold, ListsHold,
     AgesHold, LifeHolds, PTL

=============================================================================
