SPECIFICATION Spec
CONSTANTS
    Procs = {p1, p2}
    Worker = worker
    None = None
    Requests = {c1, c2, c3}
    MaxRequests = 1
    WindowSeconds = 2
    MaxCount = 3
    Fills = {c1, c2}
    Writers = {c3}
    Ttl = 2
    FillTime = 1
    MaxVersion = 1
    Runs = {c1, c2}
    Lead <- LeadTimes
    Attempts = 2
    MaxStalled = 1
    Grace = 1
    RunTime = 1
    MaxDeadline = 3
    MaxFaults = 1
    NoticeCalls = {c1, c2, c3}
    Types = {"GOAL_FAILED"}
    LinkCalls = {c1, c2, c3, c4}
    ScoreCalls = {c1, c2, c3}
    Foreign = Foreign
    ListRows = {c1, c2, c3}
    MaxKey = 2
    AskedPages <- FirstPages
    AskedLimits = {0, 4}
    MaxLimit = 2
    MaxEntries = 1
    Lifetime = 3
    MaxActivity = 14
    MaxGoals = 2
    Goals = {c1}
    Remarks = {c4}
    Clients = {}
    MaxSignals = 2
    MaxTime = 4
    MaxMishaps = 1
    MaxErrors = 1
SYMMETRY Symmetry
\* Calls are made once and lists read once: most services come to an end.
CHECK_DEADLOCK FALSE
INVARIANTS
    TypesOK
    BurstBound
    AnswersAreRecent
    StaleHasReason
    SkipsNeedAFault
    RepeatsNeedFaults
    NeverRemindsOfFailed
    ChoiceKept
    DeliveredAsChosen
    FailsOnlyAtFirst
    AnswersAreTrue
    UntoldNeedsFailure
    ScoreIsCurrent
    MissedHasReason
    
    WorkKeepsConnections
    OnlyMishapsLose
PROPERTIES
    RemovalSparesNewer
