SPECIFICATION FairSpec
CONSTANTS
    c1 = c1
    c2 = c2
    p1 = p1
    p2 = p2
    worker = worker
    None = None
\* The clock of the reminders is bounded.
CHECK_DEADLOCK FALSE
PROPERTIES
    BlockedIsFreed
    Converges
    QueuedReminderEnds
    ComesUp
    QueuedRuns
    StopsUnlessAttached
