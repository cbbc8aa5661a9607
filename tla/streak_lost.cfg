SPECIFICATION FairSpec
CONSTANTS
    Goals = {g1}
    Requests = {s1, s2, c1}
    Submits = {}
    Rescores = {}
    Runs = {w1, w2}
    NoRun = NoRun
    NoGoal = NoGoal
    MaxTime = 5
    MaxDeadline = 2
    Grace = 2
    RequestLifetime = 2
    Attempts = 2
    MaxStalled = 1
    Budget <- OneDbFault
\* The clock is bounded and each request is used once: the system may stop.
CHECK_DEADLOCK FALSE
PROPERTIES
    SettlingUpdatesStreak
