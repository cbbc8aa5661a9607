SPECIFICATION Spec
CONSTANTS
    Goals = {g1}
    Requests = {s1, s2, c1}
    Submits = {s1, s2}
    Rescores = {c1}
    Runs = {w1, w2}
    NoRun = NoRun
    NoGoal = NoGoal
    MaxTime = 5
    MaxDeadline = 2
    Grace = 2
    RequestLifetime = 2
    Attempts = 2
    MaxStalled = 1
    Budget <- AnyOneFault
\* The clock is bounded and each request is used once: the system may stop.
CHECK_DEADLOCK FALSE
\* Sound: a safety run, no property names a request or a slot.
SYMMETRY Symmetry
INVARIANTS
    TypeOK
    OneProofPerGoal
    AchievedHasTimelyProof
    FailedHasNoTimelyProof
    NoticesTellTheVerdict
