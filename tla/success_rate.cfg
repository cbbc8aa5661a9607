SPECIFICATION Spec
CONSTANTS
    Lifetime = 3
    MaxTime = 4
    MaxCount = 1
    MaxGoals = 2
\* The clock and the counts are bounded.
CHECK_DEADLOCK FALSE
INVARIANTS
    RateIsShare
