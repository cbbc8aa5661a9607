SPECIFICATION Spec
CONSTANTS
    Registers = {r1}
    Logins = {l1}
    Refreshes = {f1, f2}
    Logouts = {o1}
    Forgots = {q1}
    Resets = {x1}
    Streaks = {s1}
    NoPassword = NoPassword
    NoReset = NoReset
    MaxTime = 1
    Lifetime = 1
    ResetLifetime = 1
\* The clock is bounded and each call is used once: the system may stop.
CHECK_DEADLOCK FALSE
\* Sound: no property names a call.
SYMMETRY Symmetry
INVARIANTS
    TypeOK
    SessionsAccounted
    PasswordKept
    ResetInv
    LinksInv
PROPERTIES
    RevokedForGood
