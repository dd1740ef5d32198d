CONSTANTS
    Maps = {a1}
    Requests = {r1, r2}
    Expiry = expiry
    Window = 1
    MaxNow = 2
    MaxReferrals = 1
    MaxRounds = 1
    Decisions = {"SHORTLISTED"}
    MaxCrashes = 0
    Serial = FALSE

SPECIFICATION Spec

INVARIANTS
    TypeOK
    Q3DecidesOnce
    ExpiredAfterFullWindow
    ClockRunsWhileAwaiting

PROPERTIES
    AnsweredIsNotExpired

SYMMETRY RequestSymmetry
CHECK_DEADLOCK FALSE
