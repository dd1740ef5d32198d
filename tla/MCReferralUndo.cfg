CONSTANTS
    Maps = {a1}
    Requests = {r1}
    Expiry = expiry
    Window = 1
    MaxNow = 2
    MaxReferrals = 1
    MaxRounds = 0
    Decisions = {"SHORTLISTED"}
    MaxCrashes = 0
    Serial = FALSE

SPECIFICATION Spec

PROPERTY ReopenedWindowRuns

CHECK_DEADLOCK FALSE
