CONSTANTS
    Maps = {a1}
    Requests = {r1}
    Expiry = expiry
    Window = 1
    MaxNow = 2
    MaxReferrals = 1
    MaxRounds = 1
    Decisions = {"SHORTLISTED", "SELECTED", "REJECTED"}
    MaxCrashes = 1
    Serial = FALSE

SPECIFICATION Spec

PROPERTIES
    UnansweredComesBack

CHECK_DEADLOCK FALSE
