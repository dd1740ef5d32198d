CONSTANTS
    Maps = {a1}
    Requests = {r1}
    Expiry = expiry
    Window = 1
    MaxNow = 3
    MaxReferrals = 3
    MaxRounds = 2
    Decisions = {"SHORTLISTED", "SELECTED", "REJECTED"}
    MaxCrashes = 0
    Serial = TRUE

SPECIFICATION Spec

INVARIANTS
    OneOpenReferral
    BackOnQ2Queue
    CompanyInboxAgrees

CHECK_DEADLOCK FALSE
