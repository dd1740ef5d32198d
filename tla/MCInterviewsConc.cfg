CONSTANTS
    Requests = {r1, r2}
    Handlers = {"edit", "confirm", "conducted", "decide", "reschedule"}
    MaxRounds = 2
    MaxSlots = 2
    MaxNow = 1
    MaxReleases = 1
    Restarts = TRUE

SPECIFICATION Spec

INVARIANTS
    TypeOK
    InvitesOncePerSchedule

PROPERTIES
    ImplementsLadder

SYMMETRY RequestSymmetry
CHECK_DEADLOCK FALSE
