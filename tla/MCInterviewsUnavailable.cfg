CONSTANTS
    Requests = {r1, r2}
    Handlers = {"edit", "availability", "confirm"}
    MaxRounds = 1
    MaxSlots = 1
    MaxNow = 1
    MaxReleases = 0
    Restarts = FALSE

SPECIFICATION Spec

PROPERTY UnavailableIsNotConfirmed

CHECK_DEADLOCK FALSE
