CONSTANTS
    Requests = {r1}
    Handlers = {"edit", "availability", "confirm", "reschedule", "checklist", "conducted", "decide", "mail",
                "offer", "result", "undo"}
    MaxRounds = 2
    MaxSlots = 2
    MaxNow = 2
    MaxReleases = 1
    Restarts = FALSE

SPECIFICATION Spec

INVARIANTS
    ScheduledSlotAgrees
    StageAgrees
    MailTellsDecision
    PortalAgrees

CHECK_DEADLOCK FALSE
