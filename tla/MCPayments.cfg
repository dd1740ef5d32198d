CONSTANTS
    Orders = {o1, o2}
    Users = {u1}
    Requests = {r1, r2}
    Nobody = nobody
    Months = 1
    MaxNow = 1
    Horizon = 2
    MaxCrashes = 1

SPECIFICATION Spec

INVARIANTS
    TypeOK
    OneSubscriptionPerOrder
    SuccessIsGranted
    AckedCaptureIsGranted

PROPERTIES
    ImplementsLedger
    CapturedIsGranted

CHECK_DEADLOCK FALSE
