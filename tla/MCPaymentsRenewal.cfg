CONSTANTS
    Orders = {o1, o2}
    Users = {u1}
    Requests = {r1, r2}
    Nobody = nobody
    Months = 1
    MaxNow = 0
    Horizon = 2
    MaxCrashes = 0

SPECIFICATION Spec

INVARIANT PaidTimeIsKept

CHECK_DEADLOCK FALSE
