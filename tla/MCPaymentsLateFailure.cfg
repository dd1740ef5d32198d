CONSTANTS
    Orders = {o1}
    Users = {u1}
    Requests = {r1, r2}
    Nobody = nobody
    Months = 1
    MaxNow = 0
    Horizon = 2
    MaxCrashes = 0

SPECIFICATION Spec

PROPERTY PaidStaysPaid

CHECK_DEADLOCK FALSE
