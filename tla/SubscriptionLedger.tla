------------------------- MODULE SubscriptionLedger -------------------------
(***************************************************************************)
(* What the payments service promises, without requests, webhooks or       *)
(* transactions: the gateway captures money for an order, and an order it  *)
(* captured buys exactly one subscription period. Payments.tla implements  *)
(* it.                                                                     *)
(***************************************************************************)
EXTENDS Naturals

CONSTANTS
    Orders,    \* payment orders
    Users,     \* subscribers
    Horizon,   \* the latest start of a period
    Months     \* length of the plan

VARIABLES
    paid,      \* what the gateway captured for each order
    subs       \* subscription periods

vars == <<paid, subs>>

Init ==
    /\ paid = [o \in Orders |-> "no"]
    /\ subs = {}

Granted(o) == \E s \in subs : s.order = o

\* "mismatch": the captured amount is not the amount of the order.
Capture(o) ==
    /\ paid[o] = "no"
    /\ \E p \in {"captured", "mismatch"} : paid' = [paid EXCEPT ![o] = p]
    /\ UNCHANGED subs

\* One period for one captured order, once.
Grant(o) ==
    /\ paid[o] # "no"
    /\ ~Granted(o)
    /\ \E u \in Users, start \in 0 .. Horizon :
           subs' = subs \union {[order |-> o, user |-> u, start |-> start, end |-> start + Months]}
    /\ UNCHANGED paid

Next == \E o \in Orders : Capture(o) \/ Grant(o)

Spec == Init /\ [][Next]_vars

\* Money captured in full buys its period sooner or later.
CapturedIsGranted == \A o \in Orders : (paid[o] = "captured") ~> Granted(o)
=============================================================================
