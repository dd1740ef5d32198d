------------------------------ MODULE Payments ------------------------------
(***************************************************************************)
(* The Razorpay flow of modules/payments/payments.service.ts: an order is  *)
(* created, paid at the gateway, and settled by the browser's verify call  *)
(* and by the gateway's webhooks, whichever comes first.                   *)
(*                                                                         *)
(* A request is a row of `req`: each step is one awaited call. The settle  *)
(* transaction locks the order row, reads the newest period and inserts    *)
(* its own; its writes show when it commits and vanish when it aborts.     *)
(***************************************************************************)
EXTENDS Naturals

CONSTANTS
    Orders,      \* payment orders a run may create
    Users,       \* subscribers
    Requests,    \* concurrent HTTP requests
    Nobody,      \* no request holds the row lock; no order
    Months,      \* length of the plan, in ticks of the clock
    MaxNow,      \* bound on the clock
    Horizon,     \* bound on the start of a period
    MaxCrashes   \* bound on process restarts

ASSUME PaymentsAssumption ==
    /\ Nobody \notin Requests \union Orders
    /\ Months \in Nat \ {0}
    /\ MaxNow \in Nat
    /\ Horizon \in Nat
    /\ MaxCrashes \in Nat

VARIABLES
    order,    \* tblPaymentOrder rows
    subs,     \* tblSubscription rows
    paid,     \* gateway: what was captured for an order
    events,   \* gateway: webhooks sent at least once, in no order
    acked,    \* gateway: webhooks answered with success
    lock,     \* which request's transaction holds the order row
    req,      \* what each request is executing
    now,      \* the clock
    crashes   \* restarts so far

vars == <<order, subs, paid, events, acked, lock, req, now, crashes>>
gateway == <<paid, events, acked>>

Event == [kind : {"captured", "failed"}, order : Orders]
Verify == "verify"       \* the other caller of the settle transaction
Row == [status : {"None", "CREATED", "PENDING", "SUCCESS", "FAILED"}, user : Users]
Period == [order : Orders, user : Users, start : 0 .. Horizon, end : Nat]
Resting == [pc |-> "idle", order |-> Nobody, from |-> "create", start |-> 0]
Request ==
    {Resting} \union
    [pc : {"gateway", "link", "settle", "current", "insert", "fail"},
     order : Orders,
     from : {"create", "verify", "captured", "failed"},
     start : 0 .. Horizon]

\* Before its creation a row's user means nothing.
Init ==
    /\ \E u \in Users : order = [o \in Orders |-> [status |-> "None", user |-> u]]
    /\ subs = {}
    /\ paid = [o \in Orders |-> "no"]
    /\ events = {}
    /\ acked = {}
    /\ lock = [o \in Orders |-> Nobody]
    /\ req = [r \in Requests |-> Resting]
    /\ now = 0
    /\ crashes = 0

Idle(r) == req[r].pc = "idle"
Begin(r, o, from, pc) == req' = [req EXCEPT ![r] = [pc |-> pc, order |-> o, from |-> from, start |-> 0]]
Goto(r, pc) == req' = [req EXCEPT ![r].pc = pc]
Stop(r) == req' = [req EXCEPT ![r] = Resting]
\* Mutant of Return: deliveries are remembered by order, so one answers them all.
ReturnForOrder(r) ==
    /\ Stop(r)
    /\ acked' = IF req[r].from \in {"captured", "failed"}
                THEN acked \union [kind : {"captured", "failed"}, order : {req[r].order}] ELSE acked

\* A webhook that returns, whatever it did, answers 200; a throw does not.
Return(r) ==
    /\ Stop(r)
    /\ acked' = IF req[r].from \in {"captured", "failed"}
                THEN acked \union {[kind |-> req[r].from, order |-> req[r].order]} ELSE acked

Granted(o) == \E s \in subs : s.order = o
SetStatus(o, s) == order' = [order EXCEPT ![o].status = s]
\* The gateway knows the order from the create call on, we know its id from the link on.
Linked(o) == order[o].status \notin {"None", "CREATED"}

-----------------------------------------------------------------------------
(* createRazorpayOrder: insert CREATED, call the gateway, store its id.    *)

CreateOrder(r, u, o) ==
    /\ Idle(r)
    /\ order[o].status = "None"
    /\ order' = [order EXCEPT ![o] = [status |-> "CREATED", user |-> u]]
    /\ Begin(r, o, "create", "gateway")
    /\ UNCHANGED <<subs, gateway, lock, now, crashes>>

\* The call to the gateway fails: the row stays CREATED.
GatewayRefuses(r) ==
    /\ req[r].pc = "gateway"
    /\ Stop(r)
    /\ UNCHANGED <<order, subs, gateway, lock, now, crashes>>

GatewayAccepts(r) ==
    /\ req[r].pc = "gateway"
    /\ Goto(r, "link")
    /\ UNCHANGED <<order, subs, gateway, lock, now, crashes>>

LinkOrder(r) ==
    /\ req[r].pc = "link"
    /\ SetStatus(req[r].order, "PENDING")
    /\ Stop(r)
    /\ UNCHANGED <<subs, gateway, lock, now, crashes>>

-----------------------------------------------------------------------------
(* The gateway: attempts fail until one is captured; both raise a webhook. *)

AttemptFails(o) ==
    /\ Linked(o)
    /\ paid[o] = "no"
    /\ events' = events \union {[kind |-> "failed", order |-> o]}
    /\ UNCHANGED <<order, subs, paid, acked, lock, req, now, crashes>>

Capture(o) ==
    /\ Linked(o)
    /\ paid[o] = "no"
    /\ \E p \in {"captured", "mismatch"} : paid' = [paid EXCEPT ![o] = p]
    /\ events' = events \union {[kind |-> "captured", order |-> o]}
    /\ UNCHANGED <<order, subs, acked, lock, req, now, crashes>>

-----------------------------------------------------------------------------
(* Settling.                                                               *)

\* Mutant of VerifyPayment: the checkout signature is not checked.
VerifyUnsigned(r, o) ==
    /\ Idle(r)
    /\ Linked(o)
    /\ IF Granted(o) THEN UNCHANGED req ELSE Begin(r, o, Verify, "settle")
    /\ UNCHANGED <<order, subs, gateway, lock, now, crashes>>

\* verifyRazorpayPayment: only a captured payment has a signature. No amount is compared.
VerifyPayment(r, o) ==
    /\ Idle(r)
    /\ paid[o] # "no"
    /\ IF Granted(o) THEN UNCHANGED req ELSE Begin(r, o, Verify, "settle")
    /\ UNCHANGED <<order, subs, gateway, lock, now, crashes>>

Webhook(r, e) == Idle(r) /\ e \in events

\* Mutant of WebhookCaptured: an order that is not PENDING counts as settled.
WebhookCapturedIfPending(r, e) ==
    /\ Webhook(r, e)
    /\ e.kind = "captured"
    /\ IF order[e.order].status # "PENDING" \/ paid[e.order] = "mismatch"
       THEN acked' = acked \union {e} /\ UNCHANGED req
       ELSE Begin(r, e.order, e.kind, "settle") /\ UNCHANGED acked
    /\ UNCHANGED <<order, subs, paid, events, lock, now, crashes>>

\* Mutant of WebhookCaptured: the webhook is answered first and settled afterwards.
WebhookCapturedAckFirst(r, e) ==
    /\ Webhook(r, e)
    /\ e.kind = "captured"
    /\ acked' = acked \union {e}
    /\ IF Granted(e.order) \/ paid[e.order] = "mismatch"
       THEN UNCHANGED req
       ELSE Begin(r, e.order, e.kind, "settle")
    /\ UNCHANGED <<order, subs, paid, events, lock, now, crashes>>

\* payment.captured: a granted order and an amount that does not match are answered at once.
WebhookCaptured(r, e) ==
    /\ Webhook(r, e)
    /\ e.kind = "captured"
    /\ IF Granted(e.order) \/ paid[e.order] = "mismatch"
       THEN acked' = acked \union {e} /\ UNCHANGED req
       ELSE Begin(r, e.order, e.kind, "settle") /\ UNCHANGED acked
    /\ UNCHANGED <<order, subs, paid, events, lock, now, crashes>>

\* payment.failed: ignored once the order is settled, as read now.
WebhookFailed(r, e) ==
    /\ Webhook(r, e)
    /\ e.kind = "failed"
    /\ IF Granted(e.order) \/ order[e.order].status = "SUCCESS"
       THEN acked' = acked \union {e} /\ UNCHANGED req
       ELSE Begin(r, e.order, e.kind, "fail") /\ UNCHANGED acked
    /\ UNCHANGED <<order, subs, paid, events, lock, now, crashes>>

\* The update by primary key that follows; it waits for the row lock.
MarkFailed(r) ==
    /\ req[r].pc = "fail"
    /\ lock[req[r].order] = Nobody
    /\ SetStatus(req[r].order, "FAILED")
    /\ Return(r)
    /\ UNCHANGED <<subs, paid, events, lock, now, crashes>>

\* Mutant of LockOrder: the status is written ahead of the transaction.
LockOrderCommitted(r) ==
    /\ req[r].pc = "settle"
    /\ lock[req[r].order] = Nobody
    /\ lock' = [lock EXCEPT ![req[r].order] = r]
    /\ SetStatus(req[r].order, "SUCCESS")
    /\ Goto(r, "current")
    /\ UNCHANGED <<subs, gateway, now, crashes>>

\* The transaction's first statement updates the order: it locks the row, and the
\* new status is seen by nobody before the commit.
LockOrder(r) ==
    /\ req[r].pc = "settle"
    /\ lock[req[r].order] = Nobody
    /\ lock' = [lock EXCEPT ![req[r].order] = r]
    /\ Goto(r, "current")
    /\ UNCHANGED <<order, subs, gateway, now, crashes>>

\* A renewal starts where the newest unexpired period of the subscriber ends.
Current(u) == {s \in subs : s.user = u /\ s.end > now}
Newest(u, s) == s \in Current(u) /\ \A t \in Current(u) : t.end <= s.end

ReadCurrent(r) ==
    LET u == order[req[r].order].user IN
    /\ req[r].pc = "current"
    /\ \E start \in 0 .. Horizon :
           /\ IF Current(u) = {} THEN start = now ELSE \E s \in Current(u) : Newest(u, s) /\ start = s.end
           /\ req' = [req EXCEPT ![r].pc = "insert", ![r].start = start]
    /\ UNCHANGED <<order, subs, gateway, lock, now, crashes>>

\* Mutant of Insert: Subscription.orderID is not unique.
InsertAgain(r) ==
    LET o == req[r].order
        start == req[r].start
    IN  /\ req[r].pc = "insert"
        /\ lock' = [lock EXCEPT ![o] = Nobody]
        /\ subs' = subs \union {[order |-> o, user |-> order[o].user, start |-> start, end |-> start + Months]}
        /\ SetStatus(o, "SUCCESS")
        /\ Return(r)
        /\ UNCHANGED <<paid, events, now, crashes>>

\* The insert meets the unique index on orderID: either the transaction commits with
\* both writes, or it aborts, the call throws and nothing is answered.
Insert(r) ==
    LET o == req[r].order
        start == req[r].start
    IN  /\ req[r].pc = "insert"
        /\ lock' = [lock EXCEPT ![o] = Nobody]
        /\ IF Granted(o)
           THEN Stop(r) /\ UNCHANGED <<order, subs, acked>>
           ELSE /\ subs' = subs \union
                           {[order |-> o, user |-> order[o].user, start |-> start, end |-> start + Months]}
                /\ SetStatus(o, "SUCCESS")
                /\ Return(r)
        /\ UNCHANGED <<paid, events, now, crashes>>

Step(r) ==
    \/ GatewayRefuses(r) \/ GatewayAccepts(r) \/ LinkOrder(r)
    \/ MarkFailed(r) \/ LockOrder(r) \/ ReadCurrent(r) \/ Insert(r)

Deliver(r, e) == WebhookCaptured(r, e) \/ WebhookFailed(r, e)

Start(r) ==
    \/ \E u \in Users, o \in Orders : CreateOrder(r, u, o)
    \/ \E o \in Orders : VerifyPayment(r, o)
    \/ \E e \in events : Deliver(r, e)

-----------------------------------------------------------------------------
Tick ==
    /\ now < MaxNow
    /\ now' = now + 1
    /\ UNCHANGED <<order, subs, gateway, lock, req, crashes>>

\* The API restarts: open transactions roll back, their locks go.
Restart ==
    /\ crashes < MaxCrashes
    /\ \E r \in Requests : ~Idle(r)
    /\ crashes' = crashes + 1
    /\ req' = [r \in Requests |-> Resting]
    /\ lock' = [o \in Orders |-> Nobody]
    /\ UNCHANGED <<order, subs, gateway, now>>

Next ==
    \/ \E r \in Requests : Start(r) \/ Step(r)
    \/ \E o \in Orders : AttemptFails(o) \/ Capture(o)
    \/ Tick \/ Restart

\* Handlers run on; the gateway sends a capture again until it is answered.
Retry(o) ==
    LET e == [kind |-> "captured", order |-> o]
    IN  e \notin acked /\ \E r \in Requests : WebhookCaptured(r, e)
Fairness ==
    /\ \A r \in Requests : WF_vars(Step(r))
    /\ \A o \in Orders : SF_vars(Retry(o))

Spec == Init /\ [][Next]_vars /\ Fairness

-----------------------------------------------------------------------------
TypeOK ==
    /\ order \in [Orders -> Row]
    /\ subs \subseteq Period
    /\ paid \in [Orders -> {"no", "captured", "mismatch"}]
    /\ events \subseteq Event
    /\ acked \subseteq events
    /\ lock \in [Orders -> Requests \union {Nobody}]
    /\ req \in [Requests -> Request]
    /\ now \in 0 .. MaxNow
    /\ crashes \in 0 .. MaxCrashes

\* "The unique constraint on Subscription.orderID": verify calls, webhooks and their
\* retries racing on one order never buy two periods with one payment.
OneSubscriptionPerOrder == \A s, t \in subs : s.order = t.order => s = t

\* An order shown as paid has its subscription: status and period appear together.
SuccessIsGranted == \A o \in Orders : order[o].status = "SUCCESS" => Granted(o)

\* The gateway is told to stop retrying a full capture only when the period exists.
AckedCaptureIsGranted ==
    \A e \in acked : (e.kind = "captured" /\ paid[e.order] = "captured") => Granted(e.order)

Ledger == INSTANCE SubscriptionLedger
\* Every step of the service is a step of the ledger or none of its business.
ImplementsLedger == Ledger!Spec

\* Money captured in full buys its period although calls fail, race and restart.
CapturedIsGranted == Ledger!CapturedIsGranted

\* "It must not turn a paid order (whose subscription is already granted) back into
\* FAILED": the guard is read before the update, and a capture may settle in between.
PaidStaysPaid ==
    [][\A o \in Orders : order[o].status = "SUCCESS" => order'[o].status # "FAILED"]_vars

\* "A user who renews early does not lose the time they already paid for": the periods
\* of one subscriber do not overlap.
PaidTimeIsKept ==
    \A s, t \in subs : (s.user = t.user /\ s # t) => (s.end <= t.start \/ t.end <= s.start)
=============================================================================
