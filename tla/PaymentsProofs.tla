--------------------------- MODULE PaymentsProofs ---------------------------
(***************************************************************************)
(* Theorems about Payments.tla for any number of orders, subscribers and   *)
(* concurrent requests. One inductive invariant, Inv, carries them all.    *)
(***************************************************************************)
EXTENDS Payments, TLAPS

\* A request that settles does so for money the gateway has captured, only a
\* payment.failed webhook is on its way to mark an order failed, and the webhooks
\* being handled were sent.
Settling == {"settle", "current", "insert"}
HandlersAgree ==
    \A r \in Requests :
        /\ req[r].pc \in Settling => paid[req[r].order] # "no"
        /\ req[r].pc = "fail" => req[r].from = "failed"
        /\ req[r].from \in {"captured", "failed"} =>
               [kind |-> req[r].from, order |-> req[r].order] \in events

\* The gateway announces a capture only after it made one.
EventsAgree == \A e \in events : e.kind = "captured" => paid[e.order] # "no"

Inv == TypeOK /\ HandlersAgree /\ EventsAgree

LEMMA InitInv == Init => Inv
<1> SUFFICES ASSUME Init PROVE Inv
    OBVIOUS
<1>1. TypeOK
  <2>1. order \in [Orders -> Row]
      BY DEF Init, Row
  <2>2. req \in [Requests -> Request]
      BY DEF Init, Request
  <2> QED
      BY <2>1, <2>2, PaymentsAssumption DEF Init, TypeOK
<1>2. HandlersAgree /\ EventsAgree
    BY DEF Init, HandlersAgree, EventsAgree, Resting, Settling
<1> QED
    BY <1>1, <1>2 DEF Inv

\* What the two ways of ending a request leave behind.
LEMMA StopType ==
    ASSUME TypeOK, NEW r \in Requests, Stop(r)
    PROVE  /\ req' \in [Requests -> Request]
           /\ req'[r] = Resting
           /\ \A q \in Requests : q # r => req'[q] = req[q]
BY DEF TypeOK, Stop, Request

\* Moving a busy request to another of its statements keeps its type.
LEMMA GotoType ==
    ASSUME TypeOK, NEW r \in Requests,
           NEW pc \in {"gateway", "link", "settle", "current", "insert", "fail"},
           req[r].pc # "idle", Goto(r, pc)
    PROVE  /\ req' \in [Requests -> Request]
           /\ req'[r] = [req[r] EXCEPT !.pc = pc]
           /\ \A q \in Requests : q # r => req'[q] = req[q]
<1>1. req[r] \in [pc : {"gateway", "link", "settle", "current", "insert", "fail"}, order : Orders,
                  from : {"create", "verify", "captured", "failed"}, start : 0 .. Horizon]
    BY DEF TypeOK, Request, Resting
<1>2. [req[r] EXCEPT !.pc = pc] \in Request
    BY <1>1 DEF Request
<1> QED
    BY <1>2 DEF TypeOK, Goto

LEMMA BeginType ==
    ASSUME TypeOK, NEW r \in Requests, NEW o \in Orders,
           NEW from \in {"create", "verify", "captured", "failed"},
           NEW pc \in {"gateway", "link", "settle", "current", "insert", "fail"},
           Begin(r, o, from, pc)
    PROVE  /\ req' \in [Requests -> Request]
           /\ req'[r] = [pc |-> pc, order |-> o, from |-> from, start |-> 0]
           /\ \A q \in Requests : q # r => req'[q] = req[q]
<1>1. 0 \in 0 .. Horizon
    BY PaymentsAssumption
<1> QED
    BY <1>1 DEF TypeOK, Begin, Request

\* The fields of a request that is not idle.
LEMMA BusyType ==
    ASSUME TypeOK, NEW r \in Requests, req[r].pc # "idle"
    PROVE  /\ req[r].order \in Orders
           /\ req[r].from \in {"create", "verify", "captured", "failed"}
           /\ req[r].start \in 0 .. Horizon
BY DEF TypeOK, Request, Resting

-----------------------------------------------------------------------------
\* Steps that start, end or move requests and change neither periods nor payments.
LEMMA CreatingKeepsInv ==
    ASSUME Inv, NEW r \in Requests,
           \/ \E u \in Users, o \in Orders : CreateOrder(r, u, o)
           \/ GatewayRefuses(r) \/ GatewayAccepts(r) \/ LinkOrder(r)
    PROVE  Inv'
<1> USE DEF Inv
<1>1. CASE \E u \in Users, o \in Orders : CreateOrder(r, u, o)
  <2> PICK u \in Users, o \in Orders : CreateOrder(r, u, o)
      BY <1>1
  <2>1. /\ req' \in [Requests -> Request]
        /\ req'[r] = [pc |-> "gateway", order |-> o, from |-> "create", start |-> 0]
        /\ \A q \in Requests : q # r => req'[q] = req[q]
      BY BeginType DEF CreateOrder
  <2>2. order' \in [Orders -> Row]
      BY DEF CreateOrder, TypeOK, Row
  <2>3. TypeOK'
      BY <2>1, <2>2 DEF CreateOrder, TypeOK, gateway
  <2>4. HandlersAgree' /\ EventsAgree'
      BY <2>1 DEF CreateOrder, gateway, HandlersAgree, EventsAgree, Settling
  <2> QED
      BY <2>3, <2>4
<1>2. CASE GatewayRefuses(r)
  <2>1. /\ req' \in [Requests -> Request]
        /\ req'[r] = Resting
        /\ \A q \in Requests : q # r => req'[q] = req[q]
      BY <1>2, StopType DEF GatewayRefuses
  <2>2. TypeOK'
      BY <1>2, <2>1 DEF GatewayRefuses, TypeOK, gateway
  <2>3. HandlersAgree' /\ EventsAgree'
      BY <1>2, <2>1 DEF GatewayRefuses, gateway, HandlersAgree, EventsAgree, Settling, Resting
  <2> QED
      BY <2>2, <2>3
<1>3. CASE GatewayAccepts(r)
  <2>1. /\ req' \in [Requests -> Request]
        /\ req'[r] = [req[r] EXCEPT !.pc = "link"]
        /\ \A q \in Requests : q # r => req'[q] = req[q]
      BY <1>3, GotoType DEF GatewayAccepts
  <2>2. TypeOK'
      BY <1>3, <2>1 DEF GatewayAccepts, TypeOK, gateway
  <2>3. req'[r].pc = "link" /\ req'[r].order = req[r].order /\ req'[r].from = req[r].from
      BY <1>3, <2>1 DEF GatewayAccepts, TypeOK, Request, Resting
  <2>4. HandlersAgree' /\ EventsAgree'
      BY <1>3, <2>1, <2>3 DEF GatewayAccepts, gateway, HandlersAgree, EventsAgree, Settling
  <2> QED
      BY <2>2, <2>4
<1>4. CASE LinkOrder(r)
  <2>1. /\ req' \in [Requests -> Request]
        /\ req'[r] = Resting
        /\ \A q \in Requests : q # r => req'[q] = req[q]
      BY <1>4, StopType DEF LinkOrder
  <2>2. order' \in [Orders -> Row]
      BY <1>4 DEF LinkOrder, SetStatus, TypeOK, Row
  <2>3. TypeOK'
      BY <1>4, <2>1, <2>2 DEF LinkOrder, TypeOK, gateway
  <2>4. HandlersAgree' /\ EventsAgree'
      BY <1>4, <2>1 DEF LinkOrder, gateway, HandlersAgree, EventsAgree, Settling, Resting
  <2> QED
      BY <2>3, <2>4
<1> QED
    BY <1>1, <1>2, <1>3, <1>4

\* The gateway captures once, and what it captured stays captured.
LEMMA GatewayKeepsInv ==
    ASSUME Inv, NEW o \in Orders, AttemptFails(o) \/ Capture(o)
    PROVE  Inv'
<1> USE DEF Inv
<1>1. CASE AttemptFails(o)
  <2>1. events' \subseteq Event
      BY <1>1 DEF AttemptFails, TypeOK, Event
  <2>2. TypeOK'
      BY <1>1, <2>1 DEF AttemptFails, TypeOK
  <2> QED
      BY <1>1, <2>2 DEF AttemptFails, HandlersAgree, EventsAgree
<1>2. CASE Capture(o)
  <2>1. events' \subseteq Event
      BY <1>2 DEF Capture, TypeOK, Event
  <2>2. /\ paid' \in [Orders -> {"no", "captured", "mismatch"}]
        /\ paid'[o] # "no"
        /\ \A q \in Orders : paid[q] # "no" => paid'[q] # "no"
      BY <1>2 DEF Capture, TypeOK
  <2>3. TypeOK'
      BY <1>2, <2>1, <2>2 DEF Capture, TypeOK
  <2>4. HandlersAgree'
    <3> SUFFICES ASSUME NEW r \in Requests
                 PROVE  req[r].pc \in Settling => paid'[req[r].order] # "no"
        BY <1>2 DEF Capture, HandlersAgree
    <3>1. req[r].pc \in Settling => req[r].order \in Orders
        BY BusyType DEF Settling
    <3> QED
        BY <2>2, <3>1 DEF HandlersAgree
  <2>5. EventsAgree'
    <3> SUFFICES ASSUME NEW e \in events', e.kind = "captured" PROVE paid'[e.order] # "no"
        BY DEF EventsAgree
    <3>1. e \in events \/ e.order = o
        BY <1>2 DEF Capture
    <3>2. e.order \in Orders
        BY <2>1 DEF Event
    <3> QED
        BY <2>2, <3>1, <3>2 DEF EventsAgree
  <2> QED
      BY <2>3, <2>4, <2>5
<1> QED
    BY <1>1, <1>2

\* Verify calls and webhooks start settling only what the gateway captured.
LEMMA AnnouncingKeepsInv ==
    ASSUME Inv, NEW r \in Requests,
           \/ \E o \in Orders : VerifyPayment(r, o)
           \/ \E e \in events : Deliver(r, e)
    PROVE  Inv'
<1> USE DEF Inv
<1>1. CASE \E o \in Orders : VerifyPayment(r, o)
  <2> PICK o \in Orders : VerifyPayment(r, o)
      BY <1>1
  <2>1. CASE Begin(r, o, Verify, "settle")
    <3>1. /\ req' \in [Requests -> Request]
          /\ req'[r] = [pc |-> "settle", order |-> o, from |-> Verify, start |-> 0]
          /\ \A q \in Requests : q # r => req'[q] = req[q]
        BY <2>1, BeginType DEF Verify
    <3>2. TypeOK'
        BY <3>1 DEF VerifyPayment, TypeOK, gateway
    <3> QED
        BY <3>1, <3>2 DEF VerifyPayment, Verify, gateway, HandlersAgree, EventsAgree, Settling
  <2>2. CASE UNCHANGED req
      BY <2>2 DEF VerifyPayment, TypeOK, gateway, HandlersAgree, EventsAgree
  <2> QED
      BY <2>1, <2>2 DEF VerifyPayment
<1>2. CASE \E e \in events : Deliver(r, e)
  <2> PICK e \in events : Deliver(r, e)
      BY <1>2
  <2>1. e.order \in Orders /\ [kind |-> e.kind, order |-> e.order] = e
      BY DEF TypeOK, Event
  <2>2. UNCHANGED <<order, subs, paid, events, lock, now, crashes>>
      BY DEF Deliver, WebhookCaptured, WebhookFailed
  <2>3. acked' \subseteq events
      BY DEF Deliver, WebhookCaptured, WebhookFailed, TypeOK
  <2>4. CASE UNCHANGED req
      BY <2>2, <2>3, <2>4 DEF TypeOK, HandlersAgree, EventsAgree
  <2>5. CASE e.kind = "captured" /\ Begin(r, e.order, e.kind, "settle")
    <3> Begin(r, e.order, "captured", "settle")
        BY <2>5
    <3>1. /\ req' \in [Requests -> Request]
          /\ req'[r] = [pc |-> "settle", order |-> e.order, from |-> "captured", start |-> 0]
          /\ \A q \in Requests : q # r => req'[q] = req[q]
        BY <2>1, BeginType
    <3>2. TypeOK'
        BY <2>2, <2>3, <3>1 DEF TypeOK
    <3> QED
        BY <2>1, <2>2, <2>5, <3>1, <3>2 DEF HandlersAgree, EventsAgree, Settling
  <2>6. CASE e.kind = "failed" /\ Begin(r, e.order, e.kind, "fail")
    <3> Begin(r, e.order, "failed", "fail")
        BY <2>6
    <3>1. /\ req' \in [Requests -> Request]
          /\ req'[r] = [pc |-> "fail", order |-> e.order, from |-> "failed", start |-> 0]
          /\ \A q \in Requests : q # r => req'[q] = req[q]
        BY <2>1, BeginType
    <3>2. TypeOK'
        BY <2>2, <2>3, <3>1 DEF TypeOK
    <3> QED
        BY <2>1, <2>2, <2>6, <3>1, <3>2 DEF HandlersAgree, EventsAgree, Settling
  <2> QED
      BY <2>4, <2>5, <2>6 DEF Deliver, WebhookCaptured, WebhookFailed
<1> QED
    BY <1>1, <1>2

\* The settle transaction: a lock, a read, and both writes or none.
LEMMA SettlingKeepsInv ==
    ASSUME Inv, NEW r \in Requests,
           MarkFailed(r) \/ LockOrder(r) \/ ReadCurrent(r) \/ Insert(r)
    PROVE  Inv'
<1> USE DEF Inv
<1>1. CASE MarkFailed(r)
  <2>1. /\ req' \in [Requests -> Request]
        /\ req'[r] = Resting
        /\ \A q \in Requests : q # r => req'[q] = req[q]
      BY <1>1, StopType DEF MarkFailed, Return
  <2>2. order' \in [Orders -> Row]
      BY <1>1 DEF MarkFailed, SetStatus, TypeOK, Row
  <2>3. acked' \subseteq events
      BY <1>1 DEF MarkFailed, Return, TypeOK, HandlersAgree
  <2>4. TypeOK'
      BY <1>1, <2>1, <2>2, <2>3 DEF MarkFailed, TypeOK
  <2>5. HandlersAgree' /\ EventsAgree'
      BY <1>1, <2>1 DEF MarkFailed, HandlersAgree, EventsAgree, Settling, Resting
  <2> QED
      BY <2>4, <2>5
<1>2. CASE LockOrder(r)
  <2>1. /\ req' \in [Requests -> Request]
        /\ req'[r] = [req[r] EXCEPT !.pc = "current"]
        /\ \A q \in Requests : q # r => req'[q] = req[q]
      BY <1>2, GotoType DEF LockOrder
  <2>2. req'[r].pc = "current" /\ req'[r].order = req[r].order /\ req'[r].from = req[r].from
      BY <1>2, <2>1 DEF LockOrder, TypeOK, Request, Resting
  <2>3. lock' \in [Orders -> Requests \union {Nobody}]
      BY <1>2 DEF LockOrder, TypeOK
  <2>4. TypeOK'
      BY <1>2, <2>1, <2>3 DEF LockOrder, TypeOK, gateway
  <2>5. HandlersAgree' /\ EventsAgree'
      BY <1>2, <2>1, <2>2 DEF LockOrder, gateway, HandlersAgree, EventsAgree, Settling
  <2> QED
      BY <2>4, <2>5
<1>3. CASE ReadCurrent(r)
  <2>1. PICK start \in 0 .. Horizon : req' = [req EXCEPT ![r].pc = "insert", ![r].start = start]
      BY <1>3 DEF ReadCurrent
  <2>2. req[r].pc = "current"
      BY <1>3 DEF ReadCurrent
  <2>3. req[r] \in [pc : {"gateway", "link", "settle", "current", "insert", "fail"}, order : Orders,
                    from : {"create", "verify", "captured", "failed"}, start : 0 .. Horizon]
      BY <2>2 DEF TypeOK, Request, Resting
  <2>4. /\ req'[r] = [req[r] EXCEPT !.pc = "insert", !.start = start]
        /\ \A q \in Requests : q # r => req'[q] = req[q]
      BY <2>1 DEF TypeOK
  <2>5. req'[r] \in Request
      BY <2>3, <2>4 DEF Request
  <2>6. req' \in [Requests -> Request]
      BY <2>1, <2>4, <2>5 DEF TypeOK
  <2>7. TypeOK'
      BY <1>3, <2>6 DEF ReadCurrent, TypeOK, gateway
  <2>8. req'[r].pc = "insert" /\ req'[r].order = req[r].order /\ req'[r].from = req[r].from
      BY <2>3, <2>4
  <2>9. HandlersAgree' /\ EventsAgree'
      BY <1>3, <2>2, <2>4, <2>8 DEF ReadCurrent, gateway, HandlersAgree, EventsAgree, Settling
  <2> QED
      BY <2>7, <2>9
<1>4. CASE Insert(r)
  <2>1. /\ req' \in [Requests -> Request]
        /\ req'[r] = Resting
        /\ \A q \in Requests : q # r => req'[q] = req[q]
      BY <1>4, StopType DEF Insert, Return
  <2>2. req[r].order \in Orders /\ req[r].start \in 0 .. Horizon
      BY <1>4, BusyType DEF Insert
  <2>3. order' \in [Orders -> Row]
      BY <1>4 DEF Insert, SetStatus, TypeOK, Row
  <2>4. acked' \subseteq events
      BY <1>4 DEF Insert, Return, TypeOK, HandlersAgree
  <2>5. subs' \subseteq Period
    <3>1. req[r].start + Months \in Nat
        BY <2>2, PaymentsAssumption
    <3>2. order[req[r].order].user \in Users
        BY <2>2 DEF TypeOK, Row
    <3> QED
        BY <1>4, <2>2, <3>1, <3>2 DEF Insert, TypeOK, Period
  <2>6. lock' \in [Orders -> Requests \union {Nobody}]
      BY <1>4 DEF Insert, TypeOK
  <2>7. TypeOK'
      BY <1>4, <2>1, <2>3, <2>4, <2>5, <2>6 DEF Insert, TypeOK
  <2>8. HandlersAgree' /\ EventsAgree'
      BY <1>4, <2>1 DEF Insert, HandlersAgree, EventsAgree, Settling, Resting
  <2> QED
      BY <2>7, <2>8
<1> QED
    BY <1>1, <1>2, <1>3, <1>4

LEMMA InvInductive == Inv /\ [Next]_vars => Inv'
<1> SUFFICES ASSUME Inv, [Next]_vars PROVE Inv'
    OBVIOUS
<1>1. CASE \E r \in Requests : Start(r) \/ Step(r)
    BY <1>1, CreatingKeepsInv, AnnouncingKeepsInv, SettlingKeepsInv DEF Start, Step
<1>2. CASE \E o \in Orders : AttemptFails(o) \/ Capture(o)
    BY <1>2, GatewayKeepsInv
<1>3. CASE Tick
    BY <1>3, PaymentsAssumption DEF Tick, Inv, TypeOK, HandlersAgree, EventsAgree, gateway
<1>4. CASE Restart
  <2>1. req' \in [Requests -> Request] /\ \A r \in Requests : req'[r] = Resting
      BY <1>4 DEF Restart, Request
  <2>2. TypeOK'
      BY <1>4, <2>1, PaymentsAssumption DEF Restart, Inv, TypeOK, gateway
  <2> QED
      BY <1>4, <2>1, <2>2 DEF Restart, Inv, HandlersAgree, EventsAgree, Settling, Resting, gateway
<1>5. CASE UNCHANGED vars
    BY <1>5 DEF vars, gateway, Inv, TypeOK, HandlersAgree, EventsAgree
<1> QED
    BY <1>1, <1>2, <1>3, <1>4, <1>5 DEF Next

LEMMA InvAlways == Spec => []Inv
<1> QED
    BY InitInv, InvInductive, PTL DEF Spec

-----------------------------------------------------------------------------
\* Every state has well-typed rows, requests and locks, and only webhooks that were
\* sent are ever counted as answered.
THEOREM TypeCorrect == Spec => []TypeOK
<1>1. Inv => TypeOK
    BY DEF Inv
<1> QED
    BY <1>1, InvAlways, PTL

\* One payment buys one period, however verify calls, webhooks and their retries race
\* on the order: the row lock and the unique index are enough.
THEOREM OncePerOrder == Spec => []OneSubscriptionPerOrder
<1>1. Init => OneSubscriptionPerOrder
    BY DEF Init, OneSubscriptionPerOrder
<1>2. OneSubscriptionPerOrder /\ [Next]_vars => OneSubscriptionPerOrder'
  <2> SUFFICES ASSUME OneSubscriptionPerOrder, [Next]_vars PROVE OneSubscriptionPerOrder'
      OBVIOUS
  <2>1. CASE UNCHANGED subs
      BY <2>1 DEF OneSubscriptionPerOrder
  <2>2. ASSUME NEW r \in Requests, Insert(r) PROVE OneSubscriptionPerOrder'
      BY <2>2 DEF Insert, Granted, OneSubscriptionPerOrder
  <2>3. UNCHANGED subs \/ \E r \in Requests : Insert(r)
      BY DEF Next, Start, Step, CreateOrder, VerifyPayment, Deliver, WebhookCaptured, WebhookFailed,
             GatewayRefuses, GatewayAccepts, LinkOrder, MarkFailed, LockOrder, ReadCurrent,
             AttemptFails, Capture, Tick, Restart, vars
  <2> QED
      BY <2>1, <2>2, <2>3
<1> QED
    BY <1>1, <1>2, PTL DEF Spec

\* Only the commit of a settle transaction touches the subscriptions, and nothing
\* deletes one.
LEMMA OnlyInsertGrants ==
    ASSUME [Next]_vars
    PROVE  UNCHANGED subs \/ \E r \in Requests : Insert(r)
BY DEF Next, Start, Step, CreateOrder, VerifyPayment, Deliver, WebhookCaptured, WebhookFailed,
       GatewayRefuses, GatewayAccepts, LinkOrder, MarkFailed, LockOrder, ReadCurrent,
       AttemptFails, Capture, Tick, Restart, vars

LEMMA GrantsStay ==
    ASSUME [Next]_vars, NEW o, Granted(o)
    PROVE  Granted(o)'
BY OnlyInsertGrants DEF Insert, Granted

LEMMA InsertGrants ==
    ASSUME NEW r \in Requests, Insert(r), NEW o, o = req[r].order, ~Granted(o)
    PROVE  Granted(o)'
<1> DEFINE row == [order |-> o, user |-> order[req[r].order].user,
                   start |-> req[r].start, end |-> req[r].start + Months]
<1>1. row \in subs'
    BY DEF Insert
<1>2. row.order = o
    OBVIOUS
<1>3. \E s \in subs' : s.order = o
    BY <1>1, <1>2
<1> QED
    BY <1>3 DEF Granted

\* A status is written to one order.
LEMMA SetStatusElsewhere ==
    ASSUME order \in [Orders -> Row], NEW q, NEW s, SetStatus(q, s), NEW o \in Orders
    PROVE  order'[o].status = IF o = q THEN s ELSE order[o].status
BY DEF SetStatus, Row

\* What an order is shown as changes at four places.
LEMMA StatusWriters ==
    ASSUME [Next]_vars
    PROVE  \/ UNCHANGED order
           \/ \E r \in Requests : (\E u \in Users, o \in Orders : CreateOrder(r, u, o)) \/ LinkOrder(r)
                                      \/ MarkFailed(r) \/ Insert(r)
BY DEF Next, Start, Step, VerifyPayment, Deliver, WebhookCaptured, WebhookFailed,
       GatewayRefuses, GatewayAccepts, LockOrder, ReadCurrent, AttemptFails, Capture, Tick, Restart, vars

\* The status SUCCESS and the period are one transaction: no restart, abort or race
\* leaves an order paid without its subscription.
THEOREM SuccessGranted == Spec => []SuccessIsGranted
<1>1. Init => SuccessIsGranted
    BY DEF Init, SuccessIsGranted
<1>2. Inv /\ SuccessIsGranted /\ [Next]_vars => SuccessIsGranted'
  <2> SUFFICES ASSUME Inv, SuccessIsGranted, [Next]_vars,
                      NEW o \in Orders, order'[o].status = "SUCCESS"
               PROVE  Granted(o)'
      BY DEF SuccessIsGranted
  <2>1. CASE order[o].status = "SUCCESS"
      BY <2>1, GrantsStay DEF SuccessIsGranted
  <2>2. CASE order[o].status # "SUCCESS"
    <3>1. order \in [Orders -> Row]
        BY DEF Inv, TypeOK
    <3>2. ASSUME NEW r \in Requests, NEW u \in Users, NEW q \in Orders, CreateOrder(r, u, q)
          PROVE  FALSE
        BY <2>2, <3>1, <3>2 DEF CreateOrder
    <3>3. ASSUME NEW r \in Requests, LinkOrder(r)
          PROVE  FALSE
        BY <2>2, <3>1, <3>3, SetStatusElsewhere DEF LinkOrder
    <3>4. ASSUME NEW r \in Requests, MarkFailed(r)
          PROVE  FALSE
        BY <2>2, <3>1, <3>4, SetStatusElsewhere DEF MarkFailed
    <3>5. PICK r \in Requests : Insert(r)
        BY <2>2, <3>2, <3>3, <3>4, StatusWriters
    <3>6. ~Granted(req[r].order) /\ req[r].order = o
        BY <2>2, <3>1, <3>5, SetStatusElsewhere DEF Insert
    <3> QED
        BY <3>5, <3>6, InsertGrants
  <2> QED
      BY <2>1, <2>2
<1> QED
    BY <1>1, <1>2, InvAlways, PTL DEF Spec

\* A capture that has been answered was settled: stopping the retries loses nothing.
THEOREM AckedCaptureGranted == Spec => []AckedCaptureIsGranted
<1>1. Init => AckedCaptureIsGranted
    BY DEF Init, AckedCaptureIsGranted
<1>2. Inv /\ AckedCaptureIsGranted /\ [Next]_vars => AckedCaptureIsGranted'
  <2> SUFFICES ASSUME Inv, AckedCaptureIsGranted, [Next]_vars,
                      NEW e \in acked', e.kind = "captured", paid'[e.order] = "captured"
               PROVE  Granted(e.order)'
      BY DEF AckedCaptureIsGranted
  <2>1. CASE e \in acked
    <3>1. e \in events /\ e.order \in Orders /\ paid[e.order] # "no"
        BY <2>1 DEF Inv, TypeOK, EventsAgree, Event
    <3>2. paid'[e.order] = paid[e.order]
        BY <3>1 DEF Inv, TypeOK, Next, Start, Step, CreateOrder, VerifyPayment, Deliver, WebhookCaptured,
               WebhookFailed, GatewayRefuses, GatewayAccepts, LinkOrder, MarkFailed, LockOrder,
               ReadCurrent, Insert, AttemptFails, Capture, Tick, Restart, vars, gateway
    <3> QED
        BY <2>1, <3>2, GrantsStay DEF AckedCaptureIsGranted
  <2>2. CASE e \notin acked
    <3>1. \/ \E r \in Requests, f \in events : WebhookCaptured(r, f) \/ WebhookFailed(r, f)
          \/ \E r \in Requests : MarkFailed(r) \/ Insert(r)
        BY <2>2 DEF Next, Start, Step, CreateOrder, VerifyPayment, Deliver, GatewayRefuses, GatewayAccepts,
               LinkOrder, LockOrder, ReadCurrent, AttemptFails, Capture, Tick, Restart, vars, gateway
    <3>2. ASSUME NEW r \in Requests, NEW f \in events, WebhookCaptured(r, f)
          PROVE  Granted(e.order)'
        BY <2>2, <3>2, GrantsStay DEF WebhookCaptured
    <3>3. ASSUME NEW r \in Requests, NEW f \in events, WebhookFailed(r, f)
          PROVE  FALSE
        BY <2>2, <3>3 DEF WebhookFailed
    <3>4. ASSUME NEW r \in Requests, MarkFailed(r)
          PROVE  FALSE
        BY <2>2, <3>4 DEF MarkFailed, Return, Inv, HandlersAgree
    <3>5. ASSUME NEW r \in Requests, Insert(r)
          PROVE  Granted(e.order)'
      <4>1. ~Granted(req[r].order) /\ e = [kind |-> req[r].from, order |-> req[r].order]
          BY <2>2, <3>5 DEF Insert, Return
      <4>2. e.order = req[r].order
          BY <4>1
      <4> QED
          BY <3>5, <4>1, <4>2, InsertGrants
    <3> QED
        BY <3>1, <3>2, <3>3, <3>4, <3>5
  <2> QED
      BY <2>1, <2>2
<1> QED
    BY <1>1, <1>2, InvAlways, PTL DEF Spec

-----------------------------------------------------------------------------
\* The service implements the ledger: a period is granted only for an order whose
\* money was captured, once, to its subscriber, for the length of the plan.
THEOREM LedgerImplemented == Spec => ImplementsLedger
<1>1. Init => Ledger!Init
    BY DEF Init, Ledger!Init
<1>2. Inv /\ [Next]_vars => [Ledger!Next]_(Ledger!vars)
  <2> SUFFICES ASSUME Inv, [Next]_vars PROVE [Ledger!Next]_(Ledger!vars)
      OBVIOUS
  <2>1. \/ UNCHANGED <<paid, subs>>
        \/ \E o \in Orders : Capture(o)
        \/ \E r \in Requests : Insert(r)
      BY DEF Next, Start, Step, CreateOrder, VerifyPayment, Deliver, WebhookCaptured, WebhookFailed,
             GatewayRefuses, GatewayAccepts, LinkOrder, MarkFailed, LockOrder, ReadCurrent,
             AttemptFails, Tick, Restart, vars, gateway
  <2>2. CASE UNCHANGED <<paid, subs>>
      BY <2>2 DEF Ledger!vars
  <2>3. ASSUME NEW o \in Orders, Capture(o) PROVE Ledger!Next
      BY <2>3 DEF Capture, Ledger!Next, Ledger!Capture
  <2>4. ASSUME NEW r \in Requests, Insert(r) PROVE [Ledger!Next]_(Ledger!vars)
    <3>1. CASE Granted(req[r].order)
        BY <2>4, <3>1 DEF Insert, Ledger!vars
    <3>2. CASE ~Granted(req[r].order)
      <4>1. /\ req[r].order \in Orders
            /\ req[r].start \in 0 .. Horizon
            /\ paid[req[r].order] # "no"
          BY <2>4, BusyType DEF Insert, Inv, HandlersAgree, Settling
      <4>2. order[req[r].order].user \in Users
          BY <4>1 DEF Inv, TypeOK, Row
      <4>3. Ledger!Grant(req[r].order)
          BY <2>4, <3>2, <4>1, <4>2 DEF Insert, Ledger!Grant, Ledger!Granted, Granted
      <4> QED
          BY <4>1, <4>3 DEF Ledger!Next
    <3> QED
        BY <3>1, <3>2
  <2> QED
      BY <2>1, <2>2, <2>3, <2>4
<1> QED
    BY <1>1, <1>2, InvAlways, PTL DEF Spec, ImplementsLedger, Ledger!Spec
=============================================================================
