--------------------------- MODULE OrderLifecycle ---------------------------
(***************************************************************************)
(* The life of one order after createOrder: the Dashboard, the kitchen     *)
(* screens, the customer's payment-init and payment-verify calls and the   *)
(* gateway's webhook all write the same row.                               *)
(*                                                                         *)
(* A request is one HTTP call; its database reads, network calls and       *)
(* transaction are separate steps, so any other request may run between    *)
(* two of them.  Isolation is SQL Server's READ COMMITTED (the connection  *)
(* sets no other): a read holds no lock, and the row a transaction updated *)
(* stays locked until it commits.  So a transaction is a read step and a   *)
(* write step, and the write step is atomic.  A transaction that fails     *)
(* before COMMIT leaves nothing behind: it is the write step not taken.    *)
(***************************************************************************)
EXTENDS OrderRow

CONSTANTS
    StatusRequests,   \* Dashboard: PUT /orders/:id/status
    PaymentRequests,  \* Dashboard: PUT /orders/:id/payment-status
    KitchenRequests,  \* KDS: PUT /kitchen/orders/:id/status
    InitRequests,     \* Consumer: POST /orders/:id/payment-init
    VerifyRequests,   \* Consumer: POST /orders/:id/payment-verify
    Copies,           \* how often the gateway sends each payment's event
    MaxFaults         \* bound: process crashes plus failed deliveries

ASSUME BoundsAreNaturals == Copies \in Nat /\ MaxFaults \in Nat

\* NULL is not a text that payment_webhook_events or whatsapp_status holds.
ASSUME NoneIsNoOutcome == None \notin {"applied", "success"}

VARIABLES
    row,         \* the `orders` row and its audit trails
    events,      \* payment_webhook_events: outcome per event, None if no row
    whatsapp,    \* orders.whatsapp_status
    pc, goal, seen, reply,  \* each request: where it is, the status it asks
                            \* for, what it read, and what it answered
    gateway,     \* external: what the gateway holds of each payment attempt
    session,     \* external: a payment session was handed to the customer
    deliveries,  \* external: where each webhook delivery is
    outbox,      \* afterCommit callbacks waiting to run
    sending,     \* outcome of the message in progress, not yet recorded
    messages,    \* external: messages the provider has taken
    faults

database == <<row, events, whatsapp>>
requests == <<pc, goal, seen, reply>>
notifier == <<outbox, sending, messages>>
provider == <<gateway, session, deliveries>>
vars == <<row, events, whatsapp, pc, goal, seen, reply, gateway, session,
          deliveries, outbox, sending, messages, faults>>

Requests == StatusRequests \cup PaymentRequests \cup KitchenRequests
                \cup InitRequests \cup VerifyRequests

Deliveries == Payments \X (1..Copies)

Places == {"idle", "statusWrite", "kitchenWrite", "kitchenReread",
           "paymentWrite", "asking", "settling", "settlingFree", "creating",
           "attaching", "done"}

\* A payment's status is an answer: a refusal that is due to it names it.
Replies == {None, "ok", "notfound", "conflict", "unpaid", "inflight",
            "unavailable", "invalid", "session", "nosession", "lost"}
               \cup PaymentStatuses

\* MISMATCHED: a success whose amount or currency is not the order's.
AttemptStates == {"none", "PENDING", "SUCCESS", "MISMATCHED", "FAILED"}
Finished == {"SUCCESS", "MISMATCHED", "FAILED"}

Outcomes == {None, "applied", "informational", "mismatch", "already_settled"}

TypeOK ==
    /\ row \in Row
    /\ events \in [Payments -> Outcomes]
    /\ whatsapp \in {None, "success", "failed"}
    /\ pc \in [Requests -> Places]
    /\ goal \in [Requests -> OrderStatuses \cup PaymentStatuses \cup {None}]
    /\ seen \in [Requests ->
                    OrderStatuses \cup PaymentStatuses \cup Payments \cup {None}]
    /\ reply \in [Requests -> Replies]
    /\ gateway \in [Payments -> AttemptStates]
    /\ session \in BOOLEAN
    /\ deliveries \in [Deliveries -> {"unsent", "processing", "acked"}]
    /\ outbox \in Nat
    /\ sending \in {None, "success", "failed"}
    /\ messages \in Nat
    /\ faults \in 0..MaxFaults

Init ==
    /\ \E free \in BOOLEAN : row = NewOrder(free)
    /\ events = [p \in Payments |-> None]
    /\ whatsapp = None
    /\ pc = [r \in Requests |-> "idle"]
    /\ goal = [r \in Requests |-> None]
    /\ seen = [r \in Requests |-> None]
    /\ reply = [r \in Requests |-> None]
    /\ gateway = [p \in Payments |-> "none"]
    /\ session = FALSE
    /\ deliveries = [d \in Deliveries |-> "unsent"]
    /\ outbox = 0
    /\ sending = None
    /\ messages = 0
    /\ faults = 0

-----------------------------------------------------------------------------
\* How a request moves.

Answer(r, what) ==
    /\ pc' = [pc EXCEPT ![r] = "done"]
    /\ reply' = [reply EXCEPT ![r] = what]
    /\ UNCHANGED <<goal, seen>>

Proceed(r, place) ==
    /\ pc' = [pc EXCEPT ![r] = place]
    /\ UNCHANGED <<goal, seen, reply>>

ProceedWith(r, place, target, value) ==
    /\ pc' = [pc EXCEPT ![r] = place]
    /\ goal' = [goal EXCEPT ![r] = target]
    /\ seen' = [seen EXCEPT ![r] = value]
    /\ UNCHANGED reply

\* Mutant: the message hangs on "a payment was found", not on "the row moved".
QueueIfPaid == outbox' = IF row'.payment = "paid" THEN outbox + 1 ELSE outbox

\* A write that confirmed the order by payment has queued its message.
QueueIfConfirmed ==
    outbox' = IF AwaitsConfirmation(row) /\ row'.status = "confirmed"
              THEN outbox + 1 ELSE outbox

-----------------------------------------------------------------------------
\* The Dashboard moves the status: order.service updateOrderStatus.

StatusRead(r) ==
    /\ pc[r] = "idle"
    /\ \E target \in OrderStatuses :
          \/ /\ target = row.status                     \* no-op, 200
             /\ Answer(r, "ok")
          \/ /\ target # row.status
             /\ target \notin ORDER_TRANSITIONS[row.status]
             /\ Answer(r, "conflict")
          \/ /\ target \in ORDER_TRANSITIONS[row.status]
             /\ ProceedWith(r, "statusWrite", target, row.status)
    /\ UNCHANGED <<database, notifier, provider, faults>>

StatusWrite(r) ==
    /\ pc[r] = "statusWrite"
    /\ IF StatusUnmoved(row, seen[r])
       THEN /\ row' = ApplyStatusTransition(row, seen[r], goal[r], "staff")
            /\ Answer(r, "ok")
       ELSE /\ UNCHANGED row
            /\ Answer(r, "conflict")
    /\ UNCHANGED <<events, whatsapp, notifier, provider, faults>>

\* The Dashboard moves the payment: order.service updatePaymentStatus.
PaymentRead(r) ==
    /\ pc[r] = "idle"
    /\ \E target \in PaymentStatuses :
          \/ /\ target = row.payment
             /\ Answer(r, "ok")
          \/ /\ target # row.payment
             /\ target \notin PAYMENT_TRANSITIONS[row.payment]
             /\ Answer(r, "conflict")
          \/ /\ target \in PAYMENT_TRANSITIONS[row.payment]
             /\ ProceedWith(r, "paymentWrite", target, row.payment)
    /\ UNCHANGED <<database, notifier, provider, faults>>

PaymentWrite(r) ==
    /\ pc[r] = "paymentWrite"
    /\ IF PaymentUnmoved(row, seen[r])
       THEN /\ row' = UpdatePaymentStatus(row, seen[r], goal[r])
            /\ QueueIfConfirmed
            /\ Answer(r, "ok")
       ELSE /\ UNCHANGED <<row, outbox>>
            /\ Answer(r, "conflict")
    /\ UNCHANGED <<events, whatsapp, sending, messages, provider, faults>>

-----------------------------------------------------------------------------
(***************************************************************************)
(* A kitchen screen moves the status: updateKitchenOrderStatus.  The read  *)
(* demands a paid order; the write's WHERE clause is on the status alone.  *)
(* The answer is a fresh read, which may find the order no longer the      *)
(* kitchen's although the move was committed.                              *)
(***************************************************************************)
KitchenRead(r) ==
    /\ pc[r] = "idle"
    /\ \E target \in KDS_ALLOWED_TARGETS :
          \/ /\ ~KitchenEligible(row)
             /\ Answer(r, "notfound")
          \/ /\ KitchenEligible(row)
             /\ target = row.status
             /\ Proceed(r, "kitchenReread")
          \/ /\ KitchenEligible(row)
             /\ target # row.status
             /\ target \notin ORDER_TRANSITIONS[row.status]
             /\ Answer(r, "conflict")
          \/ /\ KitchenEligible(row)
             /\ target \in ORDER_TRANSITIONS[row.status]
             /\ ProceedWith(r, "kitchenWrite", target, row.status)
    /\ UNCHANGED <<database, notifier, provider, faults>>

KitchenWrite(r) ==
    /\ pc[r] = "kitchenWrite"
    /\ IF StatusUnmoved(row, seen[r])
       THEN /\ row' = ApplyStatusTransition(row, seen[r], goal[r], "kitchen")
            /\ Proceed(r, "kitchenReread")
       ELSE /\ UNCHANGED row
            /\ Answer(r, "conflict")
    /\ UNCHANGED <<events, whatsapp, notifier, provider, faults>>

KitchenReread(r) ==
    /\ pc[r] = "kitchenReread"
    /\ Answer(r, IF KitchenEligible(row) THEN "ok" ELSE "notfound")
    /\ UNCHANGED <<database, notifier, provider, faults>>

-----------------------------------------------------------------------------
\* The customer's two calls: consumer.service paymentInit and paymentVerify.

InitRead(r) ==
    /\ pc[r] = "idle"
    /\ \/ /\ ~StillPending(row)
          /\ Answer(r, row.payment)
       \/ /\ StillPending(row) /\ row.free
          /\ Proceed(r, "settlingFree")
       \/ /\ StillPending(row) /\ ~row.free /\ row.gatewayOrder
          /\ Proceed(r, "asking")
       \/ /\ StillPending(row) /\ ~row.free /\ ~row.gatewayOrder
          /\ Proceed(r, "creating")
    /\ UNCHANGED <<database, notifier, provider, faults>>

VerifyRead(r) ==
    /\ pc[r] = "idle"
    /\ \/ /\ ~StillPending(row)
          /\ Answer(r, row.payment)
       \/ /\ StillPending(row) /\ ~row.gatewayOrder
          /\ Answer(r, "invalid")
       \/ /\ StillPending(row) /\ row.gatewayOrder
          /\ Proceed(r, "asking")
    /\ UNCHANGED <<database, notifier, provider, faults>>

\* A coupon paid for all of it: settled like any payment, whoever won.
SettleFree(r) ==
    /\ pc[r] = "settlingFree"
    /\ row' = ApplyPaidTransition(row, None, "coupon")
    /\ QueueIfConfirmed
    /\ Answer(r, "paid")
    /\ UNCHANGED <<events, whatsapp, sending, messages, provider, faults>>

\* Mutant: the session is handed out before the column is written.
CreateGatewayOrderAndAnswer(r) ==
    /\ pc[r] = "creating"
    /\ Answer(r, "session") /\ session' = TRUE
    /\ UNCHANGED <<database, notifier, gateway, deliveries, faults>>

\* cashfree.createOrder: the gateway order's id is a function of the order's,
\* so a duplicate is adopted; a failure may still have created it.
CreateGatewayOrder(r) ==
    /\ pc[r] = "creating"
    /\ \/ Proceed(r, "attaching")
       \/ Answer(r, "unavailable")
    /\ UNCHANGED <<database, notifier, provider, faults>>

\* Set gateway_order_id if it is still NULL; the loser of that race returns
\* the winner's order, and either returns a session for it if it gets one.
AttachGatewayOrder(r) ==
    /\ pc[r] = "attaching"
    /\ row' = [row EXCEPT !.gatewayOrder = TRUE]
    /\ \/ Answer(r, "session") /\ session' = TRUE
       \/ Answer(r, "nosession") /\ UNCHANGED session
    /\ UNCHANGED <<events, whatsapp, notifier, gateway, deliveries, faults>>

\* Mutant: a payment still in flight counts.
SettlesOrderInFlight(p) == gateway[p] \in {"SUCCESS", "PENDING"}

\* The payments reconciliation accepts: SUCCESS for the exact amount, in INR.
SettlesOrder(p) == gateway[p] = "SUCCESS"

(***************************************************************************)
(* reconcilePaymentFromGateway's fetch.  Whatever it finds is only acted   *)
(* on in the next step.  An unreachable gateway and one that holds no      *)
(* success both let payment-init hand out a session; payment-verify tells  *)
(* them apart.                                                             *)
(***************************************************************************)
GatewayAnswersVerify(r) ==
    /\ r \in VerifyRequests
    /\ \/ Answer(r, "unavailable")
       \/ /\ \A p \in Payments : ~SettlesOrder(p)
          /\ Answer(r, IF \E p \in Payments : gateway[p] = "PENDING"
                       THEN "inflight" ELSE "unpaid")
    /\ UNCHANGED session

GatewayAnswersInit(r) ==
    /\ r \in InitRequests
    /\ \/ Answer(r, "session") /\ session' = TRUE
       \/ Answer(r, "nosession") /\ UNCHANGED session

AskGateway(r) ==
    /\ pc[r] = "asking"
    /\ \/ GatewayAnswersVerify(r)
       \/ GatewayAnswersInit(r)
       \/ \E p \in Payments :
             /\ SettlesOrder(p)
             /\ ProceedWith(r, "settling", None, p)
             /\ UNCHANGED session
    /\ UNCHANGED <<database, notifier, gateway, deliveries, faults>>

\* Its transaction.  The caller is told "settled" whether or not the row moved;
\* payment-init passes that on as a 409 naming the order paid.
SettleReconciled(r) ==
    /\ pc[r] = "settling"
    /\ row' = ApplyPaidTransition(row, seen[r], "reconciliation")
    /\ QueueIfConfirmed
    /\ Answer(r, "paid")
    /\ UNCHANGED <<events, whatsapp, sending, messages, provider, faults>>

-----------------------------------------------------------------------------
\* External: the customer pays with a session, and the gateway decides.

BeginAttempt(p) ==
    /\ session
    /\ gateway[p] = "none"
    /\ gateway' = [gateway EXCEPT ![p] = "PENDING"]
    /\ UNCHANGED <<database, requests, notifier, session, deliveries, faults>>

FinishAttempt(p) ==
    /\ gateway[p] = "PENDING"
    /\ \E result \in Finished : gateway' = [gateway EXCEPT ![p] = result]
    /\ UNCHANGED <<database, requests, notifier, session, deliveries, faults>>

(***************************************************************************)
(* A webhook delivery.  The signature is checked with the secret found     *)
(* through gateway_order_id, so a delivery before that column is set is    *)
(* refused and the gateway sends it again.  The copies of an event are     *)
(* alike: they arrive by number.                                           *)
(***************************************************************************)
ReceiveDelivery(d) ==
    /\ deliveries[d] = "unsent"
    /\ \A k \in 1..(d[2] - 1) : deliveries[<<d[1], k>>] # "unsent"
    /\ gateway[d[1]] \in Finished
    /\ row.gatewayOrder
    /\ deliveries' = [deliveries EXCEPT
                        ![d] = IF events[d[1]] = None THEN "processing"
                               ELSE "acked"]
    /\ UNCHANGED <<database, requests, notifier, gateway, session, faults>>

\* Mutant: the amount is not compared.
ApplyEventOfAnyAmount(p) ==
    \/ /\ gateway[p] = "FAILED"
       /\ events' = [events EXCEPT ![p] = "informational"]
       /\ UNCHANGED <<row, outbox>>
    \/ /\ gateway[p] # "FAILED"
       /\ events' = [events EXCEPT ![p] = "applied"]
       /\ row' = ApplyPaidTransition(row, p, "webhook")
       /\ QueueIfConfirmed

\* processWebhookEvent's transaction for an event that has no row yet.
ApplyEvent(p) ==
    \/ /\ gateway[p] = "FAILED"
       /\ events' = [events EXCEPT ![p] = "informational"]
       /\ UNCHANGED <<row, outbox>>
    \/ /\ gateway[p] = "MISMATCHED"
       /\ events' = [events EXCEPT ![p] = "mismatch"]
       /\ UNCHANGED <<row, outbox>>
    \/ /\ gateway[p] = "SUCCESS"
       /\ events' = [events EXCEPT
                       ![p] = IF StillPending(row) THEN "applied"
                              ELSE "already_settled"]
       /\ row' = ApplyPaidTransition(row, p, "webhook")
       /\ QueueIfConfirmed

\* The transaction and its 200.  The unique index refuses a second row for the
\* same event, and that delivery is acknowledged as a duplicate.
ProcessWebhookEvent(d) ==
    /\ deliveries[d] = "processing"
    /\ IF events[d[1]] = None
       THEN ApplyEvent(d[1])
       ELSE UNCHANGED <<row, events, outbox>>
    /\ deliveries' = [deliveries EXCEPT ![d] = "acked"]
    /\ UNCHANGED <<whatsapp, requests, sending, messages, gateway, session,
                   faults>>

\* Mutant: the dedup row was committed before the rest of the work.
ClaimSurvives(p) ==
    /\ events' = [events EXCEPT ![p] = "already_settled"]
    /\ UNCHANGED <<row, outbox>>

\* The transaction that claims an event and applies it did not commit.
RolledBack(p) == UNCHANGED <<row, events, outbox>>

\* A 5xx, a lost answer, a stale timestamp: no 2xx, so it is sent again.  The
\* transaction may have committed before the answer was lost.
DeliveryFails(d) ==
    /\ faults < MaxFaults
    /\ deliveries[d] = "processing"
    /\ IF events[d[1]] = None
       THEN ApplyEvent(d[1]) \/ RolledBack(d[1])
       ELSE UNCHANGED <<row, events, outbox>>
    /\ deliveries' = [deliveries EXCEPT ![d] = "unsent"]
    /\ faults' = faults + 1
    /\ UNCHANGED <<whatsapp, requests, sending, messages, gateway, session>>

-----------------------------------------------------------------------------
\* notification.service: the queued confirmation, off the request path.

\* The cinema has the channel off, or the order has no number to send to.
SkipConfirmation ==
    /\ outbox > 0 /\ sending = None
    /\ outbox' = outbox - 1
    /\ UNCHANGED <<database, requests, sending, messages, provider, faults>>

\* Sent; or failed, which a provider that took it and then timed out is too.
SendConfirmation ==
    /\ outbox > 0 /\ sending = None
    /\ outbox' = outbox - 1
    /\ \/ sending' = "success" /\ messages' = messages + 1
       \/ sending' = "failed" /\ messages' \in {messages, messages + 1}
    /\ UNCHANGED <<database, requests, provider, faults>>

\* recordStatus, which swallows its own failure.
RecordWhatsApp ==
    /\ sending # None
    /\ sending' = None
    /\ whatsapp' \in {sending, whatsapp}
    /\ UNCHANGED <<row, events, requests, outbox, messages, provider, faults>>

-----------------------------------------------------------------------------
\* The process dies: open transactions roll back, callbacks in memory are gone.
Crash ==
    /\ faults < MaxFaults
    /\ faults' = faults + 1
    /\ LET open == {r \in Requests : pc[r] \notin {"idle", "done"}}
       IN  /\ pc' = [r \in Requests |-> IF r \in open THEN "done" ELSE pc[r]]
           /\ reply' = [r \in Requests |->
                           IF r \in open THEN "lost" ELSE reply[r]]
    /\ deliveries' = [d \in Deliveries |->
                         IF deliveries[d] = "processing" THEN "unsent"
                         ELSE deliveries[d]]
    /\ outbox' = 0
    /\ sending' = None
    /\ UNCHANGED <<database, goal, seen, messages, gateway, session>>

-----------------------------------------------------------------------------

Dashboard ==
    \/ \E r \in StatusRequests : StatusRead(r) \/ StatusWrite(r)
    \/ \E r \in PaymentRequests : PaymentRead(r) \/ PaymentWrite(r)

Kitchen ==
    \E r \in KitchenRequests :
        KitchenRead(r) \/ KitchenWrite(r) \/ KitchenReread(r)

Consumer ==
    \/ \E r \in InitRequests :
          InitRead(r) \/ SettleFree(r) \/ CreateGatewayOrder(r)
              \/ AttachGatewayOrder(r)
    \/ \E r \in VerifyRequests : VerifyRead(r)
    \/ \E r \in InitRequests \cup VerifyRequests :
          AskGateway(r) \/ SettleReconciled(r)

Gateway == \E p \in Payments : BeginAttempt(p) \/ FinishAttempt(p)

Webhook ==
    \E d \in Deliveries :
        ReceiveDelivery(d) \/ ProcessWebhookEvent(d) \/ DeliveryFails(d)

Notifier == SkipConfirmation \/ SendConfirmation \/ RecordWhatsApp

Next == Dashboard \/ Kitchen \/ Consumer \/ Gateway \/ Webhook \/ Notifier
            \/ Crash

Spec == Init /\ [][Next]_vars

(***************************************************************************)
(* The gateway keeps sending an event until it is acknowledged, and the    *)
(* server runs what it received: the fairness of the webhook, and of       *)
(* nobody else.  Staff and customers may stop at any point.                *)
(***************************************************************************)
FairWebhook ==
    \A d \in Deliveries : WF_vars(ReceiveDelivery(d) \/ ProcessWebhookEvent(d))

FairSpec == Spec /\ FairWebhook

-----------------------------------------------------------------------------
\* What holds in every state.

(***************************************************************************)
(* An order that was ever paid for is work for the kitchen, or was refused *)
(* by a person: no path to `paid` leaves it in `initiated`, whichever of   *)
(* webhook, verify, payment-init or the counter discovered the money, and  *)
(* whatever staff did to the status meanwhile.                             *)
(***************************************************************************)
PaidOrdersAreWork ==
    row.payment \in {"paid", "refunded"} => row.status # "initiated"

(***************************************************************************)
(* Both audit trails replay to the row: they open with createOrder's       *)
(* entry, every entry starts where the one before it ended and follows an  *)
(* edge of the graph, and the last names the current status.  A write that *)
(* matched a row other than the one its caller read would break the chain. *)
(***************************************************************************)
AuditTrailsReplay ==
    /\ Replays(row.statusLog, ORDER_TRANSITIONS, "initiated", row.status)
    /\ Replays(row.paymentLog, PAYMENT_TRANSITIONS, "pending", row.payment)

(***************************************************************************)
(* An order is settled at most once: however the webhook, its copies,      *)
(* verify, payment-init and staff race, one entry at most says `paid`.     *)
(***************************************************************************)
SettledAtMostOnce ==
    \A i, j \in DOMAIN row.paymentLog :
        row.paymentLog[i].new = "paid" /\ row.paymentLog[j].new = "paid"
            => i = j

(***************************************************************************)
(* Only real money settles: an entry written by the webhook or by          *)
(* reconciliation names a payment the gateway holds as a success of the    *)
(* right amount, and the coupon path settles free orders only.             *)
(***************************************************************************)
OnlyRealMoneySettles ==
    /\ \A i \in DOMAIN row.paymentLog :
          LET entry == row.paymentLog[i]
          IN  /\ entry.by \in {"webhook", "reconciliation"}
                    => /\ entry.gatewayPaymentId \in Payments
                       /\ gateway[entry.gatewayPaymentId] = "SUCCESS"
              /\ entry.by = "coupon" => row.free
    /\ row.gatewayPaymentId # None
          => Logged(row.paymentLog,
                    LAMBDA e : e.new = "paid"
                        /\ e.gatewayPaymentId = row.gatewayPaymentId)

(***************************************************************************)
(* The dedup record and the settlement commit together: the event's row    *)
(* says `applied` exactly when the trail holds the webhook's own entry for *)
(* that payment.  Otherwise a retry would be suppressed for an event that  *)
(* was never acted on, or one event would act twice.                       *)
(***************************************************************************)
EventsTellTheTruth ==
    \A p \in Payments :
        events[p] = "applied"
            <=> Logged(row.paymentLog,
                       LAMBDA e : e.by = "webhook" /\ e.gatewayPaymentId = p)

(***************************************************************************)
(* Money can only move for an order the webhook can find: no attempt       *)
(* exists at the gateway, and no session is in a customer's hands, before  *)
(* gateway_order_id is recorded.  payment-init may die, fail or race       *)
(* another call between creating the gateway order and recording it.       *)
(***************************************************************************)
EveryAttemptFindsItsOrder ==
    (session \/ \E p \in Payments : gateway[p] # "none") => row.gatewayOrder

(***************************************************************************)
(* The kitchen never touches food nobody paid for: an entry of a kitchen   *)
(* screen in the status trail means the payment trail holds `paid`.        *)
(***************************************************************************)
KitchenWorksForMoney ==
    Logged(row.statusLog, LAMBDA e : e.by = "kitchen")
        => Logged(row.paymentLog, LAMBDA e : e.new = "paid")

(***************************************************************************)
(* One confirmation message per order at most, whoever finds the payment   *)
(* and however often, and none for an order no payment confirmed; a row    *)
(* that says `success` had its message taken by the provider.              *)
(***************************************************************************)
OneMessagePerPaidOrder ==
    /\ messages + outbox <= 1
    /\ messages + outbox > 0
          => Logged(row.statusLog, LAMBDA e : e.by = "payment")
    /\ whatsapp = "success" => messages = 1

(***************************************************************************)
(* Whoever is told `paid`, by payment-init or payment-verify, is told so   *)
(* of an order with nothing to pay, one the gateway took the money for, or *)
(* one a person recorded as paid: neither a payment in flight nor a stale  *)
(* read ever becomes that answer.                                          *)
(***************************************************************************)
PaidAnswersHaveMoney ==
    (\E r \in Requests : reply[r] = "paid")
        => \/ row.free
           \/ \E p \in Payments : gateway[p] = "SUCCESS"
           \/ Logged(row.paymentLog, LAMBDA e : e.new = "paid" /\ e.by = "staff")

-----------------------------------------------------------------------------
\* What the detailed behaviour implements.

Promise == INSTANCE OrderPromise WITH
    StatusGraph    <- ORDER_TRANSITIONS,
    PaymentGraph   <- PAYMENT_TRANSITIONS,
    status         <- row.status,
    payment        <- row.payment,
    statusHistory  <- [i \in DOMAIN row.statusLog |-> row.statusLog[i].new],
    paymentHistory <- [i \in DOMAIN row.paymentLog |-> row.paymentLog[i].new]

(***************************************************************************)
(* Every behaviour of the requests, seen as the row and its histories, is  *)
(* a behaviour of the promise: one edge of one graph per step, terminal    *)
(* states final, histories only growing, and the payment that arrives on   *)
(* an untouched order confirming it in the same commit.                    *)
(***************************************************************************)
LifecycleKeepsPromise == Promise!Spec

(***************************************************************************)
(* Money the gateway took for the order does not leave it `pending` for    *)
(* ever, with no customer and no staff needed: the webhook alone gets it   *)
(* there, through crashes and failed deliveries.                           *)
(***************************************************************************)
CapturedMoneyIsSettled ==
    (\E p \in Payments : gateway[p] = "SUCCESS") ~> row.payment # "pending"

=============================================================================
