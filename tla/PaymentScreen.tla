---------------------------- MODULE PaymentScreen ----------------------------
(***************************************************************************)
(* The customer's payment page over a checkout and a backend it cannot     *)
(* trust to answer in order: mounting, recovery, payment-init, the modal,  *)
(* payment-verify called from three places, reloads and the browser's back *)
(* button.  The device has one attempt record, one order id and one        *)
(* checkout session, whatever the number of orders it has placed.          *)
(*                                                                         *)
(* A request outlives the page that made it: `live` says whether that page *)
(* is still on screen.  The record's phase and amount decide nothing and   *)
(* are left out, so the record is the attempt it names.                    *)
(***************************************************************************)
EXTENDS Naturals, FiniteSets

CONSTANTS
    Orders,
    Attempts,   \* bound: checkouts opened, all orders together
    Calls,      \* bound: requests outstanding at a time
    Customers,  \* what the customer of a behaviour may do besides paying
    None

Habits == {"ordersAgain", "usesBack"}

ASSUME CustomersHaveHabits == Customers \subseteq SUBSET Habits

ASSUME NoneIsNoName == None \notin Orders \cup Attempts

PaymentPhase == {"idle", "initializing", "ready", "opening", "verifying",
                 "unresolved", "confirmed", "rejected", "failed", "cancelled",
                 "error"}

TERMINAL == {"confirmed", "rejected"}

MAY_START_NEW_PAYMENT == {"ready", "failed", "cancelled", "error"}

TRANSITIONS == [
    idle |-> {"initializing", "unresolved", "confirmed", "rejected", "error"},
    initializing |-> {"ready", "error", "unresolved", "confirmed", "rejected"},
    ready |-> {"opening", "error", "initializing"},
    opening |-> {"verifying", "failed", "cancelled", "unresolved", "error"},
    verifying |-> {"confirmed", "rejected", "unresolved", "failed"},
    unresolved |-> {"verifying", "confirmed", "rejected", "unresolved"},
    confirmed |-> {},
    rejected |-> {},
    failed |-> {"idle", "initializing", "opening", "error", "verifying",
                "unresolved"},
    cancelled |-> {"idle", "initializing", "opening", "error"},
    error |-> {"idle", "initializing", "ready", "opening", "unresolved",
               "confirmed", "rejected"}]

Pages == [order : Orders, phase : PaymentPhase,
          attempt : Attempts \cup {None}, data : BOOLEAN]

\* "session": payment-init issued one.  "inflight", "nothing": the gateway
\* holds a pending payment, or none that can still land.  "closed": refunded.
Answers == {"paid", "closed", "session", "inflight", "nothing", "unknown"}

ASSUME NoneIsNoAnswer == None \notin Answers

Requests == [kind : {"init", "check", "verify", "settle"}, order : Orders,
             attempt : Attempts \cup {None}, answer : Answers \cup {None},
             live : BOOLEAN]

Modals == [attempt : Attempts, live : BOOLEAN, away : BOOLEAN]

Payments == [order : Orders, state : {"none", "pending", "success", "failed"}]

Statuses == {"unplaced", "pending", "paid", "refunded"}

ASSUME NoneIsNoRecord == None \notin Pages \cup Requests \cup Modals \cup Payments

VARIABLES
    habits,     \* the customer of this behaviour
    status,     \* orders.payment_status
    payment,    \* what the gateway holds for each checkout opened
    page,       \* the payment page on screen, None on any other route
    call,       \* requests in flight, and their answers once given
    modal,      \* the checkout that is open, over the page or instead of it
    record,     \* qbusto_payment_attempt: the attempt stored
    orderKey,   \* qbusto_order_id
    session,    \* the order qbusto_checkout_key resolves to
    confirmed,  \* history: orders whose confirmation was shown
    erased      \* history: orders whose record another order's answer cleared

device == <<record, orderKey, session>>
vars == <<habits, status, payment, page, call, modal, record, orderKey,
          session, confirmed, erased>>

TypeOK ==
    /\ habits \in Customers
    /\ status \in [Orders -> Statuses]
    /\ payment \in [Attempts -> Payments \cup {None}]
    /\ page \in Pages \cup {None}
    /\ call \in [Calls -> Requests \cup {None}]
    /\ modal \in Modals \cup {None}
    /\ record \in Attempts \cup {None}
    /\ orderKey \in Orders \cup {None}
    /\ session \in Orders \cup {None}
    /\ confirmed \subseteq Orders /\ erased \subseteq Orders

Init ==
    /\ habits \in Customers
    /\ status = [o \in Orders |-> "unplaced"]
    /\ payment = [a \in Attempts |-> None]
    /\ page = None
    /\ call = [c \in Calls |-> None]
    /\ modal = None
    /\ record = None /\ orderKey = None /\ session = None
    /\ confirmed = {} /\ erased = {}

-----------------------------------------------------------------------------
\* The machine, the record and the requests

\* Mutant: the table as it was before a declined payment could be reported.
CanTransitionBeforeDeclines(from, to) ==
    to \in TRANSITIONS[from] /\ ~(from = "verifying" /\ to = "failed")

CanTransition(from, to) == to \in TRANSITIONS[from]

\* reduce: the page after a transition, or the page if it is refused.
Reduce(p, to, attempt, expected) ==
    IF \/ p.phase \in TERMINAL
       \/ expected # None /\ p.attempt # None /\ p.attempt # expected
       \/ ~CanTransition(p.phase, to)
    THEN p
    ELSE [p EXCEPT !.phase = to, !.attempt = IF attempt = None THEN @ ELSE attempt]

\* apply(), from the handler of request k: nothing if its page is gone.
Apply(k, to) == IF k.live THEN Reduce(page, to, k.attempt, k.attempt) ELSE page

\* readAttempt: the record, if it is of this order.
ReadAttempt(o) == IF record # None /\ payment[record].order = o THEN record ELSE None

Request(kind, o, a) == [kind |-> kind, order |-> o, attempt |-> a,
                        answer |-> None, live |-> TRUE]

\* A new request takes the first free name.
IsFree(c) == call[c] = None /\ c = CHOOSE d \in Calls : call[d] = None

Sent(c, kind, o, a) == [call EXCEPT ![c] = Request(kind, o, a)]

\* The page unmounts.  payment-init is ignored from now on (`active`), the
\* handlers of the others go on.
Orphaned(cs) == [c \in Calls |->
    IF cs[c] = None THEN None
    ELSE IF cs[c].kind = "init" THEN None
    ELSE [cs[c] EXCEPT !.live = FALSE]]

OrphanedModal == IF modal = None THEN None ELSE [modal EXCEPT !.live = FALSE]

\* Mutant: the attempt starts out as the order.
FreshPageOfOrder(o) == [order |-> o, phase |-> "idle", attempt |-> o, data |-> FALSE]

FreshPage(o) == [order |-> o, phase |-> "idle", attempt |-> None, data |-> FALSE]

\* The first commit of the page: recovery, if there is a record of this order,
\* else payment-init.  In both cases one request goes out.
Mounted(o) ==
    IF ReadAttempt(o) = None
    THEN Reduce(FreshPage(o), "initializing", None, None)
    ELSE Reduce([FreshPage(o) EXCEPT !.phase = "unresolved", !.attempt = record],
                "verifying", record, record)

FirstRequest(o) == IF ReadAttempt(o) = None THEN "init" ELSE "check"

MountWith(cs, o) ==
    \E c \in Calls :
        /\ cs[c] = None /\ c = CHOOSE d \in Calls : cs[d] = None
        /\ page' = Mounted(o)
        /\ call' = [cs EXCEPT ![c] = Request(FirstRequest(o), o, ReadAttempt(o))]

-----------------------------------------------------------------------------
\* The customer, away from the page

\* The checkout sheet places an order and hands over.  The same cart gets the
\* order its key resolves to; another cart, or a cleared session, a new one.
Checkout(o) ==
    /\ page = None /\ modal = None
    /\ \/ session = o /\ UNCHANGED status
       \/ /\ \A p \in Orders : status[p] # "unplaced" => "ordersAgain" \in habits
          /\ status[o] = "unplaced"
          /\ o = CHOOSE p \in Orders : status[p] = "unplaced"
          /\ status' = [status EXCEPT ![o] = "pending"]
    /\ session' = o /\ orderKey' = o
    /\ MountWith(call, o)
    /\ UNCHANGED <<habits, payment, modal, record, confirmed, erased>>

\* A reload kills every handler and an open modal; storage survives.
Reload ==
    /\ page # None
    /\ modal' = None
    /\ IF orderKey = None
       THEN page' = None /\ call' = [c \in Calls |-> None]
       ELSE MountWith([c \in Calls |-> None], orderKey)
    /\ UNCHANGED <<habits, status, payment, record, orderKey, session, confirmed, erased>>

\* The customer comes back from a checkout that replaced the page.
Return ==
    /\ modal # None /\ modal.away
    /\ modal' = None
    /\ IF orderKey = None THEN page' = None /\ UNCHANGED call
       ELSE MountWith(call, orderKey)
    /\ UNCHANGED <<habits, status, payment, record, orderKey, session, confirmed, erased>>

LeavePage ==
    /\ page' = None
    /\ call' = Orphaned(call)
    /\ modal' = OrphanedModal
    /\ UNCHANGED <<habits, status, payment, record, orderKey, session, confirmed, erased>>

\* The browser's own back button works in every phase.
BrowserBack == page # None /\ "usesBack" \in habits /\ LeavePage

\* ... and so does its forward button: /payment mounts on the stored order id.
BrowserForward ==
    /\ page = None /\ "usesBack" \in habits
    /\ modal # None => ~modal.away
    /\ orderKey # None
    /\ MountWith(call, orderKey)
    /\ UNCHANGED <<habits, status, payment, modal, record, orderKey, session, confirmed, erased>>

\* The page's back button, disabled while busy or unresolved, and absent from
\* the panel shown while payment-init runs.
HandleGoBack ==
    /\ page # None
    /\ page.phase \notin {"verifying", "opening", "unresolved"}
    /\ page.phase = "initializing" => page.data
    /\ LeavePage

HandleLeaveUnresolved == page # None /\ page.phase = "unresolved" /\ LeavePage

-----------------------------------------------------------------------------
\* Paying

PayOffered ==
    /\ page # None
    /\ page.phase \in MAY_START_NEW_PAYMENT
    /\ page.data

\* Mutant: the attempt is recorded once the checkout has returned.
RecordOnReturn(a) == UNCHANGED record

\* writeAttempt, before the checkout opens.
RecordOnOpening(a) == record' = a

\* handlePayNow up to checkout().
HandlePayNow(a) ==
    /\ PayOffered
    /\ modal = None
    /\ payment[a] = None /\ a = CHOOSE b \in Attempts : payment[b] = None
    /\ RecordOnOpening(a)
    /\ page' = Reduce(page, "opening", a, None)
    /\ modal' = [attempt |-> a, live |-> TRUE, away |-> FALSE]
    /\ payment' = [payment EXCEPT ![a] = [order |-> page.order, state |-> "none"]]
    /\ UNCHANGED <<habits, status, call, orderKey, session, confirmed, erased>>

\* checkout() rejects: it never opened.
CheckoutThrows ==
    /\ modal # None /\ ~modal.away
    /\ payment[modal.attempt].state = "none"
    /\ record' = None
    /\ page' = IF modal.live
               THEN Reduce(page, "error", modal.attempt, None) ELSE page
    /\ modal' = None
    /\ UNCHANGED <<habits, status, payment, call, orderKey, session, confirmed, erased>>

\* checkout() resolves: with an error settleAfterCheckout asks what it meant,
\* without one verifyPayment confirms.  The record is written again.
CheckoutReturns(kind) ==
    /\ modal # None /\ ~modal.away
    /\ record' = modal.attempt
    /\ \E c \in Calls :
        /\ IsFree(c)
        /\ LET k == [Request(kind, payment[modal.attempt].order, modal.attempt)
                       EXCEPT !.live = modal.live]
           IN call' = [call EXCEPT ![c] = k] /\ page' = Apply(k, "verifying")
    /\ modal' = None
    /\ UNCHANGED <<habits, status, payment, orderKey, session, confirmed, erased>>

\* checkout() resolves with a redirect: the checkout replaces the whole page.
CheckoutRedirects ==
    /\ modal # None /\ ~modal.away
    /\ record' = modal.attempt
    /\ page' = None
    /\ call' = [c \in Calls |-> None]
    /\ modal' = [modal EXCEPT !.live = FALSE, !.away = TRUE]
    /\ UNCHANGED <<habits, status, payment, orderKey, session, confirmed, erased>>

\* resolveAttempt, from the status button or the `online` listener.
ResolveAttempt ==
    /\ page # None /\ page.phase = "unresolved"
    /\ ReadAttempt(page.order) # None
    /\ \A c \in Calls : call[c] # None => ~(call[c].live /\ call[c].kind = "check")
    /\ \E c \in Calls :
        /\ IsFree(c)
        /\ call' = Sent(c, "check", page.order, record)
        /\ page' = Reduce(page, "verifying", record, record)
    /\ UNCHANGED <<habits, status, payment, modal, record, orderKey, session, confirmed, erased>>

\* "Try again": back to idle, and the init effect runs again.
HandleTryAgain ==
    /\ page # None /\ page.phase = "error" /\ ~page.data
    /\ \E c \in Calls :
        /\ IsFree(c)
        /\ page' = Reduce(Reduce(page, "idle", None, None), "initializing", None, None)
        /\ call' = Sent(c, "init", page.order, None)
    /\ UNCHANGED <<habits, status, payment, modal, record, orderKey, session, confirmed, erased>>

-----------------------------------------------------------------------------
\* The backend and the gateway

Holds(o, state) ==
    \E a \in Attempts : payment[a] # None /\ payment[a].order = o
                                          /\ payment[a].state = state

\* payment-init and payment-verify.  An order no longer pending is a conflict
\* that names its status.  A pending one is looked up at the gateway; init
\* carries on with a session when it learns nothing.  Any request may fail.
Truth(k) ==
    IF status[k.order] = "paid" THEN {"paid"}
    ELSE IF status[k.order] = "refunded" THEN {"closed"}
    ELSE IF k.kind = "init" THEN {"session"} \cup (IF Holds(k.order, "success") THEN {"paid"} ELSE {})
    ELSE IF Holds(k.order, "success") THEN {"paid"}
    ELSE IF Holds(k.order, "pending") THEN {"inflight"}
    ELSE {"nothing"}

Answer(c) ==
    /\ call[c] # None /\ call[c].answer = None
    /\ \E answer \in Truth(call[c]) \cup {"unknown"} :
        /\ call' = [call EXCEPT ![c].answer = answer]
        /\ status' = IF answer = "paid" /\ status[call[c].order] = "pending"
                     THEN [status EXCEPT ![call[c].order] = "paid"] ELSE status
    /\ UNCHANGED <<habits, payment, page, modal, device, confirmed, erased>>

\* In an open checkout the customer starts a payment, again if one failed.
PaymentStarts(a) ==
    /\ modal # None /\ modal.attempt = a
    /\ payment[a].state \in {"none", "failed"}
    /\ payment' = [payment EXCEPT ![a].state = "pending"]
    /\ UNCHANGED <<habits, status, page, call, modal, device, confirmed, erased>>

\* It ends whenever it ends: a collect request outlives the checkout.
PaymentEnds(a) ==
    /\ payment[a] # None /\ payment[a].state = "pending"
    /\ \E state \in {"success", "failed"} : payment' = [payment EXCEPT ![a].state = state]
    /\ UNCHANGED <<habits, status, page, call, modal, device, confirmed, erased>>

\* The webhook, and a refund by staff.
Backend(o) ==
    /\ \/ status[o] = "pending" /\ Holds(o, "success")
          /\ status' = [status EXCEPT ![o] = "paid"]
       \/ status[o] = "paid" /\ status' = [status EXCEPT ![o] = "refunded"]
    /\ UNCHANGED <<habits, payment, page, call, modal, device, confirmed, erased>>

-----------------------------------------------------------------------------
\* Answers arrive

Answered(c, kind) == call[c] # None /\ call[c].kind = kind /\ call[c].answer # None

Done(c) == [call EXCEPT ![c] = None]

\* confirmPaid, and init's own copy of it: the device forgets, and the
\* router moves to the confirmation whatever page is on screen.
ConfirmPaid(c) ==
    /\ record' = None /\ orderKey' = None /\ session' = None
    /\ confirmed' = confirmed \cup {call[c].order}
    /\ page' = None
    /\ call' = Orphaned(Done(c))
    /\ modal' = OrphanedModal
    /\ UNCHANGED <<habits, status, payment, erased>>

Shows(c, phase) ==
    /\ page' = Apply(call[c], phase)
    /\ call' = Done(c)
    /\ UNCHANGED <<habits, status, payment, modal, confirmed>>

InitLands(c) ==
    /\ Answered(c, "init")
    /\ \/ call[c].answer = "paid" /\ ConfirmPaid(c)
       \/ /\ call[c].answer = "session"
          /\ page' = [Reduce(page, "ready", None, None) EXCEPT !.data = TRUE]
          /\ call' = Done(c)
          /\ UNCHANGED <<habits, status, payment, modal, device, confirmed, erased>>
       \/ /\ call[c].answer \in {"closed", "unknown"}
          /\ Shows(c, "error") /\ UNCHANGED <<device, erased>>

\* resolveAttempt: anything but paid leaves the outcome unknown.
CheckLands(c) ==
    /\ Answered(c, "check")
    /\ \/ call[c].answer = "paid" /\ ConfirmPaid(c)
       \/ call[c].answer # "paid" /\ Shows(c, "unresolved") /\ UNCHANGED <<device, erased>>

\* Mutant: a checkout that ran to completion is believed.
VerifyLandsTrusting(c) == Answered(c, "verify") /\ ConfirmPaid(c)

\* verifyPayment, after a checkout that ran to completion.
VerifyLands(c) ==
    /\ Answered(c, "verify")
    /\ \/ call[c].answer = "paid" /\ ConfirmPaid(c)
       \/ call[c].answer # "paid" /\ Shows(c, "unresolved") /\ UNCHANGED <<device, erased>>

\* Mutant: an order that is still pending may be paid again.
NothingSettled(answer) == answer \in {"nothing", "inflight"}

\* The answers that let the customer pay again.
NothingTaken(answer) == answer = "nothing"

\* settleAfterCheckout.  The record it clears may by now be another order's.
SettleLands(c) ==
    /\ Answered(c, "settle")
    /\ \/ call[c].answer = "paid" /\ ConfirmPaid(c)
       \/ /\ NothingTaken(call[c].answer)
          /\ record' = None
          /\ erased' = IF record # None /\ payment[record].order # call[c].order
                       THEN erased \cup {payment[record].order} ELSE erased
          /\ Shows(c, "failed")
          /\ UNCHANGED <<orderKey, session>>
       \/ /\ call[c].answer # "paid" /\ ~NothingTaken(call[c].answer)
          /\ Shows(c, "unresolved") /\ UNCHANGED <<device, erased>>

-----------------------------------------------------------------------------

Lands(c) == InitLands(c) \/ CheckLands(c) \/ VerifyLands(c) \/ SettleLands(c)

Customer ==
    \/ \E o \in Orders : Checkout(o)
    \/ Reload \/ Return \/ BrowserBack \/ BrowserForward
    \/ HandleGoBack \/ HandleLeaveUnresolved
    \/ \E a \in Attempts : HandlePayNow(a) \/ PaymentStarts(a)
    \/ ResolveAttempt \/ HandleTryAgain

World ==
    \/ CheckoutThrows \/ CheckoutRedirects
    \/ \E kind \in {"verify", "settle"} : CheckoutReturns(kind)
    \/ \E a \in Attempts : PaymentEnds(a)
    \/ \E o \in Orders : Backend(o)

Next == Customer \/ World \/ \E c \in Calls : Answer(c) \/ Lands(c)

Spec == Init /\ [][Next]_vars

\* A request is answered or given up, and its handler runs.
AnsweringSpec == Spec /\ \A c \in Calls : WF_vars(Answer(c)) /\ WF_vars(Lands(c))

-----------------------------------------------------------------------------
\* Properties

\* A payment that has taken money, or still may.
MayLand(a) == payment[a] # None /\ payment[a].state \in {"pending", "success"}

\* The Pay button is never on screen for an order that a payment made earlier
\* has paid or may yet pay: not after a reload in the middle of a checkout, an
\* answer that comes late, a checkout left behind or a check that failed
\* (paymentState MAY_START_NEW_PAYMENT, paymentAttempt clearAttempt).
PayIsOfferedOnlyWhenSafe ==
    PayOffered => \A a \in Attempts : MayLand(a) => payment[a].order # page.order

\* The same, but for orders whose record the late answer of another order's
\* checkout has cleared: that is the only way to a second charge.
PayIsSafeUnlessErased ==
    PayOffered /\ page.order \notin erased
        => \A a \in Attempts : MayLand(a) => payment[a].order # page.order

\* As long as the device holds an order whose confirmation was not shown, it
\* remembers an attempt of that order if money may be moving for it, which is
\* what stops a later visit from arming a second payment.  The one slot
\* forgets in a single way: settleAfterCheckout, for another order, clears it.
MoneyIsRememberedUnlessErased ==
    \A a \in Attempts : MayLand(a) =>
        \/ payment[a].order \in confirmed \cup erased
        \/ orderKey # payment[a].order
        \/ ReadAttempt(payment[a].order) # None

\* The confirmation is shown on the backend's word only: for an order that was
\* settled, and so for a payment that succeeded at the gateway.
ConfirmationMeansPaid ==
    \A o \in confirmed : status[o] \in {"paid", "refunded"} /\ Holds(o, "success")

\* No answer leaves the page on a spinner, with every button disabled: each
\* phase that waits for a request ends with that request, for a customer who
\* does not reload for ever.
Waiting == page # None /\ page.phase \in {"initializing", "verifying"}
ScreenMovesOn == <>[][~Reload]_vars => (Waiting ~> ~Waiting)
=============================================================================
