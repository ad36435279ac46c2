------------------------------ MODULE OrderRow ------------------------------
(***************************************************************************)
(* One row of `orders` with its two audit trails, and the writes that move *)
(* it.  Each operator below is the body of one committed UPDATE and the    *)
(* log INSERT beside it: the row is X-locked from the UPDATE to the        *)
(* COMMIT, so no other transaction sees a state in between.                *)
(*                                                                         *)
(* Fulfilment (`status`) and money (`payment`) are separate axes.  They    *)
(* touch in ConfirmOnPayment only, and in one direction.                   *)
(***************************************************************************)
EXTENDS Naturals, Sequences

CONSTANTS
    Payments,   \* the gateway's payment attempts (cf_payment_id) for the order
    None        \* SQL NULL

OrderStatuses ==
    {"initiated", "confirmed", "preparing", "ready", "delivered", "rejected"}

PaymentStatuses == {"pending", "paid", "failed", "refunded"}

ASSUME NoneIsNoValue ==
    None \notin Payments \cup OrderStatuses \cup PaymentStatuses

-----------------------------------------------------------------------------

ORDER_TRANSITIONS ==
    [initiated |-> {"confirmed", "rejected"},
     confirmed |-> {"preparing", "rejected"},
     preparing |-> {"ready", "rejected"},
     ready     |-> {"delivered", "rejected"},
     delivered |-> {},
     rejected  |-> {}]

PAYMENT_TRANSITIONS ==
    [pending  |-> {"paid", "failed"},
     failed   |-> {"pending", "paid"},
     paid     |-> {"refunded"},
     refunded |-> {}]

KDS_ACTIVE_STATUSES == {"confirmed", "preparing", "ready"}
KDS_COMPLETED_STATUSES == {"delivered"}
KDS_ALLOWED_TARGETS == {"preparing", "ready", "delivered"}

\* Who or what wrote a log row: its changed_by_user_id and reason columns.
StatusAuthors == {"created", "staff", "kitchen", "payment"}
PaymentAuthors == {"created", "staff", "webhook", "reconciliation", "coupon"}

StatusEntry ==
    [prev: OrderStatuses \cup {None}, new: OrderStatuses, by: StatusAuthors]

PaymentEntry ==
    [prev: PaymentStatuses \cup {None}, new: PaymentStatuses,
     by: PaymentAuthors, gatewayPaymentId: Payments \cup {None}]

Row ==
    [status: OrderStatuses,
     payment: PaymentStatuses,
     delivered: BOOLEAN,                     \* delivered_at is not NULL
     gatewayOrder: BOOLEAN,                  \* gateway_order_id is not NULL
     gatewayPaymentId: Payments \cup {None},
     free: BOOLEAN,                          \* toPaise(total) = 0
     statusLog: Seq(StatusEntry),
     paymentLog: Seq(PaymentEntry)]

-----------------------------------------------------------------------------

\* What createOrder commits: the row and the opening entry of both trails.
NewOrder(free) ==
    [status |-> "initiated", payment |-> "pending", delivered |-> FALSE,
     gatewayOrder |-> FALSE, gatewayPaymentId |-> None, free |-> free,
     statusLog |->
        << [prev |-> None, new |-> "initiated", by |-> "created"] >>,
     paymentLog |->
        << [prev |-> None, new |-> "pending", by |-> "created",
            gatewayPaymentId |-> None] >>]

(***************************************************************************)
(* applyStatusTransition, from its compare-and-set on.  `seen` is the      *)
(* status its caller read; a row that moved since matches nothing, and the *)
(* caller gets a ConflictError (StatusUnmoved is the WHERE clause).        *)
(***************************************************************************)

\* Mutant: an UPDATE by id alone.
StatusUnmovedByIdOnly(row, seen) == TRUE

StatusUnmoved(row, seen) == row.status = seen

ApplyStatusTransition(row, seen, target, by) ==
    [row EXCEPT
        !.status = target,
        !.delivered = @ \/ target = "delivered",
        !.statusLog = Append(@, [prev |-> seen, new |-> target, by |-> by])]

\* confirmOnPayment's WHERE clause: it moves an order still initiated only.
AwaitsConfirmation(row) == row.status = "initiated"

ConfirmOnPayment(row) ==
    IF AwaitsConfirmation(row)
    THEN [row EXCEPT
            !.status = "confirmed",
            !.statusLog = Append(@, [prev |-> "initiated", new |-> "confirmed",
                                     by |-> "payment"])]
    ELSE row

(***************************************************************************)
(* applyPaidTransition: pending -> paid, by whichever source of the        *)
(* payment comes first, and the seam behind it.  `id` is None for a source *)
(* that carries no gateway payment, which then erases nothing.             *)
(***************************************************************************)

\* Mutant: whatever is not paid yet may be paid.
StillPendingIfUnpaid(row) == row.payment # "paid"

StillPending(row) == row.payment = "pending"

\* Mutant: the reason lands in the column of the payment id.
ApplyPaidTransitionSwapped(row, id, by) ==
    IF StillPending(row)
    THEN ConfirmOnPayment([row EXCEPT !.payment = "paid",
                                      !.gatewayPaymentId = by])
    ELSE row

ApplyPaidTransition(row, id, by) ==
    IF StillPending(row)
    THEN ConfirmOnPayment(
           [row EXCEPT
              !.payment = "paid",
              !.gatewayPaymentId = IF id = None THEN @ ELSE id,
              !.paymentLog = Append(@, [prev |-> "pending", new |-> "paid",
                                        by |-> by, gatewayPaymentId |-> id])])
    ELSE row

(***************************************************************************)
(* order.service updatePaymentStatus, from its compare-and-set on.         *)
(***************************************************************************)

\* Mutant: staff overwrite what the webhook wrote since they read.
PaymentUnmovedByIdOnly(row, seen) == TRUE

PaymentUnmoved(row, seen) == row.payment = seen

\* Mutant: cash at the counter never reaches the seam.
UpdatePaymentStatusUnseamed(row, seen, target) ==
    [row EXCEPT !.payment = target,
                !.paymentLog = Append(@, [prev |-> seen, new |-> target,
                                          by |-> "staff",
                                          gatewayPaymentId |-> None])]

UpdatePaymentStatus(row, seen, target) ==
    LET moved == [row EXCEPT
                    !.payment = target,
                    !.paymentLog = Append(@, [prev |-> seen, new |-> target,
                                              by |-> "staff",
                                              gatewayPaymentId |-> None])]
    IN  IF target = "paid" THEN ConfirmOnPayment(moved) ELSE moved

\* Mutant: the board trusts the status to imply the payment.
KitchenEligibleByStatus(row) ==
    row.status \in KDS_ACTIVE_STATUSES \cup KDS_COMPLETED_STATUSES

\* kitchen.service eligibilityWhere('all'): the row a kitchen may touch.
KitchenEligible(row) ==
    /\ row.payment = "paid"
    /\ row.status \in KDS_ACTIVE_STATUSES \cup KDS_COMPLETED_STATUSES

-----------------------------------------------------------------------------
(***************************************************************************)
(* What a trail must say: it opens at `start`, every later entry begins    *)
(* where the one before it ended and follows an edge of the graph, and the *)
(* last entry names the column's current value.                            *)
(***************************************************************************)
Replays(log, graph, start, current) ==
    /\ Len(log) > 0
    /\ log[1].prev = None /\ log[1].new = start
    /\ \A i \in 2..Len(log) :
          /\ log[i].prev = log[i - 1].new
          /\ log[i].new \in graph[log[i - 1].new]
    /\ log[Len(log)].new = current

\* Some entry of a trail satisfies the test.
Logged(log, Test(_)) == \E i \in DOMAIN log : Test(log[i])

=============================================================================
