---------------------------- MODULE OrderPromise ----------------------------
(***************************************************************************)
(* What the backend promises about one order, with no requests, gateways   *)
(* or races in it: a status and a payment, each moving one edge of its     *)
(* graph at a time with its history kept beside it, and a payment that     *)
(* arrives on an untouched order starting its fulfilment in the same step. *)
(*                                                                         *)
(* OrderLifecycle implements this specification (see LifecycleKeepsPromise *)
(* in OrderLifecycleProofs).                                               *)
(***************************************************************************)
EXTENDS Sequences

CONSTANTS
    StatusGraph,    \* status  -> the statuses it may become
    PaymentGraph    \* payment -> the payment statuses it may become

VARIABLES
    status,
    payment,
    statusHistory,  \* every status the order has had, oldest first
    paymentHistory  \* every payment status it has had, oldest first

promiseVars == <<status, payment, statusHistory, paymentHistory>>

Init ==
    /\ status = "initiated"
    /\ payment = "pending"
    /\ statusHistory = <<"initiated">>
    /\ paymentHistory = <<"pending">>

\* Somebody moves the order along its fulfilment graph.
Fulfil(s) ==
    /\ s \in StatusGraph[status]
    /\ status' = s
    /\ statusHistory' = Append(statusHistory, s)
    /\ UNCHANGED <<payment, paymentHistory>>

\* The payment moves; becoming paid is what starts fulfilment.
Settle(s) ==
    /\ s \in PaymentGraph[payment]
    /\ payment' = s
    /\ paymentHistory' = Append(paymentHistory, s)
    /\ IF s = "paid" /\ status = "initiated"
       THEN /\ status' = "confirmed"
            /\ statusHistory' = Append(statusHistory, "confirmed")
       ELSE UNCHANGED <<status, statusHistory>>

Next ==
    \/ \E s \in DOMAIN StatusGraph : Fulfil(s)
    \/ \E s \in DOMAIN PaymentGraph : Settle(s)

Spec == Init /\ [][Next]_promiseVars

=============================================================================
