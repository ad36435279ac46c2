--------------------------- MODULE MCOrderCreation ---------------------------
(***************************************************************************)
(* OrderCreation on small instances, and what comments say of it that the  *)
(* code does not keep.                                                     *)
(***************************************************************************)
EXTENDS OrderCreation

(***************************************************************************)
(* order.service.js: "an order whose status has no opening log entry, is a *)
(* broken record".  The loser of the race for the key commits one.         *)
(***************************************************************************)
NoBrokenRecord == orders \subseteq opened

(***************************************************************************)
(* App.tsx of the idle reset: clearing the customer's data "is the part    *)
(* that actually protects the next person".  A submission still in flight  *)
(* opens the payment page on the previous customer's order.                *)
(***************************************************************************)
PaymentPageIsTheCustomersOwn ==
    \A b \in Browsers : screen[b] # None => sent[screen[b]].visitor = visitor[b]

=============================================================================
