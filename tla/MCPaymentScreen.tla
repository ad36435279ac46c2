--------------------------- MODULE MCPaymentScreen ---------------------------
(* An instance of PaymentScreen for TLC. *)
EXTENDS PaymentScreen

\* The customer who may do everything: who orders again and uses the browser's
\* back button.  Whatever another customer does, this one may do.
AnyCustomer == {Habits}
=============================================================================
