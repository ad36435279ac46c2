-------------------------- MODULE MCOrderLifecycle --------------------------
(***************************************************************************)
(* OrderLifecycle on small instances.  Each configuration brings together  *)
(* the requests whose races it is about; requests of one endpoint and the  *)
(* payments are interchangeable.                                           *)
(***************************************************************************)
EXTENDS OrderLifecycle, TLC

Interchangeable ==
    Permutations(StatusRequests) \cup Permutations(PaymentRequests)
        \cup Permutations(KitchenRequests) \cup Permutations(InitRequests)
        \cup Permutations(VerifyRequests) \cup Permutations(Payments)

=============================================================================
