-------------------------- MODULE MCPaymentService --------------------------
(***************************************************************************)
(* PaymentService for TLC.  Sessions are interchangeable, and so are the   *)
(* payments of the provider.                                               *)
(***************************************************************************)
EXTENDS PaymentService, TLC

Symmetry == Permutations(Sessions) \cup Permutations(Intents)
=============================================================================
