-------------------------- MODULE MCRefundService --------------------------
(***************************************************************************)
(* Symmetry for model-checking RefundService: the sessions, the refund     *)
(* keys and the provider's refunds are interchangeable.                    *)
(***************************************************************************)
EXTENDS RefundService, TLC

Symmetry ==
    Permutations(Sessions) \cup Permutations(RefundKeys) \cup Permutations(Operations)
=============================================================================
