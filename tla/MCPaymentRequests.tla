------------------------- MODULE MCPaymentRequests -------------------------
(***************************************************************************)
(* PaymentRequests for TLC: the payments of the reservation, the sessions  *)
(* and the provider's payments are interchangeable, and at most            *)
(* MaxRequests requests are made.  One that is over at once counts if it   *)
(* did anything or was told an outcome.                                    *)
(***************************************************************************)
EXTENDS PaymentRequests, TLC

CONSTANT MaxRequests

VARIABLE begun   \* how many requests were made

MCInit == RequestInit /\ begun = 0

Begins == \E s \in Sessions : Free(s) /\ ~Free(s)'

BeginsAndEnds == request' = request /\ history' # history

MCNext ==
    /\ RequestNext
    /\ begun' = begun + IF Begins \/ BeginsAndEnds THEN 1 ELSE 0
    /\ begun' <= MaxRequests

MCSpec == MCInit /\ [][MCNext]_<<requestVars, begun>>

Symmetry ==
    Permutations(Keys) \cup Permutations(Sessions) \cup Permutations(Intents)
=============================================================================
