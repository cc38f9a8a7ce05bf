--------------------------- MODULE IdempotentCall ---------------------------
(***************************************************************************)
(* What an idempotency key promises to the client of payment-service, for  *)
(* payments and for refunds alike, and no more than that:                  *)
(*                                                                         *)
(*  - one attempt at a time owns the key, and it calls the provider once;  *)
(*  - an attempt ends recorded, after which the key is never used again, or*)
(*    abandoned, after which the next attempt starts from nothing;         *)
(*  - the effects the service knows of are kept until then.                *)
(*                                                                         *)
(* An effect whose identity is lost (the answer did not arrive, or the     *)
(* attempt was abandoned) stays at the provider: the promise is about the  *)
(* calls, it cannot undo one.                                              *)
(***************************************************************************)
CONSTANTS Keys, Effects

VARIABLES
    claim,   \* [Keys -> phase of the attempt that owns the key]
    known,   \* [Keys -> the effects known to be this key's]
    used     \* effects the provider has ever performed

vars == <<claim, known, used>>

Init ==
    /\ claim = [k \in Keys |-> "free"]
    /\ known = [k \in Keys |-> {}]
    /\ used = {}

Claim(k) ==
    /\ claim[k] = "free"
    /\ claim' = [claim EXCEPT ![k] = "claimed"]
    /\ UNCHANGED <<known, used>>

\* The one call: refused, or performed with an answer the attempt knows the
\* effect by, or performed in vain.
Call(k) ==
    /\ claim[k] = "claimed"
    /\ claim' = [claim EXCEPT ![k] = "answered"]
    /\ \/ UNCHANGED <<known, used>>
       \/ \E e \in Effects \ used :
            /\ used' = used \cup {e}
            /\ \/ known' = [known EXCEPT ![k] = {e}]
               \/ UNCHANGED known

Record(k) ==
    /\ claim[k] = "answered"
    /\ claim' = [claim EXCEPT ![k] = "recorded"]
    /\ UNCHANGED <<known, used>>

Abandon(k) ==
    /\ claim[k] \in {"claimed", "answered"}
    /\ claim' = [claim EXCEPT ![k] = "free"]
    /\ known' = [known EXCEPT ![k] = {}]
    /\ UNCHANGED used

Next == \E k \in Keys : Claim(k) \/ Call(k) \/ Record(k) \/ Abandon(k)

Spec == Init /\ [][Next]_vars
=============================================================================
