---------------------------- MODULE PaymentRules ----------------------------
(***************************************************************************)
(* The pure decisions of payment-service: the statuses of a transaction    *)
(* and of a refund, and how the words of a provider's answer become them.  *)
(*                                                                         *)
(* A provider's own state of a payment is one of GatewayState; the words   *)
(* the code treats alike ("paid", "captured", "completed", ...) are one    *)
(* value here.  "unknown" is an answer that carries no status at all.      *)
(***************************************************************************)
EXTENDS Naturals

TransactionStatus ==
    {"pending", "authorized", "processing", "succeeded", "failed",
     "cancelled", "refunded", "partially_refunded"}

RefundStatus == {"pending", "processing", "succeeded", "failed", "cancelled"}

PaymentProvider == {"stripe", "paypal"}

GatewayState ==
    {"processing", "requires_capture", "succeeded", "failed", "canceled"}

\* A transaction still moving towards an outcome: what may be cancelled, and
\* what the periodic reconciliation selects.
Cancellable == {"pending", "authorized", "processing"}

Refundable == {"succeeded", "partially_refunded"}

----------------------------------------------------------------------------
(* What the two gateway clients make of the provider's answer to a create  *)
(* request that was not refused.  PayPal only tells "completed" apart.     *)
NormalizeCreated(provider, state) ==
    CASE provider = "stripe" /\ state = "requires_capture" -> "authorized"
      [] state = "succeeded" -> "succeeded"
      [] OTHER -> "processing"

\* A capture takes what was asked for by Stripe, and by PayPal the whole order.
CapturedBy(provider, amount, total) == IF provider = "stripe" THEN amount ELSE total

\* The PayPal client refuses to cancel without calling anybody.
CancelsByCall(provider) == provider = "stripe"

\* Only Stripe's report of a payment carries the captured amount.
ReportsCaptured(provider) == provider = "stripe"

\* Of a refund, either client tells only the one that is done apart.
RefundWord(state) == IF state = "succeeded" THEN "succeeded" ELSE "processing"

\* PaymentService._resolve_payment_status: a payment that asks for a capture
\* is "authorized" whatever the provider said, a refusal excepted.
ResolvePaymentStatus(word, requiresCapture) ==
    CASE word = "failed" -> "failed"
      [] word # "failed" /\ requiresCapture -> "authorized"
      [] word = "succeeded" /\ ~requiresCapture -> "succeeded"
      [] OTHER -> "processing"

\* A bug to catch: the provider's spelling of the word is stored as it came.
PolledStatusAsSpelt(state) ==
    IF state \in {"succeeded", "failed", "canceled"} THEN state ELSE "processing"

\* The status process_payment derives from the provider's raw state.  The
\* state "requires_capture" is none of the words it looks for.
PolledStatus(state) ==
    CASE state = "succeeded" -> "succeeded"
      [] state = "failed" -> "failed"
      [] state = "canceled" -> "cancelled"
      [] OTHER -> "processing"

\* _normalize_external_status of the reconciliation.
NormalizeExternalStatus(state) ==
    IF state = "requires_capture" THEN "authorized" ELSE PolledStatus(state)

\* _detect_discrepancy: TRUE where it returns a message, so that nothing is
\* synchronised.
Discrepancy(internal, external) ==
    /\ internal # external
    /\ ~(internal = "authorized" /\ external = "succeeded")
    /\ ~(internal = "processing" /\ external \in {"succeeded", "failed", "cancelled"})

----------------------------------------------------------------------------
\* RefundService._validate_refundable_transaction and the amount check that
\* follows it.
RefundAllowed(status, captured, refunded, amount) ==
    /\ status \in Refundable
    /\ captured > 0
    /\ amount + refunded <= captured

\* The transaction's status after a refund that brings the refunded total to
\* `refunded': it is compared with the amount of the payment, not with what
\* was captured of it.
StatusAfterRefund(refunded, total) ==
    IF refunded >= total THEN "refunded" ELSE "partially_refunded"
=============================================================================
