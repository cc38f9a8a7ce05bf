---------------------------- MODULE PaymentStore ----------------------------
(***************************************************************************)
(* What the operations of payment-service share: the committed rows of the *)
(* `transactions' table and, outside the program, the payments the         *)
(* providers hold.                                                         *)
(*                                                                         *)
(* A row is named by its idempotency key (unique in the table).  A payment *)
(* of a provider is an intent: a Stripe payment intent or a PayPal order.  *)
(* Every payment is for Total units of money; `captured' counts units.     *)
(***************************************************************************)
EXTENDS PaymentRules

CONSTANTS
    Keys,      \* idempotency keys clients pay with
    Intents,   \* identities of the provider's payments
    Total,     \* the amount of a payment
    NoIntent,  \* gateway_transaction_id IS NULL
    NoKey

ASSUME StoreAssumption ==
    /\ Total \in Nat \ {0}
    /\ NoIntent \notin Intents
    /\ NoKey \notin Keys

VARIABLES
    row,       \* [Keys -> Row], the committed transactions
    intent     \* [Intents -> Intent], the providers' records

storeVars == <<row, intent>>

Row == [status   : TransactionStatus \cup {"absent"},
        provider : PaymentProvider \cup {"none"},
        gw       : Intents \cup {NoIntent},
        captured : 0..Total,
        refunded : 0..Total]

NoRow == [status |-> "absent", provider |-> "none", gw |-> NoIntent,
          captured |-> 0, refunded |-> 0]

Intent == [state    : GatewayState \cup {"unused"},
           key      : Keys \cup {NoKey},
           provider : PaymentProvider \cup {"none"},
           captured : 0..Total,
           refunded : 0..Total]

UnusedIntent == [state |-> "unused", key |-> NoKey, provider |-> "none",
                 captured |-> 0, refunded |-> 0]

StoreTypeOK ==
    /\ row \in [Keys -> Row]
    /\ intent \in [Intents -> Intent]

StoreInit ==
    /\ row = [k \in Keys |-> NoRow]
    /\ intent = [i \in Intents |-> UnusedIntent]

Exists(k) == row[k].status # "absent"

----------------------------------------------------------------------------
(* The provider.  A capture takes a Stripe payment that was authorised or  *)
(* a PayPal order the payer has approved ("processing" to the code); only  *)
(* Stripe has a cancel operation.                                          *)
MayCapture(i) ==
    IF intent[i].provider = "stripe"
      THEN intent[i].state = "requires_capture"
      ELSE intent[i].state = "processing"

MayCancel(i) == intent[i].state \in {"processing", "requires_capture"}

\* Provider p opens payment i for key k in state st.
Opened(i, k, p, st) ==
    [intent EXCEPT ![i] = [state    |-> st,
                           key      |-> k,
                           provider |-> p,
                           captured |-> IF st = "succeeded" THEN Total ELSE 0,
                           refunded |-> 0]]

OpeningStates(provider) ==
    {"processing", "succeeded"}
        \cup (IF provider = "stripe" THEN {"requires_capture"} ELSE {})

\* Without any request, a payment being processed reaches an outcome and an
\* authorisation expires.
GatewaySettles(i) ==
    /\ \/ /\ intent[i].state = "processing"
          /\ \E st \in {"succeeded", "failed", "canceled"} :
                intent' = [intent EXCEPT ![i].state = st,
                                         ![i].captured = IF st = "succeeded" THEN Total ELSE 0]
       \/ /\ intent[i].state = "requires_capture"
          /\ intent' = [intent EXCEPT ![i].state = "canceled"]
    /\ UNCHANGED row
=============================================================================
