--------------------------- MODULE RefundService ---------------------------
(***************************************************************************)
(* Refunds of captured payments: RefundService.create_refund under the     *)
(* sagas execute and retry, and the worker tasks of refund_tasks.py.       *)
(*                                                                         *)
(* As in PaymentService a request reads, calls the provider and commits,   *)
(* and other sessions run in between.  The new refund row is inserted      *)
(* before the call and committed after it, together with the payment's     *)
(* refunded total, which is written as the value read plus the amount.     *)
(***************************************************************************)
EXTENDS PaymentStore, FiniteSets, Functions

CONSTANTS
    RefundKeys,   \* idempotency keys of refund requests
    Operations,   \* identities of the providers' refunds
    NoOperation,  \* gateway_refund_id IS NULL
    Sessions

ASSUME RefundAssumption ==
    /\ NoOperation \notin Operations
    /\ IsFiniteSet(Operations) /\ IsFiniteSet(RefundKeys)

VARIABLES
    refund,     \* [RefundKeys -> Refund], the committed refunds
    operation,  \* [Operations -> Operation], the providers' refunds
    sess,       \* [Sessions -> Session]
    orphan      \* history: provider refunds whose id never reached a commit

vars == <<row, intent, refund, operation, sess, orphan>>

Refund == [status : RefundStatus \cup {"absent"},
           key    : Keys \cup {NoKey},
           amount : 0..Total,
           gw     : Operations \cup {NoOperation}]

NoRefund == [status |-> "absent", key |-> NoKey, amount |-> 0, gw |-> NoOperation]

Operation == [state  : {"unused", "pending", "succeeded", "failed"},
              refund : RefundKeys \cup {NoKey},
              intent : Intents \cup {NoIntent},
              amount : 0..Total]

UnusedOperation == [state |-> "unused", refund |-> NoKey, intent |-> NoIntent, amount |-> 0]

Requests == {"execute", "retry", "get_status"}
Tasks    == {"process_refund", "retry_refund", "cancel_pending_refund"}

\* `copy' is the payment as read, `new' the refund being written: the inserted
\* row of a request, the row a task read, and in the end what is returned.
Session == [pc        : {"idle", "checked", "calling", "replied", "returned", "read"},
            op        : Requests \cup Tasks \cup {"none"},
            refund    : RefundKeys \cup {NoKey},
            new       : Refund,
            copy      : Row,
            ok        : BOOLEAN,
            operation : Operations \cup {NoOperation}]

Idle == [pc |-> "idle", op |-> "none", refund |-> NoKey, new |-> NoRefund,
         copy |-> NoRow, ok |-> FALSE, operation |-> NoOperation]

TypeOK ==
    /\ StoreTypeOK
    /\ refund \in [RefundKeys -> Refund]
    /\ operation \in [Operations -> Operation]
    /\ sess \in [Sessions -> Session]
    /\ orphan \in SUBSET Operations

\* A payment PaymentService has recorded as captured, in full or, by Stripe,
\* in part.
Captured(k) ==
    /\ row[k].status = "succeeded"
    /\ \/ row[k].provider = "stripe" /\ row[k].captured > 0
       \/ row[k].provider = "paypal" /\ row[k].captured = Total
    /\ row[k].refunded = 0
    /\ row[k].gw # NoIntent
    /\ intent[row[k].gw] = [state |-> "succeeded", key |-> k, provider |-> row[k].provider,
                            captured |-> row[k].captured, refunded |-> 0]

Init ==
    /\ StoreTypeOK
    /\ \A k \in Keys : Captured(k)
    /\ \A i \in Intents : intent[i].state # "unused" =>
          intent[i].key \in Keys /\ row[intent[i].key].gw = i
    /\ refund = [q \in RefundKeys |-> NoRefund]
    /\ operation = [o \in Operations |-> UnusedOperation]
    /\ sess = [s \in Sessions |-> Idle]
    /\ orphan = {}

Recorded(q) == refund[q].status # "absent"

At(s, pc, ops) == sess[s].pc = pc /\ sess[s].op \in ops

\* UPDATE of one column: issued only if the value differs from the one read.
Written(current, read, new) == IF new = read THEN current ELSE new

End(s) == sess' = [sess EXCEPT ![s] = Idle]

\* A session that answers its client with refund r, of which its status counts.
Return(s, op, r) ==
    sess' = [sess EXCEPT ![s] =
                [Idle EXCEPT !.pc = "returned", !.op = op, !.new.status = r.status]]

----------------------------------------------------------------------------
(* A refund request                                                        *)

\* The key is new, and a retry is then an execute: the payment is read, must be
\* refundable, and must have the amount left.
BeginRefund(s, q, k, amount) ==
    /\ sess[s].pc = "idle"
    /\ ~Recorded(q)
    /\ RefundAllowed(row[k].status, row[k].captured, row[k].refunded, amount)
    /\ sess' = [sess EXCEPT ![s] =
                   [Idle EXCEPT !.pc = "checked", !.op = "execute", !.refund = q, !.copy = row[k],
                                !.new = [status |-> "pending", key |-> k,
                                         amount |-> amount, gw |-> NoOperation]]]
    /\ UNCHANGED <<row, intent, refund, operation, orphan>>

\* The key is known: execute returns the refund it has, and retry, which looks
\* first for one that succeeded or is being processed, ends in execute.
BeginKnown(s, op, q) ==
    /\ sess[s].pc = "idle"
    /\ Recorded(q)
    /\ Return(s, op, refund[q])
    /\ UNCHANGED <<row, intent, refund, operation, orphan>>

\* POST /refunds and POST /refunds/retry: with a new key they are one and the same.
CreateRefund(s, q) ==
    \/ \E k \in Keys, amount \in 1..Total : BeginRefund(s, q, k, amount)
    \/ BeginKnown(s, "execute", q)

RetryRefund(s, q) == BeginKnown(s, "retry", q)

\* GET /refunds/{id} and /refunds/{id}/status answer with the row of the moment.
GetStatus(s, q) == BeginKnown(s, "get_status", q)

GetRefund(s, q) == GetStatus(s, q)

GetRefundStatus(s, q) == GetStatus(s, q)

\* The client has its answer.
Close(s) ==
    /\ sess[s].pc = "returned"
    /\ End(s)
    /\ UNCHANGED <<row, intent, refund, operation, orphan>>

\* The refund row is inserted and not committed.
Holds(s) == sess[s].op = "execute" /\ sess[s].pc \in {"calling", "replied"}

\* A bug to catch: the key is not unique in the table.
InsertDuplicate(s) ==
    /\ At(s, "checked", {"execute"})
    /\ IF sess[s].copy.gw = NoIntent THEN End(s) ELSE sess' = [sess EXCEPT ![s].pc = "calling"]
    /\ UNCHANGED <<row, intent, refund, operation, orphan>>

\* INSERT ... (flush): waits for another insert of the key, and fails if that
\* one was committed.  A payment without a provider id ends the request too.
Insert(s) ==
    /\ At(s, "checked", {"execute"})
    /\ \A t \in Sessions : ~(Holds(t) /\ sess[t].refund = sess[s].refund)
    /\ IF Recorded(sess[s].refund) \/ sess[s].copy.gw = NoIntent
         THEN End(s)
         ELSE sess' = [sess EXCEPT ![s].pc = "calling"]
    /\ UNCHANGED <<row, intent, refund, operation, orphan>>

\* The provider gives back what it captured at most; what it has accepted it
\* completes at once or later.
Refundables(i, amount) == intent[i].refunded + amount <= intent[i].captured

\* A bug to catch: what the provider has accepted counts as done.
AcceptedAsDone(state) == "succeeded"

\* _resolve_refund_status, of the two words the clients use.
Accepted(state) == IF RefundWord(state) = "succeeded" THEN "succeeded" ELSE "processing"

\* The answer arrives with the refund's id, or without one, or is lost; or the
\* provider refuses, or was never reached.
GatewayRefunds(s) ==
    LET i == sess[s].copy.gw
        amount == sess[s].new.amount
    IN  /\ At(s, "calling", {"execute"})
        /\ \/ /\ Refundables(i, amount)
              /\ intent' = [intent EXCEPT ![i].refunded = @ + amount]
              /\ \E o \in Operations, st \in {"pending", "succeeded"} :
                    /\ operation[o].state = "unused"
                    /\ operation' = [operation EXCEPT ![o] =
                                        [state |-> st, refund |-> sess[s].refund,
                                         intent |-> i, amount |-> amount]]
                    /\ \/ /\ sess' = [sess EXCEPT
                                        ![s].pc = "replied", ![s].ok = TRUE,
                                        ![s].operation = o,
                                        ![s].new.status = Accepted(st)]
                          /\ UNCHANGED orphan
                       \/ /\ \E ok \in BOOLEAN :
                                sess' = [sess EXCEPT
                                           ![s].pc = "replied", ![s].ok = ok,
                                           ![s].new.status = IF ok THEN Accepted(st) ELSE @]
                          /\ orphan' = orphan \cup {o}
           \/ /\ sess' = [sess EXCEPT ![s].pc = "replied"]
              /\ UNCHANGED <<intent, operation, orphan>>
        /\ UNCHANGED <<row, refund>>

\* A bug to catch: only a refund that succeeded keeps the provider's id.
FinishRefundIdOnSuccess(s) ==
    LET done == sess[s].ok /\ sess[s].new.status = "succeeded"
        new == [sess[s].new EXCEPT !.gw = IF done THEN sess[s].operation ELSE NoOperation]
    IN  /\ At(s, "replied", {"execute"})
        /\ refund' = [refund EXCEPT ![sess[s].refund] = new]
        /\ End(s)
        /\ UNCHANGED <<row, intent, operation, orphan>>

\* The refund and, if it succeeded, the payment's total and status are written
\* and committed.  A call that raised leaves a failed refund.
FinishRefund(s) ==
    LET q == sess[s].refund
        k == sess[s].new.key
        copy == sess[s].copy
        refunded == copy.refunded + sess[s].new.amount
        new == IF sess[s].ok
                 THEN [sess[s].new EXCEPT !.gw = sess[s].operation]
                 ELSE [sess[s].new EXCEPT !.status = "failed"]
    IN  /\ At(s, "replied", {"execute"})
        /\ refund' = [refund EXCEPT ![q] = new]
        /\ row' = IF new.status = "succeeded"
                    THEN [row EXCEPT
                            ![k].refunded = refunded,
                            ![k].status = Written(@, copy.status,
                                                  StatusAfterRefund(refunded, Total))]
                    ELSE row
        /\ IF sess[s].ok THEN Return(s, "execute", new) ELSE End(s)
        /\ UNCHANGED <<intent, operation, orphan>>

----------------------------------------------------------------------------
(* The tasks: read the refund, then write its status                       *)

\* A bug to catch: a task takes a refund that has succeeded.
TaskAppliesToAny(op, status) == status # "cancelled"

TaskApplies(op, status) ==
    CASE op = "process_refund" -> status \notin {"succeeded", "cancelled", "failed"}
      [] op = "retry_refund" -> status # "succeeded"
      [] op = "cancel_pending_refund" -> status \notin {"succeeded", "failed", "cancelled"}

BeginTask(s, op, q) ==
    /\ sess[s].pc = "idle"
    /\ Recorded(q)
    /\ TaskApplies(op, refund[q].status)
    /\ sess' = [sess EXCEPT ![s] = [Idle EXCEPT !.pc = "read", !.op = op, !.refund = q,
                                                !.new = refund[q]]]
    /\ UNCHANGED <<row, intent, refund, operation, orphan>>

\* A bug to catch: the provider's spelling of the word.
TaskStatusAsSpelt(op) == IF op = "cancel_pending_refund" THEN "canceled" ELSE "processing"

TaskStatus(op) == IF op = "cancel_pending_refund" THEN "cancelled" ELSE "processing"

\* No provider is asked: processing and retrying only mark the row.
FinishTask(s) ==
    /\ At(s, "read", Tasks)
    /\ refund' = [refund EXCEPT
            ![sess[s].refund].status =
                Written(@, sess[s].new.status, TaskStatus(sess[s].op))]
    /\ End(s)
    /\ UNCHANGED <<row, intent, operation, orphan>>

----------------------------------------------------------------------------
\* The session dies before its commit and is rolled back.
Crash(s) ==
    /\ sess[s].pc \in {"checked", "calling", "replied", "read"}
    /\ End(s)
    /\ orphan' = orphan \cup ({sess[s].operation} \ {NoOperation})
    /\ UNCHANGED <<row, intent, refund, operation>>

\* The provider completes or refuses what it had accepted.
OperationSettles(o) ==
    /\ operation[o].state = "pending"
    /\ \/ /\ operation' = [operation EXCEPT ![o].state = "succeeded"]
          /\ UNCHANGED intent
       \/ /\ operation' = [operation EXCEPT ![o].state = "failed"]
          /\ intent' = [intent EXCEPT ![operation[o].intent].refunded = @ - operation[o].amount]
    /\ UNCHANGED <<row, refund, sess, orphan>>

Step(s) ==
    Insert(s) \/ GatewayRefunds(s) \/ FinishRefund(s) \/ FinishTask(s) \/ Close(s)

Begin(s, q) ==
    \/ CreateRefund(s, q) \/ RetryRefund(s, q)
    \/ GetRefund(s, q) \/ GetRefundStatus(s, q)
    \/ \E op \in Tasks : BeginTask(s, op, q)

Next ==
    \/ \E s \in Sessions : Step(s) \/ Crash(s)
    \/ \E s \in Sessions, q \in RefundKeys : Begin(s, q)
    \/ \E o \in Operations : OperationSettles(o)

Spec == Init /\ [][Next]_vars

----------------------------------------------------------------------------
(* What holds                                                              *)

\* A provider refund whose id the service was given and has not lost.
Known(o) == operation[o].state # "unused" /\ o \notin orphan

\* Every provider refund is known to the refund row of its key, or to the one
\* session about to write that row; otherwise its id was lost with an answer
\* or a rollback.  The tasks, which rewrite refund rows, never drop it.
RefundsAreRecorded ==
    \A o \in Operations : Known(o) =>
        \/ refund[operation[o].refund].gw = o
        \/ \E s \in Sessions : /\ Holds(s)
                              /\ sess[s].refund = operation[o].refund
                              /\ sess[s].operation = o

AmountOf(S) == SumFunctionOnSet([o \in Operations |-> operation[o].amount], S)

GivenBack(k) ==
    AmountOf({o \in Operations : operation[o].state = "succeeded"
                                 /\ operation[o].intent = row[k].gw})

\* Overlapping refunds may lose an update of the payment's refunded total, but
\* never inflate it: it is at most what the provider has given back, and a
\* payment called refunded was given back in full.
RefundedIsNeverOverstated ==
    \A k \in Keys :
        /\ row[k].refunded <= GivenBack(k)
        /\ row[k].status = "refunded" => GivenBack(k) = Total

SucceededTotal(k) ==
    SumFunctionOnSet([q \in RefundKeys |-> refund[q].amount],
                     {q \in RefundKeys : refund[q].status = "succeeded" /\ refund[q].key = k})

LedgerExact(k) == row[k].refunded = SucceededTotal(k)

\* The payment's refunded total is the sum of its succeeded refunds, and stops
\* being so only when a refund commits over a total that another refund moved
\* after it was read (refund_service.py:70-76 against :122).
LedgerLostOnlyToStaleRead ==
    [][\A k \in Keys : LedgerExact(k) =>
          \/ LedgerExact(k)'
          \/ \E s \in Sessions : /\ Holds(s)
                                /\ sess[s].new.key = k
                                /\ sess[s].copy.refunded # row[k].refunded]_vars

\* How a refund key stands, seen as an idempotent call of the provider.
ClaimOf(q) ==
    CASE Recorded(q) -> "recorded"
      [] \E s \in Sessions : Holds(s) /\ sess[s].refund = q /\ sess[s].pc = "calling" -> "claimed"
      [] \E s \in Sessions : Holds(s) /\ sess[s].refund = q /\ sess[s].pc = "replied" -> "answered"
      [] OTHER -> "free"

Idempotent == INSTANCE IdempotentCall
                WITH Keys <- RefundKeys,
                     Effects <- Operations,
                     claim <- [q \in RefundKeys |-> ClaimOf(q)],
                     known <- [q \in RefundKeys |->
                                 {o \in Operations : Known(o) /\ operation[o].refund = q}],
                     used <- {o \in Operations : operation[o].state # "unused"}

\* Refund requests keep the promise of the idempotency key, whatever the tasks
\* do to the refund rows: one provider call per uncommitted insert, none once a
\* row is committed.
KeepsKeyPromise == Idempotent!Spec

----------------------------------------------------------------------------
(* What the code says of itself and does not do                            *)

\* POST /refunds/retry, "Reprocessa uma solicitacao de reembolso": a retry is
\* answered with a refund that went through or is going through, never with
\* the failure it was to repeat.
RetryReprocesses ==
    \A s \in Sessions : sess[s].pc = "returned" /\ sess[s].op = "retry" =>
        sess[s].new.status \in {"succeeded", "processing"}

\* The tasks run over every refund again and again, and the provider ends what
\* it accepted.
FollowUp ==
    /\ \A s \in Sessions : WF_vars(Step(s))
    /\ \A q \in RefundKeys : WF_vars(\E s \in Sessions : BeginTask(s, "process_refund", q))
    /\ \A o \in Operations : WF_vars(OperationSettles(o))

FollowUpSpec == Spec /\ FollowUp

\* process_refund lets one "verificar o estado externo e sincronizar o
\* resultado local": a refund the provider has completed does not stay in
\* processing.
FollowedUp ==
    \A q \in RefundKeys, o \in Operations :
        refund[q].gw = o /\ refund[q].status = "processing" /\ operation[o].state = "succeeded"
            ~> refund[q].status # "processing"
=============================================================================
