--------------------------- MODULE PaymentService ---------------------------
(***************************************************************************)
(* The life of a payment in payment-service: PaymentService and            *)
(* PaymentSaga, the worker tasks of payment_tasks.py and the               *)
(* reconciliation, run by concurrent database sessions over the rows and   *)
(* the providers of PaymentStore.                                          *)
(*                                                                         *)
(* One session is one HTTP request, event or task.  It reads the row, waits*)
(* for the provider, and writes and commits.  The wait is the only long    *)
(* await, so an operation is three steps: Begin..., Gateway..., Finish...  *)
(* Between them other sessions run, the provider's answer may be lost, and *)
(* the session may die and be rolled back.  A session works on the copy of *)
(* the row it read first (the ORM's identity map), and writes only columns *)
(* that differ from that copy; nothing checks a version.                   *)
(***************************************************************************)
EXTENDS PaymentStore

CONSTANTS Sessions

VARIABLES
    sess,      \* [Sessions -> Session]
    orphan     \* history: provider payments whose id never reached a commit

vars == <<row, intent, sess, orphan>>

Creating == {"execute", "execute_with_capture"}
Reading  == {"process", "reconcile"}

\* What the client code makes of the provider's answer; ok is FALSE when it
\* raises PaymentGatewayError or one of its subclasses.
Reply == [ok : BOOLEAN, state : GatewayState \cup {"unknown"}, captured : 0..Total]

NoReply == [ok |-> FALSE, state |-> "unknown", captured |-> 0]

Session == [pc              : {"idle", "checked", "calling", "replied", "compensating"},
            op              : Creating \cup Reading \cup {"none", "capture", "cancel"},
            key             : Keys \cup {NoKey},
            requiresCapture : BOOLEAN,
            amount          : 0..Total,
            copy            : Row,
            intent          : Intents \cup {NoIntent},
            reply           : Reply]

Idle == [pc |-> "idle", op |-> "none", key |-> NoKey, requiresCapture |-> FALSE,
         amount |-> 0, copy |-> NoRow, intent |-> NoIntent, reply |-> NoReply]

\* A session that has read row r of key k and calls the provider for op.
Calling(op, k, r) ==
    [Idle EXCEPT !.pc = "calling", !.op = op, !.key = k, !.copy = r]

TypeOK ==
    /\ StoreTypeOK
    /\ sess \in [Sessions -> Session]
    /\ orphan \in SUBSET Intents

Init ==
    /\ StoreInit
    /\ sess = [s \in Sessions |-> Idle]
    /\ orphan = {}

At(s, pc, ops) == sess[s].pc = pc /\ sess[s].op \in ops

Replied(s, reply) ==
    sess' = [sess EXCEPT ![s].pc = "replied", ![s].reply = reply]

\* UPDATE of one column: issued only if the value differs from the one read.
Written(current, read, new) == IF new = read THEN current ELSE new

----------------------------------------------------------------------------
(* create_payment, and the sagas execute and execute_with_capture over it  *)

\* The idempotency key is looked up; a used one is refused on the spot.
BeginCreate(s, k, op, provider, requiresCapture) ==
    /\ sess[s].pc = "idle"
    /\ ~Exists(k)
    /\ sess' = [sess EXCEPT ![s] =
                    [Idle EXCEPT !.pc = "checked",
                                 !.op = op,
                                 !.key = k,
                                 !.requiresCapture = requiresCapture,
                                 !.copy = [NoRow EXCEPT !.status = "pending",
                                                        !.provider = provider]]]
    /\ UNCHANGED <<row, intent, orphan>>

\* The session has inserted the row and not committed: the unique index makes
\* every other insert of the key wait.
Holds(s) == sess[s].op \in Creating /\ sess[s].pc \in {"calling", "replied"}

\* A bug to catch: an insert that does not wait for an uncommitted one.
InsertWithoutWaiting(s) ==
    /\ At(s, "checked", Creating)
    /\ sess' = [sess EXCEPT ![s] = IF Exists(@.key) THEN Idle ELSE [@ EXCEPT !.pc = "calling"]]
    /\ UNCHANGED <<row, intent, orphan>>

\* A bug to catch: the key is not unique in the table.
InsertDuplicate(s) ==
    /\ At(s, "checked", Creating)
    /\ \A t \in Sessions : ~(Holds(t) /\ sess[t].key = sess[s].key)
    /\ sess' = [sess EXCEPT ![s].pc = "calling"]
    /\ UNCHANGED <<row, intent, orphan>>

\* A bug to catch: an insert that fails on the key waits for it to be freed.
InsertWaitsForKey(s) == InsertDuplicate(s) /\ ~Exists(sess[s].key)

\* INSERT ... (flush): goes through, or fails because the key was committed
\* after the lookup, which ends the request with nothing written.
Insert(s) ==
    /\ At(s, "checked", Creating)
    /\ \A t \in Sessions : ~(Holds(t) /\ sess[t].key = sess[s].key)
    /\ \/ /\ ~Exists(sess[s].key)
          /\ sess' = [sess EXCEPT ![s].pc = "calling"]
       \/ /\ Exists(sess[s].key)
          /\ sess' = [sess EXCEPT ![s] = Idle]
    /\ UNCHANGED <<row, intent, orphan>>

\* A bug to catch: a request whose answer is lost is sent again.
GatewayCreatesRetrying(s) ==
    /\ At(s, "calling", Creating)
    /\ \E i \in Intents :
          /\ intent[i].state = "unused"
          /\ intent' = Opened(i, sess[s].key, sess[s].copy.provider, "processing")
          /\ \/ /\ sess' = [sess EXCEPT ![s].pc = "replied", ![s].intent = i, ![s].reply.ok = TRUE]
                /\ UNCHANGED orphan
             \/ UNCHANGED sess /\ orphan' = orphan \cup {i}
    /\ UNCHANGED row

\* The provider opens a payment, and its answer with the id arrives, or
\* arrives without an id, or is lost; or it refuses, or was never reached.
GatewayCreates(s) ==
    /\ At(s, "calling", Creating)
    /\ UNCHANGED row
    /\ \/ \E i \in Intents, st \in OpeningStates(sess[s].copy.provider) :
            LET answer == [ok |-> TRUE, state |-> st,
                           captured |-> IF st = "succeeded" THEN Total ELSE 0]
            IN  /\ intent[i].state = "unused"
                /\ intent' = Opened(i, sess[s].key, sess[s].copy.provider, st)
                /\ \/ /\ sess' = [sess EXCEPT ![s].pc = "replied",
                                              ![s].intent = i,
                                              ![s].reply = answer]
                      /\ UNCHANGED orphan
                   \/ /\ \E r \in {answer, NoReply} : Replied(s, r)
                      /\ orphan' = orphan \cup {i}
       \/ Replied(s, NoReply) /\ UNCHANGED <<intent, orphan>>

\* capture_payment on the row r: without an id it raises and the saga goes on
\* to compensate.
CaptureSession(k, r, amount) ==
    [Calling("capture", k, r) EXCEPT
        !.amount = amount,
        !.pc = IF r.gw = NoIntent THEN "compensating" ELSE "calling"]

\* _mark_failed
MarkedFailed(r) == [r EXCEPT !.status = "failed"]

\* What the session knows becomes the row and is committed: the resolved
\* status, or "failed" if the call raised.  execute_with_capture goes on to
\* capture what was authorised, in the same session.
FinishCreate(s) ==
    LET k == sess[s].key
        reply == sess[s].reply
        pending == sess[s].copy
        word == NormalizeCreated(pending.provider, reply.state)
        new == IF reply.ok
                 THEN [pending EXCEPT
                          !.status = ResolvePaymentStatus(word, sess[s].requiresCapture),
                          !.gw = sess[s].intent,
                          !.captured = reply.captured]
                 ELSE MarkedFailed(pending)
        captures == sess[s].op = "execute_with_capture" /\ new.status = "authorized"
    IN  /\ At(s, "replied", Creating)
        /\ row' = [row EXCEPT ![k] = new]
        /\ sess' = [sess EXCEPT ![s] = IF captures THEN CaptureSession(k, new, Total) ELSE Idle]
        /\ UNCHANGED <<intent, orphan>>

----------------------------------------------------------------------------
(* capture_payment under PaymentSaga.capture: from the API, from           *)
(* capture_authorized_payment and from a confirmed reservation             *)

BeginCapture(s, k, amount) ==
    /\ sess[s].pc = "idle"
    /\ row[k].status = "authorized"
    /\ sess' = [sess EXCEPT ![s] = CaptureSession(k, row[k], amount)]
    /\ UNCHANGED <<row, intent, orphan>>

\* A capture is made and answered for, or its answer is lost, or it is not made.
GatewayCaptures(s) ==
    LET i == sess[s].copy.gw
        amount == CapturedBy(sess[s].copy.provider, sess[s].amount, Total)
        answer == [ok |-> TRUE, state |-> "succeeded", captured |-> amount]
    IN  /\ At(s, "calling", {"capture"})
        /\ \/ /\ MayCapture(i)
              /\ intent' = [intent EXCEPT ![i].state = "succeeded", ![i].captured = amount]
              /\ \E r \in {answer, NoReply} : Replied(s, r)
           \/ Replied(s, NoReply) /\ UNCHANGED intent
        /\ UNCHANGED <<row, orphan>>

\* A bug to catch: the whole amount is recorded whatever was captured.
FinishCaptureInFull(s) ==
    /\ At(s, "replied", {"capture"})
    /\ row' = [row EXCEPT ![sess[s].key].status = IF sess[s].reply.ok THEN "succeeded" ELSE "failed",
                          ![sess[s].key].captured = IF sess[s].reply.ok THEN Total ELSE @]
    /\ sess' = [sess EXCEPT ![s] = Idle]
    /\ UNCHANGED <<intent, orphan>>

\* A capture that raised marks the row failed before the saga compensates.
FinishCapture(s) ==
    LET k == sess[s].key
        captured == sess[s].reply.captured
    IN  /\ At(s, "replied", {"capture"})
        /\ \/ /\ sess[s].reply.ok
              /\ row' = [row EXCEPT
                            ![k].status = "succeeded",
                            ![k].captured = Written(@, sess[s].copy.captured, captured)]
              /\ sess' = [sess EXCEPT ![s] = Idle]
           \/ /\ ~sess[s].reply.ok
              /\ row' = [row EXCEPT ![k].status = "failed"]
              /\ sess' = [sess EXCEPT ![s].pc = "compensating", ![s].copy = row'[k]]
        /\ UNCHANGED <<intent, orphan>>

----------------------------------------------------------------------------
(* cancel_payment: from the API, cancel_pending_payment, a cancelled or    *)
(* expired reservation, and the compensation of a capture                  *)

\* Without a provider id the cancellation is local.
CancelPayment(s, k, r) ==
    /\ IF r.gw = NoIntent
         THEN /\ row' = [row EXCEPT ![k].status = "cancelled"]
              /\ sess' = [sess EXCEPT ![s] = Idle]
         ELSE /\ sess' = [sess EXCEPT ![s] = Calling("cancel", k, r)]
              /\ UNCHANGED row
    /\ UNCHANGED <<intent, orphan>>

BeginCancel(s, k) ==
    /\ sess[s].pc = "idle"
    /\ row[k].status \in Cancellable
    /\ CancelPayment(s, k, row[k])

\* The provider cancels and says so, or cancels unheard, or does not.
GatewayCancels(s) ==
    LET i == sess[s].copy.gw
    IN  /\ At(s, "calling", {"cancel"})
        /\ \/ /\ CancelsByCall(sess[s].copy.provider)
              /\ MayCancel(i)
              /\ intent' = [intent EXCEPT ![i].state = "canceled"]
              /\ \E ok \in BOOLEAN : Replied(s, [NoReply EXCEPT !.ok = ok])
           \/ Replied(s, NoReply) /\ UNCHANGED intent
        /\ UNCHANGED <<row, orphan>>

\* A bug to catch: the row is cancelled although the provider refused.
FinishCancelAnyway(s) ==
    /\ At(s, "replied", {"cancel"})
    /\ row' = [row EXCEPT ![sess[s].key].status = "cancelled"]
    /\ sess' = [sess EXCEPT ![s] = Idle]
    /\ UNCHANGED <<intent, orphan>>

\* A bug to catch: the provider's spelling of the word is stored.
FinishCancelAsSpelt(s) ==
    /\ At(s, "replied", {"cancel"})
    /\ row' = IF sess[s].reply.ok
                THEN [row EXCEPT ![sess[s].key].status = "canceled"]
                ELSE row
    /\ sess' = [sess EXCEPT ![s] = Idle]
    /\ UNCHANGED <<intent, orphan>>

FinishCancel(s) ==
    /\ At(s, "replied", {"cancel"})
    /\ row' = IF sess[s].reply.ok
                THEN [row EXCEPT ![sess[s].key].status = "cancelled"]
                ELSE row
    /\ sess' = [sess EXCEPT ![s] = Idle]
    /\ UNCHANGED <<intent, orphan>>

\* _compensate_capture_failure: reads the row again, which in the same
\* session is the copy it has, and cancels it if it is still authorised.
Compensate(s) ==
    /\ sess[s].pc = "compensating"
    /\ IF sess[s].copy.status = "authorized"
         THEN CancelPayment(s, sess[s].key, sess[s].copy)
         ELSE sess' = [sess EXCEPT ![s] = Idle] /\ UNCHANGED <<row, intent, orphan>>

----------------------------------------------------------------------------
(* process_payment and reconcile_transaction: poll the provider            *)

\* A bug to catch: a cancelled payment is polled too.
BeginProcessCancelled(s, k) ==
    /\ sess[s].pc = "idle"
    /\ Exists(k)
    /\ row[k].status \notin {"succeeded", "refunded"}
    /\ sess' = [sess EXCEPT ![s] = Calling("process", k, row[k])]
    /\ UNCHANGED <<row, intent, orphan>>

BeginProcess(s, k) ==
    /\ sess[s].pc = "idle"
    /\ Exists(k)
    /\ row[k].status \notin {"succeeded", "cancelled", "refunded"}
    /\ sess' = [sess EXCEPT ![s] = Calling("process", k, row[k])]
    /\ UNCHANGED <<row, intent, orphan>>

BeginReconcile(s, k) ==
    /\ sess[s].pc = "idle"
    /\ row[k].gw # NoIntent
    /\ sess' = [sess EXCEPT ![s] = Calling("reconcile", k, row[k])]
    /\ UNCHANGED <<row, intent, orphan>>

\* The provider reports the payment as it is now.  Asked for the empty id it
\* answers something that has no status, or refuses.
GatewayReads(s) ==
    LET i == sess[s].copy.gw
    IN  /\ At(s, "calling", Reading)
        /\ \/ i # NoIntent /\ Replied(s, [ok |-> TRUE, state |-> intent[i].state,
                                          captured |-> intent[i].captured])
           \/ i = NoIntent /\ Replied(s, [NoReply EXCEPT !.ok = TRUE])
           \/ Replied(s, NoReply)
        /\ UNCHANGED <<row, intent, orphan>>

\* The columns a report of the provider changes.
Synchronized(s, status, withAmount) ==
    LET k == sess[s].key
        copy == sess[s].copy
    IN  [row EXCEPT
            ![k].status = Written(@, copy.status, status),
            ![k].captured = IF withAmount /\ ReportsCaptured(copy.provider)
                              THEN Written(@, copy.captured, sess[s].reply.captured)
                              ELSE @]

FinishProcess(s) ==
    LET status == PolledStatus(sess[s].reply.state)
    IN  /\ At(s, "replied", {"process"})
        /\ row' = IF sess[s].reply.ok
                    THEN Synchronized(s, status, status = "succeeded")
                    ELSE row
        /\ sess' = [sess EXCEPT ![s] = Idle]
        /\ UNCHANGED <<intent, orphan>>

FinishReconcile(s) ==
    LET status == NormalizeExternalStatus(sess[s].reply.state)
    IN  /\ At(s, "replied", {"reconcile"})
        /\ row' = IF sess[s].reply.ok /\ ~Discrepancy(sess[s].copy.status, status)
                    THEN Synchronized(s, status, TRUE)
                    ELSE row
        /\ sess' = [sess EXCEPT ![s] = Idle]
        /\ UNCHANGED <<intent, orphan>>

----------------------------------------------------------------------------
\* The process dies, the request is cancelled or the commit fails: what the
\* session had not committed is rolled back; what the provider did stays.
Crash(s) ==
    /\ sess[s].pc # "idle"
    /\ sess' = [sess EXCEPT ![s] = Idle]
    /\ orphan' = orphan \cup ({sess[s].intent} \ {NoIntent})
    /\ UNCHANGED <<row, intent>>

Settle(i) == GatewaySettles(i) /\ UNCHANGED <<sess, orphan>>

\* Steps the program takes by itself once a request has begun.
Step(s) ==
    \/ Insert(s) \/ GatewayCreates(s) \/ FinishCreate(s)
    \/ GatewayCaptures(s) \/ FinishCapture(s) \/ Compensate(s)
    \/ GatewayCancels(s) \/ FinishCancel(s)
    \/ GatewayReads(s) \/ FinishProcess(s) \/ FinishReconcile(s)

Begin(s, k) ==
    \/ \E op \in Creating, provider \in PaymentProvider, requiresCapture \in BOOLEAN :
          BeginCreate(s, k, op, provider, requiresCapture)
    \/ \E amount \in 1..Total : BeginCapture(s, k, amount)
    \/ BeginCancel(s, k)
    \/ BeginProcess(s, k)
    \/ BeginReconcile(s, k)

Next ==
    \/ \E s \in Sessions : Step(s) \/ Crash(s)
    \/ \E s \in Sessions, k \in Keys : Begin(s, k)
    \/ \E i \in Intents : Settle(i)

Spec == Init /\ [][Next]_vars

\* A request runs on: the calls end, with an answer or at the client's timeout,
\* and the database serves the inserts that wait for a key one after another,
\* so one that could go through again and again does.
FairSpec == Spec /\ \A s \in Sessions : SF_vars(Step(s))

----------------------------------------------------------------------------
(* What holds                                                              *)

\* A provider payment whose id the service was given and has not lost.
Known(i) == intent[i].state # "unused" /\ i \notin orphan

\* One idempotency key never leads to two payments the service knows of, as
\* long as no session died holding an answer and no answer was lost: two
\* requests with the key, at any point of each other, are serialised by the
\* insert that precedes the call (payment_service.py:92-97).
NoDoubleCharge ==
    \A i, j \in Intents :
        Known(i) /\ Known(j) /\ intent[i].key = intent[j].key => i = j

\* Every provider payment is known to the row of its key, or to the one
\* session about to write that row; otherwise its id was lost with an answer
\* or a rollback.  No commit may drop or overwrite the id of a payment.
ChargesAreRecorded ==
    \A i \in Intents : Known(i) =>
        \/ row[intent[i].key].gw = i
        \/ \E s \in Sessions : /\ Holds(s)
                              /\ sess[s].key = intent[i].key
                              /\ sess[s].intent = i

\* A payment recorded as captured was captured by the provider, and one
\* recorded as cancelled with a provider id was cancelled there, whatever
\* answers arrived late and whatever stale copies were written back.
OutcomesAreTrue ==
    \A k \in Keys : row[k].gw # NoIntent =>
        /\ row[k].status = "succeeded" => intent[row[k].gw].state = "succeeded"
        /\ row[k].status = "cancelled" => intent[row[k].gw].state = "canceled"

\* The captured amount of a Stripe payment recorded as succeeded, which bounds
\* every refund, is what Stripe captured, partial captures included.
CapturedAmountIsTrue ==
    \A k \in Keys :
        /\ row[k].provider = "stripe"
        /\ row[k].gw # NoIntent
        /\ row[k].status = "succeeded"
        => row[k].captured = intent[row[k].gw].captured

\* An outcome, captured or cancelled, is overwritten only by a session that
\* read the row before that outcome was committed: no operation begun on a
\* settled payment unsettles it.  (It is overwritten when two sessions overlap:
\* a second capture that the provider refuses marks the captured payment failed.)
OutcomeLostOnlyToStaleRead ==
    [][\A k \in Keys :
          row[k].status \in {"succeeded", "cancelled"} /\ row'[k].status # row[k].status
          => \E s \in Sessions : /\ sess[s].key = k
                               /\ sess[s].pc = "replied"
                               /\ sess[s].copy.status # row[k].status]_vars

\* How a payment key stands, seen as an idempotent call of the provider.
ClaimOf(k) ==
    CASE Exists(k) -> "recorded"
      [] \E s \in Sessions : Holds(s) /\ sess[s].key = k /\ sess[s].pc = "calling" -> "claimed"
      [] \E s \in Sessions : Holds(s) /\ sess[s].key = k /\ sess[s].pc = "replied" -> "answered"
      [] OTHER -> "free"

Idempotent == INSTANCE IdempotentCall
                WITH Effects <- Intents,
                     claim <- [k \in Keys |-> ClaimOf(k)],
                     known <- [k \in Keys |-> {i \in Intents : Known(i) /\ intent[i].key = k}],
                     used <- {i \in Intents : intent[i].state # "unused"}

\* Payment requests keep the promise of the idempotency key: a key is owned by
\* one uncommitted insert at a time, calls the provider once per insert, and
\* never again once a row is committed, failed payments included.
KeepsKeyPromise == Idempotent!Spec

\* Every request, event or task that has begun ends, a request that waits on
\* another one's uncommitted insert included.
RequestsEnd == \A s \in Sessions : sess[s].pc # "idle" ~> sess[s].pc = "idle"

----------------------------------------------------------------------------
(* What the code says of itself and does not do                            *)

\* _compensate_capture_failure, "a acao compensatoria consiste em cancelar a
\* autorizacao no gateway": the compensation of a failed capture does not end
\* with the authorisation still open at the provider.
CompensationReleasesAuthorization ==
    [][\A s \in Sessions :
          /\ Compensate(s)
          /\ sess'[s].pc = "idle"
          /\ sess[s].copy.gw # NoIntent
          => intent[sess[s].copy.gw].state # "requires_capture"]_vars
=============================================================================
