--------------------------- MODULE PaymentRequests ---------------------------
(***************************************************************************)
(* Who asks payment-service for payments: the endpoints of                 *)
(* api/v1/payments.py, the handlers of reservation events, the tasks of    *)
(* payment_tasks.py and the periodic reconciliation, composed with the     *)
(* sessions, rows and providers of PaymentService.                         *)
(*                                                                         *)
(* A request owns one database session.  The payments (Keys) are those of  *)
(* one reservation.  Events arrive in any order and any number of times.   *)
(* A handler works on the copies of the rows it read first, and one that   *)
(* has several payments to cancel takes them one after another, stopping   *)
(* at the first call that raises.  (The list is sorted by created_at; here *)
(* any order is taken.)                                                    *)
(***************************************************************************)
EXTENDS PaymentService

\* The providers the customers of the reservation pay with.
CONSTANT Providers

ASSUME ProvidersAssumption == Providers \subseteq PaymentProvider

VARIABLES
    request,    \* [Sessions -> Request]
    created,    \* history: payments of a reservation.created that was handled
    confirmed,  \* history: payments of a reservation.confirmed that was handled
                \* and had begun after their creation was
    captured,   \* history: payments a request was told have been captured
    released    \* history: payments a request was told have been cancelled

history == <<created, confirmed, captured, released>>
requestVars == <<vars, request, history>>

\* One payment is asked for; or, of a cancelled or expired reservation, and by
\* the reconciliation, all that have no outcome yet.
Request == [kind    : {"none", "create", "capture", "cancel", "process",
                       "reservation.created", "reservation.confirmed",
                       "reservation.cancelled", "reconciliation"},
            found   : SUBSET Keys,           \* the payments it is about
            todo    : SUBSET Keys,           \* those whose turn has not come
            copies  : [Keys -> Row],         \* their rows, as listed
            inOrder : BOOLEAN]               \* a confirmation begun after the creation ended

NoRequest == [kind |-> "none", found |-> {}, todo |-> {},
              copies |-> [k \in Keys |-> NoRow], inOrder |-> FALSE]

RequestTypeOK ==
    /\ TypeOK
    /\ request \in [Sessions -> Request]
    /\ created \in SUBSET Keys
    /\ confirmed \in SUBSET Keys
    /\ captured \in SUBSET Keys
    /\ released \in SUBSET Keys

RequestInit ==
    /\ Init
    /\ request = [s \in Sessions |-> NoRequest]
    /\ created = {}
    /\ confirmed = {}
    /\ captured = {}
    /\ released = {}

Free(s) == request[s].kind = "none"

About(s, kind, k) ==
    request' = [request EXCEPT ![s] = [NoRequest EXCEPT !.kind = kind,
                                                        !.found = {k},
                                                        !.inOrder = kind = "reservation.confirmed"
                                                                      /\ k \in created]]

\* The request ends well: a 2xx answer, or an event handled without an error.
Succeeds(s) ==
    LET r == request[s]
    IN  /\ request' = [request EXCEPT ![s] = NoRequest]
        /\ created' = created \cup
              (IF r.kind = "reservation.created" THEN r.found ELSE {})
        /\ confirmed' = confirmed \cup
              (IF r.kind = "reservation.confirmed" /\ r.inOrder THEN r.found ELSE {})
        /\ captured' = captured \cup
              (IF r.kind \in {"capture", "reservation.confirmed"} THEN r.found ELSE {})
        /\ released' = released \cup
              (IF r.kind \in {"cancel", "reservation.cancelled"} THEN r.found ELSE {})

\* The request ends with an error: 4xx, or an exception of the handler.
Raises(s) ==
    /\ request' = [request EXCEPT ![s] = NoRequest]
    /\ UNCHANGED history

----------------------------------------------------------------------------
(* The requests begin                                                      *)

\* POST /payments.
CreateRequested(s, k, provider, requiresCapture) ==
    /\ Free(s)
    /\ BeginCreate(s, k, "execute", provider, requiresCapture)
    /\ About(s, "create", k)
    /\ UNCHANGED history

\* A bug to catch: the reservation's payment is taken at once.
ReservationCreatedTaking(s, k, provider) ==
    /\ Free(s)
    /\ BeginCreate(s, k, "execute", provider, FALSE)
    /\ About(s, "reservation.created", k)
    /\ UNCHANGED history

\* reservation.created: the payment is to be captured later.
ReservationCreated(s, k, provider) ==
    /\ Free(s)
    /\ BeginCreate(s, k, "execute", provider, TRUE)
    /\ About(s, "reservation.created", k)
    /\ UNCHANGED history

\* POST /payments/{id}/capture, refused (409) unless the payment is authorised.
CaptureRequested(s, k) ==
    /\ Free(s)
    /\ \E amount \in 1..Total : BeginCapture(s, k, amount)
    /\ About(s, "capture", k)
    /\ UNCHANGED history

\* A confirmation that finds no authorised payment is handled with nothing
\* done, the one that overtakes the creation included.
ConfirmationDropped(s, k) ==
    /\ Free(s)
    /\ row[k].status # "authorized"
    /\ confirmed' = confirmed \cup ({k} \cap created)
    /\ UNCHANGED <<vars, request, created, captured, released>>

\* A bug to catch: the event is dropped while another request is at work.
ReservationConfirmedIfAlone(s, k) ==
    \/ ConfirmationDropped(s, k)
    \/ /\ Free(s)
       /\ \E t \in Sessions \ {s} : ~Free(t)
       /\ confirmed' = confirmed \cup ({k} \cap created)
       /\ UNCHANGED <<vars, request, created, captured, released>>

\* reservation.confirmed.
ReservationConfirmed(s, k) ==
    \/ ConfirmationDropped(s, k)
    \/ /\ Free(s)
       /\ BeginCapture(s, k, Total)
       /\ About(s, "reservation.confirmed", k)
       /\ UNCHANGED history

\* The next cancellation of the request, on the copy it has of the row; one
\* that has no provider id is done at once.
Cancels(s, r, k) ==
    LET rest == [r EXCEPT !.todo = @ \ {k}]
        local == r.copies[k].gw = NoIntent
    IN  /\ CancelPayment(s, k, r.copies[k])
        /\ request' = [request EXCEPT
                          ![s] = IF local /\ rest.todo = {} THEN NoRequest ELSE rest]
        /\ released' = IF local /\ rest.todo = {} THEN released \cup r.found ELSE released
        /\ UNCHANGED <<created, confirmed, captured>>

Listing(kind, ks) ==
    [NoRequest EXCEPT !.kind = kind,
                      !.found = ks,
                      !.todo = ks,
                      !.copies = [k \in Keys |-> IF k \in ks THEN row[k] ELSE NoRow]]

\* POST /payments/{id}/cancel.
CancelRequested(s, k) ==
    /\ Free(s)
    /\ row[k].status \in Cancellable
    /\ Cancels(s, Listing("cancel", {k}), k)

\* reservation.cancelled and reservation.expired: the payments of the
\* reservation are listed, and those that may be cancelled picked out.
ReservationCancelled(s) ==
    LET ks == {k \in Keys : row[k].status \in Cancellable}
    IN  /\ Free(s)
        /\ ks # {}
        /\ request' = [request EXCEPT ![s] = Listing("reservation.cancelled", ks)]
        /\ UNCHANGED <<vars, history>>

CancelsNext(s) ==
    /\ request[s].kind = "reservation.cancelled"
    /\ sess[s].pc = "idle"
    /\ \E k \in request[s].todo : Cancels(s, request[s], k)

\* The caller is told the status of payment k.
TellsStatus(k, status) ==
    /\ captured' = captured \cup (IF status = "succeeded" THEN {k} ELSE {})
    /\ released' = released \cup (IF status = "cancelled" THEN {k} ELSE {})
    /\ UNCHANGED <<created, confirmed>>

\* GET /payments/{id} tells what is on record; of interest is an outcome.  So does
\* a task that finds nothing to do: process_payment and cancel_pending_payment for
\* a payment that is succeeded, cancelled or refunded, capture_authorized_payment
\* for one that is not authorised.
GetPayment(s, k) ==
    /\ Free(s)
    /\ row[k].status \in {"succeeded", "cancelled"}
    /\ TellsStatus(k, row[k].status)
    /\ UNCHANGED <<vars, request>>

\* process_payment polls the provider for any other payment ...
ProcessPayment(s, k) ==
    /\ Free(s)
    /\ BeginProcess(s, k)
    /\ About(s, "process", k)
    /\ UNCHANGED history

\* capture_authorized_payment: for an authorised payment, the saga that the
\* endpoint runs.
CaptureAuthorizedPayment(s, k) == CaptureRequested(s, k)

\* cancel_pending_payment: the saga that the endpoint runs, whose own guard
\* refuses what is neither finalised nor cancellable.
CancelPendingPayment(s, k) == CancelRequested(s, k)

\* reconcile_pending_transactions lists the payments that have no outcome ...
ReconciliationDue(s) ==
    LET ks == {k \in Keys : row[k].status \in Cancellable}
    IN  /\ Free(s)
        /\ ks # {}
        /\ request' = [request EXCEPT ![s] = [NoRequest EXCEPT !.kind = "reconciliation",
                                                              !.found = ks, !.todo = ks]]
        /\ UNCHANGED <<vars, history>>

\* ... and takes one after another, each read again.  One that has no provider
\* id raises, as do others later: the loop goes on.
ReconcilesNext(s) ==
    LET todo == request[s].todo
    IN  /\ request[s].kind = "reconciliation"
        /\ sess[s].pc = "idle"
        /\ \E k \in todo :
              /\ BeginReconcile(s, k) \/ (row[k].gw = NoIntent /\ UNCHANGED vars)
              /\ request' = IF row[k].gw = NoIntent /\ todo = {k}
                              THEN [request EXCEPT ![s] = NoRequest]
                              ELSE [request EXCEPT ![s].todo = @ \ {k}]
        /\ UNCHANGED history

----------------------------------------------------------------------------
(* ... and end                                                             *)

\* A bug to catch: the loop over the payments goes on after one that raised.
EndsGoingOn(s) ==
    \/ sess'[s].pc # "idle" /\ UNCHANGED <<request, history>>
    \/ /\ sess'[s].pc = "idle"
       /\ request[s].todo = {}
       /\ Succeeds(s)
    \/ /\ sess'[s].pc = "idle"
       /\ request[s].todo # {}
       /\ UNCHANGED <<request, history>>

\* The session's step was the last of its call: the call returned, or raised,
\* which ends the request whatever it had left to do.
Ends(s) ==
    \/ sess'[s].pc # "idle" /\ UNCHANGED <<request, history>>
    \/ /\ sess'[s].pc = "idle"
       /\ ~sess[s].reply.ok
       /\ Raises(s)
    \/ /\ sess'[s].pc = "idle"
       /\ sess[s].reply.ok
       /\ request[s].todo = {}
       /\ Succeeds(s)
    \/ /\ sess'[s].pc = "idle"
       /\ sess[s].reply.ok
       /\ request[s].todo # {}
       /\ UNCHANGED <<request, history>>

\* PaymentSaga.execute, capture and cancel, to their end.
Works(s) ==
    /\ \/ Insert(s) \/ GatewayCreates(s) \/ FinishCreate(s)
       \/ GatewayCaptures(s) \/ FinishCapture(s) \/ Compensate(s)
       \/ GatewayCancels(s) \/ FinishCancel(s)
    /\ Ends(s)

\* ... and commits what it says; when the call raised, nothing is told.
Processes(s) ==
    /\ FinishProcess(s)
    /\ request' = [request EXCEPT ![s] = NoRequest]
    /\ \/ /\ sess[s].reply.ok
          /\ TellsStatus(sess[s].key, PolledStatus(sess[s].reply.state))
       \/ /\ ~sess[s].reply.ok
          /\ UNCHANGED history

\* The call of a poll, and reconcile_transaction to its end, and, after the last
\* one, of the task.
Reconciles(s) ==
    /\ GatewayReads(s) \/ FinishReconcile(s)
    /\ request' = IF sess'[s].pc = "idle" /\ request[s].todo = {}
                    THEN [request EXCEPT ![s] = NoRequest]
                    ELSE request
    /\ UNCHANGED history

Dies(s) == Crash(s) /\ Raises(s)

\* A payment in the provider's hands changes by itself.
ProviderSettles(i) == Settle(i) /\ UNCHANGED <<request, history>>

RequestNext ==
    \/ \E s \in Sessions :
          \/ Works(s) \/ Dies(s) \/ CancelsNext(s) \/ ReservationCancelled(s)
          \/ ReconciliationDue(s) \/ ReconcilesNext(s) \/ Reconciles(s)
          \/ Processes(s)
    \/ \E s \in Sessions, k \in Keys :
          \/ \E provider \in Providers, requiresCapture \in BOOLEAN :
                CreateRequested(s, k, provider, requiresCapture)
          \/ \E provider \in Providers : ReservationCreated(s, k, provider)
          \/ CaptureRequested(s, k)
          \/ ReservationConfirmed(s, k)
          \/ CancelRequested(s, k)
          \/ GetPayment(s, k)
          \/ ProcessPayment(s, k)
          \/ CaptureAuthorizedPayment(s, k)
          \/ CancelPendingPayment(s, k)
    \/ \E i \in Intents : ProviderSettles(i)

RequestSpec == RequestInit /\ [][RequestNext]_requestVars

----------------------------------------------------------------------------
(* What holds                                                              *)

\* What a request was told is so at the provider: a payment captured on a 200
\* answer or by a confirmation, and every payment that a cancellation handled
\* to its end had found open, were the list read long before and other
\* requests at work on the same payments meanwhile; and what GET /payments
\* says has happened (payments.py:96-200, reservation_events.py:126-150).
AnswersAreTrue ==
    \A k \in Keys : row[k].gw # NoIntent =>
        /\ k \in captured => intent[row[k].gw].state = "succeeded"
        /\ k \in released => intent[row[k].gw].state = "canceled"

\* A confirmation leaves a payment authorised only if it overtook the creation
\* or failed: one that is handled, and began after the creation was, finds the
\* payment authorised and captures it, or finds what another request made of it
\* (reservation_events.py:112-124).
ConfirmationSettles == \A k \in confirmed : row[k].status # "authorized"

\* The request of session s may make payment k captured: a POST that does not
\* put the capture off, a capture, a confirmation; or a poll, by process_payment or
\* the reconciliation, of a payment that the provider has captured.
MayRecordCapture(s, k) ==
    /\ k \in request[s].found
    /\ \/ request[s].kind = "create" /\ ~sess[s].requiresCapture
       \/ request[s].kind \in {"capture", "reservation.confirmed"}
       \/ /\ request[s].kind \in {"process", "reconciliation"}
          /\ intent[row[k].gw].state = "succeeded"

\* A payment is recorded as captured only by the session whose request may do
\* that, in a step of its own in which it has the provider's answer about it.  A
\* payment that comes with a reservation is therefore only reserved until
\* somebody asks for its capture or the provider reports one
\* (reservation_events.py:90, payment_service.py:317-341, payment_tasks.py:102-118).
CapturedOnRequest ==
    [][\A k \in Keys :
          row[k].status # "succeeded" /\ row'[k].status = "succeeded"
          => \E s \in Sessions : /\ sess'[s] # sess[s]
                                /\ sess[s].pc = "replied" /\ sess[s].key = k
                                /\ MayRecordCapture(s, k)]_requestVars
=============================================================================
