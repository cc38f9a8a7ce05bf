# Hotelaria in TLA+

Hotelaria is a hotel booking platform written as Python services (FastAPI,
SQLAlchemy on PostgreSQL, Redis, RabbitMQ). This directory specifies what the
services do with shared state, model-checks small instances with TLC, and
proves the most important facts for every size of the instance with TLAPS.

The money is specified first: `payment-service` is the only service whose
operations call an outside party, commit around that call, and are meant to be
retried, and it is the one where a wrong interleaving costs something.

    tlc -workers 2 -config MCPaymentService.cfg MCPaymentService
    tlapm PaymentServiceProofs.tla

## 1. Inventory

Paths are below `src/apps/services/` unless they say otherwise.

### payment-service

| part | state | operations |
|---|---|---|
| `PaymentService`, `PaymentSaga` (`services/payment_service.py`, `services/saga/payment_saga.py`) | rows of `transactions`: status, provider, provider id, captured and refunded amounts, unique idempotency key | create (two sagas), capture, compensate a failed capture, cancel |
| payment tasks (`workers/tasks/payment_tasks.py`) | the same rows | `process_payment` polls the provider, `capture_authorized_payment`, `cancel_pending_payment` |
| reconciliation (`workers/tasks/reconciliation_tasks.py`) | the same rows | `reconcile_transaction`, and a loop of it over unfinished rows; `reconcile_refund` only reads |
| `RefundService`, `RefundSaga` | rows of `refunds`, and the refunded total and status of the payment | execute, retry |
| refund tasks (`workers/tasks/refund_tasks.py`) | rows of `refunds` | `process_refund`, `retry_refund`, `cancel_pending_refund` |
| gateway clients (`services/gateway/`) | none; the providers hold payments and refunds | create, capture, cancel, refund, read, for Stripe and PayPal |
| reservation events (`events/subscribers/reservation_events.py`) | none | created, confirmed, cancelled, expired: each one or more requests of `PaymentSaga` |
| notification events | none | read a payment and change nothing |
| worker process (`workers/worker.py`) | the set of running tasks | start, create task, stop |

The parts meet in the two tables and at the providers; nothing locks a row or
checks a version. What is hard: a request waits for the provider between its
read and its commit, so any two of them overlap; the provider's answer may be
lost after it acted; the process may die between the provider's act and the
commit; the session reads a row once and writes back what differs from that
copy. Correct is: a key charges once; the id of every charge is kept; what the
table says happened at the provider happened there; refunds add up.

### auth-service

| part | state | operations |
|---|---|---|
| `UserService`, `api/v1/users.py` | rows of `users` (address, password, active, verified, failed attempts, lock) and `user_roles` | register, update oneself, update, delete, activate, deactivate, assign and remove roles |
| `api/v1/roles.py`, `RoleRepository` | rows of `roles`, `role_permissions` | create, update, delete, replace permissions |
| `AuthService`, `TokenService`, `api/v1/auth.py` | the same rows; tokens in the users' hands | sign-in with lock-out, refresh, change and reset of a password, verification of an address |
| `api/deps.py`, `core/database.py` | one database session per request | who asks, and with which permissions |

Hard: everything is read first and written later, and only the unique indexes
stand between; the permissions are those of the moment the request begins; the
endpoints of `auth.py` flush and never commit. Correct is: addresses and names
stay unique; an account is changed by its user or by somebody with the right,
and re-activated by an administrator only; a list of roles is the one that was
assigned; an answer that says a password has changed is true (it is not).

### notification-service

Notifications (status, time of sending, error), templates, and three services
that send: e-mail, SMS, push. Hard: a delivery is a flush, a call of the
provider, and another flush, in a transaction others do not see; nobody looks at
the status first; the provider may take a message and not say so. Correct is:
what says it was sent was taken; two deliveries of one notification do not reach
the provider at the same time; a later write from an older copy does not take a
delivery off the record; template names stay unique.

### reservation-service

Reservations and an inventory of nights. Two endpoints each run a saga, and
`ReservationService` has the same operations without one. Hard: the inventory is
checked in one await, asked again in a second, and reserved in a third; rooms
are given back before the reservation is cancelled; a confirmation does not look
at the status; nothing is put right when a call fails half-way. Correct is: no
night is promised to more guests than it has rooms for; what is cancelled was
given back; a stay costs what its halves do. The first is not so, and the
property says by how much.

### core-service

Professors and disciplines in PostgreSQL, the queue `audit.logs` in RabbitMQ,
documents in MongoDB, and an administrator that every API process sees to when
it starts. Hard: three stores without a common transaction, processes that stop
between their steps, redelivery, an insert whose failure is only printed.
Correct is: the trail names nothing that was not committed; an event is lost
only where its failure was printed, and doubled only by a stop; every event is
dealt with; there is an administrator.

### Worker programs

hotel-, payment-, auth- and reservation-service each have a worker process that
starts, goes round or waits, and ends on a signal. Their tasks are stubs or
not registered. Hard: a signal before the first wait, between the stop event and
the end of an interval, or twice.

### hotel-service, gateway, frontend, packages

See "Not modelled".

### How they interact

The services share no store. In the code as it is nothing connects them but the
names of events: the subscribers of payment-service and the publishers of the
others are classes that no program connects to a broker; core-service alone has
a queue. The outbox and the dead-letter queues the root README lists are not in
the code. Within a service the parts meet in the rows of its database, each
operation with a session of its own.

## 2. Modules

| module | models | composed of |
|---|---|---|
| `PaymentRules` | the pure decisions: how a provider's word becomes a status, what reconciliation calls a discrepancy, when a refund is allowed | |
| `PaymentStore` | the committed payments and the providers' payments, with what a provider may do by itself | `PaymentRules` |
| `PaymentService` | `PaymentService`, `PaymentSaga`, the payment tasks and `reconcile_transaction`, run by concurrent sessions | `PaymentStore` |
| `RefundService` | `RefundService`, `RefundSaga`, the refund tasks, from payments that were captured | `PaymentRules` |
| `PaymentRequests` | who calls `PaymentService`: the endpoints of payments.py, the reservation events, the payment tasks, the batch reconciliation | `PaymentService` |
| `IdempotentCall` | abstract: what an idempotency key promises; both services implement it | |
| `AuthStore` | users, roles and their links, with the indexes and the lookups of the repositories | |
| `AuthService` | the endpoints of users.py, roles.py and auth.py over overlapping database sessions | `AuthStore` |
| `NotificationService` | notifications, deliveries and templates over overlapping transactions | |
| `Pricing` | the price of a stay, as operators on integers | |
| `Bookings` | both ways to book and to cancel, and confirmation, over an inventory | `Pricing` |
| `AuditTrail` | core-service: rows, events, queue, audit worker, and the seed of the administrator | |
| `WorkerLoops` | the four worker programs and the signals they get | |
| `MC...` | symmetry and constants for TLC; `MCBookings` runs `Bookings` and `WorkerLoops`, which share no variable, side by side | |
| `PaymentServiceProofs`, `RefundProofs`, `AuditProofs`, `AuthProofs`, `NotificationProofs` | theorems | the module of the name |
| `PaymentOutcomeProofs` | theorems about outcomes, amounts and requests | `PaymentServiceProofs`, `PaymentRequests` |
| `BookingProofs` | theorems about bookings, prices and workers | `MCBookings`, `SumProofs` |
| `SumProofs` | lemmas about sums over finite sets, for `RefundProofs` and `BookingProofs` | |

### Payments and refunds

**State.** `row[k]` is the committed row of idempotency key `k`; an absent row
has status `"absent"`. `intent[i]` is a payment of a provider. `sess[s]` is a
request, an event or a task in progress: its operation, the copy of the row it
read, and the provider's answer. `orphan` is a history variable: the provider
payments whose id was lost, with an answer or with a session that died; no
action of the program reads it. `refund` and `operation` are the same for
refunds.

**Steps.** An operation is a `Begin...` (read the row, check the guards), a
`Gateway...` (the provider acts or refuses, and its answer arrives or is lost)
and a `Finish...` (write and commit). What the code does between two awaits that
matter is one action. Creation has one step more: `Insert`, the flush that puts
the row into the table before the provider is called. PostgreSQL makes a second
insert of the key wait until the first transaction ends; that is the first
conjunct of `Insert`, and the reason why two requests with one key do not both
charge. `Crash` ends a session anywhere: a dead process, a cancelled request, a
failed commit. `FinishCreate` and `CaptureSession` chain creation, capture and
compensation in one session as `execute_with_capture` does.

**Written columns.** SQLAlchemy issues an UPDATE of the columns that differ from
what the session read. `Written` is that rule: a status that equals the copy's
is not written over what another session has committed. It is what makes stale
sessions harmful in some interleavings and harmless in others, so it is kept.

**The session's own copy.** A session that reads a row twice sees the first copy
(the identity map; `expire_on_commit=False`). `Compensate` therefore looks at the
copy that the capture has just marked failed.

**Providers.** The words the code treats alike are one value of `GatewayState`.
An answer without an id, an answer with no status, a refusal, a timeout before
and a timeout after the act are all outcomes of the `Gateway...` actions. PayPal
captures whole orders, has no cancel, and reports no captured amount. Without
any request a payment may succeed, fail or be cancelled and an authorisation
may expire (`GatewaySettles`). The model lets Stripe take any part of an
authorisation in one capture and then nothing more.

**Left out.** Currency, description, reservation and customer of a payment;
payment methods; failure codes and messages; the PayPal token request (its
failure is a call that never reached the provider). Amounts are counted in
units: every payment is for `Total` of them.

**Callers.** `PaymentRequests` adds to each session the request that owns it:
the payments it is about (`found`), those whose turn has not come (`todo`), and
the rows as they were listed (`copies`). `ReservationCancelled` lists once and
then cancels one payment after another from the listed copies; the first call
that raises ends the request. `ReconciliationDue` does the same and passes over
what raises, as each call has its own `try`. The tasks of `payment_tasks.py`
are callers too. `process_payment` is `ProcessPayment` (a payment without an
outcome is read), the provider's answer in `Reconciles`, and `Processes` (the
status is written and told). `capture_authorized_payment` and
`cancel_pending_payment` run the sagas of the endpoints, and tell the status
where there is nothing to do, as `GetPayment` does. `execute_with_capture` has
no caller but its unit tests: `PaymentService` has it, `PaymentRequests` does
not. Events arrive in any order and any
number of times: nothing in the code orders or counts them. The history
variables record what a caller was told, and no action reads them. The saga
wraps every error of the service, so the 404 and 409 branches of two endpoints
are never taken; which error it is does not matter here, that it ends the
request does.

### auth-service

A session has read who asks, with that user's roles (`current`), then the row
the request is about (`found`), then what must be looked up before the change,
such as another user's address or one role of a list after the other (`read`);
each of these is a step, and a request that needs fewer takes fewer. A row the
session has is not read again: a query that finds it gives the copy, the
identity map (`UserRow`, `RoleRow`, `WithRoles`). Permissions are judged on the
role rows that came with the user (`seen`), and `rights` is what they were when
the request began. Then the session writes: the `Flush...` steps of users.py and
roles.py flush and commit at once, where the unique index or a foreign key may
refuse the row; the endpoints of auth.py answer (`answered`) and are then closed
without a commit. One merge is left: the SELECTs of one load (a user, its roles,
their permissions) are one step. Written are
the columns that differ from the copy, and of a list of roles the links that
differ. A request that is refused while it reads changes nothing and is no step.
`Init` is any state an earlier life of the service can have left, with the
tokens that can be about. Nothing withdraws a token: logout changes no state.
Which requests reset_password and verify_email serve is limited by the tokens
they need, and the endpoints that should mail those fail first (they await a
tuple), so `Init` hands them out. Left out: profile fields, the username, the
strength of a password, the expiry of a token and of a lock, reading endpoints.

### notification-service

A session is one transaction. `changed` is an object that was changed and not
flushed; `Flush` writes the changed columns, waits for the row if another
transaction has written it (`lock`), and refreshes the copy. `Send...`,
`Flush`, `Post`, `Flush` is a delivery; `Post` is the provider, which may take
the message whether or not it says so. `Commit` publishes what was flushed, and
`Abort` is anything else: the repository has no file that makes or commits a
session (`core.database` is imported and not there), so whether the caller
commits after an error is open, and the model leaves it open. An update writes
any status over any other, and as many columns in one call as its schema has.
The three services do not look at the type of what they send, so each sends any
notification. A template is active from the start or not, as its creator says.
Inserting a template name waits for whoever is inserting or deleting it, as the
unique index does.

### reservation-service

Each call of the repository is one step, and calls overlap between any two of
them: `CheckAvailability`, `CheckInventory`, `ReserveInventory`,
`RecordReservation`; the reading of a reservation (`Finds`) and then `Confirm`,
or `ReleaseInventory` and `Cancel`. The repository has not the methods that the
services call (`check_availability`, `check_room_inventory`, `reserve_inventory`,
`release_inventory`, `cancel`, `confirm`), and its `create` takes one
`Reservation` where `reservation_service.py:93-103` gives it keywords, which
raises. So these are external: each does at once what its name, its arguments
and the answers expected of it say, or refuses. As the code is, a
`create_reservation` ends in `Fails` at its last step.

Nothing is assumed about whether `reserve_inventory` looks at what is left
(`inventory_service.py:37-54` checks, and then calls it): `ReserveInventory`
takes the rooms whatever is left of them, so `free` may fall below zero, or
answers that it did not. The saga for booking ends after the inventory: it
reports success and leaves no reservation (`Booked`, with the rooms counted in
`unheld`). `Fails` may end a call anywhere and undoes nothing, as the code does.
The histories: `released` counts how often the rooms of a reservation were given
back, `kept` the cancellations that went on after a refusal, `overtaken` the
nights of which others have taken rooms since a call's check, and `raced` the
rooms taken by calls that were overtaken on that night.

### core-service

`CreateProfessor` and `CreateDisciplina` commit; `Publish` puts the event into
the queue; `Deliver`, `Process` and `Acknowledge` are the worker, with as many
calls at a time as there are `Handlers`. `Stop`, `StopWorker` and `Reconnect`
are the faults: they lose what a process was doing and return to the queue what
was not acknowledged. `Start` and `Seed` are the start of an API process: find,
and in a later await insert, an administrator.

### Workers

`WorkerLoops` chooses a program and follows it: where it is, its flags, and what
a signal has set off and has not run yet.

## 3. Runs

| run | instance | distinct states | what it shows |
|---|---|---|---|
| `payment` | one key, two sessions, two provider payments, `Total = 2` | 171,843 | seven properties over every overlap of two operations |
| `payment_liveness` | one key, two sessions, one provider payment | 31,707 | every request ends |
| `refund` | one payment, two refund keys, two sessions, two provider refunds, `Total = 2` | 845,395 | five properties over every overlap of two refunds, retries and tasks |
| `payment_requests` | a reservation with two payments, two requests at a time and four in all, two provider payments, Stripe | 1,371,147 | what callers are told is true |
| `auth` | two each of users, roles, addresses, names, passwords and requests | 517,052 | five properties of accounts, rights and roles |
| `notification` | one notification or two templates and two names, four sessions | 422,577 | deliveries and names |
| `bookings` | one hotel, two rooms, two nights, one reservation, two calls of one room each; or one worker | 1,620,053 | inventory, cancellation, prices; signals |
| `audit` | two disciplines, two professors, two API processes, two handlers, one fault | 286,386 | the trail, the queue, the administrator |
| `payment_compensation` | one session | violation | finding 1 |
| `refund_retry` | one session | violation | finding 2 |
| `refund_follow_up` | one session, tasks that run for ever | violation | finding 3 |
| `auth_answers` | one user, one request | violation | finding 4 |

**Properties of payments.**
`NoDoubleCharge`: one key never leads to two provider payments the service
knows of. `ChargesAreRecorded`: the id of every provider payment is in the row
of its key, or with the one session that is about to write it; only a lost
answer or a dead session loses one. `OutcomesAreTrue`: captured in the table is
captured at the provider, cancelled with an id is cancelled there, whatever
stale copy was written back. `CapturedAmountIsTrue`: what Stripe captured, in
part or in full, is what the table has, and so bounds the refunds.
`OutcomeLostOnlyToStaleRead`: only a session that read the row before the
outcome was committed overwrites it. `KeepsKeyPromise`: `PaymentService`
implements `IdempotentCall`. `RequestsEnd`: every request ends.

**Properties of refunds.** `RefundsAreRecorded`: the same of refund ids, which
the tasks never drop. `RefundedIsNeverOverstated`: the payment never claims to
have given back more than the provider did, and is "refunded" only if all went
back. `LedgerLostOnlyToStaleRead`: the total is the sum of the succeeded
refunds until two overlapping refunds lose an update. `KeepsKeyPromise`: refunds
implement `IdempotentCall` too.

**Properties of payment requests.** `AnswersAreTrue`: a payment a caller was
told is captured, or cancelled, is so at the provider, although a cancellation
works from a list read long before. `ConfirmationSettles`: a confirmation that
did not overtake the creation leaves no payment authorised.
`CapturedOnRequest`: the step that records a capture is of the session that has
the provider's answer about this very payment, and its request is one that may:
a POST that does not put the capture off, a capture (the endpoint's or the
task's), a confirmation; or a poll, by `process_payment` or the reconciliation,
of a payment that the provider has captured by then. The creation of a
reservation and a cancellation never record one. What a task is told or tells
counts for `AnswersAreTrue` as the endpoints' answers do.

**Properties of accounts.** `AccountsAreDistinct`: addresses and names stay
unique though they are looked up in one statement and written in another.
`OnlyPermittedChange`: what commits had the permission when its request began.
`OnlyAdministratorsActivate`: a user who was deactivated does not come back by
an update of theirs that was under way. `RolesAsAssigned`: a list of roles is as
assigned, but for an overlapping assignment of which it has read the older list.
`SignInLeavesNoTrace`: no attempt is ever counted and no password ever changed
by auth.py; this is the negative side of finding 4, and it means that the
lock-out (`auth_service.py:245-267`) never takes effect.

**Properties of deliveries.** `SentMeansAccepted`, `SendsTakeTurns`,
`DeliveryIsOnRecord` and `TemplatesAreDistinct`, as the inventory says. The
first two except a notification that the update endpoint has written to, since
it writes any status over any other.

**Properties of bookings.** `OversoldOnlyByReleaseOrRace`: rooms held are those
of every reservation that is pending or confirmed, whether or not its rooms were
given back, those of a call about to record its own, and those of bookings that
left nothing on record. They are never more than the hotel has, but for two
ways, each counted in rooms: those given back of a reservation that is still
pending or confirmed (a crash between release and cancellation, or a
confirmation after it) or given back again of a cancelled one (`Excess`), and
those taken by a call after others took rooms it had counted (`raced`). So a
night is not oversold by recording, confirming, failing or refusing; it is by
exactly these two, which nothing in the code prevents. `CancelledGaveBack`: a cancelled
reservation has given its rooms back, unless `ReservationService` passed over a
refusal. `PricesAddUp`: a stay costs what its two halves do, tax and discount
included.

**Properties of the trail.** `TrailFollowsCommits`, `LostOnlyIfSwallowed`,
`DoubledOnlyByFaults`, `AdministratorExists`, `EventsAreHandled`, as the
inventory says. Two processes that start together may insert two administrators;
that there is one is all the code says, and MongoDB has no index on the address.

**Properties of workers.** `SignalledWorkersEnd` and `EndsOnlyWhenSignalled`.

**Bounds.** All payment operations on a key touch one row, and no operation
reads two keys, so one key is enough for everything but the difference between
keys, which the proofs cover; a cancelled reservation reads several, so
`payment_requests` has two. Two sessions make every overlap of two operations;
the properties that name a stale read relate two sessions. Two provider payments
let a key be charged a second time after a crash; a third would repeat it.
Two units make partial captures and refunds, and two refunds that together
exceed the capture. In `payment_requests` one unit is enough, as no property
is about an amount; `MaxRequests = 4` bounds how many requests
are made, those that are over at once included if they did something or were told
an outcome, as two
creations and two overlapping requests after them make every case above, a list
of two payments among them (without it there are 16,065,662 states, in which TLC
found no error either); Stripe alone is checked because PayPal refuses every
cancellation, which ends the request at once (both providers were checked
without the reconciliation: no error). In `auth` two of everything make every
conflict of two requests, and both directions of it; two attempts lock an
account. In `notification` a session makes one call, so four sessions are a
creation and three overlapping calls, deliveries and updates among them, and
two names and two templates make every conflict of names. In `bookings` one
reservation on record and others being made compete for two rooms; `MaxReleases = 2`
bounds how often the rooms of a reservation are given back, once more than is
right; a stay has one room (`MaxRooms = 1`; stays of two rooms do not finish in
the time of a run), so that two calls and one reservation fill the hotel and a
third taking oversells it; `Days` 0 to 2 give two nights, a stay of both and one of each;
percentages of 7 and of 100 are an odd discount and a discount or tax of the
whole. In `audit`
`MaxFaults = 1` bounds stops and lost connections: one is enough for a
redelivery, and each further one repeats it. No other action has a bound, except
that ids are from the finite sets.

**Fairness.** `FairSpec` of `PaymentService` assumes `SF` of each session's own
steps. A provider call ends by itself or at the client's timeout
(`PAYMENT_TIMEOUT_SECONDS`), and an insert that waits for a key is served by the
database in the order of arrival, so a step that is enabled again and again is
taken. No fairness is assumed of clients, crashes or providers. `FollowUp`, used
for the finding only, is generous on purpose: it lets the refund task run for
ever although no code schedules it, and lets providers finish what they accepted.
`AuditTrail` assumes `WF` of the worker's steps: the event loop runs what is
ready, aio_pika reconnects, and the container is restarted
(`docker-compose.yml:93`). `WorkerLoops` assumes `WF` of what waits its turn in
the event loop and of the program's own going on: timers end. Nothing is assumed
of signals.

**Deadlock** is not checked: a finished payment may leave nothing to do, the
sessions of `auth` and `notification` make one call each, every event may have
been handled, a worker ends and a hotel is full.

## 4. What the code says and does not do

1. `CompensationReleasesAuthorization`. After a failed capture the compensation
   is to cancel the authorisation (`payment_saga.py:149-154`). The capture has
   marked the payment failed before it raises (`payment_service.py:211-216`), and
   the compensation acts on authorised payments only: it never cancels anything,
   and the customer's money stays reserved until the authorisation expires. The
   unit test that covers it replaces the service by a mock that still reports
   "authorized".
2. `RetryReprocesses`. A retry of a failed refund passes it on to `execute`,
   which returns any refund that has the key (`refund_saga.py:45-46`, `:107`).
3. `FollowedUp`. `process_refund` is to check the provider and synchronise the
   result (`refund_tasks.py:29-31`). It writes "processing" and asks nobody.
4. `AnsweredChangesAreKept`. "Senha alterada com sucesso." (`auth.py:125-127`) and
   "Senha redefinida com sucesso." (`auth.py:196-198`) are answered by endpoints
   whose session is closed without a commit (`core/database.py:32-38`): the
   password is the old one.

Behaviours the model has and no documentation contradicts, worth a reader's time:

- A PayPal payment found completed by polling is "succeeded" with nothing
  captured, so no refund of it is ever allowed (`refund_service.py:201-204`).
- Of two overlapping captures the refused one, written last, turns the captured
  payment into a failed one; `OutcomeLostOnlyToStaleRead` says it takes an overlap.
- A payment whose creation timed out has no provider id, so reconciliation,
  meant for timeouts (`reconciliation_tasks.py:36-38`), refuses it (`:62-65`).
- A crash between a provider's refund and the commit leaves no row, and the same
  key refunds again; `IdempotentCall` has this as `Abandon`.
- Two overlapping refunds of one half each leave the payment "partially refunded"
  with half the total.
- `process_payment` makes an authorised payment "processing", after which the
  confirmation of its reservation does nothing.
- `retry_refund` revives a cancelled refund, and asks no provider.
- A PayPal payment refuses to be cancelled by call. If it comes before others in
  the list of a cancelled reservation, the others stay open, on every redelivery.
- `POST /reservations` answers with success, takes rooms, and records nothing.
- A reservation can be confirmed after it was cancelled, and cancelled twice; the
  second time gives rooms back that are others'.
- Two bookings that have both counted the same last room both ask for it, and
  what the missing `reserve_inventory` would answer decides whether it is sold
  twice.
- `ReservationService.create_reservation` cannot end well: `create` of the
  repository does not take the arguments it is given.
- logout and logout-all revoke nothing; forgot-password and
  resend-verification answer 500.

## 5. Proofs

Each theorem holds for any sets and numbers the constants may be, under the
assumptions named, which TLC evaluates in the runs. Every safety invariant, every
action property and both refinements that a passing run checks have one.

| module | theorem | states | assumes |
|---|---|---|---|
| `PaymentServiceProofs` | `TypeCorrect` | `Spec => []TypeOK` | `StoreAssumption` of `PaymentStore` |
| | `EveryChargeRecorded` | `Spec => []ChargesAreRecorded` | the same |
| | `NeverChargedTwice` | `Spec => []NoDoubleCharge` | the same |
| | `ImplementsIdempotentCall` | `Spec => KeepsKeyPromise` | the same |
| `PaymentOutcomeProofs` | `OutcomesTrue` | `Spec => []OutcomesAreTrue` | the same |
| | `AmountsTrue` | `Spec => []CapturedAmountIsTrue` | the same |
| | `OutcomesOverwritten` | `Spec => OutcomeLostOnlyToStaleRead` | the same |
| | `RequestsTypeCorrect` | `RequestSpec => []RequestTypeOK` | the same, `ProvidersAssumption` |
| | `AnswersTrue` | `RequestSpec => []AnswersAreTrue` | the same |
| | `ConfirmationsSettle` | `RequestSpec => []ConfirmationSettles` | the same |
| | `PromisesKeptUnderRequests` | `RequestSpec => [](ChargesAreRecorded /\ NoDoubleCharge /\ OutcomesAreTrue)` | the same |
| | `CapturedOnlyOnRequest` | `RequestSpec => CapturedOnRequest` | the same |
| `RefundProofs` | `TypeCorrect` | `Spec => []TypeOK` | `StoreAssumption`, `RefundAssumption` |
| | `EveryRefundRecorded` | `Spec => []RefundsAreRecorded` | the same |
| | `NeverOverstated` | `Spec => []RefundedIsNeverOverstated` | the same |
| | `LostOnlyToStaleRead` | `Spec => LedgerLostOnlyToStaleRead` | the same |
| | `ImplementsIdempotentCall` | `Spec => KeepsKeyPromise` | the same |
| `BookingProofs` | `CancelledGaveBackAlways` | `BookingSpec => []CancelledGaveBack` | `PricingAssumption`, `UnusedAssumption` |
| | `PricesAddUpAlways` | `BookingSpec => []PricesAddUp` | the same |
| | `NeverOversold` | `BookingSpec => []OversoldOnlyByReleaseOrRace` | the same, `BookingAssumption` |
| | `BookingsAndWorkersTyped` | `MCSpec => []TypeOK` | the same |
| | `WorkersEndOnlyWhenSignalled` | `WorkerSpec => EndsOnlyWhenSignalled` | none |
| `AuditProofs` | `TrailFollowsCommitsAlways` | `Spec => []TrailFollowsCommits` | none |
| | `LostOnlyIfSwallowedAlways` | `Spec => []LostOnlyIfSwallowed` | none |
| | `AdministratorExistsAlways` | `Spec => []AdministratorExists` | none |
| | `DoubledOnlyByFaultsAlways` | `Spec => []DoubledOnlyByFaults` | `AuditAssumption` |
| | `AuditTypes` | `Spec => []TypeOK` | `AuditAssumption` |
| `AuthProofs` | `AccountsAlwaysDistinct` | `Spec => []AccountsAreDistinct` | `StoreAssumption` of `AuthStore`, `RequestAssumption` |
| | `SignInNeverLeavesATrace` | `Spec => SignInLeavesNoTrace` | the same |
| | `AuthTypes` | `Spec => []TypeOK` | the same, `RowAssumption` of `AuthStore` |
| | `OnlyPermittedChanges` | `Spec => OnlyPermittedChange` | the same |
| | `OnlyAdministratorsEverActivate` | `Spec => OnlyAdministratorsActivate` | the same |
| | `RolesAlwaysAsAssigned` | `Spec => RolesAsAssigned` | the same |
| `NotificationProofs` | `NotificationTypes` | `Spec => []TypeOK` | `IdAssumption` |
| | `SentMeansAcceptedAlways` | `Spec => []SentMeansAccepted` | the same |
| | `SendsTakeTurnsAlways` | `Spec => []SendsTakeTurns` | the same |
| | `DeliveryIsOnRecordAlways` | `Spec => []DeliveryIsOnRecord` | the same |
| | `TemplatesAlwaysDistinct` | `Spec => []TemplatesAreDistinct` | the same |

The assumptions say that null values are not members of the sets they extend,
that ids of two tables differ, and that days, prices, percentages and the size of
a hotel are whole numbers in their ranges. Where something is counted the set
counted over is finite: `RefundAssumption` says so of the refunds,
`BookingAssumption` of reservations and calls, `AuditAssumption` of API
processes. A table and a deployment are finite; no proof bounds how large.

**Charges.** `ChargesAreRecorded` is not inductive. The invariant `IInv` of
`PaymentServiceProofs` adds what its steps rely on:

- `HolderInv`: at most one session holds the uncommitted insert of a key, no row
  of the key exists while it does, and the payment an answer gave it is of that
  key and not lost;
- `RowInv`: the id in a row is a payment of that row's key whose id was not lost;
- `CopyInv`: a session works on an existing row, and its copy has the id the row
  has; this is why a stale session, which may write back a stale status, cannot
  write a stale id;
- `IntentInv`: an opened payment has a key, and what was never opened is not lost.

Two payments of a key would both be in `row[k].gw`, or with the one holder, or
one in each, which `HolderInv` excludes: `NoDoubleCharge` follows.

**One call for a key.** Under `IInv` the phase of a key, and the payment known to
be its, follow from its row and from the one session that holds it. So each step
is looked at for what it does to these: an insert claims, a provider's answer to
the holder calls, the holder's commit records, its failure or crash abandons, and
every other step leaves all of them alone, which is a stutter of
`IdempotentCall`. The argument for refunds is the same, with the refund's row.

**Outcomes.** `OutcomesAreTrue` needs more, for a session can write "succeeded"
long after it was told so. `OInv` of `PaymentOutcomeProofs` adds that what a
session has learned of an outcome is still true (`Learned`, by `FinalStays`: the
provider takes no final state back), and that a capture or a cancellation is
asked for by an id (`Identified`).

**Amounts.** `AInv` adds that a Stripe row has the captured amount of its provider
payment, or none yet (`RowAmount`), that a stale copy therefore has the row's
amount or none (`CopyAmount`), and that an answer that reports a capture carries
its amount (`ReplyAmount`). With it, `OutcomeLostOnlyToStaleRead`: the columns a
commit writes differ from the session's copy, so a recorded outcome is overwritten
only by one that did not read it.

**Requests.** `PaymentRequests` is not a refinement of `PaymentService`: the
subscriber of a reservation's cancellation works from rows it listed earlier,
where `PaymentService` reads the row when it begins. The proof names that step
`CancelFrom`, shows that every step of `RequestSpec` is either one of
`PaymentService` or a `CancelFrom` a listed copy, and that both keep `OInv`,
because a listed copy still has the row's provider id (`Lists`): the id of an
existing row never changes. `PromisesKeptUnderRequests` is the result.
`RequestInv` adds what requests know:

- `Serves`: the session of a request does what the request asked, to a payment it
  is about; and compensation after a failed capture never reaches the provider,
  for it finds its own copy marked failed, or without an id;
- `CancelsAll`: what a cancellation has dealt with is cancelled or in hand;
- `Told`: what was answered stays true, by `FinalStays`.

`CapturedOnlyOnRequest` follows the row to its writer: only `FinishCreate`,
`FinishCapture`, `FinishProcess` and `FinishReconcile` write "succeeded", each by
the session that has the answer, and `Serves` says of that session which request
it works for. For a poll, `Learned` says that what the session was told is still
so at the provider when it writes.

`ConfirmationSettles` needs besides that a row becomes "authorized" only by the
commit that creates it (`NoneAuthorized`): other commits carry that status in
their copies and do not write it.

**Refunds.** `IInv` of `RefundProofs` follows the id of a provider refund as
`ChargesAreRecorded` does that of a payment, with tasks besides requests, and
adds `Accounted`: what a provider payment has had refunded is the sum of its
accepted refunds. `RefundedIsNeverOverstated` is not inductive by itself:
`LedgerOK` says of a request that the total it read, and with its own refund once
the provider has accepted it, is no more than the provider has given back; so
that is true of whichever total is written last. `LostOnlyToStaleRead` is about
the other direction: the total may become too small, and only over a total that
moved after it was read.

**Sums.** What was refunded and what is held are sums over finite sets, which the
community module defines by recursion over a set. `SumProofs` avoids an
induction: the sum of `f` over `S` is the number of pairs of a member `x` and a
number in `1..f[x]` (`SumIsCount`: both satisfy the recursion, and two functions
that do could differ first on a smallest set, on which they cannot), and how a
sum changes with one value (`SumChanges`) follows from facts about cardinalities.

**Bookings.** `CancelInv` adds to `CancelledGaveBack` that a call that cancels is
about one reservation that exists (`CancelsOne`), and that one about to write the
status has had its rooms given back or refused (`AboutToCancel`). `PricesAddUp`
is true in every typed state, by `QuotesAddUp`: a price is linear in the nights,
and the code computes in decimals and rounds nothing.

**Rooms.** `BInv` is inductive. `Balance`: of every night, the rooms that are free,
those held, and those of cancelled reservations that never gave theirs back, less
`Excess`, are the hotel's capacity; no room is lost or made. `Counted`: what a
call has counted is still free on the nights it was not overtaken on. Hence
`NotBelow`: less than nothing is free of a night only by as much as calls took
that had been overtaken on it. The property is `Balance` and `NotBelow` together.
Of `reserve_inventory` the proof uses only that it takes the rooms asked for or
none.

**Workers.** `WorkerInv` follows the flag of each program: it is cleared, and what
ends the program is scheduled, only after a signal.

**The trail.** `AuditInv` adds that a call of the worker has a published event
(`HandlesPublished`), that it acknowledges what it has recorded or printed
(`DoneIsDealtWith`), and that an administrator who was found is still there
(`FoundIsThere`). For `DoubledOnlyByFaults` `CountInv` counts: the documents of an
event that are there, those that calls will still insert and the one its message
will bring are together one, and one for every fault (`CopiesBounded`). A call
whose delivery was returned to the queue still inserts its document; that it can
no longer acknowledge is `DeliveriesOK`. `AdminsBounded` counts administrators and
processes that may still seed in the same way, for the types.

**Accounts.** `AuthInv` adds the types of what sessions are about to write
(`SessionsOK`) and that no committed account, and no copy of one, has a failed
attempt or a lock (`AccountsClean`): without it an administrator's update of an
old copy could bring a count back. Uniqueness needs the index at the commit and
not the lookup, which the proof does not use.

**Rights and roles.** `RightsInv` relates what a session is about to write to the
right of its user when it began (`SessionRights`): an update of other people's
accounts has "users:update", as `Permitted` on the rows it had loaded implies;
one of one's own account has a copy that is active and leaves its `verified`
and `roles`. Since a commit writes only what differs from the copy, of columns and of links alike, a change of one of these is by a
session that changed its copy, and so by one that had the right.

**Deliveries.** `ShapeInv` follows what each session is about, and that a new id
is nobody else's. `DeliveryInv` adds to the committed rows that one names as its
sender a session that has committed (`RowsGood`), and to each session what it is
about to write (`Intends`), what its copy says of the sending (`Dated`: the row's
own date or, after the second flush, the session itself), and that an unpatched
row is held from the first flush of a delivery on (`Unpatched`); two sessions at
the provider would then both hold it. `TemplateInv` says that a name that was
inserted and not committed is in no row and in no other insert (`Naming`), and
that an update leaves the name, by which no third session can bring it in.

Each proof has one step per action, most of them by lemmas that say what the
quiet steps leave alone.

**Model-checked only.** `RequestsEnd`, `EventsAreHandled` and
`SignalledWorkersEnd`: they hold under fairness, whose `ENABLED` the provers do not
reason about. The runs check them on their small instances. The four findings are
counterexamples, which TLC finds and nothing has to be proved of.

## 6. Not modelled

- **hotel-service.** Its services cannot do what they are written to do: the
  models have no `is_active`, a room has a `number` and no `room_number`,
  repositories lack methods the services call, the API passes arguments they do
  not take and imports `src.api.deps`, which is not there, and nothing commits.
  A specification would be of a program that does not exist. Its Redis client
  serves the health endpoints alone. Its worker is in `WorkerLoops`.
- **reservation-service**, the rest: updates, guests, holds and queries, on the
  same repository. The inner order of the modelled calls is the code's;
  the store is external.
- **payment-service**: the handlers of notification events read and log; the
  transactions API answers 500 for every row (`transactions.py:22` validates
  `metadata`, which in a SQLAlchemy model is not a column); payment methods and payouts have no operation;
  `reconcile_refund` only reads; the worker registers no task.
- **notification-service**: its worker only logs and no program starts it;
  preferences and the deletion of notifications have no caller.
- **core-service**: reading endpoints. `GET` of one professor answers 500, as its
  schema asks for a column the row lacks.
- **auth-service**: reading endpoints; `require_superuser`, `require_roles` and
  `core/dependencies.py`, which nothing uses; the tasks of its worker, which log.
- **audit_service, api-gateway, packages, infrastructure**: files without code, or
  deployment. **frontend**: pages with one fetch, no shared state.

## 7. Plan

What the runs check of safety is proved. What is left:

1. Properties that are deeper than the present ones where a hazard has none:
   PayPal's missing amount after polling, `process_payment` on an authorised
   payment, the reservation calls that fail half-way, and the confirmation of a
   cancelled reservation. Section 4 tells of them; nothing in the code promises
   otherwise.
2. `PaymentRequests` with amounts: that `CapturedAmountIsTrue` survives listed
   copies too. `CopyAmount` would have to be stated of the copies, as `Lists`
   states their ids.
3. A repository for reservation-service, once there is one, in place of the
   external steps of `Bookings`; with a `reserve_inventory` that looks at what is
   left, `raced` should be zero, and with a status check in the cancellation
   `Excess` too.
