---------------------------- MODULE WorkerLoops ----------------------------
(***************************************************************************)
(* The worker programs of hotel-service, payment-service, auth-service and *)
(* reservation-service: how one starts, goes round, and ends when it is    *)
(* told to.  What they do on the way is still to be written: no task is    *)
(* registered with the first two, and those of auth-service only log.      *)
(*                                                                         *)
(* A worker is one asyncio program.  A signal comes at any time after the  *)
(* handlers are in place; what it sets off runs when the program waits.    *)
(***************************************************************************)
EXTENDS Naturals

VARIABLES
    program,    \* which worker this is
    pc,         \* where it is
    running,    \* hotel: _running
    event,      \* hotel: _stop_event, payment: _shutdown_event
    signalled,  \* a SIGINT has been sent
    due         \* what the signal has set off and has not run yet

workerVars == <<program, pc, running, event, signalled, due>>

Programs == {"hotel", "payment", "auth", "reservation"}

WorkerTypeOK ==
    /\ program \in Programs
    /\ pc \in {"started", "waiting", "ending", "ended"}
    /\ running \in BOOLEAN
    /\ event \in BOOLEAN
    /\ signalled \in BOOLEAN
    /\ due \in {"nothing", "handler", "stop"}

WorkerInit ==
    /\ program \in Programs
    /\ pc = "started"
    /\ running = FALSE
    /\ event = FALSE
    /\ signalled = FALSE
    /\ due = "nothing"

\* The process gets a SIGINT, once or more often.
Signal ==
    /\ pc # "ended"
    /\ signalled' = TRUE
    /\ due' = IF due = "nothing" THEN "handler" ELSE due
    /\ UNCHANGED <<program, pc, running, event>>

----------------------------------------------------------------------------
(* hotel-service                                                           *)

\* Up to the first wait: with no task, _execute_tasks does not wait.
HotelStarts ==
    /\ program = "hotel" /\ pc = "started"
    /\ pc' = "waiting"
    /\ running' = TRUE
    /\ event' = FALSE
    /\ UNCHANGED <<program, signalled, due>>

\* handle_shutdown only makes a task of worker.stop().
HandleShutdown ==
    /\ program = "hotel" /\ pc = "waiting"
    /\ due = "handler"
    /\ due' = "stop"
    /\ UNCHANGED <<program, pc, running, event, signalled>>

\* A bug to catch: stop sets the event, and leaves the flag of the loop.
StopByEvent ==
    /\ program = "hotel" /\ pc = "waiting"
    /\ due = "stop"
    /\ event' = TRUE
    /\ due' = "nothing"
    /\ UNCHANGED <<program, pc, running, signalled>>

\* stop(): the flag and the event.
Stop ==
    /\ program = "hotel" /\ pc = "waiting"
    /\ due = "stop"
    /\ IF running
         THEN running' = FALSE /\ event' = TRUE
         ELSE UNCHANGED <<running, event>>
    /\ due' = "nothing"
    /\ UNCHANGED <<program, pc, signalled>>

\* The wait is over, by the event or at the interval's end: once more round the
\* loop, or the end of it.
HotelGoesRound ==
    /\ program = "hotel" /\ pc = "waiting"
    /\ pc' = IF running THEN "waiting" ELSE "ended"
    /\ UNCHANGED <<program, running, event, signalled, due>>

----------------------------------------------------------------------------
(* payment-service                                                         *)

PaymentStarts ==
    /\ program = "payment" /\ pc = "started"
    /\ pc' = "waiting"
    /\ UNCHANGED <<program, running, event, signalled, due>>

\* request_shutdown is the handler itself.
RequestShutdown ==
    /\ program = "payment" /\ pc = "waiting"
    /\ due = "handler"
    /\ event' = TRUE
    /\ due' = "nothing"
    /\ UNCHANGED <<program, pc, running, signalled>>

\* A bug to catch: the worker waits for its event for a while only.
PaymentEndsAnyway ==
    /\ program = "payment" /\ pc = "waiting"
    /\ pc' = "ended"
    /\ UNCHANGED <<program, running, event, signalled, due>>

\* The event ends the wait; stop() has no tasks to cancel.
PaymentEnds ==
    /\ program = "payment" /\ pc = "waiting"
    /\ event
    /\ pc' = "ended"
    /\ UNCHANGED <<program, running, event, signalled, due>>

----------------------------------------------------------------------------
(* auth-service and reservation-service                                    *)

Looping == program \in {"auth", "reservation"}

\* Into the endless loop, and again after each sleep.  An error of a task is
\* logged, and the loop goes on.
GoesRound ==
    /\ Looping /\ pc \in {"started", "waiting"}
    /\ pc' = "waiting"
    /\ UNCHANGED <<program, running, event, signalled, due>>

\* asyncio.run answers the signal by cancelling the main task where it waits.
Cancelled ==
    /\ Looping /\ pc = "waiting"
    /\ due = "handler"
    /\ pc' = "ending"
    /\ due' = "nothing"
    /\ UNCHANGED <<program, running, event, signalled>>

\* The cancellation is logged, what there is to shut down is, and it is raised
\* again.
Ending ==
    /\ Looping /\ pc = "ending"
    /\ pc' = "ended"
    /\ UNCHANGED <<program, running, event, signalled, due>>

----------------------------------------------------------------------------
\* What waits its turn in the event loop.
Handled == HandleShutdown \/ Stop \/ RequestShutdown \/ Cancelled

GoesOn ==
    HotelStarts \/ HotelGoesRound \/ PaymentStarts \/ PaymentEnds \/ GoesRound \/ Ending

WorkerNext == Signal \/ Handled \/ GoesOn

\* The event loop runs what is ready, and timers end.
WorkerFairness == WF_workerVars(Handled) /\ WF_workerVars(GoesOn)

WorkerSpec == WorkerInit /\ [][WorkerNext]_workerVars /\ WorkerFairness

----------------------------------------------------------------------------
(* Properties                                                              *)

\* A worker that was told to stop ends, wherever the signal finds it: before
\* its first wait, between a stop event and the end of an interval, or again
\* while it is stopping (hotel-service worker.py:59-76 and :119-131).
SignalledWorkersEnd == signalled ~> pc = "ended"

\* No worker ends of itself.
EndsOnlyWhenSignalled == [][pc # "ended" /\ pc' = "ended" => signalled]_workerVars
=============================================================================
