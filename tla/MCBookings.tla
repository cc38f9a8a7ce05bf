----------------------------- MODULE MCBookings -----------------------------
\* Two modules in one run: they share no variable, and a behaviour is of one
\* of them.
EXTENDS Bookings, WorkerLoops

VARIABLE checked

mcVars == <<checked, bookingVars, workerVars>>

MCDays == 0..2

TypeOK == BookingTypeOK /\ WorkerTypeOK

MCInit ==
    /\ checked \in {"bookings", "worker"}
    /\ checked = "bookings" => program = "hotel"
    /\ BookingInit
    /\ WorkerInit

OfBookings(A) == checked = "bookings" /\ A /\ UNCHANGED <<checked, workerVars>>

OfWorker(A) == checked = "worker" /\ A /\ UNCHANGED <<checked, bookingVars>>

MCNext == OfBookings(BookingNext) \/ OfWorker(WorkerNext)

MCSpec ==
    /\ MCInit /\ [][MCNext]_mcVars
    /\ WF_mcVars(OfWorker(Handled)) /\ WF_mcVars(OfWorker(GoesOn))
=============================================================================
