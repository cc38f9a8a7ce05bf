------------------------------ MODULE Bookings ------------------------------
(***************************************************************************)
(* Bookings and cancellations of one hotel as reservation-service makes    *)
(* them: the two sagas behind the endpoints, ReservationService, and the   *)
(* inventory and availability services both rely on.                       *)
(*                                                                         *)
(* A call is a sequence of calls of the repository, and others run between *)
(* any two of them.  The repository of the service does not have the       *)
(* methods it is asked for, nor a create with the arguments it is given:   *)
(* what they do is taken from the names, the arguments and the answers the *)
(* services expect, each as one step that takes effect at once.  Nothing   *)
(* is assumed of whether reserve_inventory looks at what is left: only the *)
(* checks that the services make protect the rooms.  What a booking puts   *)
(* right when it fails half-way is what the code puts right: nothing.      *)
(***************************************************************************)
EXTENDS Pricing, FiniteSets, Functions

CONSTANTS
    Reservations,   \* ids of reservations
    Calls,          \* overlapping calls of the service
    Capacity,       \* rooms of the hotel
    MaxReleases,    \* bound: how often the rooms of a reservation are given back
    Nobody,         \* the reservation of a call that is about none
    Unused          \* an id no reservation has been created with

ASSUME BookingAssumption ==
    /\ Days # {} /\ Capacity \in Nat /\ MaxReleases \in Nat
    /\ Nobody \notin Reservations
    /\ IsFiniteSet(Reservations) /\ IsFiniteSet(Calls)

VARIABLES
    free,         \* [Nights -> Int], rooms the inventory has left
    reservation,  \* [Reservations -> Reservation \cup {Unused}]
    call,         \* [Calls -> Call]
    released,     \* history: [Reservations -> how often its rooms were given back]
    unheld,       \* history: [Nights -> rooms that were taken for no reservation]
    kept,         \* history: reservations cancelled although their rooms were not given back
    overtaken,    \* history: [Calls -> nights of which others took rooms since the call's check]
    raced         \* history: [Nights -> rooms taken by calls that were overtaken on it]

bookingVars == <<free, reservation, call, released, unheld, kept, overtaken, raced>>

\* What only the taking of rooms changes, of the histories.
raceVars == <<overtaken, raced>>

\* A night is named by the day it begins.
Nights == {d \in Days : d + 1 \in Days}

Stay == {stay \in [in : Days, out : Days, rooms : 1..MaxRooms] : stay.in < stay.out}

NightsOf(stay) == {n \in Nights : stay.in <= n /\ n < stay.out}

Reservation == [stay : Stay, status : {"pending", "confirmed", "cancelled"}]

ASSUME UnusedAssumption == Unused \notin Reservation

\* Of the two ways to book and the two to cancel, one each is a saga.
Booking    == {"create_booking", "create_reservation"}
Cancelling == {"cancel_booking", "cancel_reservation"}
Confirming == {"confirm_reservation"}

NoStay == [in |-> 0, out |-> 0, rooms |-> 0]

Call == [pc   : {"idle", "available", "counted", "reserved", "found", "released"},
         op   : Booking \cup Cancelling \cup Confirming \cup {"none"},
         stay : Stay \cup {NoStay},
         of   : Reservations \cup {Nobody}]

Idle == [pc |-> "idle", op |-> "none", stay |-> NoStay, of |-> Nobody]

BookingTypeOK ==
    /\ free \in [Nights -> Int]
    /\ reservation \in [Reservations -> Reservation \cup {Unused}]
    /\ call \in [Calls -> Call]
    /\ released \in [Reservations -> 0..MaxReleases]
    /\ unheld \in [Nights -> Nat]
    /\ kept \subseteq Reservations
    /\ overtaken \in [Calls -> SUBSET Nights]
    /\ raced \in [Nights -> Nat]

BookingInit ==
    /\ free = [n \in Nights |-> Capacity]
    /\ reservation = [r \in Reservations |-> Unused]
    /\ call = [c \in Calls |-> Idle]
    /\ released = [r \in Reservations |-> 0]
    /\ unheld = [n \in Nights |-> 0]
    /\ kept = {}
    /\ overtaken = [c \in Calls |-> {}]
    /\ raced = [n \in Nights |-> 0]

At(c, pc, ops) == call[c].pc = pc /\ call[c].op \in ops

MovesTo(c, pc) == call' = [call EXCEPT ![c].pc = pc]

Ends(c) == call' = [call EXCEPT ![c] = Idle]

Exists(r) == reservation[r] # Unused

\* Rooms of a stay are taken from, or given back to, each of its nights.
Changed(rooms, stay, by) == [n \in Nights |-> rooms[n] + IF n \in NightsOf(stay) THEN by ELSE 0]

----------------------------------------------------------------------------
(* Booking                                                                 *)

\* check_availability and check_room_inventory, of a stay that ends after it
\* begins and asks for rooms.
Enough(stay) == \A n \in NightsOf(stay) : free[n] >= stay.rooms

\* A stay that is not available is refused, and nothing has happened.
CheckAvailability(c, op, stay) ==
    /\ call[c].pc = "idle"
    /\ Enough(stay)
    /\ call' = [call EXCEPT ![c] = [pc |-> "available", op |-> op, stay |-> stay, of |-> Nobody]]
    /\ UNCHANGED <<free, reservation, released, unheld, kept, raceVars>>

\* POST /reservations: the orchestrator hands it to the booking saga.
BookingRequested(c, stay) == CheckAvailability(c, "create_booking", stay)

CreateReservation(c, stay) == CheckAvailability(c, "create_reservation", stay)

\* Since the last check of c nobody has taken rooms, or it does not matter.
NotOvertaken(c) == overtaken' = [overtaken EXCEPT ![c] = {}]

\* A bug to catch: the second answer is not looked at.
CheckInventoryIgnored(c) ==
    /\ At(c, "available", Booking)
    /\ MovesTo(c, "counted")
    /\ NotOvertaken(c)
    /\ UNCHANGED <<free, reservation, released, unheld, kept, raced>>

\* reserve_inventory asks again, and raises if there is not enough.
CheckInventory(c) ==
    /\ At(c, "available", Booking)
    /\ IF Enough(call[c].stay) THEN MovesTo(c, "counted") ELSE Ends(c)
    /\ NotOvertaken(c)
    /\ UNCHANGED <<free, reservation, released, unheld, kept, raced>>

\* The rooms of its stay are taken: calls that have checked and not yet taken
\* theirs are overtaken on these nights.
Takes(c) ==
    LET stay == call[c].stay
    IN  /\ free' = Changed(free, stay, -stay.rooms)
        /\ overtaken' = [d \in Calls |->
                IF d = c THEN {}
                ELSE IF call[d].pc = "counted" THEN overtaken[d] \cup NightsOf(stay)
                ELSE overtaken[d]]
        /\ raced' = [n \in Nights |->
                raced[n] + IF n \in NightsOf(stay) \cap overtaken[c] THEN stay.rooms ELSE 0]

\* ... and then tells the repository to reserve: it takes the rooms, whatever is
\* left of them, or answers that it did not.
ReserveInventory(c) ==
    /\ At(c, "counted", Booking)
    /\ \/ Takes(c) /\ MovesTo(c, "reserved")
       \/ Ends(c) /\ NotOvertaken(c) /\ UNCHANGED <<free, raced>>
    /\ UNCHANGED <<reservation, released, unheld, kept>>

\* The rooms the call has taken are nobody's.
Abandons(c) ==
    unheld' = IF call[c].pc = "reserved" THEN Changed(unheld, call[c].stay, call[c].stay.rooms)
                                         ELSE unheld

\* The booking saga ends here: its result says success, and there is no reservation.
Booked(c) ==
    /\ At(c, "reserved", {"create_booking"})
    /\ Abandons(c)
    /\ Ends(c)
    /\ UNCHANGED <<free, reservation, released, kept, raceVars>>

\* A bug to catch: the reservation is recorded as a hold.
RecordHold(c) ==
    /\ At(c, "reserved", {"create_reservation"})
    /\ \E r \in Reservations :
          /\ ~Exists(r)
          /\ reservation' = [reservation EXCEPT ![r] = [stay |-> call[c].stay, status |-> "hold"]]
    /\ Ends(c)
    /\ UNCHANGED <<free, released, unheld, kept, raceVars>>

\* The guest and then the reservation are created.  As it is, the repository's
\* create does not take these arguments, and the call fails here: Fails.
RecordReservation(c) ==
    /\ At(c, "reserved", {"create_reservation"})
    /\ \E r \in Reservations :
          /\ ~Exists(r)
          /\ reservation' = [reservation EXCEPT ![r] = [stay |-> call[c].stay, status |-> "pending"]]
    /\ Ends(c)
    /\ UNCHANGED <<free, released, unheld, kept, raceVars>>

----------------------------------------------------------------------------
(* Confirming and cancelling                                               *)

\* get_by_id finds the reservation, whatever its status.
Finds(c, op, r) ==
    /\ call[c].pc = "idle"
    /\ Exists(r)
    /\ call' = [call EXCEPT ![c] =
                  [pc |-> "found", op |-> op, stay |-> reservation[r].stay, of |-> r]]
    /\ UNCHANGED <<free, reservation, released, unheld, kept, raceVars>>

\* POST /cancellations/{id}
CancellationRequested(c, r) == Finds(c, "cancel_booking", r)

CancelReservation(c, r) == Finds(c, "cancel_reservation", r)

ConfirmReservation(c, r) == Finds(c, "confirm_reservation", r)

\* repository.confirm: nobody looks at the status, not even whether the
\* reservation was cancelled.
Confirm(c) ==
    /\ At(c, "found", Confirming)
    /\ reservation' = [reservation EXCEPT ![call[c].of].status = "confirmed"]
    /\ Ends(c)
    /\ UNCHANGED <<free, released, unheld, kept, raceVars>>

\* A bug to catch: the saga goes on whatever the inventory answers.
ReleaseRefusedIgnored(c) ==
    /\ At(c, "found", Cancelling)
    /\ MovesTo(c, "released")
    /\ UNCHANGED kept

\* The rooms are not given back: the saga reports that, ReservationService does
\* not look at the answer.
ReleaseRefused(c) ==
    /\ At(c, "found", Cancelling)
    /\ IF call[c].op = "cancel_booking"
         THEN Ends(c) /\ UNCHANGED kept
         ELSE MovesTo(c, "released") /\ kept' = kept \cup {call[c].of}

\* release_inventory: the rooms are given back, or they are not.
ReleaseInventory(c) ==
    LET r == call[c].of
    IN  /\ \/ /\ At(c, "found", Cancelling)
              /\ released[r] < MaxReleases
              /\ released' = [released EXCEPT ![r] = @ + 1]
              /\ free' = Changed(free, call[c].stay, call[c].stay.rooms)
              /\ MovesTo(c, "released")
              /\ UNCHANGED kept
           \/ ReleaseRefused(c) /\ UNCHANGED <<free, released>>
        /\ UNCHANGED <<reservation, unheld, raceVars>>

\* repository.cancel
Cancel(c) ==
    /\ At(c, "released", Cancelling)
    /\ reservation' = [reservation EXCEPT ![call[c].of].status = "cancelled"]
    /\ Ends(c)
    /\ UNCHANGED <<free, released, unheld, kept, raceVars>>

\* A call of the repository raises, or the process dies; nothing is undone.
Fails(c) ==
    /\ call[c].pc # "idle"
    /\ Abandons(c)
    /\ Ends(c)
    /\ NotOvertaken(c)
    /\ UNCHANGED <<free, reservation, released, kept, raced>>

BookingNext ==
    \E c \in Calls :
        \/ \E stay \in Stay : BookingRequested(c, stay) \/ CreateReservation(c, stay)
        \/ \E r \in Reservations :
              CancellationRequested(c, r) \/ CancelReservation(c, r) \/ ConfirmReservation(c, r)
        \/ CheckInventory(c) \/ ReserveInventory(c) \/ Booked(c) \/ RecordReservation(c)
        \/ ReleaseInventory(c) \/ Cancel(c) \/ Confirm(c) \/ Fails(c)

BookingSpec == BookingInit /\ [][BookingNext]_bookingVars

----------------------------------------------------------------------------
(* Properties                                                              *)

\* Rooms of a stay on night n.
RoomsOn(stay, n) == IF n \in NightsOf(stay) THEN stay.rooms ELSE 0

Active(r) == Exists(r) /\ reservation[r].status # "cancelled"

\* The rooms of a reservation on night n, as many times as given.
Times(r, times, n) == times * RoomsOn(reservation[r].stay, n)

HeldByReservations(n) ==
    [r \in Reservations |-> IF Active(r) THEN Times(r, 1, n) ELSE 0]

HeldByCalls(n) ==
    [c \in Calls |-> IF call[c].pc = "reserved" THEN RoomsOn(call[c].stay, n) ELSE 0]

\* Rooms on night n of the reservations that are pending or confirmed, whether or
\* not their rooms were given back, of calls about to record theirs, and of
\* bookings that left none on record.
Held(n) ==
    SumFunctionOnSet(HeldByReservations(n), Reservations)
        + SumFunctionOnSet(HeldByCalls(n), Calls)
        + unheld[n]

\* Rooms on night n given back of a reservation that is still pending or
\* confirmed, and given back again of one that is cancelled.
GivenBackInExcess(n) ==
    [r \in Reservations |->
        IF ~Exists(r) \/ released[r] = 0 THEN 0
        ELSE Times(r, IF Active(r) THEN released[r] ELSE released[r] - 1, n)]

Excess(n) == SumFunctionOnSet(GivenBackInExcess(n), Reservations)

\* A night is never promised to more guests than the hotel has rooms for, though
\* each call checks, takes, records, gives back and cancels in steps of its own.
\* There are two ways it may be after all, and the rooms of each are counted:
\* rooms given back of a reservation that is not cancelled, or not only once
\* (inventory_service.py:56-78, cancellation_saga.py:42-61), and rooms taken by a
\* call after others took some that it had counted (inventory_service.py:37-54).
OversoldOnlyByReleaseOrRace ==
    \A n \in Nights : Held(n) <= Capacity + Excess(n) + raced[n]

\* A cancelled reservation has given its rooms back before, unless
\* ReservationService passed over a refusal to take them
\* (reservation_service.py:187-197).
CancelledGaveBack ==
    \A r \in Reservations : Exists(r) /\ reservation[r].status = "cancelled" =>
        released[r] > 0 \/ r \in kept

\* A stay that is being booked costs what its two halves would, whatever the
\* price, the discount and the tax (booking_saga.py:60-67).
PricesAddUp ==
    \A c \in Calls, price \in Prices, discount, tax \in Percents, between \in Days :
        LET stay == call[c].stay
        IN  stay # NoStay /\ stay.in < between /\ between < stay.out
              => PricesAddUpFor(price, stay.in, between, stay.out, stay.rooms, discount, tax)
=============================================================================
