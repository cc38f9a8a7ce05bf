--------------------------- MODULE BookingProofs ---------------------------
(***************************************************************************)
(* What a stay costs, for every price, percentage and length of stay; whose*)
(* the rooms of the inventory are, for every number of calls, reservations,*)
(* nights and rooms; and when a worker ends.                               *)
(***************************************************************************)
EXTENDS MCBookings, SumProofs, TLAPS

\* The subtotal of a stay is the sum of those of its two parts
\* (pricing_service.py:33-59).
LEMMA SubtotalsAddUp ==
    ASSUME NEW price \in Int, NEW a \in Int, NEW b \in Int, NEW c \in Int, NEW rooms \in Int
    PROVE  CalculateRoomSubtotal(price, a, c, rooms)
             = CalculateRoomSubtotal(price, a, b, rooms) + CalculateRoomSubtotal(price, b, c, rooms)
  BY SMT DEF CalculateRoomSubtotal, CalculateNights

\* ... and is not negative for a stay that ends after it begins.
LEMMA SubtotalIsNat ==
    ASSUME NEW price \in Nat, NEW a \in Int, NEW c \in Int, a < c, NEW rooms \in Nat
    PROVE  CalculateRoomSubtotal(price, a, c, rooms) \in Nat
<1>1. c - a \in Nat
  OBVIOUS
<1>2. price * (c - a) \in Nat
  BY <1>1, SMT
<1>3. price * (c - a) * rooms \in Nat
  BY <1>2, SMT
<1> QED
  BY <1>3 DEF CalculateRoomSubtotal, CalculateNights

\* What is due of a subtotal, after a discount and with the tax on the rest.
Due(subtotal, discount, tax) ==
    100 * (100 * subtotal - subtotal * discount) + (100 * subtotal - subtotal * discount) * tax

\* The total is what is due of the subtotal.
LEMMA TotalIsDue ==
    ASSUME NEW price, NEW a, NEW c, NEW rooms, NEW discount, NEW tax
    PROVE  CalculateTotal(price, a, c, rooms, discount, tax)
             = Due(CalculateRoomSubtotal(price, a, c, rooms), discount, tax)
  BY DEF CalculateTotal, CalculateDiscount, CalculateTax, Due

\* What is due of a sum is the sum of what is due.
LEMMA DueAddsUp ==
    ASSUME NEW x \in Int, NEW y \in Int, NEW discount \in Int, NEW tax \in Int
    PROVE  Due(x + y, discount, tax) = Due(x, discount, tax) + Due(y, discount, tax)
  BY SMT DEF Due

\* It is never negative, and at most double: no discount and all of it as tax.
LEMMA DueIsBounded ==
    ASSUME NEW x \in Nat, NEW discount \in Percent, NEW tax \in Percent
    PROVE  Due(x, discount, tax) \in Nat /\ Due(x, discount, tax) <= 20000 * x
<1> DEFINE left == x * (100 - discount)
<1>1. 100 - discount \in Nat /\ 100 - discount <= 100
  BY DEF Percent
<1>2. left \in Nat
  BY <1>1, SMT
<1>3. left <= 100 * x
  BY <1>1, SMT
<1>4. 100 * x - x * discount = left
  BY SMT DEF Percent
<1>5. 100 + tax \in Nat /\ 100 + tax <= 200
  BY DEF Percent
<1>6. Due(x, discount, tax) = left * (100 + tax)
  BY <1>2, <1>4, SMT DEF Due, Percent
<1>7. left * (100 + tax) \in Nat
  BY <1>2, <1>5, SMT
<1>8. left * (100 + tax) <= left * 200
  BY <1>2, <1>5, SMT
<1> QED
  BY <1>2, <1>3, <1>6, <1>7, <1>8, SMT

\* Wherever a stay is cut, its price is that of its parts (pricing_service.py:103-131).
THEOREM QuotesAddUp ==
    ASSUME NEW price \in Nat, NEW a \in Int, NEW b \in Int, NEW c \in Int, a < b, b < c,
           NEW rooms \in Nat, NEW discount \in Percent, NEW tax \in Percent
    PROVE  PricesAddUpFor(price, a, b, c, rooms, discount, tax)
<1> DEFINE whole  == CalculateRoomSubtotal(price, a, c, rooms)
           first  == CalculateRoomSubtotal(price, a, b, rooms)
           second == CalculateRoomSubtotal(price, b, c, rooms)
<1>1. a < c /\ price \in Int /\ rooms \in Int /\ discount \in Int /\ tax \in Int
  BY DEF Percent
<1>2. whole = first + second
  BY <1>1, SubtotalsAddUp
<1>3. whole \in Nat /\ first \in Nat /\ second \in Nat
  BY <1>1, SubtotalIsNat
<1>4. Due(whole, discount, tax) = Due(first, discount, tax) + Due(second, discount, tax)
  <2>1. first \in Int /\ second \in Int
    BY <1>3
  <2> HIDE DEF first, second
  <2>2. Due(first + second, discount, tax) = Due(first, discount, tax) + Due(second, discount, tax)
    BY <1>1, <2>1, DueAddsUp
  <2> QED
    BY <1>2, <2>2
<1>5. Due(whole, discount, tax) \in Nat /\ Due(whole, discount, tax) <= 20000 * whole
  BY <1>3, DueIsBounded
<1>6. 20000 * whole = 20000 * price * (c - a) * rooms
  BY SMT DEF CalculateRoomSubtotal, CalculateNights
<1> QED
  BY <1>4, <1>5, <1>6, TotalIsDue DEF PricesAddUpFor
----------------------------------------------------------------------------
(* The rows and the calls                                                  *)

\* What the steps of a cancellation rely on of the types.
RowsOK ==
    /\ reservation \in [Reservations -> Reservation \cup {Unused}]
    /\ call \in [Calls -> Call]
    /\ released \in [Reservations -> Nat]

\* A cancellation that is about to write has given the rooms back, or passed
\* over the refusal.
AboutToCancel ==
    \A c \in Calls : At(c, "released", Cancelling) =>
        released[call[c].of] > 0 \/ call[c].of \in kept

\* A call under way has a stay, and those that found a reservation are of one that
\* exists.
CancelsOne ==
    \A c \in Calls :
        /\ call[c].op # "none" => call[c].stay \in Stay
        /\ call[c].op \in Cancelling \cup Confirming =>
               call[c].of \in Reservations /\ Exists(call[c].of)

\* The inductive invariant behind CancelledGaveBack.
CancelInv == RowsOK /\ CancelsOne /\ AboutToCancel /\ CancelledGaveBack

\* It holds at first.
LEMMA InitCancelInv == BookingInit => CancelInv
<1> SUFFICES ASSUME BookingInit PROVE CancelInv
  OBVIOUS
<1> USE DEF BookingInit
<1>1. Idle \in Call
  BY DEF Idle, Call
<1>2. RowsOK
  BY <1>1 DEF RowsOK
<1>3. CancelsOne /\ AboutToCancel
  BY DEF CancelsOne, AboutToCancel, At, Idle, Cancelling, Confirming
<1>4. CancelledGaveBack
  BY DEF CancelledGaveBack, Exists
<1> QED
  BY <1>2, <1>3, <1>4 DEF CancelInv

\* Steps of a call that is not yet, or no longer, about to cancel.
Moves(c, new) ==
    /\ new \in Call
    /\ call' = [call EXCEPT ![c] = new]
    /\ new.op # "none" => new.stay \in Stay
    /\ new.op \in Cancelling \cup Confirming => new.of \in Reservations /\ Exists(new.of)

\* They keep the invariant.
LEMMA MovingKeepsInv ==
    ASSUME CancelInv, NEW c \in Calls, NEW new, Moves(c, new), new.pc # "released",
           UNCHANGED <<reservation, released, kept>>
    PROVE  CancelInv'
<1> USE DEF CancelInv, Moves
<1>1. RowsOK'
  BY DEF RowsOK
<1>2. CancelsOne'
  BY DEF CancelsOne, RowsOK, Exists
<1>3. AboutToCancel'
  BY DEF AboutToCancel, RowsOK, At
<1>4. CancelledGaveBack'
  BY DEF CancelledGaveBack, Exists
<1> QED
  BY <1>1, <1>2, <1>3, <1>4

\* To end is such a step.
LEMMA IdleMoves ==
    ASSUME NEW c \in Calls, Ends(c)
    PROVE  Moves(c, Idle) /\ Idle.pc # "released"
  BY DEF Ends, Moves, Idle, Call, Cancelling, Confirming

\* A call that ends without writing keeps the invariant.
LEMMA EndingKeepsInv ==
    ASSUME CancelInv, NEW c \in Calls, Ends(c), UNCHANGED <<reservation, released, kept>>
    PROVE  CancelInv'
  BY IdleMoves, MovingKeepsInv

\* The next stage of a booking.
LEMMA BookingGoesOn ==
    ASSUME CancelInv, NEW c \in Calls, NEW stage \in {"counted", "reserved"},
           call[c].op \in Booking, MovesTo(c, stage),
           UNCHANGED <<reservation, released, kept>>
    PROVE  CancelInv'
<1> DEFINE new == [call[c] EXCEPT !.pc = stage]
<1>1. call[c] \in Call /\ call[c].stay \in Stay
  BY DEF CancelInv, RowsOK, CancelsOne, Booking
<1>2. new \in Call /\ new.pc = stage /\ new.op = call[c].op /\ new.stay = call[c].stay
  BY <1>1 DEF Call
<1>3. call' = [call EXCEPT ![c] = new]
  BY DEF MovesTo
<1>4. new.op \notin Cancelling \cup Confirming
  BY <1>2 DEF Booking, Cancelling, Confirming
<1>5. Moves(c, new) /\ new.pc # "released"
  BY <1>1, <1>2, <1>3, <1>4 DEF Moves
<1> HIDE DEF new
<1> QED
  BY <1>5, MovingKeepsInv

\* A booking that begins.
LEMMA BookingBegins ==
    ASSUME CancelInv, NEW c \in Calls, NEW op \in Booking, NEW stay \in Stay,
           CheckAvailability(c, op, stay)
    PROVE  CancelInv'
<1> DEFINE new == [pc |-> "available", op |-> op, stay |-> stay, of |-> Nobody]
<1>1. Moves(c, new) /\ new.pc # "released"
  BY DEF CheckAvailability, Moves, Call, Booking, Cancelling, Confirming
<1>2. UNCHANGED <<reservation, released, kept>>
  BY DEF CheckAvailability
<1> HIDE DEF new
<1> QED
  BY <1>1, <1>2, MovingKeepsInv

\* A cancellation or a confirmation that begins.
LEMMA FindingBegins ==
    ASSUME CancelInv, NEW c \in Calls, NEW op \in Cancelling \cup Confirming, NEW r \in Reservations,
           Finds(c, op, r)
    PROVE  CancelInv'
<1> DEFINE new == [pc |-> "found", op |-> op, stay |-> reservation[r].stay, of |-> r]
<1>1. reservation[r].stay \in Stay
  BY DEF Finds, Exists, CancelInv, RowsOK, Reservation
<1>2. Moves(c, new) /\ new.pc # "released"
  BY <1>1 DEF Finds, Moves, Call, Cancelling, Confirming
<1>3. UNCHANGED <<reservation, released, kept>>
  BY DEF Finds
<1> HIDE DEF new
<1> QED
  BY <1>2, <1>3, MovingKeepsInv

\* A new reservation is not a cancelled one.
LEMMA RecordingKeepsInv ==
    ASSUME CancelInv, NEW c \in Calls, RecordReservation(c)
    PROVE  CancelInv'
<1> USE DEF CancelInv
<1> DEFINE row == [stay |-> call[c].stay, status |-> "pending"]
<1>1. PICK r \in Reservations : reservation' = [reservation EXCEPT ![r] = row]
  BY DEF RecordReservation
<1>2. call' = [call EXCEPT ![c] = Idle] /\ UNCHANGED <<released, kept>>
  BY DEF RecordReservation, Ends
<1>3. Idle \in Call /\ Idle.op = "none" /\ Idle.pc = "idle"
  BY DEF Idle, Call
<1>4. row \in Reservation /\ row # Unused /\ row.status # "cancelled"
  BY UnusedAssumption DEF CancelsOne, RecordReservation, At, Reservation
<1> HIDE DEF row
<1>5. RowsOK'
  BY <1>1, <1>2, <1>3, <1>4 DEF RowsOK
<1>6. CancelsOne'
  <2>1. \A q \in Reservations : Exists(q) => Exists(q)'
    BY <1>1, <1>4 DEF Exists, RowsOK
  <2> QED
    BY <1>2, <1>3, <2>1 DEF CancelsOne, RowsOK, Cancelling, Confirming
<1>7. AboutToCancel'
  BY <1>2, <1>3 DEF AboutToCancel, RowsOK, At
<1>8. CancelledGaveBack'
  BY <1>1, <1>2, <1>4 DEF CancelledGaveBack, Exists, RowsOK
<1> QED
  BY <1>5, <1>6, <1>7, <1>8

\* To change the status of a reservation leaves it one.
LEMMA StatusChanges ==
    ASSUME RowsOK, NEW r \in Reservations, Exists(r), NEW status \in {"confirmed", "cancelled"},
           reservation' = [reservation EXCEPT ![r].status = status]
    PROVE  /\ reservation' \in [Reservations -> Reservation \cup {Unused}]
           /\ reservation'[r].status = status
           /\ \A q \in Reservations \ {r} : reservation'[q] = reservation[q]
           /\ \A q \in Reservations : Exists(q) => Exists(q)'
<1> DEFINE row == [stay |-> reservation[r].stay, status |-> status]
<1>1. reservation[r] \in Reservation
  BY DEF RowsOK, Exists
<1>2. [reservation[r] EXCEPT !.status = status] = row /\ row \in Reservation /\ row.status = status
  BY <1>1 DEF Reservation
<1>3. row # Unused
  BY <1>2, UnusedAssumption
<1> HIDE DEF row
<1>4. reservation' = [reservation EXCEPT ![r] = row]
  BY <1>2
<1> QED
  BY <1>2, <1>3, <1>4 DEF RowsOK, Exists

\* To confirm a reservation, cancelled or not, does not make it a cancelled one.
LEMMA ConfirmingKeepsInv ==
    ASSUME CancelInv, NEW c \in Calls, Confirm(c)
    PROVE  CancelInv'
<1> USE DEF CancelInv
<1> DEFINE r == call[c].of
<1>1. r \in Reservations /\ Exists(r)
  BY DEF Confirm, At, CancelsOne
<1>2. /\ reservation' = [reservation EXCEPT ![r].status = "confirmed"]
      /\ call' = [call EXCEPT ![c] = Idle] /\ UNCHANGED <<released, kept>>
  BY DEF Confirm, Ends
<1>3. Idle \in Call /\ Idle.op = "none" /\ Idle.pc = "idle"
  BY DEF Idle, Call
<1> HIDE DEF r
<1>4. /\ reservation' \in [Reservations -> Reservation \cup {Unused}]
      /\ reservation'[r].status = "confirmed"
      /\ \A q \in Reservations \ {r} : reservation'[q] = reservation[q]
      /\ \A q \in Reservations : Exists(q) => Exists(q)'
  BY <1>1, <1>2, StatusChanges
<1>5. RowsOK'
  BY <1>2, <1>3, <1>4 DEF RowsOK
<1>6. CancelsOne' /\ AboutToCancel'
  BY <1>2, <1>3, <1>4 DEF CancelsOne, AboutToCancel, RowsOK, At, Cancelling, Confirming
<1>7. CancelledGaveBack'
  BY <1>2, <1>4 DEF CancelledGaveBack, Exists
<1> QED
  BY <1>5, <1>6, <1>7

\* A cancellation that moves on to write, with what justifies it.
LEMMA GettingReadyKeepsInv ==
    ASSUME CancelInv, NEW c \in Calls, At(c, "found", Cancelling), MovesTo(c, "released"),
           UNCHANGED reservation,
           \/ released' = [released EXCEPT ![call[c].of] = @ + 1] /\ UNCHANGED kept
           \/ kept' = kept \cup {call[c].of} /\ UNCHANGED released
    PROVE  CancelInv'
<1> USE DEF CancelInv
<1> DEFINE r == call[c].of
           new == [call[c] EXCEPT !.pc = "released"]
<1>1. r \in Reservations /\ Exists(r) /\ call[c] \in Call /\ call[c].stay \in Stay
  BY DEF CancelsOne, At, RowsOK, Cancelling
<1>2. /\ new \in Call /\ new.pc = "released" /\ new.op = call[c].op
      /\ new.of = r /\ new.stay = call[c].stay
  BY <1>1 DEF Call
<1>3. call' = [call EXCEPT ![c] = new]
  BY DEF MovesTo
<1> HIDE DEF new
<1>4. released' \in [Reservations -> Nat] /\ \A q \in Reservations : released'[q] >= released[q]
  BY <1>1 DEF RowsOK
<1>5. kept \subseteq kept' /\ (released'[r] > 0 \/ r \in kept')
  BY <1>1 DEF RowsOK
<1>6. \A q \in Reservations : released[q] > 0 \/ q \in kept => released'[q] > 0 \/ q \in kept'
  <2> SUFFICES ASSUME NEW q \in Reservations, released[q] > 0
               PROVE  released'[q] > 0
    BY <1>5
  <2>1. released[q] \in Nat /\ released'[q] \in Nat /\ released'[q] >= released[q]
    BY <1>4 DEF RowsOK
  <2> QED
    BY <2>1
<1>7. RowsOK'
  BY <1>2, <1>3, <1>4 DEF RowsOK
<1>8. CancelsOne'
  BY <1>1, <1>2, <1>3 DEF CancelsOne, RowsOK, Exists
<1>9. AboutToCancel'
  <2> SUFFICES ASSUME NEW d \in Calls, At(d, "released", Cancelling)'
               PROVE  released'[call'[d].of] > 0 \/ call'[d].of \in kept'
    BY DEF AboutToCancel
  <2>1. CASE d = c
    BY <1>2, <1>3, <1>5, <2>1 DEF RowsOK
  <2>2. CASE d # c
    BY <1>3, <1>6, <2>2 DEF AboutToCancel, CancelsOne, At, RowsOK
  <2> QED
    BY <2>1, <2>2
<1>10. CancelledGaveBack'
  BY <1>6 DEF CancelledGaveBack, Exists
<1> QED
  BY <1>7, <1>8, <1>9, <1>10

\* A cancellation goes on after the rooms were given back, or a refusal passed over.
LEMMA ReleasingKeepsInv ==
    ASSUME CancelInv, NEW c \in Calls, ReleaseInventory(c)
    PROVE  CancelInv'
<1>1. UNCHANGED reservation
  BY DEF ReleaseInventory
<1>2. CASE ReleaseRefused(c) /\ UNCHANGED released
  BY <1>1, <1>2, EndingKeepsInv, GettingReadyKeepsInv DEF ReleaseRefused
<1>3. CASE ~ReleaseRefused(c)
  BY <1>1, <1>3, GettingReadyKeepsInv DEF ReleaseInventory
<1> QED
  BY <1>2, <1>3, GettingReadyKeepsInv DEF ReleaseInventory

\* A reservation is cancelled by a call that is about to.
LEMMA CancelKeepsInv ==
    ASSUME CancelInv, NEW c \in Calls, Cancel(c)
    PROVE  CancelInv'
<1> USE DEF CancelInv
<1> DEFINE r == call[c].of
<1>1. r \in Reservations /\ Exists(r) /\ (released[r] > 0 \/ r \in kept)
  BY DEF Cancel, At, CancelsOne, AboutToCancel
<1>2. reservation' = [reservation EXCEPT ![r].status = "cancelled"]
      /\ call' = [call EXCEPT ![c] = Idle] /\ UNCHANGED <<released, kept>>
  BY DEF Cancel, Ends
<1>3. Idle \in Call /\ Idle.op = "none" /\ Idle.pc = "idle"
  BY DEF Idle, Call
<1> HIDE DEF r
<1>4. /\ reservation' \in [Reservations -> Reservation \cup {Unused}]
      /\ \A q \in Reservations \ {r} : reservation'[q] = reservation[q]
      /\ \A q \in Reservations : Exists(q) => Exists(q)'
  BY <1>1, <1>2, StatusChanges
<1>5. RowsOK'
  BY <1>2, <1>3, <1>4 DEF RowsOK
<1>6. CancelsOne' /\ AboutToCancel'
  BY <1>2, <1>3, <1>4 DEF CancelsOne, AboutToCancel, RowsOK, At, Cancelling, Confirming
<1>7. CancelledGaveBack'
  BY <1>1, <1>2, <1>4 DEF CancelledGaveBack, Exists
<1> QED
  BY <1>5, <1>6, <1>7

\* Every step keeps the invariant.
LEMMA NextKeepsInv == CancelInv /\ [BookingNext]_bookingVars => CancelInv'
<1> SUFFICES ASSUME CancelInv, [BookingNext]_bookingVars PROVE CancelInv'
  OBVIOUS
<1>1. ASSUME NEW c \in Calls, NEW stay \in Stay, BookingRequested(c, stay) \/ CreateReservation(c, stay)
      PROVE  CancelInv'
  BY <1>1, BookingBegins DEF BookingRequested, CreateReservation, Booking
<1>2. ASSUME NEW c \in Calls, NEW r \in Reservations,
             CancellationRequested(c, r) \/ CancelReservation(c, r) \/ ConfirmReservation(c, r)
      PROVE  CancelInv'
  BY <1>2, FindingBegins DEF CancellationRequested, CancelReservation, ConfirmReservation,
           Cancelling, Confirming
<1>3. ASSUME NEW c \in Calls, CheckInventory(c) PROVE CancelInv'
  BY <1>3, EndingKeepsInv, BookingGoesOn DEF CheckInventory, At
<1>4. ASSUME NEW c \in Calls, ReserveInventory(c) PROVE CancelInv'
  BY <1>4, EndingKeepsInv, BookingGoesOn DEF ReserveInventory, At
<1>5. ASSUME NEW c \in Calls, Booked(c) \/ Fails(c) PROVE CancelInv'
  BY <1>5, EndingKeepsInv DEF Booked, Fails
<1>6. CASE UNCHANGED bookingVars
  BY <1>6 DEF bookingVars, CancelInv, RowsOK, CancelsOne, AboutToCancel, CancelledGaveBack,
              Exists, At
<1> QED
  BY <1>1, <1>2, <1>3, <1>4, <1>5, <1>6, RecordingKeepsInv, ReleasingKeepsInv, CancelKeepsInv,
     ConfirmingKeepsInv DEF BookingNext

\* However many calls overlap, a cancelled reservation has given its rooms back,
\* or ReservationService passed over the refusal (reservation_service.py:187-197,
\* cancellation_saga.py:31-60).
THEOREM CancelledGaveBackAlways == BookingSpec => []CancelledGaveBack
<1>1. CancelInv => CancelledGaveBack
  BY DEF CancelInv
<1> QED
  BY <1>1, InitCancelInv, NextKeepsInv, PTL DEF BookingSpec

\* Whatever stay a call is about, its price is that of its two halves
\* (pricing_service.py:103-131, booking_saga.py:60-67).
THEOREM PricesAddUpAlways == BookingSpec => []PricesAddUp
<1>1. RowsOK => PricesAddUp
  <2> SUFFICES ASSUME RowsOK, NEW c \in Calls, NEW price \in Prices,
                      NEW discount \in Percents, NEW tax \in Percents, NEW between \in Days,
                      call[c].stay # NoStay, call[c].stay.in < between, between < call[c].stay.out
               PROVE  PricesAddUpFor(price, call[c].stay.in, between, call[c].stay.out,
                                     call[c].stay.rooms, discount, tax)
    BY DEF PricesAddUp
  <2>1. call[c].stay \in Stay
    BY DEF RowsOK, Call
  <2>2. call[c].stay.in \in Days /\ call[c].stay.out \in Days /\ call[c].stay.rooms \in 1..MaxRooms
    BY <2>1 DEF Stay
  <2>3. call[c].stay.rooms \in Nat
    BY <2>2, PricingAssumption
  <2>4. /\ call[c].stay.in \in Int /\ call[c].stay.out \in Int /\ between \in Int
        /\ price \in Nat /\ discount \in Percent /\ tax \in Percent
    BY <2>2, PricingAssumption
  <2> QED
    BY <2>3, <2>4, QuotesAddUp
<1>2. CancelInv => RowsOK
  BY DEF CancelInv
<1> QED
  BY <1>1, <1>2, InitCancelInv, NextKeepsInv, PTL DEF BookingSpec
----------------------------------------------------------------------------
(* Rooms                                                                   *)

\* A cancellation gives back the rooms of the stay its reservation has.
StayKept ==
    \A c \in Calls : call[c].op \in Cancelling => call[c].stay = reservation[call[c].of].stay

\* Nothing was given back of a reservation that does not exist.
ReleasedOnce ==
    /\ released \in [Reservations -> 0..MaxReleases]
    /\ \A r \in Reservations : ~Exists(r) => released[r] = 0

RoomsOK ==
    /\ free \in [Nights -> Int]
    /\ unheld \in [Nights -> Nat]
    /\ kept \subseteq Reservations
    /\ overtaken \in [Calls -> SUBSET Nights]
    /\ raced \in [Nights -> Nat]

RoomsOfReservations(n) == SumFunctionOnSet(HeldByReservations(n), Reservations)

RoomsOfCalls(n) == SumFunctionOnSet(HeldByCalls(n), Calls)

\* Rooms on night n of cancelled reservations that never gave theirs back.
LostByReservations(n) ==
    [r \in Reservations |->
        IF Exists(r) /\ ~Active(r) /\ released[r] = 0 THEN Times(r, 1, n) ELSE 0]

Lost(n) == SumFunctionOnSet(LostByReservations(n), Reservations)

\* What reservations have taken of a night and not given back.
Net(n) == RoomsOfReservations(n) + Lost(n) - Excess(n)

\* No rooms are lost or made: whatever is not free was taken.
Balance ==
    \A n \in Nights : free[n] + unheld[n] + RoomsOfCalls(n) + Net(n) = Capacity

\* What a call has counted is still there on the nights it was not overtaken on.
Counted ==
    \A c \in Calls : call[c].pc = "counted" =>
        \A n \in NightsOf(call[c].stay) \ overtaken[c] : free[n] >= call[c].stay.rooms

\* Only calls that were overtaken take rooms that are not there.
NotBelow == \A n \in Nights : free[n] + raced[n] >= 0

\* The inductive invariant behind OversoldOnlyByReleaseOrRace.
BInv == CancelInv /\ StayKept /\ ReleasedOnce /\ RoomsOK /\ Balance /\ Counted /\ NotBelow

\* The rooms of a call's stay, and of a reservation's.
LEMMA RoomsAreNat ==
    ASSUME RowsOK, NEW n
    PROVE  /\ \A c \in Calls : call[c].stay.rooms \in Nat /\ RoomsOn(call[c].stay, n) \in Nat
           /\ \A r \in Reservations : Exists(r) => RoomsOn(reservation[r].stay, n) \in Nat
<1>1. ASSUME NEW c \in Calls
      PROVE  call[c].stay.rooms \in Nat /\ RoomsOn(call[c].stay, n) \in Nat
  <2>1. call[c].stay \in Stay \cup {NoStay}
    BY DEF RowsOK, Call
  <2>2. call[c].stay.rooms \in Nat
    BY <2>1, PricingAssumption DEF Stay, NoStay
  <2>3. QED
    BY <2>2 DEF RoomsOn
<1>2. ASSUME NEW r \in Reservations, Exists(r)
      PROVE  RoomsOn(reservation[r].stay, n) \in Nat
  <2>1. reservation[r].stay \in Stay
    BY <1>2 DEF RowsOK, Reservation, Exists
  <2>2. reservation[r].stay.rooms \in Nat
    BY <2>1, PricingAssumption DEF Stay
  <2>3. QED
    BY <2>2 DEF RoomsOn
<1>3. QED
  BY <1>1, <1>2

\* The net of one reservation.
NetOf(r, n) == IF Exists(r) THEN (1 - released[r]) * RoomsOn(reservation[r].stay, n) ELSE 0

\* What one reservation adds to each of the three sums, and to the net.
LEMMA ShareOfReservation ==
    ASSUME RowsOK, NEW r \in Reservations, NEW n
    PROVE  /\ HeldByReservations(n)[r] \in Nat
           /\ LostByReservations(n)[r] \in Nat
           /\ GivenBackInExcess(n)[r] \in Nat
           /\ HeldByReservations(n)[r] + LostByReservations(n)[r] - GivenBackInExcess(n)[r]
                = NetOf(r, n)
<1> DEFINE x == RoomsOn(reservation[r].stay, n)
           k == released[r]
<1>1. k \in Nat
  BY DEF RowsOK
<1>2. /\ HeldByReservations(n)[r] = IF Active(r) THEN 1 * x ELSE 0
      /\ LostByReservations(n)[r] = IF Exists(r) /\ ~Active(r) /\ k = 0 THEN 1 * x ELSE 0
      /\ GivenBackInExcess(n)[r]
           = IF ~Exists(r) \/ k = 0 THEN 0 ELSE (IF Active(r) THEN k ELSE k - 1) * x
  BY DEF HeldByReservations, LostByReservations, GivenBackInExcess, Times
<1>3. CASE ~Exists(r)
  BY <1>2, <1>3 DEF Active, NetOf
<1>4. CASE Exists(r)
  <2>1. x \in Nat
    BY <1>4, RoomsAreNat
  <2> HIDE DEF x, k, NetOf
  <2>2. CASE Active(r) /\ k = 0
    BY <1>1, <1>2, <1>4, <2>1, <2>2 DEF x, k, NetOf
  <2>3. CASE Active(r) /\ k # 0
    <3>1. k * x \in Nat /\ (1 - k) * x = x - k * x
      BY <1>1, <2>1
    <3>2. QED
      BY <1>1, <1>2, <1>4, <2>1, <2>3, <3>1 DEF x, k, NetOf
  <2>4. CASE ~Active(r) /\ k = 0
    BY <1>1, <1>2, <1>4, <2>1, <2>4 DEF x, k, NetOf
  <2>5. CASE ~Active(r) /\ k # 0
    <3>1. k - 1 \in Nat
      BY <1>1, <2>5
    <3>2. (k - 1) * x \in Nat /\ (1 - k) * x = 0 - (k - 1) * x
      BY <1>1, <2>1, <3>1
    <3>3. QED
      BY <1>1, <1>2, <1>4, <2>1, <2>5, <3>1, <3>2 DEF x, k, NetOf
  <2>6. QED
    BY <2>2, <2>3, <2>4, <2>5
<1>5. QED
  BY <1>3, <1>4

AllShares ==
    /\ \A n : \A c \in Calls : HeldByCalls(n)[c] \in Nat
    /\ \A n : \A r \in Reservations : /\ HeldByReservations(n)[r] \in Nat
                                      /\ LostByReservations(n)[r] \in Nat
                                      /\ GivenBackInExcess(n)[r] \in Nat
    /\ \A n : \A r \in Reservations :
          HeldByReservations(n)[r] + LostByReservations(n)[r] - GivenBackInExcess(n)[r] = NetOf(r, n)
    /\ \A n : /\ RoomsOfReservations(n) \in Nat /\ Lost(n) \in Nat /\ Excess(n) \in Nat
              /\ RoomsOfCalls(n) \in Nat

\* ... before and after a step.
LEMMA Shares == RowsOK => AllShares
<1> SUFFICES ASSUME RowsOK PROVE AllShares
  OBVIOUS
<1>1. \A n : \A c \in Calls : HeldByCalls(n)[c] \in Nat
  BY RoomsAreNat DEF HeldByCalls
<1>2. \A n : \A r \in Reservations : /\ HeldByReservations(n)[r] \in Nat
                                     /\ LostByReservations(n)[r] \in Nat
                                     /\ GivenBackInExcess(n)[r] \in Nat
                                     /\ HeldByReservations(n)[r] + LostByReservations(n)[r]
                                          - GivenBackInExcess(n)[r] = NetOf(r, n)
  BY ShareOfReservation
<1>3. ASSUME NEW n
      PROVE  /\ RoomsOfReservations(n) \in Nat /\ Lost(n) \in Nat /\ Excess(n) \in Nat
             /\ RoomsOfCalls(n) \in Nat
  <2>1. RoomsOfReservations(n) \in Nat
    BY <1>2, SumType, BookingAssumption DEF RoomsOfReservations
  <2>2. Lost(n) \in Nat
    BY <1>2, SumType, BookingAssumption DEF Lost
  <2>3. Excess(n) \in Nat
    BY <1>2, SumType, BookingAssumption DEF Excess
  <2>4. RoomsOfCalls(n) \in Nat
    BY <1>1, SumType, BookingAssumption DEF RoomsOfCalls
  <2>5. QED
    BY <2>1, <2>2, <2>3, <2>4
<1>4. QED
  BY <1>1, <1>2, <1>3 DEF AllShares

\* What one call changes of the rooms that calls hold.
LEMMA CallChangesRooms ==
    ASSUME RowsOK, RowsOK', NEW c \in Calls, \A d \in Calls \ {c} : call'[d] = call[d], NEW n
    PROVE  RoomsOfCalls(n)' + HeldByCalls(n)[c] = RoomsOfCalls(n) + HeldByCalls(n)'[c]
<1> DEFINE f == HeldByCalls(n)
           g == HeldByCalls(n)'
<1>1. AllShares /\ AllShares'
  BY Shares, PTL
<1>2. /\ \A d \in Calls : f[d] \in Nat /\ g[d] \in Nat
      /\ \A d \in Calls \ {c} : g[d] = f[d]
  <2>1. \A d \in Calls \ {c} : g[d] = f[d]
    BY DEF HeldByCalls, RoomsOn
  <2>2. QED
    BY <1>1, <2>1 DEF AllShares
<1>3. /\ RoomsOfCalls(n) = SumFunctionOnSet(f, Calls)
      /\ RoomsOfCalls(n)' = SumFunctionOnSet(g, Calls)
  BY DEF RoomsOfCalls
<1> HIDE DEF f, g
<1>4. SumFunctionOnSet(g, Calls) + f[c] = SumFunctionOnSet(f, Calls) + g[c]
  BY <1>2, SumChanges, BookingAssumption
<1>5. QED
  BY <1>3, <1>4 DEF f, g

\* What the change of one reservation changes of the net of all.
LEMMA ReservationChangesNet ==
    ASSUME RowsOK, RowsOK', NEW r \in Reservations,
           \A q \in Reservations \ {r} :
              reservation'[q] = reservation[q] /\ released'[q] = released[q],
           NEW n
    PROVE  Net(n)' - NetOf(r, n)' = Net(n) - NetOf(r, n)
<1> DEFINE h == HeldByReservations(n)
           h2 == HeldByReservations(n)'
           l == LostByReservations(n)
           l2 == LostByReservations(n)'
           e == GivenBackInExcess(n)
           e2 == GivenBackInExcess(n)'
<1>1. AllShares /\ AllShares'
  BY Shares, PTL
<1>2. \A q \in Reservations : /\ h[q] \in Nat /\ l[q] \in Nat /\ e[q] \in Nat
                              /\ h2[q] \in Nat /\ l2[q] \in Nat /\ e2[q] \in Nat
  BY <1>1 DEF AllShares
<1>3. \A q \in Reservations \ {r} : h2[q] = h[q] /\ l2[q] = l[q] /\ e2[q] = e[q]
  BY DEF HeldByReservations, LostByReservations, GivenBackInExcess, Times, RoomsOn, Active, Exists
<1>4. /\ h[r] + l[r] - e[r] = NetOf(r, n)
      /\ h2[r] + l2[r] - e2[r] = NetOf(r, n)'
  BY <1>1 DEF AllShares
<1>5. /\ Net(n) = SumFunctionOnSet(h, Reservations) + SumFunctionOnSet(l, Reservations)
                    - SumFunctionOnSet(e, Reservations)
      /\ Net(n)' = SumFunctionOnSet(h2, Reservations) + SumFunctionOnSet(l2, Reservations)
                     - SumFunctionOnSet(e2, Reservations)
  BY DEF Net, RoomsOfReservations, Lost, Excess
<1> HIDE DEF h, h2, l, l2, e, e2
<1>6. /\ SumFunctionOnSet(h2, Reservations) + h[r] = SumFunctionOnSet(h, Reservations) + h2[r]
      /\ SumFunctionOnSet(l2, Reservations) + l[r] = SumFunctionOnSet(l, Reservations) + l2[r]
      /\ SumFunctionOnSet(e2, Reservations) + e[r] = SumFunctionOnSet(e, Reservations) + e2[r]
  BY <1>2, <1>3, SumChanges, BookingAssumption
<1>7. /\ SumFunctionOnSet(h, Reservations) \in Nat /\ SumFunctionOnSet(h2, Reservations) \in Nat
      /\ SumFunctionOnSet(l, Reservations) \in Nat /\ SumFunctionOnSet(l2, Reservations) \in Nat
      /\ SumFunctionOnSet(e, Reservations) \in Nat /\ SumFunctionOnSet(e2, Reservations) \in Nat
  BY <1>2, SumType, BookingAssumption
<1>8. /\ h[r] \in Nat /\ l[r] \in Nat /\ e[r] \in Nat
      /\ h2[r] \in Nat /\ l2[r] \in Nat /\ e2[r] \in Nat
  BY <1>2
<1> DEFINE sh == SumFunctionOnSet(h, Reservations)
           sh2 == SumFunctionOnSet(h2, Reservations)
           sl == SumFunctionOnSet(l, Reservations)
           sl2 == SumFunctionOnSet(l2, Reservations)
           se == SumFunctionOnSet(e, Reservations)
           se2 == SumFunctionOnSet(e2, Reservations)
<1>9. /\ sh2 + h[r] = sh + h2[r] /\ sl2 + l[r] = sl + l2[r] /\ se2 + e[r] = se + e2[r]
      /\ sh \in Nat /\ sh2 \in Nat /\ sl \in Nat /\ sl2 \in Nat /\ se \in Nat /\ se2 \in Nat
      /\ Net(n) = sh + sl - se /\ Net(n)' = sh2 + sl2 - se2
  BY <1>5, <1>6, <1>7
<1> HIDE DEF sh, sh2, sl, sl2, se, se2
<1>10. (sh2 + sl2 - se2) - (h2[r] + l2[r] - e2[r]) = (sh + sl - se) - (h[r] + l[r] - e[r])
  <2> DEFINE hr == h[r]
             hr2 == h2[r]
             lr == l[r]
             lr2 == l2[r]
             er == e[r]
             er2 == e2[r]
  <2>1. /\ hr \in Nat /\ lr \in Nat /\ er \in Nat /\ hr2 \in Nat /\ lr2 \in Nat /\ er2 \in Nat
        /\ sh2 + hr = sh + hr2 /\ sl2 + lr = sl + lr2 /\ se2 + er = se + er2
        /\ sh \in Nat /\ sh2 \in Nat /\ sl \in Nat /\ sl2 \in Nat /\ se \in Nat /\ se2 \in Nat
    BY ONLY <1>8, <1>9
  <2> HIDE DEF hr, hr2, lr, lr2, er, er2
  <2>2. (sh2 + sl2 - se2) - (hr2 + lr2 - er2) = (sh + sl - se) - (hr + lr - er)
    BY ONLY <2>1
  <2>3. QED
    BY ONLY <2>2 DEF hr, hr2, lr, lr2, er, er2
<1>11. QED
  BY ONLY <1>4, <1>9, <1>10

\* If no reservation changes, the net does not.
LEMMA NetSame ==
    ASSUME UNCHANGED <<reservation, released>>, NEW n
    PROVE  Net(n)' = Net(n)
<1>1. /\ HeldByReservations(n)' = HeldByReservations(n)
      /\ LostByReservations(n)' = LostByReservations(n)
      /\ GivenBackInExcess(n)' = GivenBackInExcess(n)
  BY DEF HeldByReservations, LostByReservations, GivenBackInExcess, Times, RoomsOn, Active, Exists
<1>2. QED
  BY <1>1 DEF Net, RoomsOfReservations, Lost, Excess

\* The reservations there are, and their stays, are the same before and after.
SameStays ==
    \A q \in Reservations : /\ Exists(q)' <=> Exists(q)
                            /\ Exists(q) => reservation'[q].stay = reservation[q].stay

\* A new status leaves the stays alone.
LEMMA StatusKeepsStays ==
    ASSUME RowsOK, NEW r \in Reservations, Exists(r), NEW status \in {"confirmed", "cancelled"},
           reservation' = [reservation EXCEPT ![r].status = status]
    PROVE  SameStays
<1>1. /\ \A q \in Reservations \ {r} : reservation'[q] = reservation[q]
      /\ \A q \in Reservations : Exists(q) => Exists(q)'
  BY StatusChanges
<1>2. reservation'[r].stay = reservation[r].stay
  <2>1. reservation[r] \in Reservation
    BY DEF RowsOK, Exists
  <2>2. [reservation[r] EXCEPT !.status = status].stay = reservation[r].stay
    BY <2>1 DEF Reservation
  <2>3. QED
    BY <2>2 DEF RowsOK
<1>3. QED
  BY <1>1, <1>2 DEF SameStays, Exists

\* Nor if a reservation gets a new status: what it gave back is counted the same.
LEMMA NetOfStatus ==
    ASSUME RowsOK, RowsOK', NEW r \in Reservations, Exists(r),
           NEW status \in {"confirmed", "cancelled"},
           reservation' = [reservation EXCEPT ![r].status = status],
           UNCHANGED released, NEW n
    PROVE  Net(n)' = Net(n)
<1>1. SameStays
  BY StatusKeepsStays
<1>2. \A q \in Reservations \ {r} : reservation'[q] = reservation[q] /\ released'[q] = released[q]
  BY StatusChanges
<1>3. NetOf(r, n)' = NetOf(r, n)
  BY <1>1 DEF SameStays, NetOf, RoomsOn
<1>4. Net(n)' - NetOf(r, n)' = Net(n) - NetOf(r, n)
  BY <1>2, ReservationChangesNet
<1>5. Net(n) \in Int /\ Net(n)' \in Int
  <2>1. AllShares /\ AllShares'
    BY Shares, PTL
  <2>2. QED
    BY <2>1 DEF AllShares, Net
<1>6. NetOf(r, n) \in Int
  <2>1. released[r] \in Nat /\ RoomsOn(reservation[r].stay, n) \in Nat
    BY RoomsAreNat DEF RowsOK
  <2>2. QED
    BY <2>1 DEF NetOf
<1>7. QED
  BY <1>3, <1>4, <1>5, <1>6

\* A step of one call keeps the balance if it keeps the sum of every night.
LEMMA BalanceKept ==
    ASSUME Balance, RowsOK, RowsOK', RoomsOK, RoomsOK', NEW c \in Calls,
           \A d \in Calls \ {c} : call'[d] = call[d],
           \A n \in Nights :
              free'[n] + unheld'[n] + HeldByCalls(n)'[c] + Net(n)'
                = free[n] + unheld[n] + HeldByCalls(n)[c] + Net(n)
    PROVE  Balance'
<1> SUFFICES ASSUME NEW n \in Nights
             PROVE  free'[n] + unheld'[n] + RoomsOfCalls(n)' + Net(n)' = Capacity
  BY DEF Balance
<1>1. RoomsOfCalls(n)' + HeldByCalls(n)[c] = RoomsOfCalls(n) + HeldByCalls(n)'[c]
  BY CallChangesRooms
<1>2. free[n] + unheld[n] + RoomsOfCalls(n) + Net(n) = Capacity
  BY DEF Balance
<1>3. AllShares /\ AllShares'
  BY Shares, PTL
<1>4. /\ RoomsOfCalls(n) \in Int /\ Net(n) \in Int /\ HeldByCalls(n)[c] \in Int
      /\ RoomsOfCalls(n)' \in Int /\ Net(n)' \in Int /\ HeldByCalls(n)'[c] \in Int
  BY <1>3 DEF AllShares, Net
<1>5. free[n] \in Int /\ unheld[n] \in Int /\ free'[n] \in Int /\ unheld'[n] \in Int
  BY DEF RoomsOK
<1>6. free'[n] + unheld'[n] + HeldByCalls(n)'[c] + Net(n)'
        = free[n] + unheld[n] + HeldByCalls(n)[c] + Net(n)
  OBVIOUS
<1>7. QED
  BY ONLY <1>1, <1>2, <1>4, <1>5, <1>6, BookingAssumption

\* What the steps of a call leave of StayKept.
LEMMA StaysKept ==
    ASSUME CancelInv, StayKept, NEW c \in Calls,
           \A d \in Calls \ {c} : call'[d] = call[d],
           \A r \in Reservations : Exists(r) => reservation'[r].stay = reservation[r].stay,
           call'[c].op \in Cancelling => call'[c].stay = reservation'[call'[c].of].stay
    PROVE  StayKept'
<1>1. \A d \in Calls \ {c} : call[d].op \in Cancelling => call[d].of \in Reservations /\ Exists(call[d].of)
  BY DEF CancelInv, CancelsOne
<1>2. QED
  BY <1>1 DEF StayKept

\* What a call counted is not less after a step that takes no rooms.
LEMMA CountedKept ==
    ASSUME RoomsOK, RoomsOK', RowsOK, Counted, NEW c \in Calls,
           \A d \in Calls \ {c} : call'[d] = call[d] /\ overtaken'[d] = overtaken[d],
           call'[c].pc # "counted",
           \A n \in Nights : free'[n] >= free[n]
    PROVE  Counted'
<1> SUFFICES ASSUME NEW d \in Calls, call'[d].pc = "counted",
                    NEW n \in NightsOf(call'[d].stay) \ overtaken'[d]
             PROVE  free'[n] >= call'[d].stay.rooms
  BY DEF Counted, NightsOf
<1>1. d # c /\ call'[d] = call[d] /\ overtaken'[d] = overtaken[d]
  OBVIOUS
<1>2. free[n] >= call[d].stay.rooms
  BY <1>1 DEF Counted
<1>3. n \in Nights /\ call[d].stay.rooms \in Nat
  BY RoomsAreNat DEF NightsOf
<1>4. free[n] \in Int /\ free'[n] \in Int /\ free'[n] >= free[n]
  BY <1>3 DEF RoomsOK
<1>5. QED
  BY <1>1, <1>2, <1>3, <1>4

LEMMA IdleType == Idle \in Call /\ Idle.pc = "idle" /\ Idle.op = "none"
BY DEF Idle, Call

\* The steps that take no rooms and hold none before and after.
LEMMA QuietStep ==
    ASSUME BInv, CancelInv', NEW c \in Calls, NEW new, call' = [call EXCEPT ![c] = new],
           call[c].pc # "reserved", new.pc \notin {"reserved", "counted"},
           UNCHANGED <<free, released, unheld, raced>>, kept' \subseteq Reservations,
           overtaken' = overtaken \/ NotOvertaken(c),
           SameStays, \A n \in Nights : Net(n)' = Net(n),
           new.op \in Cancelling => new.stay = reservation'[new.of].stay
    PROVE  BInv'
<1>0. /\ call \in [Calls -> Call]
      /\ CancelInv /\ StayKept /\ RoomsOK /\ ReleasedOnce /\ RowsOK /\ RowsOK'
      /\ Balance /\ Counted /\ NotBelow
  BY DEF BInv, CancelInv, RowsOK
<1>1. call'[c] = new /\ \A d \in Calls \ {c} : call'[d] = call[d]
  BY <1>0
<1>2. /\ \A d \in Calls \ {c} : overtaken'[d] = overtaken[d]
      /\ overtaken' \in [Calls -> SUBSET Nights]
  BY <1>0 DEF NotOvertaken, RoomsOK
<1>3. StayKept'
  BY <1>0, <1>1, StaysKept DEF SameStays
<1>4. RoomsOK'
  BY <1>0, <1>2 DEF RoomsOK
<1>5. ReleasedOnce'
  BY <1>0 DEF ReleasedOnce, SameStays
<1>6. Balance'
  <2>1. \A n \in Nights : HeldByCalls(n)[c] = 0 /\ HeldByCalls(n)'[c] = 0
    BY <1>1 DEF HeldByCalls
  <2>2. QED
    BY <1>0, <1>1, <1>4, <2>1, BalanceKept
<1>7. Counted'
  <2>1. \A n \in Nights : free'[n] >= free[n]
    BY <1>0 DEF RoomsOK
  <2>2. QED
    BY <1>0, <1>1, <1>2, <1>4, <2>1, CountedKept
<1>8. NotBelow'
  BY <1>0 DEF NotBelow
<1>9. QED
  BY <1>3, <1>4, <1>5, <1>6, <1>7, <1>8 DEF BInv

\* Where no reservation changes, the stays and the net are the same.
LEMMA NothingReserved ==
    ASSUME UNCHANGED <<reservation, released>>
    PROVE  SameStays /\ \A n \in Nights : Net(n)' = Net(n)
BY NetSame DEF SameStays, Exists

\* A call that has counted enough goes on.
LEMMA CountingKeepsRooms ==
    ASSUME BInv, CancelInv', NEW c \in Calls, CheckInventory(c), Enough(call[c].stay)
    PROVE  BInv'
<1>0. /\ call \in [Calls -> Call] /\ call[c] \in Call
      /\ CancelInv /\ StayKept /\ RoomsOK /\ ReleasedOnce /\ RowsOK /\ RowsOK'
      /\ Balance /\ Counted /\ NotBelow
      /\ call[c].pc = "available" /\ call[c].op \in Booking
      /\ call' = [call EXCEPT ![c].pc = "counted"]
      /\ overtaken' = [overtaken EXCEPT ![c] = {}]
      /\ UNCHANGED <<free, reservation, released, unheld, kept, raced>>
  BY DEF BInv, CancelInv, RowsOK, CheckInventory, At, MovesTo, NotOvertaken
<1>1. /\ call'[c].pc = "counted" /\ call'[c].op = call[c].op /\ call'[c].stay = call[c].stay
      /\ \A d \in Calls \ {c} : call'[d] = call[d]
  BY <1>0 DEF Call
<1>2. SameStays /\ \A n \in Nights : Net(n)' = Net(n)
  BY <1>0, NothingReserved
<1>3. StayKept'
  BY <1>0, <1>1, <1>2, StaysKept DEF SameStays, Booking, Cancelling
<1>4. RoomsOK'
  BY <1>0 DEF RoomsOK
<1>5. ReleasedOnce'
  BY <1>0, <1>2 DEF ReleasedOnce, SameStays
<1>6. Balance'
  <2>1. \A n \in Nights : HeldByCalls(n)[c] = 0 /\ HeldByCalls(n)'[c] = 0
    BY <1>0, <1>1 DEF HeldByCalls
  <2>2. QED
    BY <1>0, <1>1, <1>2, <1>4, <2>1, BalanceKept
<1>7. Counted'
  BY <1>0, <1>1 DEF Counted, Enough, RoomsOK
<1>8. NotBelow'
  BY <1>0 DEF NotBelow
<1>9. QED
  BY <1>3, <1>4, <1>5, <1>6, <1>7, <1>8 DEF BInv

\* Rooms are taken: what the call had counted was there, except on the nights it
\* was overtaken on; those it overtakes are told.
LEMMA TakingKeepsRooms ==
    ASSUME BInv, CancelInv', NEW c \in Calls, At(c, "counted", Booking), Takes(c),
           MovesTo(c, "reserved"), UNCHANGED <<reservation, released, unheld, kept>>
    PROVE  BInv'
<1> DEFINE stay == call[c].stay
<1>0. /\ call \in [Calls -> Call] /\ call[c] \in Call
      /\ CancelInv /\ StayKept /\ RoomsOK /\ ReleasedOnce /\ RowsOK /\ RowsOK'
      /\ Balance /\ Counted /\ NotBelow
      /\ call[c].pc = "counted" /\ call[c].op \in Booking
      /\ call' = [call EXCEPT ![c].pc = "reserved"]
  BY DEF BInv, CancelInv, RowsOK, At, MovesTo
<1>1. /\ call'[c].pc = "reserved" /\ call'[c].op = call[c].op /\ call'[c].stay = stay
      /\ \A d \in Calls \ {c} : call'[d] = call[d]
  BY <1>0 DEF Call
<1>2. /\ free' = [n \in Nights |-> free[n] + IF n \in NightsOf(stay) THEN -stay.rooms ELSE 0]
      /\ overtaken' = [d \in Calls |->
             IF d = c THEN {}
             ELSE IF call[d].pc = "counted" THEN overtaken[d] \cup NightsOf(stay)
             ELSE overtaken[d]]
      /\ raced' = [n \in Nights |->
             raced[n] + IF n \in NightsOf(stay) \cap overtaken[c] THEN stay.rooms ELSE 0]
  BY DEF Takes, Changed
<1>3. SameStays /\ \A n \in Nights : Net(n)' = Net(n)
  BY <1>0, NothingReserved
<1>4. stay.rooms \in Nat /\ NightsOf(stay) \subseteq Nights
  BY <1>0, RoomsAreNat DEF NightsOf
<1>5. ASSUME NEW n \in Nights
      PROVE  /\ free[n] \in Int /\ raced[n] \in Nat /\ unheld[n] \in Nat
             /\ free'[n] = free[n] - RoomsOn(stay, n)
             /\ raced'[n] = raced[n] + IF n \in overtaken[c] THEN RoomsOn(stay, n) ELSE 0
             /\ RoomsOn(stay, n) \in Nat
  <2>1. free[n] \in Int /\ raced[n] \in Nat /\ unheld[n] \in Nat
    BY <1>0 DEF RoomsOK
  <2>2. CASE n \in NightsOf(stay)
    BY <1>2, <1>4, <2>1, <2>2 DEF RoomsOn
  <2>3. CASE n \notin NightsOf(stay)
    BY <1>2, <1>4, <2>1, <2>3 DEF RoomsOn
  <2>4. QED
    BY <2>2, <2>3
<1>6. StayKept'
  BY <1>0, <1>1, <1>3, StaysKept DEF SameStays, Booking, Cancelling
<1>7. ReleasedOnce'
  BY <1>0, <1>3 DEF ReleasedOnce, SameStays
<1>8. RoomsOK'
  <2>1. free' \in [Nights -> Int]
    <3>1. free' = [n \in Nights |-> free'[n]]
      BY <1>2
    <3>2. \A n \in Nights : free'[n] \in Int
      BY <1>5
    <3>3. QED
      BY <3>1, <3>2
  <2>2. raced' \in [Nights -> Nat]
    <3>1. raced' = [n \in Nights |-> raced'[n]]
      BY <1>2
    <3>2. \A n \in Nights : raced'[n] \in Nat
      BY <1>5
    <3>3. QED
      BY <3>1, <3>2
  <2>3. overtaken' \in [Calls -> SUBSET Nights]
    BY <1>0, <1>2, <1>4 DEF RoomsOK
  <2>4. QED
    BY <1>0, <2>1, <2>2, <2>3 DEF RoomsOK
<1>9. Balance'
  <2>1. ASSUME NEW n \in Nights
        PROVE  free'[n] + unheld'[n] + HeldByCalls(n)'[c] + Net(n)'
                 = free[n] + unheld[n] + HeldByCalls(n)[c] + Net(n)
    <3>1. HeldByCalls(n)[c] = 0 /\ HeldByCalls(n)'[c] = RoomsOn(stay, n)
      BY <1>0, <1>1 DEF HeldByCalls, RoomsOn
    <3>2. Net(n) \in Int /\ Net(n)' = Net(n)
      BY <1>0, <1>3, Shares DEF AllShares, Net
    <3> HIDE DEF stay
    <3>3. QED
      BY <1>5, <3>1, <3>2
  <2>2. QED
    BY <1>0, <1>1, <1>8, <2>1, BalanceKept
<1>10. Counted'
  <2> SUFFICES ASSUME NEW d \in Calls, call'[d].pc = "counted",
                      NEW n \in NightsOf(call'[d].stay) \ overtaken'[d]
               PROVE  free'[n] >= call'[d].stay.rooms
    BY DEF Counted, NightsOf
  <2>1. d # c /\ call'[d] = call[d] /\ overtaken'[d] = overtaken[d] \cup NightsOf(stay)
    BY <1>1, <1>2
  <2>2. n \in Nights /\ n \notin NightsOf(stay) /\ free[n] >= call[d].stay.rooms
    BY <1>0, <2>1 DEF Counted, NightsOf
  <2>3. free'[n] = free[n]
    BY <1>5, <2>2 DEF RoomsOn
  <2>4. QED
    BY <2>1, <2>2, <2>3
<1>11. NotBelow'
  <2> SUFFICES ASSUME NEW n \in Nights PROVE free'[n] + raced'[n] >= 0
    BY DEF NotBelow
  <2>1. free[n] + raced[n] >= 0
    BY <1>0 DEF NotBelow
  <2>2. CASE n \in overtaken[c]
    <3> HIDE DEF stay
    <3>1. QED
      BY <1>5, <2>1, <2>2
  <2>3. CASE n \notin overtaken[c] /\ n \in NightsOf(stay)
    <3>1. free[n] >= stay.rooms /\ RoomsOn(stay, n) = stay.rooms
      BY <1>0, <2>3 DEF Counted, RoomsOn
    <3> HIDE DEF stay
    <3>2. QED
      BY <1>5, <2>3, <3>1
  <2>4. CASE n \notin overtaken[c] /\ n \notin NightsOf(stay)
    <3>1. RoomsOn(stay, n) = 0
      BY <2>4 DEF RoomsOn
    <3> HIDE DEF stay
    <3>2. QED
      BY <1>5, <2>1, <2>4, <3>1
  <2>5. QED
    BY <2>2, <2>3, <2>4
<1>12. QED
  BY <1>6, <1>7, <1>8, <1>9, <1>10, <1>11 DEF BInv

\* A call that ends leaves the rooms it held to nobody.
LEMMA AbandoningKeepsRooms ==
    ASSUME BInv, CancelInv', NEW c \in Calls, Abandons(c), Ends(c),
           overtaken' = overtaken \/ NotOvertaken(c),
           UNCHANGED <<free, reservation, released, kept, raced>>
    PROVE  BInv'
<1> DEFINE stay == call[c].stay
<1>0. /\ call \in [Calls -> Call]
      /\ CancelInv /\ StayKept /\ RoomsOK /\ ReleasedOnce /\ RowsOK /\ RowsOK'
      /\ Balance /\ Counted /\ NotBelow
      /\ call' = [call EXCEPT ![c] = Idle]
  BY DEF BInv, CancelInv, RowsOK, Ends
<1>1. call'[c] = Idle /\ \A d \in Calls \ {c} : call'[d] = call[d]
  BY <1>0
<1>2. SameStays /\ \A n \in Nights : Net(n)' = Net(n)
  BY NothingReserved
<1>3. StayKept'
  BY <1>0, <1>1, <1>2, StaysKept, IdleType DEF SameStays, Cancelling
<1>4. ASSUME NEW n \in Nights
      PROVE  /\ HeldByCalls(n)[c] \in Nat /\ unheld[n] \in Nat /\ free[n] \in Int
             /\ unheld'[n] = unheld[n] + HeldByCalls(n)[c]
             /\ HeldByCalls(n)'[c] = 0
  <2>1. /\ unheld[n] \in Nat /\ free[n] \in Int /\ RoomsOn(stay, n) \in Nat
    BY <1>0, RoomsAreNat DEF RoomsOK
  <2>2. unheld'[n] = unheld[n] + (IF call[c].pc = "reserved" THEN RoomsOn(stay, n) ELSE 0)
    BY <2>1 DEF Abandons, Changed, RoomsOn
  <2>3. HeldByCalls(n)[c] = IF call[c].pc = "reserved" THEN RoomsOn(stay, n) ELSE 0
    BY DEF HeldByCalls
  <2>4. HeldByCalls(n)'[c] = 0
    BY <1>1, IdleType DEF HeldByCalls
  <2>5. QED
    BY <2>1, <2>2, <2>3, <2>4
<1>5. RoomsOK'
  <2>1. unheld' = [n \in Nights |-> unheld'[n]]
    BY <1>0 DEF Abandons, Changed, RoomsOK
  <2>2. unheld' \in [Nights -> Nat]
    BY <1>4, <2>1
  <2>3. overtaken' \in [Calls -> SUBSET Nights]
    BY <1>0 DEF NotOvertaken, RoomsOK
  <2>4. QED
    BY <1>0, <2>2, <2>3 DEF RoomsOK
<1>6. ReleasedOnce'
  BY <1>0, <1>2 DEF ReleasedOnce, SameStays
<1>7. Balance'
  <2>1. ASSUME NEW n \in Nights
        PROVE  free'[n] + unheld'[n] + HeldByCalls(n)'[c] + Net(n)'
                 = free[n] + unheld[n] + HeldByCalls(n)[c] + Net(n)
    <3>1. Net(n) \in Int /\ Net(n)' = Net(n)
      BY <1>0, <1>2, Shares DEF AllShares, Net
    <3>2. QED
      BY <1>4, <3>1
  <2>2. QED
    BY <1>0, <1>1, <1>5, <2>1, BalanceKept
<1>8. Counted'
  <2>1. \A n \in Nights : free'[n] >= free[n]
    BY <1>0 DEF RoomsOK
  <2>2. \A d \in Calls \ {c} : overtaken'[d] = overtaken[d]
    BY <1>0 DEF NotOvertaken, RoomsOK
  <2>3. QED
    BY <1>0, <1>1, <1>5, <2>1, <2>2, IdleType, CountedKept
<1>9. NotBelow'
  BY <1>0 DEF NotBelow
<1>10. QED
  BY <1>3, <1>5, <1>6, <1>7, <1>8, <1>9 DEF BInv

\* The rooms a call has taken become its reservation's.
LEMMA RecordingKeepsRooms ==
    ASSUME BInv, CancelInv', NEW c \in Calls, RecordReservation(c)
    PROVE  BInv'
<1> DEFINE stay == call[c].stay
           new == [stay |-> stay, status |-> "pending"]
<1>0. /\ call \in [Calls -> Call]
      /\ reservation \in [Reservations -> Reservation \cup {Unused}]
      /\ CancelInv /\ StayKept /\ RoomsOK /\ ReleasedOnce /\ RowsOK /\ RowsOK'
      /\ Balance /\ Counted /\ NotBelow
      /\ call[c].pc = "reserved" /\ stay \in Stay
      /\ call' = [call EXCEPT ![c] = Idle]
      /\ UNCHANGED <<free, released, unheld, kept, overtaken, raced>>
  BY DEF BInv, CancelInv, RowsOK, RecordReservation, At, Ends, CancelsOne, raceVars
<1>1. PICK r \in Reservations : ~Exists(r) /\ reservation' = [reservation EXCEPT ![r] = new]
  BY DEF RecordReservation
<1>2. new # Unused /\ new.stay = stay
  BY <1>0, UnusedAssumption DEF Reservation
<1> HIDE DEF new
<1>3. reservation'[r] = new /\ \A q \in Reservations \ {r} : reservation'[q] = reservation[q]
  BY <1>0, <1>1
<1>4. Exists(r)' /\ \A q \in Reservations : Exists(q) => Exists(q)' /\ q # r
  BY <1>1, <1>2, <1>3 DEF Exists
<1>5. call'[c] = Idle /\ \A d \in Calls \ {c} : call'[d] = call[d]
  BY <1>0
<1>6. StayKept'
  BY <1>0, <1>3, <1>4, <1>5, StaysKept, IdleType DEF Cancelling
<1>7. RoomsOK'
  BY <1>0 DEF RoomsOK
<1>8. ReleasedOnce'
  BY <1>0, <1>4 DEF ReleasedOnce
<1>9. Balance'
  <2>1. ASSUME NEW n \in Nights
        PROVE  free'[n] + unheld'[n] + HeldByCalls(n)'[c] + Net(n)'
                 = free[n] + unheld[n] + HeldByCalls(n)[c] + Net(n)
    <3>1. RoomsOn(stay, n) \in Nat /\ free[n] \in Int /\ unheld[n] \in Nat
      BY <1>0, RoomsAreNat DEF RoomsOK
    <3>2. HeldByCalls(n)[c] = RoomsOn(stay, n) /\ HeldByCalls(n)'[c] = 0
      BY <1>0, <1>5, IdleType DEF HeldByCalls
    <3>3. NetOf(r, n) = 0
      BY <1>1 DEF NetOf
    <3>4. NetOf(r, n)' = RoomsOn(stay, n)
      <4>1. released'[r] = 0
        BY <1>0, <1>1 DEF ReleasedOnce
      <4>2. NetOf(r, n)' = (1 - released'[r]) * RoomsOn(reservation'[r].stay, n)
        BY <1>4 DEF NetOf, RoomsOn
      <4>3. QED
        BY <1>2, <1>3, <3>1, <4>1, <4>2
    <3>5. Net(n)' - NetOf(r, n)' = Net(n) - NetOf(r, n)
      BY <1>0, <1>3, ReservationChangesNet
    <3>6. Net(n) \in Int /\ Net(n)' \in Int
      <4>1. AllShares /\ AllShares'
        BY <1>0, Shares, PTL
      <4>2. QED
        BY <4>1 DEF AllShares, Net
    <3> HIDE DEF stay
    <3>7. QED
      BY <1>0, <3>1, <3>2, <3>3, <3>4, <3>5, <3>6
  <2>2. QED
    BY <1>0, <1>5, <1>7, <2>1, BalanceKept
<1>10. Counted'
  <2>1. \A n \in Nights : free'[n] >= free[n]
    BY <1>0 DEF RoomsOK
  <2>2. QED
    BY <1>0, <1>5, <1>7, <2>1, IdleType, CountedKept
<1>11. NotBelow'
  BY <1>0 DEF NotBelow
<1>12. QED
  BY <1>6, <1>7, <1>8, <1>9, <1>10, <1>11 DEF BInv

\* The inventory takes the rooms back.
ReleaseTaken(c) ==
    /\ At(c, "found", Cancelling)
    /\ released[call[c].of] < MaxReleases
    /\ released' = [released EXCEPT ![call[c].of] = @ + 1]
    /\ free' = Changed(free, call[c].stay, call[c].stay.rooms)
    /\ MovesTo(c, "released")
    /\ UNCHANGED <<reservation, unheld, kept, raceVars>>

\* What is given back is free, and one more share of the reservation's is given
\* back.
LEMMA ReleasingKeepsRooms ==
    ASSUME BInv, CancelInv', NEW c \in Calls, ReleaseTaken(c)
    PROVE  BInv'
<1> DEFINE stay == call[c].stay
           r == call[c].of
           new == [call[c] EXCEPT !.pc = "released"]
<1>0. /\ call \in [Calls -> Call] /\ call[c] \in Call
      /\ CancelInv /\ StayKept /\ RoomsOK /\ ReleasedOnce /\ RowsOK /\ RowsOK'
      /\ Balance /\ Counted /\ NotBelow
      /\ call[c].pc = "found" /\ call[c].op \in Cancelling
      /\ r \in Reservations /\ Exists(r) /\ stay = reservation[r].stay
      /\ released[r] < MaxReleases
      /\ released' = [released EXCEPT ![r] = @ + 1]
      /\ free' = Changed(free, stay, stay.rooms)
      /\ call' = [call EXCEPT ![c] = new]
      /\ UNCHANGED <<reservation, unheld, kept, overtaken, raced>>
  BY DEF BInv, CancelInv, RowsOK, ReleaseTaken, At, MovesTo, CancelsOne, StayKept, raceVars, Cancelling
<1>1. /\ call'[c].pc = "released" /\ call'[c].op = call[c].op
      /\ call'[c].of = r /\ call'[c].stay = stay
      /\ \A d \in Calls \ {c} : call'[d] = call[d]
  BY <1>0 DEF Call
<1>2. StayKept'
  BY <1>0, <1>1, StaysKept
<1>3. /\ released[r] \in Nat /\ released'[r] = released[r] + 1
      /\ \A q \in Reservations \ {r} : released'[q] = released[q]
      /\ \A q \in Reservations : released[q] \in 0..MaxReleases
  BY <1>0 DEF ReleasedOnce
<1>4. ReleasedOnce'
  <2>1. released[r] + 1 \in 0..MaxReleases
    BY <1>0, <1>3, BookingAssumption
  <2>2. \A q \in Reservations : Exists(q)' <=> Exists(q)
    BY <1>0 DEF Exists
  <2>3. QED
    BY <1>0, <1>3, <2>1, <2>2 DEF ReleasedOnce
<1>5. ASSUME NEW n \in Nights
      PROVE  /\ free'[n] = free[n] + RoomsOn(stay, n)
             /\ free[n] \in Int /\ unheld[n] \in Nat /\ raced[n] \in Nat /\ RoomsOn(stay, n) \in Nat
  <2>1. /\ free[n] \in Int /\ unheld[n] \in Nat /\ raced[n] \in Nat /\ RoomsOn(stay, n) \in Nat
    BY <1>0, RoomsAreNat DEF RoomsOK
  <2>2. free'[n] = free[n] + RoomsOn(stay, n)
    BY <1>0, <2>1 DEF Changed, RoomsOn
  <2>3. QED
    BY <2>1, <2>2
<1>6. RoomsOK'
  <2>1. free' = [n \in Nights |-> free'[n]]
    BY <1>0 DEF Changed
  <2>2. free' \in [Nights -> Int]
    BY <1>5, <2>1
  <2>3. QED
    BY <1>0, <2>2 DEF RoomsOK
<1>7. Balance'
  <2>1. ASSUME NEW n \in Nights
        PROVE  free'[n] + unheld'[n] + HeldByCalls(n)'[c] + Net(n)'
                 = free[n] + unheld[n] + HeldByCalls(n)[c] + Net(n)
    <3>1. HeldByCalls(n)[c] = 0 /\ HeldByCalls(n)'[c] = 0
      BY <1>0, <1>1 DEF HeldByCalls
    <3>2. NetOf(r, n) = (1 - released[r]) * RoomsOn(stay, n)
      BY <1>0 DEF NetOf
    <3>3. NetOf(r, n)' = (1 - (released[r] + 1)) * RoomsOn(stay, n)
      BY <1>0, <1>3 DEF NetOf, RoomsOn, Exists
    <3>4. Net(n)' - NetOf(r, n)' = Net(n) - NetOf(r, n)
      BY <1>0, <1>3, ReservationChangesNet
    <3>5. Net(n) \in Int /\ Net(n)' \in Int
      <4>1. AllShares /\ AllShares'
        BY <1>0, Shares, PTL
      <4>2. QED
        BY <4>1 DEF AllShares, Net
    <3>6. unheld'[n] = unheld[n]
      BY <1>0
    <3>7. Net(n)' = Net(n) - RoomsOn(stay, n)
      <4> HIDE DEF stay, r
      <4>1. (1 - (released[r] + 1)) * RoomsOn(stay, n)
              = (1 - released[r]) * RoomsOn(stay, n) - RoomsOn(stay, n)
        BY <1>3, <1>5
      <4>2. NetOf(r, n) \in Int
        BY <1>3, <1>5, <3>2
      <4>3. NetOf(r, n)' = NetOf(r, n) - RoomsOn(stay, n) /\ RoomsOn(stay, n) \in Int
        BY <1>5, <3>2, <3>3, <4>1
      <4>4. QED
        BY ONLY <3>4, <3>5, <4>2, <4>3
    <3> HIDE DEF stay, r
    <3>8. QED
      BY <1>5, <3>1, <3>5, <3>6, <3>7
  <2>2. QED
    BY <1>0, <1>1, <1>6, <2>1, BalanceKept
<1>8. Counted'
  <2>1. \A n \in Nights : free'[n] >= free[n]
    <3> HIDE DEF stay
    <3>1. QED
      BY <1>5
  <2>2. QED
    BY <1>0, <1>1, <1>6, <2>1, CountedKept
<1>9. NotBelow'
  <2> SUFFICES ASSUME NEW n \in Nights PROVE free'[n] + raced'[n] >= 0
    BY DEF NotBelow
  <2>1. free[n] + raced[n] >= 0 /\ raced'[n] = raced[n]
    BY <1>0 DEF NotBelow
  <2> HIDE DEF stay
  <2>2. QED
    BY <1>5, <2>1
<1>10. QED
  BY <1>2, <1>4, <1>6, <1>7, <1>8, <1>9 DEF BInv

\* The write that confirms or cancels moves no rooms.
LEMMA StatusKeepsRooms ==
    ASSUME BInv, CancelInv', NEW c \in Calls, Confirm(c) \/ Cancel(c)
    PROVE  BInv'
<1> DEFINE r == call[c].of
<1>0. /\ r \in Reservations /\ Exists(r)
      /\ call[c].pc # "reserved" /\ RowsOK /\ RowsOK' /\ RoomsOK
      /\ call' = [call EXCEPT ![c] = Idle]
      /\ UNCHANGED <<free, released, unheld, kept, overtaken, raced>>
  BY DEF BInv, CancelInv, CancelsOne, Cancel, Confirm, At, Ends, raceVars
<1>1. PICK status \in {"confirmed", "cancelled"} :
          reservation' = [reservation EXCEPT ![r].status = status]
  BY DEF Cancel, Confirm
<1> HIDE DEF r
<1>2. SameStays
  BY <1>0, <1>1, StatusKeepsStays
<1>3. \A n \in Nights : Net(n)' = Net(n)
  BY <1>0, <1>1, NetOfStatus
<1>4. QED
  BY <1>0, <1>2, <1>3, IdleType, QuietStep DEF RoomsOK, Cancelling

LEMMA NextBInv == BInv /\ [BookingNext]_bookingVars => BInv'
<1> SUFFICES ASSUME BInv, [BookingNext]_bookingVars PROVE BInv'
  OBVIOUS
<1>0. /\ CancelInv /\ CancelInv'
      /\ RoomsOK /\ RowsOK /\ StayKept
      /\ call \in [Calls -> Call]
  BY NextKeepsInv DEF BInv, CancelInv, RowsOK
<1>1. ASSUME NEW c \in Calls, NEW stay \in Stay, BookingRequested(c, stay) \/ CreateReservation(c, stay)
      PROVE  BInv'
  <2> DEFINE new(op) == [pc |-> "available", op |-> op, stay |-> stay, of |-> Nobody]
  <2>1. PICK op \in Booking : /\ call' = [call EXCEPT ![c] = new(op)]
                              /\ UNCHANGED <<free, reservation, released, unheld, kept, overtaken, raced>>
                              /\ call[c].pc = "idle"
    BY <1>1 DEF BookingRequested, CreateReservation, CheckAvailability, Booking, raceVars
  <2>2. new(op).pc = "available" /\ new(op).op \notin Cancelling
    BY DEF Booking, Cancelling
  <2> HIDE DEF new
  <2>3. QED
    BY <1>0, <2>1, <2>2, NothingReserved, QuietStep DEF RoomsOK
<1>2. ASSUME NEW c \in Calls, NEW r \in Reservations,
             \/ CancellationRequested(c, r) \/ CancelReservation(c, r) \/ ConfirmReservation(c, r)
      PROVE  BInv'
  <2> DEFINE new(op) == [pc |-> "found", op |-> op, stay |-> reservation[r].stay, of |-> r]
  <2>1. PICK op \in Cancelling \cup Confirming :
            /\ call' = [call EXCEPT ![c] = new(op)]
            /\ UNCHANGED <<free, reservation, released, unheld, kept, overtaken, raced>>
            /\ call[c].pc = "idle"
    BY <1>2 DEF CancellationRequested, CancelReservation, ConfirmReservation, Finds, Cancelling,
                Confirming, raceVars
  <2>2. new(op).pc = "found" /\ new(op).stay = reservation'[new(op).of].stay
    BY <2>1
  <2> HIDE DEF new
  <2>3. QED
    BY <1>0, <2>1, <2>2, NothingReserved, QuietStep DEF RoomsOK
<1>3. ASSUME NEW c \in Calls, CheckInventory(c)
      PROVE  BInv'
  <2>1. CASE Enough(call[c].stay)
    BY <1>0, <1>3, <2>1, CountingKeepsRooms
  <2>2. CASE ~Enough(call[c].stay)
    <3>1. /\ call[c].pc = "available" /\ call' = [call EXCEPT ![c] = Idle] /\ NotOvertaken(c)
          /\ UNCHANGED <<free, reservation, released, unheld, kept, raced>>
      BY <1>3, <2>2 DEF CheckInventory, At, Ends
    <3>2. QED
      BY <1>0, <3>1, NothingReserved, QuietStep, IdleType DEF RoomsOK, Cancelling
  <2>3. QED
    BY <2>1, <2>2
<1>4. ASSUME NEW c \in Calls, ReserveInventory(c)
      PROVE  BInv'
  <2>1. At(c, "counted", Booking) /\ UNCHANGED <<reservation, released, unheld, kept>>
    BY <1>4 DEF ReserveInventory
  <2>2. CASE Takes(c) /\ MovesTo(c, "reserved")
    BY <1>0, <2>1, <2>2, TakingKeepsRooms
  <2>3. CASE Ends(c) /\ NotOvertaken(c) /\ UNCHANGED <<free, raced>>
    <3>1. call[c].pc = "counted" /\ call' = [call EXCEPT ![c] = Idle]
      BY <2>1, <2>3 DEF At, Ends
    <3>2. QED
      BY <1>0, <2>1, <2>3, <3>1, NothingReserved, QuietStep, IdleType DEF RoomsOK, Cancelling
  <2>4. QED
    BY <1>4, <2>2, <2>3 DEF ReserveInventory
<1>5. ASSUME NEW c \in Calls, Booked(c) \/ Fails(c)
      PROVE  BInv'
  BY <1>0, <1>5, AbandoningKeepsRooms DEF Booked, Fails, raceVars
<1>6. ASSUME NEW c \in Calls, RecordReservation(c)
      PROVE  BInv'
  BY <1>0, <1>6, RecordingKeepsRooms
<1>7. ASSUME NEW c \in Calls, ReleaseInventory(c)
      PROVE  BInv'
  <2>1. CASE ReleaseRefused(c) /\ UNCHANGED <<free, released, reservation, unheld, raceVars>>
    <3> DEFINE new == [call[c] EXCEPT !.pc = "released"]
    <3>1. /\ call[c].pc = "found" /\ call[c].op \in Cancelling
          /\ call' = [call EXCEPT ![c] = new] \/ call' = [call EXCEPT ![c] = Idle]
          /\ kept' \in {kept, kept \cup {call[c].of}}
          /\ UNCHANGED <<overtaken, raced>>
      BY <2>1 DEF ReleaseRefused, At, MovesTo, Ends, raceVars
    <3>2. new.pc = "released" /\ new.stay = call[c].stay /\ new.of = call[c].of
      BY <1>0 DEF Call
    <3>3. kept' \subseteq Reservations /\ new.stay = reservation'[new.of].stay
      BY <1>0, <2>1, <3>1, <3>2 DEF RoomsOK, CancelInv, CancelsOne, StayKept
    <3> HIDE DEF new
    <3>4. CASE call' = [call EXCEPT ![c] = new]
      BY <1>0, <2>1, <3>1, <3>2, <3>3, <3>4, NothingReserved, QuietStep
    <3>5. CASE call' = [call EXCEPT ![c] = Idle]
      BY <1>0, <2>1, <3>1, <3>3, <3>5, NothingReserved, QuietStep, IdleType DEF Cancelling
    <3>6. QED
      BY <3>1, <3>4, <3>5
  <2>2. CASE ~(ReleaseRefused(c) /\ UNCHANGED <<free, released, reservation, unheld, raceVars>>)
    <3>1. ReleaseTaken(c)
      BY <1>7, <2>2 DEF ReleaseInventory, ReleaseTaken
    <3>2. QED
      BY <1>0, <3>1, ReleasingKeepsRooms
  <2>3. QED
    BY <2>1, <2>2
<1>8. ASSUME NEW c \in Calls, Confirm(c) \/ Cancel(c)
      PROVE  BInv'
  BY <1>0, <1>8, StatusKeepsRooms
<1>9. CASE UNCHANGED bookingVars
  <2>1. StayKept' /\ ReleasedOnce' /\ RoomsOK' /\ Counted' /\ NotBelow'
    BY <1>9 DEF bookingVars, BInv, StayKept, ReleasedOnce, RoomsOK, Counted, NotBelow, Exists
  <2>2. \A n \in Nights : Net(n)' = Net(n)
    BY <1>9, NothingReserved DEF bookingVars
  <2>3. \A n \in Nights : RoomsOfCalls(n)' = RoomsOfCalls(n)
    <3>1. \A n : HeldByCalls(n)' = HeldByCalls(n)
      BY <1>9 DEF bookingVars, HeldByCalls, RoomsOn
    <3>2. QED
      BY <3>1 DEF RoomsOfCalls
  <2>4. Balance'
    BY <1>9, <2>2, <2>3 DEF bookingVars, BInv, Balance
  <2>5. QED
    BY <1>0, <2>1, <2>4 DEF BInv
<1>10. QED
  BY <1>1, <1>2, <1>3, <1>4, <1>5, <1>6, <1>7, <1>8, <1>9 DEF BookingNext

LEMMA InitBInv == BookingInit => BInv
<1> SUFFICES ASSUME BookingInit PROVE BInv
  OBVIOUS
<1>1. CancelInv
  BY InitCancelInv
<1>2. StayKept /\ ReleasedOnce /\ RoomsOK /\ Counted /\ NotBelow
  BY BookingAssumption DEF BookingInit, StayKept, ReleasedOnce, RoomsOK, Counted, NotBelow, Idle,
     Cancelling
<1>3. Balance
  <2> SUFFICES ASSUME NEW n \in Nights
               PROVE  free[n] + unheld[n] + RoomsOfCalls(n) + Net(n) = Capacity
    BY DEF Balance
  <2>1. \A r \in Reservations : /\ HeldByReservations(n)[r] = 0
                                /\ LostByReservations(n)[r] = 0
                                /\ GivenBackInExcess(n)[r] = 0
    BY DEF BookingInit, HeldByReservations, LostByReservations, GivenBackInExcess, Active, Exists
  <2>2. \A c \in Calls : HeldByCalls(n)[c] = 0
    BY DEF BookingInit, HeldByCalls, Idle
  <2>3. RoomsOfReservations(n) = 0 /\ Lost(n) = 0 /\ Excess(n) = 0 /\ RoomsOfCalls(n) = 0
    BY <2>1, <2>2, SumOfZeros, BookingAssumption DEF RoomsOfReservations, Lost, Excess, RoomsOfCalls
  <2>4. QED
    BY <2>3, BookingAssumption DEF BookingInit, Net
<1>4. QED
  BY <1>1, <1>2, <1>3 DEF BInv

LEMMA BookingTypes == BInv => BookingTypeOK
BY DEF BInv, CancelInv, RowsOK, ReleasedOnce, RoomsOK, BookingTypeOK

\* However many calls book, record, confirm and cancel at once, no night is
\* promised to more guests than the hotel has rooms for, but for the rooms given
\* back of reservations not cancelled, or given back again
\* (inventory_service.py:56-78, cancellation_saga.py:42-61), and those taken by
\* calls that others had overtaken (inventory_service.py:37-54).
THEOREM NeverOversold == BookingSpec => []OversoldOnlyByReleaseOrRace
<1>1. BInv => OversoldOnlyByReleaseOrRace
  <2> SUFFICES ASSUME BInv, NEW n \in Nights
               PROVE  Held(n) <= Capacity + Excess(n) + raced[n]
    BY DEF OversoldOnlyByReleaseOrRace
  <2>1. free[n] + unheld[n] + RoomsOfCalls(n) + Net(n) = Capacity /\ free[n] + raced[n] >= 0
    BY DEF BInv, Balance, NotBelow
  <2>2. free[n] \in Int /\ unheld[n] \in Nat /\ raced[n] \in Nat
    BY DEF BInv, RoomsOK
  <2>3. /\ RoomsOfReservations(n) \in Nat /\ Lost(n) \in Nat /\ Excess(n) \in Nat
        /\ RoomsOfCalls(n) \in Nat
    BY Shares DEF BInv, CancelInv, AllShares
  <2>4. Held(n) = RoomsOfReservations(n) + RoomsOfCalls(n) + unheld[n]
    BY DEF Held, RoomsOfReservations, RoomsOfCalls
  <2>5. QED
    BY <2>1, <2>2, <2>3, <2>4, BookingAssumption DEF Net
<1>2. QED
  BY <1>1, InitBInv, NextBInv, PTL DEF BookingSpec

----------------------------------------------------------------------------
(* The workers                                                             *)

\* What a worker that ends, or is about to, has been told.
WorkerInv ==
    /\ WorkerTypeOK
    /\ due # "nothing" => signalled
    /\ program = "hotel" /\ pc = "waiting" => running \/ signalled
    /\ program = "payment" /\ event => signalled
    /\ pc = "ending" => Looping /\ signalled

LEMMA InitWorkerInv == WorkerInit => WorkerInv
BY DEF WorkerInit, WorkerInv, WorkerTypeOK

LEMMA NextWorkerInv == WorkerInv /\ [WorkerNext]_workerVars => WorkerInv'
<1> SUFFICES ASSUME WorkerInv, [WorkerNext]_workerVars PROVE WorkerInv'
  OBVIOUS
<1> USE DEF WorkerInv, WorkerTypeOK, Looping
<1>1. CASE Signal
  BY <1>1 DEF Signal
<1>2. CASE Handled
  BY <1>2 DEF Handled, HandleShutdown, Stop, RequestShutdown, Cancelled, Programs
<1>3. CASE HotelStarts
  BY <1>3 DEF HotelStarts
<1>4. CASE HotelGoesRound
  <2>1. CASE running
    BY <1>4, <2>1 DEF HotelGoesRound
  <2>2. CASE ~running
    BY <1>4, <2>2 DEF HotelGoesRound
  <2>3. QED
    BY <2>1, <2>2
<1>5. CASE PaymentStarts
  BY <1>5 DEF PaymentStarts
<1>6. CASE PaymentEnds
  BY <1>6 DEF PaymentEnds
<1>7. CASE GoesRound
  BY <1>7 DEF GoesRound
<1>8. CASE Ending
  BY <1>8 DEF Ending
<1>9. CASE UNCHANGED workerVars
  BY <1>9 DEF workerVars
<1>10. QED
  BY <1>1, <1>2, <1>3, <1>4, <1>5, <1>6, <1>7, <1>8, <1>9 DEF WorkerNext, GoesOn

\* No worker program ends of itself: each that ends was told to, by the flag,
\* by the event or by the cancellation a SIGINT sets off (hotel-service
\* worker.py:59-76).
THEOREM WorkersEndOnlyWhenSignalled == WorkerSpec => EndsOnlyWhenSignalled
<1>1. WorkerInv /\ [WorkerNext]_workerVars =>
          [pc # "ended" /\ pc' = "ended" => signalled]_workerVars
  <2> SUFFICES ASSUME WorkerInv, WorkerNext, pc # "ended", pc' = "ended" PROVE signalled
    OBVIOUS
  <2>1. Signal => FALSE
    BY DEF Signal
  <2>2. QED
    BY <2>1 DEF WorkerInv, WorkerTypeOK, WorkerNext, Handled, HandleShutdown, Stop,
       RequestShutdown, Cancelled, GoesOn, HotelStarts, HotelGoesRound, PaymentStarts,
       PaymentEnds, GoesRound, Ending
<1>2. QED
  BY <1>1, InitWorkerInv, NextWorkerInv, PTL DEF WorkerSpec, EndsOnlyWhenSignalled

----------------------------------------------------------------------------
\* In the two together every variable has its type, for every number of calls,
\* reservations and rooms and every worker program.
THEOREM BookingsAndWorkersTyped == MCSpec => []TypeOK
<1>1. MCInit => BInv /\ WorkerInv
  BY InitBInv, InitWorkerInv DEF MCInit
<1>2. BInv /\ WorkerInv /\ [MCNext]_mcVars => BInv' /\ WorkerInv'
  <2> SUFFICES ASSUME BInv, WorkerInv, [MCNext]_mcVars PROVE BInv' /\ WorkerInv'
    OBVIOUS
  <2>1. [BookingNext]_bookingVars /\ [WorkerNext]_workerVars
    BY DEF MCNext, OfBookings, OfWorker, mcVars
  <2>2. QED
    BY <2>1, NextBInv, NextWorkerInv
<1>3. BInv /\ WorkerInv => TypeOK
  BY BookingTypes DEF TypeOK, WorkerInv
<1>4. QED
  BY <1>1, <1>2, <1>3, PTL DEF MCSpec
=============================================================================
