------------------------------ MODULE Pricing ------------------------------
(***************************************************************************)
(* PricingService of reservation-service.  The code computes in decimals;  *)
(* here amounts after a percentage are in hundredths of a hundredth of the *)
(* unit a price is given in, so that nothing is ever rounded.              *)
(***************************************************************************)
EXTENDS Integers

CONSTANTS
    Days, MaxRooms,    \* bounds of the stays
    Prices, Percents   \* bounds of the quotes

Percent == 0..100

ASSUME PricingAssumption ==
    /\ Days \subseteq Int /\ MaxRooms \in Nat
    /\ Prices \subseteq Nat /\ Percents \subseteq Percent

\* A bug to catch: the day of departure counts as a night.
NightsInclusive(checkIn, checkOut) == checkOut - checkIn + 1

\* calculate_nights, for check_out after check_in.
CalculateNights(checkIn, checkOut) == checkOut - checkIn

CalculateRoomSubtotal(price, checkIn, checkOut, rooms) ==
    price * CalculateNights(checkIn, checkOut) * rooms

\* The discount and the tax, of an amount in hundredths.
CalculateDiscount(subtotal, percent) == subtotal * percent

CalculateTax(amount, percent) == amount * percent

\* The tax is on what the discount leaves.
CalculateTotal(price, checkIn, checkOut, rooms, discount, tax) ==
    LET subtotal == CalculateRoomSubtotal(price, checkIn, checkOut, rooms)
        left == 100 * subtotal - CalculateDiscount(subtotal, discount)
    IN  100 * left + CalculateTax(left, tax)

----------------------------------------------------------------------------
\* A stay costs what its two halves do, wherever it is cut; no discount or tax
\* makes it negative or more than double (pricing_service.py:103-131).
PricesAddUpFor(price, checkIn, between, checkOut, rooms, discount, tax) ==
    LET total == CalculateTotal(price, checkIn, checkOut, rooms, discount, tax)
    IN  /\ total = CalculateTotal(price, checkIn, between, rooms, discount, tax)
                     + CalculateTotal(price, between, checkOut, rooms, discount, tax)
        /\ total >= 0
        /\ total <= 20000 * price * (checkOut - checkIn) * rooms
=============================================================================
