\* One hotel with two rooms and two nights, and one room to a stay; no symmetry, as a property is a
\* liveness property.
SPECIFICATION MCSpec
\* A worker ends, and a hotel is full.
CHECK_DEADLOCK FALSE
CONSTANTS
    Days <- MCDays
    Prices = {3}
    Percents = {7, 100}
    MaxRooms = 1
    Reservations = {r1}
    Calls = {c1, c2}
    Capacity = 2
    MaxReleases = 2
    Nobody = Nobody
    Unused = Unused
INVARIANTS
    TypeOK
    OversoldOnlyByReleaseOrRace
    CancelledGaveBack
    PricesAddUp
PROPERTIES
    SignalledWorkersEnd
    EndsOnlyWhenSignalled
