\* Four requests at most, two at a time, about a reservation with two payments,
\* each of which may open one payment at a provider.
SPECIFICATION MCSpec
\* The last request ends, and a payment that reached its outcome may leave
\* nothing to do.
CHECK_DEADLOCK FALSE
CONSTANTS
    Keys = {k1, k2}
    Intents = {i1, i2}
    Sessions = {s1, s2}
    Total = 1
    MaxRequests = 4
    Providers = {"stripe"}
    NoIntent = NoIntent
    NoKey = NoKey
SYMMETRY Symmetry
INVARIANTS
    RequestTypeOK
    AnswersAreTrue
    ConfirmationSettles
PROPERTIES
    CapturedOnRequest
