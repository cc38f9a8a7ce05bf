\* Two overlapping sessions on one payment, which may take two provider
\* payments; amounts of one or two units make partial captures.
SPECIFICATION Spec
\* A payment that reached its outcome may leave nothing to do.
CHECK_DEADLOCK FALSE
CONSTANTS
    Keys = {k1}
    Intents = {i1, i2}
    Sessions = {s1, s2}
    Total = 2
    NoIntent = NoIntent
    NoKey = NoKey
SYMMETRY Symmetry
INVARIANTS
    TypeOK
    NoDoubleCharge
    ChargesAreRecorded
    OutcomesAreTrue
    CapturedAmountIsTrue
PROPERTIES
    OutcomeLostOnlyToStaleRead
    KeepsKeyPromise
