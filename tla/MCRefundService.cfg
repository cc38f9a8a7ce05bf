\* Two overlapping sessions, two refund requests of one captured payment, and
\* room for a provider refund whose answer is lost.
SPECIFICATION Spec
\* When every refund is recorded there may be nothing left to do.
CHECK_DEADLOCK FALSE
CONSTANTS
    Keys = {k1}
    Intents = {i1}
    RefundKeys = {q1, q2}
    Operations = {o1, o2}
    Sessions = {s1, s2}
    Total = 2
    NoIntent = NoIntent
    NoKey = NoKey
    NoOperation = NoOperation
SYMMETRY Symmetry
INVARIANTS
    TypeOK
    RefundsAreRecorded
    RefundedIsNeverOverstated
PROPERTIES
    LedgerLostOnlyToStaleRead
    KeepsKeyPromise
