\* One session is enough: a refund fails and is retried.
SPECIFICATION Spec
CHECK_DEADLOCK FALSE
CONSTANTS
    Keys = {k1}
    Intents = {i1}
    RefundKeys = {q1}
    Operations = {o1}
    Sessions = {s1}
    Total = 1
    NoIntent = NoIntent
    NoKey = NoKey
    NoOperation = NoOperation
INVARIANTS
    RetryReprocesses
