\* Two sessions on one key.  No symmetry: the property is a liveness property.
SPECIFICATION FairSpec
\* A payment that reached its outcome may leave nothing to do.
CHECK_DEADLOCK FALSE
CONSTANTS
    Keys = {k1}
    Intents = {i1}
    Sessions = {s1, s2}
    Total = 1
    NoIntent = NoIntent
    NoKey = NoKey
PROPERTIES
    RequestsEnd
