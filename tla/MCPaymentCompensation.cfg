\* One session is enough: a capture fails and is compensated.
SPECIFICATION Spec
CHECK_DEADLOCK FALSE
CONSTANTS
    Keys = {k1}
    Intents = {i1}
    Sessions = {s1}
    Total = 1
    NoIntent = NoIntent
    NoKey = NoKey
PROPERTIES
    CompensationReleasesAuthorization
