\* Two disciplines, two messages in work at a time, two API processes, one stop
\* or lost connection.
SPECIFICATION Spec
\* When every event is dealt with there may be nothing left to do.
CHECK_DEADLOCK FALSE
CONSTANTS
    Requests = {d1, d2}
    Professors = {p1, p2}
    Instances = {i1, i2}
    Handlers = {h1, h2}
    NoInstance = NoInstance
    NoRequest = NoRequest
    MaxFaults = 1
INVARIANTS
    TypeOK
    TrailFollowsCommits
    LostOnlyIfSwallowed
    DoubledOnlyByFaults
    AdministratorExists
PROPERTIES
    EventsAreHandled
