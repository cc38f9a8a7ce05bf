\* One notification that up to three sessions change after it was created, or
\* two templates that they create, change and delete.
SPECIFICATION Spec
\* The behaviour ends when every session has.
CHECK_DEADLOCK FALSE
CONSTANTS
    Notifications = {n1}
    Templates = {t1, t2}
    Names = {m1, m2}
    Sessions = {s1, s2, s3, s4}
    Enabled = {"sms", "push"}
    Unused = Unused
    Deleted = Deleted
    Never = Never
    NoRow = NoRow
SYMMETRY Symmetry
INVARIANTS
    TypeOK
    SentMeansAccepted
    SendsTakeTurns
    DeliveryIsOnRecord
    TemplatesAreDistinct
