SPECIFICATION Spec
CONSTANTS
    NoId = NoId
    BadKind = BadKind
    BadPayload = BadPayload
    Ids = {s1, s2}
    Kinds = {k1, k2}
    Payloads = {p1}
    EntryLimit = 3
    MaxHistory = 4
INVARIANTS
    TypeOK
    OpenConsistent
    SealedComplete
    ReplayDeterministic
PROPERTIES
    Implements
CHECK_DEADLOCK FALSE
