SPECIFICATION Spec
CONSTANTS
    DocIds = {1, 2}
    TitleLimit = 1
    TitleBuffers = {b1, b2, b3}
    MaxViews = 1
    PageIds = {g1}
    PageLimit = 1
    PageAddresses = {q1, q2}
    MaxCursors = 1
    NodeIds = {m1, m2}
    Values = {v1}
    NodeAddresses = {n1, n2}
    Tags = {t1}
    NoTag = NoTag
    MaxWatches = 1
    SnapshotIds = {x1}
    NoSnapshot = NoSnapshot
    MaxRestores = 1
    MaxEpoch = 2
SYMMETRY InterchangeableNames
INVARIANTS
    OutdatedInOneWay
    CrashNeedsOutdatedReference
    WatchListFaithful
PROPERTIES
    RestoreExact
    HoldingsImplemented
CHECK_DEADLOCK FALSE
