SPECIFICATION Spec
CONSTANTS
    DocIds = {1}
    TitleLimit = 1
    TitleBuffers = {b1, b2}
    MaxViews = 1
    PageIds = {}
    PageLimit = 1
    PageAddresses = {q1}
    MaxCursors = 0
    NodeIds = {}
    Values = {v1}
    NodeAddresses = {n1}
    Tags = {t1}
    NoTag = NoTag
    MaxWatches = 0
    SnapshotIds = {x1}
    NoSnapshot = NoSnapshot
    MaxRestores = 1
    MaxEpoch = 2
SYMMETRY InterchangeableNames
PROPERTIES
    ManifestSucceeds
CHECK_DEADLOCK FALSE
