SPECIFICATION Spec
CONSTANTS
    DocIds = {1, 2, 3}
    Titles = {1, 2}
    Bodies = {1}
    PageIds = {1}
    PageBytes = {2}
    NodeIds = {1}
    Values = {17}
    SnapshotIds = {1}
    MaxEpoch = 3
    SizeOf <- MCSizeOf
    LinkTables <- MCLinkTables
    LinkLimit = 2
    CountLimit = 2
    WidthLimit = 3
    StorageLimit = 4
    DeclaredLimit = 3
    LabelLimit = 2
    PaletteSize = 2
    VectorPlans <- MCVectorPlans
    Labels <- MCLabels
    Colors = {1, 2}
    StepLimit = 2
    MergeSteps = {1, 3}
    SampleMax = 2
    SampleSizes = {1, 2}
    ValueMask = 16
    ScaleLimit = 1
    Scales = {0, 1}
    WalkLimit = 3
    Walks <- MCWalks
    ShardLimit = 2
    Slack = 2
    ShardCounts = {0, 2}
    ShardTargets = {1, 2}
    DigestLimit = 2
    DigestTrim = 1
    DigestKinds <- MCDigestKinds
    MaxEvents = 5
    MaxKinds = 1
INVARIANTS
    ReportsAgree
    WalkNeverStops
    LoadsAccount
    NoReadOutside
PROPERTIES
    MergeHandsOutOnce
\* A fatal outcome ends a journal, and so does its last event.
CHECK_DEADLOCK FALSE
