SPECIFICATION Spec
CONSTANTS
    CheckpointIds = {c1, c2}
    NoId = NoId
    Buffers = {b1, b2, b3}
    NoBuffer = NoBuffer
    Scopes = {"documents", "checkpoints"}
    Operations = {"max"}
    BadName = "BAD"
    Thresholds = {0, 1}
    EvaluationLimit = 2
    EvaluationTrim = 2
    MaxHash = 2
    MaxLines = 2
    MaxEvents = 6
INVARIANTS
    SummaryOfSelected
    EvaluationsRecent
CHECK_DEADLOCK FALSE
