SPECIFICATION Spec
CONSTANTS
    Lines <- ShortLines
    MaxLines = 1
    CommandLimit = 2
INVARIANTS
    UnsupportedReported
CHECK_DEADLOCK FALSE
