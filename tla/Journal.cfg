SPECIFICATION FairSpec
CONSTANTS
    Lines <- ShortLines
    MaxLines = 4
    CommandLimit = 3
INVARIANTS
    ParsedBeforeRun
    CalledInOrder
    AnswerComplete
PROPERTIES
    Answers
CHECK_DEADLOCK FALSE
