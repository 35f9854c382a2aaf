SPECIFICATION Spec
CONSTANTS
    PageIds = {1, 2}
    PageSizes = {1, 2}
    Targets = {0, 1, 3}
    InitialTarget = 4
    NoWindow = NoWindow
    MaxStamp = 6
INVARIANTS
    LruFaithful
    BudgetHeld
PROPERTIES
    EvictsAsNeeded
CHECK_DEADLOCK FALSE
