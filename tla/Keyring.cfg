SPECIFICATION Spec
CONSTANTS
    KeyIds = {k1, k2}
    LeaseIds = {l1, l2}
    NoLease = NoLease
    MaxKeys = 4
    MaxEvents = 6
INVARIANTS
    TypeOK
    LeasesFindable
    HistoryTellsLeases
    DeletionsFollowRotations
PROPERTIES
    AuditAccountsForLeases
CHECK_DEADLOCK FALSE
