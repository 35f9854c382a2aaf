SPECIFICATION Spec
CONSTANTS
    KeyIds = {k1, k2}
    LeaseIds = {l1, l2}
    NoLease = NoLease
    MaxKeys = 3
    MaxEvents = 3
INVARIANTS
    EndsWithoutCrash
CHECK_DEADLOCK FALSE
