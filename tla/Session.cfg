SPECIFICATION Spec
CONSTANTS
    TtlLimit = 2
    Stamps = {0, 1, 2}
    Tags = {0, 1, 2}
    Roles = {"admin"}
    Permissions = {"read"}
    BadName = "BAD"
    CheckLimit = 2
    CheckTrim = 1
    SlotLimit = 2
    MaxCommands = 6
INVARIANTS
    ReportedAreRevoked
    EventsKept
    WindowTells
    AllowsHold
    SignedAsPlanned
\* A fatal outcome ends a journal, and so does its last command.
CHECK_DEADLOCK FALSE
