SPECIFICATION FairSpec
CONSTANTS
    Status = {pending, approved}
    Absent = Absent
    MaxId = 2
    MaxLog = 3
    MaxCrashes = 2
INVARIANTS
    ServedIsPrefix
    AckedIsRecoverable
PROPERTIES
    ImplementsDurableStore
    WritesAreAcknowledged
    RecoveryTerminates
CHECK_DEADLOCK FALSE
