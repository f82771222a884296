SPECIFICATION Spec
CONSTANTS
    Status = {pending, approved}
    Absent = Absent
    MaxId = 2
    MaxLog = 2
    MaxCrashes = 1
SYMMETRY Perms
INVARIANT IdsNeverReissued
CHECK_DEADLOCK FALSE
