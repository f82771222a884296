SPECIFICATION FairSpec
CONSTANTS
    Request = {r1, r2, r3}
    NoReply = NoReply
    Garbage = Garbage
    Impatient = {r1}
    MaxConn = 2
    MaxSlips = 1
INVARIANT
    PipelineKept
PROPERTIES
    ImplementsPromises
    RequestsSettle
CHECK_DEADLOCK FALSE
