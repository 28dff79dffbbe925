SPECIFICATION Spec
CONSTANTS
    N = 3
    MaxDeaths = 1
INVARIANTS
    Durable
    RecordsOnDisk
    NoStrayProcess
    StatusIsTrue
PROPERTIES
    FailedStartUndone
    OperationsEnd
    ComesBackOnline
CHECK_DEADLOCK FALSE
