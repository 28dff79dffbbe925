SPECIFICATION RunnerSpec
CONSTANTS
    OwnCalls = {q1, q2}
    Refreshes = {r1}
    None = None
    PatientTimer = FALSE
INVARIANTS
    ReaderNeverBlocks
    NobodyWaitsOnDeadProcess
PROPERTIES
    EveryCallReturns
CHECK_DEADLOCK FALSE
