SPECIFICATION RunnerSpec
CONSTANTS
    OwnCalls = {q1}
    None = None
    Refreshes = {r1}
    PatientTimer = TRUE
PROPERTY ArrivedResponsesAreReceived
CHECK_DEADLOCK FALSE
