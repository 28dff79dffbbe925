SPECIFICATION Spec
CONSTANTS
    N = 1
    MaxDeaths = 1
PROPERTY DeadAgentNoticed
CHECK_DEADLOCK FALSE
