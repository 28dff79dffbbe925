SPECIFICATION Spec
CONSTANTS
    Threads = {t1, t2}
    Existing = {t1}
    Conns = {c1, c2}
    Consoles = {k1, k2}
    None = None
    MaxTurns = 2
    MaxRequests = 2
SYMMETRY Symmetry
INVARIANTS
    TypeOK
    
    RunningTurnKnown
    HiddenIsArchived
PROPERTIES
    DeletedStaysDeleted
CHECK_DEADLOCK FALSE
