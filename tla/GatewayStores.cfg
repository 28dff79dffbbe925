SPECIFICATION Spec
CONSTANTS
    Writers = {w1, w2}
    Threads = {t1, t2}
    NoInode = NoInode
    MaxChanges = 3
    Ids = {a1, a2}
    Callers = {k1, k2}
    MaxRequests = 3
SYMMETRY Symmetry
INVARIANTS
    TypeOK
    AckedIsOnDisk
    TitlesStay
    RegistryFollowsMachine
CHECK_DEADLOCK FALSE
