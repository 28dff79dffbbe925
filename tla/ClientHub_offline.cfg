SPECIFICATION Spec
CONSTANTS
    Machines = {m1}
    Conns = {c1, c2}
    Calls = {q1}
    None = None
INVARIANT OfflineAfterDisconnect
CHECK_DEADLOCK FALSE
