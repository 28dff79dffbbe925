SPECIFICATION Spec
CONSTANTS
    Machines = {m1, m2}
    Conns = {c1, c2}
    Calls = {q1}
    None = None
INVARIANTS
    OneResultPerCall
    NoWaiterLeak
    ClientsAreConnected
PROPERTIES
    ReconnectKeepsOwner
    KeepsPromise
    BrokenConnectionsClose
CHECK_DEADLOCK FALSE
