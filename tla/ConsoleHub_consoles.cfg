SPECIFICATION Spec
CONSTANTS
    Consoles = {k1}
    Sources = {s1, s2}
    Threads = {t1}
    None = None
    Capacity = 1
    MaxEvents = 3
INVARIANTS
    TypeOK
    ClientsAreServed
    NoGap
PROPERTIES
    GoroutinesEnd
CHECK_DEADLOCK FALSE
