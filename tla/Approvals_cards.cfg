SPECIFICATION SpecBounded
CONSTANTS
    c1 = c1
    Agents = {a1, a2}
    Raws = {r1, r2}
    Conns = {c1, c2}
    Consoles = {k1, k2}
    None = None
    MaxBreaks = 1
    MaxRaised = 2
    MaxRequests = 2
SYMMETRY Symmetry
INVARIANTS
    AnsweredOnce
    ToldIsTrue
    CardsFollowAgents
CHECK_DEADLOCK FALSE
