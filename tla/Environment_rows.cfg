SPECIFICATION Spec
CONSTANTS
    s1 = s1
    m1 = m1
    m2 = m2
    p1 = p1
    Agents <- TwoAgents
    Skills = {s1}
    Servers = {m1, m2}
    Plugins = {p1}
    Installed <- InstalledOnFirst
    Documents <- NoServers
    Home <- HomeOfSecond
    Conns = {c1, c2}
    Consoles = {k1}
    None = None
    MaxRequests = 2
    MaxBreaks = 1
SYMMETRY Symmetry
INVARIANTS
    TypeOK
    SettledEnvironment
    ServersKept
CHECK_DEADLOCK FALSE
