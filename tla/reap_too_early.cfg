\* A connect() cancelled between the pump's pop of its entry and the assignment of
\* its connection.
SPECIFICATION AsyncSpec
CONSTANTS
    None = None
    r1 = r1  c1 = c1  s1 = s1  s2 = s2  a1 = a1
    Remotes = {r1}
    Sessions = {s1}
    Calls = {c1}
    Acceptors = {}
    Target <- OneTarget
    Rejections = {17}
    MaxPackets = 0
    MaxQueue = 1
INVARIANTS
    OrphanIsReaped
CHECK_DEADLOCK FALSE
