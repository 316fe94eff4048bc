\* close() while the pump builds a connection.
SPECIFICATION Spec
CONSTANTS
    None = None
    r1 = r1  r2 = r2  c1 = c1  c2 = c2  s1 = s1  s2 = s2  a1 = a1  a2 = a2
    Remotes = {r1}
    Sessions = {s1}
    Calls = {}
    Acceptors = {a1}
    Target <- NoTarget
    Rejections = {17}
    MaxPackets = 0
    MaxQueue = 1
INVARIANTS
    CloseEndsEveryConnection
CHECK_DEADLOCK FALSE
