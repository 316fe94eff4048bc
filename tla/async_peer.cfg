\* A connect() and an accept() loop, both cancelled at any await, a close() that
\* may be cancelled too, and one remote.
SPECIFICATION AsyncFairSpec
CONSTANTS
    None = None
    r1 = r1  c1 = c1  s1 = s1  s2 = s2  a1 = a1
    Remotes = {r1}
    Sessions = {s1}
    Calls = {c1}
    Acceptors = {a1}
    Target <- OneTarget
    Rejections = {17, 10}
    MaxPackets = 0
    MaxQueue = 1
INVARIANTS
    AsyncTypeOK
    TaskHoldsConnection
    TaskIsReachable
PROPERTIES
    ResolutionIsFinal
    CloseEndsEveryTask
CHECK_DEADLOCK FALSE
