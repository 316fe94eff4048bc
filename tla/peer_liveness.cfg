\* Two threads in accept(), or a connect() with and without a timeout, while the
\* peer closes or its pump crashes and RakNet answers in every way.
SPECIFICATION RoleFairSpec
CONSTANTS
    None = None
    r1 = r1  r2 = r2  c1 = c1  c2 = c2  s1 = s1  s2 = s2  a1 = a1  a2 = a2
    Remotes = {r1}
    Sessions = {s1}
    Calls = {c1}
    Acceptors = {a1, a2}
    Target <- OneTarget
    Rejections = {17, 18}
    MaxPackets = 1
    MaxQueue = 1
PROPERTIES
    CloseCompletes
    AcceptorsWake
    ConnectReturns
CHECK_DEADLOCK FALSE
