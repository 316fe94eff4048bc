\* One remote: it connects or is dialled, sends, overflows, leaves and comes back;
\* a connect() call or a thread in accept() takes part, and the owners.  Or two
\* remotes, each dialled by one connect() call.
SPECIFICATION SceneSpec
CONSTANTS
    None = None
    r1 = r1  r2 = r2  c1 = c1  c2 = c2  s1 = s1  s2 = s2  a1 = a1  a2 = a2
    Remotes = {r1, r2}
    Sessions = {s1, s2}
    Calls = {c1, c2}
    Acceptors = {a1}
    Target <- TwoTargets
    Rejections = {17, 10}
    MaxPackets = 2
    MaxQueue = 1
SYMMETRY SessionSymmetry
INVARIANTS
    TypeOK
    ResolvedExactlyOnce
    LiveIsRegistered
    ZombieOnlyAfterTimeout
    EveryConnectionHasAHolder
    ClosedMailboxMeansDisconnected
    WaiterIsReachable
    AtMostOneOrphan
PROPERTIES
    ResolutionIsFinal
CHECK_DEADLOCK FALSE
