\* Two threads in get() and one in poll() on a queue of two.
SPECIFICATION FairSpec
CONSTANTS
    None = None
    MaxQueue = 2
    Getters = {g1, g2}
    Pollers = {p1}
    MaxMessages = 3
INVARIANTS
    TypeOK
    NoLostWakeup
    ClosedWakesEveryone
PROPERTIES
    CloseReleases
    ImplementsPipe
