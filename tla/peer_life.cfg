\* Each factory of each layer, its pump, and a thread that uses the peer.
SPECIFICATION FairSpec
CONSTANTS
    None = None
    Threads = {main, pump, user}
    Main = main
    Pump = pump
    Users = {user}
    Buffers = {b1}
    Slots = {k1, k2}
    Contents = {x1, x2}
INVARIANTS
    TypeOK
    BuffersAreAlive
    ReceiveIsFaithful
    EveryPacketGoesBack
    ResponseIsStable
    RunningPumpHasAnOwner
PROPERTIES
    GilIsPassedOn
