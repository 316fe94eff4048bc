\* Two pings of one or two addresses, in either layer.
SPECIFICATION FairSpec
CONSTANTS
    None = None
    Calls = {p1, p2}
    Addresses = {a1, a2}
    Answers = {x1, x2}
INVARIANTS
    TypeOK
    PingIsReachable
    ClosedIsTrue
    NoStaleEntries
PROPERTIES
    ResultIsFinal
    CloseEndsPings
\* A closed peer whose calls have returned does nothing more.
CHECK_DEADLOCK FALSE
