\* Three tasks in get() on a queue of two, cancelled at any time.
SPECIFICATION FairSpec
CONSTANTS
    None = None
    MaxQueue = 2
    Tasks = {t1, t2, t3}
    MaxMessages = 3
    MaxCloses = 2
INVARIANTS
    TypeOK
    SizeIsBacklog
PROPERTIES
    EndReachesEveryone
    ImplementsPipe
