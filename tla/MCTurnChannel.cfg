SPECIFICATION FairSpec
CONSTANTS
    ReplayMax = 3
    ControlMax = 2
    MaxEvents = 6
    MaxReaders = 3
INVARIANTS
    TypeOK
    CriticalDelivered
PROPERTIES
    ImplementsFeed
    ChannelSettles
CHECK_DEADLOCK FALSE
