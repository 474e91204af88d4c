SPECIFICATION FairSpec
CONSTANTS
    ReplayMax = 2
    ControlMax = 1
    MaxEvents = 4
    MaxReaders = 2
PROPERTIES
    OverflowReleases
CHECK_DEADLOCK FALSE
