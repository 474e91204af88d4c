SPECIFICATION FairSpec
CONSTANTS
    n1 = n1
    Notes <- MCNotes
    Incoming <- MCIncoming
    NumUpdates = 2
    NumParts = 2
    MaxFaults <- MCMaxFaults
    MaxDowns = 2
INVARIANTS
    TypeOK
    RunsAtMostOnce
    NoUpdateLost
    ResultHasOneSender
CHECK_DEADLOCK FALSE
PROPERTIES
    ImplementsOutbox
    ResultSettles
