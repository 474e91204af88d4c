CONSTANTS
    t1 = t1  t2 = t2  k1 = k1  k2 = k2  k3 = k3
    NoWaker = NoWaker
    Tasks = {t1}
    Wakers = {k1, k2}
    MaxRequests = 2
    Switching = FALSE
    Rejecting = FALSE
    Failing = TRUE
    Solo = FALSE
SPECIFICATION FairSpec
PROPERTIES NoticesSettle
CHECK_DEADLOCK FALSE
