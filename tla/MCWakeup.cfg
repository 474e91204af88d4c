CONSTANTS
    t1 = t1  t2 = t2  k1 = k1  k2 = k2  k3 = k3
    NoWaker = NoWaker
    Tasks = {t1, t2}
    Wakers = {k1, k2, k3}
    MaxRequests = 2
    Switching = TRUE
    Rejecting = TRUE
    Failing = TRUE
    Solo = TRUE
SPECIFICATION FairSpec
INVARIANTS TypeOK OneWakeup CurrentNotices StopSilences
PROPERTIES AttendedNoticesSettle
CHECK_DEADLOCK FALSE
