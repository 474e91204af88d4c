CONSTANTS
    t1 = t1  t2 = t2  w1 = w1  w2 = w2
    Tasks = {t1, t2}
    Waiters = {w1, w2}
    Texts = {"x"}
    NoText = "none"
    StopText = "stopped"
    Keep = 1
    Limit = 1
    ManagedFilters <- FinalsToo
    Overrides = {0}
    MaxProgress = 2
SPECIFICATION Spec
SYMMETRY AnySymmetry
INVARIANTS TypeOK FinalIsLast NothingSkipped NoWakeupLost
CHECK_DEADLOCK FALSE
