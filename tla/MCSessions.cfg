SPECIFICATION Spec
CONSTANTS
    k1 = k1  k2 = k2  x1 = x1  d1 = d1  s1 = s1
    c1 = c1  c2 = c2  c3 = c3
    NoCall = NoCall
    NoConv = NoConv
    Chats = {k1, k2}
    Workers = {}
    Changes = {x1}
    Deletes = {d1}
    Stops = {s1}
    Convs = {c1, c2, c3}
    Kinds = {"cli", "native"}
    KindOf <- MCKindOf
    NativeKind = "native"
SYMMETRY CallSymmetry
INVARIANTS
    TypeOK
    HoldMatchesUse
    StopHitsItsOwn
    RunsWhereSent
PROPERTY
    ImplementsHold
VIEW LiveState
CHECK_DEADLOCK FALSE
