SPECIFICATION ChildSpec
CONSTANTS
    w1 = w1  w2 = w2
    c1 = c1  c2 = c2
    NoCall = NoCall
    NoConv = NoConv
    Chats = {w1, w2}
    Workers = {w1, w2}
    Changes = {}
    Deletes = {}
    Stops = {}
    Convs = {c1, c2}
    Kinds = {"cli", "native"}
    KindOf <- MCKindOf
    NativeKind = "native"
INVARIANTS
    CleanupSparesReplacement
CHECK_DEADLOCK FALSE
