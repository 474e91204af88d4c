CONSTANTS
    s1 = s1  s2 = s2  x = x  y = y  t1 = t1  k1 = k1  k2 = k2
    Slots = {s1, s2}
    Position <- SlotOrder
    Roles = {x, y}
    NameOf <- RoleNames
    Tasks = {t1}
    Calls = {k1, k2}
    Free = Free
    None = None
    NoCall = NoCall
    MaxRevision = 2
SPECIFICATION Spec
SYMMETRY Symmetric
INVARIANTS TypeOK InStep TasksReachable ControlFollows RoleOwnsConversation TeamFits
PROPERTIES ImplementsRegister
CHECK_DEADLOCK FALSE
