CONSTANTS
    r1 = r1  r2 = r2  a1 = a1
    t1 = t1  t2 = t2  t3 = t3
    c1 = c1  c2 = c2  c3 = c3
    Tasks = {t1, t2, t3}
    Controls = {c1, c2, c3}
    NoControl = NoControl
    NoRun = NoRun
    Runs = {r1, r2}
    Agents = {a1}
    RunOf <- SlotRunOf
    AgentOf <- SlotAgentOf
    Capacity = 1
    StopMayFail = TRUE
SPECIFICATION Spec
SYMMETRY ControlSymmetry
INVARIANTS TypeOK SlotExclusive ControlKept CapacityRespected OrphansCanBeStopped
PROPERTIES ImplementsLife StopDrains
CHECK_DEADLOCK FALSE
