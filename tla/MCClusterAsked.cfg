CONSTANTS
    r1 = r1  r2 = r2  a1 = a1
    t1 = t1  t2 = t2  t3 = t3
    c1 = c1  c2 = c2  c3 = c3
    Tasks = {t1, t2}
    Controls = {c1, c2}
    NoControl = NoControl
    NoRun = NoRun
    Runs = {r1}
    Agents = {a1}
    RunOf <- PairRunOf
    AgentOf <- PairAgentOf
    Capacity = 2
    StopMayFail = TRUE
SPECIFICATION Spec
PROPERTIES AskedUnderOpenControl
CHECK_DEADLOCK FALSE
