CONSTANTS
    Tasks = {t1, t2}
    Workspaces = {"A"}
    MaxDbFaults = 0
    NoToken = NoToken
    Failed = Failed
    Inputs <- MCSameText
SPECIFICATION Spec
INVARIANT
    Converge
CHECK_DEADLOCK FALSE
