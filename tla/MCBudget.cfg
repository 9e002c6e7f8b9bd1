SPECIFICATION Spec
SYMMETRY Symmetry
CONSTANTS
    reader = reader
    r1 = r1
    w1 = w1
    Calls = {c1, c2}
    Keys = {reader}
    Conns = {x1, x2, x3, x4}
    Chunks = {r1}
    Workspaces = {w1}
    Role <- MCRole
    AllowedTools <- MCAllowedTools
    Grants <- MCGrants
    Classification <- MCClassification
    WorkspaceOf <- MCWorkspaceOf
    Requests <- MCRequests
    HourlyCap = 1
    MaxFragments = 10
    HardMaxRows = 500
    Retention = 2
    MaxHour = 2
    NoConn = NoConn
    NoClient = NoClient
    NoAllowlist = NoAllowlist
INVARIANTS
    DeliveredWithinCap
    EveryDeliveryCharged
PROPERTIES
    BudgetSpec
