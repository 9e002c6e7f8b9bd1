SPECIFICATION Spec
SYMMETRY Symmetry
CONSTANTS
    reader = reader
    admin = admin
    pub = pub
    conf = conf
    secret = secret
    w1 = w1
    w2 = w2
    Calls = {c1, c2}
    Keys = {reader, admin}
    Conns = {x1, x2}
    Chunks = {pub, conf, secret}
    Workspaces = {w1, w2}
    Role <- MCRole
    AllowedTools <- MCAllowedTools
    Grants <- MCGrants
    Classification <- MCClassification
    WorkspaceOf <- MCWorkspaceOf
    Requests <- MCRequests
    HourlyCap = 1
    MaxFragments = 10
    HardMaxRows = 500
    Retention = 2
    MaxHour = 0
    NoConn = NoConn
    NoClient = NoClient
    NoAllowlist = NoAllowlist
INVARIANTS
    TypeOK
    ContextBelongsToHolder
    RowsWithinScope
    ConnectionsReturned
    AuditedBeforeDelivered
    DbEventsInFile
    BlankMeansGone
