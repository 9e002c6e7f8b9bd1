SPECIFICATION Spec
CONSTANTS
    Files = {"f1", "f2"}
    Folders = {"root", "sub"}
    Root = "root"
    Children <- MCChildren
    PageSize = 1
    Overlap = 1
    Skew = 1
    MaxTime = 3
    MaxChanges = 3
    MaxFaults = 1
    NoCursor = NoCursor
    ZohoTasks = {z1, z2}
    GraphTasks = {g1, g2}
    Hosts <- MCHosts
    Lifetimes = {0, 4}
    Safety = 1
    MaxLatency = 1
    MAX_REDIRECTS = 3
    MaxClock = 5
    NoToken = NoToken
INVARIANTS
    CrawlTypeOK
    TokenTypeOK
    WatermarkBehindStore
    NoNeedlessRefresh
    CachedTokenLives
    TokenStaysHome
PROPERTIES
    CrawlCatchesUp
CHECK_DEADLOCK FALSE
