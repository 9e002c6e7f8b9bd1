SPECIFICATION Spec
CONSTANTS
    Docs = {d1, d2}
    MaxChanges = 4
    MaxFaults = 2
    NoCursor = NoCursor
    NoItem = NoItem
INVARIANT
    RestartResumesCleanly
