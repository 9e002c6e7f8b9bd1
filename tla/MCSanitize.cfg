CONSTANTS
    Tasks = {t1, t2}
    Workspaces = {"A", "B"}
    MaxDbFaults = 1
    NoToken = NoToken
    Failed = Failed
    Inputs <- MCInputs
SPECIFICATION Spec
INVARIANTS
    TypeOK
    CallsAgree
    FailuresExplained
    NothingShowsThrough
    TokensDecode
    BioMergeFindsRuns
    WrongDigitRejected
PROPERTIES
    TokenMapSpec
CHECK_DEADLOCK FALSE
