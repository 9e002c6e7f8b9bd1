SPECIFICATION Spec
CONSTANTS
    Docs = {d1, d2}
    Texts <- MCTexts
    Ids <- MCIds
    CHUNK_CHARS = 2
    OVERLAP_CHARS = 1
    EmbedBatchSize = 2
    BatchSize = 2
    OldKey = OldKey
    NewKey = NewKey
    OtherKey = OtherKey
    MaxWrites = 3
    MaxRuns = 2
    MaxFaults = 1
INVARIANTS
    TypeOK
    DocumentCovered
    EmbeddingsMatch
    LeftBehindBounded
PROPERTIES
    NeverUndone
    RotationEnds
CHECK_DEADLOCK FALSE
