SPECIFICATION Spec
SYMMETRY Symmetry
CONSTANTS
    Keys = {k1}
    Threads = {t1, t2, t3}
    Codes = {q1, q2}
    CacheTtl = 1
    CodeTtl = 1
    TokenTtl = 2
    Delay = 1
    Expiries <- MCExpiries
    Inserted <- MCInserted
    MaxTime = 4
    MaxEdits = 1
    None = None
INVARIANT
    StatusRevocationHolds
