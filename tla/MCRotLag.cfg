SPECIFICATION FairSpec
CONSTANTS
    Copies = {a, b}
    N = 3
    Batch = 2
    Lag = 1
    Verify = 2
    Grace = 2
INVARIANTS
    TypeOK
PROPERTIES
    KeepsPromise
    Drained
