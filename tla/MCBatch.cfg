SPECIFICATION Spec
CONSTANTS
    Lens = {1, 2, 3}
    HsLen = 2
    Dests = {d1, d2}
    Arrivals = 4
    Batch = 3
    MaxSegs = 2
    MaxBytes = 5
    BufSize = 2
    NoCoalesce = 2
    RearmMin = 1
    RearmMax = 2
    Modes = {"c2s_normal", "c2s_reverse", "s2c_normal", "s2c_server"}
    HsInBuf = {"c2s_normal", "s2c_server"}
INVARIANTS Intact NonePassedOver
PROPERTIES InOrderOnce FlushReported
CHECK_DEADLOCK FALSE
