\* Full duplex: two slices in flight, three slice numbers.
CONSTANTS
    r1 = r1
    r2 = r2
    Receivers = {r1, r2}
    SN = TRUE
    NrSlices = 2
    BlockCounts = {1}
    Retries = 0
    MaxFaults = 1
    EagerTimeout = TRUE
    ByteBase = 256
SPECIFICATION Spec
INVARIANTS OkIsTrue AckedMeansReceived WaitHasSlice
PROPERTY ImplementsMulticast
CHECK_DEADLOCK FALSE
