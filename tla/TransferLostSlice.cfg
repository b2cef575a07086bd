\* A receiver that lost all of one slice is ended by the next one.
CONSTANTS
    r1 = r1
    r2 = r2
    Receivers = {r1, r2}
    SN = TRUE
    NrSlices = 2
    BlockCounts = {1}
    Retries = 2
    MaxFaults = 2
    EagerTimeout = FALSE
    ByteBase = 256
SPECIFICATION Spec
INVARIANT SurvivorsServed
CHECK_DEADLOCK FALSE
