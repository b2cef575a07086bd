\* A sender that waits for what is under way, and more retries than faults.
CONSTANTS
    r1 = r1
    r2 = r2
    Receivers = {r1, r2}
    SN = FALSE
    NrSlices = 2
    BlockCounts = {1, 2}
    Retries = 2
    MaxFaults = 2
    EagerTimeout = FALSE
    ByteBase = 256
SPECIFICATION Spec
INVARIANT SurvivorsServed
PROPERTY EverybodyServed
CHECK_DEADLOCK FALSE
