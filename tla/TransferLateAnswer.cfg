\* Answers to earlier requests taken for answers to the present one.
CONSTANTS
    r1 = r1
    Receivers = {r1}
    SN = FALSE
    NrSlices = 1
    BlockCounts = {1}
    Retries = 3
    MaxFaults = 1
    EagerTimeout = TRUE
    ByteBase = 256
SPECIFICATION Spec
PROPERTY RequestsToldApart
CHECK_DEADLOCK FALSE
