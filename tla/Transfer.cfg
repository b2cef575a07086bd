\* Half duplex, two blocks to a slice, a sender that may time out at any time.
CONSTANTS
    r1 = r1
    r2 = r2
    Receivers = {r1, r2}
    SN = FALSE
    NrSlices = 1
    BlockCounts = {2}
    Retries = 1
    MaxFaults = 1
    EagerTimeout = TRUE
    ByteBase = 256
SPECIFICATION Spec
INVARIANTS TypeOK CountsAgree OkIsTrue AckedMeansReceived
PROPERTIES ImplementsMulticast SenderFinishes
CHECK_DEADLOCK FALSE
