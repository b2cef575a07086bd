\* A wake-up lost to a delayed store.
CONSTANTS
    Size = 3
    Mins <- MCMins
    UintMod = 64
    Delays = {TRUE}
SPECIFICATION Spec
PROPERTY WaitsNoLonger
CHECK_DEADLOCK FALSE
