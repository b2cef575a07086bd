\* The end of file taken before everything was read.
CONSTANTS
    Size = 3
    Mins <- MCMins
    UintMod = 64
    Delays = {FALSE}
SPECIFICATION Spec
INVARIANT EndOfFileMeansDrained
CHECK_DEADLOCK FALSE
