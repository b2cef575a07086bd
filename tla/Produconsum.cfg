\* Safety and the abstract queue with and without store delay, liveness without.
CONSTANTS
    Size = 3
    Mins <- MCMins
    UintMod = 64
    Delays = {FALSE, TRUE}
SPECIFICATION Spec
INVARIANTS TypeOK CountersTellFill NoFalseAlarm NoLostWakeup
PROPERTIES AskedIsAnswered ImplementsQueue
CHECK_DEADLOCK FALSE
