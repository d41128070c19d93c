SPECIFICATION Spec
CONSTANTS
    Thread = {0, 1, 2}
    Dynamic = {2}
    Schedulers = {"random", "full", "context_bound"}
    ParkArguments <- AllWaits
    MaxYield = 2
    ContextBound = 1
INVARIANTS TypeOK BlockCountsAreExplained DeadlockIsReal WakeableAreParked VerifyNeedsAHeldTimedThread
CHECK_DEADLOCK FALSE
