SPECIFICATION FairSpec
CONSTANTS
    Thread = {0, 1, 2}
    Dynamic = {}
    Schedulers = {"full", "context_bound"}
    ParkArguments <- NotSpurious
    MaxYield = 1
    ContextBound = 0
PROPERTIES YieldIsFair
CHECK_DEADLOCK FALSE
