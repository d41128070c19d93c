SPECIFICATION Spec
CONSTANTS
    Thread = {0, 1, 2}
    Dynamic = {}
    Schedulers = {"full"}
    ParkArguments <- NotSpurious
    MaxYield = 1
    ContextBound = 1
INVARIANT NoVerifyFails
CHECK_DEADLOCK FALSE
