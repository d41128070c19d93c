SPECIFICATION Spec
CONSTANTS
    Thread = {a, b, c}
    Free = Free
    Shared = Shared
    Mutex = {"mutex", "win", "rw", "srw"}
    RwLock = {"rw", "srw"}
    Recursive = {"mutex", "win"}
    SharedRecursive = {"rw"}
    Semaphore = {"sema", "posix"}
    Interruptible = {"posix"}
    Event = {"auto", "manual"}
    ManualReset = {"manual"}
    CondVar = {"cv"}
    WaitArrays <- TheArrays
    Tests <- TheTests
    MaxCount <- TheCounts
    MaxRecursion <- TheRecursions
    SpuriousLimit = 1
SYMMETRY Symmetry
INVARIANTS TypeOK WaitsetsAreOfParkedThreads LocksAreHeldOnce NobodyWaitsInVain TakersKnowTheSignals
PROPERTIES OnlyPulsesBreakTheChecks
CHECK_DEADLOCK FALSE
