SPECIFICATION Spec
CONSTANTS
    Thread = {a, b, c}
    Free = Free
    Shared = Shared
    Mutex = {}
    RwLock = {}
    Recursive = {}
    SharedRecursive = {}
    Semaphore = {}
    Interruptible = {}
    Event = {"auto"}
    ManualReset = {}
    CondVar = {}
    WaitArrays = {}
    Tests = {{"auto"}}
    MaxCount <- TheCounts
    MaxRecursion <- TheRecursions
    SpuriousLimit = 0
SYMMETRY Symmetry
INVARIANTS WokenThreadsFindTheirObject
CHECK_DEADLOCK FALSE
