SPECIFICATION Spec
CONSTANTS
    Thread = {a, b}
    NoThread = NoThread
    Atomic = {"x"}
    Var = {}
    SyncVar = {}
    LoadOrder = {"relaxed", "seq_cst"}
    StoreOrder = {"relaxed", "seq_cst"}
    RmwOrder = {}
    FenceOrder = {}
    Yielding = {a}
    RandomScheduler = TRUE
    MaxClock = 4
INVARIANTS RingHoldsTheLastStores
PROPERTIES ReadsAreOfStores NoStaleRead OwnReadsAdvance YieldMakesProgress
CHECK_DEADLOCK FALSE
