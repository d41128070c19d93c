SPECIFICATION ItSpec
CONSTANTS
    Thread = {0, 1, 2}
    NoThread = NoThread
    Atomic = {"x", "y", "r"}
    Var = {"d", "e"}
    SyncVar = {0, 1, 2, 3, 4, 5, 6}
    futex_sync <- FutexSync
    LoadOrder = {"relaxed", "acquire", "seq_cst"}
    StoreOrder = {"relaxed", "release", "seq_cst"}
    RmwOrder = {"relaxed", "acquire", "release"}
    FenceOrder = {"release", "acquire", "seq_cst"}
    Yielding = {}
    RandomScheduler = FALSE
    MaxClock = 20
    Tests <- RelaxedStoreTests
INVARIANT OnlyReleaseSequencesAreCarried
CHECK_DEADLOCK FALSE
