SPECIFICATION Spec
CONSTANTS
    Thread = {a, b}
    NoThread = NoThread
    Atomic = {"x"}
    Var = {"v"}
    SyncVar = {"s"}
    LoadOrder = {"relaxed"}
    StoreOrder = {"relaxed"}
    RmwOrder = {"relaxed", "acq_rel"}
    FenceOrder = {"release", "acq_rel"}
    Yielding = {}
    RandomScheduler = FALSE
    MaxClock = 3
SYMMETRY Symmetry
INVARIANTS TypeOK NoKnowledgeOfTheFuture TimestampsAreOfTheLastAccesses ReleaseSequencesAreCarried
PROPERTIES ImplementsHappensBefore
CHECK_DEADLOCK FALSE
