SPECIFICATION Spec
CHECK_DEADLOCK FALSE
CONSTANTS
    t1 = t1
    t2 = t2
    t3 = t3
    Thread = {t1, t2, t3}
    Dynamic = {t3}
    Main = Main
    MaxRepeats = 1
    None = None
    Block = {b1, b2, b3, b4}
    b1 = b1
    b2 = b2
    b3 = b3
    b4 = b4
    Size = {1, 2}
    SlotSize = 2
    DeferredCount = 2
    BatchSize = 2
    WordSize = 8
    Kind = {"mutex", "sema"}
    global = global
    member = member
    Variable = {global, member}
    Global = {global}
    Value = {1}
    MaxIterations = 2
    Tests <- AllTests
INVARIANTS
    TypeOK
    BlocksAreInOnePlace
    ReplaysAgree
    PreemptionIsRestored
    ChecksHold
    NothingIsCarriedOver
    ThreadLocalsArePrivate
PROPERTIES
    DeferredBlocksRest
    IterationsEnd
