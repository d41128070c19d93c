SPECIFICATION Spec
CONSTANTS
    MaxDepth = 3
    MaxLimit = 2
INVARIANTS TypeOK ExploresInOrder SuccessIsExhaustive HistoryIsOfTheFailure NoCheckFails
PROPERTIES SearchEnds
CHECK_DEADLOCK FALSE
