SPECIFICATION Spec
CONSTANTS
    Conns = {c1, c2}
    ReaderStatuses = {417, 431}
    HandlerStatuses = {200, 503}
    MaxRequests = 3
INVARIANTS TypeOK RefusalsCounted NoLeak LabelIsFirstResponse
CHECK_DEADLOCK FALSE
