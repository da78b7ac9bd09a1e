CONSTANTS
    r1 = r1
    r2 = r2
    r3 = r3
    conn = conn
    Requests <- MC_Requests
    Connect <- conn

SPECIFICATION Spec

INVARIANT TypeOK
INVARIANT CallbackIndexUnique
INVARIANT CallbackCorrelation
INVARIANT WritesInSubmissionOrder
INVARIANT ClosedClientHasNoPendingPromise

PROPERTY EveryRequestSettles

CHECK_DEADLOCK FALSE
