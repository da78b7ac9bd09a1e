CONSTANTS
    r1 = r1
    r2 = r2
    conn = conn
    Requests <- MC_Requests
    Connect <- conn

SPECIFICATION FaultSpec

INVARIANT UnknownIndexClosesConnection

CHECK_DEADLOCK FALSE
