CONSTANTS
    conn = conn
    Connect <- conn
    Workloads <- MC_CommandWorkloads
    Keys <- MC_Keys
    Initial <- MC_EmptyStart
    EvalScript <- MC_EvalScript
    Times <- MC_NoTime

SPECIFICATION Spec

INVARIANT SubmissionOrderSemantics

CHECK_DEADLOCK FALSE
