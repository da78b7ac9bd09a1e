CONSTANTS
    NumTasks <- MC_NumTasks
    NumClients <- MC_NumClients
    TotalCommands <- MC_TotalCommands
    Runs <- MC_Runs
SPECIFICATION Spec
INVARIANT ActionIssuesItsCommand
CHECK_DEADLOCK FALSE
