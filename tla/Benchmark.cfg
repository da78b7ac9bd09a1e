CONSTANTS
    NumTasks <- MC_NumTasks
    NumClients <- MC_NumClients
    TotalCommands <- MC_TotalCommands
    Runs <- MC_Runs
SPECIFICATION Spec
INVARIANT TypeOK
INVARIANT ExactCommandCount
CHECK_DEADLOCK FALSE
