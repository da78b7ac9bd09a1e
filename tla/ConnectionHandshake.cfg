CONSTANTS
    NodeOptions <- MC_NodeOptions
    JavaConfigs <- MC_JavaConfigs

SPECIFICATION Spec
INVARIANT NodeRequestMeansOptions
INVARIANT JavaRequestMeansConfiguration
PROPERTY CreationCompletes
CHECK_DEADLOCK FALSE
