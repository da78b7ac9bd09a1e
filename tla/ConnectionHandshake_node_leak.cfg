CONSTANTS
    NodeOptions <- MC_NodeOptions
    JavaConfigs <- MC_JavaConfigs

SPECIFICATION Spec
INVARIANT NodeFailedCreateReleasesSocket
CHECK_DEADLOCK FALSE
