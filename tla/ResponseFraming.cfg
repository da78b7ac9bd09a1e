CONSTANTS
    Shapes <- MC_Shapes
    MaxFrames = 4

SPECIFICATION Spec

INVARIANT TypeOK
PROPERTY FramingImplementsChannel

CHECK_DEADLOCK FALSE
