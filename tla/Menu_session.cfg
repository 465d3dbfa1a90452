SPECIFICATION Spec
CONSTANTS
    Surface <- MCSurface
    MaxWin = 3
    MaxFrames = 4
    Command <- MCCommand
INVARIANTS TypeOK SurfaceStack CountsRight EndsKnown ExitRestores
PROPERTY ImplementsStack
CHECK_DEADLOCK FALSE
