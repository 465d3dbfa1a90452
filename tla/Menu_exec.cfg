SPECIFICATION Spec
CONSTANTS
    Surface <- MCSurface
    MaxWin = 3
    MaxFrames = 2
    Command <- MCCommand
PROPERTY WindowsRestored
CHECK_DEADLOCK FALSE
