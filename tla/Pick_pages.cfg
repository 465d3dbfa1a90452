SPECIFICATION Spec
CONSTANTS
    NullObject = null
    NoText = notext
    ObjMaxCnt = 16
    Input = 7
    PickLines = 3
    TblMaxCols = 1
    UIntMax = 65535
    Text = {}
    Match <- NoMatches
    SelectMax = 3
    OutSpec = FALSE
    Command = "percent"
    MaxArgs = 9
    Joinable <- ThreeJoined
    ViewFiles = TRUE
    Pointer <- Nowhere
INVARIANTS ProcessesChosen SelectLimit ViewFollows KeysMove
