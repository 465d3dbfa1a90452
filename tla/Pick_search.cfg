SPECIFICATION Spec
CONSTANTS
    NullObject = null
    NoText = notext
    ObjMaxCnt = 16
    Input = 4
    PickLines = 4
    TblMaxCols = 1
    UIntMax = 65535
    Text = {"even", "rest"}
    Match <- TwoTexts
    SelectMax = 0
    OutSpec = TRUE
    Command = "plain"
    MaxArgs = 9
    Joinable <- ThreeJoined
    ViewFiles = TRUE
    Pointer <- OverAndBeside
INVARIANTS TypeOK CursorOnPage FilterShown
