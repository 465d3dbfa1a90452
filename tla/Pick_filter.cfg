SPECIFICATION Spec
CONSTANTS
    NullObject = null
    NoText = notext
    ObjMaxCnt = 16
    Input = 4
    PickLines = 4
    TblMaxCols = 1
    UIntMax = 65535
    Text = {"even", "rest"}
    Match <- TwoTexts
    SelectMax = 2
    OutSpec = FALSE
    Command = "percent"
    MaxArgs = 9
    Joinable <- ThreeJoined
    ViewFiles = TRUE
    Pointer <- Nowhere
INVARIANTS ProcessesChosen
