SPECIFICATION SearchSpec
CONSTANTS
    Wild = wild
    NoMark = nomark
    Blank = blank
    File = {"few", "odd"}
    Ends <- SomeEnds
    Size <- SomeSize
    PadCols = 9
    LineTblIncr = 3
    ScrollLines = 2
    Count = {}
    Percent = {}
    PromptHasRoom <- SomeRoom
    Char = {"x"}
    Space = " "
    Nul = "nul"
    BufferLen = 2
    FieldLens = {1, 3}
    Digit = {1}
    MaxDigits = 1
    Invalid <- SomeInvalid
    Finds <- SomeFinds
    Other = other
INVARIANTS SearchTypeOK ArgumentInBuffer SearchRight
PROPERTIES SearchEnds
