SPECIFICATION Spec
CONSTANTS
    Wild = wild
    NoMark = nomark
    Blank = blank
    File = {"five"}
    Ends <- SomeEnds
    Size <- SomeSize
    PadCols = 4
    LineTblIncr = 8
    ScrollLines = 2
    Count = {1}
    Percent = {50}
    PromptHasRoom <- SomeRoom
INVARIANT RowsFollow
