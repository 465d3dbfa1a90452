SPECIFICATION Spec
CONSTANTS
    Wild = wild
    NoMark = nomark
    Blank = blank
    File = {"five", "long", "bare", "one"}
    Ends <- SomeEnds
    Size <- SomeSize
    PadCols = 4
    LineTblIncr = 4
    ScrollLines = 2
    Count = {1, 2, 5}
    Percent = {50}
    PromptHasRoom <- SomeRoom
INVARIANTS TypeOK TableRight RowsRight RowsAscend EofShown
PROPERTIES Responds
