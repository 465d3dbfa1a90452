SPECIFICATION Spec
CONSTANTS
    Blank = Blank
    NotRun = NotRun
    Untouched = Untouched
    FIELD_MAXCNT <- MCMax
    Typed <- MCTyped
    Form <- MCForm
INVARIANTS
    TypeOK
    CursorInForm
    ScreenTrue
    SavedIsFinal
    CancelLeaves
PROPERTIES
    Responds
CHECK_DEADLOCK FALSE
