------------------------------ MODULE ViewFile ------------------------------
(***************************************************************************)
(* A file as C-Menu View reads it (src/src/view_engine.c): a mapped buffer  *)
(* known by where its lines end.  Positions are offsets into the buffer;    *)
(* the end of a line is the position behind its newline.  What follows the  *)
(* last newline is a line without an end.                                   *)
(***************************************************************************)
EXTENDS Integers, Sequences

CONSTANTS
    File,           \* the files View is given
    Ends,           \* Ends[f]: where the lines of f end, in order
    Size,           \* Size[f]: file_size
    PadCols,        \* PAD_COLS: get_line takes at most so many characters
    LineTblIncr,    \* LINE_TBL_INCR
    Wild            \* what is read outside of the line table

ASSUME FileAssumption ==
    /\ Size \in [File -> Nat \ {0}]
    /\ Ends \in [File -> Seq(Nat \ {0})]
    /\ \A f \in File : \A i, j \in 1..Len(Ends[f]) : i < j => Ends[f][i] < Ends[f][j]
    /\ \A f \in File : \A i \in 1..Len(Ends[f]) : Ends[f][i] <= Size[f]
    /\ PadCols \in Nat
    /\ LineTblIncr \in Nat /\ LineTblIncr > 1
    /\ Wild \notin Int

Line(f) == 0..Len(Ends[f])
LineStart(f, i) == IF i = 0 THEN 0 ELSE Ends[f][i]

EndsAfter(f, pos) == {i \in 1..Len(Ends[f]) : Ends[f][i] > pos}
HasEnd(f, pos) == EndsAfter(f, pos) # {}

\* Where the line that is read from pos ends.
NextEnd(f, pos) ==
    LET i == CHOOSE i \in EndsAfter(f, pos) : \A j \in EndsAfter(f, pos) : i <= j
    IN  Ends[f][i]

\* get_line stops behind PadCols characters, without having seen the newline ...
TooLong(f, pos) ==
    IF HasEnd(f, pos) THEN NextEnd(f, pos) - pos - 1 > PadCols
    ELSE Size[f] - pos > PadCols

\* ... and takes a line without an end for the end of the data.
AtEod(f, pos) == ~HasEnd(f, pos) /\ ~TooLong(f, pos)
=============================================================================
