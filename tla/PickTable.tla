----------------------------- MODULE PickTable -----------------------------
(***************************************************************************)
(* The object table of C-Menu Pick (src/src/pick_engine.c, include/pick.h): *)
(* the master list as it was read, the list that is displayed, the cursor   *)
(* and the table geometry, as pure operators on the table part of struct    *)
(* Pick.  An object is its index in the master list.  C unsigned arithmetic *)
(* wraps at UIntMax + 1.                                                    *)
(***************************************************************************)
EXTENDS Integers, FiniteSets

CONSTANTS
    ObjMaxCnt,      \* OBJ_MAXCNT: d_object has ObjMaxCnt + 1 slots
    Input,          \* number of lines on the input
    PickLines,      \* lines of the window before they are fitted to the list
    TblMaxCols,     \* columns that fit on the screen
    UIntMax,        \* the largest unsigned int, far above any index into the table
    NullObject      \* a null pointer in d_object

ASSUME TableAssumption ==
    /\ ObjMaxCnt \in Nat /\ ObjMaxCnt > 1
    /\ Input \in Nat \ {0}
    /\ PickLines \in Nat \ {0}
    /\ TblMaxCols \in Nat \ {0}
    /\ UIntMax \in Nat /\ UIntMax > 2 * ObjMaxCnt * TblMaxCols
    /\ NullObject \notin Nat

-----------------------------------------------------------------------------
(* What is read and how it is laid out. *)

\* save_object drops what does not fit into the master list.
MCnt == IF Input < ObjMaxCnt - 1 THEN Input ELSE ObjMaxCnt - 1
Object == 0..(MCnt - 1)
Slot == 0..ObjMaxCnt

\* Lines and columns of the table, from the full list.
Lines == IF MCnt <= PickLines THEN MCnt ELSE PickLines
TblCols ==
    IF MCnt <= PickLines THEN 1
    ELSE IF MCnt > PickLines * TblMaxCols THEN TblMaxCols
    ELSE MCnt \div PickLines

\* The table part of struct Pick.  fault records that a null or wild pointer of
\* d_object was drawn.
PickStruct ==
    [d_cnt : Nat, d_object : [Slot -> Object \cup {NullObject}], d_idx : Nat,
     tbl_page : Nat, tbl_line : Nat, tbl_col : Nat, tbl_lines : Nat,
     y_offset : Nat, fault : BOOLEAN]

-----------------------------------------------------------------------------
(* Cursor arithmetic. *)

Wrap(n) == n % (UIntMax + 1)
Dec(n) == IF n = 0 THEN UIntMax ELSE n - 1

PageBase(p) == Wrap(p.tbl_page * Lines * TblCols)
TblPages(p) == (p.tbl_lines + Lines - 1) \div Lines
Drawable(p, i) == i \in Slot /\ p.d_object[i] # NullObject

\* Where the page, the column and the line of the cursor are in d_object.
At(p, col, line) == Wrap(PageBase(p) + col * Lines + line)

\* Mutant: the index is not clamped to the list.
Place_NoClamp(p) ==
    LET line == (p.d_idx \div TblCols) % Lines
    IN  [p EXCEPT !.tbl_line = line, !.d_idx = At(p, p.tbl_col, line)]

\* remove_right_angle: clamp the index, find its line, index again from the line.
Place(p) ==
    LET i == IF p.d_idx >= p.d_cnt THEN Dec(p.d_cnt) ELSE p.d_idx
        line == (i \div TblCols) % Lines
    IN  [p EXCEPT !.tbl_line = line, !.d_idx = At(p, p.tbl_col, line)]

\* reverse_object, unreverse_object: the same, and draw the object.
Reverse(p) ==
    LET q == Place(p) IN [q EXCEPT !.fault = @ \/ ~Drawable(q, q.d_idx)]

\* display_pick_page: fill the columns while there are objects; the index is left
\* on the last one drawn, and short columns are scrolled to the bottom.
DisplayPage(p) ==
    LET base == PageBase(p)
        room == Lines * TblCols
        end == IF base >= p.d_cnt THEN base
               ELSE IF base + room <= p.d_cnt THEN base + room ELSE p.d_cnt
        left == p.d_cnt - base - (TblCols - 1) * Lines
        rows == IF left <= 0 THEN 0 ELSE IF left < Lines THEN left ELSE Lines
    IN  [p EXCEPT !.d_idx = Dec(end), !.tbl_lines = p.d_cnt,
                  !.y_offset = Lines - rows]

\* The i-th element of a set of numbers, from 0.
Nth(S, i) == CHOOSE x \in S : Cardinality({y \in S : y < x}) = i

\* match_objects: the objects of S in the order of the master list overwrite the
\* front of d_object; what was behind them stays.
MatchObjects(p, S) ==
    [p EXCEPT !.d_cnt = Cardinality(S), !.d_idx = Cardinality(S),
              !.d_object = [i \in Slot |-> IF i < Cardinality(S) THEN Nth(S, i) ELSE @[i]]]

\* The table when the list was copied and before anything was displayed.
FirstTable ==
    [d_cnt |-> MCnt, d_object |-> [i \in Slot |-> IF i < MCnt THEN i ELSE NullObject],
     d_idx |-> 0, tbl_page |-> 0, tbl_line |-> 0, tbl_col |-> 0, tbl_lines |-> MCnt,
     y_offset |-> 0, fault |-> FALSE]

-----------------------------------------------------------------------------
(* The cursor keys of picker(). *)

\* KEY_END
ToEnd(p) ==
    LET i == Dec(p.d_cnt)
        q == [p EXCEPT !.d_idx = i, !.tbl_page = i \div (Lines * TblCols),
                       !.tbl_line = (i \div TblCols) % Lines, !.tbl_col = i % TblCols]
    IN  IF q.tbl_page # p.tbl_page THEN DisplayPage(q) ELSE q

\* The cursor moves to a line or a column and is drawn again.
MoveTo(p, col, line) ==
    Reverse([p EXCEPT !.tbl_col = col, !.tbl_line = line, !.d_idx = At(p, col, line)])

LeftOf(p) ==
    IF p.tbl_col = 0 THEN p
    ELSE LET q == Reverse(p) IN MoveTo(q, q.tbl_col - 1, q.tbl_line)

RightOf(p) ==
    IF p.tbl_col = TblCols - 1 THEN p
    ELSE LET q == Reverse(p)
             more == At(q, q.tbl_col + 1, q.tbl_line) < Dec(q.d_cnt)
         IN  MoveTo(q, IF more /\ q.tbl_col < TblCols - 1 THEN q.tbl_col + 1 ELSE q.tbl_col,
                    q.tbl_line)

\* 'j' on the last line of the list leaves it for the line editor.
LeavesDown(p) == p.tbl_line = Dec(p.tbl_lines)

\* Mutant: the last line of the window is out of reach.
Below_OneShort(p) ==
    LET q == Reverse(p)
        more == At(q, q.tbl_col, q.tbl_line) < Dec(q.d_cnt) /\ q.tbl_line + 1 < Lines - 1
    IN  MoveTo(q, q.tbl_col, IF more THEN q.tbl_line + 1 ELSE q.tbl_line)

Below(p) ==
    LET q == Reverse(p)
        more == At(q, q.tbl_col, q.tbl_line) < Dec(q.d_cnt) /\ q.tbl_line < Lines - 1
    IN  MoveTo(q, q.tbl_col, IF more THEN q.tbl_line + 1 ELSE q.tbl_line)

Above(p) ==
    LET q == Reverse(p)
    IN  MoveTo(q, q.tbl_col, IF q.tbl_line > 0 THEN q.tbl_line - 1 ELSE 0)

\* Mutant: the page is turned but not displayed, so the old index stays.
NextPage_Stale(p) ==
    IF p.tbl_page < Dec(TblPages(p)) THEN [p EXCEPT !.tbl_page = @ + 1, !.tbl_col = 0]
    ELSE p

NextPage(p) ==
    IF TblPages(p) = 1 THEN p
    ELSE IF p.tbl_page < Dec(TblPages(p))
         THEN DisplayPage([p EXCEPT !.tbl_page = @ + 1, !.tbl_col = 0])
         ELSE DisplayPage(p)

PrevPage(p) ==
    IF TblPages(p) = 1 THEN p
    ELSE DisplayPage([p EXCEPT !.tbl_page = IF @ > 0 THEN @ - 1 ELSE @])

ToHome(p) == DisplayPage([p EXCEPT !.tbl_page = 0, !.tbl_line = 0, !.tbl_col = 0])
ToLastPage(p) == DisplayPage([p EXCEPT !.tbl_page = Dec(TblPages(p))])

\* KEY_MOUSE: a click the input layer did not turn into 0, at a line and column.
Pointed(p, y, col) ==
    LET q == [Reverse(p) EXCEPT !.tbl_col = col]
    IN  IF col >= TblCols THEN q ELSE [q EXCEPT !.d_idx = At(q, col, y)]
=============================================================================
