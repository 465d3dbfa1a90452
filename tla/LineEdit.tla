------------------------------ MODULE LineEdit ------------------------------
(***************************************************************************)
(* The two editors of the pager's command line: cf_accept                   *)
(* (src/src/cm_fields.c), which edits the argument of a command in a buffer *)
(* with a terminator, and the digits that get_cmd_char                      *)
(* (src/src/view_engine.c) collects in front of a command.                  *)
(***************************************************************************)
EXTENDS Integers, Sequences, SequencesExt

CONSTANTS
    Char,           \* the printable characters, without the space
    Space,
    Nul,            \* the terminator of a text
    BufferLen,      \* MAXLEN - 1: the last place of the buffer
    FieldLens,      \* flen: the columns that a window may leave beside a prompt
    Digit,          \* the digits in use
    MaxDigits       \* digits that get_cmd_char takes

ASSUME EditAssumption ==
    /\ Space \notin Char /\ Nul \notin Char \cup {Space}
    /\ FieldLens \subseteq Nat \ {0} /\ BufferLen \in Nat
    /\ Digit \subseteq 0..9
    /\ MaxDigits \in Nat \ {0}

Place == 0..BufferLen
Buffers == [Place -> Char \cup {Space, Nul}]

-----------------------------------------------------------------------------
(* cf_accept.  An editor has the buffer, the place of the cursor, where it    *)
(* takes the text to end, whether it inserts, and the length of its field,    *)
(* which nobody compares with that of the buffer.                             *)

\* A loop over the text from place i ends in the buffer.
EndsBehind(buf, i) == \E z \in Place : z >= i /\ buf[z] = Nul

\* The terminator that a loop over the text from place i runs into.
Terminator(buf, i) ==
    CHOOSE z \in Place : z >= i /\ buf[z] = Nul
                         /\ \A y \in Place : y >= i /\ buf[y] = Nul => z <= y

\* The text as ui_mvwaddstr and the caller see it.
Text(buf) == [i \in 1..Terminator(buf, 0) |-> buf[i - 1]]

Editing(buf, flen) ==
    [buf |-> buf, p |-> 0, end |-> Terminator(buf, 0), insert |-> FALSE, flen |-> flen]

\* The characters behind place i move down by one, up to the next terminator behind i;
\* what is cut out may be a terminator.
CutOut(ed, i) ==
    LET z == Terminator(ed.buf, i + 1)
    IN  [ed EXCEPT !.buf = [j \in Place |-> IF j \in i..(z - 2) THEN ed.buf[j + 1]
                                            ELSE IF j = z - 1 THEN Nul ELSE ed.buf[j]],
                   !.end = z - 1]

\* A character in insert mode: the text moves up, without its terminator.
Insert(ed, c) ==
    IF ed.end >= ed.flen THEN ed
    ELSE [ed EXCEPT !.buf = [j \in Place |-> IF j = ed.p THEN c
                                             ELSE IF j \in (ed.p + 1)..ed.end
                                             THEN ed.buf[j - 1] ELSE ed.buf[j]],
                    !.p = @ + 1, !.end = @ + 1]

\* A character over another one; a space over the first one cuts it out.
Overwrite(ed, c) ==
    IF ed.p = 0 /\ c = Space THEN [ed EXCEPT !.buf = CutOut(ed, 0).buf]
    ELSE [ed EXCEPT !.buf[ed.p] = c, !.p = @ + 1]

AtEnd(ed, c) ==
    [ed EXCEPT !.buf = [j \in Place |-> IF j = ed.p THEN c
                                        ELSE IF j = ed.p + 1 THEN Nul ELSE ed.buf[j]],
               !.p = @ + 1, !.end = ed.p + 1]

\* Mutant: the field is full one character later.
Typed_OneMore(ed, c) ==
    IF ed.p > ed.flen THEN ed
    ELSE IF ed.insert THEN Insert(ed, c)
    ELSE IF ed.p < ed.end THEN Overwrite(ed, c)
    ELSE IF ed.p = ed.end THEN AtEnd(ed, c) ELSE ed

Typed(ed, c) ==
    IF ed.p >= ed.flen THEN ed
    ELSE IF ed.insert THEN Insert(ed, c)
    ELSE IF ed.p < ed.end THEN Overwrite(ed, c)
    ELSE IF ed.p = ed.end THEN AtEnd(ed, c) ELSE ed

Backspace(ed) ==
    LET at == IF ed.p > 0 THEN ed.p - 1 ELSE ed.p
    IN  [CutOut(ed, at) EXCEPT !.p = at]

Delete(ed) == [CutOut(ed, ed.p) EXCEPT !.insert = FALSE]

EditKey == {"end", "home", "insert", "delete", "backspace", "left", "right"}

Edited(ed, k) ==
    CASE k = "end"       -> [ed EXCEPT !.p = Terminator(ed.buf, ed.p)]
      [] k = "home"      -> [ed EXCEPT !.p = 0]
      [] k = "insert"    -> [ed EXCEPT !.insert = ~@]
      [] k = "delete"    -> Delete(ed)
      [] k = "backspace" -> Backspace(ed)
      [] k = "left"      -> [ed EXCEPT !.p = IF @ > 0 THEN @ - 1 ELSE @]
      [] k = "right"     -> [ed EXCEPT !.p = IF @ < ed.flen /\ @ < ed.end THEN @ + 1 ELSE @]

\* Where the key k, and a space over the first character, begin to look for the end of
\* the text; the others do not.
LooksFrom(ed, k) ==
    CASE k = "end" -> ed.p
      [] k = "delete" -> ed.p + 1
      [] k = "backspace" -> IF ed.p > 0 THEN ed.p ELSE 1
      [] OTHER -> 0

TypedFrom(ed, c) == IF ~ed.insert /\ ed.p = 0 /\ ed.p < ed.end /\ c = Space THEN 1 ELSE 0

\* What a key leads to is in the buffer: the cursor, the place it takes for the end, and an
\* end for the display to find.
InBuffer(ed) == ed.p \in Place /\ ed.end \in Place /\ EndsBehind(ed.buf, 0)

\* KEY_ENTER: the text ends at the cursor (f_erase_remainder).
Accepted(ed) == [ed.buf EXCEPT ![ed.p] = Nul]

-----------------------------------------------------------------------------
(* get_cmd_char: the digits typed and the place among them.                   *)

NoDigits == [digits |-> <<>>, at |-> 0]

\* A digit is the last one from now on.
TypeDigit(num, d) ==
    [digits |-> Append(SubSeq(num.digits, 1, num.at), d), at |-> num.at + 1]

DigitKey == {"backspace", "delete", "sright", "sleft"}

DigitEdited(num, k) ==
    CASE k = "backspace" -> IF num.at = 0 THEN num
                            ELSE [digits |-> RemoveAt(num.digits, num.at), at |-> num.at - 1]
      [] k = "delete"    -> IF num.at >= Len(num.digits) THEN num
                            ELSE [num EXCEPT !.digits = RemoveAt(@, num.at + 1)]
      [] k = "sright"    -> [num EXCEPT !.at = IF @ < Len(num.digits) THEN @ + 1 ELSE @]
      [] k = "sleft"     -> [num EXCEPT !.at = IF @ > 0 THEN @ - 1 ELSE @]

\* atol
NumberOf(num) == FoldLeft(LAMBDA n, d : 10 * n + d, 0, num.digits)
=============================================================================
