----------------------------- MODULE FormFields -----------------------------
(***************************************************************************)
(* The field formats of C-Menu Form (src/src/fields.c): what formatting     *)
(* makes of the text of a field and which texts are refused.  A text is     *)
(* Blank or the number its digits spell; formats with a fraction (float,    *)
(* double, currency, apr) are left out.                                     *)
(***************************************************************************)
EXTENDS Integers, FiniteSetsExt

CONSTANT Blank      \* the empty string

ASSUME BlankAssumption == Blank \notin Int

Text == Nat \cup {Blank}
Format == {"string", "decimal_int", "hex_int", "yyyymmdd", "hhmmss"}

\* A field; len is the number of its columns in the window.
Field == [ff : Format, len : Nat]
Unused == [ff |-> "string", len |-> 0]    \* calloc

-----------------------------------------------------------------------------
\* sscanf "%d" of a text; nothing to convert leaves the zero the variable starts with.
Number(t) == IF t = Blank THEN 0 ELSE t

\* sscanf "%x" of the decimal digits of n, of which there are at most four.
HexNumber(n) ==
    4096 * (n \div 1000) + 256 * ((n \div 100) % 10) + 16 * ((n \div 10) % 10) + (n % 10)

\* Ten[k] is the first number with more than k digits; no number here has more than ten.
Ten == <<10, 100, 1000, 10000, 100000, 1000000, 10000000, 100000000, 1000000000>>
Tens == {1} \cup {Ten[k] : k \in 1..9}

\* strnz of a number that is a text: its first len digits.
Cut(n, len) ==
    IF len > 9 \/ n < Ten[len] THEN n
    ELSE n \div Min({d \in Tens : n \div d < Ten[len]} \cup {Ten[9]})

\* The first k columns of a part p of w digits.
Part(p, w, k) == IF k >= w THEN p ELSE IF k <= 0 THEN 0 ELSE p \div Ten[w - k]

IsDate(f) == f.ff \in {"yyyymmdd", "hhmmss"}
FirstPart(f) == IF f.ff = "yyyymmdd" THEN 4 ELSE 2     \* digits of the year or the hour
Digits(f) == FirstPart(f) + 4

\* strnz of a date or a time n with gap columns between its three parts: the parts that
\* sscanf finds in the f.len columns left, as one number; a part cut off is 0.
DateCut(f, n, gap) ==
    LET w == FirstPart(f)
    IN  10000 * Part(n \div 10000, w, f.len)
        + 100 * Part((n \div 100) % 100, 2, f.len - w - gap)
        + Part(n % 100, 2, f.len - w - 2 - 2 * gap)

\* A text typed into a field ends where the field ends.
InField(f, t) ==
    IF t = Blank \/ f.len = 0 THEN Blank
    ELSE IF IsDate(f) THEN DateCut(f, t, 0) ELSE Cut(t, f.len)

IsLeapYear(yyyy) == (yyyy % 4 = 0 /\ yyyy % 100 # 0) \/ yyyy % 400 = 0

DaysInMonth(yyyy, mm) ==
    IF mm = 2 THEN IF IsLeapYear(yyyy) THEN 29 ELSE 28
    ELSE IF mm \in {4, 6, 9, 11} THEN 30 ELSE 31

IsValidDate(n) ==
    LET yyyy == n \div 10000
        mm == (n \div 100) % 100
        dd == n % 100
    IN  yyyy >= 1 /\ mm \in 1..12 /\ dd \in 1..DaysInMonth(yyyy, mm)

IsValidTime(n) == n \div 10000 <= 23 /\ (n \div 100) % 100 <= 59 /\ n % 100 <= 59

\* The number n can be shown as the date or the time it stands for.
IsValid(f, n) == IF f.ff = "yyyymmdd" THEN IsValidDate(n) ELSE IsValidTime(n)

\* form_fmt_field: what accept_s becomes.
AcceptText(f, t) ==
    IF f.ff = "string" THEN InField(f, t)
    ELSE IF f.ff = "hex_int" THEN Cut(HexNumber(Number(t)), f.len)
    ELSE InField(f, Number(t))

\* form_fmt_field: what the field's columns show of display_s, which was old.  A date that
\* is not one leaves it alone; of one that is, written YYYY-MM-DD or HH:MM:SS, the field
\* may be too short to show all.  A hexadecimal number is displayed as such: its value is
\* what is kept here.
DisplayText(f, t, old) ==
    IF f.ff = "hex_int" THEN HexNumber(Number(t))
    ELSE IF ~ IsDate(f) THEN AcceptText(f, t)
    ELSE IF IsValid(f, Number(t)) THEN DateCut(f, Number(t), 1) ELSE old

\* form_validate_field: the number of the format is taken for the flags of the field, so
\* F_NOTBLANK is set for hexadecimal numbers, and its loop steps over one character that
\* is no blank.  Dates and times have that flag too and are never that short.
Refused(f, t) == f.ff = "hex_int" /\ t < 10
=============================================================================
