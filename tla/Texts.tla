------------------------------- MODULE Texts -------------------------------
(***************************************************************************)
(* The text functions of C-Menu (src/src/futil.c) as operators on sequences *)
(* of characters; a character is a string of length one.  What a function   *)
(* writes into its destination is the value of the operator.                *)
(***************************************************************************)
EXTENDS Integers, Sequences, SequencesExt, FiniteSetsExt

Newline == {"\n", "\r"}
SmallLetters == <<"a", "b">>
Capitals == <<"A", "B">>
Digits == {"0", "1", "9"}
HexDigits == Digits \cup {"a", "b", "A", "B"}
Slashes == {"/", "\\"}
Escape == "ESC"
Beyond == "HIGH"        \* any byte above 127

\* The places of s whose character is in C, with none where there is no such place.
Where(s, C) == {i \in DOMAIN s : s[i] \in C}
FirstPlace(s, C, none) == Min(Where(s, C) \cup {none})
LastPlace(s, C) == Max(Where(s, C) \cup {0})

Before(s, i) == SubSeq(s, 1, i - 1)
Behind(s, i) == SubSeq(s, i + 1, Len(s))
Prefix(s, n) == SubSeq(s, 1, Min({n, Len(s)}))
Without(s, C) == SelectSeq(s, LAMBDA c : c \notin C)
Each(s, F(_)) == [i \in DOMAIN s |-> F(s[i])]
Repeat(c, n) == [i \in 1..n |-> c]

-----------------------------------------------------------------------------
(* Copying within bounds. *)

strz(s) == Before(s, FirstPlace(s, Newline, Len(s) + 1))

strnz__cpy(s, max_len) == Prefix(strz(s), max_len)

strnz__cat(d, s, max_len) ==
    IF max_len = 0 THEN d
    ELSE strnz__cpy(d, max_len) \o strnz__cpy(s, max_len - Len(strnz__cpy(d, max_len)))

strnz(s, max_len) == IF max_len = 0 THEN s ELSE strnz__cpy(s, max_len)

strnlf(s, max_len) == IF s = <<>> \/ max_len = 0 THEN s ELSE Append(strnz__cpy(s, max_len), "\n")

\* fill_field
fill_field(s, c, flen) == Prefix(s, flen) \o Repeat(c, flen - Len(Prefix(s, flen)))

-----------------------------------------------------------------------------
(* Blanks and quotes. *)

rtrim(s) == SubSeq(s, 1, Max({i \in DOMAIN s : s[i] # " "} \cup {0}))

trim(s) == rtrim(SubSeq(s, Min({i \in DOMAIN s : s[i] # " "} \cup {Len(s) + 1}), Len(s)))

\* The text in the last columns of a field; the caller has room for fl characters.
right_justify(s, fl) == Repeat(" ", fl - Len(trim(s))) \o trim(s)

\* Only the end is asked for a quote.
strip_quotes(s) ==
    IF Len(s) > 1 /\ Last(s) = "\"" THEN SubSeq(s, 2, Len(s) - 1) ELSE s

stripz_quotes(s) ==
    IF Len(s) > 1 /\ Head(s) = "\"" /\ Last(s) = "\"" THEN SubSeq(s, 2, Len(s) - 1) ELSE s

chrep(s, old, new) == ReplaceAll(s, old, new)

Mapped(c, from, to) ==
    IF \E i \in DOMAIN from : from[i] = c
    THEN to[CHOOSE i \in DOMAIN from : from[i] = c] ELSE c

str_to_lower(s) == Each(s, LAMBDA c : Mapped(c, Capitals, SmallLetters))
str_to_upper(s) == Each(s, LAMBDA c : Mapped(c, SmallLetters, Capitals))

\* numeric
numeric(s) == SelectSeq(s, LAMBDA c : c \in Digits \cup {"-", "."})

is_hex_str(s, len) == s # <<>> /\ Len(s) = len /\ ToSet(s) \subseteq HexDigits

\* '#' and six digits; what follows them is not read.
unstr_hex_clr(s) ==
    Len(s) >= 7 /\ Head(s) = "#" /\ \A i \in 2..7 : s[i] \in HexDigits

str_to_bool(s) ==
    /\ s # <<>>
    /\ \/ Head(s) \in {"t", "T", "y", "Y", "1"}
       \/ Head(s) \in {"o", "O"} /\ Len(s) > 1 /\ s[2] \in {"n", "N"}

-----------------------------------------------------------------------------
(* Replacing. *)

\* str_subc: what replaces the character is used up by its first occurrence.
str_subc(s, c, with, l) ==
    LET i == FirstPlace(s, {c}, Len(s) + 1)
    IN  Prefix(Before(s, i) \o (IF i > Len(s) THEN <<>> ELSE with) \o Without(Behind(s, i), {c}), l)

OccursAt(t, s, i) == i + Len(t) - 1 <= Len(s) /\ SubSeq(s, i, i + Len(t) - 1) = t
Occurs(t, s) == \E i \in DOMAIN s : OccursAt(t, s, i)

\* rep_substring, of texts of one line.
Null == <<"NULL">>

rep_substring(org, tgt, rep) ==
    LET from[i \in 1..(Len(org) + 1)] ==
            IF i > Len(org) THEN <<>>
            ELSE IF OccursAt(tgt, org, i) THEN rep \o from[i + Len(tgt)]
            ELSE <<org[i]>> \o from[i + 1]
    IN  IF <<>> \in {org, tgt, rep} THEN Null
        ELSE IF ~Occurs(tgt, org) THEN org
        ELSE IF Occurs(tgt, rep) THEN Null
        ELSE from[1]

\* strip_ansi: an escape takes everything up to the next 'm' or 'K' with it.
strip_ansi(s) ==
    LET from[i \in 1..(Len(s) + 1)] ==
            LET rest == SubSeq(s, i, Len(s))
            IN  IF i > Len(s) THEN <<>>
                ELSE IF s[i] = Escape
                THEN LET n == FirstPlace(rest, {"m", "K"}, Len(rest)) IN from[i + n]
                ELSE IF s[i] = Beyond THEN from[i + 1]
                ELSE <<s[i]>> \o from[i + 1]
    IN  from[1]

-----------------------------------------------------------------------------
(* Arguments of a command. *)

Blanks == {" ", "\t"} \cup Newline

\* The end of a quoted argument that begins behind place i: a quote with no backslash
\* in front of it.
QuoteEnd(s, i) ==
    Min({j \in i..Len(s) : s[j] = "\"" /\ ~(j > i /\ s[j - 1] = "\\")} \cup {Len(s) + 1})

\* A quote behind a backslash stands for itself.
Unescaped(s) ==
    LET kept == {i \in DOMAIN s : ~(s[i] = "\\" /\ i < Len(s) /\ s[i + 1] = "\"")}
    IN  [k \in 1..Cardinality(kept) |-> s[CHOOSE i \in kept : Cardinality({j \in kept : j <= i}) = k]]

\* str_to_args: each argument, and the place behind it.
Argument(s, i) ==
    IF s[i] = "\""
    THEN LET e == QuoteEnd(s, i + 1) IN [text |-> Unescaped(SubSeq(s, i + 1, e - 1)), next |-> e + 1]
    ELSE LET e == Min({j \in i..Len(s) : s[j] \in Blanks} \cup {Len(s) + 1})
         IN  [text |-> SubSeq(s, i, e - 1), next |-> e + 1]

str_to_args(s, max_args) ==
    LET from[i \in 1..(Len(s) + 2), n \in 0..max_args] ==
            LET starts == {j \in i..Len(s) : s[j] \notin Blanks}
            IN  IF starts = {} \/ n = 0 THEN <<>>
                ELSE LET a == Argument(s, Min(starts))
                     IN  <<a.text>> \o from[a.next, n - 1]
    IN  from[1, max_args]

-----------------------------------------------------------------------------
(* Names of files. *)

base_name(path) == Behind(path, LastPlace(path, Slashes))

\* Neither loop looks at the first character.
dir_name(path) ==
    LET i == Max({j \in Where(path, Slashes) : j > 1} \cup {0})
        cut == Before(path, i)
        kept == Max({j \in DOMAIN cut : j = 1 \/ cut[j] \notin Slashes} \cup {0})
    IN  IF i = 0 THEN path ELSE SubSeq(cut, 1, kept)

file_spec_name(fs) == Behind(fs, LastPlace(fs, {"/"}))
normalize_file_spec(fs) == chrep(fs, "\\", "/")

\* The last period ends the name; a text without one, or with no name in front of it,
\* has no extension to lose.
trim_ext(filename) ==
    LET i == LastPlace(filename, {"."}) IN IF i = 0 THEN filename ELSE Before(filename, i)

\* A path ends with a blank that is not its first character, and loses the slashes at
\* its end; the character in front of the blank is not looked at.
trim_path(dir) ==
    LET blanks == {i \in Where(dir, {" ", "\t", "\n"}) : i > 1}
        cut == Before(dir, Min(blanks \cup {Len(dir) + 1}))
        last == IF blanks = {} THEN Len(cut) ELSE Len(cut) - 1
        kept == Max({i \in 1..last : i = 1 \/ cut[i] # "/" \/ cut[i - 1] = "~"} \cup {0})
    IN  IF kept = last THEN cut ELSE SubSeq(cut, 1, kept)

\* The specification up to a blank, without its quotes.
canonicalize_file_spec(spec) ==
    Without(Before(spec, FirstPlace(spec, {" "}, Len(spec) + 1)), {"\"", "'"})

\* The home directory for every "~/" of the path.
expand_tilde(path, home) ==
    LET full == rep_substring(path, <<"~", "/">>, Append(home, "/"))
    IN  IF full = Null THEN <<>> ELSE full

\* file_spec_path reads the path it is to write and writes over the specification.
file_spec_path(fp, fs) ==
    LET copied == fp \o Behind(fs, Len(fp))
        i == LastPlace(fp, {"/"})
    IN  IF fs = <<>> THEN [fp |-> <<>>, fs |-> fs]
        ELSE IF i = 0 THEN [fp |-> <<>>, fs |-> copied]
        ELSE [fp |-> fp, fs |-> Before(copied, i)]

-----------------------------------------------------------------------------
(* struct String: the memory and the text in it.  Capacity counts the terminator. *)

to_string(s) == [l |-> Len(s) + 1, s |-> s]
mk_string(l) == [l |-> IF l = 0 THEN 0 ELSE l + 1, s |-> <<>>]
Holding(dest, s) == [l |-> Max({dest.l, Len(s) + 1}), s |-> s]
string_cpy(dest, src) == [l |-> Max({dest.l, src.l}), s |-> src.s]
string_cat(dest, src) == Holding(dest, dest.s \o src.s)
string_ncat(dest, src, n) == Holding(dest, dest.s \o Prefix(src.s, n))
string_ncpy(dest, src, n) == Holding(dest, Prefix(src.s, n))

-----------------------------------------------------------------------------
(* Dates and times. *)

Leap(yyyy) == (yyyy % 4 = 0 /\ yyyy % 100 # 0) \/ yyyy % 400 = 0

DaysInMonth(yyyy, mm) ==
    IF mm = 2 THEN IF Leap(yyyy) THEN 29 ELSE 28
    ELSE IF mm \in {4, 6, 9, 11} THEN 30 ELSE 31

is_valid_date(yyyy, mm, dd) == yyyy >= 1 /\ mm \in 1..12 /\ dd \in 1..DaysInMonth(yyyy, mm)
is_valid_time(hh, mm, ss) == hh \in 0..23 /\ mm \in 0..59 /\ ss \in 0..59

\* a_to_ul: a number and the unit behind it, as a number and the power of two it counts.
a_to_ul(n, unit) ==
    <<n, CASE unit \in {"g", "G"} -> 30
           [] unit \in {"m", "M"} -> 20
           [] unit \in {"k", "K"} -> 10
           [] OTHER -> 0>>
=============================================================================
