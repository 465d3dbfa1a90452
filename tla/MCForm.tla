------------------------------- MODULE MCForm -------------------------------
(* Instances of FormEngine for TLC. *)
EXTENDS FormEngine, MCChyron

\* Fields: a date as wide as it is displayed and one shorter than its digits, and a time
\* as wide as its digits.
Str == [ff |-> "string", len |-> 2]
Dec == [ff |-> "decimal_int", len |-> 2]
Hex == [ff |-> "hex_int", len |-> 2]
WideDate == [ff |-> "yyyymmdd", len |-> 10]
ShortDate == [ff |-> "yyyymmdd", len |-> 7]
Time == [ff |-> "hhmmss", len |-> 6]

\* 29 February of a year with 28 days in it and of a leap year; the last second of a day
\* and the first one after it; numbers that fit and one that does not.
MCTyped == [ff \in Format |->
    CASE ff = "string" -> {Blank, 5}
      [] ff = "decimal_int" -> {Blank, 712}
      [] ff = "hex_int" -> {Blank, 10}
      [] ff = "yyyymmdd" -> {20240229, 20250229}
      [] ff = "hhmmss" -> {235959, 240000}]

MCMax == 3

Fields(s) == [i \in 0..(MCMax - 1) |-> IF i < Len(s) THEN s[i + 1] ELSE Unused]

MCForm ==
    { [fcnt |-> Len(s), field |-> Fields(s), directive |-> d, provider |-> d, in_spec |-> r,
       receiver |-> r, erase |-> r, out |-> o, f_out_spec |-> d /\ o # "none"] :
        s \in {<<>>, <<Str, WideDate>>, <<Hex, Dec>>, <<Time>>, <<ShortDate>>},
        d \in BOOLEAN, r \in BOOLEAN, o \in {"none", "file", "stdout"} }
=============================================================================
