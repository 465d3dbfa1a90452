------------------------------- MODULE MCView -------------------------------
(***************************************************************************)
(* Small instances of ViewEngine: a file of five lines, the table of which  *)
(* must grow, one with a long line and an unterminated one at the end, one  *)
(* without any newline, and one of a single line.                           *)
(***************************************************************************)
EXTENDS ViewEngine

SomeEnds == [f \in File |-> CASE f = "five" -> <<2, 3, 6, 8, 9>>
                              [] f = "long" -> <<2, 9, 11>>
                              [] f = "bare" -> <<>>
                              [] f = "one" -> <<2>>]
SomeSize == [f \in File |-> CASE f = "five" -> 9
                              [] f = "long" -> 12
                              [] f = "bare" -> 3
                              [] f = "one" -> 2]
SomeRoom == [f \in File |-> f # "long"]
=============================================================================
