------------------------------- MODULE MCPick -------------------------------
(***************************************************************************)
(* Small instances of PickEngine: search texts and what they match.         *)
(***************************************************************************)
EXTENDS PickEngine

\* No search text is ever typed.
NoMatches == [t \in Text |-> {}]

\* One text for the even objects and one for all but the first, both with matches.
TwoTexts == [t \in Text |-> IF t = "even" THEN {o \in Object : o % 2 = 0} ELSE Object \ {0}]

\* The wheel over the column and beside it, on any line of a window of four.
OverAndBeside == (0..3) \X {0, 1}
Nowhere == {}

\* Three names fit into one argument, and no more.
ThreeJoined == {S \in SUBSET Object : Cardinality(S) <= 3}
=============================================================================
