------------------------------ MODULE MCSearch ------------------------------
(* Two small files; one character, which some lines contain, and the space. *)
EXTENDS ViewSearch, MCLineFormat, MCViewInput

SomeEnds == [f \in File |-> CASE f = "few" -> <<2, 3>> [] f = "odd" -> <<1>>]
SomeSize == [f \in File |-> CASE f = "few" -> 3 [] f = "odd" -> 5]
SomeRoom == [f \in File |-> TRUE]

SomeInvalid == {<<"x", "x">>, <<"x", " ">>}

SomeFinds(pattern, f, pos) ==
    \/ pattern = <<"x">> /\ pos = 2
    \/ pattern = <<" ", "x">> /\ pos = 0
=============================================================================
