----------------------------- MODULE PopupStack -----------------------------
(***************************************************************************)
(* What popups promise: they are opened and closed like a stack, and while  *)
(* one is open the program's pointer to the structure of its kind is the    *)
(* innermost one, whatever was opened and closed on the way.                *)
(***************************************************************************)
EXTENDS Naturals, Sequences, SequencesExt

CONSTANTS Kind, Null, Id

VARIABLES
    open,       \* the open popups, each the structures it holds by their kind
    current     \* the structure of each kind the program works on

vars == <<open, current>>

\* A popup without a structure of a kind holds Null of it.
Popup == [Kind -> Id \cup {Null}]

\* The structure of kind k of the innermost popup that has one.
Innermost(s, k) ==
    LET having == {i \in DOMAIN s : s[i][k] # Null}
    IN  IF having = {} THEN Null
        ELSE s[CHOOSE i \in having : \A j \in having : j <= i][k]

Follows == current' = [k \in Kind |-> Innermost(open', k)]

\* One step may open a popup and the message about its failure, and close a popup
\* and the one that only waited for it.
AtOnce == 1 .. 2

Init ==
    /\ open \in Seq(Popup) /\ Len(open) \in {0} \cup AtOnce
    /\ current = [k \in Kind |-> Innermost(open, k)]

Open(n) ==
    /\ open' \in Seq(Popup)
    /\ Len(open') = Len(open) + n /\ SubSeq(open', 1, Len(open)) = open
    /\ Follows

Close(n) == Len(open) >= n /\ open' = SubSeq(open, 1, Len(open) - n) /\ Follows

Next == \E n \in AtOnce : Open(n) \/ Close(n)

Spec == Init /\ [][Next]_vars
=============================================================================
