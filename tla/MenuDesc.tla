------------------------------ MODULE MenuDesc ------------------------------
(***************************************************************************)
(* A menu: the lines parse_menu_desc.c makes of a description file, the     *)
(* letters it gives them, and the cursor of menu_engine.c.  Characters are  *)
(* their codes: Blank .. Final are the printing ones, from First on those   *)
(* the parser falls back to, and what is above Final is a byte of a longer  *)
(* character.                                                               *)
(***************************************************************************)
EXTENDS Naturals, Sequences, FiniteSets, SequencesExt

CONSTANTS
    Blank, First, Final,    \* ' ', '0' and the code 126
    Quit,                   \* 'q'
    Designator,             \* '-' and '_', which ask for the letter after them
    MaxMenuLines            \* MAX_MENU_LINES, the size of menu->line

NoLetter == 0

ASSUME MenuDescAssumption ==
    /\ Blank \in Nat \ {NoLetter} /\ First \in Nat /\ Final \in Nat
    /\ Blank < First /\ Quit \in First .. Final
    /\ Designator \subseteq Blank + 1 .. First - 1
    /\ MaxMenuLines \in Nat \ {0}

\* The control characters before the blank are taken from the start, like the letter that
\* quits.
EmptyMenu ==
    [line |-> <<>>, title |-> FALSE, choices |-> 0, commands |-> 0,
     fltr |-> (0 .. Blank - 1) \cup {Quit}, line_idx |-> 1]

Last1(m) == m.line[Len(m.line)]

-----------------------------------------------------------------------------
(* Reading. *)

\* The letter a text asks for, and the text without the request.
Asked(text) ==
    IF Head(text) \in Designator /\ text[2] \in Blank .. Final THEN text[2] ELSE NoLetter
Rest(text) == IF Head(text) \in Designator THEN SubSeq(text, 3, Len(text)) ELSE text

\* ':' once the title is set; the array is not checked.
TextLine(m, text) ==
    [m EXCEPT !.choices = @ + 1,
              !.line = Append(@, [type |-> "text", raw_text |-> text,
                                  choice_letter |-> NoLetter, letter_pos |-> 0,
                                  command |-> "null"])]

\* Mutant: a letter that is asked for is not reserved.
Command_NotReserved(m, cmd) ==
    [m EXCEPT !.commands = @ + 1,
              !.line[Len(m.line)].command = cmd, !.line[Len(m.line)].type = "choice",
              !.line[Len(m.line)].choice_letter = Asked(Last1(m).raw_text)]

\* '!' after a text: the line becomes a choice, whose letter is reserved unless
\* it is taken; after anything else it says nothing.
Command(m, cmd) ==
    LET ltr == Asked(Last1(m).raw_text)
        n == Len(m.line)
        reserves == ltr # NoLetter /\ ltr \notin m.fltr
    IN  IF m.line = <<>> \/ Last1(m).type # "text" THEN m
        ELSE [m EXCEPT !.commands = @ + 1,
                       !.line[n].command = cmd, !.line[n].type = "choice",
                       !.line[n].choice_letter = IF reserves THEN ltr ELSE NoLetter,
                       !.fltr = IF reserves THEN @ \cup {ltr} ELSE @]

-----------------------------------------------------------------------------
(* Letters, one line after the other. *)

\* The places of the text that can give the letter of line i.  The table of letters
\* is read past its end for a byte above Final, and any value may be there.
Places(m, i) ==
    LET s == Rest(m.line[i].raw_text)
        Free(k) == s[k] # Blank /\ s[k] \notin m.fltr
    IN  {k \in DOMAIN s : /\ Free(k) \/ s[k] > Final
                          /\ \A j \in 1 .. k - 1 : s[j] > Final \/ ~Free(j)}

\* Bytes above Final may all be taken for used.
NoPlace(m, i) ==
    LET s == Rest(m.line[i].raw_text)
    IN  \A k \in DOMAIN s : s[k] = Blank \/ s[k] \in m.fltr \/ s[k] > Final

\* The text of the window is " x - " and the rest; x is the letter.
PosOf(k) == 4 + k

Lettered(m, i, ltr, pos) ==
    [m EXCEPT !.line[i].choice_letter = ltr, !.line[i].letter_pos = pos,
              !.fltr = @ \cup {ltr}]

Picked(m, i, k) == Lettered(m, i, Rest(m.line[i].raw_text)[k], PosOf(k))

\* The letter that was asked for, shown where the text has it.
Reserved(m, i) ==
    LET s == Rest(m.line[i].raw_text)
        ltr == m.line[i].choice_letter
        has == {k \in DOMAIN s : s[k] = ltr}
    IN  Lettered(m, i, ltr,
                 IF has = {} THEN 1
                 ELSE PosOf(CHOOSE k \in has : \A j \in has : k <= j))

Unused(m) == First .. Final \ m.fltr

\* A text that gives no letter gets the first that is free.
FallBack(m, i) ==
    Lettered(m, i, CHOOSE c \in Unused(m) : \A d \in Unused(m) : c <= d, 1)

-----------------------------------------------------------------------------
(* The cursor: lines count from 1 here, from 0 in the code. *)

IsChoice(m, i) == m.line[i].type = "choice"

\* MA_RESET_MENU
ResetMenu(m) ==
    LET choice == {i \in DOMAIN m.line : IsChoice(m, i)}
    IN  [m EXCEPT !.line_idx =
             IF choice = {} THEN 1 ELSE CHOOSE i \in choice : \A j \in choice : i <= j]

\* KEY_UP, KEY_DOWN: the nearest choice before or after, if there is one.
Up(m) ==
    LET above == {i \in 1 .. m.line_idx - 1 : IsChoice(m, i)}
    IN  IF above = {} THEN m
        ELSE [m EXCEPT !.line_idx = CHOOSE i \in above : \A j \in above : j <= i]

\* Mutant: the last line is passed.
Down_PastEnd(m) == [m EXCEPT !.line_idx = @ + 1]

Down(m) ==
    LET below == {i \in m.line_idx + 1 .. Len(m.line) : IsChoice(m, i)}
    IN  IF below = {} THEN m
        ELSE [m EXCEPT !.line_idx = CHOOSE i \in below : \A j \in below : i <= j]

\* The lines whose letter is the low byte of the key; the first one runs.
WithLetter(m, byte) == {i \in DOMAIN m.line : m.line[i].choice_letter = byte}

ToLetter(m, byte) ==
    [m EXCEPT !.line_idx = CHOOSE i \in WithLetter(m, byte) :
                               \A j \in WithLetter(m, byte) : i <= j]
=============================================================================
