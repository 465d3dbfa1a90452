------------------------------ MODULE Chyron ------------------------------
(***************************************************************************)
(* The bar of function keys under a window (dwin.c): the keys a program     *)
(* has set, the text compiled from those it shows, and the key code a click *)
(* on a column of the text stands for.  A text is its number of columns, 0  *)
(* when the key is not set.                                                 *)
(***************************************************************************)
EXTENDS Integers, Sequences, SequencesExt, FiniteSetsExt

CHYRON_KEYS == 20
CHYRON_KEY_MAXLEN == 64
BarKey == 0..(CHYRON_KEYS - 1)

NoKey == [text |-> 0, keycode |-> 0, active |-> FALSE, end_pos |-> 0]

\* buf is the text: for each column the key that shows there or a separator, and l the
\* length the callers are told of.
new_chyron == [key |-> [k \in BarKey |-> NoKey], buf |-> <<>>, l |-> 0, y |-> 0]

\* The line of the bar: the last one of the window for a '-', else the one asked for.
assign_chyron_win(c, lines, y) ==
    IF y = "-" THEN [c EXCEPT !.y = lines - 1] ELSE [c EXCEPT !.y = Min({y, lines - 1})]

is_set_chyron_key(c, k) == c.key[k].text > 0

\* set_chyron_key and set_chyron_key_cb
set_chyron_key(c, k, text, keycode) ==
    [c EXCEPT !.key[k] = [@ EXCEPT !.text = Min({text, CHYRON_KEY_MAXLEN - 2}),
                                   !.keycode = keycode, !.active = TRUE]]

unset_chyron_key(c, k) == [c EXCEPT !.key[k].text = 0]

activate_chyron_key(c, k) == [c EXCEPT !.key[k].active = TRUE]
deactivate_chyron_key(c, k) == [c EXCEPT !.key[k].active = FALSE]

activate_all_chyron_keys(c) ==
    [c EXCEPT !.key = [k \in BarKey |-> [@[k] EXCEPT !.active = TRUE]]]

deactivate_all_chyron_keys(c) ==
    [c EXCEPT !.key = [k \in BarKey |-> [@[k] EXCEPT !.active = FALSE]]]

OnBar(c, k) == c.key[k].active /\ is_set_chyron_key(c, k)

\* compile_chyron: a blank in front of the first key, a bar between two, a blank at the
\* end that the length does not count.  A key's end_pos is the column behind its text.
Space == -1
Bar == -2

AddKey(c, k) ==
    IF ~OnBar(c, k) THEN c
    ELSE LET buf == Append(c.buf, IF c.buf = <<>> THEN Space ELSE Bar)
                        \o [i \in 1..c.key[k].text |-> k]
         IN  [c EXCEPT !.buf = buf, !.l = Len(buf), !.key[k].end_pos = Len(buf)]

compile_chyron(c) ==
    LET all == FoldLeft(AddKey, [c EXCEPT !.buf = <<>>, !.l = 0],
                        [i \in 1..CHYRON_KEYS |-> i - 1])
    IN  [all EXCEPT !.buf = Append(@, Space)]

\* get_chyron_key: the first shown key whose text does not end before column x, which
\* counts from 0.  The last key of the table is not looked at; without any key the
\* element in front of the table is read.
Missing == -1
get_chyron_key(c, x) ==
    LET hit == {k \in BarKey \ {CHYRON_KEYS - 1} : OnBar(c, k) /\ c.key[k].end_pos >= x}
    IN  IF hit = {} THEN Missing ELSE c.key[Min(hit)].keycode

-----------------------------------------------------------------------------
(* What must hold of a compiled bar. *)

\* A click on the text of a key answers with that key; a click on the bar between two keys
\* belongs to the one on its left.  The last key of the table is the exception: the click
\* finds no key.
ClicksRight(c) ==
    \A x \in 0..(Len(c.buf) - 1) :
        LET there == c.buf[x + 1]
        IN  /\ there \in BarKey \ {CHYRON_KEYS - 1} => get_chyron_key(c, x) = c.key[there].keycode
            /\ there = CHYRON_KEYS - 1 => get_chyron_key(c, x) = Missing
            /\ there = Bar /\ c.buf[x] # CHYRON_KEYS - 1 =>
                get_chyron_key(c, x) = c.key[c.buf[x]].keycode

\* The length leaves out the blank at the end, the keys stand in the order of the table, and
\* compiling again changes nothing.
TextRight(c) ==
    /\ c.l = IF \E k \in BarKey : OnBar(c, k) THEN Len(c.buf) - 1 ELSE 0
    /\ \A i, j \in DOMAIN c.buf :
           i < j /\ {c.buf[i], c.buf[j]} \subseteq BarKey => c.buf[i] <= c.buf[j]
    /\ compile_chyron(c) = c
=============================================================================
