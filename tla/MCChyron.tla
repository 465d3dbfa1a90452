------------------------------ MODULE MCChyron ------------------------------
(* The key bars a few calls can build, and the clicks on them. *)
EXTENDS Chyron

Used == {1, 9, 18, 19}
Keycode(k) == 100 + k

Calls(c) ==
    {set_chyron_key(c, k, n, Keycode(k)) : k \in Used, n \in {0, 1, 3}}
    \cup {unset_chyron_key(c, k) : k \in Used}
    \cup {deactivate_chyron_key(c, k) : k \in Used}
    \cup {activate_chyron_key(c, k) : k \in Used}
    \cup {activate_all_chyron_keys(c), deactivate_all_chyron_keys(c), compile_chyron(c)}

Bars[n \in 0..3] == IF n = 0 THEN {new_chyron} ELSE UNION {Calls(c) : c \in Bars[n - 1]}

\* Clicks on a compiled bar, whatever was set, unset, hidden and compiled before.
ASSUME ClickFindsKey == \A b \in Bars[3] : ClicksRight(compile_chyron(b))

\* The text of a compiled bar.
ASSUME CompiledOnce == \A b \in Bars[3] : TextRight(compile_chyron(b))
=============================================================================
