------------------------------- MODULE MCMenu -------------------------------
(* A small screen, and every kind of line a menu can have. *)
EXTENDS MenuSession

MCSurface == 1 .. 15

MCCommand == {"menu", "pick", "form", "view", "ckeys", "exec", "exec_noargs", "dexe"}
=============================================================================
