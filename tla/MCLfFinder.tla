----------------------------- MODULE MCLfFinder -----------------------------
(***************************************************************************)
(* Small instances of LfFinder.  The tree:                                  *)
(*     base/  sub/ (a directory: x, and back, a link to base)               *)
(*            file                                                          *)
(*            priv/ (cannot be opened)                                      *)
(*            .dot/ (hidden directory)                                       *)
(*            bad   (dangling link)                                         *)
(***************************************************************************)
EXTENDS LfFinder, MCLfOptions

CONSTANTS base, sub, priv

MCDir == {base, sub, priv}

\* A tree with a subdirectory that links back to the base and one that fails.
TreeIn == [e \in Entry |-> IF e \in {"x", "back"} THEN sub ELSE base]
TreeKind == [e \in Entry |->
    CASE e \in {"sub", "priv", ".dot"} -> "dir"
      [] e = "back" -> "dirlink"
      [] e = "bad" -> "dangling"
      [] OTHER -> "file"]
TreeTarget == [e \in Entry |->
    CASE e = "sub" -> sub
      [] e \in {"priv", ".dot"} -> priv
      [] e = "back" -> base
      [] OTHER -> Nowhere]

\* Finders started for `lf -T Requested` on a machine with Procs processors.
CONSTANTS Requested, Procs
CountedFinders == 1..NThreads(Requested, Procs)
=============================================================================
