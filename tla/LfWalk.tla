------------------------------- MODULE LfWalk -------------------------------
(***************************************************************************)
(* What lf promises of a search, whatever the number of threads: every      *)
(* directory that is discovered is read once, a directory is closed only    *)
(* when all it holds has been dealt with, and the search stops only when no *)
(* directory is left open.                                                  *)
(***************************************************************************)
EXTENDS LfTree

VARIABLES
    open,       \* directories discovered and not finished
    closed,     \* directories finished
    found,      \* paths listed
    stopped     \* the search is over

walkVars == <<open, closed, found, stopped>>

WalkInit ==
    /\ open = {Root}
    /\ closed = {}
    /\ found = {}
    /\ stopped = FALSE

Discover(p, e) ==
    /\ e \in EntriesOf(p)
    /\ Descends(p, e)
    /\ Append(p, e) \notin open \cup closed
    /\ open' = open \cup {Append(p, e)}
    /\ UNCHANGED <<closed, found, stopped>>

List(p, e) ==
    /\ e \in EntriesOf(p)
    /\ Lists(p, e)
    /\ Append(p, e) \notin found
    /\ found' = found \cup {Append(p, e)}
    /\ UNCHANGED <<open, closed, stopped>>

Exhausted(p) ==
    \A e \in EntriesOf(p) :
        /\ Descends(p, e) => Append(p, e) \in open \cup closed
        /\ Lists(p, e) => Append(p, e) \in found

Close(p) ==
    /\ Readable(p) => Exhausted(p)
    /\ open' = open \ {p}
    /\ closed' = closed \cup {p}
    /\ UNCHANGED <<found, stopped>>

Stop ==
    /\ open = {}
    /\ ~stopped
    /\ stopped' = TRUE
    /\ UNCHANGED <<open, closed, found>>

WalkNext ==
    \/ \E p \in open : \E e \in Entry : Discover(p, e) \/ List(p, e)
    \/ \E p \in open : Close(p)
    \/ Stop

WalkSpec == WalkInit /\ [][WalkNext]_walkVars
=============================================================================
