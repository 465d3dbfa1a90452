------------------------------ MODULE Terminal ------------------------------
(***************************************************************************)
(* What a C-Menu program holds of the terminal: the stack of surfaces of    *)
(* dwin.c and ui/ui_ncurses.c, the screen of curses, the signal handlers of *)
(* sig.c and the modes of scriou.c.  Every function of the source is an     *)
(* operator on a record, so that a handler is the chain of its calls.       *)
(*                                                                          *)
(* A surface is named by its address: allocation takes a free one, the      *)
(* address of a destroyed surface is used again, and ui_surface keeps       *)
(* whatever is stored in it, dangling or not.                               *)
(***************************************************************************)
EXTENDS Naturals, Sequences, FiniteSets, SequencesExt

CONSTANTS
    Surface,    \* addresses a surface can have
    MaxWin      \* MAXWIN = UI_SFC_MAX, the size of ui_surface

ASSUME TerminalAssumption ==
    /\ Surface \subseteq Nat \ {0}
    /\ MaxWin \in Nat \ {0}

NoSurface == 0

TermStruct ==
    [ui_surface : Seq(Surface),          \* ui_surface[0 .. sfc_ptr]
     live : SUBSET Surface,              \* allocated and not freed
     f_curses_open : BOOLEAN,
     handlers : {"program", "default"},
     tty : {"shell", "curses"}]          \* the modes set in the terminal

-----------------------------------------------------------------------------
(* Signals and modes. *)

SigProgMode(t) == [t EXCEPT !.handlers = "program"]
SigDflMode(t) == [t EXCEPT !.handlers = "default"]
RestoreShell(t) == [t EXCEPT !.tty = "shell"]
\* main captures the modes as soon as curses has set them, so there always is
\* something to restore and a later capture does nothing.
RestoreCurses(t) == [t EXCEPT !.tty = "curses"]

\* ui_resume; without a screen curses has no terminal to set the modes of.
UiResume(t) == IF t.f_curses_open THEN RestoreCurses(t) ELSE t

\* ui_init, sig_prog_mode and capture_curses_tioctl as main calls them.
Started ==
    [ui_surface |-> <<>>, live |-> {}, f_curses_open |-> TRUE,
     handlers |-> "program", tty |-> "curses"]

-----------------------------------------------------------------------------
(* Surfaces. *)

Top(t) == IF t.ui_surface = <<>> THEN NoSurface ELSE Last(t.ui_surface)

FreeSurface(t) == CHOOSE s \in Surface \ t.live :
                      \A r \in Surface \ t.live : s <= r

\* ui_surface_new, ui_box_surface_new: a surface that is not on the stack.
Allocated(t) == [t EXCEPT !.live = @ \cup {FreeSurface(t)}]

\* box_win_new and split_box_win_new refuse at MAXWIN and not at MAXWIN - 1, the
\* last index of the array; the refusal opens a window for its message.
WindowsLeft(t) == Len(t.ui_surface) <= MaxWin

BoxWinNew(t) == [Allocated(t) EXCEPT !.ui_surface = Append(@, FreeSurface(t))]

SurfaceDestroy(t, s) == [t EXCEPT !.live = @ \ {s}]

\* Only the surface on top is destroyed; for any other nothing happens.
CmSurfaceDestroy(t, s) ==
    IF t.ui_surface # <<>> /\ Top(t) = s
    THEN [SurfaceDestroy(t, s) EXCEPT !.ui_surface = Front(@)]
    ELSE t

\* ui_endwin is ui_shutdown: every surface on the stack is destroyed and the screen
\* is deleted.  The modes of the terminal stay as they are.
UiShutdown(t) ==
    [t EXCEPT !.live = @ \ ToSet(t.ui_surface), !.ui_surface = <<>>,
              !.f_curses_open = FALSE]

\* Mutant: the modes of the shell are not restored.
DestroyCurses_KeepModes(t) == IF t.f_curses_open THEN SigDflMode(UiShutdown(t)) ELSE t

DestroyCurses(t) ==
    IF t.f_curses_open THEN SigDflMode(RestoreShell(UiShutdown(t))) ELSE t

\* abend, before it exits.
Abended(t) == SigDflMode(RestoreShell(DestroyCurses(t)))

\* A handler that draws in the surface s works on a window that is there.
Drawable(t, s) == t.f_curses_open /\ s \in t.live
=============================================================================
