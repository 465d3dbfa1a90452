---------------------------- MODULE MenuSession ----------------------------
(***************************************************************************)
(* A run of a C-Menu program from main to exit: the engines that are on the *)
(* call stack, the structures they allocate (mem.c) and save around a popup *)
(* (popups.c), the windows they open, the processes they start (exec.c,     *)
(* pick_engine.c, form_engine.c) and the signals that arrive meanwhile.     *)
(*                                                                          *)
(* What an engine does with its own data is left to the modules PickEngine, *)
(* ViewEngine, FormEngine and MenuDesc; here only what they open, close and *)
(* give back counts.                                                        *)
(***************************************************************************)
EXTENDS Terminal

CONSTANTS
    MaxFrames,  \* how deep popups are nested
    Command     \* the command types of the lines the menus have

Kind == {"menu", "pick", "form", "view"}
Null == 0
Id == 1 .. MaxFrames + 1

ASSUME SessionAssumption ==
    /\ MaxFrames \in Nat \ {0}
    /\ 1 .. 2 * MaxFrames + MaxWin + 4 \subseteq Surface   \* memory does not run out
    /\ Command \subseteq {"menu", "pick", "form", "view", "ckeys", "exec",
                          "exec_noargs", "dexe"}

VARIABLES
    frames,         \* the engines on the call stack, the running one last
    init,           \* the structures of init and those that are allocated
    tm,             \* the terminal
    status,         \* how the program stands
    sig_received,   \* a signal was caught and not handled yet
    lost            \* the paths taken on which the code loses a window or the screen

vars == <<frames, init, tm, status, sig_received, lost>>

(* obj is the structure an engine works on, saved the one popups.c keeps for
   its caller, box its window; aux and auxbox are the preview of a pick. *)
Frame ==
    [kind : Kind \cup {"notice", "ckeys", "child", "detach"},
     obj : Id \cup {Null}, saved : Id \cup {Null}, box : Surface \cup {NoSurface},
     aux : Id \cup {Null}, auxbox : Surface \cup {NoSurface},
     stage : {"run", "failed", "ending"}]

FrameOf(k, o, s) ==
    [kind |-> k, obj |-> o, saved |-> s, box |-> NoSurface, aux |-> Null,
     auxbox |-> NoSurface, stage |-> "run"]

Running == Last(frames)

-----------------------------------------------------------------------------
(* A handler is written as the chain of its calls on what it works on. *)

World == [frames |-> frames, init |-> init, tm |-> tm, lost |-> lost, status |-> status]

Become(w) ==
    /\ frames' = w.frames /\ init' = w.init /\ tm' = w.tm
    /\ lost' = w.lost /\ status' = w.status

Push(w, f) == [w EXCEPT !.frames = Append(@, f)]
Pop(w) == [w EXCEPT !.frames = Front(@)]
Stage(w, s) == [w EXCEPT !.frames[Len(w.frames)].stage = s]
Losing(w, path) == [w EXCEPT !.lost = @ \cup {path}]
Crashed(w) == [w EXCEPT !.status = "crashed"]

\* abend
Abend(w) == [w EXCEPT !.tm = Abended(@), !.status = "exited"]

\* exit(), through end_pgm, which knows nothing of the modes.
ExitNow(w) ==
    [Losing(w, "exit") EXCEPT !.tm = IF @.f_curses_open THEN UiShutdown(@) ELSE @,
                              !.status = "exited"]

-----------------------------------------------------------------------------
(* mem.c *)

FreeId(w, k) == CHOOSE i \in Id \ w.init.live[k] : \A j \in Id \ w.init.live[k] : i <= j

New(w, k) ==
    LET i == FreeId(w, k)
    IN  [w EXCEPT !.init.ptr[k] = i, !.init.cnt[k] = @ + 1, !.init.live[k] = @ \cup {i},
                  !.init.pick = IF k = "pick" THEN i ELSE @]

\* Mutant: the count goes down when there is nothing to destroy, too.
Destroy_CountsNull(w, k) ==
    [w EXCEPT !.init.ptr[k] = Null, !.init.cnt[k] = IF @ = 0 THEN @ ELSE @ - 1,
              !.init.live[k] = @ \ {w.init.ptr[k]}]

\* destroy_menu reads the menu without a look at the pointer; destroy_pick
\* frees the structure of the global pick, the last that was made.
Destroy(w, k) ==
    IF w.init.ptr[k] = Null THEN IF k = "menu" THEN Crashed(w) ELSE w
    ELSE [w EXCEPT !.init.ptr[k] = Null, !.init.cnt[k] = @ - 1,
                   !.init.live[k] = @ \ {IF k = "pick" THEN w.init.pick ELSE w.init.ptr[k]}]

-----------------------------------------------------------------------------
(* Windows of a frame. *)

\* Mutant: no limit.
OpenBox_NoLimit(w, f) ==
    [Push(w, [f EXCEPT !.box = FreeSurface(w.tm)]) EXCEPT !.tm = BoxWinNew(@)]

\* A box on the stack.  Past MAXWIN the refusal's own message is refused, and so on.
OpenBox(w, f) ==
    IF ~WindowsLeft(w.tm) THEN Crashed(Losing(w, "maxwin"))
    ELSE LET v == Push(w, [f EXCEPT !.box = FreeSurface(w.tm)])
         IN  [(IF Len(w.tm.ui_surface) = MaxWin THEN Losing(v, "maxwin") ELSE v)
                EXCEPT !.tm = BoxWinNew(@)]

\* The windows of the pager are not on the stack.
OpenViewWindow(w, f) ==
    [Push(w, [f EXCEPT !.box = FreeSurface(w.tm)]) EXCEPT !.tm = Allocated(@)]

CloseTop(w, s) == [w EXCEPT !.tm = CmSurfaceDestroy(@, s)]
Free(w, s) == [w EXCEPT !.tm = SurfaceDestroy(@, s)]

\* Perror, display_error: a window that waits for a key.
Notice(w) == OpenBox(w, FrameOf("notice", Null, Null))

\* f could not go on: its engine stops when the message is closed.
Fails(w, f) == Notice(Push(w, [f EXCEPT !.stage = "failed"]))

-----------------------------------------------------------------------------
(* popups.c, and the part of main that starts the same engines: what is saved
   is the caller's structure, and nothing when main is the caller. *)

NewFrame(w, k) ==
    LET v == New([w EXCEPT !.init.ptr[k] = Null], k)
    IN  <<v, FrameOf(k, v.init.ptr[k], w.init.ptr[k])>>

\* What a popup can meet, besides opening: a file that is missing, a bad one.
Outcome(k) ==
    CASE k = "menu" -> {"opens", "missing", "bad"}
      [] k = "pick" -> {"opens", "preview", "bad"}
      [] k = "form" -> {"opens", "missing", "bad"}
      [] k = "view" -> {"opens", "bad"}

\* new_pick_view: the pager beside the pick; init->view is not saved.
WithPreview(w) ==
    LET v == New([w EXCEPT !.init.ptr["view"] = Null], "view")
        n == Len(v.frames)
    IN  [v EXCEPT !.frames[n].aux = v.init.ptr["view"],
                  !.frames[n].auxbox = FreeSurface(v.tm), !.tm = Allocated(@)]

\* popup_menu with new_menu and menu_engine up to its loop; a description that
\* cannot be found ends the program, one that cannot be read after its message.
PopupMenu(w, out) ==
    LET p == NewFrame(w, "menu")
    IN  CASE out = "opens" -> OpenBox(p[1], p[2])
          [] out = "missing" -> Abend(p[1])
          [] out = "bad" -> Fails(p[1], p[2])

\* popup_pick with init_pick, pick_engine and open_pick_win.
PopupPick(w, out) ==
    LET p == NewFrame(w, "pick")
        v == OpenBox(p[1], p[2])
    IN  CASE out = "opens" -> v
          [] out = "preview" -> IF v.status = "crashed" THEN v ELSE WithPreview(v)
          [] out = "bad" -> Fails(p[1], p[2])

\* popup_form with init_form and form_engine: without a description init_form
\* gives up itself ("missing"), with a bad one form_engine returns before it opens
\* a window and init_form goes on ("bad", whose frame is marked by its stage).
PopupForm(w, out) ==
    LET p == NewFrame(w, "form")
    IN  CASE out = "opens" -> OpenBox(p[1], p[2])
          [] out = "missing" -> Fails(p[1], p[2])
          [] out = "bad" -> Notice(Push(Losing(p[1], "formdesc"),
                                          [p[2] EXCEPT !.stage = "ending"]))

\* popup_view with new_view, init_view_boxwin and view_file: the message about a
\* file that cannot be opened is shown over the window.
PopupView(w, out) ==
    LET p == NewFrame(w, "view")
        v == OpenViewWindow(p[1], p[2])
    IN  IF out = "opens" THEN v ELSE Notice(Stage(v, "failed"))

Popup(w, k, out) ==
    CASE k = "menu" -> PopupMenu(w, out)
      [] k = "pick" -> PopupPick(w, out)
      [] k = "form" -> PopupForm(w, out)
      [] k = "view" -> PopupView(w, out)

\* popup_ckeys up to its loop.
PopupCkeys(w) == OpenBox(w, FrameOf("ckeys", Null, Null))

-----------------------------------------------------------------------------
(* The ends of the engines. *)

IsRoot(w) == Len(w.frames) = 1

\* The end of main: destroy_view, destroy_curses, exit.
EndMain(w) ==
    LET v == Destroy(Pop(w), "view")
    IN  [v EXCEPT !.tm = DestroyCurses(@), !.status = "exited"]

\* Mutant: the caller's structure is not put back.
Back_KeepsNull(w, k) == Pop(Destroy(w, k))

\* What popups.c does after the engine: destroy the structure, put the saved
\* one back.
Back(w, k) ==
    LET v == Destroy(w, k)
    IN  IF v.status = "crashed" THEN v
        ELSE Pop([v EXCEPT !.init.ptr[k] = Last(w.frames).saved])

\* MA_RETURN of menu_engine.
EndMenu(w) ==
    LET v == CloseTop(w, Last(w.frames).box)
        u == IF v.tm.ui_surface = <<>> THEN Destroy(v, "menu") ELSE v
    IN  IF IsRoot(w) THEN EndMain(u) ELSE Back(u, "menu")

\* The end of init_pick; main leaves the structure allocated.
EndPick(w) ==
    LET f == Last(w.frames)
        v == CloseTop(w, f.box)
        u == IF f.aux = Null THEN v ELSE Destroy(Free(v, f.auxbox), "view")
    IN  IF IsRoot(w) THEN EndMain(u) ELSE Back(u, "pick")

\* An init_pick that gave up has no window to close.
GiveUpPick(w) == IF IsRoot(w) THEN EndMain(w) ELSE Back(w, "pick")

GiveUpForm(w) ==
    LET v == Destroy(w, "form") IN IF IsRoot(w) THEN EndMain(v) ELSE Back(v, "form")

\* The end of init_form closes the surface on top, whose ever it is.  When there is
\* none it reads in front of the array: what is there is not known.
EndForm(w) == GiveUpForm(CloseTop(w, Top(w.tm)))

\* Mutant: the window of the pager is not destroyed.
EndView_KeepsWindow(w) ==
    LET v == Destroy(w, "view") IN IF IsRoot(w) THEN EndMain(v) ELSE Back(v, "view")

\* The end of view_file, which destroys the view popup_view destroys again.
EndView(w) ==
    LET v == Destroy(Free(w, Last(w.frames).box), "view")
    IN  IF IsRoot(w) THEN EndMain(v) ELSE Back(v, "view")

-----------------------------------------------------------------------------
(* Processes. *)

\* ui_endwin before a child gets the screen: no window is left, and the screen that
\* is deleted is not opened again.
Shutdown(w) == [Losing(w, "shutdown") EXCEPT !.tm = UiShutdown(@)]

\* fork_exec: the signals and the modes are the child's until waitpid, and stay that
\* way.
ForkExec(w) ==
    LET v == [w EXCEPT !.tm = SigDflMode(@)]
    IN  Push([Shutdown(v) EXCEPT !.tm = RestoreShell(@)],
             FrameOf("child", Null, Null))

ForkExecFails(w) ==
    LET v == Shutdown([w EXCEPT !.tm = SigDflMode(@)])
    IN  [v EXCEPT !.tm = SigProgMode(@)]

\* exec_objects and form_exec_receiver start their command without a word about
\* signals and modes.  When fork fails there is nothing to wait for.
ExecCommand(w) == {Push(Shutdown(w), FrameOf("child", Null, Null)), Shutdown(w)}

\* fork_detach_execvp, from its fork to sig_dfl_mode.
ForkDetach(w) == Push([w EXCEPT !.tm = SigDflMode(@)], FrameOf("detach", Null, Null))

-----------------------------------------------------------------------------
(* Actions: a key, the end of a child, a signal. *)

Room == Len(frames) < MaxFrames

\* The running engine is of kind k and waits for a key with the screen open.
At(k) ==
    /\ status = "running" /\ frames # <<>> /\ Running.kind = k
    /\ Running.stage = "run" /\ tm.f_curses_open
    /\ UNCHANGED sig_received

Runs(c) == At("menu") /\ c \in Command

\* A command that opens something.  A switch its program does not know ends the
\* whole program, in argp_parse.
Opens(w, k) == {Popup(w, k, out) : out \in Outcome(k)} \cup {ExitNow(w)}

\* A line of the menu that opens something.
RunPopup(k) == Runs(k) /\ Room /\ \E w \in Opens(World, k) : Become(w)

\* A help line, and the keys ? and F1.
MenuHelp ==
    /\ At("menu") /\ Room
    /\ \E out \in Outcome("view") : Become(PopupView(World, out))

RunCkeys == Runs("ckeys") /\ Room /\ Become(PopupCkeys(World))

\* CT_EXEC, and F7, which prints through full_screen_shell.
RunExec ==
    /\ Runs("exec") /\ Room
    /\ Become(ForkExec(World)) \/ Become(ForkExecFails(World))

\* A command of one word: strpbrk finds no blank, str_to_args leaves eargv as it
\* is, and fork_exec looks at whatever its first element holds.
RunExecNoArgs ==
    /\ Runs("exec_noargs") /\ Room
    /\ Become(Notice(World)) \/ Become(ForkExec(World)) \/ Become(ForkExecFails(World))

\* CT_DEXE.  A fork that fails ends the program.
RunDexe ==
    /\ Runs("dexe") /\ Room
    /\ \/ Become(ForkDetach(World))
       \/ Become(ExitNow([World EXCEPT !.tm = SigDflMode(@)]))

\* Mutant: the handlers are not set again.
DetachDone_KeepsDefault ==
    /\ status = "running" /\ frames # <<>> /\ Running.kind = "detach"
    /\ Become([Pop(World) EXCEPT !.tm = RestoreCurses(@)])
    /\ UNCHANGED sig_received

DetachDone ==
    /\ status = "running" /\ frames # <<>> /\ Running.kind = "detach"
    /\ Become([Pop(World) EXCEPT !.tm = SigProgMode(RestoreCurses(@))])
    /\ UNCHANGED sig_received

\* 'q', F9, a line that returns.
MenuReturn == At("menu") /\ Become(EndMenu(World))

PickHelp ==
    /\ At("pick") /\ Room
    /\ \E out \in Outcome("view") : Become(PopupView(World, out))

\* The command of the selected objects is the pager, or a program.
PickExec ==
    /\ At("pick") /\ Room
    /\ \E w \in Opens(World, "view") \cup ExecCommand(World) : Become(w)

PickEnd == At("pick") /\ Become(EndPick(World))

FormHelp ==
    /\ At("form") /\ Room
    /\ \E out \in Outcome("view") : Become(PopupView(World, out))

\* FA_END with a receiver, which is the pager or a program; then the form ends.
FormReceiver ==
    /\ At("form") /\ Room
    /\ LET w == Stage(World, "ending")
       IN  \E v \in Opens(w, "view") \cup ExecCommand(w) : Become(v)

\* FA_CANCEL, and FA_END without a receiver.
FormEnd == At("form") /\ Become(EndForm(World))

\* The form ends when what it waited for has ended: its receiver, or the message
\* about its description.
FormEnds ==
    /\ status = "running" /\ frames # <<>> /\ Running.kind = "form"
    /\ Running.stage = "ending"
    /\ Become(EndForm(World))
    /\ UNCHANGED sig_received

ViewHelp ==
    /\ At("view") /\ Room
    /\ \E out \in Outcome("view") : Become(PopupView(World, out))

\* enter_file_spec asks for a name with a form.
ViewWrite ==
    /\ At("view") /\ Room
    /\ \E out \in Outcome("form") : Become(PopupForm(World, out))

\* '!' and the printing keys.
ViewShell ==
    /\ At("view") /\ Room
    /\ Become(ForkExec(World)) \/ Become(ForkExecFails(World))

\* One of the pager's messages.
ViewMessage == At("view") /\ Room /\ Become(Notice(World))

\* KEY_RESIZE, and the keys that change the line numbers: the window is made again.
ViewResize ==
    LET t == SurfaceDestroy(tm, Running.box)
    IN  /\ At("view")
        /\ Become([World EXCEPT !.frames[Len(frames)].box = FreeSurface(t),
                                !.tm = Allocated(t)])

ViewEnd == At("view") /\ Become(EndView(World))

\* A key in the key test while a signal is pending: the question about it.
CkeysSignal ==
    /\ status = "running" /\ frames # <<>> /\ Running.kind = "ckeys" /\ tm.f_curses_open
    /\ sig_received /\ sig_received' = FALSE
    /\ Become(Notice(World))

\* The answer 'q' or F9 to the question.
CkeysQuit ==
    /\ At("notice") /\ Len(frames) > 1 /\ frames[Len(frames) - 1].kind = "ckeys"
    /\ Become(ExitNow(CloseTop(World, Running.box)))

\* popup_ckeys destroys its surface and leaves it on the stack.
CkeysEnd ==
    LET w == Losing(Free(World, Running.box), "ckeys")
    IN  At("ckeys") /\ Become(IF IsRoot(w) THEN EndMain(w) ELSE Pop(w))

\* A message is closed; an engine that failed ends with it.
NoticeEnd ==
    LET w == Pop(CloseTop(World, Running.box))
        f == Last(w.frames)
    IN  /\ At("notice")
        /\ Become(IF w.frames = <<>> \/ f.stage # "failed" THEN w
                  ELSE CASE f.kind = "menu" -> Abend(w)
                         [] f.kind = "pick" -> GiveUpPick(w)
                         [] f.kind = "form" -> GiveUpForm(w)
                         [] f.kind = "view" -> EndView(w))

\* waitpid returns.  Only the commands of a pick and a form set the signals again;
\* fork_exec calls ui_resume, which sets modes for a screen that is gone.
ChildEnd ==
    /\ status = "running" /\ frames # <<>> /\ Running.kind = "child"
    /\ LET w == Pop(World)
       IN  Become(IF Last(w.frames).kind \in {"pick", "form"}
                  THEN [w EXCEPT !.tm = SigProgMode(@)]
                  ELSE [w EXCEPT !.tm = UiResume(@)])
    /\ UNCHANGED sig_received

(* Undefined behaviour.  An engine that draws in a surface that was freed, or
   without a screen, may stop there; while the screen is open it may also go on
   (the other actions), without one it cannot. *)
Draws ==
    CASE Running.kind \in {"menu", "form"} -> {Top(tm)}
      [] Running.kind \in {"pick", "view", "ckeys", "notice"} -> {Running.box}
      [] OTHER -> {}

CrashOnFreed ==
    /\ status = "running" /\ frames # <<>>
    /\ \E s \in Draws : ~Drawable(tm, s)
    /\ Become(Crashed(World)) /\ UNCHANGED sig_received

\* A signal ends a program that has the default handlers; otherwise it is noted.
Signal ==
    /\ status = "running"
    /\ IF tm.handlers = "default"
       THEN status' = "killed" /\ UNCHANGED sig_received
       ELSE sig_received' = TRUE /\ UNCHANGED status
    /\ UNCHANGED <<frames, init, tm, lost>>

-----------------------------------------------------------------------------

\* main up to the engine its name asks for.
Started0 ==
    [frames |-> <<>>, tm |-> Started, lost |-> {}, status |-> "running",
     init |-> [ptr |-> [k \in Kind |-> Null], cnt |-> [k \in Kind |-> 0],
               live |-> [k \in Kind |-> {}], pick |-> Null]]

Begins(w) ==
    /\ frames = w.frames /\ init = w.init /\ tm = w.tm
    /\ lost = w.lost /\ status = w.status

Init ==
    /\ sig_received = FALSE
    /\ \/ \E k \in Kind : \E out \in Outcome(k) : Begins(Popup(Started0, k, out))
       \/ Begins(PopupCkeys(Started0))

Next ==
    \/ \E k \in Kind : RunPopup(k)
    \/ MenuHelp \/ RunCkeys \/ RunExec \/ RunExecNoArgs \/ RunDexe \/ DetachDone
    \/ MenuReturn
    \/ PickHelp \/ PickExec \/ PickEnd
    \/ FormHelp \/ FormReceiver \/ FormEnd \/ FormEnds
    \/ ViewHelp \/ ViewWrite \/ ViewShell \/ ViewMessage \/ ViewResize \/ ViewEnd
    \/ CkeysSignal \/ CkeysQuit \/ CkeysEnd
    \/ NoticeEnd \/ ChildEnd
    \/ CrashOnFreed \/ Signal

Spec == Init /\ [][Next]_vars

-----------------------------------------------------------------------------
(* Properties. *)

\* Every variable is what the C declares, and the stack of surfaces is at most one
\* longer than its array (box_win_new).
TypeOK ==
    /\ frames \in Seq(Frame) /\ Len(frames) <= MaxFrames + 1
    /\ init.ptr \in [Kind -> Id \cup {Null}] /\ init.cnt \in [Kind -> 0 .. MaxFrames + 1]
    /\ init.live \in [Kind -> SUBSET Id] /\ init.pick \in Id \cup {Null}
    /\ tm \in TermStruct /\ Len(tm.ui_surface) <= MaxWin + 1
    /\ status \in {"running", "exited", "killed", "crashed"}
    /\ sig_received \in BOOLEAN
    /\ lost \subseteq {"shutdown", "ckeys", "formdesc", "maxwin", "exit"}

\* The frames whose window is on the stack of surfaces, and where it is there.
OnStack == {i \in DOMAIN frames : frames[i].box # NoSurface /\ frames[i].kind # "view"}
Place(i) == Cardinality({j \in OnStack : j <= i})

\* As long as no engine lost a window, ui_surface holds the windows of the engines on
\* the call stack, in their order, so that ui_surface[sfc_ptr], which every engine of
\* menu_engine.c and form_engine.c takes for its own, is; and no window is left over.
SurfaceStack ==
    status = "running" /\ lost = {} =>
        /\ Len(tm.ui_surface) = Cardinality(OnStack)
        /\ \A i \in OnStack : tm.ui_surface[Place(i)] = frames[i].box
        /\ tm.live = (UNION {{frames[i].box, frames[i].auxbox} : i \in DOMAIN frames})
                         \ {NoSurface}

Holds(k) ==
    {frames[i].obj : i \in {j \in DOMAIN frames : frames[j].kind = k}}
        \cup (IF k = "view" THEN {frames[i].aux : i \in DOMAIN frames} \ {Null} ELSE {})

\* However popups nest and fail, each structure that is allocated belongs to one
\* engine on the call stack, none is freed twice or forgotten, and the counts of
\* struct Init (common.h) say how many there are.
CountsRight ==
    status = "running" =>
        \A k \in Kind : /\ init.live[k] = Holds(k)
                        /\ init.cnt[k] = Cardinality(Holds(k))

\* The program is stopped by its own mistake only after one of the paths that lose
\* a window, the screen or the room for windows; and by a signal only while it starts
\* a process or after one had the screen, never in an engine whose windows are open.
EndsKnown ==
    /\ status = "crashed" => lost # {}
    /\ status = "killed" =>
           "shutdown" \in lost \/ (frames # <<>> /\ Running.kind = "detach")

\* A program that ends by main or by abend leaves the terminal as the shell had it,
\* with the signals the shell gave it and no window behind.
ExitRestores ==
    status = "exited" /\ lost = {} =>
        tm.tty = "shell" /\ tm.handlers = "default" /\ tm.live = {} /\ ~tm.f_curses_open

\* What fork_exec says of itself (exec.c:107-108): when the command that a menu or the
\* pager waited for has ended, the windows are what they were.
WindowsRestored ==
    [][ /\ frames # <<>> /\ Running.kind = "child" /\ frames' # frames
        /\ frames[Len(frames) - 1].kind \in {"menu", "view"}
        => \A i \in DOMAIN frames' : frames'[i].box \in tm'.live \cup {NoSurface} ]_vars

\* The structures of every frame by their kind.
Held(f) ==
    [k \in Kind |-> CASE f.kind = k -> f.obj
                      [] f.kind # k /\ k = "view" -> f.aux
                      [] OTHER -> Null]

Open == [i \in DOMAIN frames |-> Held(frames[i])]

InnermostHeld(k) ==
    LET having == {i \in DOMAIN Open : Open[i][k] # Null}
    IN  IF having = {} THEN Null ELSE Open[Max(having)][k]

\* The program's popups are a stack: whatever is opened and closed in between, an
\* engine finds the structure it works on in init again (popups.c).  A program that
\* has ended works on nothing more.
Stack == INSTANCE PopupStack WITH
    open <- Open,
    current <- IF status = "running" THEN init.ptr
               ELSE [k \in Kind |-> InnermostHeld(k)]

ImplementsStack == Stack!Spec
=============================================================================
