------------------------ MODULE MenuSessionTheorems ------------------------
(***************************************************************************)
(* The theorems of MenuSession.  The calls of a handler keep what            *)
(* MenuSessionProofs says of them; here the handlers, the inductive          *)
(* invariant they keep, and what follows from it.                            *)
(***************************************************************************)
EXTENDS MenuSessionProofs

(* The actions. *)

(* What holds in every state: the world is Fine. *)
Inv == Fine(World) /\ sig_received \in BOOLEAN

\* A handler's world becomes the state.
LEMMA BecomeIs ==
  ASSUME NEW w \in WorldStruct, Become(w)
  PROVE  World' = w /\ frames' = w.frames /\ status' = w.status /\ tm' = w.tm
BY DEF Become, World, WorldStruct

\* While the program runs the state is Sound, and the running engine is the last frame.
LEMMA RunningSound ==
  ASSUME Inv, status = "running"
  PROVE  /\ Sound(World) /\ World \in WorldStruct /\ World.frames = frames
         /\ World.status = "running" /\ World.tm = tm /\ World.init = init
         /\ frames \in Seq(Frame) /\ tm \in TermStruct
         /\ frames # <<>> => Running = frames[Len(frames)] /\ Running \in Frame
<1>1. World.status = "running" /\ World.frames = frames /\ World.tm = tm /\ World.init = init
  BY DEF World
<1>2. Sound(World) /\ World \in WorldStruct
  BY <1>1 DEF Inv, Fine, Sound, Typed
<1>3. frames \in Seq(Frame) /\ tm \in TermStruct
  BY <1>1, <1>2 DEF WorldStruct
<1>4. frames # <<>> => Running = frames[Len(frames)] /\ Running \in Frame
  BY <1>3, FrontFrame DEF Running
<1>. QED
  BY <1>1, <1>2, <1>3, <1>4

\* An engine but a pick has no preview, and one under which a message stands neither; a
\* menu is opened by menus only.
LEMMA LastIs ==
  ASSUME NEW w, Sound(w), w.frames # <<>>
  PROVE  /\ Last(w.frames).kind # "pick" => Last(w.frames).aux = Null
         /\ Last(w.frames).stage # "run" => Last(w.frames).aux = Null
         /\ Last(w.frames).kind = "menu" => OnlyMenus(w.frames)
         /\ Last(w.frames) = w.frames[Len(w.frames)] /\ Last(w.frames) \in Frame
         /\ Last(w.frames).stage = "failed" => Last(w.frames).kind \in Kind
         /\ Last(w.frames).stage = "ending" => Last(w.frames).kind = "form"
<1>1. w.frames \in Seq(Frame) /\ Engines(w.frames) /\ Nested(w.frames)
  BY DEF Sound, Whole
<1>2. /\ Len(w.frames) \in Nat \ {0} /\ Last(w.frames) = w.frames[Len(w.frames)]
      /\ Last(w.frames) \in Frame
  BY <1>1, FrontFrame
<1>3. Len(w.frames) \in 1..Len(w.frames)
  BY <1>2
<1>4. /\ Last(w.frames).aux # Null => Last(w.frames).kind = "pick" /\ Last(w.frames).stage = "run"
      /\ Last(w.frames).stage = "failed" => Last(w.frames).kind \in Kind
      /\ Last(w.frames).stage = "ending" => Last(w.frames).kind = "form"
  BY <1>1, <1>2, <1>3 DEF Engines
<1>5. Last(w.frames).kind = "menu" => OnlyMenus(w.frames)
  <2>1. SUFFICES ASSUME Last(w.frames).kind = "menu", NEW i \in 1..Len(w.frames)
                 PROVE  w.frames[i].kind = "menu"
    BY DEF OnlyMenus
  <2>2. CASE i = Len(w.frames)
    BY <1>2, <2>1, <2>2
  <2>3. CASE i # Len(w.frames)
    <3>1. i \in 1..(Len(w.frames) - 1)
      BY <1>2, <2>1, <2>3
    <3>. QED
      BY <1>1, <1>2, <1>3, <2>1, <3>1 DEF Nested
  <2>. QED
    BY <2>2, <2>3
<1>. QED
  BY <1>2, <1>4, <1>5

\* An engine that waits for a key.
LEMMA AtIs ==
  ASSUME Inv, NEW k, At(k)
  PROVE  /\ Sound(World) /\ World \in WorldStruct /\ World.frames = frames
         /\ World.status = "running" /\ World.tm = tm /\ World.init = init
         /\ frames # <<>> /\ Last(World.frames).kind = k /\ Last(World.frames).stage = "run"
         /\ Last(World.frames) = Running
         /\ k # "pick" => Last(World.frames).aux = Null
         /\ k = "menu" => OnlyMenus(World.frames)
         /\ tm.f_curses_open /\ status = "running"
         /\ sig_received' = sig_received
BY RunningSound, LastIs DEF At, Running

(* A step makes the state that of a Fine world, whose frames are what they were, more
   or fewer. *)
Reaches(v) == Become(v) /\ Fine(v) /\ Moves(frames, v.frames)

LEMMA ReachesIs ==
  ASSUME NEW v, Reaches(v)
  PROVE  Fine(World') /\ Moves(frames, frames')
<1>1. v \in WorldStruct
  BY DEF Reaches, Fine, Typed
<1>. QED
  BY <1>1, BecomeIs DEF Reaches

\* There is room for a popup.
LEMMA RoomIs ==
  ASSUME Room
  PROVE  Len(World.frames) < MaxFrames
BY DEF Room, World

\* What a menu starts.
LEMMA MenuSteps ==
  ASSUME Inv,
         \/ \E k \in Kind : RunPopup(k)
         \/ MenuHelp \/ RunCkeys \/ RunExec \/ RunExecNoArgs \/ RunDexe \/ MenuReturn
  PROVE  Fine(World') /\ Moves(frames, frames')
<1>. SUFFICES \E v : Reaches(v)
  BY ReachesIs
<1>1. CASE \E k \in Kind : RunPopup(k)
  <2>1. PICK k \in Kind : RunPopup(k)
    BY <1>1
  <2>2. At("menu") /\ Room
    BY <2>1 DEF RunPopup, Runs
  <2>3. PICK v \in Opens(World, k) : Become(v)
    BY <2>1 DEF RunPopup
  <2>4. Fine(v) /\ Grows(World.frames, v.frames)
    BY <2>2, <2>3, AtIs, RoomIs, OpensFine
  <2>. QED
    BY <2>2, <2>3, <2>4, AtIs DEF Reaches, Moves
<1>2. CASE MenuHelp
  <2>1. At("menu") /\ Room
    BY <1>2 DEF MenuHelp
  <2>2. PICK out \in Outcome("view") : Become(PopupView(World, out))
    BY <1>2 DEF MenuHelp
  <2>. QED
    BY <2>1, <2>2, AtIs, RoomIs, PopupViewFine DEF Reaches, Moves
<1>3. CASE RunCkeys
  <2>1. At("menu") /\ Room /\ Become(PopupCkeys(World))
    BY <1>3 DEF RunCkeys, Runs
  <2>. QED
    BY <2>1, AtIs, RoomIs, PopupCkeysFine DEF Reaches, Moves
<1>4. CASE RunExec \/ RunExecNoArgs
  <2>1. /\ At("menu") /\ Room
        /\ \/ Become(Notice(World)) \/ Become(ForkExec(World))
           \/ Become(ForkExecFails(World))
    BY <1>4 DEF RunExec, RunExecNoArgs, Runs
  <2>2. Sound(World) /\ Len(World.frames) < MaxFrames /\ World.frames = frames
    BY <2>1, AtIs, RoomIs
  <2>3. Fine(Notice(World)) /\ Grows(World.frames, Notice(World).frames)
    BY <2>2, MessageFine
  <2>. QED
    BY <2>1, <2>2, <2>3, ForkExecFine DEF Reaches, Moves
<1>5. CASE RunDexe
  <2>. DEFINE u == [World EXCEPT !.tm = SigDflMode(@)]
  <2>1. /\ At("menu") /\ Room
        /\ Become(ForkDetach(World)) \/ Become(ExitNow(u))
    BY <1>5 DEF RunDexe, Runs
  <2>2. /\ Sound(World) /\ Len(World.frames) < MaxFrames /\ World.frames = frames
        /\ World.tm \in TermStruct
    BY <2>1, AtIs, RoomIs, RunningSound DEF At
  <2>3. Sound(u) /\ u.frames = World.frames
    <3>1. Modal(SigDflMode(World.tm), World.tm)
      BY <2>2, ModesAre
    <3>2. /\ Sound([World EXCEPT !.tm = SigDflMode(World.tm)])
          /\ TermOnly([World EXCEPT !.tm = SigDflMode(World.tm)], World)
      BY <2>2, <3>1, ModalSound
    <3>. QED
      BY <3>2 DEF TermOnly
  <2>4. Fine(ExitNow(u)) /\ Grows(World.frames, ExitNow(u).frames)
    BY <2>3, ExitNowFine
  <2>. QED
    BY <2>1, <2>2, <2>4, ForkDetachFine DEF Reaches, Moves
<1>6. CASE MenuReturn
  <2>1. At("menu") /\ Become(EndMenu(World))
    BY <1>6 DEF MenuReturn
  <2>2. /\ Fine(EndMenu(World)) /\ World.frames = frames
        /\ Shrinks(frames, EndMenu(World).frames) \/ EndMenu(World).frames = frames
    <3>1. /\ Sound(World) /\ World.frames = frames /\ World.status = "running"
          /\ World.frames # <<>> /\ Last(World.frames).kind = "menu"
          /\ Last(World.frames).aux = Null
      BY <2>1, AtIs
    <3>. QED
      BY <3>1, EndMenuFine
  <2>3. EndMenu(World).frames \in Seq(Frame)
    BY <2>2 DEF Fine, Typed, WorldStruct
  <2>. QED
    BY <2>1, <2>2, <2>3, SameMoves DEF Reaches, Moves
<1>. QED
  BY <1>1, <1>2, <1>3, <1>4, <1>5, <1>6

\* What a pick starts, and its end.
LEMMA PickSteps ==
  ASSUME Inv, PickHelp \/ PickExec \/ PickEnd
  PROVE  Fine(World') /\ Moves(frames, frames')
<1>. SUFFICES \E v : Reaches(v)
  BY ReachesIs
<1>1. CASE PickHelp
  <2>1. At("pick") /\ Room
    BY <1>1 DEF PickHelp
  <2>2. PICK out \in Outcome("view") : Become(PopupView(World, out))
    BY <1>1 DEF PickHelp
  <2>. QED
    BY <2>1, <2>2, AtIs, RoomIs, PopupViewFine DEF Reaches, Moves
<1>2. CASE PickExec
  <2>1. At("pick") /\ Room
    BY <1>2 DEF PickExec
  <2>2. PICK v \in Opens(World, "view") \cup ExecCommand(World) : Become(v)
    BY <1>2 DEF PickExec
  <2>3. /\ Sound(World) /\ World.frames = frames /\ World.status = "running"
        /\ Len(World.frames) < MaxFrames
    BY <2>1, AtIs, RoomIs
  <2>4. Fine(v) /\ Grows(World.frames, v.frames)
    BY <2>2, <2>3, OpensFine, ExecCommandFine DEF Kind
  <2>. QED
    BY <2>2, <2>3, <2>4 DEF Reaches, Moves
<1>3. CASE PickEnd
  <2>1. At("pick") /\ Become(EndPick(World))
    BY <1>3 DEF PickEnd
  <2>2. /\ Sound(World) /\ World.frames = frames /\ World.status = "running"
        /\ World.frames # <<>> /\ Last(World.frames).kind = "pick"
    BY <2>1, AtIs
  <2>3. Fine(EndPick(World)) /\ Shrinks(World.frames, EndPick(World).frames)
    BY <2>2, EndPickFine
  <2>. QED
    BY <2>1, <2>2, <2>3 DEF Reaches, Moves
<1>. QED
  BY <1>1, <1>2, <1>3

\* The receiver of a form starts from a form that is marked as ending, which holds what it
\* held.
LEMMA StagedGrows ==
  ASSUME NEW fr \in Seq(Frame), NEW gr \in Seq(Frame), Len(gr) = Len(fr), Kept(fr, gr, Len(fr)),
         NEW hr, Grows(gr, hr)
  PROVE  Grows(fr, hr)
<1>1. Len(fr) \in Nat
  OBVIOUS
<1>2. \A i \in 1..Len(fr), k \in Kind : Held(hr[i])[k] = Held(fr[i])[k]
  <2>1. TAKE i \in 1..Len(fr), k \in Kind
  <2>2. Held(hr[i])[k] = Held(gr[i])[k]
    BY DEF Grows, Kept
  <2>3. Held(gr[i])[k] = Held(fr[i])[k]
    BY DEF Kept
  <2>. QED
    BY <2>2, <2>3
<1>. QED
  BY <1>1, <1>2 DEF Grows, Kept

\* What a form starts, and its end.
LEMMA FormSteps ==
  ASSUME Inv, FormHelp \/ FormReceiver \/ FormEnd \/ FormEnds
  PROVE  Fine(World') /\ Moves(frames, frames')
<1>. SUFFICES \E v : Reaches(v)
  BY ReachesIs
<1>1. CASE FormHelp
  <2>1. At("form") /\ Room
    BY <1>1 DEF FormHelp
  <2>2. PICK out \in Outcome("view") : Become(PopupView(World, out))
    BY <1>1 DEF FormHelp
  <2>. QED
    BY <2>1, <2>2, AtIs, RoomIs, PopupViewFine DEF Reaches, Moves
<1>2. CASE FormReceiver
  <2>. DEFINE w == Stage(World, "ending")
  <2>1. At("form") /\ Room
    BY <1>2 DEF FormReceiver
  <2>2. PICK v \in Opens(w, "view") \cup ExecCommand(w) : Become(v)
    BY <1>2 DEF FormReceiver
  <2>3. /\ Sound(World) /\ World.frames = frames /\ World.status = "running"
        /\ Len(World.frames) < MaxFrames /\ World.frames # <<>>
        /\ Last(World.frames).aux = Null /\ Last(World.frames).kind = "form"
    BY <2>1, AtIs, RoomIs
  <2>4. /\ Sound(w) /\ w.status = "running" /\ Len(w.frames) = Len(World.frames)
        /\ Kept(World.frames, w.frames, Len(World.frames))
    BY <2>3, StageSound
  <2>5. World.frames \in Seq(Frame) /\ w.frames \in Seq(Frame)
    BY <2>3, <2>4 DEF Sound, Typed, WorldStruct
  <2>. HIDE DEF w
  <2>6. Fine(v) /\ Grows(w.frames, v.frames)
    BY <2>2, <2>3, <2>4, OpensFine, ExecCommandFine DEF Kind
  <2>7. Grows(World.frames, v.frames)
    BY <2>4, <2>5, <2>6, StagedGrows
  <2>. QED
    BY <2>2, <2>3, <2>6, <2>7 DEF Reaches, Moves
<1>3. CASE FormEnd \/ FormEnds
  <2>1. /\ Become(EndForm(World)) /\ status = "running" /\ frames # <<>>
        /\ Running.kind = "form"
    BY <1>3 DEF FormEnd, FormEnds, At
  <2>2. /\ Sound(World) /\ World.frames = frames /\ World.status = "running"
        /\ World.frames # <<>> /\ Last(World.frames).kind = "form"
    BY <2>1, RunningSound DEF Running
  <2>3. Last(World.frames).aux = Null
    BY <2>2, LastIs
  <2>4. Fine(EndForm(World)) /\ Shrinks(World.frames, EndForm(World).frames)
    BY <2>2, <2>3, EndFormFine
  <2>. QED
    BY <2>1, <2>2, <2>4 DEF Reaches, Moves
<1>. QED
  BY <1>1, <1>2, <1>3

\* The pager's window is made again: the old one is freed before the new one is
\* allocated.
LEMMA ResizeSound ==
  ASSUME NEW w, Sound(w), w.frames # <<>>, Last(w.frames).kind = "view",
         Last(w.frames).aux = Null,
         NEW t, t = SurfaceDestroy(w.tm, Last(w.frames).box),
         NEW v \in WorldStruct, Len(v.frames) = Len(w.frames),
         \A i \in 1..(Len(w.frames) - 1) : v.frames[i] = w.frames[i],
         SameEngine(v.frames[Len(w.frames)], Last(w.frames)),
         v.frames[Len(w.frames)].stage = Last(w.frames).stage,
         v.frames[Len(w.frames)].box = FreeSurface(t),
         v.tm = Allocated(t), v.init = w.init
  PROVE  Sound(v) /\ Grows(w.frames, v.frames)
<1>. DEFINE fr == w.frames
            gr == v.frames
            n == Len(w.frames)
            s == FreeSurface(t)
<1>1. /\ w \in WorldStruct /\ Whole(fr, w.init) /\ Leak(fr, w.tm) /\ Deep(fr)
      /\ n <= MaxFrames + 1 /\ Len(w.tm.ui_surface) <= MaxWin + 1
      /\ fr \in Seq(Frame) /\ gr \in Seq(Frame) /\ w.tm \in TermStruct
  BY DEF Sound, Typed, WorldStruct
<1>2. n \in Nat \ {0} /\ Last(fr) = fr[n] /\ Len(gr) = n /\ gr # <<>> /\ Last(gr) = gr[n]
  BY <1>1, FrontFrame
<1>3. /\ Sound(Free(w, Last(fr).box)) /\ Free(w, Last(fr).box).tm = t
      /\ Free(w, Last(fr).box).frames = fr
      /\ t.ui_surface = w.tm.ui_surface /\ t.live = w.tm.live \ {Last(fr).box}
  BY <1>1, FreeSound, FreeIs, SMTT(40) DEF TermOnly
<1>4. t \in TermStruct /\ Leak(fr, t)
  <2>1. Free(w, Last(fr).box) \in WorldStruct
    BY <1>3 DEF Sound, Typed
  <2>2. Leak(Free(w, Last(fr).box).frames, Free(w, Last(fr).box).tm)
    BY <1>3 DEF Sound
  <2>3. Free(w, Last(fr).box).tm \in TermStruct
    BY <2>1 DEF WorldStruct
  <2> QED
    BY <1>3, <2>2, <2>3
<1>5. s \in Surface \ t.live
  BY <1>1, <1>3, <1>4, FreeSurfaceExists
<1>6. v.tm \in TermStruct /\ v.tm.live = t.live \cup {s} /\ v.tm.ui_surface = t.ui_surface
  BY <1>4, <1>5, BoxWinNewIs
<1>7. Alike(fr, gr)
  <2>1. SUFFICES ASSUME NEW i \in 1..n
                 PROVE  /\ gr[i].kind = fr[i].kind /\ gr[i].obj = fr[i].obj
                        /\ gr[i].saved = fr[i].saved /\ gr[i].aux = fr[i].aux
    BY <1>1, <1>2 DEF Alike
  <2>2. CASE i = n
    BY <1>2, <2>2 DEF SameEngine
  <2>3. CASE i # n
    BY <1>2, <2>1, <2>3
  <2>. QED
    BY <2>2, <2>3
<1>8. Staged(gr)
  <2>1. SUFFICES ASSUME NEW i \in 1..n
                 PROVE  /\ gr[i].aux # Null => gr[i].stage = "run"
                        /\ gr[i].stage = "failed" => gr[i].kind \in Kind
                        /\ gr[i].stage = "ending" => gr[i].kind = "form"
    BY <1>2 DEF Staged
  <2>2. /\ fr[i].aux # Null => fr[i].stage = "run"
        /\ fr[i].stage = "failed" => fr[i].kind \in Kind
        /\ fr[i].stage = "ending" => fr[i].kind = "form"
    BY <1>1 DEF Whole, Engines
  <2>3. gr[i].stage = fr[i].stage
    BY <1>2, <2>1
  <2>. QED
    BY <1>7, <1>2, <2>2, <2>3 DEF Alike
<1>9. Whole(gr, v.init)
  BY <1>1, <1>7, <1>8, AlikeWhole
<1>10. Leak(gr, v.tm)
  <2>1. SUFFICES ASSUME NEW r \in v.tm.live
                 PROVE  \/ \E i \in 1..Len(v.tm.ui_surface) : v.tm.ui_surface[i] = r
                        \/ \E i \in 1..n : gr[i].kind = "view" /\ gr[i].box = r
                        \/ \E i \in 1..n : gr[i].aux # Null /\ gr[i].auxbox = r
    BY <1>2 DEF Leak
  <2>2. CASE r = s
    <3>1. n \in 1..n /\ gr[n].kind = "view" /\ gr[n].box = r
      BY <1>2, <2>2 DEF SameEngine
    <3>. QED
      BY <3>1
  <2>3. CASE r # s
    <3>1. r \in w.tm.live /\ r # fr[n].box
      BY <1>2, <1>3, <1>6, <2>1, <2>3
    <3>2. CASE \E i \in 1..Len(w.tm.ui_surface) : w.tm.ui_surface[i] = r
      BY <1>3, <1>6, <3>2
    <3>3. CASE \E i \in 1..n : fr[i].kind = "view" /\ fr[i].box = r
      <4>1. PICK i \in 1..n : fr[i].kind = "view" /\ fr[i].box = r
        BY <3>3
      <4>2. i \in 1..(n - 1)
        BY <1>2, <3>1, <4>1
      <4>3. gr[i] = fr[i]
        BY <4>2
      <4>. QED
        BY <4>1, <4>3
    <3>4. CASE \E i \in 1..n : fr[i].aux # Null /\ fr[i].auxbox = r
      <4>1. PICK i \in 1..n : fr[i].aux # Null /\ fr[i].auxbox = r
        BY <3>4
      <4>2. i \in 1..(n - 1)
        BY <1>2, <4>1
      <4>3. gr[i] = fr[i]
        BY <4>2
      <4>. QED
        BY <4>1, <4>3
    <3>. QED
      BY <1>1, <3>1, <3>2, <3>3, <3>4 DEF Leak
  <2>. QED
    BY <2>2, <2>3
<1>11. Deep(gr)
  <2>1. gr[n].kind = fr[n].kind
    BY <1>2 DEF SameEngine
  <2>. QED
    BY <1>1, <1>2, <2>1 DEF Deep
<1>12. Kept(fr, gr, n)
  BY <1>7, HeldIs DEF Kept, Alike
<1>13. Grows(fr, gr)
  BY <1>2, <1>12 DEF Grows
<1>14. Typed(v)
  BY <1>1, <1>2, <1>3, <1>6 DEF Typed
<1>. QED
  BY <1>9, <1>10, <1>11, <1>13, <1>14 DEF Sound

\* What the pager starts, its window made again, and its end.
LEMMA ViewSteps ==
  ASSUME Inv, ViewHelp \/ ViewWrite \/ ViewShell \/ ViewMessage \/ ViewResize \/ ViewEnd
  PROVE  Fine(World') /\ Moves(frames, frames')
<1>. SUFFICES \E v : Reaches(v)
  BY ReachesIs
<1>1. CASE ViewHelp
  <2>1. At("view") /\ Room
    BY <1>1 DEF ViewHelp
  <2>2. PICK out \in Outcome("view") : Become(PopupView(World, out))
    BY <1>1 DEF ViewHelp
  <2>. QED
    BY <2>1, <2>2, AtIs, RoomIs, PopupViewFine DEF Reaches, Moves
<1>2. CASE ViewWrite
  <2>1. At("view") /\ Room
    BY <1>2 DEF ViewWrite
  <2>2. PICK out \in Outcome("form") : Become(PopupForm(World, out))
    BY <1>2 DEF ViewWrite
  <2>. QED
    BY <2>1, <2>2, AtIs, RoomIs, PopupFormFine DEF Reaches, Moves
<1>3. CASE ViewShell
  <2>1. At("view") /\ Room /\ (Become(ForkExec(World)) \/ Become(ForkExecFails(World)))
    BY <1>3 DEF ViewShell
  <2>. QED
    BY <2>1, AtIs, RoomIs, ForkExecFine DEF Reaches, Moves
<1>4. CASE ViewMessage
  <2>1. At("view") /\ Room /\ Become(Notice(World))
    BY <1>4 DEF ViewMessage
  <2>. QED
    BY <2>1, AtIs, RoomIs, MessageFine DEF Reaches, Moves
<1>5. CASE ViewResize
  <2>. DEFINE t == SurfaceDestroy(tm, Running.box)
              s == FreeSurface(t)
              n == Len(frames)
              v == [World EXCEPT !.frames[Len(frames)].box = FreeSurface(t),
                                 !.tm = Allocated(t)]
  <2>1. At("view") /\ Become(v)
    BY <1>5 DEF ViewResize
  <2>2. /\ Sound(World) /\ World \in WorldStruct /\ World.frames = frames /\ World.tm = tm
        /\ frames # <<>> /\ Last(World.frames).kind = "view"
        /\ Last(World.frames).aux = Null /\ Last(World.frames) = Running
        /\ frames \in Seq(Frame) /\ tm \in TermStruct
    BY <2>1, AtIs, RunningSound
  <2>3. n \in Nat \ {0} /\ n \in 1..n /\ Last(frames) = frames[n] /\ frames[n] \in Frame
    BY <2>2, FrontFrame
  <2>4. t \in TermStruct /\ s \in Surface
    <3>1. Free(World, Running.box).tm = t /\ Sound(Free(World, Running.box))
          /\ Free(World, Running.box).frames = frames
      BY <2>2, FreeIs, FreeSound DEF TermOnly
    <3>. HIDE DEF t
    <3>2. t \in TermStruct /\ Len(t.ui_surface) <= MaxWin + 1 /\ Leak(frames, t)
          /\ Len(frames) <= MaxFrames + 1
      BY <3>1 DEF Sound, Typed, WorldStruct
    <3>. QED
      BY <2>2, <3>2, FreeSurfaceExists
  <2>5. Allocated(t) \in TermStruct
    BY <2>4, BoxWinNewIs
  <2>. DEFINE g == [frames[n] EXCEPT !.box = s]
              gr == [frames EXCEPT ![n] = g]
  <2>6. v = [World EXCEPT !.frames = gr, !.tm = Allocated(t)]
    BY <2>2 DEF WorldStruct
  <2>. HIDE DEF v
  <2>7. g \in Frame /\ SameEngine(g, frames[n]) /\ g.stage = frames[n].stage /\ g.box = s
    <3>. HIDE DEF s
    <3>. QED
      BY <2>3, <2>4 DEF Frame, SameEngine
  <2>. HIDE DEF g
  <2>8. /\ gr \in Seq(Frame) /\ Len(gr) = n /\ gr[n] = g
        /\ \A i \in 1..(n - 1) : gr[i] = frames[i]
    BY <2>2, <2>3, <2>7
  <2>. HIDE DEF gr
  <2>9. /\ v \in WorldStruct /\ v.frames = gr /\ v.tm = Allocated(t)
        /\ v.init = World.init
    <3>. HIDE DEF t
    <3>. QED
      BY <2>2, <2>5, <2>6, <2>8 DEF WorldStruct
  <2>. HIDE DEF t
  <2>10. t = SurfaceDestroy(World.tm, Last(World.frames).box)
    BY <2>2 DEF t
  <2>11. /\ Len(v.frames) = n /\ \A i \in 1..(n - 1) : v.frames[i] = frames[i]
         /\ SameEngine(v.frames[n], Last(frames)) /\ v.frames[n].stage = Last(frames).stage
         /\ v.frames[n].box = FreeSurface(t)
    BY <2>3, <2>7, <2>8, <2>9
  <2>12. Sound(v) /\ Grows(frames, v.frames)
    BY <2>2, <2>9, <2>10, <2>11, ResizeSound
  <2>. QED
    BY <2>1, <2>9, <2>12 DEF Reaches, Moves, Fine, Sound
<1>6. CASE ViewEnd
  <2>1. At("view") /\ Become(EndView(World))
    BY <1>6 DEF ViewEnd
  <2>2. /\ Sound(World) /\ World.frames = frames /\ World.status = "running"
        /\ World.frames # <<>> /\ Last(World.frames).kind = "view"
        /\ Last(World.frames).aux = Null
    BY <2>1, AtIs
  <2>3. Fine(EndView(World)) /\ Shrinks(World.frames, EndView(World).frames)
    BY <2>2, EndViewFine
  <2>. QED
    BY <2>1, <2>2, <2>3 DEF Reaches, Moves
<1>. QED
  BY <1>1, <1>2, <1>3, <1>4, <1>5, <1>6

\* A child and a detached process are nothing an engine holds.
LEMMA ProcessSteps ==
  ASSUME Inv, DetachDone \/ ChildEnd
  PROVE  Fine(World') /\ Moves(frames, frames')
<1>. SUFFICES \E v : Reaches(v)
  BY ReachesIs
<1>. DEFINE w == Pop(World)
<1>1. /\ status = "running" /\ frames # <<>> /\ Running.kind \in {"detach", "child"}
      /\ \E u \in {SigProgMode(RestoreCurses(w.tm)), SigProgMode(w.tm), UiResume(w.tm)} :
             Become([w EXCEPT !.tm = u])
  <2>1. CASE DetachDone
    BY <2>1 DEF DetachDone
  <2>2. CASE ChildEnd
    <3>1. /\ status = "running" /\ frames # <<>> /\ Running.kind = "child"
          /\ Become(IF Last(w.frames).kind \in {"pick", "form"}
                    THEN [w EXCEPT !.tm = SigProgMode(@)]
                    ELSE [w EXCEPT !.tm = UiResume(@)])
      BY <2>2 DEF ChildEnd
    <3>. QED
      BY <3>1
  <2>. QED
    BY <2>1, <2>2
<1>2. PICK u \in {SigProgMode(RestoreCurses(w.tm)), SigProgMode(w.tm), UiResume(w.tm)} :
           Become([w EXCEPT !.tm = u])
  BY <1>1
<1>3. /\ Sound(World) /\ World.frames = frames /\ Last(World.frames).kind \notin Kind
      /\ Last(World.frames).aux = Null
  BY <1>1, RunningSound, LastIs DEF Running, Kind
<1>4. Sound(w) /\ Shrinks(frames, w.frames) /\ w.tm \in TermStruct
  BY <1>1, <1>3, PopsFine DEF Sound, Typed, WorldStruct
<1>. HIDE DEF w
<1>5. Modal(u, w.tm)
  <2>1. Modal(RestoreCurses(w.tm), w.tm) /\ RestoreCurses(w.tm) \in TermStruct
    BY <1>4, ModesAre DEF Modal
  <2>2. Modal(SigProgMode(RestoreCurses(w.tm)), w.tm)
    BY <2>1, ModesAre DEF Modal
  <2>. QED
    BY <1>2, <1>4, <2>2, ModesAre
<1>6. Fine([w EXCEPT !.tm = u]) /\ [w EXCEPT !.tm = u].frames = w.frames
  BY <1>4, <1>5, ModalFine
<1>. QED
  BY <1>2, <1>4, <1>6 DEF Reaches, Moves

\* The key test, whose window is freed and stays on the stack of surfaces.
LEMMA CkeysSteps ==
  ASSUME Inv, CkeysSignal \/ CkeysQuit \/ CkeysEnd
  PROVE  Fine(World') /\ Moves(frames, frames')
<1>. SUFFICES \E v : Reaches(v)
  BY ReachesIs
<1>1. CASE CkeysSignal
  <2>1. /\ status = "running" /\ frames # <<>> /\ Running.kind = "ckeys"
        /\ Become(Notice(World))
    BY <1>1 DEF CkeysSignal
  <2>2. Sound(World) /\ World.frames = frames /\ Last(World.frames).kind = "ckeys"
    BY <2>1, RunningSound DEF Running
  <2>3. Fine(Notice(World)) /\ Grows(World.frames, Notice(World).frames)
    BY <2>2, MessageFine
  <2>. QED
    BY <2>1, <2>2, <2>3 DEF Reaches, Moves
<1>2. CASE CkeysQuit
  <2>. DEFINE u == CloseTop(World, Running.box)
  <2>1. At("notice") /\ Become(ExitNow(u))
    BY <1>2 DEF CkeysQuit
  <2>2. Sound(World) /\ World.frames = frames
    BY <2>1, AtIs
  <2>3. Sound(u) /\ u.frames = frames
    BY <2>2, CloseSound DEF TermOnly
  <2>. HIDE DEF u
  <2>4. Fine(ExitNow(u)) /\ Grows(u.frames, ExitNow(u).frames)
    BY <2>3, ExitNowFine
  <2>. QED
    BY <2>1, <2>3, <2>4 DEF Reaches, Moves
<1>3. CASE CkeysEnd
  <2>. DEFINE u == Free(World, Running.box)
              w == Losing(u, "ckeys")
  <2>1. At("ckeys") /\ Become(IF IsRoot(w) THEN EndMain(w) ELSE Pop(w))
    BY <1>3 DEF CkeysEnd
  <2>2. /\ Sound(World) /\ World.frames = frames /\ Last(World.frames).kind = "ckeys"
        /\ Last(World.frames).aux = Null /\ frames # <<>>
    BY <2>1, AtIs
  <2>3. Sound(u) /\ u.frames = frames /\ u.init = World.init /\ u \in WorldStruct
    BY <2>2, FreeSound DEF TermOnly
  <2>. HIDE DEF u
  <2>4. /\ w \in WorldStruct /\ w.frames = frames /\ w.init = World.init /\ w.tm = u.tm
    BY <2>3, LosingIs DEF Path
  <2>. HIDE DEF w
  <2>5. Sound(w)
    BY <2>3, <2>4, TermSound
  <2>6. Fine(EndMain(w)) /\ Shrinks(frames, EndMain(w).frames)
    <3>1. Len(w.frames) <= MaxFrames + 1 /\ Len(w.tm.ui_surface) <= MaxWin + 1
      BY <2>5 DEF Sound, Typed
    <3>2. w.init.ptr["view"] # Null => Ends(w.init, "view")
      BY <2>5, ViewEnds
    <3>. QED
      BY <2>2, <2>4, <3>1, <3>2, EndMainFine
  <2>7. Fine(Pop(w)) /\ Shrinks(frames, Pop(w).frames)
    BY <2>2, <2>4, <2>5, PopsFine DEF Kind, Fine, Sound
  <2>. QED
    BY <2>1, <2>6, <2>7 DEF Reaches, Moves
<1>. QED
  BY <1>1, <1>2, <1>3

\* Two engines end one after the other.
LEMMA DropsTwo ==
  ASSUME NEW fr \in Seq(Frame), NEW gr \in Seq(Frame), NEW hr, Shrinks(fr, gr),
         Shrinks(gr, hr)
  PROVE  Drops(fr, hr, 2)
<1>1. Len(fr) \in Nat /\ Len(gr) = Len(fr) - 1 /\ Len(hr) = Len(fr) - 2 /\ Len(hr) \in Nat
  BY DEF Shrinks, Drops
<1>2. \A i \in 1..Len(hr), k \in Kind : Held(hr[i])[k] = Held(fr[i])[k]
  <2>1. TAKE i \in 1..Len(hr), k \in Kind
  <2>2. i \in 1..Len(gr)
    BY <1>1
  <2>3. Held(hr[i])[k] = Held(gr[i])[k]
    BY DEF Shrinks, Drops, Kept
  <2>4. Held(gr[i])[k] = Held(fr[i])[k]
    BY <2>2 DEF Shrinks, Drops, Kept
  <2>. QED
    BY <2>3, <2>4
<1>. QED
  BY <1>1, <1>2 DEF Drops, Kept

\* A message is closed, and the engine that failed ends with it.
LEMMA NoticeSteps ==
  ASSUME Inv, NoticeEnd
  PROVE  Fine(World') /\ Moves(frames, frames')
<1>. SUFFICES \E v : Reaches(v)
  BY ReachesIs
<1>. DEFINE u == CloseTop(World, Running.box)
            w == Pop(u)
            f == Last(w.frames)
<1>1. /\ At("notice")
      /\ Become(IF w.frames = <<>> \/ f.stage # "failed" THEN w
                ELSE CASE f.kind = "menu" -> Abend(w)
                       [] f.kind = "pick" -> GiveUpPick(w)
                       [] f.kind = "form" -> GiveUpForm(w)
                       [] f.kind = "view" -> EndView(w))
  BY DEF NoticeEnd
<1>2. /\ Sound(World) /\ World.frames = frames /\ World.status = "running"
      /\ frames # <<>> /\ Last(World.frames).kind = "notice"
      /\ Last(World.frames).aux = Null
  BY <1>1, AtIs
<1>3. Sound(u) /\ u.frames = frames /\ u.status = "running"
  BY <1>2, CloseSound DEF TermOnly
<1>. HIDE DEF u
<1>4. Sound(w) /\ Shrinks(frames, w.frames) /\ w.status = "running"
  BY <1>2, <1>3, PopsFine DEF FramesOnly, Kind
<1>. HIDE DEF w
<1>5. frames \in Seq(Frame) /\ w.frames \in Seq(Frame) /\ w \in WorldStruct
      /\ Len(w.frames) <= MaxFrames + 1 /\ Len(w.tm.ui_surface) <= MaxWin + 1
  BY <1>2, <1>4 DEF Sound, Typed, WorldStruct
<1>6. CASE w.frames = <<>> \/ f.stage # "failed"
  BY <1>1, <1>4, <1>6 DEF Reaches, Moves, Fine, Sound
<1>7. CASE w.frames # <<>> /\ f.stage = "failed"
  <2>1. f.kind \in Kind /\ f.aux = Null
    BY <1>4, <1>7, LastIs
  <2>2. CASE f.kind = "menu"
    <3>1. Become(Abend(w))
      BY <1>1, <1>7, <2>2
    <3>2. Fine(Abend(w)) /\ Abend(w).frames = w.frames
      BY <1>5, AbendFine
    <3>. QED
      BY <1>4, <3>1, <3>2 DEF Reaches, Moves
  <2>3. CASE f.kind = "pick"
    <3>1. Become(GiveUpPick(w))
      BY <1>1, <1>7, <2>3
    <3>2. Fine(GiveUpPick(w)) /\ Shrinks(w.frames, GiveUpPick(w).frames)
      BY <1>4, <1>7, <2>1, <2>3, GiveUpPickFine
    <3>. QED
      BY <1>4, <1>5, <3>1, <3>2, DropsTwo DEF Reaches, Moves
  <2>4. CASE f.kind = "form"
    <3>1. Become(GiveUpForm(w))
      BY <1>1, <1>7, <2>4
    <3>2. Fine(GiveUpForm(w)) /\ Shrinks(w.frames, GiveUpForm(w).frames)
      BY <1>4, <1>7, <2>1, <2>4, GiveUpFormFine
    <3>. QED
      BY <1>4, <1>5, <3>1, <3>2, DropsTwo DEF Reaches, Moves
  <2>5. CASE f.kind = "view"
    <3>1. Become(EndView(w))
      BY <1>1, <1>7, <2>5
    <3>2. Fine(EndView(w)) /\ Shrinks(w.frames, EndView(w).frames)
      BY <1>4, <1>7, <2>1, <2>5, EndViewFine
    <3>. QED
      BY <1>4, <1>5, <3>1, <3>2, DropsTwo DEF Reaches, Moves
  <2>. QED
    BY <2>1, <2>2, <2>3, <2>4, <2>5 DEF Kind
<1>. QED
  BY <1>6, <1>7

\* A crash and a signal change neither frames nor structures.
LEMMA OtherSteps ==
  ASSUME Inv, CrashOnFreed \/ Signal
  PROVE  Fine(World') /\ Moves(frames, frames')
<1>1. status = "running"
  BY DEF CrashOnFreed, Signal
<1>2. /\ Sound(World) /\ World \in WorldStruct /\ World.frames = frames /\ World.tm = tm
      /\ World.status = "running" /\ World.init = init /\ frames \in Seq(Frame)
  BY <1>1, RunningSound
<1>3. CASE CrashOnFreed
  <2>1. Become(Crashed(World))
    BY <1>3 DEF CrashOnFreed
  <2>2. Fine(Crashed(World)) /\ Grows(World.frames, Crashed(World).frames)
    BY <1>2, CrashedIs, StoppedFine
  <2>. QED
    BY <1>2, <2>1, <2>2, ReachesIs DEF Reaches, Moves
<1>4. CASE Signal
  <2>1. /\ frames' = frames /\ init' = init /\ tm' = tm /\ lost' = lost
        /\ status' \in {"running", "killed"}
    BY <1>1, <1>4 DEF Signal
  <2>2. /\ World' \in WorldStruct /\ World'.frames = frames /\ World'.tm = tm
        /\ World'.init = init
    BY <1>2, <2>1 DEF World, WorldStruct, Status
  <2>3. World'.status = "running" => World' = World
    BY <1>1, <2>1 DEF World
  <2>4. Fine(World') /\ Grows(World.frames, World'.frames)
    <3>1. CASE World'.status = "running"
      BY <1>2, <2>3, <3>1, SameMoves DEF Fine, Sound
    <3>2. CASE World'.status # "running"
      BY <1>2, <2>2, <3>2, StoppedFine
    <3>. QED
      BY <3>1, <3>2
  <2>. QED
    BY <1>2, <2>1, <2>2, <2>4 DEF Moves
<1>. QED
  BY <1>3, <1>4

\* Before main starts its engine.
LEMMA StartedSound ==
  /\ Started0 \in WorldStruct /\ Started0.status = "running"
  /\ Sound(Started0) /\ OnlyMenus(Started0.frames)
  /\ Len(Started0.frames) < MaxFrames
<1>. DEFINE w == Started0
<1>1. /\ w \in WorldStruct /\ w.frames = <<>> /\ w.status = "running"
      /\ w.tm.live = {} /\ w.tm.ui_surface = <<>> /\ w.tm.f_curses_open
      /\ w.init \in InitStruct
      /\ \A k \in Kind : w.init.ptr[k] = Null /\ w.init.cnt[k] = 0 /\ w.init.live[k] = {}
  BY SessionAssumption DEF Started0, Started, WorldStruct, InitStruct, TermStruct, Status
<1>2. /\ Len(w.frames) = 0 /\ w.frames \in Seq(Frame) /\ Len(w.tm.ui_surface) = 0
      /\ MaxFrames \in Nat \ {0} /\ MaxWin \in Nat
  BY <1>1, SessionAssumption, TerminalAssumption
<1>. HIDE DEF w
<1>3. Whole(w.frames, w.init)
  <2>1. Engines(w.frames) /\ Nested(w.frames) /\ PickKnown(w.frames, w.init)
    BY <1>2 DEF Engines, Nested, PickKnown
  <2>2. ASSUME NEW k \in Kind
        PROVE  Known(w.frames, w.init, k)
    <3>1. HeldSet(w.frames, k) = {}
      BY <1>2 DEF HeldSet
    <3>2. Inner(w.frames, 0, k) = Null
      BY InnerStep
    <3>3. Inner(w.frames, Len(w.frames), k) = Null
      BY <1>2, <3>2
    <3>4. Cardinality(HeldSet(w.frames, k)) = 0
      BY <3>1, FS_EmptySet
    <3>5. \A i, j \in 1..Len(w.frames) : i = j
      BY <1>2
    <3>. QED
      BY <1>1, <3>1, <3>3, <3>4, <3>5 DEF Known
  <2>. QED
    BY <1>1, <1>2, <2>1, <2>2 DEF Whole
<1>4. Sound(w) /\ OnlyMenus(w.frames) /\ Len(w.frames) < MaxFrames
  BY <1>1, <1>2, <1>3 DEF Sound, Typed, Leak, Deep, OnlyMenus
<1>. QED
  BY <1>1, <1>2, <1>4 DEF w

\* main starts one engine from nothing.
LEMMA StartedGrows ==
  ASSUME Init
  PROVE  \E v : Fine(v) /\ Begins(v) /\ Grows(Started0.frames, v.frames)
<1>. DEFINE w == Started0
<1>1. /\ w.status = "running" /\ Sound(w) /\ OnlyMenus(w.frames)
      /\ Len(w.frames) < MaxFrames
  BY StartedSound
<1>. HIDE DEF w
<1>2. ASSUME NEW k \in Kind, NEW out \in Outcome(k)
      PROVE  Fine(Popup(w, k, out)) /\ Grows(w.frames, Popup(w, k, out).frames)
  BY <1>1, PopupFine
<1>3. Fine(PopupCkeys(w)) /\ Grows(w.frames, PopupCkeys(w).frames)
  BY <1>1, PopupCkeysFine
<1>4. \/ \E k \in Kind : \E out \in Outcome(k) : Begins(Popup(w, k, out))
      \/ Begins(PopupCkeys(w))
  BY DEF Init, w
<1>5. \E v : Fine(v) /\ Begins(v) /\ Grows(w.frames, v.frames)
  BY <1>2, <1>3, <1>4
<1>. QED
  BY <1>5 DEF w

\* Whatever main starts, the program begins Fine.
LEMMA InitFine ==
  ASSUME Init
  PROVE  Inv
<1>1. PICK v : Fine(v) /\ Begins(v)
  BY StartedGrows
<1>2. World = v
  BY <1>1 DEF Fine, Typed, WorldStruct, Begins, World
<1>. QED
  BY <1>1, <1>2 DEF Inv, Init

\* The invariant is inductive, and every step opens or closes at most two engines.
LEMMA NextFine ==
  ASSUME Inv, Next
  PROVE  Inv' /\ Moves(frames, frames')
<1>1. sig_received' \in BOOLEAN
  BY DEF Inv, Next, At, Runs, RunPopup, MenuHelp, RunCkeys, RunExec, RunExecNoArgs, RunDexe,
         DetachDone, MenuReturn, PickHelp, PickExec, PickEnd, FormHelp, FormReceiver, FormEnd,
         FormEnds, ViewHelp, ViewWrite, ViewShell, ViewMessage, ViewResize, ViewEnd,
         CkeysSignal, CkeysQuit, CkeysEnd, NoticeEnd, ChildEnd, CrashOnFreed, Signal
<1>2. Fine(World') /\ Moves(frames, frames')
  BY MenuSteps, PickSteps, FormSteps, ViewSteps, CkeysSteps, ProcessSteps, NoticeSteps,
     OtherSteps DEF Next
<1>. QED
  BY <1>1, <1>2 DEF Inv, Fine, Typed, Sound

\* Nothing happens.
LEMMA StutterFine ==
  ASSUME Inv, UNCHANGED vars
  PROVE  Inv'
BY DEF Inv, vars, World

\* The invariant of every run.
LEMMA Invariant == Spec => []Inv
<1>1. Init => Inv
  BY InitFine
<1>2. Inv /\ [Next]_vars => Inv'
  BY NextFine, StutterFine
<1>. QED
  BY <1>1, <1>2, PTL DEF Spec

-----------------------------------------------------------------------------
(* What follows. *)

\* Whatever engines are nested, whatever fails and whatever arrives meanwhile, every
\* variable keeps the type the C declares: the counts of struct Init (common.h) stay
\* within what one level of popups each allows, and the stack of surfaces is never more
\* than one longer than its array (box_win_new).
THEOREM TypeCorrect == Spec => []TypeOK
<1>1. Inv => TypeOK
  <2>1. SUFFICES ASSUME Inv PROVE TypeOK
    OBVIOUS
  <2>2. /\ World \in WorldStruct /\ Len(World.frames) <= MaxFrames + 1
        /\ Len(World.tm.ui_surface) <= MaxWin + 1
    BY <2>1 DEF Inv, Fine, Typed
  <2>3. /\ frames \in Seq(Frame) /\ init \in InitStruct /\ tm \in TermStruct
        /\ lost \in SUBSET Path /\ status \in Status
        /\ Len(frames) <= MaxFrames + 1 /\ Len(tm.ui_surface) <= MaxWin + 1
    BY <2>2 DEF World, WorldStruct
  <2>. QED
    BY <2>1, <2>3 DEF TypeOK, InitStruct, Path, Status, Inv
<1>. QED
  BY <1>1, Invariant, PTL

\* The structures of the engines on the call stack, by the two ways to count them.
LEMMA HoldsIs ==
  ASSUME NEW k \in Kind, frames \in Seq(Frame), Engines(frames)
  PROVE  Holds(k) = HeldSet(frames, k)
<1>1. DOMAIN frames = 1..Len(frames)
  OBVIOUS
<1>2. \A i \in 1..Len(frames) :
          /\ frames[i].kind = k => Held(frames[i])[k] = frames[i].obj /\ frames[i].obj # Null
          /\ frames[i].kind # k => Held(frames[i])[k] = IF k = "view" THEN frames[i].aux
                                                        ELSE Null
          /\ frames[i].kind = "view" => frames[i].aux = Null
  BY HeldIs DEF Engines
<1>3. ASSUME NEW x \in Holds(k)
      PROVE  x \in HeldSet(frames, k)
  <2>1. CASE \E i \in 1..Len(frames) : frames[i].kind = k /\ x = frames[i].obj
    BY <1>2, <2>1 DEF HeldSet
  <2>2. CASE k = "view" /\ x # Null /\ \E i \in 1..Len(frames) : x = frames[i].aux
    BY <1>2, <2>2 DEF HeldSet
  <2>. QED
    BY <1>1, <1>3, <2>1, <2>2 DEF Holds
<1>4. ASSUME NEW x \in HeldSet(frames, k)
      PROVE  x \in Holds(k)
  <2>1. PICK i \in 1..Len(frames) : x = Held(frames[i])[k]
    BY <1>4 DEF HeldSet
  <2>2. x # Null
    BY <1>4 DEF HeldSet
  <2>3. CASE frames[i].kind = k
    BY <1>1, <1>2, <2>1, <2>3 DEF Holds
  <2>4. CASE frames[i].kind # k
    BY <1>1, <1>2, <2>1, <2>2, <2>4 DEF Holds
  <2>. QED
    BY <2>3, <2>4
<1>. QED
  BY <1>3, <1>4

\* While the program runs, each structure that is allocated belongs to one engine on the
\* call stack, none is freed twice or forgotten, and the counts of struct Init say how
\* many there are: also when a description is missing, a file cannot be opened, the window
\* of a message is refused or a command could not be started (mem.c, popups.c).
THEOREM CountsCorrect == Spec => []CountsRight
<1>1. Inv => CountsRight
  <2>1. SUFFICES ASSUME Inv, status = "running", NEW k \in Kind
                 PROVE  init.live[k] = Holds(k) /\ init.cnt[k] = Cardinality(Holds(k))
    BY DEF CountsRight
  <2>2. Sound(World) /\ World.frames = frames /\ World.init = init /\ frames \in Seq(Frame)
    BY <2>1, RunningSound
  <2>3. Engines(frames) /\ Known(frames, init, k)
    BY <2>2 DEF Sound, Whole
  <2>4. Holds(k) = HeldSet(frames, k)
    BY <2>2, <2>3, HoldsIs
  <2>. QED
    BY <2>3, <2>4 DEF Known
<1>. QED
  BY <1>1, Invariant, PTL

-----------------------------------------------------------------------------
(* The refinement of PopupStack. *)

Current == IF status = "running" THEN init.ptr ELSE [k \in Kind |-> InnermostHeld(k)]

\* The two ways to say what the innermost engine holds are one.
LEMMA InnermostIs ==
  ASSUME NEW k \in Kind, frames \in Seq(Frame)
  PROVE  /\ Stack!Innermost(Open, k) = Inner(frames, Len(frames), k)
         /\ InnermostHeld(k) = Inner(frames, Len(frames), k)
<1>. DEFINE H == Having(frames, Len(frames), k)
            hi == {i \in DOMAIN Open : Open[i][k] # Null}
<1>1. Len(frames) \in Nat /\ DOMAIN frames = 1..Len(frames) /\ DOMAIN Open = DOMAIN frames
  BY DEF Open
<1>2. \A i \in 1..Len(frames) : Open[i] = Held(frames[i])
  BY <1>1 DEF Open
<1>3. hi = H
  BY <1>1, <1>2 DEF Having
<1>4. CASE H = {}
  BY <1>3, <1>4 DEF Stack!Innermost, InnermostHeld, Inner
<1>5. CASE H # {}
  <2>1. PICK x \in H : \A j \in H : j <= x
    <3>1. H \in SUBSET (0..Len(frames))
      BY <1>1 DEF Having
    <3>. QED
      BY <1>1, <1>5, <3>1, NatMax
  <2>2. \A y \in H : (\A j \in H : j <= y) => y = x
    BY <1>1, <2>1 DEF Having
  <2>3. \A y \in H : (\A j \in H : y >= j) => y = x
    BY <1>1, <2>1 DEF Having
  <2>4. (CHOOSE i \in H : \A j \in H : j <= i) = x
    BY <2>1, <2>2
  <2>5. Max(H) = x
    <3>1. \A j \in H : x >= j
      BY <1>1, <2>1 DEF Having
    <3>. QED
      BY <2>1, <2>3, <3>1 DEF Max
  <2>6. Open[x] = Held(frames[x])
    BY <1>2, <2>1 DEF Having
  <2>7. Inner(frames, Len(frames), k) = Held(frames[x])[k]
    BY <1>5, <2>4 DEF Inner
  <2>8. InnermostHeld(k) = Open[x][k]
    BY <1>3, <1>5, <2>5 DEF InnermostHeld
  <2>9. Stack!Innermost(Open, k) = Open[x][k]
    BY <1>3, <1>5, <2>4 DEF Stack!Innermost
  <2>. QED
    BY <2>6, <2>7, <2>8, <2>9
<1>. QED
  BY <1>4, <1>5

\* In every state init points to what the innermost engine of each kind holds.
Agrees ==
    /\ Open \in Seq(Stack!Popup) /\ Len(Open) = Len(frames) /\ Len(frames) \in Nat
    /\ frames \in Seq(Frame)
    /\ Current = [k \in Kind |-> Stack!Innermost(Open, k)]

LEMMA CurrentIs == Inv => Agrees
<1>. SUFFICES ASSUME Inv PROVE Agrees
  OBVIOUS
<1>1. frames \in Seq(Frame) /\ init \in InitStruct /\ Len(frames) \in Nat
  BY DEF Inv, Fine, Typed, WorldStruct, World
<1>2. \A f \in Frame : Held(f) \in Stack!Popup
  <2>1. SUFFICES ASSUME NEW f \in Frame PROVE Held(f) \in Stack!Popup
    OBVIOUS
  <2>2. \A k \in Kind : Held(f)[k] \in Id \cup {Null}
    BY FrameHeld
  <2>3. Held(f) = [k \in Kind |-> Held(f)[k]]
    BY DEF Held
  <2>. QED
    BY <2>2, <2>3 DEF Stack!Popup
<1>3. Open \in Seq(Stack!Popup) /\ Len(Open) = Len(frames)
  BY <1>1, <1>2 DEF Open
<1>4. \A k \in Kind : Stack!Innermost(Open, k) = Inner(frames, Len(frames), k)
  BY <1>1, InnermostIs
<1>5. CASE status = "running"
  <2>1. \A k \in Kind : init.ptr[k] = Inner(frames, Len(frames), k)
    BY <1>5, RunningSound DEF Sound, Whole, Known
  <2>2. init.ptr = [k \in Kind |-> init.ptr[k]]
    BY <1>1 DEF InitStruct
  <2>3. Current = init.ptr
    BY <1>5 DEF Current
  <2>4. [k \in Kind |-> init.ptr[k]] = [k \in Kind |-> Stack!Innermost(Open, k)]
    BY <1>4, <2>1
  <2>. QED
    BY <1>1, <1>3, <2>2, <2>3, <2>4 DEF Agrees
<1>6. CASE status # "running"
  <2>1. \A k \in Kind : InnermostHeld(k) = Stack!Innermost(Open, k)
    BY <1>1, InnermostIs
  <2>2. Current = [k \in Kind |-> InnermostHeld(k)]
    BY <1>6 DEF Current
  <2>. QED
    BY <1>1, <1>3, <2>1, <2>2 DEF Agrees
<1>. QED
  BY <1>5, <1>6

\* The engines that stay hold what they held.
OpenOf(fr) == [i \in DOMAIN fr |-> Held(fr[i])]

LEMMA KeptOpen ==
  ASSUME NEW fr \in Seq(Frame), NEW gr \in Seq(Frame), NEW n \in Nat,
         n <= Len(fr), n <= Len(gr), Kept(fr, gr, n)
  PROVE  SubSeq(OpenOf(fr), 1, n) = SubSeq(OpenOf(gr), 1, n)
<1>. DEFINE o == OpenOf(fr)
            p == OpenOf(gr)
            P == [Kind -> Id \cup {Null}]
<1>1. \A f \in Frame : Held(f) \in P
  <2>1. SUFFICES ASSUME NEW f \in Frame PROVE Held(f) \in P
    OBVIOUS
  <2>2. \A k \in Kind : Held(f)[k] \in Id \cup {Null}
    BY FrameHeld
  <2>3. Held(f) = [k \in Kind |-> Held(f)[k]]
    BY DEF Held
  <2>. QED
    BY <2>2, <2>3
<1>2. o \in Seq(P) /\ Len(o) = Len(fr) /\ p \in Seq(P) /\ Len(p) = Len(gr)
  <2>. HIDE DEF P
  <2>1. o \in Seq(P) /\ Len(o) = Len(fr)
    BY <1>1 DEF OpenOf
  <2>2. p \in Seq(P) /\ Len(p) = Len(gr)
    BY <1>1 DEF OpenOf
  <2>. QED
    BY <2>1, <2>2
<1>3. \A i \in 1..n : o[i] = p[i]
  <2>1. SUFFICES ASSUME NEW i \in 1..n PROVE o[i] = p[i]
    OBVIOUS
  <2>2. o[i] = Held(fr[i]) /\ p[i] = Held(gr[i])
    BY DEF OpenOf
  <2>3. \A k \in Kind : Held(gr[i])[k] = Held(fr[i])[k]
    BY DEF Kept
  <2>4. Held(fr[i]) = [k \in Kind |-> Held(fr[i])[k]] /\ Held(gr[i]) = [k \in Kind |-> Held(gr[i])[k]]
    BY DEF Held
  <2>. QED
    BY <2>2, <2>3, <2>4
<1>. HIDE DEF o, p, P
<1>4. /\ SubSeq(o, 1, n) \in Seq(P) /\ Len(SubSeq(o, 1, n)) = n
      /\ SubSeq(p, 1, n) \in Seq(P) /\ Len(SubSeq(p, 1, n)) = n
      /\ \A i \in 1..n : SubSeq(o, 1, n)[i] = o[i]
      /\ \A i \in 1..n : SubSeq(p, 1, n)[i] = p[i]
  BY <1>2, Prefix
<1>5. SubSeq(o, 1, n) = SubSeq(p, 1, n)
  BY <1>3, <1>4
<1>. QED
  BY <1>5 DEF o, p

\* The whole of a sequence, as the part that a step keeps.
LEMMA WholeSeq ==
  ASSUME NEW S, NEW s \in Seq(S)
  PROVE  SubSeq(s, 1, Len(s)) = s
<1>1. Len(s) \in Nat
  OBVIOUS
<1>2. /\ SubSeq(s, 1, Len(s)) \in Seq(S) /\ Len(SubSeq(s, 1, Len(s))) = Len(s)
      /\ \A i \in 1..Len(s) : SubSeq(s, 1, Len(s))[i] = s[i]
  BY <1>1, Prefix
<1>. QED
  BY <1>1, <1>2

\* A step of the program is a step of the stack of popups, or none.
LEMMA StackStep ==
  ASSUME Agrees, Agrees', Moves(frames, frames')
  PROVE  Stack!Next \/ (Open' = Open /\ Current' = Current)
<1>1. /\ Open \in Seq(Stack!Popup) /\ Len(Open) = Len(frames) /\ Len(frames) \in Nat
      /\ frames \in Seq(Frame)
      /\ Current = [k \in Kind |-> Stack!Innermost(Open, k)]
      /\ Open = OpenOf(frames)
  BY DEF Agrees, Open, OpenOf
<1>2. /\ Open' \in Seq(Stack!Popup) /\ Len(Open') = Len(frames') /\ Len(frames') \in Nat
      /\ frames' \in Seq(Frame)
      /\ Current' = [k \in Kind |-> Stack!Innermost(Open', k)]
      /\ Open' = OpenOf(frames')
  BY DEF Agrees, Open, OpenOf
<1>3. Stack!Follows
  BY <1>2 DEF Stack!Follows, Current
<1>4. CASE Grows(frames, frames')
  <2>1. /\ Len(frames') \in Len(frames)..(Len(frames) + 2)
        /\ Kept(frames, frames', Len(frames))
    BY <1>4 DEF Grows
  <2>2. SubSeq(Open, 1, Len(frames)) = SubSeq(Open', 1, Len(frames))
    BY <1>1, <1>2, <2>1, KeptOpen
  <2>3. SubSeq(Open, 1, Len(frames)) = Open
    BY <1>1, WholeSeq
  <2>4. CASE Len(frames') = Len(frames)
    <3>1. SubSeq(Open', 1, Len(frames)) = Open'
      BY <1>2, <2>4, WholeSeq
    <3>2. Open' = Open
      BY <2>2, <2>3, <3>1
    <3>. QED
      BY <1>1, <1>2, <3>2
  <2>5. CASE Len(frames') # Len(frames)
    <3>. DEFINE n == Len(frames') - Len(frames)
    <3>1. n \in 1..2 /\ Len(Open') = Len(Open) + n
      BY <1>1, <1>2, <2>1, <2>5
    <3>2. Stack!Open(n)
      BY <1>1, <1>2, <1>3, <2>2, <2>3, <3>1 DEF Stack!Open
    <3>. QED
      BY <3>1, <3>2 DEF Stack!Next, Stack!AtOnce
  <2>. QED
    BY <2>4, <2>5
<1>5. ASSUME NEW n \in 1..2, Drops(frames, frames', n)
      PROVE  Stack!Next
  <2>1. /\ Len(frames') = Len(frames) - n /\ Kept(frames, frames', Len(frames'))
        /\ Len(frames') <= Len(frames)
    BY <1>1, <1>2, <1>5 DEF Drops
  <2>2. SubSeq(Open, 1, Len(frames')) = SubSeq(Open', 1, Len(frames'))
    <3>1. SubSeq(OpenOf(frames), 1, Len(frames')) = SubSeq(OpenOf(frames'), 1, Len(frames'))
      <4>1. /\ Len(frames') \in Nat /\ frames \in Seq(Frame) /\ frames' \in Seq(Frame)
            /\ Len(frames') <= Len(frames) /\ Len(frames') <= Len(frames')
        BY <1>1, <1>2, <2>1
      <4>. QED
        BY <2>1, <4>1, KeptOpen
    <3>. QED
      BY <1>1, <1>2, <3>1
  <2>3. SubSeq(Open', 1, Len(frames')) = Open'
    BY <1>2, WholeSeq
  <2>4. Len(Open) >= n /\ Open' = SubSeq(Open, 1, Len(Open) - n)
    BY <1>1, <1>2, <2>1, <2>2, <2>3
  <2>5. Stack!Close(n)
    BY <1>3, <2>4 DEF Stack!Close
  <2>. QED
    BY <2>5 DEF Stack!Next, Stack!AtOnce
<1>. QED
  BY <1>4, <1>5 DEF Moves, Shrinks

\* A step of a program that ends its run, is stopped or is told of a signal leaves the
\* engines alone, and so the stack.
LEMMA StackStutter ==
  ASSUME UNCHANGED vars
  PROVE  Open' = Open /\ Current' = Current
BY DEF vars, Open, Current, InnermostHeld

\* main has opened nothing, an engine, or an engine and a message.
LEMMA StackInit ==
  ASSUME Init
  PROVE  Stack!Init
<1>1. /\ Open \in Seq(Stack!Popup) /\ Len(Open) = Len(frames) /\ Len(frames) \in Nat
      /\ Current = [k \in Kind |-> Stack!Innermost(Open, k)]
  BY InitFine, CurrentIs DEF Agrees
<1>2. Len(frames) \in 0..2
  <2>1. Len(Started0.frames) = 0
    BY DEF Started0
  <2>2. \A v : Grows(Started0.frames, v.frames) => Len(v.frames) \in 0..2
    BY <2>1 DEF Grows
  <2>3. PICK v : Grows(Started0.frames, v.frames) /\ Begins(v)
    BY StartedGrows
  <2>. QED
    BY <2>2, <2>3 DEF Begins
<1>. QED
  BY <1>1, <1>2 DEF Stack!Init, Stack!AtOnce, Current

\* The popups are a stack: whatever engines are opened and closed in between, with or
\* without a failure, an engine finds the structure it works on in init again, because
\* every popup_* saves its caller's pointer and puts it back (popups.c).
THEOREM StackCorrect == Spec => ImplementsStack
<1>1. Init => Stack!Init
  BY StackInit
<1>2. Inv => Agrees
  BY CurrentIs
<1>3. Inv /\ Agrees /\ Agrees' /\ [Next]_vars => [Stack!Next]_(Stack!vars)
  <2>1. SUFFICES ASSUME Inv, Agrees, Agrees', [Next]_vars
                 PROVE  Stack!Next \/ (Open' = Open /\ Current' = Current)
    BY DEF Stack!vars, Current
  <2>2. CASE Next
    BY <2>1, <2>2, NextFine, StackStep
  <2>3. CASE UNCHANGED vars
    BY <2>3, StackStutter
  <2>. QED
    BY <2>1, <2>2, <2>3
<1>. QED
  BY <1>1, <1>2, <1>3, Invariant, PTL DEF Spec, ImplementsStack, Stack!Spec

-----------------------------------------------------------------------------
(* The windows.  As long as no window was lost, the stack of surfaces is that *)
(* of the engines' boxes, read without those that are not on it.              *)

Wins(f) == {f.box, f.auxbox} \ {NoSurface}
Stacked(f) == f.box # NoSurface /\ f.kind # "view"

\* How many of the first n engines have a window on the stack.
Height(fr, n) == Cardinality({i \in 1..n : Stacked(fr[i])})

Shown(fr, t) ==
    /\ Len(t.ui_surface) = Height(fr, Len(fr))
    /\ \A i \in 1..Len(fr) : Stacked(fr[i]) => t.ui_surface[Height(fr, i)] = fr[i].box
    /\ \A s : s \in t.live <=> \E i \in 1..Len(fr) : s \in Wins(fr[i])
    /\ \A i, j \in 1..Len(fr) : i # j => Wins(fr[i]) \cap Wins(fr[j]) = {}

\* Which engines have which windows.
BoxRight(f) ==
    /\ f.kind \in {"child", "detach"} => f.box = NoSurface
    /\ f.kind \in {"notice", "ckeys", "view"} => f.box # NoSurface
    /\ f.kind \in {"menu", "pick", "form"} => (f.box = NoSurface <=> f.stage = "failed")
    /\ f.auxbox = NoSurface <=> f.aux = Null

Placed(fr, t) ==
    t.f_curses_open /\ Shown(fr, t) /\ \A i \in 1..Len(fr) : BoxRight(fr[i])

\* An engine that failed waits for its message to be closed.
Failing(fr) ==
    \A i \in 1..Len(fr) : fr[i].stage = "failed" => i < Len(fr) /\ fr[i + 1].kind = "notice"

Clean(fr, t) == Placed(fr, t) /\ Failing(fr)

\* The height grows by one with each engine that has a window on the stack.
LEMMA HeightStep ==
  ASSUME NEW fr, NEW n \in Nat
  PROVE  /\ Height(fr, n) \in Nat /\ Height(fr, 0) = 0
         /\ Height(fr, n + 1) = Height(fr, n) + IF Stacked(fr[n + 1]) THEN 1 ELSE 0
<1>. DEFINE S == {i \in 1..n : Stacked(fr[i])}
            T == {i \in 1..(n + 1) : Stacked(fr[i])}
<1>1. IsFiniteSet(1..n) /\ S \subseteq 1..n
  BY FS_Interval
<1>2. IsFiniteSet(S)
  BY <1>1, FS_Subset
<1>3. Cardinality(S) \in Nat
  BY <1>2, FS_CardinalityType
<1>4. {i \in 1..0 : Stacked(fr[i])} = {}
  OBVIOUS
<1>5. Height(fr, 0) = 0
  BY <1>4, FS_EmptySet DEF Height
<1>6. CASE Stacked(fr[n + 1])
  <2>1. T = S \cup {n + 1} /\ n + 1 \notin S
    BY <1>6
  <2>2. Cardinality(S \cup {n + 1}) = Cardinality(S) + 1
    BY <1>2, <2>1, FS_AddElement
  <2>. QED
    BY <1>3, <1>5, <1>6, <2>1, <2>2 DEF Height
<1>7. CASE ~Stacked(fr[n + 1])
  <2>1. T = S
    BY <1>7
  <2>. QED
    BY <1>3, <1>5, <1>7, <2>1 DEF Height
<1>. QED
  BY <1>6, <1>7

\* The place of a window is on the stack.
LEMMA HeightLess ==
  ASSUME NEW fr, NEW n \in Nat, NEW i \in 1..n
  PROVE  /\ Height(fr, i) \in Nat /\ Height(fr, n) \in Nat /\ Height(fr, i) <= Height(fr, n)
         /\ Stacked(fr[i]) => Height(fr, i) \in 1..Height(fr, n)
<1>. DEFINE S == {j \in 1..i : Stacked(fr[j])}
            T == {j \in 1..n : Stacked(fr[j])}
<1>1. IsFiniteSet(1..n) /\ T \subseteq 1..n /\ S \subseteq T
  BY FS_Interval
<1>2. IsFiniteSet(T)
  BY <1>1, FS_Subset
<1>3. IsFiniteSet(S) /\ Cardinality(S) <= Cardinality(T)
  BY <1>1, <1>2, FS_Subset
<1>4. Height(fr, i) \in Nat /\ Height(fr, n) \in Nat
  BY HeightStep
<1>5. Stacked(fr[i]) => Height(fr, i) # 0
  <2>1. SUFFICES ASSUME Stacked(fr[i]) PROVE Height(fr, i) # 0
    OBVIOUS
  <2>2. i \in S
    BY <2>1
  <2>3. Cardinality(S) # 0
    BY <1>3, <2>2, FS_EmptySet
  <2>. QED
    BY <2>3 DEF Height
<1>. QED
  BY <1>3, <1>4, <1>5 DEF Height

\* Only which engines have a window on the stack counts.
LEMMA HeightSame ==
  ASSUME NEW fr, NEW gr, NEW n \in Nat,
         \A i \in 1..n : Stacked(gr[i]) <=> Stacked(fr[i])
  PROVE  Height(gr, n) = Height(fr, n)
<1>1. {i \in 1..n : Stacked(gr[i])} = {i \in 1..n : Stacked(fr[i])}
  OBVIOUS
<1>. QED
  BY <1>1 DEF Height

\* An engine is started, with the windows it opens.
LEMMA ShownAppend ==
  ASSUME NEW fr \in Seq(Frame), NEW t \in TermStruct, Shown(fr, t), NEW f \in Frame,
         NEW u \in TermStruct, u.live = t.live \cup Wins(f), Wins(f) \cap t.live = {},
         u.ui_surface = IF Stacked(f) THEN Append(t.ui_surface, f.box) ELSE t.ui_surface
  PROVE  Shown(Append(fr, f), u)
<1>. DEFINE gr == Append(fr, f)
            n == Len(fr)
            m == Len(t.ui_surface)
<1>1. /\ gr \in Seq(Frame) /\ Len(gr) = n + 1 /\ n \in Nat /\ gr[n + 1] = f
      /\ \A i \in 1..n : gr[i] = fr[i]
  BY AppendFrame
<1>. HIDE DEF gr
<1>2. \A k \in 0..n : Height(gr, k) = Height(fr, k)
  BY <1>1, HeightSame
<1>3. /\ Height(gr, n + 1) = Height(fr, n) + IF Stacked(f) THEN 1 ELSE 0
      /\ Height(fr, n) \in Nat /\ Height(fr, n) = m
  <2>1. Height(gr, n + 1) = Height(gr, n) + IF Stacked(gr[n + 1]) THEN 1 ELSE 0
    BY <1>1, HeightStep
  <2>2. Height(gr, n) = Height(fr, n)
    BY <1>1, <1>2
  <2>3. Height(fr, n) \in Nat /\ Height(fr, n) = m
    BY <1>1, HeightStep DEF Shown
  <2>. QED
    BY <1>1, <2>1, <2>2, <2>3
<1>4. /\ m \in Nat /\ Len(u.ui_surface) = m + IF Stacked(f) THEN 1 ELSE 0
      /\ \A i \in 1..m : u.ui_surface[i] = t.ui_surface[i]
      /\ Stacked(f) => u.ui_surface[m + 1] = f.box
  BY DEF TermStruct
<1>5. ASSUME NEW i \in 1..(n + 1), Stacked(gr[i])
      PROVE  u.ui_surface[Height(gr, i)] = gr[i].box
  <2>1. CASE i = n + 1
    BY <1>1, <1>3, <1>4, <1>5, <2>1
  <2>2. CASE i # n + 1
    <3>1. i \in 1..n /\ gr[i] = fr[i] /\ Stacked(fr[i]) /\ Height(gr, i) = Height(fr, i)
      BY <1>1, <1>2, <1>5, <2>2
    <3>2. t.ui_surface[Height(fr, i)] = fr[i].box /\ Height(fr, i) \in 1..m
      BY <1>1, <1>3, <3>1, HeightLess DEF Shown
    <3>. QED
      BY <1>4, <3>1, <3>2
  <2>. QED
    BY <2>1, <2>2
<1>6. \A s : s \in u.live <=> \E i \in 1..(n + 1) : s \in Wins(gr[i])
  <2>1. TAKE s
  <2>2. s \in t.live <=> \E i \in 1..n : s \in Wins(fr[i])
    BY DEF Shown
  <2>3. (\E i \in 1..(n + 1) : s \in Wins(gr[i]))
        <=> (\E i \in 1..n : s \in Wins(fr[i])) \/ s \in Wins(f)
    <3>1. ASSUME NEW i \in 1..(n + 1), s \in Wins(gr[i])
          PROVE  (\E j \in 1..n : s \in Wins(fr[j])) \/ s \in Wins(f)
      <4>1. i = n + 1 \/ i \in 1..n
        BY <1>1
      <4>. QED
        BY <1>1, <3>1, <4>1
    <3>2. ASSUME NEW i \in 1..n, s \in Wins(fr[i])
          PROVE  \E j \in 1..(n + 1) : s \in Wins(gr[j])
      BY <1>1, <3>2
    <3>3. n + 1 \in 1..(n + 1)
      BY <1>1
    <3>. QED
      BY <1>1, <3>1, <3>2, <3>3
  <2>. QED
    BY <2>2, <2>3
<1>7. ASSUME NEW i \in 1..(n + 1), NEW j \in 1..(n + 1), i # j
      PROVE  Wins(gr[i]) \cap Wins(gr[j]) = {}
  <2>1. \A k \in 1..n : Wins(gr[k]) \subseteq t.live /\ gr[k] = fr[k]
    BY <1>1 DEF Shown
  <2>2. \A k \in 1..n : Wins(gr[k]) \cap Wins(f) = {}
    BY <2>1
  <2>3. CASE i = n + 1
    <3>1. j \in 1..n
      BY <1>1, <1>7, <2>3
    <3>. QED
      BY <1>1, <2>2, <2>3, <3>1
  <2>4. CASE j = n + 1
    <3>1. i \in 1..n
      BY <1>1, <1>7, <2>4
    <3>. QED
      BY <1>1, <2>2, <2>4, <3>1
  <2>5. CASE i # n + 1 /\ j # n + 1
    <3>1. i \in 1..n /\ j \in 1..n
      BY <1>1, <2>5
    <3>. QED
      BY <1>7, <2>1, <3>1 DEF Shown
  <2>. QED
    BY <2>3, <2>4, <2>5
<1>8. Len(u.ui_surface) = Height(gr, n + 1)
  BY <1>3, <1>4
<1>9. Shown(gr, u)
  BY <1>1, <1>5, <1>6, <1>7, <1>8 DEF Shown
<1>. QED
  BY <1>9 DEF gr

\* The window of the last engine is on top.
LEMMA TopIs ==
  ASSUME NEW fr \in Seq(Frame), fr # <<>>, NEW t \in TermStruct, Shown(fr, t),
         Stacked(Last(fr))
  PROVE  /\ t.ui_surface # <<>> /\ t.ui_surface[Len(t.ui_surface)] = Last(fr).box
         /\ Top(t) = Last(fr).box /\ Last(fr).box \in t.live
<1>1. Len(fr) \in Nat \ {0} /\ Last(fr) = fr[Len(fr)] /\ Len(fr) \in 1..Len(fr)
  BY FrontFrame
<1>2. Height(fr, Len(fr)) \in 1..Height(fr, Len(fr))
  BY <1>1, HeightLess
<1>3. t.ui_surface \in Seq(Surface) /\ Len(t.ui_surface) = Height(fr, Len(fr))
  BY DEF TermStruct, Shown
<1>4. t.ui_surface # <<>> /\ t.ui_surface[Len(t.ui_surface)] = Last(fr).box
  BY <1>1, <1>2, <1>3 DEF Shown
<1>5. Last(fr).box \in Wins(fr[Len(fr)])
  BY <1>1 DEF Wins, Stacked
<1>6. Last(fr).box \in t.live
  BY <1>1, <1>5 DEF Shown
<1>. QED
  BY <1>4, <1>6 DEF Top, Last

\* The last engine ends, and its windows with it.
LEMMA ShownFront ==
  ASSUME NEW fr \in Seq(Frame), fr # <<>>, NEW t \in TermStruct, Shown(fr, t),
         NEW u \in TermStruct, u.live = t.live \ Wins(Last(fr)),
         IF Stacked(Last(fr))
         THEN /\ Len(u.ui_surface) = Len(t.ui_surface) - 1
              /\ \A i \in 1..(Len(t.ui_surface) - 1) : u.ui_surface[i] = t.ui_surface[i]
         ELSE u.ui_surface = t.ui_surface
  PROVE  Shown(Front(fr), u)
<1>. DEFINE gr == Front(fr)
            n == Len(fr)
            f == Last(fr)
            m == Len(t.ui_surface)
<1>1. /\ gr \in Seq(Frame) /\ Len(gr) = n - 1 /\ n \in Nat \ {0} /\ n - 1 \in Nat
      /\ f = fr[n] /\ n \in 1..n /\ \A i \in 1..(n - 1) : gr[i] = fr[i]
  BY FrontFrame
<1>. HIDE DEF gr
<1>2. \A k \in 0..(n - 1) : Height(gr, k) = Height(fr, k)
  BY <1>1, HeightSame
<1>3. /\ m = Height(fr, n - 1) + IF Stacked(f) THEN 1 ELSE 0
      /\ Height(fr, n - 1) \in Nat /\ Height(gr, n - 1) = Height(fr, n - 1)
  <2>1. Height(fr, (n - 1) + 1) = Height(fr, n - 1) + IF Stacked(fr[(n - 1) + 1]) THEN 1 ELSE 0
    BY <1>1, HeightStep
  <2>2. (n - 1) + 1 = n /\ n - 1 \in 0..(n - 1)
    BY <1>1
  <2>3. m = Height(fr, n)
    BY DEF Shown
  <2>4. Height(fr, n - 1) \in Nat
    BY <1>1, HeightStep
  <2>. QED
    BY <1>1, <1>2, <2>1, <2>2, <2>3, <2>4
<1>4. /\ Len(u.ui_surface) = Height(gr, n - 1)
      /\ \A i \in 1..Height(gr, n - 1) : u.ui_surface[i] = t.ui_surface[i]
  BY <1>3
<1>5. ASSUME NEW i \in 1..(n - 1), Stacked(gr[i])
      PROVE  u.ui_surface[Height(gr, i)] = gr[i].box
  <2>1. /\ gr[i] = fr[i] /\ Stacked(fr[i]) /\ Height(gr, i) = Height(fr, i) /\ i \in 1..n
        /\ i \in 0..(n - 1)
    BY <1>1, <1>2, <1>5
  <2>2. t.ui_surface[Height(fr, i)] = fr[i].box
    BY <2>1 DEF Shown
  <2>3. Height(gr, i) \in 1..Height(gr, n - 1)
    BY <1>1, <1>5, HeightLess
  <2>. QED
    BY <1>4, <2>1, <2>2, <2>3
<1>6. \A s : s \in u.live <=> \E i \in 1..(n - 1) : s \in Wins(gr[i])
  <2>1. TAKE s
  <2>2. s \in t.live <=> \E i \in 1..n : s \in Wins(fr[i])
    BY DEF Shown
  <2>3. ASSUME s \in t.live, s \notin Wins(f)
        PROVE  \E i \in 1..(n - 1) : s \in Wins(gr[i])
    <3>1. PICK i \in 1..n : s \in Wins(fr[i])
      BY <2>2, <2>3
    <3>2. i \in 1..(n - 1)
      BY <1>1, <2>3, <3>1
    <3>. QED
      BY <1>1, <3>1, <3>2
  <2>4. ASSUME NEW i \in 1..(n - 1), s \in Wins(gr[i])
        PROVE  s \in t.live /\ s \notin Wins(f)
    <3>1. gr[i] = fr[i] /\ i \in 1..n /\ i # n
      BY <1>1
    <3>2. Wins(fr[i]) \cap Wins(fr[n]) = {}
      BY <1>1, <3>1 DEF Shown
    <3>. QED
      BY <1>1, <2>2, <2>4, <3>1, <3>2
  <2>. QED
    BY <2>3, <2>4
<1>7. ASSUME NEW i \in 1..(n - 1), NEW j \in 1..(n - 1), i # j
      PROVE  Wins(gr[i]) \cap Wins(gr[j]) = {}
  <2>1. i \in 1..n /\ j \in 1..n /\ gr[i] = fr[i] /\ gr[j] = fr[j]
    BY <1>1
  <2>. QED
    BY <1>7, <2>1 DEF Shown
<1>8. Shown(gr, u)
  BY <1>1, <1>4, <1>5, <1>6, <1>7 DEF Shown
<1>. QED
  BY <1>8 DEF gr

\* The last engine opens another window that is not on the stack, or makes it anew.
LEMMA ShownInstead ==
  ASSUME NEW fr \in Seq(Frame), fr # <<>>, NEW t \in TermStruct, Shown(fr, t),
         NEW gr \in Seq(Frame), Len(gr) = Len(fr),
         \A i \in 1..(Len(fr) - 1) : gr[i] = fr[i],
         NEW f, f = Last(fr), NEW g, g = gr[Len(fr)],
         Stacked(g) <=> Stacked(f), Stacked(f) => g.box = f.box,
         NEW u \in TermStruct, u.ui_surface = t.ui_surface,
         u.live = (t.live \ Wins(f)) \cup Wins(g), Wins(g) \cap (t.live \ Wins(f)) = {}
  PROVE  Shown(gr, u)
<1>. DEFINE n == Len(fr)
<1>1. /\ n \in Nat \ {0} /\ f = fr[n] /\ n \in 1..n
  BY FrontFrame
<1>2. \A i \in 1..n : Stacked(gr[i]) <=> Stacked(fr[i])
  <2>1. TAKE i \in 1..n
  <2>2. CASE i = n
    BY <1>1, <2>2
  <2>3. CASE i # n
    <3>1. i \in 1..(n - 1)
      BY <1>1, <2>3
    <3>. QED
      BY <3>1
  <2>. QED
    BY <2>2, <2>3
<1>3. \A k \in 0..n : Height(gr, k) = Height(fr, k)
  BY <1>1, <1>2, HeightSame
<1>4. ASSUME NEW i \in 1..n, Stacked(gr[i])
      PROVE  u.ui_surface[Height(gr, i)] = gr[i].box
  <2>1. Height(gr, i) = Height(fr, i) /\ Stacked(fr[i])
    BY <1>1, <1>2, <1>3, <1>4
  <2>2. t.ui_surface[Height(fr, i)] = fr[i].box
    BY <2>1 DEF Shown
  <2>3. fr[i].box = gr[i].box
    <3>1. CASE i = n
      BY <1>1, <2>1, <3>1
    <3>2. CASE i # n
      <4>1. i \in 1..(n - 1)
        BY <1>1, <3>2
      <4>. QED
        BY <4>1
    <3>. QED
      BY <3>1, <3>2
  <2>. QED
    BY <2>1, <2>2, <2>3
<1>5. \A i \in 1..(n - 1) : i \in 1..n /\ gr[i] = fr[i] /\ Wins(fr[i]) \subseteq t.live \ Wins(f)
  <2>1. TAKE i \in 1..(n - 1)
  <2>2. i \in 1..n /\ i # n /\ gr[i] = fr[i]
    BY <1>1
  <2>3. Wins(fr[i]) \cap Wins(fr[n]) = {} /\ Wins(fr[i]) \subseteq t.live
    BY <1>1, <2>2 DEF Shown
  <2>. QED
    BY <1>1, <2>2, <2>3
<1>6. \A s : s \in u.live <=> \E i \in 1..n : s \in Wins(gr[i])
  <2>1. TAKE s
  <2>2. ASSUME s \in t.live, s \notin Wins(f)
        PROVE  \E i \in 1..n : s \in Wins(gr[i])
    <3>1. PICK i \in 1..n : s \in Wins(fr[i])
      BY <2>2 DEF Shown
    <3>2. i \in 1..(n - 1)
      BY <1>1, <2>2, <3>1
    <3>. QED
      BY <1>5, <3>1, <3>2
  <2>3. ASSUME s \in Wins(g)
        PROVE  \E i \in 1..n : s \in Wins(gr[i])
    BY <1>1, <2>3
  <2>4. ASSUME NEW i \in 1..n, s \in Wins(gr[i])
        PROVE  s \in u.live
    <3>1. CASE i = n
      BY <2>4, <3>1
    <3>2. CASE i # n
      <4>1. i \in 1..(n - 1)
        BY <1>1, <3>2
      <4>. QED
        BY <1>5, <2>4, <4>1
    <3>. QED
      BY <3>1, <3>2
  <2>. QED
    BY <2>2, <2>3, <2>4
<1>7. ASSUME NEW i \in 1..n, NEW j \in 1..n, i # j
      PROVE  Wins(gr[i]) \cap Wins(gr[j]) = {}
  <2>1. CASE i = n
    <3>1. j \in 1..(n - 1)
      BY <1>1, <1>7, <2>1
    <3>. QED
      BY <1>5, <2>1, <3>1
  <2>2. CASE j = n
    <3>1. i \in 1..(n - 1)
      BY <1>1, <1>7, <2>2
    <3>. QED
      BY <1>5, <2>2, <3>1
  <2>3. CASE i # n /\ j # n
    <3>1. i \in 1..(n - 1) /\ j \in 1..(n - 1)
      BY <1>1, <2>3
    <3>. QED
      BY <1>5, <1>7, <3>1 DEF Shown
  <2>. QED
    BY <2>1, <2>2, <2>3
<1>8. Len(u.ui_surface) = Height(gr, n)
  BY <1>1, <1>3 DEF Shown
<1>. QED
  BY <1>4, <1>6, <1>7, <1>8 DEF Shown

\* ShownInstead with the last engine before and after it written out.
LEMMA ShownRemade ==
  ASSUME NEW fr \in Seq(Frame), fr # <<>>, NEW t \in TermStruct, Shown(fr, t),
         NEW gr \in Seq(Frame), Len(gr) = Len(fr),
         \A i \in 1..(Len(fr) - 1) : gr[i] = fr[i],
         Stacked(gr[Len(fr)]) <=> Stacked(Last(fr)),
         Stacked(Last(fr)) => gr[Len(fr)].box = Last(fr).box,
         NEW u \in TermStruct, u.ui_surface = t.ui_surface,
         u.live = (t.live \ Wins(Last(fr))) \cup Wins(gr[Len(fr)]),
         Wins(gr[Len(fr)]) \cap (t.live \ Wins(Last(fr))) = {}
  PROVE  Shown(gr, u)
BY ShownInstead

\* The windows of menus are all on the stack; without engines there are none.
LEMMA OnlyStacked ==
  ASSUME NEW fr \in Seq(Frame), NEW t \in TermStruct, Shown(fr, t),
         \A i \in 1..Len(fr) : fr[i].kind # "view" /\ fr[i].auxbox = NoSurface
  PROVE  t.live \ ToSet(t.ui_surface) = {}
<1>1. SUFFICES ASSUME NEW s \in t.live PROVE s \in ToSet(t.ui_surface)
  OBVIOUS
<1>2. PICK i \in 1..Len(fr) : s \in Wins(fr[i])
  BY <1>1 DEF Shown
<1>3. s = fr[i].box /\ Stacked(fr[i])
  BY <1>2 DEF Wins, Stacked
<1>4. t.ui_surface[Height(fr, i)] = s
  BY <1>2, <1>3 DEF Shown
<1>5. Len(fr) \in Nat /\ Len(t.ui_surface) = Height(fr, Len(fr))
  BY DEF Shown
<1>6. Height(fr, i) \in 1..Len(t.ui_surface)
  BY <1>2, <1>3, <1>5, HeightLess
<1>7. DOMAIN t.ui_surface = 1..Len(t.ui_surface)
  BY DEF TermStruct
<1>. QED
  BY <1>4, <1>6, <1>7 DEF ToSet

\* A screen is left as it was found when the last engine closes it.
Restored(t) == t.tty = "shell" /\ t.handlers = "default" /\ t.live = {} /\ ~t.f_curses_open

\* A world in which nothing has been lost yet is in order; After is what a call leaves of
\* it.
Tidy(w) ==
    Sound(w) /\ w.status = "running" /\ (w.lost = {} => Clean(w.frames, w.tm))

Ordered(v) ==
    v.lost = {} => /\ v.status # "crashed"
                   /\ v.status = "running" => Clean(v.frames, v.tm)
                   /\ v.status = "exited" => Restored(v.tm)

\* Who sets the default handlers is about to give the screen to a process.
ToChild(v) == "shutdown" \in v.lost \/ (v.frames # <<>> /\ Last(v.frames).kind = "detach")

Follow(v, w) ==
    /\ w.lost \subseteq v.lost /\ v.status # "killed"
    /\ v.status = "running" /\ v.tm.handlers # w.tm.handlers =>
           v.tm.handlers = "program" \/ ToChild(v)
    /\ Ordered(v)

\* The window of a new engine.
LEMMA PlacedAppend ==
  ASSUME NEW fr \in Seq(Frame), NEW t \in TermStruct, Placed(fr, t), NEW f \in Frame,
         BoxRight(f), NEW u \in TermStruct, u.f_curses_open,
         u.live = t.live \cup Wins(f), Wins(f) \cap t.live = {},
         u.ui_surface = IF Stacked(f) THEN Append(t.ui_surface, f.box) ELSE t.ui_surface
  PROVE  Placed(Append(fr, f), u)
<1>1. Shown(Append(fr, f), u)
  BY ShownAppend DEF Placed
<1>2. /\ Len(Append(fr, f)) = Len(fr) + 1 /\ Append(fr, f)[Len(fr) + 1] = f
      /\ \A i \in 1..Len(fr) : Append(fr, f)[i] = fr[i]
  BY AppendFrame
<1>3. ASSUME NEW i \in 1..(Len(fr) + 1)
      PROVE  BoxRight(Append(fr, f)[i])
  <2>1. i = Len(fr) + 1 \/ i \in 1..Len(fr)
    OBVIOUS
  <2>. QED
    BY <1>2, <2>1 DEF Placed
<1>. QED
  BY <1>1, <1>2, <1>3 DEF Placed

\* An engine that opens no window.
LEMMA PlacedBare ==
  ASSUME NEW fr \in Seq(Frame), NEW t \in TermStruct, Placed(fr, t), NEW f \in Frame,
         BoxRight(f), f.box = NoSurface, f.auxbox = NoSurface
  PROVE  Placed(Append(fr, f), t)
<1>1. Wins(f) = {} /\ ~Stacked(f) /\ t.f_curses_open
  BY DEF Wins, Stacked, Placed
<1>. QED
  BY <1>1, PlacedAppend

\* An engine whose box goes on the stack, if there is room for it.
LEMMA PlacedBox ==
  ASSUME NEW w \in WorldStruct, Placed(w.frames, w.tm), NEW f \in Frame, f.stage = "run",
         f.kind \in {"menu", "pick", "form", "notice", "ckeys"}, f.aux = Null,
         f.auxbox = NoSurface, FreeSurface(w.tm) \in Surface \ w.tm.live
  PROVE  LET v == OpenBox(w, f)
             s == FreeSurface(w.tm)
         IN  /\ w.lost \subseteq v.lost /\ v.status \in {w.status, "crashed"}
             /\ v.tm.handlers = w.tm.handlers
             /\ v.lost = {} =>
                    /\ v.status = w.status /\ Placed(v.frames, v.tm)
                    /\ v.frames = Append(w.frames, [f EXCEPT !.box = s])
<1>. DEFINE v == OpenBox(w, f)
            s == FreeSurface(w.tm)
            g == [f EXCEPT !.box = s]
<1>1. /\ w.frames \in Seq(Frame) /\ w.tm \in TermStruct /\ w.lost \in SUBSET Path
      /\ s # NoSurface /\ s \in Surface /\ s \notin w.tm.live
  BY TerminalAssumption DEF WorldStruct, NoSurface
<1>2. /\ v \in WorldStruct
      /\ v.lost = w.lost \/ v.lost = w.lost \cup {"maxwin"}
      /\ \/ v.status = "crashed" /\ v.tm = w.tm /\ "maxwin" \in v.lost
         \/ v.status = w.status /\ v.tm = BoxWinNew(w.tm) /\ v.frames = Append(w.frames, g)
  BY OpenBoxIs
<1>3. /\ BoxWinNew(w.tm) \in TermStruct
      /\ BoxWinNew(w.tm).live = w.tm.live \cup {s}
      /\ BoxWinNew(w.tm).ui_surface = Append(w.tm.ui_surface, s)
      /\ BoxWinNew(w.tm).f_curses_open = w.tm.f_curses_open
      /\ BoxWinNew(w.tm).handlers = w.tm.handlers
  BY <1>1, BoxWinNewIs
<1>. HIDE DEF v, s
<1>4. /\ g \in Frame /\ g.kind = f.kind /\ g.box = s /\ g.aux = Null /\ g.auxbox = NoSurface
      /\ g.stage = "run"
  BY <1>1 DEF Frame
<1>. HIDE DEF g
<1>5. Wins(g) = {s} /\ Stacked(g) /\ BoxRight(g)
  BY <1>1, <1>4 DEF Wins, Stacked, BoxRight
<1>6. w.tm.f_curses_open
  BY DEF Placed
<1>7. BoxWinNew(w.tm).ui_surface
      = IF Stacked(g) THEN Append(w.tm.ui_surface, g.box) ELSE w.tm.ui_surface
  BY <1>3, <1>4, <1>5
<1>8. Placed(Append(w.frames, g), BoxWinNew(w.tm))
  <2>1. /\ BoxWinNew(w.tm).live = w.tm.live \cup Wins(g) /\ Wins(g) \cap w.tm.live = {}
        /\ BoxWinNew(w.tm).f_curses_open
    BY <1>1, <1>3, <1>5, <1>6
  <2>. QED
    BY <1>1, <1>3, <1>4, <1>5, <1>7, <2>1, PlacedAppend
<1>. QED
  BY <1>2, <1>3, <1>8 DEF v, s, g

\* A frame that did not fail ends the list of those that did.
LEMMA FailingAppend ==
  ASSUME NEW fr \in Seq(Frame), NEW f \in Frame, f.stage # "failed",
         \A i \in 1..Len(fr) : fr[i].stage = "failed" =>
             (IF i < Len(fr) THEN fr[i + 1].kind = "notice" ELSE f.kind = "notice")
  PROVE  Failing(Append(fr, f))
<1>. DEFINE gr == Append(fr, f)
<1>1. /\ Len(gr) = Len(fr) + 1 /\ Len(fr) \in Nat /\ gr[Len(fr) + 1] = f
      /\ \A i \in 1..Len(fr) : gr[i] = fr[i]
  BY AppendFrame
<1>. HIDE DEF gr
<1>2. ASSUME NEW i \in 1..(Len(fr) + 1), gr[i].stage = "failed"
      PROVE  i < Len(fr) + 1 /\ gr[i + 1].kind = "notice"
  <2>1. i \in 1..Len(fr) /\ fr[i].stage = "failed"
    BY <1>1, <1>2
  <2>2. CASE i < Len(fr)
    <3>1. i + 1 \in 1..Len(fr)
      BY <1>1, <2>1, <2>2
    <3>. QED
      BY <1>1, <2>1, <2>2, <3>1
  <2>3. CASE i = Len(fr)
    BY <1>1, <2>1, <2>3
  <2>. QED
    BY <1>1, <2>1, <2>2, <2>3
<1>3. Failing(gr)
  BY <1>1, <1>2 DEF Failing
<1>. QED
  BY <1>3 DEF gr

\* A message over a clean world; the engine below it may be one that failed.
LEMMA NoticeFollow ==
  ASSUME NEW w, Sound(w), w.status = "running", Len(w.frames) <= MaxFrames,
         w.lost = {} => /\ Placed(w.frames, w.tm)
                        /\ \A i \in 1..(Len(w.frames) - 1) :
                               w.frames[i].stage = "failed" => w.frames[i + 1].kind = "notice"
  PROVE  Follow(Notice(w), w)
<1>. DEFINE f == FrameOf("notice", Null, Null)
            s == FreeSurface(w.tm)
            v == OpenBox(w, f)
            g == [f EXCEPT !.box = s]
<1>1. /\ w \in WorldStruct /\ w.frames \in Seq(Frame) /\ w.tm \in TermStruct
      /\ Leak(w.frames, w.tm) /\ Len(w.frames) <= MaxFrames + 1
      /\ Len(w.tm.ui_surface) <= MaxWin + 1
  BY DEF Sound, Typed, WorldStruct
<1>2. s \in Surface \ w.tm.live
  BY <1>1, FreeSurfaceExists
<1>3. /\ f \in Frame /\ f.stage = "run" /\ f.kind = "notice" /\ f.aux = Null
      /\ f.auxbox = NoSurface
  BY DEF FrameOf, Frame
<1>. HIDE DEF f
<1>4. g \in Frame /\ g.stage = "run" /\ g.kind = "notice"
  <2>. HIDE DEF s
  <2>. QED
    BY <1>2, <1>3 DEF Frame
<1>5. /\ v.lost = w.lost \/ v.lost = w.lost \cup {"maxwin"}
      /\ v.status \in {"running", "crashed"} /\ v.tm.handlers = w.tm.handlers
      /\ v.status = "crashed" => "maxwin" \in v.lost
  <2>1. BoxWinNew(w.tm).handlers = w.tm.handlers
    BY <1>1, <1>2, BoxWinNewIs
  <2>. QED
    BY <1>1, <1>2, <1>3, <2>1, OpenBoxIs
<1>6. v.lost = {} => Clean(v.frames, v.tm)
  <2>1. SUFFICES ASSUME v.lost = {} PROVE Clean(v.frames, v.tm)
    OBVIOUS
  <2>2. /\ w.lost = {} /\ Placed(w.frames, w.tm)
        /\ \A i \in 1..(Len(w.frames) - 1) :
               w.frames[i].stage = "failed" => w.frames[i + 1].kind = "notice"
    BY <1>5, <2>1
  <2>3. Placed(v.frames, v.tm) /\ v.frames = Append(w.frames, g)
    BY <1>1, <1>2, <1>3, <2>1, <2>2, PlacedBox
  <2>. HIDE DEF g, v
  <2>4. Failing(Append(w.frames, g))
    <3>1. Len(w.frames) \in Nat
      BY <1>1
    <3>2. \A i \in 1..Len(w.frames) : i < Len(w.frames) => i \in 1..(Len(w.frames) - 1)
      BY <3>1
    <3>. QED
      BY <1>1, <1>4, <2>2, <3>2, FailingAppend
  <2>. QED
    BY <2>3, <2>4 DEF Clean
<1>7. Notice(w) = v
  BY DEF Notice, f
<1>. HIDE DEF v
<1>. QED
  BY <1>5, <1>6, <1>7 DEF Follow, Ordered

\* From a world that differs only in its structures and its frames.
LEMMA FollowFrom ==
  ASSUME NEW v, NEW u, NEW w, Follow(v, u), u.tm.handlers = w.tm.handlers,
         w.lost \subseteq u.lost
  PROVE  Follow(v, w)
BY DEF Follow

\* What was lost stays lost.
LEMMA LostFollow ==
  ASSUME NEW v, NEW w, w.lost \subseteq v.lost, v.lost # {}, v.status # "killed",
         v.tm.handlers = w.tm.handlers \/ v.tm.handlers = "program" \/ ToChild(v)
  PROVE  Follow(v, w)
BY DEF Follow, Ordered

\* A new engine that has its box on the stack.
LEMMA BoxFollow ==
  ASSUME NEW w, Tidy(w), NEW u \in WorldStruct, u.frames = w.frames, u.tm = w.tm,
         u.lost = w.lost, u.status = "running", NEW f \in Frame, f.stage = "run",
         f.kind \in {"menu", "pick", "form", "notice", "ckeys"}, f.aux = Null,
         f.auxbox = NoSurface
  PROVE  LET v == OpenBox(u, f)
         IN  /\ Follow(v, w)
             /\ v.lost = {} => /\ v.status = "running"
                               /\ v.frames = Append(w.frames, [f EXCEPT !.box = FreeSurface(w.tm)])
<1>. DEFINE s == FreeSurface(w.tm)
            v == OpenBox(u, f)
            g == [f EXCEPT !.box = s]
<1>1. /\ w \in WorldStruct /\ w.frames \in Seq(Frame) /\ w.tm \in TermStruct
      /\ Leak(w.frames, w.tm) /\ Len(w.frames) <= MaxFrames + 1
      /\ Len(w.tm.ui_surface) <= MaxWin + 1
  BY DEF Tidy, Sound, Typed, WorldStruct
<1>2. s \in Surface \ w.tm.live
  BY <1>1, FreeSurfaceExists
<1>3. g \in Frame /\ g.stage = "run"
  <2>. HIDE DEF s
  <2>. QED
    BY <1>2 DEF Frame
<1>4. /\ w.lost \subseteq v.lost /\ v.status \in {"running", "crashed"}
      /\ v.tm.handlers = w.tm.handlers
      /\ v.status = "crashed" => "maxwin" \in v.lost
  <2>1. BoxWinNew(w.tm).handlers = w.tm.handlers
    BY <1>1, <1>2, BoxWinNewIs
  <2>2. /\ v.lost = u.lost \/ v.lost = u.lost \cup {"maxwin"}
        /\ \/ v.status = "crashed" /\ v.tm = u.tm /\ "maxwin" \in v.lost
           \/ v.status = u.status /\ v.tm = BoxWinNew(u.tm)
    BY <1>2, OpenBoxIs
  <2>. HIDE DEF v
  <2>. QED
    BY <2>1, <2>2
<1>5. ASSUME v.lost = {}
      PROVE  v.status = "running" /\ v.frames = Append(w.frames, g) /\ Clean(v.frames, v.tm)
  <2>1. w.lost = {} /\ Clean(w.frames, w.tm)
    BY <1>4, <1>5 DEF Tidy
  <2>2. Placed(v.frames, v.tm) /\ v.frames = Append(w.frames, g) /\ v.status = "running"
    BY <1>2, <1>5, <2>1, PlacedBox DEF Clean
  <2>. HIDE DEF g, v
  <2>3. Failing(Append(w.frames, g))
    BY <1>1, <1>3, <2>1, FailingAppend DEF Clean, Failing
  <2>. QED
    BY <2>2, <2>3 DEF Clean
<1>. HIDE DEF v, g
<1>6. Follow(v, w)
  BY <1>4, <1>5 DEF Follow, Ordered
<1>. QED
  BY <1>5, <1>6 DEF v, g

\* An engine that cannot go on.
LEMMA FailsFollow ==
  ASSUME NEW w, Tidy(w), Len(w.frames) < MaxFrames, NEW k \in {"menu", "pick", "form"},
         k \in {"menu", "pick"} => OnlyMenus(w.frames),
         NEW x \in {"failed", "ending"}, x = "ending" => k = "form",
         NEW u \in WorldStruct, u.frames = w.frames, u.tm = w.tm, u.status = "running",
         u.init = NewFrame(w, k)[1].init,
         x = "failed" => u.lost = w.lost,
         x = "ending" => u.lost = w.lost \cup {"formdesc"}
  PROVE  Follow(Notice(Push(u, [NewFrame(w, k)[2] EXCEPT !.stage = x])), w)
<1>. DEFINE f == NewFrame(w, k)[2]
            g == [f EXCEPT !.stage = x]
            q == NewFrame(w, k)[1]
            v == Push(u, g)
<1>1. /\ Sound(w) /\ w.status = "running" /\ w.frames \in Seq(Frame) /\ k \in Kind
      /\ Len(w.frames) \in Nat /\ MaxFrames \in Nat /\ w.tm \in TermStruct
  BY SessionAssumption DEF Tidy, Sound, Typed, WorldStruct, Kind
<1>2. /\ f \in Frame /\ f.kind = k /\ f.aux = Null /\ f.auxbox = NoSurface
      /\ f.box = NoSurface
      /\ \A h : SameEngine(h, f) /\ (h.stage = "ending" => k = "form")
                => Whole(Append(w.frames, h), q.init)
  <2>1. Sound(w) /\ Len(w.frames) <= MaxFrames
    BY <1>1
  <2>. QED
    BY <1>1, <2>1, StartIs
<1>. HIDE DEF f, q
<1>3. /\ g \in Frame /\ SameEngine(g, f) /\ g.kind = k /\ g.stage = x /\ g.box = NoSurface
      /\ g.auxbox = NoSurface /\ g.aux = Null
  BY <1>2 DEF Frame, SameEngine
<1>. HIDE DEF g
<1>4. Whole(Append(w.frames, g), u.init)
  BY <1>2, <1>3 DEF q
<1>5. /\ Sound(v) /\ v.frames = Append(w.frames, g) /\ v.status = "running"
      /\ Len(v.frames) = Len(w.frames) + 1
  BY <1>1, <1>3, <1>4, PushSound
<1>6. v.tm = w.tm /\ v.lost = u.lost
  BY <1>3, PushIs DEF FramesOnly
<1>. HIDE DEF v
<1>7. ASSUME v.lost = {}
      PROVE  /\ Placed(v.frames, v.tm)
             /\ \A i \in 1..(Len(v.frames) - 1) :
                    v.frames[i].stage = "failed" => v.frames[i + 1].kind = "notice"
  <2>1. x = "failed" /\ w.lost = {} /\ Clean(w.frames, w.tm)
    BY <1>6, <1>7 DEF Tidy
  <2>2. BoxRight(g)
    BY <1>3, <2>1 DEF BoxRight
  <2>3. Placed(Append(w.frames, g), w.tm)
    BY <1>1, <1>3, <2>1, <2>2, PlacedBare DEF Clean
  <2>4. \A i \in 1..Len(w.frames) : v.frames[i] = w.frames[i]
    BY <1>1, <1>3, <1>5, AppendFrame
  <2>5. ASSUME NEW i \in 1..(Len(v.frames) - 1), v.frames[i].stage = "failed"
        PROVE  v.frames[i + 1].kind = "notice"
    <3>1. i \in 1..Len(w.frames) /\ w.frames[i].stage = "failed"
      BY <1>1, <1>5, <2>4, <2>5
    <3>2. i < Len(w.frames) /\ w.frames[i + 1].kind = "notice"
      BY <2>1, <3>1 DEF Clean, Failing
    <3>3. i + 1 \in 1..Len(w.frames)
      BY <1>1, <3>1, <3>2
    <3>. QED
      BY <2>4, <3>2, <3>3
  <2>. QED
    BY <1>5, <1>6, <2>3, <2>5
<1>8. Follow(Notice(v), v)
  <2>1. Len(v.frames) <= MaxFrames
    BY <1>1, <1>5
  <2>. QED
    BY <1>5, <1>7, <2>1, NoticeFollow
<1>9. w.lost \subseteq v.lost
  BY <1>6
<1>10. Follow(Notice(v), w)
  BY <1>6, <1>8, <1>9, FollowFrom
<1>. QED
  BY <1>10 DEF v, g, f

\* The end of a program that has only menus leaves the terminal as the shell had it.
LEMMA AbendFollow ==
  ASSUME NEW w, Sound(w), OnlyMenus(w.frames), NEW u \in WorldStruct, u.frames = w.frames,
         u.tm = w.tm, u.lost = w.lost, w.lost = {} => Placed(w.frames, w.tm)
  PROVE  Follow(Abend(u), w)
<1>1. /\ Abend(u).tm = Abended(w.tm) /\ Abend(u).status = "exited" /\ Abend(u).lost = w.lost
      /\ w.frames \in Seq(Frame) /\ w.tm \in TermStruct /\ Engines(w.frames)
  BY AbendIs DEF Sound, Typed, Whole, WorldStruct
<1>2. ASSUME w.lost = {}
      PROVE  Restored(Abended(w.tm))
  <2>1. Shown(w.frames, w.tm) /\ w.tm.f_curses_open
    BY <1>2 DEF Placed
  <2>2. ASSUME NEW i \in 1..Len(w.frames)
        PROVE  w.frames[i].kind # "view" /\ w.frames[i].auxbox = NoSurface
    <3>1. w.frames[i].kind = "menu"
      BY DEF OnlyMenus
    <3>2. w.frames[i].aux = Null
      BY <1>1, <3>1 DEF Engines
    <3>. QED
      BY <1>2, <3>1, <3>2 DEF Placed, BoxRight
  <2>3. w.tm.live \ ToSet(w.tm.ui_surface) = {}
    BY <1>1, <2>1, <2>2, OnlyStacked
  <2>. QED
    BY <1>1, <2>1, <2>3, AbendedIs DEF Restored
<1>. QED
  BY <1>1, <1>2 DEF Follow, Ordered

\* popup_menu.
LEMMA PopupMenuFollow ==
  ASSUME NEW w, Tidy(w), Len(w.frames) < MaxFrames, OnlyMenus(w.frames),
         NEW out \in Outcome("menu")
  PROVE  Follow(PopupMenu(w, out), w)
<1>. DEFINE u == NewFrame(w, "menu")[1]
            f == NewFrame(w, "menu")[2]
<1>1. /\ Sound(w) /\ w.status = "running" /\ "menu" \in Kind /\ Len(w.frames) <= MaxFrames
      /\ w.lost = {} => Placed(w.frames, w.tm)
  BY SessionAssumption DEF Tidy, Sound, Typed, WorldStruct, Kind, Clean
<1>2. /\ InitOnly(u, w) /\ f \in Frame /\ f.kind = "menu" /\ f.aux = Null
      /\ f.auxbox = NoSurface /\ f.stage = "run"
  BY <1>1, StartIs
<1>3. /\ out \in {"opens", "missing", "bad"}
      /\ PopupMenu(w, out) = CASE out = "opens" -> OpenBox(u, f)
                               [] out = "missing" -> Abend(u)
                               [] out = "bad" -> Notice(Push(u, [f EXCEPT !.stage = "failed"]))
  BY DEF PopupMenu, Outcome, Fails
<1>. HIDE DEF f
<1>4. /\ u \in WorldStruct /\ u.frames = w.frames /\ u.tm = w.tm /\ u.lost = w.lost
      /\ u.status = "running" /\ u.init = NewFrame(w, "menu")[1].init
  BY <1>1, <1>2 DEF InitOnly
<1>. HIDE DEF u
<1>5. Follow(OpenBox(u, f), w)
  BY <1>2, <1>4, BoxFollow
<1>6. Follow(Abend(u), w)
  BY <1>1, <1>4, AbendFollow
<1>7. Follow(Notice(Push(u, [f EXCEPT !.stage = "failed"])), w)
  BY <1>4, FailsFollow DEF f
<1>. QED
  BY <1>3, <1>5, <1>6, <1>7

\* popup_form.
LEMMA PopupFormFollow ==
  ASSUME NEW w, Tidy(w), Len(w.frames) < MaxFrames, NEW out \in Outcome("form")
  PROVE  Follow(PopupForm(w, out), w)
<1>. DEFINE u == NewFrame(w, "form")[1]
            f == NewFrame(w, "form")[2]
            l == Losing(u, "formdesc")
<1>1. Sound(w) /\ w.status = "running" /\ "form" \in Kind /\ Len(w.frames) <= MaxFrames
  BY SessionAssumption DEF Tidy, Sound, Typed, WorldStruct, Kind
<1>2. /\ InitOnly(u, w) /\ f \in Frame /\ f.kind = "form" /\ f.aux = Null
      /\ f.auxbox = NoSurface /\ f.stage = "run"
  BY <1>1, StartIs
<1>3. /\ out \in {"opens", "missing", "bad"}
      /\ PopupForm(w, out) = CASE out = "opens" -> OpenBox(u, f)
                               [] out = "missing" -> Notice(Push(u, [f EXCEPT !.stage = "failed"]))
                               [] out = "bad" -> Notice(Push(l, [f EXCEPT !.stage = "ending"]))
  BY DEF PopupForm, Outcome, Fails
<1>. HIDE DEF f
<1>4. /\ u \in WorldStruct /\ u.frames = w.frames /\ u.tm = w.tm /\ u.lost = w.lost
      /\ u.status = "running" /\ u.init = NewFrame(w, "form")[1].init
  BY <1>1, <1>2 DEF InitOnly
<1>. HIDE DEF u
<1>5. /\ l \in WorldStruct /\ l.frames = w.frames /\ l.tm = w.tm
      /\ l.lost = w.lost \cup {"formdesc"} /\ l.status = "running"
      /\ l.init = NewFrame(w, "form")[1].init
  BY <1>4, LosingIs DEF Path
<1>. HIDE DEF l
<1>6. Follow(OpenBox(u, f), w)
  BY <1>2, <1>4, BoxFollow
<1>7. Follow(Notice(Push(u, [f EXCEPT !.stage = "failed"])), w)
  BY <1>4, FailsFollow DEF f
<1>8. Follow(Notice(Push(l, [f EXCEPT !.stage = "ending"])), w)
  BY <1>5, FailsFollow DEF f
<1>. QED
  BY <1>3, <1>6, <1>7, <1>8

\* Engines whose windows are what they were.
LEMMA PlacedSame ==
  ASSUME NEW fr \in Seq(Frame), NEW gr \in Seq(Frame), fr # <<>>, NEW t \in TermStruct,
         Placed(fr, t), Len(gr) = Len(fr), \A i \in 1..(Len(fr) - 1) : gr[i] = fr[i],
         gr[Len(fr)].kind = Last(fr).kind, gr[Len(fr)].box = Last(fr).box,
         gr[Len(fr)].auxbox = Last(fr).auxbox, BoxRight(gr[Len(fr)])
  PROVE  Placed(gr, t)
<1>. DEFINE f == Last(fr)
            g == gr[Len(fr)]
<1>1. Len(fr) \in Nat \ {0} /\ f = fr[Len(fr)] /\ Len(fr) \in 1..Len(fr)
  BY FrontFrame
<1>2. Wins(g) = Wins(f) /\ (Stacked(g) <=> Stacked(f)) /\ (Stacked(f) => g.box = f.box)
  BY DEF Wins, Stacked
<1>3. Wins(f) \subseteq t.live
  BY <1>1 DEF Placed, Shown
<1>4. t.live = (t.live \ Wins(f)) \cup Wins(g) /\ Wins(g) \cap (t.live \ Wins(f)) = {}
  BY <1>2, <1>3
<1>5. Shown(gr, t)
  BY <1>2, <1>4, ShownInstead DEF Placed
<1>6. ASSUME NEW i \in 1..Len(fr) PROVE BoxRight(gr[i])
  <2>1. i = Len(fr) \/ i \in 1..(Len(fr) - 1)
    BY <1>1
  <2>. QED
    BY <2>1 DEF Placed
<1>. QED
  BY <1>5, <1>6 DEF Placed

\* The pager starts.
LEMMA StartViewClean ==
  ASSUME NEW w, Tidy(w), Len(w.frames) < MaxFrames, w.lost = {}
  PROVE  LET v == OpenViewWindow(NewFrame(w, "view")[1], NewFrame(w, "view")[2])
         IN  Clean(v.frames, v.tm) /\ Last(v.frames).kind = "view" /\ Last(v.frames).aux = Null
             /\ Last(v.frames).auxbox = NoSurface /\ Last(v.frames).box # NoSurface
<1>. DEFINE v == OpenViewWindow(NewFrame(w, "view")[1], NewFrame(w, "view")[2])
            s == FreeSurface(w.tm)
<1>1. /\ v.tm = Allocated(w.tm) /\ s \in Surface \ w.tm.live
      /\ \E g \in Frame : /\ v.frames = Append(w.frames, g) /\ g.kind = "view"
                          /\ g.box = s /\ g.aux = Null
                          /\ g.auxbox = NoSurface /\ g.stage = "run"
  BY StartView DEF Tidy
<1>2. PICK g \in Frame : /\ v.frames = Append(w.frames, g) /\ g.kind = "view"
                         /\ g.box = s /\ g.aux = Null
                         /\ g.auxbox = NoSurface /\ g.stage = "run"
  BY <1>1
<1>. HIDE DEF v
<1>3. /\ w.frames \in Seq(Frame) /\ w.tm \in TermStruct /\ Clean(w.frames, w.tm)
      /\ s # NoSurface
  BY <1>1, TerminalAssumption DEF Tidy, Sound, Typed, WorldStruct, NoSurface
<1>4. /\ Allocated(w.tm) \in TermStruct /\ Allocated(w.tm).live = w.tm.live \cup {s}
      /\ Allocated(w.tm).ui_surface = w.tm.ui_surface
      /\ Allocated(w.tm).f_curses_open = w.tm.f_curses_open
  BY <1>1, <1>3, BoxWinNewIs
<1>5. Wins(g) = {s} /\ ~Stacked(g) /\ BoxRight(g)
  BY <1>2, <1>3 DEF Wins, Stacked, BoxRight
<1>6. Placed(Append(w.frames, g), Allocated(w.tm))
  <2>1. /\ Allocated(w.tm).f_curses_open
        /\ Allocated(w.tm).live = w.tm.live \cup Wins(g) /\ Wins(g) \cap w.tm.live = {}
        /\ Allocated(w.tm).ui_surface
           = IF Stacked(g) THEN Append(w.tm.ui_surface, g.box) ELSE w.tm.ui_surface
    BY <1>1, <1>3, <1>4, <1>5 DEF Clean, Placed
  <2>. QED
    BY <1>3, <1>4, <1>5, <2>1, PlacedAppend DEF Clean
<1>7. Failing(Append(w.frames, g))
  BY <1>2, <1>3, FailingAppend DEF Clean, Failing
<1>8. Last(v.frames) = g
  <2>1. /\ Len(v.frames) = Len(w.frames) + 1 /\ v.frames[Len(w.frames) + 1] = g
    BY <1>2, <1>3, AppendFrame
  <2>. QED
    BY <2>1 DEF Last
<1>. QED
  BY <1>1, <1>2, <1>3, <1>6, <1>7, <1>8 DEF v, Clean

\* popup_view; the message about a file that cannot be opened is shown over its window.
LEMMA PopupViewFollow ==
  ASSUME NEW w, Tidy(w), Len(w.frames) < MaxFrames, NEW out \in Outcome("view")
  PROVE  Follow(PopupView(w, out), w)
<1>. DEFINE v == OpenViewWindow(NewFrame(w, "view")[1], NewFrame(w, "view")[2])
            x == Stage(v, "failed")
<1>1. PopupView(w, out) = IF out = "opens" THEN v ELSE Notice(x)
  BY DEF PopupView
<1>2. /\ Sound(v) /\ v.status = "running" /\ v.lost = w.lost /\ v.tm = Allocated(w.tm)
      /\ Len(v.frames) = Len(w.frames) + 1
      /\ \E g \in Frame : v.frames = Append(w.frames, g) /\ g.kind = "view" /\ g.aux = Null
  BY StartView DEF Tidy
<1>3. Allocated(w.tm).handlers = w.tm.handlers
  <2>1. w.tm \in TermStruct /\ FreeSurface(w.tm) \in Surface
    BY StartView DEF Tidy, Sound, Typed, WorldStruct
  <2>. QED
    BY <2>1, BoxWinNewIs
<1>4. /\ w.frames \in Seq(Frame) /\ v.frames \in Seq(Frame) /\ v.tm \in TermStruct
      /\ Len(w.frames) \in Nat /\ MaxFrames \in Nat
  BY <1>2, SessionAssumption DEF Tidy, Sound, Typed, WorldStruct
<1>5. v.frames # <<>> /\ Last(v.frames).aux = Null /\ Last(v.frames).kind = "view"
  <2>1. PICK g \in Frame : v.frames = Append(w.frames, g) /\ g.kind = "view" /\ g.aux = Null
    BY <1>2
  <2>2. v.frames[Len(w.frames) + 1] = g
    BY <1>4, <2>1, AppendFrame
  <2>. QED
    BY <1>2, <1>4, <2>1, <2>2 DEF Last
<1>6. v.lost = {} => /\ Clean(v.frames, v.tm) /\ Last(v.frames).box # NoSurface
                     /\ Last(v.frames).auxbox = NoSurface
  BY <1>2, StartViewClean
<1>. HIDE DEF v
<1>7. Follow(v, w)
  BY <1>2, <1>3, <1>6 DEF Follow, Ordered
<1>8. Follow(Notice(x), w)
  <2>1. /\ Sound(x) /\ x.status = "running" /\ x.lost = v.lost /\ x.tm = v.tm
        /\ Len(x.frames) = Len(v.frames)
        /\ \A i \in 1..(Len(v.frames) - 1) : x.frames[i] = v.frames[i]
        /\ Last(x.frames) = [Last(v.frames) EXCEPT !.stage = "failed"]
    BY <1>2, <1>5, StageSound DEF Kind
  <2>. HIDE DEF x
  <2>2. Last(v.frames) = v.frames[Len(v.frames)] /\ Last(v.frames) \in Frame
    BY <1>4, <1>5, FrontFrame
  <2>3. /\ Last(x.frames).kind = "view" /\ Last(x.frames).box = Last(v.frames).box
        /\ Last(x.frames).auxbox = Last(v.frames).auxbox /\ Last(x.frames).aux = Null
        /\ Last(x.frames) = x.frames[Len(v.frames)]
    BY <1>5, <2>1, <2>2 DEF Frame, Last
  <2>4. x.frames \in Seq(Frame)
    BY <2>1 DEF Sound, Typed, WorldStruct
  <2>5. ASSUME x.lost = {}
        PROVE  /\ Placed(x.frames, x.tm)
               /\ \A i \in 1..(Len(x.frames) - 1) :
                      x.frames[i].stage = "failed" => x.frames[i + 1].kind = "notice"
    <3>1. /\ Placed(v.frames, v.tm) /\ Failing(v.frames) /\ Last(v.frames).box # NoSurface
          /\ Last(v.frames).auxbox = NoSurface
      BY <1>6, <2>1, <2>5 DEF Clean
    <3>2. BoxRight(x.frames[Len(v.frames)])
      BY <2>3, <3>1 DEF BoxRight
    <3>3. Placed(x.frames, x.tm)
      BY <1>4, <1>5, <2>1, <2>3, <2>4, <3>1, <3>2, PlacedSame
    <3>4. ASSUME NEW i \in 1..(Len(x.frames) - 1), x.frames[i].stage = "failed"
          PROVE  x.frames[i + 1].kind = "notice"
      <4>1. i \in 1..Len(v.frames) /\ v.frames[i].stage = "failed"
        BY <1>2, <1>4, <2>1, <3>4
      <4>2. v.frames[i + 1].kind = "notice" /\ i < Len(v.frames)
        BY <3>1, <4>1 DEF Failing
      <4>3. i + 1 # Len(v.frames)
        BY <1>5, <2>2, <4>2
      <4>4. i + 1 \in 1..(Len(v.frames) - 1)
        BY <1>2, <1>4, <4>1, <4>2, <4>3
      <4>. QED
        BY <2>1, <4>2, <4>4
    <3>. QED
      BY <3>3, <3>4
  <2>6. Follow(Notice(x), x)
    <3>1. Len(x.frames) <= MaxFrames
      BY <1>2, <1>4, <2>1
    <3>. QED
      BY <2>1, <2>5, <3>1, NoticeFollow
  <2>. QED
    BY <1>2, <1>3, <2>1, <2>6, FollowFrom
<1>. QED
  BY <1>1, <1>7, <1>8

\* popup_pick, with the pager beside it or without.
LEMMA PopupPickFollow ==
  ASSUME NEW w, Tidy(w), Len(w.frames) < MaxFrames, OnlyMenus(w.frames),
         NEW out \in Outcome("pick")
  PROVE  Follow(PopupPick(w, out), w)
<1>. DEFINE u == NewFrame(w, "pick")[1]
            f == NewFrame(w, "pick")[2]
            v == OpenBox(u, f)
            x == WithPreview(v)
<1>1. /\ Sound(w) /\ w.status = "running" /\ "pick" \in Kind /\ Len(w.frames) <= MaxFrames
      /\ Len(w.frames) \in Nat /\ MaxFrames \in Nat /\ w.frames \in Seq(Frame)
  BY SessionAssumption DEF Tidy, Sound, Typed, WorldStruct, Kind
<1>2. /\ InitOnly(u, w) /\ f \in Frame /\ f.kind = "pick" /\ f.aux = Null
      /\ f.auxbox = NoSurface /\ f.stage = "run"
  BY <1>1, StartIs
<1>3. /\ out \in {"opens", "preview", "bad"}
      /\ PopupPick(w, out) = CASE out = "opens" -> v
                               [] out = "preview" -> IF v.status = "crashed" THEN v ELSE x
                               [] out = "bad" -> Notice(Push(u, [f EXCEPT !.stage = "failed"]))
  BY DEF PopupPick, Outcome, Fails
<1>4. /\ Fine(v)
      /\ v.status = w.status \/ v.status = "crashed"
      /\ v.status = "running" =>
             \E g \in Frame : /\ v.frames = Append(w.frames, g) /\ g.kind = "pick"
                              /\ g.aux = Null /\ g.stage = "run" /\ g.auxbox = NoSurface
  BY <1>1, StartBox
<1>. HIDE DEF f
<1>5. /\ u \in WorldStruct /\ u.frames = w.frames /\ u.tm = w.tm /\ u.lost = w.lost
      /\ u.status = "running" /\ u.init = NewFrame(w, "pick")[1].init
  BY <1>1, <1>2 DEF InitOnly
<1>. HIDE DEF u
<1>6. Follow(v, w)
  BY <1>2, <1>5, BoxFollow
<1>. HIDE DEF v
<1>7. Follow(Notice(Push(u, [f EXCEPT !.stage = "failed"])), w)
  BY <1>5, FailsFollow DEF f
<1>8. ASSUME v.status # "crashed"
      PROVE  Follow(x, w)
  <2>1. /\ Sound(v) /\ v.status = "running" /\ v.tm \in TermStruct /\ v.frames \in Seq(Frame)
    BY <1>1, <1>4, <1>8 DEF Fine, Sound, Typed, WorldStruct
  <2>2. PICK g \in Frame : /\ v.frames = Append(w.frames, g) /\ g.kind = "pick"
                           /\ g.aux = Null /\ g.stage = "run" /\ g.auxbox = NoSurface
    BY <1>4, <2>1
  <2>3. /\ Len(v.frames) = Len(w.frames) + 1 /\ v.frames[Len(v.frames)] = g
        /\ v.frames # <<>> /\ Last(v.frames) = g
    <3>1. Len(v.frames) = Len(w.frames) + 1 /\ v.frames[Len(w.frames) + 1] = g
      BY <1>1, <2>2, AppendFrame
    <3>. QED
      BY <1>1, <3>1 DEF Last
  <2>4. Len(v.frames) <= MaxFrames
    BY <1>1, <2>3
  <2>. DEFINE n == Len(v.frames)
              s == FreeSurface(v.tm)
  <2>5. /\ Sound(x) /\ x.status = "running" /\ x.lost = v.lost /\ Len(x.frames) = n
        /\ \A i \in 1..(n - 1) : x.frames[i] = v.frames[i]
        /\ x.frames[n].kind = "pick" /\ x.frames[n].box = v.frames[n].box
        /\ x.frames[n].aux # Null /\ x.frames[n].auxbox = s
        /\ x.frames[n].stage = "run"
        /\ x.tm = Allocated(v.tm) /\ s \in Surface \ v.tm.live
    BY <2>1, <2>2, <2>3, <2>4, PreviewSound
  <2>6. /\ Allocated(v.tm) \in TermStruct
        /\ Allocated(v.tm).live = v.tm.live \cup {s}
        /\ Allocated(v.tm).ui_surface = v.tm.ui_surface
        /\ Allocated(v.tm).f_curses_open = v.tm.f_curses_open
        /\ Allocated(v.tm).handlers = v.tm.handlers
    BY <2>1, <2>5, BoxWinNewIs
  <2>7. x.frames \in Seq(Frame) /\ s # NoSurface /\ n \in Nat \ {0} /\ n \in 1..n
    BY <1>1, <2>3, <2>5, TerminalAssumption DEF Sound, Typed, WorldStruct, NoSurface
  <2>. HIDE DEF x, s
  <2>8. ASSUME x.lost = {}
        PROVE  Clean(x.frames, x.tm)
    <3>1. Clean(v.frames, v.tm)
      BY <1>6, <2>1, <2>5, <2>8 DEF Follow, Ordered
    <3>2. /\ BoxRight(g) /\ Wins(g) \subseteq v.tm.live
      BY <2>3, <2>7, <3>1 DEF Clean, Placed, Shown
    <3>3. /\ g.box # NoSurface /\ Wins(g) = {g.box}
      BY <2>2, <3>2 DEF BoxRight, Wins
    <3>4. /\ Wins(x.frames[n]) = {g.box, s} /\ BoxRight(x.frames[n])
          /\ Stacked(x.frames[n]) /\ Stacked(g)
      BY <2>2, <2>3, <2>5, <2>7, <3>3 DEF BoxRight, Wins, Stacked
    <3>5. /\ Allocated(v.tm).live = (v.tm.live \ Wins(g)) \cup Wins(x.frames[n])
          /\ Wins(x.frames[n]) \cap (v.tm.live \ Wins(g)) = {}
      BY <2>5, <2>6, <3>2, <3>3, <3>4
    <3>6. Shown(x.frames, Allocated(v.tm))
      <4>1. Shown(v.frames, v.tm)
        BY <3>1 DEF Clean, Placed
      <4>2. x.frames[n].box = g.box
        BY <2>3, <2>5
      <4>3. Len(x.frames) = Len(v.frames) /\ \A i \in 1..(Len(v.frames) - 1) :
                                                x.frames[i] = v.frames[i]
        BY <2>5
      <4>4. /\ Stacked(x.frames[Len(v.frames)]) <=> Stacked(Last(v.frames))
            /\ Stacked(Last(v.frames)) => x.frames[Len(v.frames)].box = Last(v.frames).box
        BY <2>3, <3>4, <4>2
      <4>5. /\ Allocated(v.tm).live
               = (v.tm.live \ Wins(Last(v.frames))) \cup Wins(x.frames[Len(v.frames)])
            /\ Wins(x.frames[Len(v.frames)]) \cap (v.tm.live \ Wins(Last(v.frames))) = {}
        BY <2>3, <3>5
      <4>6. v.frames \in Seq(Frame) /\ v.frames # <<>> /\ x.frames \in Seq(Frame)
        BY <2>1, <2>3, <2>7
      <4>. HIDE DEF n
      <4>. QED
        BY <2>1, <2>6, <4>1, <4>3, <4>4, <4>5, <4>6, ShownInstead, ZenonT(40)
    <3>7. ASSUME NEW i \in 1..n
          PROVE  BoxRight(x.frames[i]) /\ x.frames[i].stage = v.frames[i].stage
                 /\ x.frames[i].kind = v.frames[i].kind
      <4>1. i = n \/ i \in 1..(n - 1)
        BY <2>7
      <4>. QED
        BY <2>2, <2>3, <2>5, <3>1, <3>4, <4>1, SMTT(30) DEF Clean, Placed
    <3>8. Failing(x.frames)
      <4>1. ASSUME NEW i \in 1..n, x.frames[i].stage = "failed"
            PROVE  i < n /\ x.frames[i + 1].kind = "notice"
        <5>1. i < n /\ v.frames[i + 1].kind = "notice"
          BY <3>1, <3>7, <4>1 DEF Clean, Failing
        <5>2. i + 1 \in 1..n
          BY <2>7, <5>1
        <5>. QED
          BY <3>7, <5>1, <5>2
      <4>. QED
        BY <2>5, <4>1 DEF Failing
    <3>9. x.tm.f_curses_open
      BY <2>5, <2>6, <3>1 DEF Clean, Placed
    <3>. QED
      BY <2>5, <3>6, <3>7, <3>8, <3>9 DEF Clean, Placed
  <2>9. w.lost \subseteq x.lost /\ (x.tm.handlers # w.tm.handlers =>
                                      x.tm.handlers = "program" \/ ToChild(x))
    <3>1. w.lost \subseteq v.lost /\ (v.tm.handlers # w.tm.handlers =>
                                        v.tm.handlers = "program" \/ ToChild(v))
      BY <1>6, <2>1 DEF Follow
    <3>2. ToChild(v) => ToChild(x)
      BY <2>2, <2>3, <2>5 DEF ToChild
    <3>. QED
      BY <2>5, <2>6, <3>1, <3>2
  <2>. QED
    BY <2>5, <2>8, <2>9 DEF Follow, Ordered
<1>. QED
  BY <1>3, <1>6, <1>7, <1>8

\* popups.c, whatever it opens.
LEMMA PopupFollow ==
  ASSUME NEW w, Tidy(w), Len(w.frames) < MaxFrames, NEW k \in Kind,
         k \in {"menu", "pick"} => OnlyMenus(w.frames), NEW out \in Outcome(k)
  PROVE  Follow(Popup(w, k, out), w)
<1>1. k \in {"menu", "pick", "form", "view"}
  BY DEF Kind
<1>2. Popup(w, k, out) = CASE k = "menu" -> PopupMenu(w, out)
                           [] k = "pick" -> PopupPick(w, out)
                           [] k = "form" -> PopupForm(w, out)
                           [] k = "view" -> PopupView(w, out)
  BY DEF Popup
<1>3. CASE k = "menu"
  BY <1>2, <1>3, PopupMenuFollow
<1>4. CASE k = "pick"
  BY <1>2, <1>4, PopupPickFollow
<1>5. CASE k = "form"
  BY <1>2, <1>5, PopupFormFollow
<1>6. CASE k = "view"
  BY <1>2, <1>6, PopupViewFollow
<1>. QED
  BY <1>1, <1>3, <1>4, <1>5, <1>6

\* popup_ckeys.
LEMMA PopupCkeysFollow ==
  ASSUME NEW w, Tidy(w)
  PROVE  Follow(PopupCkeys(w), w)
<1>. DEFINE f == FrameOf("ckeys", Null, Null)
<1>1. /\ f \in Frame /\ f.stage = "run" /\ f.kind = "ckeys" /\ f.aux = Null
      /\ f.auxbox = NoSurface
  BY DEF FrameOf, Frame
<1>2. PopupCkeys(w) = OpenBox(w, f)
  BY DEF PopupCkeys
<1>. HIDE DEF f
<1>3. w \in WorldStruct /\ w.status = "running"
  BY DEF Tidy, Sound, Typed
<1>. QED
  BY <1>1, <1>2, <1>3, BoxFollow

\* exit() from anywhere.
LEMMA ExitNowFollow ==
  ASSUME NEW w \in WorldStruct, NEW u \in WorldStruct, u.lost = w.lost
  PROVE  Follow(ExitNow(u), w)
<1>. DEFINE v == ExitNow(u)
<1>1. v.status = "exited" /\ v.lost = u.lost \cup {"exit"}
  BY ExitNowIs
<1>. HIDE DEF v
<1>2. Follow(v, w)
  BY <1>1 DEF Follow, Ordered
<1>. QED
  BY <1>2 DEF v

\* A command that opens something.
LEMMA OpensFollow ==
  ASSUME NEW w, Tidy(w), Len(w.frames) < MaxFrames, NEW k \in Kind,
         k \in {"menu", "pick"} => OnlyMenus(w.frames), NEW v \in Opens(w, k)
  PROVE  Follow(v, w)
<1>1. CASE v = ExitNow(w)
  <2>1. w \in WorldStruct
    BY DEF Tidy, Sound, Typed
  <2>. QED
    BY <1>1, <2>1, ExitNowFollow
<1>2. CASE \E out \in Outcome(k) : v = Popup(w, k, out)
  BY <1>2, PopupFollow
<1>. QED
  BY <1>1, <1>2 DEF Opens

\* The screen is given to a process.
LEMMA ShutdownFollow ==
  ASSUME NEW w, Sound(w), w.status = "running", NEW t, Modal(t, w.tm)
  PROVE  LET v == Shutdown([w EXCEPT !.tm = t])
         IN  /\ Sound(v) /\ v.frames = w.frames /\ v.status = "running"
             /\ v.lost = w.lost \cup {"shutdown"} /\ v.tm = UiShutdown(t)
             /\ \A x : /\ x.lost = v.lost /\ x.status = "running" => Follow(x, w)
<1>. DEFINE u == [w EXCEPT !.tm = t]
            v == Shutdown(u)
<1>1. Sound(u) /\ TermOnly(u, w) /\ u.tm = t
  BY ModalSound
<1>. HIDE DEF u
<1>2. /\ Sound(v) /\ v.frames = u.frames /\ v.init = u.init /\ v.status = u.status
      /\ v.lost = u.lost \cup {"shutdown"} /\ v.tm = UiShutdown(u.tm)
  BY <1>1, ShutdownSound
<1>. HIDE DEF v
<1>3. v.frames = w.frames /\ v.status = "running" /\ v.lost = w.lost \cup {"shutdown"}
  BY <1>1, <1>2 DEF TermOnly
<1>4. ASSUME NEW x, x.lost = v.lost, x.status = "running"
      PROVE  Follow(x, w)
  BY <1>3, <1>4 DEF Follow, Ordered, ToChild
<1>5. /\ Sound(v) /\ v.frames = w.frames /\ v.status = "running"
      /\ v.lost = w.lost \cup {"shutdown"} /\ v.tm = UiShutdown(t)
      /\ \A x : /\ x.lost = v.lost /\ x.status = "running" => Follow(x, w)
  BY <1>1, <1>2, <1>3, <1>4
<1>. QED
  BY <1>5 DEF u, v

\* fork_exec.
LEMMA ForkExecFollow ==
  ASSUME NEW w, Tidy(w)
  PROVE  Follow(ForkExec(w), w) /\ Follow(ForkExecFails(w), w)
<1>. DEFINE t == SigDflMode(w.tm)
            v == Shutdown([w EXCEPT !.tm = t])
            x == [v EXCEPT !.tm = RestoreShell(@)]
            y == [v EXCEPT !.tm = SigProgMode(@)]
            f == FrameOf("child", Null, Null)
<1>1. Sound(w) /\ w.status = "running" /\ w.tm \in TermStruct
  BY DEF Tidy, Sound, Typed, WorldStruct
<1>2. Modal(t, w.tm)
  BY <1>1, ModesAre
<1>3. ForkExec(w) = Push(x, f) /\ ForkExecFails(w) = y
  BY DEF ForkExec, ForkExecFails
<1>. HIDE DEF t
<1>4. /\ Sound(v) /\ v.status = "running"
      /\ \A z : /\ z.lost = v.lost /\ z.status = "running" => Follow(z, w)
  BY <1>1, <1>2, ShutdownFollow
<1>. HIDE DEF v
<1>5. v \in WorldStruct /\ v.tm \in TermStruct /\ f \in Frame
  BY <1>4 DEF Sound, Typed, WorldStruct, FrameOf, Frame
<1>6. RestoreShell(v.tm) \in TermStruct /\ SigProgMode(v.tm) \in TermStruct
  BY <1>5, ModesAre DEF Modal
<1>7. TermOnly(x, v) /\ TermOnly(y, v)
  BY <1>5, <1>6, TermIs
<1>. HIDE DEF x, y, f
<1>8. Push(x, f).lost = v.lost /\ Push(x, f).status = "running"
  BY <1>4, <1>5, <1>7, PushIs DEF TermOnly, FramesOnly
<1>9. y.lost = v.lost /\ y.status = "running"
  BY <1>4, <1>7 DEF TermOnly
<1>. QED
  BY <1>3, <1>4, <1>8, <1>9

\* exec_objects and form_exec_receiver.
LEMMA ExecCommandFollow ==
  ASSUME NEW w, Tidy(w), NEW v \in ExecCommand(w)
  PROVE  Follow(v, w)
<1>. DEFINE x == Shutdown(w)
            f == FrameOf("child", Null, Null)
<1>1. Sound(w) /\ w.status = "running"
  BY DEF Tidy
<1>2. Sound(x) /\ x.status = w.status /\ x.lost = w.lost \cup {"shutdown"}
  BY <1>1, ShutdownSound
<1>3. v = Push(x, f) \/ v = x
  BY DEF ExecCommand
<1>. HIDE DEF x
<1>4. x \in WorldStruct /\ f \in Frame
  BY <1>2 DEF Sound, Typed, FrameOf, Frame
<1>. HIDE DEF f
<1>5. v.lost = x.lost /\ v.status = "running"
  BY <1>1, <1>2, <1>3, <1>4, PushIs DEF FramesOnly
<1>. QED
  BY <1>2, <1>5 DEF Follow, Ordered, ToChild

\* fork_detach_execvp, up to its sig_dfl_mode.
LEMMA ForkDetachFollow ==
  ASSUME NEW w, Tidy(w), w.frames # <<>>, Last(w.frames).stage = "run"
  PROVE  Follow(ForkDetach(w), w)
<1>. DEFINE t == SigDflMode(w.tm)
            x == [w EXCEPT !.tm = t]
            f == FrameOf("detach", Null, Null)
            v == Push(x, f)
<1>1. /\ Sound(w) /\ w.status = "running" /\ w.tm \in TermStruct /\ w \in WorldStruct
      /\ w.frames \in Seq(Frame) /\ f \in Frame
  BY DEF Tidy, Sound, Typed, WorldStruct, FrameOf, Frame
<1>2. Modal(t, w.tm)
  BY <1>1, ModesAre
<1>3. ForkDetach(w) = v
  BY DEF ForkDetach
<1>4. f.kind = "detach" /\ f.box = NoSurface /\ f.auxbox = NoSurface /\ f.stage = "run"
      /\ f.aux = Null
  BY DEF FrameOf
<1>. HIDE DEF t, f
<1>5. t \in TermStruct /\ TermOnly(x, w) /\ x.tm = t
  BY <1>1, <1>2, TermIs DEF Modal
<1>. HIDE DEF x
<1>6. /\ v.frames = Append(w.frames, f) /\ v.tm = t /\ v.lost = w.lost
      /\ v.status = "running"
  <2>1. x \in WorldStruct /\ x.frames = w.frames /\ x.tm = t /\ x.lost = w.lost
        /\ x.status = "running"
    BY <1>1, <1>5 DEF TermOnly
  <2>2. FramesOnly(Push(x, f), x) /\ Push(x, f).frames = Append(x.frames, f)
    BY <1>1, <2>1, PushIs
  <2>. QED
    BY <2>1, <2>2 DEF FramesOnly
<1>. HIDE DEF v
<1>7. v.frames # <<>> /\ Last(v.frames) = f
  <2>1. /\ Len(Append(w.frames, f)) = Len(w.frames) + 1 /\ Len(w.frames) \in Nat
        /\ Append(w.frames, f)[Len(w.frames) + 1] = f
    BY <1>1, AppendFrame
  <2>2. Append(w.frames, f) # <<>>
    BY <1>1
  <2>3. Len(v.frames) = Len(w.frames) + 1 /\ v.frames[Len(w.frames) + 1] = f
    BY <1>6, <2>1
  <2>. QED
    BY <1>6, <2>2, <2>3 DEF Last
<1>8. ASSUME w.lost = {}
      PROVE  Clean(v.frames, v.tm)
  <2>1. Placed(w.frames, w.tm) /\ Failing(w.frames)
    BY <1>8 DEF Tidy, Clean
  <2>2. BoxRight(f)
    BY <1>4 DEF BoxRight
  <2>3. Placed(w.frames, t)
    BY <1>2, <2>1 DEF Modal, Placed, Shown
  <2>4. Placed(Append(w.frames, f), t)
    BY <1>1, <1>4, <1>5, <2>2, <2>3, PlacedBare
  <2>5. Failing(Append(w.frames, f))
    BY <1>1, <1>4, <2>1, FailingAppend DEF Failing
  <2>. QED
    BY <1>6, <2>4, <2>5 DEF Clean
<1>9. ToChild(v)
  BY <1>4, <1>7 DEF ToChild
<1>. QED
  BY <1>3, <1>6, <1>8, <1>9 DEF Follow, Ordered

-----------------------------------------------------------------------------
(* The ends of the engines.                                                 *)

\* The engines below the last one wait for their message, if they failed.
Below(fr) == \A i \in 1..(Len(fr) - 1) : fr[i].stage = "failed" => fr[i + 1].kind = "notice"

\* The last engine may end.
Ready(w) ==
    /\ Sound(w) /\ w.status = "running" /\ w.frames # <<>>
    /\ w.lost = {} => Placed(w.frames, w.tm) /\ Below(w.frames)

LEMMA TidyReady ==
  ASSUME NEW w, Tidy(w), w.frames # <<>>
  PROVE  Ready(w)
<1>1. w.frames \in Seq(Frame)
  BY DEF Tidy, Sound, Typed, WorldStruct
<1>2. \A i \in 1..(Len(w.frames) - 1) : i \in 1..Len(w.frames)
  BY <1>1
<1>. QED
  BY <1>2 DEF Tidy, Ready, Clean, Failing, Below

\* The last engine is not a message, so no engine below it failed.
LEMMA BelowFront ==
  ASSUME NEW fr \in Seq(Frame), fr # <<>>, Below(fr), Last(fr).kind # "notice"
  PROVE  Failing(Front(fr))
<1>. DEFINE n == Len(fr)
            gr == Front(fr)
<1>1. /\ Len(gr) = n - 1 /\ n \in Nat \ {0} /\ Last(fr) = fr[n]
      /\ \A i \in 1..(n - 1) : gr[i] = fr[i]
  BY FrontFrame
<1>. HIDE DEF gr
<1>2. ASSUME NEW i \in 1..(n - 1), gr[i].stage = "failed"
      PROVE  i < n - 1 /\ gr[i + 1].kind = "notice"
  <2>1. fr[i + 1].kind = "notice"
    BY <1>1, <1>2 DEF Below
  <2>2. i + 1 # n
    BY <1>1, <2>1
  <2>3. i + 1 \in 1..(n - 1)
    BY <1>1, <2>2
  <2>. QED
    BY <1>1, <2>1, <2>3
<1>3. Failing(gr)
  BY <1>1, <1>2 DEF Failing
<1>. QED
  BY <1>3 DEF gr

\* The window on top is that of the last engine, and is destroyed.
LEMMA CloseShown ==
  ASSUME NEW fr \in Seq(Frame), fr # <<>>, NEW t \in TermStruct, Shown(fr, t),
         Stacked(Last(fr))
  PROVE  LET u == CmSurfaceDestroy(t, Last(fr).box)
         IN  /\ u \in TermStruct /\ u.f_curses_open = t.f_curses_open
             /\ u.handlers = t.handlers /\ u.live = t.live \ {Last(fr).box}
             /\ Len(u.ui_surface) = Len(t.ui_surface) - 1
             /\ \A i \in 1..(Len(t.ui_surface) - 1) : u.ui_surface[i] = t.ui_surface[i]
             /\ Last(fr).auxbox = NoSurface => Shown(Front(fr), u)
<1>. DEFINE s == Last(fr).box
            u == CmSurfaceDestroy(t, s)
            n == Len(t.ui_surface)
<1>1. t.ui_surface # <<>> /\ t.ui_surface[n] = s
  BY TopIs
<1>2. /\ u \in TermStruct /\ u.f_curses_open = t.f_curses_open /\ u.handlers = t.handlers
      /\ u.live = t.live \ {s} /\ Len(u.ui_surface) = n - 1
      /\ \A i \in 1..(n - 1) : u.ui_surface[i] = t.ui_surface[i]
  <2>1. /\ u \in TermStruct /\ u.f_curses_open = t.f_curses_open
        /\ u.handlers = t.handlers /\ u.tty = t.tty
        /\ \/ u = t /\ (t.ui_surface = <<>> \/ s # t.ui_surface[n])
           \/ /\ n \in Nat \ {0} /\ t.ui_surface[n] = s /\ u.live = t.live \ {s}
              /\ Len(u.ui_surface) = n - 1
              /\ \A i \in 1..(n - 1) : u.ui_surface[i] = t.ui_surface[i]
    BY CloseIs
  <2>. HIDE DEF u, s, n
  <2>. QED
    BY <1>1, <2>1
<1>. HIDE DEF u
<1>3. ASSUME Last(fr).auxbox = NoSurface
      PROVE  Shown(Front(fr), u)
  <2>1. Wins(Last(fr)) = {s}
    BY <1>3 DEF Wins, Stacked
  <2>2. u.live = t.live \ Wins(Last(fr))
    BY <1>2, <2>1
  <2>. QED
    BY <1>2, <2>2, ShownFront
<1>4. /\ u \in TermStruct /\ u.f_curses_open = t.f_curses_open
      /\ u.handlers = t.handlers /\ u.live = t.live \ {Last(fr).box}
      /\ Len(u.ui_surface) = Len(t.ui_surface) - 1
      /\ \A i \in 1..(Len(t.ui_surface) - 1) : u.ui_surface[i] = t.ui_surface[i]
      /\ Last(fr).auxbox = NoSurface => Shown(Front(fr), u)
  BY <1>2, <1>3
<1>. QED
  BY <1>4 DEF u

\* The engine has ended; the last one leaves the terminal as the shell had it.
LEMMA EndedFollow ==
  ASSUME NEW w, Ready(w), NEW t \in TermStruct, t.handlers = w.tm.handlers,
         NEW v, Ended(v, w, t),
         w.lost = {} => /\ t.f_curses_open /\ Shown(Front(w.frames), t)
                        /\ Failing(Front(w.frames))
  PROVE  Follow(v, w)
<1>. DEFINE gr == Front(w.frames)
<1>1. /\ w.frames \in Seq(Frame) /\ w.frames # <<>> /\ gr \in Seq(Frame)
      /\ Len(gr) = Len(w.frames) - 1 /\ Len(w.frames) \in Nat \ {0}
      /\ \A i \in 1..(Len(w.frames) - 1) : gr[i] = w.frames[i]
  BY FrontFrame DEF Ready, Sound, Typed, WorldStruct
<1>2. /\ v.lost = w.lost /\ v.status # "killed"
      /\ v.status = "running" => v.tm.handlers = w.tm.handlers
  BY DEF Ended
<1>3. ASSUME w.lost = {}, IsRoot(w)
      PROVE  v.status = "exited" /\ Restored(v.tm)
  <2>1. Len(gr) = 0
    BY <1>1, <1>3 DEF IsRoot
  <2>2. Shown(gr, t) /\ t.f_curses_open
    BY <1>3
  <2>3. t.live = {}
    BY <2>1, <2>2 DEF Shown
  <2>4. v.status = "exited" /\ v.tm = DestroyCurses(t)
    BY <1>3 DEF Ended
  <2>. QED
    BY <2>2, <2>3, <2>4, DestroyCursesIs DEF Restored
<1>4. ASSUME w.lost = {}, ~IsRoot(w)
      PROVE  v.status = "running" /\ Clean(v.frames, v.tm)
  <2>1. v.status = "running" /\ v.frames = gr /\ v.tm = t
    BY <1>4 DEF Ended
  <2>2. \A i \in 1..Len(gr) : BoxRight(gr[i])
    <3>1. \A i \in 1..Len(gr) : i \in 1..Len(w.frames) /\ gr[i] = w.frames[i]
      BY <1>1
    <3>. QED
      BY <1>4, <3>1 DEF Ready, Placed
  <2>. QED
    BY <1>4, <2>1, <2>2 DEF Clean, Placed
<1>. QED
  BY <1>2, <1>3, <1>4 DEF Follow, Ordered

\* The windows of the last engine, by its kind.
LEMMA LastBox ==
  ASSUME NEW w, Ready(w), w.lost = {}
  PROVE  LET f == Last(w.frames)
         IN  /\ f \in Frame /\ f = w.frames[Len(w.frames)] /\ BoxRight(f)
             /\ w.frames \in Seq(Frame) /\ w.frames # <<>> /\ w.tm \in TermStruct
             /\ Shown(w.frames, w.tm) /\ w.tm.f_curses_open
             /\ f.kind # "notice" => Failing(Front(w.frames))
             /\ f.aux = Null => f.auxbox = NoSurface
             /\ f.kind \in {"menu", "pick", "form"} /\ f.stage # "failed" => Stacked(f)
             /\ f.kind \in {"notice", "ckeys"} => Stacked(f)
<1>. DEFINE f == Last(w.frames)
<1>1. /\ w.frames \in Seq(Frame) /\ w.frames # <<>> /\ w.tm \in TermStruct
      /\ Placed(w.frames, w.tm) /\ Below(w.frames)
  BY DEF Ready, Sound, Typed, WorldStruct
<1>2. f \in Frame /\ f = w.frames[Len(w.frames)] /\ Len(w.frames) \in 1..Len(w.frames)
  BY <1>1, FrontFrame
<1>3. BoxRight(f) /\ Shown(w.frames, w.tm) /\ w.tm.f_curses_open
  BY <1>1, <1>2 DEF Placed
<1>4. f.kind # "notice" => Failing(Front(w.frames))
  BY <1>1, BelowFront
<1>. HIDE DEF f
<1>5. /\ f.aux = Null => f.auxbox = NoSurface
      /\ f.kind \in {"menu", "pick", "form"} /\ f.stage # "failed" => Stacked(f)
      /\ f.kind \in {"notice", "ckeys"} => Stacked(f)
  BY <1>3 DEF BoxRight, Stacked
<1>6. /\ f \in Frame /\ f = w.frames[Len(w.frames)] /\ BoxRight(f)
      /\ w.frames \in Seq(Frame) /\ w.frames # <<>> /\ w.tm \in TermStruct
      /\ Shown(w.frames, w.tm) /\ w.tm.f_curses_open
      /\ f.kind # "notice" => Failing(Front(w.frames))
  BY <1>1, <1>2, <1>3, <1>4
<1>. QED
  BY <1>5, <1>6 DEF f

\* MA_RETURN of menu_engine; a menu that is not the first finds the window of the menu
\* below it, and destroys its structure once.
LEMMA EndMenuFollow ==
  ASSUME NEW w, Ready(w), Last(w.frames).kind = "menu", Last(w.frames).stage = "run"
  PROVE  Follow(EndMenu(w), w)
<1>. DEFINE f == Last(w.frames)
            t == CmSurfaceDestroy(w.tm, f.box)
            v == EndMenu(w)
            gr == Front(w.frames)
<1>1. /\ Sound(w) /\ w.status = "running" /\ w.frames # <<>> /\ w.frames \in Seq(Frame)
      /\ w.tm \in TermStruct
  BY DEF Ready, Sound, Typed, WorldStruct
<1>2. f.aux = Null /\ OnlyMenus(w.frames)
  BY <1>1, LastIs
<1>3. /\ Fine(v)
      /\ \/ Ended(v, w, t)
         \/ v.lost = w.lost /\ v.status = "crashed" /\ ~IsRoot(w) /\ t.ui_surface = <<>>
  BY <1>1, <1>2, EndMenuFine
<1>. HIDE DEF v
<1>4. t \in TermStruct /\ t.handlers = w.tm.handlers
  BY <1>1, CloseIs
<1>5. ASSUME w.lost = {}
      PROVE  /\ t.f_curses_open /\ Shown(gr, t) /\ Failing(gr)
             /\ ~IsRoot(w) => t.ui_surface # <<>>
  <2>1. Stacked(f) /\ f.auxbox = NoSurface /\ Failing(gr) /\ Shown(w.frames, w.tm)
        /\ w.tm.f_curses_open
    BY <1>2, <1>5, LastBox
  <2>2. t.f_curses_open /\ Shown(gr, t)
    BY <1>1, <2>1, CloseShown
  <2>3. /\ gr \in Seq(Frame) /\ Len(gr) = Len(w.frames) - 1 /\ Len(w.frames) \in Nat \ {0}
        /\ \A i \in 1..(Len(w.frames) - 1) : gr[i] = w.frames[i]
    BY <1>1, FrontFrame
  <2>4. ASSUME ~IsRoot(w)
        PROVE  t.ui_surface # <<>>
    <3>. DEFINE n == Len(gr)
    <3>1. n \in Nat \ {0} /\ n \in 1..Len(w.frames) /\ gr[n] = w.frames[n] /\ gr # <<>>
      <4>1. Len(w.frames) # 1
        BY <2>4 DEF IsRoot
      <4>. HIDE DEF gr
      <4>2. n \in Nat \ {0} /\ n \in 1..Len(w.frames) /\ n \in 1..(Len(w.frames) - 1)
        <5>1. Len(w.frames) \in Nat \ {0} /\ n = Len(w.frames) - 1
          BY <2>3
        <5>2. ASSUME NEW m \in Nat \ {0}, m # 1
              PROVE  m - 1 \in Nat \ {0} /\ m - 1 \in 1..m /\ m - 1 \in 1..(m - 1)
          BY <5>2
        <5>. HIDE DEF n
        <5>. QED
          BY <4>1, <5>1, <5>2
      <4>3. gr # <<>>
        BY <4>2
      <4>. QED
        BY <2>3, <4>2, <4>3
    <3>2. gr[n].kind = "menu"
      BY <3>1, <1>2 DEF OnlyMenus
    <3>3. gr[n].stage # "failed"
      BY <2>1, <3>1 DEF Failing
    <3>4. BoxRight(gr[n])
      BY <1>5, <3>1 DEF Ready, Placed
    <3>5. Stacked(gr[n])
      BY <3>2, <3>3, <3>4 DEF BoxRight, Stacked
    <3>6. Stacked(Last(gr))
      BY <2>3, <3>1, <3>5, FrontFrame
    <3>. QED
      BY <1>4, <2>2, <2>3, <3>1, <3>6, TopIs
  <2>. QED
    BY <2>1, <2>2, <2>4
<1>6. CASE Ended(v, w, t)
  <2>1. Follow(v, w)
    BY <1>4, <1>5, <1>6, EndedFollow
  <2>. QED
    BY <2>1 DEF v
<1>7. CASE v.lost = w.lost /\ v.status = "crashed" /\ ~IsRoot(w) /\ t.ui_surface = <<>>
  <2>1. w.lost # {}
    BY <1>5, <1>7
  <2>2. Follow(v, w)
    BY <1>7, <2>1 DEF Follow, Ordered
  <2>. QED
    BY <2>2 DEF v
<1>. QED
  BY <1>3, <1>6, <1>7

\* init_pick and init_form that gave up: their window was never opened.
LEMMA GiveUpFollow ==
  ASSUME NEW w, Ready(w), Last(w.frames).kind \in {"pick", "form"},
         Last(w.frames).stage = "failed", NEW v, Ended(v, w, w.tm)
  PROVE  Follow(v, w)
<1>. DEFINE f == Last(w.frames)
<1>1. /\ Sound(w) /\ w.frames # <<>> /\ w.frames \in Seq(Frame) /\ w.tm \in TermStruct
  BY DEF Ready, Sound, Typed, WorldStruct
<1>2. f.aux = Null
  BY <1>1, LastIs
<1>3. ASSUME w.lost = {}
      PROVE  w.tm.f_curses_open /\ Shown(Front(w.frames), w.tm) /\ Failing(Front(w.frames))
  <2>1. /\ BoxRight(f) /\ f.auxbox = NoSurface /\ Failing(Front(w.frames))
        /\ Shown(w.frames, w.tm) /\ w.tm.f_curses_open
    BY <1>2, <1>3, LastBox
  <2>2. f.box = NoSurface
    BY <2>1 DEF BoxRight
  <2>3. Wins(f) = {} /\ ~Stacked(f)
    BY <2>1, <2>2 DEF Wins, Stacked
  <2>4. w.tm.live = w.tm.live \ Wins(f)
    BY <2>3
  <2>5. Shown(Front(w.frames), w.tm)
    BY <1>1, <2>1, <2>3, <2>4, ShownFront
  <2>. QED
    BY <2>1, <2>5
<1>. QED
  BY <1>1, <1>3, EndedFollow

\* The end of init_pick, with the pager beside it.
LEMMA EndPickFollow ==
  ASSUME NEW w, Ready(w), Last(w.frames).kind = "pick", Last(w.frames).stage = "run"
  PROVE  Follow(EndPick(w), w)
<1>. DEFINE f == Last(w.frames)
            t == CmSurfaceDestroy(w.tm, f.box)
            u == SurfaceDestroy(t, f.auxbox)
            x == IF f.aux = Null THEN t ELSE u
            v == EndPick(w)
<1>1. /\ Sound(w) /\ w.status = "running" /\ w.frames # <<>> /\ w.frames \in Seq(Frame)
      /\ w.tm \in TermStruct
  BY DEF Ready, Sound, Typed, WorldStruct
<1>2. Ended(v, w, x)
  BY <1>1, EndPickFine
<1>. HIDE DEF v
<1>3. t \in TermStruct /\ t.handlers = w.tm.handlers
  BY <1>1, CloseIs
<1>4. /\ u \in TermStruct /\ u.handlers = t.handlers /\ u.f_curses_open = t.f_curses_open
      /\ u.live = t.live \ {f.auxbox} /\ u.ui_surface = t.ui_surface
  BY <1>3 DEF SurfaceDestroy, TermStruct
<1>5. ASSUME w.lost = {}
      PROVE  /\ x.f_curses_open /\ Shown(Front(w.frames), x) /\ Failing(Front(w.frames))
  <2>1. /\ Stacked(f) /\ BoxRight(f) /\ Failing(Front(w.frames)) /\ Shown(w.frames, w.tm)
        /\ w.tm.f_curses_open
    BY <1>5, LastBox
  <2>2. /\ t.f_curses_open /\ t.live = w.tm.live \ {f.box}
        /\ Len(t.ui_surface) = Len(w.tm.ui_surface) - 1
        /\ \A i \in 1..(Len(w.tm.ui_surface) - 1) : t.ui_surface[i] = w.tm.ui_surface[i]
        /\ f.auxbox = NoSurface => Shown(Front(w.frames), t)
    BY <1>1, <2>1, CloseShown
  <2>. HIDE DEF t, u
  <2>3. CASE f.aux = Null
    <3>1. f.auxbox = NoSurface
      BY <2>1, <2>3 DEF BoxRight
    <3>. QED
      BY <2>1, <2>2, <2>3, <3>1
  <2>4. CASE f.aux # Null
    <3>1. f.auxbox # NoSurface
      BY <2>1, <2>4 DEF BoxRight
    <3>2. Wins(f) = {f.box, f.auxbox}
      BY <2>1, <3>1 DEF Wins, Stacked
    <3>3. u.live = w.tm.live \ Wins(f)
      BY <1>4, <2>2, <3>2
    <3>4. /\ Len(u.ui_surface) = Len(w.tm.ui_surface) - 1
          /\ \A i \in 1..(Len(w.tm.ui_surface) - 1) : u.ui_surface[i] = w.tm.ui_surface[i]
      BY <1>4, <2>2
    <3>5. Shown(Front(w.frames), u)
      BY <1>1, <1>4, <2>1, <3>3, <3>4, ShownFront
    <3>. QED
      BY <1>4, <2>1, <2>2, <2>4, <3>5
  <2>. QED
    BY <2>3, <2>4
<1>6. x \in TermStruct /\ x.handlers = w.tm.handlers
  BY <1>3, <1>4
<1>. HIDE DEF x
<1>7. Follow(v, w)
  BY <1>2, <1>5, <1>6, EndedFollow
<1>. QED
  BY <1>7 DEF v

\* The end of init_form: as long as nothing was lost the surface on top is the form's.
LEMMA EndFormFollow ==
  ASSUME NEW w, Ready(w), Last(w.frames).kind = "form", Last(w.frames).stage # "failed"
  PROVE  Follow(EndForm(w), w)
<1>. DEFINE f == Last(w.frames)
            t == CmSurfaceDestroy(w.tm, Top(w.tm))
            v == EndForm(w)
<1>1. /\ Sound(w) /\ w.status = "running" /\ w.frames # <<>> /\ w.frames \in Seq(Frame)
      /\ w.tm \in TermStruct
  BY DEF Ready, Sound, Typed, WorldStruct
<1>2. f.aux = Null
  BY <1>1, LastIs
<1>3. Ended(v, w, t)
  BY <1>1, <1>2, EndFormFine
<1>. HIDE DEF v
<1>4. t \in TermStruct /\ t.handlers = w.tm.handlers
  BY <1>1, CloseIs
<1>5. ASSUME w.lost = {}
      PROVE  t.f_curses_open /\ Shown(Front(w.frames), t) /\ Failing(Front(w.frames))
  <2>1. /\ Stacked(f) /\ f.auxbox = NoSurface /\ Failing(Front(w.frames))
        /\ Shown(w.frames, w.tm) /\ w.tm.f_curses_open
    BY <1>2, <1>5, LastBox
  <2>2. Top(w.tm) = f.box
    BY <1>1, <2>1, TopIs
  <2>. QED
    BY <1>1, <2>1, <2>2, CloseShown
<1>. HIDE DEF t
<1>6. Follow(v, w)
  BY <1>3, <1>4, <1>5, EndedFollow
<1>. QED
  BY <1>6 DEF v

\* The end of view_file.
LEMMA EndViewFollow ==
  ASSUME NEW w, Ready(w), Last(w.frames).kind = "view"
  PROVE  Follow(EndView(w), w)
<1>. DEFINE f == Last(w.frames)
            t == SurfaceDestroy(w.tm, f.box)
            v == EndView(w)
<1>1. /\ Sound(w) /\ w.status = "running" /\ w.frames # <<>> /\ w.frames \in Seq(Frame)
      /\ w.tm \in TermStruct
  BY DEF Ready, Sound, Typed, WorldStruct
<1>2. f.aux = Null
  BY <1>1, LastIs
<1>3. Ended(v, w, t)
  BY <1>1, <1>2, EndViewFine
<1>. HIDE DEF v
<1>4. /\ t \in TermStruct /\ t.handlers = w.tm.handlers /\ t.f_curses_open = w.tm.f_curses_open
      /\ t.live = w.tm.live \ {f.box} /\ t.ui_surface = w.tm.ui_surface
  BY <1>1 DEF SurfaceDestroy, TermStruct
<1>5. ASSUME w.lost = {}
      PROVE  t.f_curses_open /\ Shown(Front(w.frames), t) /\ Failing(Front(w.frames))
  <2>1. /\ BoxRight(f) /\ f.auxbox = NoSurface /\ Failing(Front(w.frames))
        /\ Shown(w.frames, w.tm) /\ w.tm.f_curses_open
    BY <1>2, <1>5, LastBox
  <2>2. Wins(f) = {f.box} /\ ~Stacked(f)
    BY <2>1 DEF BoxRight, Wins, Stacked
  <2>3. t.live = w.tm.live \ Wins(f)
    BY <1>4, <2>2
  <2>4. Shown(Front(w.frames), t)
    BY <1>1, <1>4, <2>1, <2>2, <2>3, ShownFront
  <2>. QED
    BY <1>4, <2>1, <2>4
<1>. HIDE DEF t
<1>6. Follow(v, w)
  BY <1>3, <1>4, <1>5, EndedFollow
<1>. QED
  BY <1>6 DEF v

\* A child or a detached process has ended; it had no window.
LEMMA BareEndsFollow ==
  ASSUME NEW w, Tidy(w), w.frames # <<>>, Last(w.frames).kind \in {"child", "detach"},
         Last(w.frames).aux = Null,
         NEW v, v.frames = Front(w.frames), v.lost = w.lost, v.status = "running",
         Modal(v.tm, w.tm), v.tm.handlers \in {"program", w.tm.handlers}
  PROVE  Follow(v, w)
<1>. DEFINE f == Last(w.frames)
            gr == Front(w.frames)
<1>1. /\ Ready(w) /\ w.frames \in Seq(Frame) /\ w.tm \in TermStruct
  BY TidyReady DEF Tidy, Sound, Typed, WorldStruct
<1>2. ASSUME w.lost = {}
      PROVE  Clean(v.frames, v.tm)
  <2>1. /\ BoxRight(f) /\ f.auxbox = NoSurface /\ Failing(gr)
        /\ Shown(w.frames, w.tm) /\ w.tm.f_curses_open /\ Placed(w.frames, w.tm)
    BY <1>1, <1>2, LastBox DEF Tidy, Clean
  <2>2. f.box = NoSurface
    BY <2>1 DEF BoxRight
  <2>3. Wins(f) = {} /\ ~Stacked(f)
    BY <2>1, <2>2 DEF Wins, Stacked
  <2>4. /\ v.tm \in TermStruct /\ v.tm.ui_surface = w.tm.ui_surface
        /\ v.tm.live = w.tm.live \ Wins(f) /\ v.tm.f_curses_open
    BY <2>1, <2>3 DEF Modal
  <2>5. Shown(gr, v.tm)
    BY <1>1, <2>1, <2>3, <2>4, ShownFront
  <2>6. \A i \in 1..Len(gr) : BoxRight(gr[i])
    <3>1. /\ Len(gr) = Len(w.frames) - 1 /\ Len(w.frames) \in Nat \ {0}
          /\ \A i \in 1..(Len(w.frames) - 1) : gr[i] = w.frames[i]
      BY <1>1, FrontFrame
    <3>2. \A i \in 1..Len(gr) : i \in 1..Len(w.frames) /\ gr[i] = w.frames[i]
      BY <3>1
    <3>. QED
      BY <2>1, <3>2 DEF Placed
  <2>. QED
    BY <2>1, <2>4, <2>5, <2>6 DEF Clean, Placed
<1>. QED
  BY <1>2 DEF Follow, Ordered

\* The form waits for its receiver and then ends.
LEMMA StagedTidy ==
  ASSUME NEW w, Tidy(w), w.frames # <<>>, Last(w.frames).kind = "form",
         Last(w.frames).stage = "run"
  PROVE  LET x == Stage(w, "ending")
         IN  Tidy(x) /\ Len(x.frames) = Len(w.frames) /\ x.lost = w.lost /\ x.tm = w.tm
<1>. DEFINE x == Stage(w, "ending")
            n == Len(w.frames)
<1>1. /\ Sound(w) /\ w.status = "running" /\ w.frames \in Seq(Frame) /\ w.tm \in TermStruct
      /\ Ready(w)
  BY TidyReady DEF Tidy, Sound, Typed, WorldStruct
<1>2. Last(w.frames).aux = Null
  BY <1>1, LastIs
<1>3. /\ Sound(x) /\ x.status = w.status /\ x.lost = w.lost /\ x.tm = w.tm
      /\ Len(x.frames) = n /\ \A i \in 1..(n - 1) : x.frames[i] = w.frames[i]
      /\ Last(x.frames) = [Last(w.frames) EXCEPT !.stage = "ending"]
  BY <1>1, <1>2, StageSound
<1>. HIDE DEF x
<1>4. /\ x.frames \in Seq(Frame) /\ n \in Nat \ {0} /\ Last(w.frames) \in Frame
      /\ Last(w.frames) = w.frames[n]
  BY <1>1, <1>3, FrontFrame DEF Sound, Typed, WorldStruct
<1>5. /\ x.frames[n].kind = "form" /\ x.frames[n].box = Last(w.frames).box
      /\ x.frames[n].auxbox = Last(w.frames).auxbox /\ x.frames[n].aux = Null
      /\ x.frames[n].stage = "ending"
  <2>1. Last(x.frames) = x.frames[n]
    BY <1>3 DEF Last
  <2>. QED
    BY <1>2, <1>3, <1>4, <2>1 DEF Frame
<1>6. ASSUME w.lost = {}
      PROVE  Clean(x.frames, x.tm)
  <2>1. Placed(w.frames, w.tm) /\ Failing(w.frames)
    BY <1>6 DEF Tidy, Clean
  <2>2. BoxRight(Last(w.frames))
    BY <1>1, <1>6, LastBox
  <2>3. BoxRight(x.frames[n])
    BY <1>2, <1>5, <2>2 DEF BoxRight
  <2>4. Placed(x.frames, w.tm)
    BY <1>1, <1>3, <1>4, <1>5, <2>1, <2>3, PlacedSame
  <2>5. ASSUME NEW i \in 1..n, x.frames[i].stage = "failed"
        PROVE  i < n /\ x.frames[i + 1].kind = "notice"
    <3>1. i \in 1..(n - 1)
      BY <1>4, <1>5, <2>5
    <3>2. w.frames[i].stage = "failed"
      BY <1>3, <2>5, <3>1
    <3>3. i < n /\ w.frames[i + 1].kind = "notice"
      BY <2>1, <2>5, <3>2 DEF Failing
    <3>4. i + 1 # n
      BY <1>4, <3>3
    <3>5. i + 1 \in 1..(n - 1)
      BY <1>4, <3>1, <3>4
    <3>. QED
      BY <1>3, <3>3, <3>5
  <2>. QED
    BY <1>3, <2>4, <2>5 DEF Clean, Failing
<1>7. Tidy(x) /\ Len(x.frames) = n /\ x.lost = w.lost /\ x.tm = w.tm
  BY <1>1, <1>3, <1>6 DEF Tidy
<1>. QED
  BY <1>7 DEF x

\* The pager's window is made again.
LEMMA ResizeFollow ==
  ASSUME NEW w, Tidy(w), w.frames # <<>>, Last(w.frames).kind = "view",
         NEW t, t = SurfaceDestroy(w.tm, Last(w.frames).box),
         FreeSurface(t) \in Surface \ t.live,
         NEW v, v.frames \in Seq(Frame), Len(v.frames) = Len(w.frames),
         \A i \in 1..(Len(w.frames) - 1) : v.frames[i] = w.frames[i],
         SameEngine(v.frames[Len(w.frames)], Last(w.frames)),
         v.frames[Len(w.frames)].stage = Last(w.frames).stage,
         v.frames[Len(w.frames)].auxbox = Last(w.frames).auxbox,
         v.frames[Len(w.frames)].box = FreeSurface(t),
         v.tm = Allocated(t), v.lost = w.lost, v.status = "running"
  PROVE  Follow(v, w)
<1>. DEFINE n == Len(w.frames)
            f == Last(w.frames)
            g == v.frames[n]
            s == FreeSurface(t)
<1>1. /\ Sound(w) /\ w.frames \in Seq(Frame) /\ w.tm \in TermStruct /\ Ready(w)
  BY TidyReady DEF Tidy, Sound, Typed, WorldStruct
<1>2. f.aux = Null /\ n \in Nat \ {0} /\ f = w.frames[n] /\ n \in 1..n
  BY <1>1, LastIs, FrontFrame
<1>3. /\ t \in TermStruct /\ t.live = w.tm.live \ {f.box}
      /\ t.ui_surface = w.tm.ui_surface /\ t.f_curses_open = w.tm.f_curses_open
      /\ t.handlers = w.tm.handlers
  BY <1>1 DEF SurfaceDestroy, TermStruct
<1>4. /\ v.tm \in TermStruct /\ v.tm.live = t.live \cup {s}
      /\ v.tm.ui_surface = t.ui_surface /\ v.tm.f_curses_open = t.f_curses_open
      /\ v.tm.handlers = t.handlers
  BY <1>3, BoxWinNewIs
<1>5. /\ g.kind = "view" /\ g.aux = Null /\ g.box = s /\ g.auxbox = f.auxbox
      /\ g.stage = f.stage /\ s \notin t.live /\ s # NoSurface
  BY <1>2, TerminalAssumption DEF SameEngine, NoSurface
<1>6. ASSUME w.lost = {}
      PROVE  Clean(v.frames, v.tm)
  <2>1. /\ BoxRight(f) /\ f.auxbox = NoSurface /\ Shown(w.frames, w.tm)
        /\ w.tm.f_curses_open /\ Failing(w.frames) /\ Placed(w.frames, w.tm)
    BY <1>1, <1>2, <1>6, LastBox DEF Tidy, Clean
  <2>2. /\ Wins(f) = {f.box} /\ ~Stacked(f) /\ Wins(g) = {s} /\ ~Stacked(g) /\ BoxRight(g)
    BY <1>5, <2>1 DEF Wins, Stacked, BoxRight
  <2>3. /\ v.tm.live = (w.tm.live \ Wins(f)) \cup Wins(g)
        /\ Wins(g) \cap (w.tm.live \ Wins(f)) = {}
    BY <1>3, <1>4, <1>5, <2>2
  <2>. HIDE DEF s
  <2>4. Shown(v.frames, v.tm)
    <3>. DEFINE fr == w.frames
                gr == v.frames
                tt == w.tm
                u == v.tm
    <3>1. /\ fr \in Seq(Frame) /\ fr # <<>> /\ tt \in TermStruct /\ Shown(fr, tt)
          /\ gr \in Seq(Frame) /\ Len(gr) = Len(fr)
          /\ u \in TermStruct /\ u.ui_surface = tt.ui_surface
      BY <1>1, <1>3, <1>4, <2>1
    <3>2. \A i \in 1..(Len(fr) - 1) : gr[i] = fr[i]
      OBVIOUS
    <3>3. /\ Stacked(gr[Len(fr)]) <=> Stacked(Last(fr))
          /\ Stacked(Last(fr)) => gr[Len(fr)].box = Last(fr).box
      BY <2>2
    <3>4. /\ u.live = (tt.live \ Wins(Last(fr))) \cup Wins(gr[Len(fr)])
          /\ Wins(gr[Len(fr)]) \cap (tt.live \ Wins(Last(fr))) = {}
      BY <2>3
    <3>5. Shown(gr, u)
      <4>. HIDE DEF fr, gr, tt, u
      <4>. QED
        BY <3>1, <3>2, <3>3, <3>4, ShownRemade, ZenonT(40)
    <3>. QED
      BY <3>5
  <2>5. ASSUME NEW i \in 1..n
        PROVE  /\ BoxRight(v.frames[i]) /\ v.frames[i].kind = w.frames[i].kind
               /\ v.frames[i].stage = w.frames[i].stage
    <3>1. i = n \/ i \in 1..(n - 1)
      BY <1>2
    <3>. QED
      BY <1>2, <1>5, <2>1, <2>2, <3>1 DEF Placed
  <2>6. ASSUME NEW i \in 1..n, v.frames[i].stage = "failed"
        PROVE  i < n /\ v.frames[i + 1].kind = "notice"
    <3>1. i < n /\ w.frames[i + 1].kind = "notice"
      BY <2>1, <2>5, <2>6 DEF Failing
    <3>2. i + 1 \in 1..n
      BY <1>2, <3>1
    <3>. QED
      BY <2>5, <3>1, <3>2
  <2>. QED
    BY <1>3, <1>4, <2>1, <2>4, <2>5, <2>6 DEF Clean, Placed, Failing
<1>. QED
  BY <1>3, <1>4, <1>6 DEF Follow, Ordered

-----------------------------------------------------------------------------
(* Every step of the program.                                               *)

\* What InOrder adds to the invariant: whose handlers are the default ones, and who was
\* killed by a signal.
Guarded(w) ==
    (w.status = "running" /\ w.tm.handlers = "default") \/ w.status = "killed" => ToChild(w)

InOrder == Ordered(World) /\ Guarded(World)

LEMMA WorldTidy ==
  ASSUME Inv, InOrder, status = "running"
  PROVE  /\ Tidy(World) /\ World \in WorldStruct /\ World.frames = frames /\ World.tm = tm
         /\ World.lost = lost /\ World.status = "running"
         /\ frames # <<>> => /\ Ready(World) /\ Running = Last(World.frames)
                             /\ Running.kind # "pick" => Last(World.frames).aux = Null
                             /\ Running.stage # "run" => Last(World.frames).aux = Null
                             /\ Running.kind = "menu" => OnlyMenus(World.frames)
                             /\ Running.stage = "failed" => Running.kind \in Kind
                             /\ Running.stage \in {"run", "failed", "ending"}
<1>1. /\ Sound(World) /\ World \in WorldStruct /\ World.frames = frames /\ World.tm = tm
      /\ World.status = "running"
      /\ frames # <<>> => Running \in Frame
  BY RunningSound
<1>2. World.lost = lost
  BY DEF World
<1>3. Tidy(World)
  BY <1>1 DEF Tidy, InOrder, Ordered
<1>4. ASSUME frames # <<>>
      PROVE  /\ Ready(World) /\ Running = Last(World.frames)
             /\ Running.kind # "pick" => Last(World.frames).aux = Null
             /\ Running.stage # "run" => Last(World.frames).aux = Null
             /\ Running.kind = "menu" => OnlyMenus(World.frames)
             /\ Running.stage = "failed" => Running.kind \in Kind
             /\ Running.stage \in {"run", "failed", "ending"}
  <2>1. Ready(World)
    BY <1>1, <1>3, <1>4, TidyReady
  <2>2. Running = Last(World.frames)
    BY <1>1 DEF Running
  <2>3. Running.stage \in {"run", "failed", "ending"}
    BY <1>1, <1>4 DEF Frame
  <2>. QED
    BY <1>1, <1>4, <2>1, <2>2, <2>3, LastIs
<1>. QED
  BY <1>1, <1>2, <1>3, <1>4

\* A step of an engine that waits neither for a signal nor for its process.
Follows(v) == Become(v) /\ Follow(v, World)

LEMMA FollowsIs ==
  ASSUME Inv, InOrder, status = "running", frames # <<>>, Running.kind # "detach",
         NEW v, Follows(v)
  PROVE  InOrder'
<1>1. /\ World.lost = lost /\ World.frames = frames /\ World.tm = tm
      /\ World.status = status
  BY DEF World
<1>2. /\ World'.lost = v.lost /\ World'.frames = v.frames /\ World'.tm = v.tm
      /\ World'.status = v.status
  BY DEF Follows, Become, World
<1>3. /\ lost \subseteq v.lost /\ v.status # "killed" /\ Ordered(v)
      /\ v.status = "running" /\ v.tm.handlers # tm.handlers =>
             v.tm.handlers = "program" \/ ToChild(v)
  BY <1>1 DEF Follows, Follow
<1>4. Ordered(World')
  BY <1>2, <1>3 DEF Ordered
<1>5. ASSUME v.status = "running", v.tm.handlers = "default"
      PROVE  ToChild(v)
  <2>1. CASE tm.handlers = "default"
    <3>1. ToChild(World)
      BY <1>1, <2>1 DEF InOrder, Guarded
    <3>2. "shutdown" \in lost
      BY <1>1, <3>1 DEF ToChild, Running
    <3>. QED
      BY <1>3, <3>2 DEF ToChild
  <2>2. CASE tm.handlers # "default"
    BY <1>3, <1>5, <2>2
  <2>. QED
    BY <2>1, <2>2
<1>6. Guarded(World')
  BY <1>2, <1>3, <1>5 DEF Guarded, ToChild
<1>. QED
  BY <1>4, <1>6 DEF InOrder

\* The running engine waits for a key.
LEMMA AtTidy ==
  ASSUME Inv, InOrder, NEW k, At(k)
  PROVE  /\ Tidy(World) /\ Ready(World) /\ World \in WorldStruct /\ World.frames # <<>>
         /\ World.frames = frames /\ World.tm = tm /\ status = "running" /\ frames # <<>>
         /\ Last(World.frames).kind = k /\ Last(World.frames).stage = "run"
         /\ Running.kind = k /\ World.status = "running" /\ World.lost = lost
         /\ Last(World.frames) = Running /\ Running.stage = "run"
         /\ k # "pick" => Last(World.frames).aux = Null
         /\ k = "menu" => OnlyMenus(World.frames)
<1>1. status = "running" /\ frames # <<>> /\ Running.kind = k /\ Running.stage = "run"
  BY DEF At
<1>. QED
  BY <1>1, WorldTidy

\* A message over engines none of which failed.
LEMMA MessageFollow ==
  ASSUME NEW w, Tidy(w), w.frames # <<>>, Len(w.frames) <= MaxFrames
  PROVE  Follow(Notice(w), w)
<1>1. Ready(w)
  BY TidyReady
<1>. QED
  BY <1>1, NoticeFollow DEF Ready, Below

\* The menu.
LEMMA MenuOrder ==
  ASSUME Inv, InOrder,
         \/ \E k \in Kind : RunPopup(k)
         \/ MenuHelp \/ RunCkeys \/ RunExec \/ RunExecNoArgs \/ RunDexe \/ MenuReturn
  PROVE  InOrder'
<1>1. At("menu")
  BY DEF RunPopup, MenuHelp, RunCkeys, RunExec, RunExecNoArgs, RunDexe, MenuReturn, Runs
<1>2. /\ Tidy(World) /\ Ready(World) /\ World \in WorldStruct /\ World.frames # <<>>
      /\ status = "running" /\ frames # <<>> /\ OnlyMenus(World.frames)
      /\ Last(World.frames).kind = "menu" /\ Last(World.frames).stage = "run"
      /\ Running.kind = "menu" /\ World.lost = lost
  BY <1>1, AtTidy
<1>. SUFFICES \E v : Follows(v)
  BY <1>2, FollowsIs
<1>3. CASE \E k \in Kind : RunPopup(k)
  <2>1. PICK k \in Kind : RunPopup(k)
    BY <1>3
  <2>2. Len(World.frames) < MaxFrames
    BY <2>1, RoomIs DEF RunPopup
  <2>3. PICK v \in Opens(World, k) : Become(v)
    BY <2>1 DEF RunPopup
  <2>. QED
    BY <1>2, <2>2, <2>3, OpensFollow DEF Follows
<1>4. CASE MenuHelp
  <2>1. Len(World.frames) < MaxFrames
    BY <1>4, RoomIs DEF MenuHelp
  <2>2. PICK out \in Outcome("view") : Become(PopupView(World, out))
    BY <1>4 DEF MenuHelp
  <2>. QED
    BY <1>2, <2>1, <2>2, PopupViewFollow DEF Follows
<1>5. CASE RunCkeys
  BY <1>2, <1>5, PopupCkeysFollow DEF Follows, RunCkeys
<1>6. CASE RunExec \/ RunExecNoArgs
  <2>1. /\ Become(Notice(World)) \/ Become(ForkExec(World)) \/ Become(ForkExecFails(World))
        /\ Len(World.frames) < MaxFrames
    BY <1>6, RoomIs DEF RunExec, RunExecNoArgs
  <2>2. Len(World.frames) <= MaxFrames
    <3>1. Len(World.frames) \in Nat /\ MaxFrames \in Nat
      BY <1>2, SessionAssumption DEF WorldStruct
    <3>. QED
      BY <2>1, <3>1
  <2>3. Follow(Notice(World), World)
    BY <1>2, <2>2, MessageFollow
  <2>4. Follow(ForkExec(World), World) /\ Follow(ForkExecFails(World), World)
    BY <1>2, ForkExecFollow
  <2>. QED
    BY <2>1, <2>3, <2>4 DEF Follows
<1>7. CASE RunDexe
  <2>. DEFINE u == [World EXCEPT !.tm = SigDflMode(@)]
  <2>1. Become(ForkDetach(World)) \/ Become(ExitNow(u))
    BY <1>7 DEF RunDexe
  <2>2. u \in WorldStruct /\ u.lost = World.lost
    <3>1. World.tm \in TermStruct
      BY <1>2 DEF WorldStruct
    <3>2. SigDflMode(World.tm) \in TermStruct
      BY <3>1, ModesAre DEF Modal
    <3>3. TermOnly([World EXCEPT !.tm = SigDflMode(World.tm)], World)
      BY <1>2, <3>2, TermIs
    <3>. QED
      BY <3>3 DEF TermOnly
  <2>. HIDE DEF u
  <2>3. Follow(ExitNow(u), World)
    BY <1>2, <2>2, ExitNowFollow
  <2>4. Follow(ForkDetach(World), World)
    BY <1>2, ForkDetachFollow
  <2>. QED
    BY <2>1, <2>3, <2>4 DEF Follows
<1>8. CASE MenuReturn
  <2>1. Follow(EndMenu(World), World)
    BY <1>2, EndMenuFollow
  <2>. QED
    BY <1>8, <2>1 DEF Follows, MenuReturn
<1>. QED
  BY <1>3, <1>4, <1>5, <1>6, <1>7, <1>8

\* The pick.
LEMMA PickOrder ==
  ASSUME Inv, InOrder, PickHelp \/ PickExec \/ PickEnd
  PROVE  InOrder'
<1>1. At("pick")
  BY DEF PickHelp, PickExec, PickEnd
<1>2. /\ Tidy(World) /\ Ready(World) /\ status = "running" /\ frames # <<>>
      /\ Last(World.frames).kind = "pick" /\ Last(World.frames).stage = "run"
      /\ Running.kind = "pick"
  BY <1>1, AtTidy
<1>. SUFFICES \E v : Follows(v)
  BY <1>2, FollowsIs
<1>3. CASE PickHelp
  <2>1. Len(World.frames) < MaxFrames
    BY <1>3, RoomIs DEF PickHelp
  <2>2. PICK out \in Outcome("view") : Become(PopupView(World, out))
    BY <1>3 DEF PickHelp
  <2>. QED
    BY <1>2, <2>1, <2>2, PopupViewFollow DEF Follows
<1>4. CASE PickExec
  <2>1. Len(World.frames) < MaxFrames
    BY <1>4, RoomIs DEF PickExec
  <2>2. PICK v \in Opens(World, "view") \cup ExecCommand(World) : Become(v)
    BY <1>4 DEF PickExec
  <2>. QED
    BY <1>2, <2>1, <2>2, OpensFollow, ExecCommandFollow DEF Follows, Kind
<1>5. CASE PickEnd
  <2>1. Follow(EndPick(World), World)
    BY <1>2, EndPickFollow
  <2>. QED
    BY <1>5, <2>1 DEF Follows, PickEnd
<1>. QED
  BY <1>3, <1>4, <1>5

\* The form.
LEMMA FormOrder ==
  ASSUME Inv, InOrder, FormHelp \/ FormReceiver \/ FormEnd \/ FormEnds
  PROVE  InOrder'
<1>1. status = "running" /\ frames # <<>> /\ Running.kind = "form"
      /\ Running.stage # "failed" /\ (FormHelp \/ FormReceiver => At("form"))
  BY DEF FormHelp, FormReceiver, FormEnd, FormEnds, At
<1>2. /\ Tidy(World) /\ Ready(World) /\ World.frames = frames
      /\ Last(World.frames).kind = "form" /\ Last(World.frames).stage # "failed"
  BY <1>1, WorldTidy
<1>. SUFFICES \E v : Follows(v)
  BY <1>1, FollowsIs
<1>3. CASE FormHelp
  <2>1. Len(World.frames) < MaxFrames
    BY <1>3, RoomIs DEF FormHelp
  <2>2. PICK out \in Outcome("view") : Become(PopupView(World, out))
    BY <1>3 DEF FormHelp
  <2>. QED
    BY <1>2, <2>1, <2>2, PopupViewFollow DEF Follows
<1>4. CASE FormReceiver
  <2>. DEFINE x == Stage(World, "ending")
  <2>1. Len(World.frames) < MaxFrames /\ Last(World.frames).stage = "run"
    BY <1>1, <1>4, RoomIs, AtTidy DEF FormReceiver
  <2>2. PICK v \in Opens(x, "view") \cup ExecCommand(x) : Become(v)
    BY <1>4 DEF FormReceiver
  <2>3. Tidy(x) /\ Len(x.frames) = Len(World.frames) /\ x.lost = World.lost
        /\ x.tm = World.tm
    BY <1>1, <1>2, <2>1, StagedTidy
  <2>. HIDE DEF x
  <2>4. Follow(v, x)
    BY <2>1, <2>2, <2>3, OpensFollow, ExecCommandFollow DEF Kind
  <2>5. Follow(v, World)
    BY <2>3, <2>4, FollowFrom
  <2>. QED
    BY <2>2, <2>5 DEF Follows
<1>5. CASE FormEnd \/ FormEnds
  <2>1. Follow(EndForm(World), World)
    BY <1>2, EndFormFollow
  <2>. QED
    BY <1>5, <2>1 DEF Follows, FormEnd, FormEnds
<1>. QED
  BY <1>3, <1>4, <1>5

\* The pager.
LEMMA ViewOrder ==
  ASSUME Inv, InOrder,
         ViewHelp \/ ViewWrite \/ ViewShell \/ ViewMessage \/ ViewResize \/ ViewEnd
  PROVE  InOrder'
<1>1. At("view")
  BY DEF ViewHelp, ViewWrite, ViewShell, ViewMessage, ViewResize, ViewEnd
<1>2. /\ Tidy(World) /\ Ready(World) /\ status = "running" /\ frames # <<>>
      /\ World.frames = frames /\ World.tm = tm /\ World.frames # <<>>
      /\ Last(World.frames).kind = "view" /\ Last(World.frames).stage = "run"
      /\ Last(World.frames) = Running /\ Running.kind = "view" /\ World \in WorldStruct
      /\ World.status = "running" /\ Last(World.frames).aux = Null
  BY <1>1, AtTidy
<1>. SUFFICES \E v : Follows(v)
  BY <1>2, FollowsIs
<1>3. CASE ViewHelp
  <2>1. Len(World.frames) < MaxFrames
    BY <1>3, RoomIs DEF ViewHelp
  <2>2. PICK out \in Outcome("view") : Become(PopupView(World, out))
    BY <1>3 DEF ViewHelp
  <2>. QED
    BY <1>2, <2>1, <2>2, PopupViewFollow DEF Follows
<1>4. CASE ViewWrite
  <2>1. Len(World.frames) < MaxFrames
    BY <1>4, RoomIs DEF ViewWrite
  <2>2. PICK out \in Outcome("form") : Become(PopupForm(World, out))
    BY <1>4 DEF ViewWrite
  <2>. QED
    BY <1>2, <2>1, <2>2, PopupFormFollow DEF Follows
<1>5. CASE ViewShell
  <2>1. Follow(ForkExec(World), World) /\ Follow(ForkExecFails(World), World)
    BY <1>2, ForkExecFollow
  <2>. QED
    BY <1>5, <2>1 DEF Follows, ViewShell
<1>6. CASE ViewMessage
  <2>1. Len(World.frames) < MaxFrames
    BY <1>6, RoomIs DEF ViewMessage
  <2>2. Len(World.frames) <= MaxFrames
    <3>1. Len(World.frames) \in Nat /\ MaxFrames \in Nat
      BY <1>2, SessionAssumption DEF WorldStruct
    <3>. QED
      BY <2>1, <3>1
  <2>3. Follow(Notice(World), World)
    BY <1>2, <2>2, MessageFollow
  <2>. QED
    BY <1>6, <2>3 DEF Follows, ViewMessage
<1>7. CASE ViewResize
  <2>. DEFINE t == SurfaceDestroy(tm, Running.box)
              s == FreeSurface(t)
              n == Len(frames)
              v == [World EXCEPT !.frames[Len(frames)].box = FreeSurface(t),
                                 !.tm = Allocated(t)]
  <2>1. Become(v)
    BY <1>7 DEF ViewResize
  <2>2. Sound(World) /\ frames \in Seq(Frame) /\ tm \in TermStruct
    BY <1>2, RunningSound DEF Tidy
  <2>3. n \in Nat \ {0} /\ n \in 1..n /\ Last(frames) = frames[n] /\ frames[n] \in Frame
    BY <1>2, <2>2, FrontFrame
  <2>4. t \in TermStruct /\ s \in Surface \ t.live
    <3>1. Free(World, Running.box).tm = t /\ Sound(Free(World, Running.box))
          /\ Free(World, Running.box).frames = frames
      BY <1>2, <2>2, FreeIs, FreeSound DEF TermOnly
    <3>. HIDE DEF t
    <3>2. t \in TermStruct /\ Len(t.ui_surface) <= MaxWin + 1 /\ Leak(frames, t)
          /\ Len(frames) <= MaxFrames + 1
      BY <3>1 DEF Sound, Typed, WorldStruct
    <3>. QED
      BY <2>2, <3>2, FreeSurfaceExists
  <2>5. Allocated(t) \in TermStruct
    BY <2>4, BoxWinNewIs
  <2>. DEFINE g == [frames[n] EXCEPT !.box = s]
              gr == [frames EXCEPT ![n] = g]
  <2>6. v = [World EXCEPT !.frames = gr, !.tm = Allocated(t)]
    BY <1>2 DEF WorldStruct
  <2>. HIDE DEF v
  <2>7. g \in Frame /\ SameEngine(g, frames[n]) /\ g.stage = frames[n].stage /\ g.box = s
        /\ g.auxbox = frames[n].auxbox
    <3>. HIDE DEF s
    <3>. QED
      BY <2>3, <2>4 DEF Frame, SameEngine
  <2>. HIDE DEF g
  <2>8. /\ gr \in Seq(Frame) /\ Len(gr) = n /\ gr[n] = g
        /\ \A i \in 1..(n - 1) : gr[i] = frames[i]
    BY <2>2, <2>3, <2>7
  <2>. HIDE DEF gr
  <2>9. /\ v.frames = gr /\ v.tm = Allocated(t) /\ v.lost = World.lost
        /\ v.status = "running"
    <3>. HIDE DEF t
    <3>. QED
      BY <1>2, <2>5, <2>6, <2>8 DEF WorldStruct
  <2>. HIDE DEF t
  <2>10. t = SurfaceDestroy(World.tm, Last(World.frames).box)
    BY <1>2 DEF t
  <2>11. /\ v.frames \in Seq(Frame) /\ Len(v.frames) = n
         /\ \A i \in 1..(n - 1) : v.frames[i] = frames[i]
         /\ SameEngine(v.frames[n], Last(frames)) /\ v.frames[n].stage = Last(frames).stage
         /\ v.frames[n].auxbox = Last(frames).auxbox
         /\ v.frames[n].box = FreeSurface(t)
    BY <2>3, <2>7, <2>8, <2>9
  <2>12. Follow(v, World)
    BY <1>2, <2>4, <2>9, <2>10, <2>11, ResizeFollow
  <2>. QED
    BY <2>1, <2>12 DEF Follows
<1>8. CASE ViewEnd
  <2>1. Follow(EndView(World), World)
    BY <1>2, EndViewFollow
  <2>. QED
    BY <1>8, <2>1 DEF Follows, ViewEnd
<1>. QED
  BY <1>3, <1>4, <1>5, <1>6, <1>7, <1>8

\* The processes; the end of a detached one sets the handlers of the program again.
LEMMA ProcessOrder ==
  ASSUME Inv, InOrder, DetachDone \/ ChildEnd
  PROVE  InOrder'
<1>. DEFINE p == Pop(World)
            q == RestoreCurses(p.tm)
<1>1. /\ status = "running" /\ frames # <<>> /\ Running.kind \in {"detach", "child"}
      /\ DetachDone => Running.kind = "detach" /\ Become([p EXCEPT !.tm = SigProgMode(q)])
      /\ ChildEnd => /\ Running.kind = "child"
                     /\ \/ Become([p EXCEPT !.tm = SigProgMode(p.tm)])
                        \/ Become([p EXCEPT !.tm = UiResume(p.tm)])
  <2>1. CASE DetachDone
    <3>1. DetachDone => Running.kind = "detach" /\ Become([p EXCEPT !.tm = SigProgMode(q)])
      BY DEF DetachDone
    <3>2. ChildEnd => Running.kind = "child"
      BY DEF ChildEnd
    <3>. QED
      BY <2>1, <3>1, <3>2 DEF DetachDone
  <2>2. CASE ChildEnd
    <3>1. /\ status = "running" /\ frames # <<>> /\ Running.kind = "child"
          /\ Become(IF Last(p.frames).kind \in {"pick", "form"}
                    THEN [p EXCEPT !.tm = SigProgMode(p.tm)]
                    ELSE [p EXCEPT !.tm = UiResume(p.tm)])
      BY <2>2 DEF ChildEnd
    <3>2. DetachDone => Running.kind = "detach"
      BY DEF DetachDone
    <3>. QED
      BY <3>1, <3>2
  <2>. QED
    BY <2>1, <2>2
<1>2. /\ Tidy(World) /\ World.frames = frames /\ World.tm = tm /\ World.lost = lost
      /\ World.status = "running" /\ World \in WorldStruct /\ Last(World.frames) = Running
      /\ Last(World.frames).aux = Null /\ tm \in TermStruct
  BY <1>1, WorldTidy, RunningSound
<1>3. /\ p \in WorldStruct /\ p.frames = Front(frames) /\ p.tm = tm /\ p.lost = lost
      /\ p.status = "running"
  BY <1>1, <1>2, PopIs DEF FramesOnly
<1>4. q \in TermStruct /\ Modal(q, tm)
  BY <1>2, <1>3, ModesAre DEF Modal
<1>5. /\ Modal(SigProgMode(q), tm) /\ SigProgMode(q).handlers = "program"
      /\ Modal(SigProgMode(tm), tm) /\ SigProgMode(tm).handlers = "program"
      /\ Modal(UiResume(tm), tm) /\ UiResume(tm).handlers = tm.handlers
  BY <1>2, <1>4, ModesAre DEF Modal
<1>. HIDE DEF p, q
<1>6. ASSUME NEW u, Modal(u, tm), u.handlers \in {"program", tm.handlers}
      PROVE  /\ [p EXCEPT !.tm = u].tm = u /\ [p EXCEPT !.tm = u].frames = Front(frames)
             /\ [p EXCEPT !.tm = u].lost = lost /\ [p EXCEPT !.tm = u].status = "running"
             /\ Follow([p EXCEPT !.tm = u], World)
  <2>. DEFINE v == [p EXCEPT !.tm = u]
  <2>1. TermOnly(v, p) /\ v.tm = u
    BY <1>3, <1>6, TermIs DEF Modal
  <2>. HIDE DEF v
  <2>2. v.frames = Front(frames) /\ v.lost = lost /\ v.status = "running"
    BY <1>3, <2>1 DEF TermOnly
  <2>3. Follow(v, World)
    BY <1>1, <1>2, <1>6, <2>1, <2>2, BareEndsFollow
  <2>4. v.tm = u /\ v.frames = Front(frames) /\ v.lost = lost /\ v.status = "running"
        /\ Follow(v, World)
    BY <2>1, <2>2, <2>3
  <2>. QED
    BY <2>4 DEF v
<1>7. CASE ChildEnd
  <2>1. \E u \in {SigProgMode(tm), UiResume(tm)} : Become([p EXCEPT !.tm = u])
    BY <1>1, <1>3, <1>7
  <2>2. PICK u \in {SigProgMode(tm), UiResume(tm)} : Become([p EXCEPT !.tm = u])
    BY <2>1
  <2>3. Follow([p EXCEPT !.tm = u], World)
    BY <1>5, <1>6, <2>2
  <2>. QED
    BY <1>1, <1>7, <2>2, <2>3, FollowsIs DEF Follows
<1>8. CASE DetachDone
  <2>. DEFINE u == SigProgMode(q)
              v == [p EXCEPT !.tm = u]
  <2>1. Become(v)
    BY <1>1, <1>8
  <2>2. u.handlers = "program" /\ v.tm = u /\ v.lost = lost /\ v.status = "running"
        /\ Follow(v, World)
    BY <1>5, <1>6
  <2>. HIDE DEF v, u
  <2>3. /\ World'.lost = v.lost /\ World'.frames = v.frames /\ World'.tm = v.tm
        /\ World'.status = v.status
    BY <2>1 DEF Become, World
  <2>4. Ordered(World')
    BY <2>2, <2>3 DEF Follow, Ordered
  <2>5. Guarded(World')
    BY <2>2, <2>3 DEF Guarded
  <2>. QED
    BY <2>4, <2>5 DEF InOrder
<1>. QED
  BY <1>7, <1>8

\* The key test, which loses its window.
LEMMA CkeysOrder ==
  ASSUME Inv, InOrder, CkeysSignal \/ CkeysQuit \/ CkeysEnd
  PROVE  InOrder'
<1>1. /\ status = "running" /\ frames # <<>> /\ Running.kind \in {"ckeys", "notice"}
      /\ CkeysSignal \/ CkeysEnd => Running.kind = "ckeys"
  BY DEF CkeysSignal, CkeysQuit, CkeysEnd, At
<1>2. /\ Tidy(World) /\ Sound(World) /\ World.frames = frames /\ World.tm = tm
      /\ World.lost = lost /\ World.status = "running" /\ World \in WorldStruct
      /\ Last(World.frames) = Running
  BY <1>1, WorldTidy DEF Tidy
<1>. SUFFICES \E v : Follows(v)
  BY <1>1, FollowsIs
<1>3. CASE CkeysSignal
  <2>1. Len(World.frames) <= MaxFrames
    <3>1. Deep(World.frames) /\ Last(World.frames).kind = "ckeys"
      BY <1>1, <1>2, <1>3 DEF Sound
    <3>2. Len(World.frames) \in Nat /\ MaxFrames \in Nat
      BY <1>2, SessionAssumption DEF WorldStruct
    <3>. QED
      BY <3>1, <3>2 DEF Deep
  <2>2. Follow(Notice(World), World)
    BY <1>1, <1>2, <2>1, MessageFollow
  <2>. QED
    BY <1>3, <2>2 DEF Follows, CkeysSignal
<1>4. CASE CkeysQuit
  <2>. DEFINE u == CloseTop(World, Running.box)
  <2>1. Become(ExitNow(u))
    BY <1>4 DEF CkeysQuit
  <2>2. u \in WorldStruct /\ u.lost = World.lost
    BY <1>2, CloseSound DEF TermOnly
  <2>. HIDE DEF u
  <2>. QED
    BY <1>2, <2>1, <2>2, ExitNowFollow DEF Follows
<1>5. CASE CkeysEnd
  <2>. DEFINE u == Free(World, Running.box)
              w == Losing(u, "ckeys")
              v == IF IsRoot(w) THEN EndMain(w) ELSE Pop(w)
  <2>1. Become(v)
    BY <1>5 DEF CkeysEnd
  <2>2. /\ Sound(u) /\ u.frames = frames /\ u.init = World.init /\ u \in WorldStruct
        /\ u.lost = lost /\ u.status = "running"
    BY <1>2, FreeSound DEF TermOnly
  <2>3. u.tm.handlers = tm.handlers
    BY <1>2, FreeIs
  <2>. HIDE DEF u
  <2>4. /\ w \in WorldStruct /\ w.frames = frames /\ w.init = World.init /\ w.tm = u.tm
        /\ w.lost = lost \cup {"ckeys"} /\ w.status = "running"
    BY <2>2, LosingIs DEF Path
  <2>. HIDE DEF w
  <2>5. Sound(w)
    BY <2>2, <2>4, TermSound
  <2>6. EndMain(w).status = "exited" /\ EndMain(w).lost = w.lost
    <3>1. Len(w.frames) <= MaxFrames + 1 /\ Len(w.tm.ui_surface) <= MaxWin + 1
      BY <2>5 DEF Sound, Typed
    <3>2. w.init.ptr["view"] # Null => Ends(w.init, "view")
      BY <2>5, ViewEnds
    <3>. QED
      BY <1>1, <2>4, <3>1, <3>2, EndMainFine
  <2>7. Pop(w).status = "running" /\ Pop(w).lost = w.lost /\ Pop(w).tm = w.tm
    BY <1>1, <2>4, PopIs DEF FramesOnly
  <2>8. /\ v.lost = lost \cup {"ckeys"} /\ v.status # "killed"
        /\ v.status = "running" => v.tm.handlers = tm.handlers
    BY <2>3, <2>4, <2>6, <2>7
  <2>. HIDE DEF v
  <2>9. Follow(v, World)
    BY <1>2, <2>8 DEF Follow, Ordered
  <2>. QED
    BY <2>1, <2>9 DEF Follows
<1>. QED
  BY <1>3, <1>4, <1>5

\* A message is closed, and with it the engine that failed.
LEMMA NoticeOrder ==
  ASSUME Inv, InOrder, NoticeEnd
  PROVE  InOrder'
<1>. DEFINE u == CloseTop(World, Running.box)
            w == Pop(u)
            f == Last(w.frames)
            t == CmSurfaceDestroy(tm, Running.box)
<1>1. /\ At("notice")
      /\ Become(IF w.frames = <<>> \/ f.stage # "failed" THEN w
                ELSE CASE f.kind = "menu" -> Abend(w)
                       [] f.kind = "pick" -> GiveUpPick(w)
                       [] f.kind = "form" -> GiveUpForm(w)
                       [] f.kind = "view" -> EndView(w))
  BY DEF NoticeEnd
<1>2. /\ Sound(World) /\ World.frames = frames /\ World.status = "running"
      /\ World.tm = tm /\ World.lost = lost /\ Ready(World) /\ Tidy(World)
      /\ frames # <<>> /\ Last(World.frames).kind = "notice" /\ status = "running"
      /\ Last(World.frames).aux = Null /\ Running = Last(World.frames)
      /\ Running.kind = "notice" /\ frames \in Seq(Frame) /\ tm \in TermStruct
  BY <1>1, AtTidy, RunningSound DEF Tidy
<1>. SUFFICES \E v : Follows(v)
  BY <1>2, FollowsIs
<1>3. Sound(u) /\ u.frames = frames /\ u.status = "running" /\ u.tm = t /\ u.lost = lost
  BY <1>2, CloseSound DEF TermOnly
<1>4. t \in TermStruct /\ t.handlers = tm.handlers
  BY <1>2, CloseIs
<1>5. lost = {} => t.f_curses_open /\ Shown(Front(frames), t)
  <2>1. SUFFICES ASSUME lost = {} PROVE t.f_curses_open /\ Shown(Front(frames), t)
    OBVIOUS
  <2>2. /\ Stacked(Running) /\ Running.auxbox = NoSurface /\ Shown(frames, tm)
        /\ tm.f_curses_open
    BY <1>2, <2>1, LastBox
  <2>. QED
    BY <1>2, <2>2, CloseShown DEF Running
<1>. HIDE DEF u, t
<1>6. /\ Sound(w) /\ w.status = "running" /\ w.frames = Front(frames) /\ w.tm = t
      /\ w.lost = lost
  BY <1>2, <1>3, PopsFine DEF FramesOnly, Kind
<1>. HIDE DEF w
<1>7. /\ w.frames \in Seq(Frame) /\ w \in WorldStruct /\ w.tm \in TermStruct
      /\ Len(w.frames) = Len(frames) - 1 /\ Len(frames) \in Nat \ {0}
      /\ \A i \in 1..(Len(frames) - 1) : w.frames[i] = frames[i]
  BY <1>2, <1>4, <1>6, FrontFrame DEF Sound, Typed
<1>8. ASSUME lost = {}
      PROVE  Placed(w.frames, w.tm) /\ Below(w.frames)
  <2>1. Placed(frames, tm) /\ Failing(frames)
    BY <1>2, <1>8 DEF Tidy, Clean
  <2>2. \A i \in 1..Len(w.frames) : i \in 1..Len(frames) /\ w.frames[i] = frames[i]
    BY <1>7
  <2>3. ASSUME NEW i \in 1..(Len(w.frames) - 1), w.frames[i].stage = "failed"
        PROVE  w.frames[i + 1].kind = "notice"
    <3>1. i \in 1..Len(w.frames) /\ i + 1 \in 1..Len(w.frames)
      BY <1>7
    <3>2. frames[i].stage = "failed" /\ i \in 1..Len(frames)
      BY <2>2, <2>3, <3>1
    <3>3. frames[i + 1].kind = "notice"
      BY <2>1, <3>2 DEF Failing
    <3>. QED
      BY <2>2, <3>1, <3>3
  <2>. QED
    BY <1>5, <1>6, <1>8, <2>1, <2>2, <2>3 DEF Placed, Below
<1>9. ASSUME NEW v, Follow(v, w)
      PROVE  Follow(v, World)
  <2>1. w.tm.handlers = World.tm.handlers /\ World.lost \subseteq w.lost
    BY <1>2, <1>4, <1>6
  <2>. QED
    BY <1>9, <2>1, FollowFrom
<1>10. CASE w.frames = <<>> \/ f.stage # "failed"
  <2>1. Become(w)
    BY <1>1, <1>10
  <2>2. ASSUME lost = {}
        PROVE  Failing(w.frames)
    <3>1. ASSUME NEW i \in 1..Len(w.frames), w.frames[i].stage = "failed"
          PROVE  i < Len(w.frames) /\ w.frames[i + 1].kind = "notice"
      <4>1. w.frames # <<>> /\ f = w.frames[Len(w.frames)]
        BY <1>7, <3>1, FrontFrame
      <4>2. i # Len(w.frames)
        BY <1>10, <3>1, <4>1
      <4>3. i \in 1..(Len(w.frames) - 1)
        BY <1>7, <4>2
      <4>. QED
        BY <1>8, <2>2, <3>1, <4>3 DEF Below
    <3>. QED
      BY <3>1 DEF Failing
  <2>3. Follow(w, w)
    BY <1>6, <1>8, <2>2 DEF Follow, Ordered, Clean
  <2>. QED
    BY <1>9, <2>1, <2>3 DEF Follows
<1>11. CASE w.frames # <<>> /\ f.stage = "failed"
  <2>1. f.kind \in Kind /\ f.aux = Null /\ (f.kind = "menu" => OnlyMenus(w.frames))
    BY <1>6, <1>11, LastIs
  <2>2. Ready(w)
    BY <1>6, <1>8, <1>11 DEF Ready
  <2>3. CASE f.kind = "menu"
    <3>1. Become(Abend(w))
      BY <1>1, <1>11, <2>3
    <3>2. Follow(Abend(w), w)
      BY <1>6, <1>7, <1>8, <2>1, <2>3, AbendFollow
    <3>. QED
      BY <1>9, <3>1, <3>2 DEF Follows
  <2>4. CASE f.kind = "pick"
    <3>1. Become(GiveUpPick(w))
      BY <1>1, <1>11, <2>4
    <3>2. Ended(GiveUpPick(w), w, w.tm)
      BY <1>6, <1>11, <2>1, <2>4, GiveUpPickFine
    <3>3. Follow(GiveUpPick(w), w)
      BY <1>11, <2>2, <2>4, <3>2, GiveUpFollow
    <3>. QED
      BY <1>9, <3>1, <3>3 DEF Follows
  <2>5. CASE f.kind = "form"
    <3>1. Become(GiveUpForm(w))
      BY <1>1, <1>11, <2>5
    <3>2. Ended(GiveUpForm(w), w, w.tm)
      BY <1>6, <1>11, <2>1, <2>5, GiveUpFormFine
    <3>3. Follow(GiveUpForm(w), w)
      BY <1>11, <2>2, <2>5, <3>2, GiveUpFollow
    <3>. QED
      BY <1>9, <3>1, <3>3 DEF Follows
  <2>6. CASE f.kind = "view"
    <3>1. Become(EndView(w))
      BY <1>1, <1>11, <2>6
    <3>2. Follow(EndView(w), w)
      BY <2>2, <2>6, EndViewFollow
    <3>. QED
      BY <1>9, <3>1, <3>2 DEF Follows
  <2>. QED
    BY <2>1, <2>3, <2>4, <2>5, <2>6 DEF Kind
<1>. QED
  BY <1>10, <1>11

\* An engine whose windows are open draws in its own, and a signal ends only a program
\* that gave its handlers up.
LEMMA OtherOrder ==
  ASSUME Inv, InOrder, CrashOnFreed \/ Signal
  PROVE  InOrder'
<1>1. status = "running"
  BY DEF CrashOnFreed, Signal
<1>2. /\ Tidy(World) /\ World.frames = frames /\ World.tm = tm /\ World.lost = lost
      /\ World \in WorldStruct /\ World.status = "running"
  BY <1>1, WorldTidy
<1>3. CASE CrashOnFreed
  <2>. DEFINE f == Last(frames)
  <2>1. Become(Crashed(World)) /\ frames # <<>> /\ \E s \in Draws : ~Drawable(tm, s)
    BY <1>3 DEF CrashOnFreed
  <2>2. Crashed(World).lost = lost /\ Crashed(World).status = "crashed"
    BY <1>2, CrashedIs
  <2>3. World'.lost = lost /\ World'.status = "crashed"
    BY <2>1, <2>2 DEF Become, World
  <2>4. ASSUME lost = {}
        PROVE  FALSE
    <3>1. /\ BoxRight(f) /\ Shown(frames, tm) /\ tm.f_curses_open /\ Failing(frames)
          /\ frames \in Seq(Frame) /\ tm \in TermStruct /\ f = frames[Len(frames)]
          /\ f.kind \in {"notice", "ckeys"} => Stacked(f)
          /\ f.kind \in {"menu", "pick", "form"} /\ f.stage # "failed" => Stacked(f)
      <4>1. Ready(World) /\ Failing(World.frames)
        BY <1>2, <2>1, <2>4, TidyReady DEF Tidy, Clean
      <4>. QED
        BY <1>2, <2>4, <4>1, LastBox
    <3>2. Len(frames) \in 1..Len(frames)
      BY <2>1, <3>1, FrontFrame
    <3>3. f.stage # "failed"
      BY <3>1, <3>2 DEF Failing
    <3>4. f.kind \in {"pick", "view", "ckeys", "notice"} => f.box \in tm.live
      <4>1. f.kind \in {"pick", "view", "ckeys", "notice"} => f.box \in Wins(f)
        BY <3>1, <3>3 DEF BoxRight, Wins
      <4>2. Wins(f) \subseteq tm.live
        BY <3>1, <3>2 DEF Shown
      <4>. QED
        BY <4>1, <4>2
    <3>5. f.kind \in {"menu", "form"} => Top(tm) \in tm.live
      <4>1. f.kind \in {"menu", "form"} => Stacked(f)
        BY <3>1, <3>3
      <4>2. Stacked(f) => Top(tm) = f.box /\ f.box \in tm.live
        BY <2>1, <3>1, TopIs
      <4>. QED
        BY <4>1, <4>2
    <3>6. PICK s \in Draws : ~Drawable(tm, s)
      BY <2>1
    <3>7. s \in tm.live
      <4>1. Running = f
        BY DEF Running
      <4>2. \/ f.kind \in {"menu", "form"} /\ s = Top(tm)
            \/ f.kind \in {"pick", "view", "ckeys", "notice"} /\ s = f.box
        BY <3>6, <4>1 DEF Draws
      <4>. QED
        BY <3>4, <3>5, <4>2
    <3>. QED
      BY <3>1, <3>6, <3>7 DEF Drawable
  <2>. QED
    BY <2>3, <2>4 DEF InOrder, Ordered, Guarded
<1>4. CASE Signal
  <2>1. /\ frames' = frames /\ tm' = tm /\ lost' = lost
        /\ \/ status' = "running"
           \/ status' = "killed" /\ tm.handlers = "default"
    BY <1>1, <1>4 DEF Signal
  <2>2. /\ World'.frames = frames /\ World'.tm = tm /\ World'.lost = lost
        /\ World'.status = status'
    BY <2>1 DEF World
  <2>3. Ordered(World')
    BY <1>2, <2>1, <2>2 DEF InOrder, Ordered
  <2>4. tm.handlers = "default" => ToChild(World')
    BY <1>2, <2>2 DEF InOrder, Guarded, ToChild
  <2>5. Guarded(World')
    BY <2>1, <2>2, <2>4 DEF Guarded
  <2>. QED
    BY <2>3, <2>5 DEF InOrder
<1>. QED
  BY <1>3, <1>4

\* main starts one engine with a screen that is open and no window yet.
LEMMA InitOrder ==
  ASSUME Init
  PROVE  InOrder
<1>. DEFINE w == Started0
<1>1. /\ w \in WorldStruct /\ w.frames = <<>> /\ w.status = "running" /\ w.lost = {}
      /\ w.tm.live = {} /\ w.tm.ui_surface = <<>> /\ w.tm.f_curses_open
      /\ w.tm.handlers = "program"
      /\ w.init \in InitStruct
      /\ \A k \in Kind : w.init.ptr[k] = Null /\ w.init.cnt[k] = 0 /\ w.init.live[k] = {}
  BY SessionAssumption DEF Started0, Started, WorldStruct, InitStruct, TermStruct, Status
<1>2. /\ Len(w.frames) = 0 /\ w.frames \in Seq(Frame) /\ Len(w.tm.ui_surface) = 0
      /\ MaxFrames \in Nat \ {0} /\ MaxWin \in Nat
  BY <1>1, SessionAssumption, TerminalAssumption
<1>. HIDE DEF w
<1>3. Sound(w) /\ OnlyMenus(w.frames) /\ Len(w.frames) < MaxFrames
  BY <1>1, <1>2, StartedSound DEF w
<1>4. Clean(w.frames, w.tm)
  <2>1. Height(w.frames, 0) = 0
    BY HeightStep
  <2>2. Shown(w.frames, w.tm)
    BY <1>1, <1>2, <2>1 DEF Shown
  <2>. QED
    BY <1>1, <1>2, <2>2 DEF Clean, Placed, Failing
<1>5. Tidy(w)
  BY <1>1, <1>3, <1>4 DEF Tidy
<1>6. \E v : Begins(v) /\ Follow(v, w)
  <2>1. CASE \E k \in Kind : \E out \in Outcome(k) : Begins(Popup(w, k, out))
    BY <1>3, <1>5, <2>1, PopupFollow
  <2>2. CASE Begins(PopupCkeys(w))
    BY <1>5, <2>2, PopupCkeysFollow
  <2>. QED
    BY <2>1, <2>2 DEF Init, w
<1>7. PICK v : Begins(v) /\ Follow(v, w)
  BY <1>6
<1>8. /\ World.lost = v.lost /\ World.frames = v.frames /\ World.tm = v.tm
      /\ World.status = v.status
  BY <1>7 DEF Begins, World
<1>. QED
  BY <1>1, <1>7, <1>8 DEF Follow, Ordered, InOrder, Guarded, ToChild

\* Nothing happens.
LEMMA StutterOrder ==
  ASSUME InOrder, UNCHANGED vars
  PROVE  InOrder'
BY DEF InOrder, vars, World

LEMMA NextOrder ==
  ASSUME Inv, InOrder, Next
  PROVE  InOrder'
BY MenuOrder, PickOrder, FormOrder, ViewOrder, CkeysOrder, ProcessOrder, NoticeOrder,
   OtherOrder DEF Next

\* The program is in order in every state of every run.
LEMMA OrderInvariant == Spec => []InOrder
<1>1. Init => InOrder
  BY InitOrder
<1>2. Inv /\ InOrder /\ [Next]_vars => InOrder'
  BY NextOrder, StutterOrder
<1>. QED
  BY <1>1, <1>2, Invariant, PTL DEF Spec

-----------------------------------------------------------------------------
(* What follows.                                                            *)

\* The properties of MenuSession count the windows by the frames that have one.
LEMMA PlaceIs ==
  ASSUME frames \in Seq(Frame)
  PROVE  /\ OnStack = {i \in 1..Len(frames) : Stacked(frames[i])}
         /\ Cardinality(OnStack) = Height(frames, Len(frames))
         /\ \A i \in 1..Len(frames) : Place(i) = Height(frames, i)
<1>1. DOMAIN frames = 1..Len(frames) /\ Len(frames) \in Nat
  OBVIOUS
<1>2. OnStack = {i \in 1..Len(frames) : Stacked(frames[i])}
  BY <1>1 DEF OnStack, Stacked
<1>3. ASSUME NEW i \in 1..Len(frames)
      PROVE  Place(i) = Height(frames, i)
  <2>1. {j \in OnStack : j <= i} = {j \in 1..i : Stacked(frames[j])}
    BY <1>1, <1>2
  <2>. QED
    BY <2>1 DEF Place, Height
<1>. QED
  BY <1>2, <1>3 DEF Height

\* As long as no engine lost a window, the stack of surfaces (dwin.c) holds the windows of
\* the engines on the call stack in their order, and no window is left over, however the
\* engines nest, fail and end: so the engine that runs draws in its own window.
THEOREM SurfaceCorrect == Spec => []SurfaceStack
<1>1. Inv /\ InOrder => SurfaceStack
  <2>1. SUFFICES ASSUME Inv, InOrder, status = "running", lost = {}
                 PROVE  /\ Len(tm.ui_surface) = Cardinality(OnStack)
                        /\ \A i \in OnStack : tm.ui_surface[Place(i)] = frames[i].box
                        /\ tm.live = (UNION {{frames[i].box, frames[i].auxbox} :
                                                i \in DOMAIN frames}) \ {NoSurface}
    BY DEF SurfaceStack
  <2>2. /\ Tidy(World) /\ World.frames = frames /\ World.tm = tm /\ World.lost = lost
        /\ frames \in Seq(Frame)
    BY <2>1, WorldTidy, RunningSound
  <2>3. Shown(frames, tm)
    BY <2>1, <2>2 DEF Tidy, Clean, Placed
  <2>4. DOMAIN frames = 1..Len(frames)
    BY <2>2
  <2>5. Len(tm.ui_surface) = Cardinality(OnStack)
    BY <2>2, <2>3, PlaceIs DEF Shown
  <2>6. ASSUME NEW i \in OnStack
        PROVE  tm.ui_surface[Place(i)] = frames[i].box
    <3>1. i \in 1..Len(frames) /\ Stacked(frames[i]) /\ Place(i) = Height(frames, i)
      BY <2>2, PlaceIs
    <3>. QED
      BY <2>3, <3>1 DEF Shown
  <2>7. ASSUME NEW s
        PROVE  s \in tm.live
               <=> s \in (UNION {{frames[i].box, frames[i].auxbox} : i \in DOMAIN frames})
                         \ {NoSurface}
    <3>1. s \in tm.live <=> \E i \in 1..Len(frames) : s \in Wins(frames[i])
      BY <2>3 DEF Shown
    <3>. QED
      BY <2>4, <3>1 DEF Wins
  <2>. QED
    BY <2>5, <2>6, <2>7
<1>. QED
  BY <1>1, Invariant, OrderInvariant, PTL

\* A program is stopped by its own mistake only after a path on which the code loses a
\* window, the screen or the room for windows, and by a signal only while it starts a
\* process or after one had the screen (sig.c, exec.c).
THEOREM EndsCorrect == Spec => []EndsKnown
<1>1. InOrder => EndsKnown
  BY DEF InOrder, Ordered, Guarded, ToChild, EndsKnown, World, Running
<1>. QED
  BY <1>1, OrderInvariant, PTL

\* A program that ends by main or by abend leaves the terminal as the shell had it, with
\* the handlers the shell gave it, no window behind and the screen closed
\* (destroy_curses), unless one of those paths was taken.
THEOREM ExitCorrect == Spec => []ExitRestores
<1>1. InOrder => ExitRestores
  BY DEF InOrder, Ordered, Restored, ExitRestores, World
<1>. QED
  BY <1>1, OrderInvariant, PTL
=============================================================================
