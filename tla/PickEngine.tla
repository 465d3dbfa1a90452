----------------------------- MODULE PickEngine -----------------------------
(***************************************************************************)
(* C-Menu Pick (src/src/pick_engine.c): pick_engine() opens the table, calls *)
(* picker() again and again and processes what is selected; picker() runs   *)
(* the objects loop and the line editor.  One action per key: what the key  *)
(* does, and what the loop does before it waits for the next one.           *)
(*                                                                          *)
(* The text in the line editor is a value of Text, known by the objects     *)
(* that contain it; how keys edit it is left out.                           *)
(***************************************************************************)
EXTENDS PickTable

CONSTANTS
    Text,           \* search texts, without the empty one
    NoText,         \* the empty field
    Match,          \* Match[t]: the objects that contain t
    SelectMax,      \* -n, 0 without
    OutSpec,        \* -o was given
    Command,        \* how -c uses the selection: see Argv
    MaxArgs,        \* arguments that still fit into eargv
    Joinable,       \* sets of objects whose names, joined, fit into MAXLEN - 1 characters
    ViewFiles,      \* -v: a preview of the object under the cursor
    Pointer         \* <<line, column>> where the mouse wheel can be turned

ASSUME PickAssumption ==
    /\ NoText \notin Text
    /\ Match \in [Text -> SUBSET Object]
    /\ SelectMax \in Nat
    /\ OutSpec \in BOOLEAN
    /\ Command \in {"none", "plain", "percent", "multiple"}
    /\ MaxArgs \in Nat
    /\ Joinable \subseteq SUBSET Object
    /\ \A S \in Joinable : SUBSET S \subseteq Joinable
    /\ ViewFiles \in BOOLEAN
    /\ Pointer \subseteq Nat \X Nat

VARIABLES
    pc,             \* the loop that waits for a key, or what happened to it
    pick,           \* the table, PickTable
    f_selected,     \* by index into d_object
    select_cnt,
    field,          \* the text in the line editor
    view_file,      \* the object in the preview
    rc,             \* what picker() returned, by the reason
    chosen,         \* history: the objects the user marked and did not unmark
    job             \* history: the selection this step processed, if it did

vars == <<pc, pick, f_selected, select_cnt, field, view_file, rc, chosen, job>>
selection == <<f_selected, select_cnt, chosen>>

Reason == {"none", "full", "accept", "help", "cancel"}
NoJob == [by |-> "none", wanted |-> {}, given |-> {}, stdout |-> {}, file |-> {},
          commands |-> {}]

Init ==
    /\ pc = "geometry"
    /\ pick = FirstTable
    /\ f_selected = [i \in Slot |-> FALSE]
    /\ select_cnt = 0
    /\ field = NoText
    /\ view_file = NullObject
    /\ rc = "none"
    /\ chosen = {}
    /\ job = NoJob

-----------------------------------------------------------------------------
(* Waiting for a key. *)

\* Mutant: the object is looked up by its place on the page.
Preview_PlaceOnPage(p) ==
    LET i == p.d_idx % (Lines * TblCols)
    IN  view_file' = IF ViewFiles /\ Drawable(p, i) THEN p.d_object[i] ELSE view_file

\* The preview follows d_idx.
Preview(p) ==
    view_file' = IF ViewFiles /\ Drawable(p, p.d_idx) THEN p.d_object[p.d_idx]
                 ELSE view_file

\* The objects loop draws the cursor, opens the preview and draws the cursor again.
Shown(p) == Reverse(Reverse(p))

Prompt(p) ==
    /\ pick' = Shown(p)
    /\ pc' = IF Shown(p).fault THEN "crashed" ELSE "objects"
    /\ Preview(Reverse(p))

\* The line editor filters by the text t.  A text nothing contains gives way to
\* the text before it, but the list stays empty.
Edit(p, t, before) ==
    LET none == t # NoText /\ Match[t] = {}
        q == IF t = NoText THEN p
             ELSE IF none THEN MatchObjects(p, {})
             ELSE DisplayPage(MatchObjects(p, Match[t]))
        wild == ViewFiles /\ ~Drawable(q, q.d_idx)
    IN  /\ field' = IF none THEN before ELSE t
        /\ pick' = [q EXCEPT !.fault = @ \/ wild]
        /\ pc' = IF wild THEN "crashed" ELSE "field"
        /\ Preview(q)

Return(p, why) ==
    /\ pick' = p
    /\ pc' = IF p.fault THEN "crashed" ELSE "returned"
    /\ rc' = why

-----------------------------------------------------------------------------
(* pick_engine *)

\* The number of pages is first computed with a division by lines - 1, which
\* traps on some machines when it is 0.
Open ==
    /\ pc = "geometry"
    /\ \/ Prompt(DisplayPage(pick))
       \/ Lines = 1 /\ pc' = "crashed" /\ UNCHANGED <<pick, view_file>>
    /\ job' = NoJob
    /\ UNCHANGED <<selection, field, rc>>

\* The objects whose rows are marked, as output_objects and exec_objects find them.
Marked == {pick.d_object[i] : i \in {j \in Slot : j < pick.d_cnt /\ f_selected[j]}}

\* exec_objects: a set of arguments, each the set of objects joined in it.
Argv(given) ==
    IF Command = "plain" THEN {{o} : o \in given} ELSE {given}

\* The objects of S that are passed on, whole: as many arguments of their own as eargv has
\* room for, or the names that come before tmp_str is full.  strnz__cat cuts the one that
\* reaches beyond its end and drops what follows, without a message.
Fitting(S) ==
    {o \in S : LET before == {x \in S : x < o}
               IN  IF Command = "plain" THEN Cardinality(before) < MaxArgs
                   ELSE before \cup {o} \in Joinable}

\* Mutant: the whole list is passed on, marked or not.
Processed_AllListed ==
    LET listed == {pick.d_object[i] : i \in {j \in Slot : j < pick.d_cnt}}
    IN  [by |-> rc, wanted |-> chosen, given |-> listed,
         stdout |-> IF OutSpec THEN Marked ELSE {}, file |-> {},
         commands |-> IF Command = "none" THEN {} ELSE {Argv(listed)}]

Processed ==
    LET given == Fitting(Marked)
    IN  [by |-> rc, wanted |-> chosen, given |-> given,
         stdout |-> IF OutSpec THEN Marked ELSE {}, file |-> {},
         commands |-> IF Command = "none" THEN {} ELSE {Argv(given)}]

\* Mutant: the count goes down whether the object was marked or not.
Deselect_Always(i) ==
    /\ select_cnt' = select_cnt - 1
    /\ f_selected' = IF i \in Slot THEN [f_selected EXCEPT ![i] = FALSE] ELSE f_selected
    /\ chosen' = IF i \in Slot THEN chosen \ {pick.d_object[i]} ELSE chosen

\* deselect_object
Deselect(i) ==
    IF i \in Slot /\ f_selected[i]
    THEN /\ select_cnt' = select_cnt - 1
         /\ f_selected' = [f_selected EXCEPT ![i] = FALSE]
         /\ chosen' = chosen \ {pick.d_object[i]}
    ELSE UNCHANGED selection

\* Mutant: what is under the cursor stays selected.
Process_KeepAll ==
    /\ pc = "returned"
    /\ rc # "cancel"
    /\ job' = IF select_cnt > 0 THEN Processed ELSE NoJob
    /\ rc' = "none"
    /\ Prompt(pick)
    /\ UNCHANGED <<selection, field>>

\* Whatever picker() returned, but a cancellation: process the selection, unmark
\* the object at d_idx, which output_objects used as its loop variable, and call
\* picker() again.
Process ==
    /\ pc = "returned"
    /\ rc # "cancel"
    /\ LET wrote == select_cnt > 0 /\ OutSpec
           p == IF wrote THEN [pick EXCEPT !.d_idx = pick.d_cnt] ELSE pick
       IN  /\ job' = IF select_cnt > 0 THEN Processed ELSE NoJob
           /\ Deselect(p.d_idx)
           /\ Prompt(p)
    /\ rc' = "none"
    /\ UNCHANGED field

Leave ==
    /\ pc = "returned"
    /\ rc = "cancel"
    /\ pc' = "done"
    /\ job' = NoJob
    /\ UNCHANGED <<pick, selection, field, view_file, rc>>

-----------------------------------------------------------------------------
(* picker: the objects loop *)

\* Mutant: a mark is taken off without counting it.
Toggle_NotCounted ==
    /\ pc = "objects"
    /\ LET p == Reverse(pick)
           i == p.d_idx
           cnt == IF f_selected[i] THEN select_cnt ELSE select_cnt + 1
       IN  \/ p.fault /\ Return(p, "none") /\ UNCHANGED <<selection, view_file>>
           \/ /\ ~p.fault
              /\ f_selected' = [f_selected EXCEPT ![i] = ~@]
              /\ select_cnt' = cnt
              /\ chosen' = IF f_selected[i] THEN chosen \ {p.d_object[i]}
                           ELSE chosen \cup {p.d_object[i]}
              /\ IF SelectMax > 0 /\ cnt = SelectMax
                 THEN Return(p, "full") /\ UNCHANGED view_file
                 ELSE Prompt(p) /\ UNCHANGED rc
    /\ job' = NoJob
    /\ UNCHANGED field

\* 't', ' '
Toggle ==
    /\ pc = "objects"
    /\ LET p == Reverse(pick)
           i == p.d_idx
           cnt == IF f_selected[i] THEN select_cnt - 1 ELSE select_cnt + 1
       IN  \/ p.fault /\ Return(p, "none") /\ UNCHANGED <<selection, view_file>>
           \/ /\ ~p.fault
              /\ f_selected' = [f_selected EXCEPT ![i] = ~@]
              /\ select_cnt' = cnt
              /\ chosen' = IF f_selected[i] THEN chosen \ {p.d_object[i]}
                           ELSE chosen \cup {p.d_object[i]}
              /\ IF SelectMax > 0 /\ cnt = SelectMax
                 THEN Return(p, "full") /\ UNCHANGED view_file
                 ELSE Prompt(p) /\ UNCHANGED rc
    /\ job' = NoJob
    /\ UNCHANGED field

\* F10, ENTER
Accept ==
    /\ pc = "objects"
    /\ Return(Reverse(pick), "accept")
    /\ job' = NoJob
    /\ UNCHANGED <<selection, field, view_file>>

\* 'q', F09
Cancel ==
    /\ pc = "objects"
    /\ Deselect(pick.d_idx)
    /\ Return(pick, "cancel")
    /\ job' = NoJob
    /\ UNCHANGED <<field, view_file>>

Key(p) ==
    /\ pc = "objects"
    /\ Prompt(p)
    /\ job' = NoJob
    /\ UNCHANGED <<selection, field, rc>>

Help == Key(DisplayPage(pick))
View == ViewFiles /\ Key(Place(pick))
End == Key(ToEnd(pick))
Left == Key(LeftOf(pick))
Right == Key(RightOf(pick))
Down == ~LeavesDown(pick) /\ Key(Below(pick))
Up == Key(Above(pick))
NPage == Key(NextPage(pick))
PPage == Key(PrevPage(pick))
Home == Key(ToHome(pick))
LastPage == Key(ToLastPage(pick))
\* Any other key, a click on the list too: ui_get_event_multi returns 0 for it.
OtherKey == Key(pick)

\* TAB, or 'j' on the last line of the list.
EnterField ==
    /\ pc = "objects"
    /\ \/ Edit(Place(pick), field, NoText)
       \/ LeavesDown(pick) /\ Edit(pick, field, NoText)
    /\ job' = NoJob
    /\ UNCHANGED <<selection, rc>>

\* The mouse wheel.  Right of the last column the case is left by a continue that
\* keeps the key, so the loop never waits for another one.
Wheel(y, col) ==
    /\ pc = "objects"
    /\ IF y < pick.y_offset THEN Prompt(pick)
       ELSE IF col < TblCols THEN Prompt(Pointed(pick, y, col))
       ELSE /\ pick' = Pointed(pick, y, col)
            /\ pc' = IF Reverse(pick).fault THEN "crashed" ELSE "spinning"
            /\ UNCHANGED view_file
    /\ job' = NoJob
    /\ UNCHANGED <<selection, field, rc>>

Spin ==
    /\ pc = "spinning"
    /\ pick' = Reverse(pick)
    /\ pc' = IF Reverse(pick).fault THEN "crashed" ELSE "spinning"
    /\ job' = NoJob
    /\ UNCHANGED <<selection, field, view_file, rc>>

-----------------------------------------------------------------------------
(* picker: the line editor *)

\* Mutant: the list is filtered before the key is stored in the field.
EditText_Lagging(t) ==
    /\ pc = "field"
    /\ IF field = NoText THEN UNCHANGED pick
       ELSE pick' = DisplayPage(MatchObjects(pick, Match[field]))
    /\ field' = t
    /\ job' = NoJob
    /\ UNCHANGED <<pc, view_file, selection, rc>>

\* A key that leaves the text t in the field.
EditText(t) ==
    /\ pc = "field"
    /\ Edit(pick, t, field)
    /\ job' = NoJob
    /\ UNCHANGED <<selection, rc>>

\* Backspace over the first character lists what matches the rest, everything when
\* nothing is left, even before the line editor filters.
EraseText(t) ==
    /\ pc = "field"
    /\ field # NoText
    /\ LET S == IF t = NoText THEN Object ELSE Match[t]
       IN  Edit(DisplayPage(MatchObjects(pick, S)), t, field)
    /\ job' = NoJob
    /\ UNCHANGED <<selection, rc>>

\* ENTER, TAB, BTAB, UP
LeaveField ==
    /\ pc = "field"
    /\ Prompt(pick)
    /\ job' = NoJob
    /\ UNCHANGED <<selection, field, rc>>

\* A click on the list.
FieldClick == LeaveField

FieldReturn(why) ==
    /\ pc = "field"
    /\ Return(pick, why)
    /\ job' = NoJob
    /\ UNCHANGED <<selection, field, view_file>>

FieldHelp == FieldReturn("help")
FieldAccept == FieldReturn("accept")
FieldCancel == FieldReturn("cancel")

-----------------------------------------------------------------------------

Engine == Open \/ Process \/ Leave

Objects ==
    \/ Toggle \/ Accept \/ Cancel
    \/ Help \/ View \/ End \/ Left \/ Right \/ Down \/ Up \/ NPage \/ PPage
    \/ Home \/ LastPage \/ OtherKey
    \/ EnterField
    \/ \E at \in Pointer : Wheel(at[1], at[2])
    \/ Spin

Editor ==
    \/ \E t \in Text \cup {NoText} : EditText(t) \/ EraseText(t)
    \/ LeaveField \/ FieldClick
    \/ FieldHelp \/ FieldAccept \/ FieldCancel

\* Pick has ended, in one way or another.
Ended == pc \in {"done", "crashed"} /\ UNCHANGED vars

Next == Engine \/ Objects \/ Editor \/ Ended
Spec == Init /\ [][Next]_vars
-----------------------------------------------------------------------------
(* What must hold. *)

TypeOK ==
    /\ pc \in {"geometry", "objects", "field", "returned", "spinning", "crashed", "done"}
    /\ pick \in PickStruct
    /\ f_selected \in [Slot -> BOOLEAN]
    /\ select_cnt \in Nat
    /\ field \in Text \cup {NoText}
    /\ view_file \in Object \cup {NullObject}
    /\ rc \in Reason
    /\ chosen \in SUBSET Object
    /\ job.by \in Reason

\* select_cnt, which decides whether anything is processed and when the limit of -n
\* is reached, counts the marks, whatever is listed when they are set and removed.
SelectCount == select_cnt = Cardinality({i \in Slot : f_selected[i]})

\* Without an output specification the count is below the limit whenever a key is
\* awaited and never passes it: the test in toggle_object is for equality
\* (docs/pick.md:13: pick accepts "when the specified maximum number of items, n have
\* been selected").
SelectLimit ==
    SelectMax > 0 =>
        select_cnt <= SelectMax /\ (pc \in {"objects", "field"} => select_cnt < SelectMax)

\* What is written and what is passed to the command is what the user marked.
ProcessesChosen == job.by # "none" => job.given = job.wanted

\* A key finds the cursor on an object of the list, on the page that is shown.
CursorOnPage ==
    pc = "objects" =>
        /\ pick.d_idx < pick.d_cnt
        /\ pick.d_idx \div (Lines * TblCols) = pick.tbl_page

\* The preview is the object under the cursor (menuapp/help/pick.md:32, "a preview of
\* the highlighted file as you move the selection bar").
ViewFollows ==
    pc = "objects" /\ ViewFiles => view_file = pick.d_object[pick.d_idx]

\* 'j' goes to the next object while there is one on the page, and KEY_END to the last
\* object from any page.
KeysMove ==
    pc = "objects" =>
        /\ (pick.tbl_line < Lines - 1 /\ pick.d_idx + 1 < pick.d_cnt)
               => Shown(Below(pick)).d_idx = pick.d_idx + 1
        /\ Shown(ToEnd(pick)).d_idx = pick.d_cnt - 1

Listed == {pick.d_object[i] : i \in {j \in Slot : j < pick.d_cnt}}

\* Under a search text nothing is listed that does not contain it, and nothing that
\* contains it is left out, but for a list emptied by a text without a match.
FilterShown == field # NoText => Listed \in {Match[field], {}}
=============================================================================
