----------------------------- MODULE FormEngine -----------------------------
(***************************************************************************)
(* C-Menu Form (src/src/form_engine.c, src/src/fields.c): the fields are    *)
(* read, edited, confirmed, completed by a provider, written and given to a *)
(* receiver.  Typing is one step that leaves any text of Typed in the       *)
(* field; leaving a field is a step of field_editor and one of              *)
(* field_navigator.                                                         *)
(***************************************************************************)
EXTENDS FormFields

CONSTANTS
    Form,           \* the forms: description and options
    FIELD_MAXCNT,
    Typed,          \* Typed[ff]: texts typed into a field of that format, and lines read for one
    NotRun,         \* the receiver was not run
    Untouched       \* nothing was written

ASSUME FormAssumption ==
    /\ FIELD_MAXCNT \in Nat \ {0}
    /\ Typed \in [Format -> SUBSET Text]
    /\ \A f \in Form :
          /\ f.fcnt \in 0..FIELD_MAXCNT
          /\ f.field \in [0..(FIELD_MAXCNT - 1) -> Field]
          /\ \A i \in f.fcnt..(FIELD_MAXCNT - 1) : f.field[i] = Unused
          /\ \A i \in 0..(f.fcnt - 1) : f.field[i].len >= 1
          /\ f.directive \in BOOLEAN /\ f.provider \in BOOLEAN
          /\ f.in_spec \in BOOLEAN /\ f.receiver \in BOOLEAN /\ f.erase \in BOOLEAN
          /\ f.out \in {"none", "file", "stdout"} /\ f.f_out_spec \in BOOLEAN
          /\ f.f_out_spec => f.out # "none"

VARIABLES
    form,           \* the form that is run; nothing changes it
    pc,             \* what Form is doing
    key,            \* the key field_editor returned
    fidx,           \* the field the form is at
    accept,         \* accept_s of each field
    display,        \* display_s of each field
    screen,         \* what the window shows of each field
    stdout_open,    \* descriptor 1
    file,           \* what was written last
    notified,       \* history: the last write failed and the user was told
    received        \* the values given to the receiver, by number of the field

texts == <<accept, display, screen>>
output == <<stdout_open, file, notified, received>>
vars == <<form, pc, key, fidx, texts, output>>

FieldNo == 0..(FIELD_MAXCNT - 1)
Key == {"up", "down", "enter", "accept", "cancel", "help"}
fcnt == form.fcnt

\* form_parse_desc is over; form_read_data begins.
Init ==
    /\ form \in Form
    /\ pc = "loading"
    /\ key = "help"
    /\ fidx = 0
    /\ accept = [i \in FieldNo |-> Blank]
    /\ display = [i \in FieldNo |-> Blank]
    /\ screen = [i \in FieldNo |-> Blank]
    /\ stdout_open = TRUE
    /\ file = Untouched
    /\ notified = FALSE
    /\ received = NotRun

-----------------------------------------------------------------------------
(* Steps shared by the operations. *)

\* A field is addressed that is not there: what follows is undefined.
Stray == pc' = "wild" /\ UNCHANGED <<form, key, fidx, texts, output>>

\* form_fmt_field for field i with the text t.
Formatted(i, t) ==
    /\ accept' = [accept EXCEPT ![i] = AcceptText(form.field[i], t)]
    /\ display' = [display EXCEPT ![i] = DisplayText(form.field[i], t, @)]

\* field_editor begins with field i on a window that shows seen: the text is formatted at
\* once and again before the first key is read.
Edit(i, seen) ==
    IF i \in FieldNo
    THEN /\ pc' = "edit"
         /\ fidx' = i
         /\ Formatted(i, AcceptText(form.field[i], accept[i]))
         /\ screen' = [seen EXCEPT ![i] = accept'[i]]
         /\ UNCHANGED <<form, key, output>>
    ELSE Stray

\* Mutant: the field the form is at is taken as it was left.
Navigator_NoReset(seen) == Edit(fidx, seen)

\* field_navigator is called.
Navigator(seen) == Edit(IF fidx >= fcnt THEN 0 ELSE fidx, seen)

\* form_display_fields.
FieldsDisplayed == [i \in FieldNo |-> IF i < fcnt THEN display[i] ELSE screen[i]]

\* Mutant: one field too many.
Values_OneMore == [n \in 1..(fcnt + 1) |-> accept[n - 1]]

\* The values of all fields in their order.
Values == [n \in 1..fcnt |-> accept[n - 1]]

\* The values that become arguments: a blank one is none.
Arguments == [n \in {m \in 1..fcnt : accept[m - 1] # Blank} |-> accept[n - 1]]

\* form_write: opening the file may fail, and standard output can be opened once, because
\* closing the stream closes the descriptor it names.
WriteForm ==
    \E ok \in BOOLEAN :
        LET written == ok /\ (form.out = "stdout" => stdout_open)
        IN  /\ file' = IF written THEN Values ELSE file
            /\ notified' = ~ written
            /\ stdout_open' = (stdout_open /\ ~ (written /\ form.out = "stdout"))

-----------------------------------------------------------------------------
(* form_read_data, for the input file and for the provider's output. *)

\* The next line is the text of the next field; for lines beyond the last field the loop
\* goes on through the unused ones and does not stop behind them.
ReadLine ==
    /\ \/ pc = "reading"
       \/ pc = "loading" /\ form.in_spec
    /\ IF fidx \in FieldNo
       THEN \E t \in Typed[form.field[fidx].ff] :
               /\ Formatted(fidx, t)
               /\ fidx' = fidx + 1
               /\ UNCHANGED <<form, pc, key, screen, output>>
       ELSE Stray

\* End of the input: display_form shows the fields, form_engine begins with the first one.
Loaded ==
    /\ pc = "loading"
    /\ Edit(0, FieldsDisplayed)

\* Mutant: the end of the output is not noticed.
Provided_Again ==
    /\ pc = "reading"
    /\ fidx' = 0
    /\ UNCHANGED <<form, pc, key, texts, output>>

\* End of the provider's output: it is waited for and the fields are displayed.
Provided ==
    /\ pc = "reading"
    /\ screen' = FieldsDisplayed
    /\ fidx' = fcnt
    /\ pc' = "process"
    /\ UNCHANGED <<form, key, accept, display, output>>

-----------------------------------------------------------------------------
(* field_editor. *)

\* Keys that change the text; it is formatted before the next key is read.
Type ==
    /\ pc = "edit"
    /\ \E t \in Typed[form.field[fidx].ff] : Formatted(fidx, InField(form.field[fidx], t))
    /\ screen' = [screen EXCEPT ![fidx] = accept'[fidx]]
    /\ UNCHANGED <<form, pc, key, fidx, output>>

\* Mutant: Enter erases the text and does not format it.
Leave_Raw(k, t) ==
    /\ pc' = "navigate"
    /\ key' = k
    /\ accept' = [accept EXCEPT ![fidx] = t]
    /\ screen' = [screen EXCEPT ![fidx] = display[fidx]]
    /\ UNCHANGED <<form, fidx, display, output>>

\* The text of the field has become t: it is formatted, displayed, and the key returned.
Leave(k, t) ==
    /\ pc' = "navigate"
    /\ key' = k
    /\ Formatted(fidx, t)
    /\ screen' = [screen EXCEPT ![fidx] = display'[fidx]]
    /\ UNCHANGED <<form, fidx, output>>

ArrowKey == pc = "edit" /\ \E k \in {"up", "down"} : Leave(k, accept[fidx])

\* With erase_remainder, Enter cuts the text at the cursor; all of it if that is in front.
EnterKey ==
    /\ pc = "edit"
    /\ \E t \in {accept[fidx]} \cup (IF form.erase THEN {Blank} ELSE {}) : Leave("enter", t)

\* F10, the first time and again as long as it is in in_key: a refused text is reported and
\* the key stays.
AcceptKey ==
    /\ pc \in {"edit", "refused"}
    /\ Formatted(fidx, accept[fidx])
    /\ screen' = [screen EXCEPT ![fidx] = display'[fidx]]
    /\ IF Refused(form.field[fidx], accept'[fidx])
       THEN pc' = "refused" /\ key' = key
       ELSE pc' = "navigate" /\ key' = "accept"
    /\ UNCHANGED <<form, fidx, output>>

CancelKey ==
    /\ pc = "edit"
    /\ pc' = "navigate"
    /\ key' = "cancel"
    /\ screen' = [screen EXCEPT ![fidx] = display[fidx]]
    /\ UNCHANGED <<form, fidx, accept, display, output>>

\* F1, or the letter 'H'.
HelpKey ==
    /\ pc = "edit"
    /\ pc' = "navigate"
    /\ key' = "help"
    /\ UNCHANGED <<form, fidx, texts, output>>

\* The wheel: form_yx_to_fidx finds no field at (-1, -1) and its result is taken for one.
Wheel == pc = "edit" /\ Stray

-----------------------------------------------------------------------------
(* field_navigator, and form_engine with what it returns. *)

\* The fields are complete: form_process for a form with a directive, otherwise form_post.
ToPrompt ==
    /\ pc' = IF form.directive THEN "process" ELSE "post"
    /\ UNCHANGED <<form, key, fidx, texts, output>>

Up ==
    /\ pc = "navigate" /\ key = "up"
    /\ Edit(IF fidx # 0 THEN fidx - 1 ELSE 0, screen)

\* Behind the last field the form is accepted.  fcnt - 1 is unsigned: in a form of text
\* only there is always a field behind.
Down ==
    /\ pc = "navigate" /\ key \in {"down", "enter"}
    /\ IF fcnt = 0 \/ fidx < fcnt - 1 THEN Edit(fidx + 1, screen) ELSE ToPrompt

Accept == pc = "navigate" /\ key = "accept" /\ ToPrompt

\* FA_HELP: View shows the help, then the field is edited again.
Help == pc = "navigate" /\ key = "help" /\ Navigator(screen)

Cancel ==
    /\ pc = "navigate" /\ key = "cancel"
    /\ pc' = "cancelled"
    /\ UNCHANGED <<form, key, fidx, texts, output>>

-----------------------------------------------------------------------------
(* form_post and form_process. *)

Prompted == pc \in {"post", "process"}

\* F5; and F1, which shows the help and does not come back to the prompt.
PromptEdit == Prompted /\ Navigator(screen)

\* Mutant: the values are written before the form is left.
PromptCancel_Writes ==
    /\ Prompted
    /\ pc' = "cancelled"
    /\ WriteForm
    /\ UNCHANGED <<form, key, fidx, texts, received>>

PromptCancel ==
    /\ Prompted
    /\ pc' = "cancelled"
    /\ UNCHANGED <<form, key, fidx, texts, output>>

PromptAccept ==
    /\ Prompted
    /\ pc' = "end"
    /\ UNCHANGED <<form, key, fidx, texts, output>>

\* F2, F3 or F4, whichever directive the form has: the values are written first.
Process ==
    /\ pc = "process"
    /\ IF form.f_out_spec THEN WriteForm ELSE UNCHANGED <<stdout_open, file, notified>>
    /\ pc' = IF form.provider THEN "provider" ELSE pc
    /\ UNCHANGED <<form, key, fidx, texts, received>>

\* The provider is started with the values and what it prints is read.  When pipe or fork
\* fails, form_process returns 1, which form_engine takes for FA_CONTINUE.
StartProvider ==
    /\ pc = "provider"
    /\ \/ /\ pc' = "reading"
          /\ fidx' = 0
          /\ UNCHANGED <<form, key, texts, output>>
       \/ Navigator(screen)

\* Mutant: what was written before is not written again.
End_Once ==
    /\ pc = "end"
    /\ IF form.out # "none" /\ file = Untouched THEN WriteForm
       ELSE UNCHANGED <<stdout_open, file, notified>>
    /\ received' = IF form.receiver THEN Arguments ELSE received
    /\ pc' = "done"
    /\ UNCHANGED <<form, key, fidx, texts>>

\* FA_END: form_write and form_exec_receiver.
End ==
    /\ pc = "end"
    /\ IF form.out # "none" THEN WriteForm ELSE UNCHANGED <<stdout_open, file, notified>>
    /\ received' = IF form.receiver THEN Arguments ELSE received
    /\ pc' = "done"
    /\ UNCHANGED <<form, key, fidx, texts>>
-----------------------------------------------------------------------------
Program ==
    Loaded \/ StartProvider \/ Provided \/ Up \/ Down \/ Accept \/ Help \/ Cancel \/ End

User ==
    \/ Type \/ ArrowKey \/ EnterKey \/ AcceptKey \/ CancelKey \/ HelpKey \/ Wheel
    \/ PromptEdit \/ PromptCancel \/ PromptAccept \/ Process

Next == Program \/ User \/ ReadLine

\* Form goes on by itself, and the input and the provider's output come to an end.
Fairness == WF_vars(Program)

Spec == Init /\ [][Next]_vars /\ Fairness

-----------------------------------------------------------------------------
(* Properties. *)

State == {"loading", "edit", "refused", "navigate", "post", "process", "provider",
          "reading", "end", "done", "cancelled", "wild"}

\* Values have the shape the code gives them; in particular the file holds one line for
\* every field.
TypeOK ==
    /\ form \in Form
    /\ pc \in State
    /\ key \in Key
    /\ fidx \in 0..FIELD_MAXCNT
    /\ accept \in [FieldNo -> Text]
    /\ display \in [FieldNo -> Text]
    /\ screen \in [FieldNo -> Text]
    /\ stdout_open \in BOOLEAN
    /\ file = Untouched \/ file \in [1..fcnt -> Text]
    /\ notified \in BOOLEAN
    /\ received = NotRun \/ \E S \in SUBSET (1..fcnt) : received \in [S -> Text]

\* In a form with fields, the editor is always in one of them, whatever the form did
\* before: displaying the fields and reading a provider leave fidx behind the last one.
CursorInForm ==
    pc \in {"edit", "refused", "navigate"} /\ fcnt > 0 => fidx < fcnt

\* The window shows t for field i and the field holds it, or t is what the columns of the
\* field show of the date or the time it holds.  One that is not valid is never shown; a
\* field too short for the digits holds another one than was read; and a hexadecimal number
\* is read anew each time it is formatted: nothing is said of these.
Shown(i, t) ==
    LET f == form.field[i]
    IN  \/ t = accept[i]
        \/ f.ff = "hex_int"
        \/ /\ IsDate(f)
           /\ \/ accept[i] = Blank \/ ~ IsValid(f, accept[i])
              \/ f.len < Digits(f)
              \/ t = DateCut(f, accept[i], 1)

\* What the user sees when asked to accept the form, and when it has ended, is what the
\* fields hold, or as much of a date or a time as their columns have room for: after
\* typing, cutting, reading the input or a provider's output, in any order.
ScreenTrue ==
    pc \in {"post", "process", "end", "done"} => \A i \in 0..(fcnt - 1) : Shown(i, screen[i])

\* When the form has ended, what was written are the values the user accepted, not those
\* written before the provider changed them, unless the user was told that writing failed.
SavedIsFinal == pc = "done" /\ form.out # "none" => file = Values \/ notified

\* A cancelled form ran no receiver, and without a directive it has written nothing.
CancelLeaves ==
    pc = "cancelled" =>
        /\ received = NotRun
        /\ file # Untouched => form.directive

\* Only a hexadecimal field of one digit is refused: no other value keeps the user from
\* accepting the form.
RefusesOneHexDigit ==
    pc = "refused" => form.field[fidx].ff = "hex_int" /\ accept[fidx] \in 0..9

\* Form always comes back to the user or ends.
Responds ==
    (pc \in {"loading", "navigate", "provider", "reading", "end"})
        ~> (pc \in {"edit", "refused", "post", "process", "done", "cancelled", "wild"})
=============================================================================
