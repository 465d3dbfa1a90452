-------------------------- MODULE FormEngineProofs --------------------------
(***************************************************************************)
(* Proofs about Form, for all descriptions, options, numbers of fields and  *)
(* texts; and about the bar of function keys that it shows under its window, *)
(* as the other programs do, for all keys.                                  *)
(***************************************************************************)
EXTENDS FormEngine, Chyron, NumberLemmas, TLAPS

\* The editor is in a field of the form; one of a form without fields is allocated too.
CursorRight ==
    pc \in {"edit", "refused", "navigate"} => fidx \in FieldNo /\ (fcnt > 0 => fidx < fcnt)

DisplayRight == \A i \in 0..(fcnt - 1) : Shown(i, display[i])

\* While lines are read, the window still shows the texts from before.
ScreenRight ==
    pc \notin {"loading", "reading", "wild"} => \A i \in 0..(fcnt - 1) : Shown(i, screen[i])

\* Only a directive makes form_process run and write before the end.
KeptRight ==
    /\ pc \in {"process", "provider", "reading"} => form.directive
    /\ pc # "done" => received = NotRun /\ (file # Untouched => form.directive)

IInv == TypeOK /\ CursorRight /\ DisplayRight /\ ScreenRight

-----------------------------------------------------------------------------
LEMMA FormType ==
  ASSUME TypeOK
  PROVE  /\ fcnt \in 0..FIELD_MAXCNT
         /\ form.field \in [FieldNo -> Field]
         /\ FIELD_MAXCNT \in Nat \ {0}
         /\ \A i \in FieldNo : Typed[form.field[i].ff] \subseteq Text
<1>1. form.field \in [FieldNo -> Field]
  BY FormAssumption DEF TypeOK, FieldNo
<1>2. \A i \in FieldNo : form.field[i].ff \in Format
  BY <1>1 DEF Field
<1> QED
  BY <1>1, <1>2, FormAssumption DEF TypeOK, fcnt

LEMMA HexType == ASSUME NEW n \in Nat PROVE HexNumber(n) \in Nat
  BY DEF HexNumber

LEMMA CutType == ASSUME NEW n \in Nat, NEW len \in Nat PROVE Cut(n, len) \in Nat
<1> DEFINE S == {d \in Tens : n \div d < Ten[len]} \cup {Ten[9]}
<1>1. S \subseteq Nat \ {0} /\ S # {}
  BY DEF Tens, Ten
<1>2. Min(S) \in S
  BY <1>1, NatMin DEF Min
<1> HIDE DEF S
<1> DEFINE d == Min(S)
<1>3. d \in Nat \ {0}
  BY <1>1, <1>2
<1> HIDE DEF d
<1>4. n \div d \in Nat
  BY <1>3
<1> QED
  BY <1>4 DEF Cut, d, S

LEMMA PartType ==
  ASSUME NEW p \in Nat, NEW w \in {2, 4}, NEW k \in Int
  PROVE  Part(p, w, k) \in Nat
  BY DEF Part, Ten

LEMMA DateType ==
  ASSUME NEW f \in Field, NEW n \in Nat, NEW gap \in {0, 1}
  PROVE  DateCut(f, n, gap) \in Nat
<1> DEFINE w == FirstPart(f)
           x == n \div 10000
           y == (n \div 100) % 100
           z == n % 100
           j == f.len - w - gap
           k == f.len - w - 2 - 2 * gap
<1>1. w \in {2, 4} /\ f.len \in Int
  BY DEF FirstPart, Field
<1>2. x \in Nat /\ y \in Nat /\ z \in Nat
  OBVIOUS
<1>3. j \in Int /\ k \in Int
  BY <1>1
<1>4. DateCut(f, n, gap) = 10000 * Part(x, w, f.len) + 100 * Part(y, 2, j) + Part(z, 2, k)
  BY DEF DateCut
<1> HIDE DEF w, x, y, z, j, k
<1>5. Part(x, w, f.len) \in Nat /\ Part(y, 2, j) \in Nat /\ Part(z, 2, k) \in Nat
  BY <1>1, <1>2, <1>3, PartType, Zenon
<1> QED
  BY <1>4, <1>5

\* A date that the field has room for is not cut.
LEMMA DateWhole ==
  ASSUME NEW f \in Field, NEW n \in Nat, f.len >= Digits(f)
  PROVE  DateCut(f, n, 0) = n
<1> DEFINE w == FirstPart(f)
<1>1. w \in {2, 4} /\ f.len \in Nat /\ f.len >= w + 4
  BY DEF FirstPart, Digits, Field
<1>2. \A p \in Nat : Part(p, w, f.len) = p
  BY <1>1 DEF Part
<1>3. \A p \in Nat : Part(p, 2, f.len - w - 0) = p
  BY <1>1 DEF Part
<1>4. \A p \in Nat : Part(p, 2, f.len - w - 2 - 2 * 0) = p
  BY <1>1 DEF Part
<1> HIDE DEF w
<1> DEFINE x == n \div 10000
           y == (n \div 100) % 100
           z == n % 100
<1>5. x \in Nat /\ y \in Nat /\ z \in Nat
  OBVIOUS
<1>6. n = 10000 * x + 100 * y + z
  OBVIOUS
<1>7. DateCut(f, n, 0) = 10000 * Part(x, w, f.len) + 100 * Part(y, 2, f.len - w - 0)
                          + Part(z, 2, f.len - w - 2 - 2 * 0)
  BY DEF DateCut, w, x, y, z
<1> HIDE DEF x, y, z
<1>8. DateCut(f, n, 0) = 10000 * x + 100 * y + z
  BY <1>2, <1>3, <1>4, <1>5, <1>7
<1> QED
  BY <1>6, <1>8

LEMMA InFieldType ==
  ASSUME NEW f \in Field, NEW t \in Text
  PROVE  InField(f, t) \in Text
  BY CutType, DateType DEF InField, Text, Field

\* Formatting a text gives a text, and what is displayed of it is right whatever was
\* displayed before.
LEMMA FormatType ==
  ASSUME NEW f \in Field, NEW t \in Text, NEW old \in Text
  PROVE  AcceptText(f, t) \in Text /\ DisplayText(f, t, old) \in Text
<1>1. Number(t) \in Nat
  BY DEF Number, Text
<1>2. HexNumber(Number(t)) \in Nat
  BY <1>1, HexType
<1>3. Cut(HexNumber(Number(t)), f.len) \in Nat
  BY <1>2, CutType DEF Field
<1>4. InField(f, t) \in Text /\ InField(f, Number(t)) \in Text
  BY <1>1, InFieldType DEF Text
<1>5. AcceptText(f, t) \in Text
  BY <1>3, <1>4 DEF AcceptText, Text
<1>6. DateCut(f, Number(t), 1) \in Text
  BY <1>1, DateType DEF Text
<1> QED
  BY <1>2, <1>5, <1>6 DEF DisplayText, Text

LEMMA FormatRight ==
  ASSUME NEW f \in Field, NEW t \in Text, NEW old
  PROVE  \/ DisplayText(f, t, old) = AcceptText(f, t)
         \/ f.ff = "hex_int"
         \/ /\ IsDate(f)
            /\ \/ ~ IsValid(f, AcceptText(f, t))
               \/ f.len < Digits(f)
               \/ DisplayText(f, t, old) = DateCut(f, AcceptText(f, t), 1)
<1>1. Number(t) \in Nat /\ Number(t) # Blank
  BY BlankAssumption DEF Number, Text
<1>2. CASE IsDate(f) /\ ~ (f.len < Digits(f))
  <2>1. f.len >= Digits(f) /\ f.len # 0
    BY <1>2 DEF Field, Digits, FirstPart
  <2>2. AcceptText(f, t) = Number(t)
    BY <1>1, <1>2, <2>1, DateWhole DEF AcceptText, InField, IsDate
  <2> QED
    BY <1>2, <2>2 DEF DisplayText, IsDate
<1> QED
  BY <1>2 DEF DisplayText, AcceptText

LEMMA FormattedStep ==
  ASSUME TypeOK, DisplayRight, NEW i \in FieldNo, NEW t \in Text, Formatted(i, t),
         UNCHANGED form
  PROVE  /\ accept' \in [FieldNo -> Text]
         /\ display' \in [FieldNo -> Text]
         /\ \A j \in FieldNo \ {i} : accept'[j] = accept[j]
         /\ accept'[i] = AcceptText(form.field[i], t)
         /\ DisplayRight'
<1> DEFINE f == form.field[i]
<1>1. f \in Field /\ fcnt \in 0..FIELD_MAXCNT /\ FIELD_MAXCNT \in Nat
  BY FormType
<1>2. accept[i] \in Text /\ display[i] \in Text
  BY DEF TypeOK
<1>3. /\ accept' = [accept EXCEPT ![i] = AcceptText(f, t)]
      /\ display' = [display EXCEPT ![i] = DisplayText(f, t, display[i])]
  BY DEF Formatted, TypeOK
<1>4. AcceptText(f, t) \in Text /\ DisplayText(f, t, display[i]) \in Text
  BY <1>1, <1>2, FormatType
<1>5. accept' \in [FieldNo -> Text] /\ display' \in [FieldNo -> Text]
  BY <1>3, <1>4 DEF TypeOK
<1>6. /\ accept'[i] = AcceptText(f, t)
      /\ display'[i] = DisplayText(f, t, display[i])
      /\ \A j \in FieldNo \ {i} : accept'[j] = accept[j] /\ display'[j] = display[j]
  BY <1>3 DEF TypeOK
<1>7. DisplayRight'
  <2> SUFFICES ASSUME NEW j \in 0..(fcnt - 1) PROVE Shown(j, display[j])'
    BY DEF DisplayRight, fcnt
  <2>1. j \in FieldNo
    BY <1>1 DEF FieldNo
  <2>2. CASE j = i
    <3>1. \/ display'[i] = accept'[i]
          \/ f.ff = "hex_int"
          \/ /\ IsDate(f)
             /\ \/ ~ IsValid(f, accept'[i])
                \/ f.len < Digits(f)
                \/ display'[i] = DateCut(f, accept'[i], 1)
      BY <1>1, <1>6, FormatRight
    <3> QED
      BY <2>2, <3>1 DEF Shown
  <2>3. CASE j # i
    <3>1. Shown(j, display[j])
      BY DEF DisplayRight
    <3> QED
      BY <1>6, <2>1, <2>3, <3>1 DEF Shown
  <2> QED
    BY <2>2, <2>3
<1> QED
  BY <1>5, <1>6, <1>7

\* Showing the text it now holds of the field that was formatted keeps the window right.
LEMMA WindowStep ==
  ASSUME TypeOK, NEW i \in FieldNo, NEW seen \in [FieldNo -> Text],
         \A j \in 0..(fcnt - 1) : Shown(j, seen[j]),
         UNCHANGED form,
         \A j \in FieldNo \ {i} : accept'[j] = accept[j],
         screen' \in [FieldNo -> Text],
         \A j \in FieldNo \ {i} : screen'[j] = seen[j],
         i \in 0..(fcnt - 1) => Shown(i, screen[i])'
  PROVE  ScreenRight'
<1> SUFFICES ASSUME NEW j \in 0..(fcnt - 1) PROVE Shown(j, screen[j])'
  BY DEF ScreenRight, fcnt
<1>1. j \in FieldNo
  BY FormType DEF FieldNo
<1>2. CASE j = i
  BY <1>2
<1>3. CASE j # i
  BY <1>1, <1>3 DEF Shown
<1> QED
  BY <1>2, <1>3

\* field_editor begins.
LEMMA EditStep ==
  ASSUME IInv, NEW i \in Nat, fcnt > 0 => i < fcnt,
         NEW seen \in [FieldNo -> Text],
         \A j \in 0..(fcnt - 1) : Shown(j, seen[j]),
         Edit(i, seen)
  PROVE  IInv'
<1>1. CASE i \in FieldNo
  <2> DEFINE t == AcceptText(form.field[i], accept[i])
  <2>1. /\ pc' = "edit" /\ fidx' = i /\ Formatted(i, t)
        /\ screen' = [seen EXCEPT ![i] = accept'[i]]
        /\ UNCHANGED <<form, key, output>>
    BY <1>1 DEF Edit
  <2>2. t \in Text
    BY <1>1, FormType, FormatType DEF IInv, TypeOK
  <2>3. /\ accept' \in [FieldNo -> Text] /\ display' \in [FieldNo -> Text]
        /\ \A j \in FieldNo \ {i} : accept'[j] = accept[j]
        /\ DisplayRight'
    BY <1>1, <2>1, <2>2, FormattedStep DEF IInv
  <2>4. /\ screen' \in [FieldNo -> Text]
        /\ screen'[i] = accept'[i]
        /\ \A j \in FieldNo \ {i} : screen'[j] = seen[j]
    BY <1>1, <2>1, <2>3
  <2>5. Shown(i, screen[i])'
    BY <2>4 DEF Shown
  <2>6. ScreenRight'
    BY <1>1, <2>1, <2>3, <2>4, <2>5, WindowStep DEF IInv
  <2>7. TypeOK'
    <3>1. i \in 0..FIELD_MAXCNT
      BY <1>1, FormType DEF IInv, FieldNo
    <3> QED
      BY <2>1, <2>3, <2>4, <3>1 DEF IInv, TypeOK, State, fcnt, output
  <2>8. CursorRight'
    BY <1>1, <2>1 DEF CursorRight, fcnt, FieldNo
  <2> QED
    BY <2>3, <2>6, <2>7, <2>8 DEF IInv
<1>2. CASE i \notin FieldNo
  <2>1. pc' = "wild" /\ UNCHANGED <<form, key, fidx, texts, output>>
    BY <1>2 DEF Edit, Stray
  <2> QED
    BY <2>1 DEF IInv, TypeOK, State, CursorRight, DisplayRight, ScreenRight, Shown, fcnt,
                FieldNo, texts, output
<1> QED
  BY <1>1, <1>2

\* Only pc, key, fidx and what is given away change.
LEMMA QuietStep ==
  ASSUME IInv, UNCHANGED <<form, accept, display, screen>>, TypeOK', CursorRight',
         pc \notin {"loading", "reading", "wild"} \/ pc' \in {"loading", "reading", "wild"}
  PROVE  IInv'
  BY DEF IInv, DisplayRight, ScreenRight, Shown, fcnt

LEMMA InitInv == Init => IInv
<1> SUFFICES ASSUME Init PROVE IInv
  OBVIOUS
<1>1. TypeOK
  <2>1. 0 \in 0..FIELD_MAXCNT
    BY FormAssumption
  <2>2. [i \in FieldNo |-> Blank] \in [FieldNo -> Text]
    BY DEF Text
  <2> QED
    BY <2>1, <2>2 DEF Init, TypeOK, State, Key
<1>2. DisplayRight
  BY <1>1, FormType DEF Init, DisplayRight, Shown, FieldNo
<1>3. pc = "loading"
  BY DEF Init
<1> QED
  BY <1>1, <1>2, <1>3 DEF IInv, CursorRight, ScreenRight

-----------------------------------------------------------------------------
(* Reading. *)

LEMMA ReadLineStep == IInv /\ ReadLine => IInv'
<1> SUFFICES ASSUME IInv, ReadLine PROVE IInv'
  OBVIOUS
<1>1. pc \in {"reading", "loading"}
  BY DEF ReadLine
<1>2. CASE fidx \in FieldNo
  <2>1. PICK t \in Typed[form.field[fidx].ff] :
           /\ Formatted(fidx, t)
           /\ fidx' = fidx + 1
           /\ UNCHANGED <<form, pc, key, screen, output>>
    BY <1>2 DEF ReadLine
  <2>2. t \in Text
    BY <1>2, FormType DEF IInv
  <2>3. /\ accept' \in [FieldNo -> Text] /\ display' \in [FieldNo -> Text]
        /\ DisplayRight'
    BY <1>2, <2>1, <2>2, FormattedStep DEF IInv
  <2>4. fidx' \in 0..FIELD_MAXCNT
    BY <1>2, <2>1, FormType DEF IInv, FieldNo
  <2>5. TypeOK'
    BY <2>1, <2>3, <2>4 DEF IInv, TypeOK, fcnt, output
  <2> QED
    BY <1>1, <2>1, <2>3, <2>5 DEF IInv, CursorRight, ScreenRight
<1>3. CASE fidx \notin FieldNo
  <2>1. pc' = "wild" /\ UNCHANGED <<form, key, fidx, texts, output>>
    BY <1>3 DEF ReadLine, Stray
  <2>2. TypeOK'
    BY <2>1 DEF IInv, TypeOK, State, fcnt, texts, output
  <2> QED
    BY <2>1, <2>2, QuietStep DEF CursorRight, texts
<1> QED
  BY <1>2, <1>3

LEMMA DisplayedType ==
  ASSUME TypeOK
  PROVE  /\ FieldsDisplayed \in [FieldNo -> Text]
         /\ \A j \in 0..(fcnt - 1) : FieldsDisplayed[j] = display[j]
  BY FormType DEF TypeOK, FieldsDisplayed, FieldNo

LEMMA LoadedStep == IInv /\ Loaded => IInv'
<1> SUFFICES ASSUME IInv, Loaded PROVE IInv'
  OBVIOUS
<1>1. PICK seen : seen = FieldsDisplayed
  OBVIOUS
<1>2. seen \in [FieldNo -> Text] /\ \A j \in 0..(fcnt - 1) : Shown(j, seen[j])
  BY <1>1, DisplayedType DEF IInv, DisplayRight
<1>3. Edit(0, seen)
  BY <1>1 DEF Loaded
<1>4. fcnt > 0 => 0 < fcnt
  OBVIOUS
<1> QED
  BY <1>2, <1>3, <1>4, EditStep

LEMMA ProvidedStep == IInv /\ Provided => IInv'
<1> SUFFICES ASSUME IInv, Provided PROVE IInv'
  OBVIOUS
<1>1. /\ screen' = FieldsDisplayed /\ fidx' = fcnt /\ pc' = "process"
      /\ UNCHANGED <<form, key, accept, display, output>>
  BY DEF Provided
<1>2. TypeOK'
  BY <1>1, DisplayedType, FormType DEF IInv, TypeOK, State, fcnt, output
<1>3. DisplayRight'
  BY <1>1 DEF IInv, DisplayRight, Shown, fcnt
<1>4. ScreenRight'
  BY <1>1, DisplayedType DEF IInv, DisplayRight, ScreenRight, Shown, fcnt
<1> QED
  BY <1>1, <1>2, <1>3, <1>4 DEF IInv, CursorRight

-----------------------------------------------------------------------------
(* The editor. *)

\* In the editor the form is at a field of its own.
LEMMA AtField ==
  ASSUME IInv, pc \in {"edit", "refused", "navigate"}
  PROVE  /\ fidx \in FieldNo /\ fidx \in Nat
         /\ accept[fidx] \in Text
         /\ \A j \in 0..(fcnt - 1) : Shown(j, screen[j])
  BY FormType DEF IInv, TypeOK, CursorRight, ScreenRight, FieldNo

\* A text is formatted and the window shows of it what the field holds or displays.
LEMMA FormatInEditor ==
  ASSUME IInv, pc \in {"edit", "refused"}, NEW t \in Text, Formatted(fidx, t),
         \/ screen' = [screen EXCEPT ![fidx] = accept'[fidx]]
         \/ screen' = [screen EXCEPT ![fidx] = display'[fidx]],
         UNCHANGED <<form, fidx, output>>,
         pc' \in {"edit", "refused", "navigate"}, key' \in Key
  PROVE  IInv'
<1>1. PICK i \in FieldNo : i = fidx
  BY AtField
<1>2. /\ accept' \in [FieldNo -> Text] /\ display' \in [FieldNo -> Text]
      /\ \A j \in FieldNo \ {i} : accept'[j] = accept[j]
      /\ DisplayRight'
  BY <1>1, FormattedStep DEF IInv
<1>3. PICK seen : seen = screen
  OBVIOUS
<1>4. seen \in [FieldNo -> Text] /\ \A j \in 0..(fcnt - 1) : Shown(j, seen[j])
  BY <1>3, AtField DEF IInv, TypeOK
<1>5. /\ screen' \in [FieldNo -> Text]
      /\ screen'[i] = accept'[i] \/ screen'[i] = display'[i]
      /\ \A j \in FieldNo \ {i} : screen'[j] = seen[j]
  BY <1>1, <1>2, <1>3, <1>4
<1>6. i \in 0..(fcnt - 1) => Shown(i, screen[i])'
  BY <1>2, <1>5 DEF DisplayRight, Shown, fcnt
<1>7. ScreenRight'
  BY <1>2, <1>4, <1>5, <1>6, WindowStep DEF IInv
<1>8. TypeOK'
  BY <1>2, <1>5 DEF IInv, TypeOK, State, fcnt, output
<1> QED
  BY <1>2, <1>7, <1>8 DEF IInv, CursorRight, fcnt

LEMMA TypeStep == IInv /\ Type => IInv'
<1> SUFFICES ASSUME IInv, Type PROVE IInv'
  OBVIOUS
<1>1. PICK t \in Typed[form.field[fidx].ff] : Formatted(fidx, InField(form.field[fidx], t))
  BY DEF Type
<1>2. t \in Text /\ form.field[fidx] \in Field
  BY FormType, AtField DEF IInv, Type
<1>3. InField(form.field[fidx], t) \in Text
  BY <1>2, InFieldType
<1> QED
  BY <1>1, <1>3, FormatInEditor DEF Type, IInv, TypeOK

LEMMA LeaveStep ==
  ASSUME IInv, pc = "edit", NEW k \in Key, NEW t \in Text, Leave(k, t)
  PROVE  IInv'
  BY FormatInEditor DEF Leave

LEMMA EditorStep ==
  ASSUME IInv, ArrowKey \/ EnterKey \/ AcceptKey \/ CancelKey \/ HelpKey \/ Wheel
  PROVE  IInv'
<1>1. CASE ArrowKey
  <2>1. PICK k \in {"up", "down"} : Leave(k, accept[fidx])
    BY <1>1 DEF ArrowKey
  <2>2. PICK t \in Text : t = accept[fidx]
    BY <1>1, AtField DEF ArrowKey
  <2> QED
    BY <1>1, <2>1, <2>2, LeaveStep DEF ArrowKey, Key
<1>2. CASE EnterKey
  <2>1. PICK t \in {accept[fidx]} \cup (IF form.erase THEN {Blank} ELSE {}) :
           Leave("enter", t)
    BY <1>2 DEF EnterKey
  <2>2. t \in Text
    BY <1>2, <2>1, AtField DEF EnterKey, Text
  <2> QED
    BY <1>2, <2>1, <2>2, LeaveStep DEF EnterKey, Key
<1>3. CASE AcceptKey
  <2>1. PICK t \in Text : t = accept[fidx]
    BY <1>3, AtField DEF AcceptKey
  <2> QED
    BY <1>3, <2>1, FormatInEditor DEF AcceptKey, Key, IInv, TypeOK
<1>4. CASE CancelKey
  <2>1. /\ pc = "edit" /\ pc' = "navigate" /\ key' = "cancel"
        /\ screen' = [screen EXCEPT ![fidx] = display[fidx]]
        /\ UNCHANGED <<form, fidx, accept, display, output>>
    BY <1>4 DEF CancelKey
  <2>2. screen' \in [FieldNo -> Text]
    BY <2>1, AtField DEF IInv, TypeOK
  <2>3. TypeOK'
    BY <2>1, <2>2 DEF IInv, TypeOK, State, Key, fcnt, output
  <2>4. DisplayRight'
    BY <2>1 DEF IInv, DisplayRight, Shown, fcnt
  <2>5. ScreenRight'
    BY <2>1, AtField DEF IInv, TypeOK, DisplayRight, ScreenRight, Shown, fcnt
  <2> QED
    BY <2>1, <2>3, <2>4, <2>5 DEF IInv, CursorRight, fcnt
<1>5. CASE HelpKey
  BY <1>5, QuietStep DEF HelpKey, IInv, TypeOK, State, Key, CursorRight, fcnt, texts, output
<1>6. CASE Wheel
  BY <1>6, QuietStep
     DEF Wheel, Stray, IInv, TypeOK, State, CursorRight, fcnt, texts, output
<1> QED
  BY <1>1, <1>2, <1>3, <1>4, <1>5, <1>6

-----------------------------------------------------------------------------
(* The navigator, the prompts and the end. *)

LEMMA NavigatorStep ==
  ASSUME IInv, pc \notin {"loading", "reading", "wild"}, Navigator(screen)
  PROVE  IInv'
<1>1. PICK i : i = IF fidx >= fcnt THEN 0 ELSE fidx
  OBVIOUS
<1>2. PICK seen : seen = screen
  OBVIOUS
<1>3. Edit(i, seen)
  BY <1>1, <1>2 DEF Navigator
<1>4. i \in Nat /\ (fcnt > 0 => i < fcnt)
  BY <1>1, FormType DEF IInv, TypeOK
<1>5. seen \in [FieldNo -> Text] /\ \A j \in 0..(fcnt - 1) : Shown(j, seen[j])
  BY <1>2 DEF IInv, TypeOK, ScreenRight
<1> QED
  BY <1>3, <1>4, <1>5, EditStep

LEMMA PromptStep ==
  ASSUME IInv, pc \in {"navigate", "edit"}, ToPrompt
  PROVE  IInv'
<1>1. TypeOK'
  BY DEF ToPrompt, IInv, TypeOK, State, fcnt, texts, output
<1> QED
  BY <1>1, QuietStep DEF ToPrompt, CursorRight, texts

LEMMA MoveStep == ASSUME IInv, Up \/ Down PROVE IInv'
<1>1. pc = "navigate"
  BY DEF Up, Down
<1>2. PICK seen : seen = screen
  OBVIOUS
<1>3. /\ seen \in [FieldNo -> Text] /\ \A j \in 0..(fcnt - 1) : Shown(j, seen[j])
      /\ fidx \in Nat /\ fcnt \in Nat /\ (fcnt > 0 => fidx < fcnt)
  BY <1>1, <1>2, AtField, FormType DEF IInv, TypeOK, CursorRight
<1>4. CASE Up
  <2>1. PICK i : i = IF fidx # 0 THEN fidx - 1 ELSE 0
    OBVIOUS
  <2>2. Edit(i, seen)
    BY <1>2, <1>4, <2>1 DEF Up
  <2>3. i \in Nat /\ (fcnt > 0 => i < fcnt)
    BY <1>3, <2>1
  <2> QED
    BY <1>3, <2>2, <2>3, EditStep
<1>5. CASE Down
  <2>1. CASE fcnt = 0 \/ fidx < fcnt - 1
    <3>1. PICK i : i = fidx + 1
      OBVIOUS
    <3>2. Edit(i, seen)
      BY <1>2, <1>5, <2>1, <3>1 DEF Down
    <3>3. i \in Nat /\ (fcnt > 0 => i < fcnt)
      BY <1>3, <2>1, <3>1
    <3> QED
      BY <1>3, <3>2, <3>3, EditStep
  <2>2. CASE ~ (fcnt = 0 \/ fidx < fcnt - 1)
    BY <1>1, <1>5, <2>2, PromptStep DEF Down
  <2> QED
    BY <2>1, <2>2
<1> QED
  BY <1>4, <1>5

LEMMA WriteType ==
  ASSUME TypeOK, WriteForm, UNCHANGED form
  PROVE  /\ file' = Untouched \/ file' \in [1..fcnt -> Text]
         /\ notified' \in BOOLEAN /\ stdout_open' \in BOOLEAN
<1>1. Values \in [1..fcnt -> Text]
  <2> SUFFICES ASSUME NEW n \in 1..fcnt PROVE accept[n - 1] \in Text
    BY DEF Values
  <2>1. n - 1 \in FieldNo
    BY FormType DEF FieldNo
  <2> QED
    BY <2>1 DEF TypeOK
<1>2. PICK ok \in BOOLEAN :
        LET written == ok /\ (form.out = "stdout" => stdout_open)
        IN  /\ file' = IF written THEN Values ELSE file
            /\ notified' = ~ written
            /\ stdout_open' = (stdout_open /\ ~ (written /\ form.out = "stdout"))
  BY DEF WriteForm
<1>3. file' = Values \/ file' = file
  BY <1>2
<1>4. notified' \in BOOLEAN /\ stdout_open' \in BOOLEAN
  BY <1>2, Zenon
<1> QED
  BY <1>1, <1>3, <1>4 DEF TypeOK

LEMMA ArgumentsType ==
  ASSUME TypeOK
  PROVE  \E S \in SUBSET (1..fcnt) : Arguments \in [S -> Text]
<1> DEFINE S == {m \in 1..fcnt : accept[m - 1] # Blank}
<1>1. \A n \in S : accept[n - 1] \in Text
  BY FormType DEF TypeOK, FieldNo
<1>2. Arguments \in [S -> Text]
  BY <1>1 DEF Arguments
<1> QED
  BY <1>2

LEMMA OtherStep ==
  ASSUME IInv, PromptCancel \/ PromptAccept \/ Cancel \/ Process \/ End
  PROVE  IInv'
<1>1. /\ UNCHANGED <<form, accept, display, screen>>
      /\ pc \in {"post", "process", "navigate", "end"}
      /\ pc' \in {"cancelled", "end", "process", "provider", "done"}
      /\ key' = key /\ fidx' = fidx
  BY DEF PromptCancel, PromptAccept, Cancel, Process, End, Prompted, texts
<1>2. /\ file' = Untouched \/ file' \in [1..fcnt -> Text]
      /\ notified' \in BOOLEAN /\ stdout_open' \in BOOLEAN
  <2>1. CASE WriteForm
    BY <1>1, <2>1, WriteType DEF IInv
  <2>2. CASE UNCHANGED <<stdout_open, file, notified>>
    BY <2>2 DEF IInv, TypeOK
  <2> QED
    BY <2>1, <2>2 DEF PromptCancel, PromptAccept, Cancel, Process, End, output
<1>3. received' = received \/ received' = Arguments
  BY DEF PromptCancel, PromptAccept, Cancel, Process, End, output
<1>4. received' = NotRun \/ \E S \in SUBSET (1..fcnt) : received' \in [S -> Text]
  BY <1>3, ArgumentsType DEF IInv, TypeOK
<1>5. TypeOK'
  BY <1>1, <1>2, <1>4 DEF IInv, TypeOK, State, fcnt
<1> QED
  BY <1>1, <1>5, QuietStep DEF CursorRight

LEMMA NextInv == IInv /\ [Next]_vars => IInv'
<1> SUFFICES ASSUME IInv, [Next]_vars PROVE IInv'
  OBVIOUS
<1>1. CASE Loaded
  BY <1>1, LoadedStep
<1>2. CASE StartProvider
  <2>1. CASE pc' = "reading" /\ fidx' = 0 /\ UNCHANGED <<form, key, texts, output>>
    <3>1. 0 \in 0..FIELD_MAXCNT
      BY FormType DEF IInv
    <3>2. TypeOK'
      BY <2>1, <3>1 DEF IInv, TypeOK, State, fcnt, texts, output
    <3> QED
      BY <1>2, <2>1, <3>2, QuietStep DEF StartProvider, CursorRight, texts
  <2>2. CASE Navigator(screen)
    BY <1>2, <2>2, NavigatorStep DEF StartProvider
  <2> QED
    BY <1>2, <2>1, <2>2 DEF StartProvider
<1>3. CASE Provided
  BY <1>3, ProvidedStep
<1>4. CASE Up \/ Down
  BY <1>4, MoveStep
<1>5. CASE Accept
  BY <1>5, PromptStep DEF Accept
<1>6. CASE Help \/ PromptEdit
  BY <1>6, NavigatorStep DEF Help, PromptEdit, Prompted
<1>7. CASE Cancel \/ PromptCancel \/ PromptAccept \/ Process \/ End
  BY <1>7, OtherStep
<1>8. CASE Type
  BY <1>8, TypeStep
<1>9. CASE ArrowKey \/ EnterKey \/ AcceptKey \/ CancelKey \/ HelpKey \/ Wheel
  BY <1>9, EditorStep
<1>10. CASE ReadLine
  BY <1>10, ReadLineStep
<1>11. CASE UNCHANGED vars
  BY <1>11 DEF IInv, TypeOK, CursorRight, DisplayRight, ScreenRight, Shown, fcnt, vars,
               texts, output
<1> QED
  BY <1>1, <1>2, <1>3, <1>4, <1>5, <1>6, <1>7, <1>8, <1>9, <1>10, <1>11
     DEF Next, Program, User

\* Everything keeps the shape the code gives it (form_engine.c, fields.c).
THEOREM TypeCorrect == Spec => []TypeOK
<1>1. IInv => TypeOK
  BY DEF IInv
<1> QED
  BY <1>1, InitInv, NextInv, PTL DEF Spec

\* field_navigator and field_editor are always in a field of the form (form_engine.c:471).
THEOREM CursorCorrect == Spec => []CursorInForm
<1>1. IInv => CursorInForm
  BY DEF IInv, CursorRight, CursorInForm
<1> QED
  BY <1>1, InitInv, NextInv, PTL DEF Spec

\* What is confirmed is what the window shows, whatever was typed, read and provided
\* before (form_engine.c:592, fields.c:369).
THEOREM ScreenCorrect == Spec => []ScreenTrue
<1>1. IInv => ScreenTrue
  BY DEF IInv, ScreenRight, ScreenTrue
<1> QED
  BY <1>1, InitInv, NextInv, PTL DEF Spec

-----------------------------------------------------------------------------
(* What leaves the form. *)

\* Where a step of the program or of the user leads that neither writes nor ends the form.
LEMMA Leads ==
  ASSUME [Next]_vars, ~ Process, ~ End, ~ PromptAccept, ~ UNCHANGED vars
  PROVE  /\ UNCHANGED <<form, output>>
         /\ \/ pc' \in {"edit", "refused", "navigate", "post", "wild", "cancelled"}
            \/ pc' = "process" /\ (form.directive \/ pc = "reading")
            \/ pc' = "reading" /\ pc \in {"reading", "provider"}
            \/ pc' = "loading" /\ pc = "loading"
         /\ pc' = "refused" => AcceptKey
         /\ pc' = "cancelled" => pc # "done"
         /\ pc # "done"
<1>1. \A i, seen : Edit(i, seen) =>
        UNCHANGED <<form, output>> /\ pc' \in {"edit", "wild"}
  BY DEF Edit, Stray
<1>2. CASE Loaded \/ Up \/ Help
  BY <1>1, <1>2 DEF Loaded, Up, Help, Navigator
<1>3. CASE StartProvider
  BY <1>1, <1>3 DEF StartProvider, Navigator
<1>4. CASE Provided
  BY <1>4 DEF Provided
<1>5. CASE Down \/ Accept
  BY <1>1, <1>5 DEF Down, Accept, ToPrompt
<1>6. CASE Cancel \/ PromptCancel
  BY <1>6 DEF Cancel, PromptCancel, Prompted
<1>7. CASE Type \/ ArrowKey \/ EnterKey \/ CancelKey \/ HelpKey \/ Wheel
  BY <1>7 DEF Type, ArrowKey, EnterKey, CancelKey, HelpKey, Wheel, Stray, Leave
<1>8. CASE AcceptKey
  BY <1>8 DEF AcceptKey
<1>9. CASE PromptEdit
  BY <1>1, <1>9 DEF PromptEdit, Navigator, Prompted
<1>10. CASE ReadLine
  BY <1>10 DEF ReadLine, Stray
<1> QED
  BY <1>2, <1>3, <1>4, <1>5, <1>6, <1>7, <1>8, <1>9, <1>10 DEF Next, Program, User

LEMMA SavedStep == SavedIsFinal /\ [Next]_vars => SavedIsFinal'
<1> SUFFICES ASSUME SavedIsFinal, [Next]_vars PROVE SavedIsFinal'
  OBVIOUS
<1>1. CASE End
  <2>1. UNCHANGED <<form, accept>>
    BY <1>1 DEF End, texts
  <2>2. Values' = Values
    BY <2>1 DEF Values, fcnt
  <2>3. form.out # "none" => WriteForm
    BY <1>1 DEF End
  <2>4. form.out # "none" => file' = Values \/ notified'
    BY <2>3 DEF WriteForm
  <2> QED
    BY <2>1, <2>2, <2>4 DEF SavedIsFinal
<1>2. CASE Process \/ PromptAccept
  BY <1>2 DEF Process, PromptAccept, SavedIsFinal
<1>3. CASE UNCHANGED vars
  BY <1>3 DEF SavedIsFinal, Values, fcnt, vars, texts, output
<1>4. CASE ~ Process /\ ~ End /\ ~ PromptAccept /\ ~ UNCHANGED vars
  BY <1>4, Leads DEF SavedIsFinal
<1> QED
  BY <1>1, <1>2, <1>3, <1>4

\* What a form that ended has written are the values accepted, unless the user was told
\* (form_engine.c:177, 1094).
THEOREM SavedCorrect == Spec => []SavedIsFinal
<1>1. Init => SavedIsFinal
  BY DEF Init, SavedIsFinal
<1> QED
  BY <1>1, SavedStep, PTL DEF Spec

LEMMA KeptStep == KeptRight /\ [Next]_vars => KeptRight'
<1> SUFFICES ASSUME KeptRight, [Next]_vars PROVE KeptRight'
  OBVIOUS
<1>1. CASE End
  BY <1>1 DEF End, KeptRight
<1>2. CASE Process
  BY <1>2 DEF Process, KeptRight
<1>3. CASE PromptAccept
  BY <1>3 DEF PromptAccept, Prompted, KeptRight, output
<1>4. CASE UNCHANGED vars
  BY <1>4 DEF KeptRight, vars, output
<1>5. CASE ~ Process /\ ~ End /\ ~ PromptAccept /\ ~ UNCHANGED vars
  BY <1>5, Leads DEF KeptRight, output
<1> QED
  BY <1>1, <1>2, <1>3, <1>4, <1>5

\* A cancelled form ran no receiver and wrote nothing without a directive
\* (form_engine.c:206, 369).
THEOREM CancelCorrect == Spec => []CancelLeaves
<1>1. Init => KeptRight
  BY DEF Init, KeptRight
<1>2. KeptRight => CancelLeaves
  BY DEF KeptRight, CancelLeaves
<1> QED
  BY <1>1, <1>2, KeptStep, PTL DEF Spec

LEMMA RefusedStep == IInv /\ RefusesOneHexDigit /\ [Next]_vars => RefusesOneHexDigit'
<1> SUFFICES ASSUME IInv, RefusesOneHexDigit, [Next]_vars PROVE RefusesOneHexDigit'
  OBVIOUS
<1>1. CASE AcceptKey
  <2> SUFFICES ASSUME pc' = "refused"
               PROVE  form.field[fidx].ff = "hex_int" /\ accept'[fidx] \in 0..9
    BY <1>1 DEF AcceptKey, RefusesOneHexDigit
  <2>1. fidx \in FieldNo /\ accept[fidx] \in Text
    BY <1>1, AtField DEF AcceptKey
  <2>2. Refused(form.field[fidx], accept'[fidx])
    BY <1>1 DEF AcceptKey
  <2>3. accept'[fidx] = AcceptText(form.field[fidx], accept[fidx])
    BY <1>1, <2>1 DEF AcceptKey, Formatted, IInv, TypeOK
  <2>4. HexNumber(Number(accept[fidx])) \in Nat /\ form.field[fidx] \in Field
    BY <2>1, HexType, FormType DEF IInv, Number, Text
  <2>5. form.field[fidx].ff = "hex_int" => accept'[fidx] \in Nat
    BY <2>3, <2>4, CutType DEF AcceptText, Field
  <2> QED
    BY <2>2, <2>5 DEF Refused
<1>2. CASE Process \/ PromptAccept \/ End
  BY <1>2 DEF Process, PromptAccept, Prompted, End, RefusesOneHexDigit
<1>3. CASE UNCHANGED vars
  BY <1>3 DEF RefusesOneHexDigit, vars, texts
<1>4. CASE ~ Process /\ ~ End /\ ~ PromptAccept /\ ~ UNCHANGED vars /\ ~ AcceptKey
  BY <1>4, Leads DEF RefusesOneHexDigit
<1> QED
  BY <1>1, <1>2, <1>3, <1>4

\* No value but a hexadecimal number of one digit is refused (fields.c:544).
THEOREM RefusedCorrect == Spec => []RefusesOneHexDigit
<1>1. Init => RefusesOneHexDigit
  BY DEF Init, RefusesOneHexDigit
<1> QED
  BY <1>1, InitInv, NextInv, RefusedStep, PTL DEF Spec

-----------------------------------------------------------------------------
(* The bar of keys. *)

\* The bars of keys.
KeyType == [text : Nat, keycode : Int, active : BOOLEAN, end_pos : Nat]
BarType == [key : [BarKey -> KeyType], buf : Seq(Int), l : Nat, y : Int]

LEMMA BarNumbers ==
  /\ BarKey \subseteq 0..19 /\ 0..19 \subseteq BarKey
  /\ \A k \in BarKey : k \in Int /\ k <= 19 /\ k < 20
  /\ BarKey \subseteq Nat /\ Space \notin BarKey /\ Bar \notin BarKey /\ Space # Bar
  /\ Space \in Int /\ Bar \in Int /\ Missing \in Int
  BY DEF BarKey, CHYRON_KEYS, Space, Bar, Missing

\* A program makes its bar with new_chyron, and what it calls keeps the type.
LEMMA CallsType ==
  /\ new_chyron \in BarType
  /\ \A c \in BarType, k \in BarKey :
         /\ \A text \in Nat, keycode \in Int : set_chyron_key(c, k, text, keycode) \in BarType
         /\ unset_chyron_key(c, k) \in BarType
         /\ activate_chyron_key(c, k) \in BarType
         /\ deactivate_chyron_key(c, k) \in BarType
         /\ activate_all_chyron_keys(c) \in BarType
         /\ deactivate_all_chyron_keys(c) \in BarType
<1>1. new_chyron \in BarType
  BY DEF new_chyron, NoKey, BarType, KeyType
<1>2. ASSUME NEW c \in BarType, NEW k \in BarKey
      PROVE  /\ unset_chyron_key(c, k) \in BarType
             /\ activate_chyron_key(c, k) \in BarType
             /\ deactivate_chyron_key(c, k) \in BarType
             /\ activate_all_chyron_keys(c) \in BarType
             /\ deactivate_all_chyron_keys(c) \in BarType
  <2>1. unset_chyron_key(c, k) \in BarType
    BY DEF BarType, KeyType, unset_chyron_key
  <2>2. activate_chyron_key(c, k) \in BarType
    BY DEF BarType, KeyType, activate_chyron_key
  <2>3. deactivate_chyron_key(c, k) \in BarType
    BY DEF BarType, KeyType, deactivate_chyron_key
  <2>4. activate_all_chyron_keys(c) \in BarType
    BY DEF BarType, KeyType, activate_all_chyron_keys
  <2>5. deactivate_all_chyron_keys(c) \in BarType
    BY DEF BarType, KeyType, deactivate_all_chyron_keys
  <2> QED
    BY <2>1, <2>2, <2>3, <2>4, <2>5
<1>3. ASSUME NEW c \in BarType, NEW k \in BarKey, NEW text \in Nat, NEW keycode \in Int
      PROVE  set_chyron_key(c, k, text, keycode) \in BarType
  <2>1. Min({text, CHYRON_KEY_MAXLEN - 2}) \in Nat
    <3>1. Min({text, 62}) \in {text, 62}
      <4>1. PICK n \in {text, 62} : \A m \in {text, 62} : n <= m
        OBVIOUS
      <4> QED
        BY <4>1 DEF Min
    <3> QED
      BY <3>1 DEF CHYRON_KEY_MAXLEN
  <2> QED
    BY <2>1 DEF BarType, KeyType, set_chyron_key
<1> QED
  BY <1>1, <1>2, <1>3

\* The text of a key behind what is there.
Extended(buf, k, n) ==
    Append(buf, IF buf = <<>> THEN Space ELSE Bar) \o [i \in 1..n |-> k]

LEMMA ExtendedIs ==
  ASSUME NEW buf \in Seq(Int), NEW k \in Int, NEW n \in Nat
  PROVE  /\ Extended(buf, k, n) \in Seq(Int)
         /\ Len(Extended(buf, k, n)) = Len(buf) + 1 + n
         /\ \A p \in 1..(Len(buf) + 1 + n) :
                Extended(buf, k, n)[p] = IF p <= Len(buf) THEN buf[p]
                                         ELSE IF p = Len(buf) + 1
                                              THEN IF buf = <<>> THEN Space ELSE Bar
                                              ELSE k
<1> DEFINE s == IF buf = <<>> THEN Space ELSE Bar
           one == Append(buf, s)
           two == [i \in 1..n |-> k]
<1>1. s \in Int
  BY BarNumbers
<1>2. one \in Seq(Int) /\ Len(one) = Len(buf) + 1
      /\ \A p \in 1..(Len(buf) + 1) : one[p] = IF p <= Len(buf) THEN buf[p] ELSE s
  BY <1>1
<1>3. two \in Seq(Int) /\ Len(two) = n /\ \A p \in 1..n : two[p] = k
  OBVIOUS
<1> HIDE DEF one, two, s
<1>4. one \o two \in Seq(Int) /\ Len(one \o two) = Len(one) + Len(two)
      /\ \A p \in 1..(Len(one) + Len(two)) :
            (one \o two)[p] = IF p <= Len(one) THEN one[p] ELSE two[p - Len(one)]
  <2>1. \A u, v \in Seq(Int) :
            /\ u \o v \in Seq(Int) /\ Len(u \o v) = Len(u) + Len(v)
            /\ \A p \in 1..(Len(u) + Len(v)) :
                  (u \o v)[p] = IF p <= Len(u) THEN u[p] ELSE v[p - Len(u)]
    OBVIOUS
  <2> QED
    BY <1>2, <1>3, <2>1, Zenon
<1>5. Extended(buf, k, n) = one \o two
  BY DEF Extended, one, two, s
<1>6. Len(buf) \in Nat
  OBVIOUS
<1> DEFINE both == one \o two
           L == Len(buf)
<1>7. Len(one) = L + 1 /\ Len(two) = n /\ L \in Nat
  BY <1>2, <1>3, <1>6
<1>8. both \in Seq(Int) /\ Len(both) = L + 1 + n
  BY <1>4, <1>7
<1>9. ASSUME NEW p \in 1..(L + 1 + n)
      PROVE  both[p] = IF p <= L THEN buf[p] ELSE IF p = L + 1 THEN s ELSE k
  <2>1. both[p] = IF p <= L + 1 THEN one[p] ELSE two[p - (L + 1)]
    BY <1>4, <1>7
  <2> HIDE DEF both, L
  <2>2. CASE p <= L + 1
    <3>1. p \in 1..(L + 1) /\ (p <= L \/ p = L + 1)
      BY <1>7, <2>2
    <3>2. one[p] = IF p <= L THEN buf[p] ELSE s
      BY <1>2, <3>1 DEF L
    <3> QED
      BY <1>7, <2>1, <2>2, <3>1, <3>2
  <2>3. CASE ~(p <= L + 1)
    <3>1. p - (L + 1) \in 1..n /\ ~(p <= L) /\ p # L + 1
      BY <1>7, <2>3
    <3>2. two[p - (L + 1)] = k
      BY <1>3, <3>1
    <3> QED
      BY <2>1, <2>3, <3>1, <3>2
  <2> QED
    BY <2>2, <2>3
<1> HIDE DEF both
<1> QED
  BY <1>5, <1>8, <1>9 DEF both, s

\* The text of key k ends at a column.
Behind(all, k, end) ==
    [j \in BarKey |-> IF j # k THEN all[j]
                      ELSE [text |-> all[j].text, keycode |-> all[j].keycode,
                            active |-> all[j].active, end_pos |-> end]]

LEMMA BarFields ==
  \A c \in BarType :
      /\ \A f : [c EXCEPT !.key = f] = [key |-> f, buf |-> c.buf, l |-> c.l, y |-> c.y]
      /\ \A b : [c EXCEPT !.buf = b] = [key |-> c.key, buf |-> b, l |-> c.l, y |-> c.y]
      /\ \A b, n : [c EXCEPT !.buf = b, !.l = n] = [key |-> c.key, buf |-> b, l |-> n, y |-> c.y]
<1>1. \A f, b, n, y : \A r \in [key : {f}, buf : {b}, l : {n}, y : {y}] :
          r = [key |-> f, buf |-> b, l |-> n, y |-> y]
  OBVIOUS
<1> SUFFICES ASSUME NEW c \in BarType, NEW f, NEW b, NEW n
             PROVE  /\ [c EXCEPT !.key = f] = [key |-> f, buf |-> c.buf, l |-> c.l, y |-> c.y]
                    /\ [c EXCEPT !.buf = b] = [key |-> c.key, buf |-> b, l |-> c.l, y |-> c.y]
                    /\ [c EXCEPT !.buf = b, !.l = n]
                          = [key |-> c.key, buf |-> b, l |-> n, y |-> c.y]
  OBVIOUS
<1>2. /\ [c EXCEPT !.key = f] \in [key : {f}, buf : {c.buf}, l : {c.l}, y : {c.y}]
      /\ [c EXCEPT !.buf = b] \in [key : {c.key}, buf : {b}, l : {c.l}, y : {c.y}]
      /\ [c EXCEPT !.buf = b, !.l = n] \in [key : {c.key}, buf : {b}, l : {n}, y : {c.y}]
  BY DEF BarType
<1> QED
  BY <1>1, <1>2, Zenon

\* compile_chyron begins with an empty text.
LEMMA EmptyBar ==
  ASSUME NEW c \in BarType
  PROVE  LET a == [c EXCEPT !.buf = <<>>, !.l = 0]
         IN  a \in BarType /\ a.key = c.key /\ a.buf = <<>> /\ a.l = 0 /\ a.y = c.y
<1>1. [c EXCEPT !.buf = <<>>, !.l = 0] = [key |-> c.key, buf |-> <<>>, l |-> 0, y |-> c.y]
  BY BarFields, Zenon
<1>2. [key |-> c.key, buf |-> <<>>, l |-> 0, y |-> c.y] \in BarType
  BY DEF BarType
<1> QED
  BY <1>1, <1>2

LEMMA AddKeyIs ==
  ASSUME NEW c \in BarType, NEW k \in BarKey
  PROVE  LET buf == Extended(c.buf, k, c.key[k].text)
             d == AddKey(c, k)
         IN  /\ d \in BarType
             /\ ~OnBar(c, k) => d = c
             /\ OnBar(c, k) => d = [key |-> Behind(c.key, k, Len(buf)),
                                    buf |-> buf, l |-> Len(buf), y |-> c.y]
<1> DEFINE buf == Extended(c.buf, k, c.key[k].text)
<1>1. k \in Int /\ c.buf \in Seq(Int) /\ c.key[k].text \in Nat
  BY BarNumbers DEF BarType, KeyType
<1>2. buf \in Seq(Int) /\ Len(buf) \in Nat
  BY <1>1, ExtendedIs
<1>3. AddKey(c, k) = IF ~OnBar(c, k) THEN c
                     ELSE [c EXCEPT !.buf = buf, !.l = Len(buf), !.key[k].end_pos = Len(buf)]
  BY DEF AddKey, Extended
<1> HIDE DEF buf
<1>4. [c EXCEPT !.buf = buf, !.l = Len(buf), !.key[k].end_pos = Len(buf)]
        = [key |-> Behind(c.key, k, Len(buf)),
           buf |-> buf, l |-> Len(buf), y |-> c.y]
  <2> DEFINE d == [c EXCEPT !.buf = buf, !.l = Len(buf)]
             n == Len(buf)
  <2>1. d = [key |-> c.key, buf |-> buf, l |-> n, y |-> c.y]
    BY BarFields
  <2>2. d \in BarType /\ d.key = c.key /\ d.buf = buf /\ d.l = n /\ d.y = c.y
    BY <1>2, <2>1 DEF BarType
  <2> HIDE DEF d, n
  <2>3. [d EXCEPT !.key[k].end_pos = n]
          = [key |-> Behind(d.key, k, n), buf |-> d.buf, l |-> d.l, y |-> d.y]
    <3>1. d.key \in [BarKey -> KeyType] /\ d.key[k] \in KeyType
      BY <2>2 DEF BarType
    <3> DEFINE r == [d.key[k] EXCEPT !.end_pos = n]
    <3>2. r = [text |-> d.key[k].text, keycode |-> d.key[k].keycode,
               active |-> d.key[k].active, end_pos |-> n]
      BY <3>1 DEF KeyType
    <3> DEFINE f == [d.key EXCEPT ![k] = r]
    <3> HIDE DEF r
    <3>3. f = Behind(d.key, k, n)
      BY <3>1, <3>2 DEF Behind
    <3> HIDE DEF f
    <3>4. [d EXCEPT !.key = f] = [key |-> f, buf |-> d.buf, l |-> d.l, y |-> d.y]
      BY <2>2, BarFields
    <3> QED
      BY <3>3, <3>4, Zenon DEF f, r
  <2> QED
    BY <2>2, <2>3, Zenon DEF d, n
<1>5. [key |-> Behind(c.key, k, Len(buf)),
       buf |-> buf, l |-> Len(buf), y |-> c.y] \in BarType
  BY <1>2 DEF BarType, KeyType, Behind
<1> QED
  BY <1>3, <1>4, <1>5 DEF buf

\* The bars on the way from an empty text to all keys.
BuildsUp(h, c) ==
    /\ h[0] = [c EXCEPT !.buf = <<>>, !.l = 0]
    /\ \A k \in 1..20 : h[k] = AddKey(h[k - 1], k - 1)

\* compile_chyron adds one key after the other.
LEMMA CompileSteps ==
  ASSUME NEW c \in BarType
  PROVE  \E h \in [0..20 -> BarType] :
             /\ BuildsUp(h, c)
             /\ compile_chyron(c) = [h[20] EXCEPT !.buf = Append(@, Space)]
<1> DEFINE n == 20
           b == [c EXCEPT !.buf = <<>>, !.l = 0]
           q == [i \in 1..20 |-> i - 1]
           G == [p \in BarType \X BarKey |-> AddKey(p[1], p[2])]
           E(g) == [s \in SUBSET DOMAIN q |->
                        IF s = {} THEN b ELSE AddKey(g[s \ {Max(s)}], q[Max(s)])]
           f == CHOOSE g : g = E(g)
<1>1. \A a \in BarType, k \in BarKey : AddKey(a, k) \in BarType
  BY AddKeyIs
<1>2. DOMAIN q = 1..n /\ n \in Nat /\ (\A j \in 1..n : q[j] \in BarKey /\ q[j] = j - 1)
      /\ q \in Seq(BarKey) /\ Len(q) = n
  BY BarNumbers
<1>3. b \in BarType
  BY EmptyBar
<1>4. G \in [BarType \X BarKey -> BarType] /\ \A a \in BarType, k \in BarKey : G[<<a, k>>] = AddKey(a, k)
  BY <1>1
<1> HIDE DEF G, q, n
<1>5. PICK g \in [SUBSET (1..n) -> BarType] : Folds(g, G, b, q, n)
  <2> HIDE DEF b
  <2> QED
    BY <1>2, <1>3, <1>4, FoldExists, Zenon
<1>6. g = E(g)
  <2>1. \A s \in SUBSET (1..n) :
            g[s] = IF s = {} THEN b ELSE AddKey(g[s \ {Max(s)}], q[Max(s)])
    <3> HIDE DEF b
    <3> SUFFICES ASSUME NEW s \in SUBSET (1..n), s # {}
                 PROVE  g[s] = AddKey(g[s \ {Max(s)}], q[Max(s)])
      BY <1>5 DEF Folds
    <3>1. s \ {Max(s)} \in SUBSET (1..n) /\ Max(s) \in 1..n
      BY <1>2, MaxIn
    <3>2. g[s] = G[<<g[s \ {Max(s)}], q[Max(s)]>>]
      BY <1>5 DEF Folds
    <3> QED
      BY <1>2, <1>4, <3>1, <3>2
  <2> HIDE DEF b
  <2> QED
    BY <1>2, <2>1
<1>7. f = E(f)
  <2> HIDE DEF E
  <2> QED
    BY <1>6, Zenon
<1> HIDE DEF f
<1>8. f[{}] = b /\ \A s \in SUBSET (1..n) : s # {} =>
          f[s] = AddKey(f[s \ {Max(s)}], q[Max(s)])
  <2> HIDE DEF b
  <2> QED
    BY <1>2, <1>7
<1>9. \A s \in SUBSET (1..n) : s # {} /\ f[s \ {Max(s)}] \in BarType => f[s] \in BarType
  <2> SUFFICES ASSUME NEW s \in SUBSET (1..n), s # {}, f[s \ {Max(s)}] \in BarType
               PROVE  f[s] \in BarType
    OBVIOUS
  <2>1. q[Max(s)] \in BarKey
    BY <1>2, MaxIn
  <2>2. f[s] = AddKey(f[s \ {Max(s)}], q[Max(s)])
    <3> HIDE DEF b
    <3> QED
      BY <1>8
  <2> QED
    BY <1>1, <2>1, <2>2
<1>10. \A s \in SUBSET (1..n) : f[s] \in BarType
  <2> HIDE DEF b
  <2> QED
    BY <1>2, <1>3, <1>8, <1>9, FoldType
<1>11. compile_chyron(c) = [f[DOMAIN q] EXCEPT !.buf = Append(@, Space)]
  BY DEF compile_chyron, FoldLeft, MapThenFoldSet, CHYRON_KEYS, f, E, q
<1> DEFINE h == [k \in 0..n |-> f[1..k]]
<1>12. h \in [0..n -> BarType]
  <2>1. \A k \in 0..n : 1..k \in SUBSET (1..n)
    BY <1>2
  <2> QED
    BY <1>10, <2>1
<1>13. h[0] = b /\ h[n] = f[DOMAIN q]
  <2>1. 0 \in 0..n /\ n \in 0..n /\ 1..0 = {}
    BY <1>2
  <2> HIDE DEF b
  <2> QED
    BY <1>2, <1>8, <2>1
<1>14. ASSUME NEW k \in 1..n
       PROVE  h[k] = AddKey(h[k - 1], k - 1)
  <2>1. /\ 1..k \in SUBSET (1..n) /\ 1..k # {} /\ Max(1..k) = k
        /\ (1..k) \ {Max(1..k)} = 1..(k - 1) /\ k - 1 \in 0..n /\ k \in 0..n
    <3>1. n \in Nat /\ k \in 0..n
      BY <1>2
    <3> QED
      BY <3>1, FoldPrefixes, Zenon
  <2>2. f[1..k] = AddKey(f[1..(k - 1)], q[k])
    <3>1. f[1..k] = AddKey(f[(1..k) \ {Max(1..k)}], q[Max(1..k)])
      BY <1>8, <2>1, Zenon
    <3> QED
      BY <2>1, <3>1, Zenon
  <2> QED
    BY <1>2, <2>1, <2>2
<1> HIDE DEF h, b
<1> QED
  BY <1>11, <1>12, <1>13, <1>14 DEF BuildsUp, n, b

-----------------------------------------------------------------------------
(* A bar c of which the keys in front of n were added. *)

\* The keys are those of c.
Kept(a, c) ==
    /\ a.y = c.y
    /\ \A k \in BarKey : /\ a.key[k].text = c.key[k].text
                         /\ a.key[k].keycode = c.key[k].keycode
                         /\ a.key[k].active = c.key[k].active

\* A column that shows a key: it is not behind the end of the text, and all keys in front
\* of it end in front of the separator.
TextAt(a, c, n, p) ==
    LET k == a.buf[p]
    IN  /\ k < n /\ OnBar(c, k)
        /\ p <= a.key[k].end_pos
        /\ \A j \in BarKey : j < k /\ OnBar(c, j) => a.key[j].end_pos + 2 <= p

\* A column with a bar is behind the text of a key.
BarAt(a, p) == p > 1 /\ a.buf[p - 1] \in BarKey /\ a.key[a.buf[p - 1]].end_pos = p - 1

EndsInside(a, c, n) ==
    \A k \in BarKey : k < n /\ OnBar(c, k) => a.key[k].end_pos \in 1..Len(a.buf)

LastIsKey(a) ==
    a.buf # <<>> => /\ a.buf[Len(a.buf)] \in BarKey
                    /\ a.key[a.buf[Len(a.buf)]].end_pos = Len(a.buf)

Built(a, c, n) ==
    /\ a \in BarType /\ Kept(a, c)
    /\ \A p \in 1..Len(a.buf) : /\ a.buf[p] \in BarKey => TextAt(a, c, n, p)
                                /\ a.buf[p] = Bar => BarAt(a, p)
    /\ EndsInside(a, c, n) /\ LastIsKey(a)
    /\ a.l = Len(a.buf)
    /\ a.buf = <<>> <=> \A k \in BarKey : k < n => ~OnBar(c, k)

LEMMA BuiltStart ==
  ASSUME NEW c \in BarType
  PROVE  Built([c EXCEPT !.buf = <<>>, !.l = 0], c, 0)
<1> DEFINE a == [c EXCEPT !.buf = <<>>, !.l = 0]
<1>1. a \in BarType /\ a.key = c.key /\ a.buf = <<>> /\ a.l = 0 /\ a.y = c.y
  BY EmptyBar
<1> HIDE DEF a
<1>2. Len(a.buf) = 0 /\ 1..0 = {}
  BY <1>1
<1>3. \A k \in BarKey : ~(k < 0)
  BY BarNumbers
<1>4. Built(a, c, 0)
  BY <1>1, <1>2, <1>3 DEF Built, Kept, EndsInside, LastIsKey
<1> QED
  BY <1>4 DEF a

LEMMA BuiltStep ==
  ASSUME NEW c \in BarType, NEW a, NEW n \in BarKey, Built(a, c, n)
  PROVE  Built(AddKey(a, n), c, n + 1)
<1> DEFINE d == AddKey(a, n)
           L == Len(a.buf)
           t == a.key[n].text
           buf == Extended(a.buf, n, t)
<1>1. a \in BarType /\ a.key \in [BarKey -> KeyType] /\ a.buf \in Seq(Int) /\ L \in Nat
      /\ t \in Nat /\ n \in Nat
  BY BarNumbers DEF Built, BarType, KeyType
<1>2. \A k \in BarKey : (OnBar(a, k) <=> OnBar(c, k)) /\ (OnBar(c, k) => a.key[k].text > 0)
  BY DEF Built, Kept, OnBar, is_set_chyron_key
<1>3. \A k \in BarKey : k \in Nat /\ (k < n + 1 <=> k < n \/ k = n)
  BY BarNumbers
<1>4. CASE ~OnBar(c, n)
  <2>1. d = a
    BY <1>1, <1>2, <1>4, AddKeyIs
  <2>2. \A p \in 1..L : a.buf[p] \in BarKey /\ TextAt(a, c, n, p) => TextAt(a, c, n + 1, p)
    BY <1>3 DEF TextAt
  <2>3. EndsInside(a, c, n + 1)
    BY <1>3, <1>4 DEF Built, EndsInside
  <2>4. (\A k \in BarKey : k < n => ~OnBar(c, k)) <=> \A k \in BarKey : k < n + 1 => ~OnBar(c, k)
    BY <1>3, <1>4
  <2>5. Built(a, c, n + 1)
    BY <2>2, <2>3, <2>4 DEF Built
  <2> QED
    BY <2>1, <2>5
<1>5. CASE OnBar(c, n)
  <2> DEFINE e == L + 1 + t
  <2>1. t > 0 /\ e \in Nat /\ e > L + 1
    BY <1>1, <1>2, <1>5
  <2>2. d = [key |-> Behind(a.key, n, Len(buf)), buf |-> buf, l |-> Len(buf), y |-> a.y]
        /\ d \in BarType
    BY <1>1, <1>2, <1>5, AddKeyIs
  <2>3. Len(buf) = e /\ \A p \in 1..e :
                buf[p] = IF p <= L THEN a.buf[p]
                         ELSE IF p = L + 1 THEN IF a.buf = <<>> THEN Space ELSE Bar
                                           ELSE n
    <3>1. n \in Int
      BY <1>1
    <3> DEFINE u == a.buf
    <3>2. u \in Seq(Int) /\ L = Len(u)
      BY <1>1
    <3> HIDE DEF t, u
    <3>3. /\ Len(Extended(u, n, t)) = Len(u) + 1 + t
          /\ \A p \in 1..(Len(u) + 1 + t) :
                Extended(u, n, t)[p] = IF p <= Len(u) THEN u[p]
                                       ELSE IF p = Len(u) + 1
                                            THEN IF u = <<>> THEN Space ELSE Bar
                                            ELSE n
      BY <1>1, <3>1, <3>2, ExtendedIs
    <3> QED
      BY <3>2, <3>3 DEF u
  <2> HIDE DEF buf, d
  <2>4. d.buf = buf /\ d.l = e /\ d.key = Behind(a.key, n, e) /\ Len(d.buf) = e /\ d.y = a.y
    BY <2>2, <2>3
  <2>5. \A k \in BarKey : /\ k # n => d.key[k] = a.key[k]
                          /\ d.key[n].end_pos = e
    BY <1>1, <2>4 DEF Behind
  <2>6. Kept(d, c)
    <3>1. \A k \in BarKey : /\ d.key[k].text = a.key[k].text
                            /\ d.key[k].keycode = a.key[k].keycode
                            /\ d.key[k].active = a.key[k].active
      BY <1>1, <2>4 DEF Behind
    <3> QED
      BY <2>4, <3>1 DEF Built, Kept
  <2>7. \A k \in BarKey : k < n /\ OnBar(c, k) =>
            a.key[k].end_pos \in 1..L /\ d.key[k].end_pos = a.key[k].end_pos
    BY <1>3, <2>5 DEF Built, EndsInside
  <2>8. EndsInside(d, c, n + 1)
    <3> SUFFICES ASSUME NEW k \in BarKey, k < n + 1, OnBar(c, k)
                 PROVE  d.key[k].end_pos \in 1..e
      BY <2>4 DEF EndsInside
    <3>1. CASE k = n
      BY <2>1, <2>5, <3>1
    <3>2. CASE k < n
      BY <1>1, <2>1, <2>7, <3>2
    <3> QED
      BY <1>3, <3>1, <3>2
  <2>9. LastIsKey(d)
    <3>1. e \in 1..e /\ ~(e <= L) /\ e # L + 1
      BY <1>1, <2>1
    <3>2. d.buf[e] = n
      BY <2>3, <2>4, <3>1
    <3> QED
      BY <2>4, <2>5, <3>2 DEF LastIsKey
  <2>10. ~(d.buf = <<>>) /\ ~(\A k \in BarKey : k < n + 1 => ~OnBar(c, k))
    <3>1. n < n + 1 /\ Len(<<>>) = 0
      BY <1>1
    <3> QED
      BY <1>5, <2>1, <2>4, <3>1
  <2>11. ASSUME NEW p \in 1..e, d.buf[p] \in BarKey
         PROVE  TextAt(d, c, n + 1, p)
    <3>1. CASE p <= L
      <4>1. p \in 1..L /\ d.buf[p] = a.buf[p]
        BY <1>1, <2>3, <2>4, <3>1
      <4>2. TextAt(a, c, n, p)
        BY <2>11, <4>1 DEF Built
      <4> DEFINE k == a.buf[p]
      <4>3. k \in BarKey /\ k < n /\ k # n /\ OnBar(c, k) /\ p <= a.key[k].end_pos
        BY <1>3, <2>11, <4>1, <4>2 DEF TextAt
      <4>4. \A j \in BarKey : j < k /\ OnBar(c, j) => a.key[j].end_pos + 2 <= p
        BY <4>2 DEF TextAt
      <4> HIDE DEF k
      <4>5. \A j \in BarKey : j < k => j < n
        BY <1>3, <4>3
      <4>6. \A j \in BarKey : j < k /\ OnBar(c, j) => d.key[j].end_pos + 2 <= p
        BY <2>7, <4>4, <4>5
      <4>7. k < n + 1 /\ p <= d.key[k].end_pos
        BY <1>3, <2>5, <4>3
      <4>8. d.buf[p] = k
        BY <4>1 DEF k
      <4> QED
        BY <4>3, <4>6, <4>7, <4>8 DEF TextAt
    <3>2. CASE p > L + 1
      <4>1. d.buf[p] = n
        <5>1. ~(p <= L) /\ p # L + 1
          BY <1>1, <3>2
        <5> QED
          BY <2>3, <2>4, <5>1
      <4>2. \A j \in BarKey : j < n /\ OnBar(c, j) => d.key[j].end_pos + 2 <= p
        <5> SUFFICES ASSUME NEW j \in BarKey, j < n, OnBar(c, j)
                     PROVE  d.key[j].end_pos + 2 <= p
          OBVIOUS
        <5>1. d.key[j].end_pos \in 1..L
          BY <2>7
        <5> HIDE DEF L
        <5>2. \A i \in 1..L : i + 2 <= p
          BY <1>1, <3>2
        <5> QED
          BY <5>1, <5>2
      <4>3. n < n + 1 /\ p <= d.key[n].end_pos
        BY <1>1, <2>5
      <4> QED
        BY <1>5, <4>1, <4>2, <4>3 DEF TextAt
    <3>3. p # L + 1
      <4> SUFFICES ASSUME p = L + 1 PROVE FALSE
        OBVIOUS
      <4>1. d.buf[p] \in {Space, Bar}
        BY <1>1, <2>3, <2>4
      <4> QED
        BY <2>11, <4>1, BarNumbers
    <3> QED
      BY <1>1, <3>1, <3>2, <3>3
  <2>12. ASSUME NEW p \in 1..e, d.buf[p] = Bar
         PROVE  BarAt(d, p)
    <3>1. PICK q \in 1..L : q = p - 1 /\ a.buf[q] \in BarKey /\ a.key[a.buf[q]].end_pos = q
      <4>1. CASE p <= L
        <5>1. p \in 1..L /\ a.buf[p] = Bar
          BY <1>1, <2>3, <2>4, <2>12, <4>1
        <5>2. BarAt(a, p)
          BY <5>1 DEF Built
        <5>3. p - 1 \in 1..L
          BY <1>1, <5>1, <5>2 DEF BarAt
        <5> QED
          BY <5>2, <5>3 DEF BarAt
      <4>2. CASE p = L + 1
        <5>1. a.buf # <<>>
          <6>1. p \in 1..e /\ ~(p <= L)
            BY <1>1, <4>2
          <6>2. d.buf[p] = IF a.buf = <<>> THEN Space ELSE Bar
            <7> HIDE DEF e, L
            <7> QED
              BY <2>3, <2>4, <4>2, <6>1
          <6> QED
            BY <2>12, <6>2, BarNumbers
        <5>2. L \in 1..L /\ L = p - 1
          BY <1>1, <4>2, <5>1
        <5> QED
          BY <5>1, <5>2 DEF Built, LastIsKey
      <4>3. CASE p > L + 1
        <5>1. d.buf[p] = n
          <6>1. ~(p <= L) /\ p # L + 1
            BY <1>1, <4>3
          <6> QED
            BY <2>3, <2>4, <6>1
        <5> QED
          BY <2>12, <5>1, BarNumbers
      <4>4. p <= L \/ p = L + 1 \/ p > L + 1
        <5>1. \A u, v \in Nat : u <= v \/ u = v + 1 \/ u > v + 1
          OBVIOUS
        <5>2. p \in Nat
          BY <2>1
        <5> QED
          BY <1>1, <5>1, <5>2, Zenon
      <4> QED
        BY <4>1, <4>2, <4>3, <4>4, Zenon
    <3>2. q \in 1..e /\ q <= L /\ p > 1
      BY <1>1, <2>1, <3>1
    <3>3. d.buf[q] = a.buf[q]
      BY <2>3, <2>4, <3>2
    <3>4. TextAt(a, c, n, q)
      BY <3>1 DEF Built
    <3>5. a.buf[q] # n
      BY <1>3, <3>1, <3>4 DEF TextAt
    <3> QED
      BY <2>5, <3>1, <3>2, <3>3, <3>5 DEF BarAt
  <2>13. Built(d, c, n + 1)
    BY <2>2, <2>4, <2>6, <2>8, <2>9, <2>10, <2>11, <2>12 DEF Built
  <2> QED
    BY <2>13 DEF d
<1> QED
  BY <1>4, <1>5

LEMMA BuiltAll ==
  ASSUME NEW c \in BarType, NEW h \in [0..20 -> BarType], BuildsUp(h, c)
  PROVE  \A k \in 0..20 : Built(h[k], c, k)
<1> DEFINE T == {k \in 0..20 : ~Built(h[k], c, k)}
<1> SUFFICES ASSUME T # {} PROVE FALSE
  OBVIOUS
<1>1. PICK k \in T : \A j \in T : k <= j
  <2>1. T \in SUBSET Nat
    OBVIOUS
  <2> HIDE DEF T
  <2> QED
    BY <2>1, NatMin
<1>2. k \in 0..20 /\ ~Built(h[k], c, k)
  OBVIOUS
<1>3. k # 0
  BY <1>2, BuiltStart DEF BuildsUp
<1>4. k \in 1..20 /\ k - 1 \in 0..20 /\ k - 1 \in BarKey /\ ~(k <= k - 1) /\ (k - 1) + 1 = k
  BY <1>2, <1>3, BarNumbers
<1>5. Built(h[k - 1], c, k - 1)
  <2>1. k - 1 \notin T
    BY <1>1, <1>4
  <2> QED
    BY <1>4, <2>1
<1>6. Built(AddKey(h[k - 1], k - 1), c, (k - 1) + 1)
  BY <1>4, <1>5, BuiltStep, Zenon
<1> QED
  <2>1. h[k] = AddKey(h[k - 1], k - 1)
    BY <1>4 DEF BuildsUp
  <2> QED
    BY <1>2, <1>4, <1>6, <2>1

\* The end of a key's text stays where it was when it was added.
LEMMA EndStays ==
  ASSUME NEW c \in BarType, NEW h \in [0..20 -> BarType], BuildsUp(h, c),
         NEW n \in BarKey, OnBar(c, n)
  PROVE  h[20].key[n].end_pos = Len(h[n + 1].buf)
<1> DEFINE T == {m \in 0..20 : m > n /\ h[m].key[n].end_pos # Len(h[n + 1].buf)}
<1> HIDE DEF T
<1>1. n \in Nat /\ n + 1 \in 1..20 /\ n \in 0..20 /\ (n + 1) - 1 = n /\ 20 > n
  BY BarNumbers
<1>2. \A k \in 0..20 : Built(h[k], c, k)
  BY BuiltAll
<1>3. \A k \in 0..20 : h[k] \in BarType /\ OnBar(h[k], n)
  BY <1>2 DEF Built, Kept, OnBar, is_set_chyron_key
<1>4. T = {}
  <2> SUFFICES ASSUME T # {} PROVE FALSE
    OBVIOUS
  <2>1. PICK m \in T : \A j \in T : m <= j
    <3>1. T \in SUBSET Nat
      <4>1. T \subseteq 0..20
        BY Zenon DEF T
      <4>2. 0..20 \subseteq Nat
        OBVIOUS
      <4> QED
        BY <4>1, <4>2
    <3> QED
      BY <3>1, NatMin
  <2>2. m \in 0..20 /\ m > n /\ h[m].key[n].end_pos # Len(h[n + 1].buf)
    BY DEF T
  <2>3. m \in 1..20 /\ m - 1 \in 0..20 /\ m - 1 \in BarKey /\ ~(m <= m - 1)
        /\ (m - 1 = n \/ m - 1 > n)
    <3>1. \A i \in 0..20, j \in Nat : i > j =>
              i \in 1..20 /\ i - 1 \in 0..20 /\ i - 1 \in 0..19 /\ ~(i <= i - 1)
              /\ (i - 1 = j \/ i - 1 > j)
      OBVIOUS
    <3> QED
      BY <1>1, <2>2, <3>1, BarNumbers, Zenon
  <2> DEFINE a == h[m - 1]
             k == m - 1
             buf == Extended(a.buf, k, a.key[k].text)
  <2>4. h[m] = AddKey(a, k) /\ a \in BarType /\ k \in BarKey
    BY <1>3, <2>3 DEF BuildsUp
  <2>5. /\ ~OnBar(a, k) => h[m] = a
        /\ OnBar(a, k) => h[m] = [key |-> Behind(a.key, k, Len(buf)),
                                  buf |-> buf, l |-> Len(buf), y |-> a.y]
    <3> HIDE DEF a, k
    <3> QED
      BY <2>4, AddKeyIs
  <2>6. CASE k = n
    <3>1. OnBar(a, k) /\ m = n + 1
      <4>1. OnBar(a, n)
        BY <1>3, <2>3
      <4>2. \A i \in 1..20, u \in Nat : i - 1 = u => i = u + 1
        OBVIOUS
      <4>3. m = n + 1
        BY <1>1, <2>3, <2>6, <4>2, Zenon
      <4> HIDE DEF a, k
      <4> QED
        BY <2>6, <4>1, <4>3
    <3>2. h[m].key = Behind(a.key, k, Len(buf)) /\ h[m].buf = buf
      <4> HIDE DEF a, k, buf
      <4>1. h[m] = [key |-> Behind(a.key, k, Len(buf)),
                    buf |-> buf, l |-> Len(buf), y |-> a.y]
        BY <2>5, <3>1, Zenon
      <4> QED
        BY <4>1
    <3>3. h[m].key[n].end_pos = Len(buf)
      <4> HIDE DEF a, k, buf
      <4> QED
        BY <2>6, <3>2 DEF Behind
    <3> QED
      BY <2>2, <3>1, <3>2, <3>3
  <2>7. CASE k > n
    <3>1. h[m].key[n].end_pos = a.key[n].end_pos
      <4>1. k # n
        BY <1>1, <2>7
      <4> HIDE DEF a, k, buf
      <4>2. CASE OnBar(a, k)
        BY <2>5, <4>1, <4>2 DEF Behind
      <4> QED
        BY <2>5, <4>2
    <3>2. k \in 0..20 /\ k \notin T
      BY <2>1, <2>3
    <3>3. h[k].key[n].end_pos = Len(h[n + 1].buf)
      <4> HIDE DEF k
      <4> QED
        BY <2>7, <3>2 DEF T
    <3> QED
      BY <2>2, <3>1, <3>3
  <2> QED
    BY <2>3, <2>6, <2>7
<1>5. 20 \in 0..20 /\ 20 \notin T
  BY <1>4
<1> QED
  BY <1>1, <1>5 DEF T

\* What a compiled bar is: all keys were added, and a blank.
Finished(c, a) ==
    /\ c \in BarType /\ c.key = a.key /\ c.l = a.l /\ c.y = a.y
    /\ c.buf = Append(a.buf, Space)

LEMMA CompiledIs ==
  ASSUME NEW b \in BarType
  PROVE  \E a : Built(a, b, 20) /\ Finished(compile_chyron(b), a)
<1>1. PICK h \in [0..20 -> BarType] :
          /\ BuildsUp(h, b)
          /\ compile_chyron(b) = [h[20] EXCEPT !.buf = Append(@, Space)]
  BY CompileSteps
<1> DEFINE a == h[20]
           c == compile_chyron(b)
<1>2. Built(a, b, 20) /\ a \in BarType
  <2>1. \A k \in 0..20 : Built(h[k], b, k)
    BY <1>1, BuiltAll, Zenon
  <2>2. 20 \in 0..20
    OBVIOUS
  <2> QED
    BY <2>1, <2>2
<1>3. c = [a EXCEPT !.buf = Append(a.buf, Space)]
  BY <1>1
<1> HIDE DEF a, c
<1>4. Finished(c, a)
  <2> DEFINE buf == Append(a.buf, Space)
  <2>1. buf \in Seq(Int)
    BY <1>2, BarNumbers DEF BarType
  <2> HIDE DEF buf
  <2>2. c = [key |-> a.key, buf |-> buf, l |-> a.l, y |-> a.y]
    BY <1>2, <1>3, BarFields DEF buf
  <2>3. c \in BarType /\ c.key = a.key /\ c.l = a.l /\ c.y = a.y /\ c.buf = buf
    BY <1>2, <2>1, <2>2 DEF BarType
  <2> QED
    BY <2>3 DEF Finished, buf
<1> QED
  BY <1>2, <1>4 DEF c

\* The least element of a set of keys.
LEMMA FirstHit ==
  ASSUME NEW S \in SUBSET BarKey, NEW k \in S, \A j \in BarKey : j < k => j \notin S
  PROVE  Min(S) = k
<1>1. \A j \in S : k <= j
  BY BarNumbers
<1>2. \A x \in S : (\A y \in S : x <= y) => x = k
  BY <1>1, BarNumbers
<1> QED
  BY <1>1, <1>2 DEF Min

\* Where a bar that is finished shows what.
LEMMA FinishedColumns ==
  ASSUME NEW b \in BarType, NEW a, NEW c, Built(a, b, 20), Finished(c, a)
  PROVE  /\ a \in BarType /\ c \in BarType /\ Len(a.buf) \in Nat
         /\ Len(c.buf) = Len(a.buf) + 1
         /\ \A p \in 1..Len(a.buf) : c.buf[p] = a.buf[p]
         /\ c.buf[Len(a.buf) + 1] = Space
         /\ \A k \in BarKey : (OnBar(c, k) <=> OnBar(b, k)) /\ k < 20
<1>1. a \in BarType /\ c \in BarType /\ a.buf \in Seq(Int) /\ c.buf = Append(a.buf, Space)
  BY DEF Built, Finished, BarType
<1>2. \A s \in Seq(Int) : /\ Len(s) \in Nat /\ Len(Append(s, Space)) = Len(s) + 1
                          /\ \A p \in 1..Len(s) : Append(s, Space)[p] = s[p]
                          /\ Append(s, Space)[Len(s) + 1] = Space
  <2> DEFINE z == Space
  <2>1. z \in Int
    BY BarNumbers
  <2> HIDE DEF z
  <2>2. \A s \in Seq(Int) : /\ Len(s) \in Nat /\ Len(Append(s, z)) = Len(s) + 1
                            /\ \A p \in 1..Len(s) : Append(s, z)[p] = s[p]
                            /\ Append(s, z)[Len(s) + 1] = z
    BY <2>1
  <2> QED
    BY <2>2 DEF z
<1>3. \A k \in BarKey : (OnBar(c, k) <=> OnBar(b, k)) /\ k < 20
  <2>1. \A k \in BarKey : c.key[k].active = b.key[k].active /\ c.key[k].text = b.key[k].text
    BY DEF Built, Kept, Finished
  <2> QED
    BY <2>1, BarNumbers DEF OnBar, is_set_chyron_key
<1> QED
  BY <1>1, <1>2, <1>3

\* The key a click finds: the only one that ends behind it and has none of this kind in front.
LEMMA ClickHits ==
  ASSUME NEW c \in BarType, NEW x \in Nat, NEW k \in BarKey, OnBar(c, k),
         c.key[k].end_pos >= x,
         \A j \in BarKey : j < k /\ OnBar(c, j) => c.key[j].end_pos < x
  PROVE  /\ k # 19 => get_chyron_key(c, x) = c.key[k].keycode
         /\ k = 19 => get_chyron_key(c, x) = Missing
<1> DEFINE hit == {j \in BarKey \ {CHYRON_KEYS - 1} : OnBar(c, j) /\ c.key[j].end_pos >= x}
<1>1. \A j \in BarKey : j \in Nat /\ j <= 19 /\ c.key[j].end_pos \in Nat
  <2>1. \A j \in BarKey : c.key[j] \in KeyType
    BY DEF BarType
  <2> QED
    BY <2>1, BarNumbers DEF KeyType
<1>2. CHYRON_KEYS - 1 = 19
  BY DEF CHYRON_KEYS
<1>3. \A j \in BarKey : j < k => j \notin hit
  BY <1>1
<1>4. get_chyron_key(c, x) = IF hit = {} THEN Missing ELSE c.key[Min(hit)].keycode
  BY DEF get_chyron_key
<1>5. ASSUME k # 19 PROVE get_chyron_key(c, x) = c.key[k].keycode
  <2>1. k \in hit /\ hit \in SUBSET BarKey
    BY <1>2, <1>5
  <2> HIDE DEF hit
  <2>2. Min(hit) = k
    BY <1>3, <2>1, FirstHit
  <2> QED
    BY <1>4, <2>1, <2>2
<1>6. ASSUME k = 19 PROVE get_chyron_key(c, x) = Missing
  <2>1. hit = {}
    <3>1. \A j \in BarKey : j < k \/ j = 19
      BY <1>1, <1>6
    <3> QED
      BY <1>2, <1>3, <3>1
  <2> QED
    BY <1>4, <2>1
<1> QED
  BY <1>5, <1>6

\* A click on the text of a key of a compiled bar answers with that key, whatever keys a
\* program has set, unset and hidden before compile_chyron; one on the bar behind it too;
\* only the last key of the table is never found (dwin.c, get_chyron_key).
THEOREM ClicksCorrect == \A b \in BarType : ClicksRight(compile_chyron(b))
<1> SUFFICES ASSUME NEW b \in BarType PROVE ClicksRight(compile_chyron(b))
  OBVIOUS
<1> DEFINE c == compile_chyron(b)
<1>1. PICK a : Built(a, b, 20) /\ Finished(c, a)
  BY CompiledIs
<1> HIDE DEF c
<1>2. /\ a \in BarType /\ c \in BarType /\ Len(a.buf) \in Nat
      /\ Len(c.buf) = Len(a.buf) + 1
      /\ \A p \in 1..Len(a.buf) : c.buf[p] = a.buf[p]
      /\ c.buf[Len(a.buf) + 1] = Space
      /\ \A k \in BarKey : (OnBar(c, k) <=> OnBar(b, k)) /\ k < 20
  BY <1>1, FinishedColumns
<1>3. \A k \in BarKey : c.key[k] = a.key[k] /\ a.key[k].end_pos \in Nat
  BY <1>1, <1>2 DEF Finished, BarType, KeyType
<1>4. ASSUME NEW p \in 1..Len(a.buf), NEW k \in BarKey, k = a.buf[p], NEW x \in Nat,
             x = p - 1 \/ (x = p /\ c.key[k].end_pos = p)
      PROVE  /\ k # 19 => get_chyron_key(c, x) = c.key[k].keycode
             /\ k = 19 => get_chyron_key(c, x) = Missing
  <2>1. TextAt(a, b, 20, p)
    BY <1>1, <1>4 DEF Built
  <2>2. /\ OnBar(c, k) /\ p <= a.key[k].end_pos
        /\ \A j \in BarKey : j < k /\ OnBar(b, j) => a.key[j].end_pos + 2 <= p
    BY <1>2, <1>4, <2>1 DEF TextAt
  <2>3. c.key[k].end_pos >= x
    BY <1>3, <1>4, <2>2
  <2>4. \A j \in BarKey : j < k /\ OnBar(c, j) => c.key[j].end_pos < x
    <3> SUFFICES ASSUME NEW j \in BarKey, j < k, OnBar(c, j) PROVE c.key[j].end_pos < x
      OBVIOUS
    <3>1. c.key[j].end_pos \in Nat /\ c.key[j].end_pos + 2 <= p
      BY <1>2, <1>3, <2>2
    <3>2. x \in Nat /\ x >= p - 1 /\ p \in Nat
      BY <1>4, <1>2
    <3> DEFINE e == c.key[j].end_pos
    <3> HIDE DEF e
    <3>3. \A u, v, w \in Nat : u + 2 <= v /\ w >= v - 1 => u < w
      OBVIOUS
    <3> QED
      BY <3>1, <3>2, <3>3, Zenon
  <2> QED
    BY <1>2, <2>2, <2>3, <2>4, ClickHits
<1>5. SUFFICES ASSUME NEW x \in 0..(Len(c.buf) - 1)
               PROVE  LET there == c.buf[x + 1]
                      IN  /\ there \in BarKey \ {CHYRON_KEYS - 1} =>
                                 get_chyron_key(c, x) = c.key[there].keycode
                          /\ there = CHYRON_KEYS - 1 => get_chyron_key(c, x) = Missing
                          /\ there = Bar /\ c.buf[x] # CHYRON_KEYS - 1 =>
                                 get_chyron_key(c, x) = c.key[c.buf[x]].keycode
  BY DEF ClicksRight, c
<1> DEFINE there == c.buf[x + 1]
<1>6. CHYRON_KEYS - 1 = 19 /\ 19 \in BarKey
  BY BarNumbers DEF CHYRON_KEYS
<1>7. x \in Nat /\ x + 1 \in 1..(Len(a.buf) + 1) /\ (x + 1) - 1 = x
  BY <1>2
<1>8. CASE there \in BarKey
  <2>1. x + 1 \in 1..Len(a.buf) /\ there = a.buf[x + 1]
    <3>1. x + 1 # Len(a.buf) + 1
      BY <1>2, <1>8, BarNumbers
    <3>2. \A n \in Nat : \A i \in 1..(n + 1) : i # n + 1 => i \in 1..n
      OBVIOUS
    <3>3. x + 1 \in 1..Len(a.buf)
      BY <1>2, <1>7, <3>1, <3>2, Zenon
    <3> QED
      BY <1>2, <3>3
  <2>2. /\ there # 19 => get_chyron_key(c, x) = c.key[there].keycode
        /\ there = 19 => get_chyron_key(c, x) = Missing
    <3> HIDE DEF there
    <3> DEFINE p == x + 1
    <3>1. p \in 1..Len(a.buf) /\ there = a.buf[p] /\ x = p - 1
      BY <1>7, <2>1
    <3>2. x \in Nat
      BY <1>7
    <3> HIDE DEF p
    <3> QED
      BY <1>4, <1>8, <3>1, <3>2, Zenon
  <2>3. there # Bar
    BY <1>8, BarNumbers
  <2> QED
    BY <1>6, <2>2, <2>3
<1>9. CASE there = Bar
  <2>1. x + 1 \in 1..Len(a.buf) /\ a.buf[x + 1] = Bar
    <3>1. x + 1 # Len(a.buf) + 1
      BY <1>2, <1>9, BarNumbers
    <3>2. \A n \in Nat : \A i \in 1..(n + 1) : i # n + 1 => i \in 1..n
      OBVIOUS
    <3>3. x + 1 \in 1..Len(a.buf)
      BY <1>2, <1>7, <3>1, <3>2, Zenon
    <3> QED
      BY <1>2, <1>9, <3>3
  <2>2. BarAt(a, x + 1)
    BY <1>1, <2>1 DEF Built
  <2>3. x > 0 /\ a.buf[x] \in BarKey /\ a.key[a.buf[x]].end_pos = x
    BY <1>7, <2>2 DEF BarAt
  <2>4. x \in 1..Len(a.buf) /\ c.buf[x] = a.buf[x]
    BY <1>2, <1>7, <2>1, <2>3
  <2> DEFINE k == a.buf[x]
  <2>5. k \in BarKey /\ c.key[k].end_pos = x
    BY <1>3, <2>3
  <2>6. k # 19 => get_chyron_key(c, x) = c.key[k].keycode
    <3> HIDE DEF k
    <3>1. k = a.buf[x]
      BY DEF k
    <3> QED
      BY <1>4, <1>7, <2>4, <2>5, <3>1
  <2>7. there \notin BarKey
    BY <1>9, BarNumbers
  <2> QED
    BY <1>6, <2>4, <2>6, <2>7
<1> QED
  BY <1>6, <1>8, <1>9

\* Adding the keys to a bar that is finished goes through the same texts.
LEMMA AgainStep ==
  ASSUME NEW b \in BarType, NEW A \in BarType, NEW a \in BarType, NEW n \in BarKey,
         Kept(A, b), Kept(a, b),
         OnBar(b, n) => A.key[n].end_pos = Len(AddKey(a, n).buf)
  PROVE  AddKey([key |-> A.key, buf |-> a.buf, l |-> a.l, y |-> a.y], n)
           = [key |-> A.key, buf |-> AddKey(a, n).buf, l |-> AddKey(a, n).l,
              y |-> AddKey(a, n).y]
<1> DEFINE g == [key |-> A.key, buf |-> a.buf, l |-> a.l, y |-> a.y]
           d == AddKey(a, n)
           buf == Extended(a.buf, n, a.key[n].text)
<1>1. g \in BarType /\ g.key = A.key /\ g.buf = a.buf /\ g.l = a.l /\ g.y = a.y
  BY DEF BarType
<1>2. A.key[n].text = a.key[n].text /\ (OnBar(g, n) <=> OnBar(b, n)) /\ (OnBar(a, n) <=> OnBar(b, n))
  BY <1>1 DEF Kept, OnBar, is_set_chyron_key
<1>3. /\ ~OnBar(a, n) => d = a
      /\ OnBar(a, n) => d = [key |-> Behind(a.key, n, Len(buf)),
                             buf |-> buf, l |-> Len(buf), y |-> a.y]
  BY AddKeyIs
<1>4. /\ ~OnBar(g, n) => AddKey(g, n) = g
      /\ OnBar(g, n) => AddKey(g, n) = [key |-> Behind(A.key, n, Len(buf)),
                                        buf |-> buf, l |-> Len(buf), y |-> a.y]
  <2>1. Extended(g.buf, n, g.key[n].text) = buf
    BY <1>1, <1>2
  <2> HIDE DEF g, buf
  <2> QED
    BY <1>1, <2>1, AddKeyIs
<1>5. CASE ~OnBar(b, n)
  BY <1>2, <1>3, <1>4, <1>5
<1>6. CASE OnBar(b, n)
  <2>1. d.buf = buf /\ d.l = Len(buf) /\ d.y = a.y
    <3> HIDE DEF d, buf
    <3> QED
      BY <1>2, <1>3, <1>6
  <2>2. A.key[n].end_pos = Len(buf)
    BY <1>6, <2>1
  <2>3. Behind(A.key, n, Len(buf)) = A.key
    <3> DEFINE e == Len(buf)
               all == A.key
    <3>1. all \in [BarKey -> KeyType] /\ all[n].end_pos = e
      BY <2>2 DEF BarType
    <3> HIDE DEF e, all
    <3>2. [text |-> all[n].text, keycode |-> all[n].keycode,
           active |-> all[n].active, end_pos |-> e] = all[n]
      <4>1. all[n] \in KeyType
        BY <3>1
      <4> QED
        BY <3>1, <4>1 DEF KeyType
    <3>3. Behind(all, n, e) = all
      BY <3>1, <3>2 DEF Behind
    <3> QED
      BY <3>3 DEF e, all
  <2> HIDE DEF g, d, buf
  <2>4. AddKey(g, n) = [key |-> A.key, buf |-> d.buf, l |-> d.l, y |-> d.y]
    BY <1>2, <1>4, <1>6, <2>1, <2>3
  <2> QED
    BY <2>4 DEF g, d
<1> QED
  BY <1>5, <1>6

LEMMA CompiledAgain ==
  ASSUME NEW b \in BarType
  PROVE  compile_chyron(compile_chyron(b)) = compile_chyron(b)
<1> DEFINE c == compile_chyron(b)
<1>1. PICK h \in [0..20 -> BarType] :
          /\ BuildsUp(h, b)
          /\ c = [h[20] EXCEPT !.buf = Append(@, Space)]
  BY CompileSteps
<1> HIDE DEF c
<1> DEFINE A == h[20]
           Same(a) == [key |-> A.key, buf |-> a.buf, l |-> a.l, y |-> a.y]
<1>2. \A k \in 0..20 : Built(h[k], b, k)
  BY <1>1, BuiltAll, Zenon
<1>3. A \in BarType /\ Kept(A, b)
  <2>1. 20 \in 0..20
    OBVIOUS
  <2> QED
    BY <1>2, <2>1 DEF Built
<1>4. c \in BarType /\ c.key = A.key /\ c.y = A.y /\ c.buf = Append(A.buf, Space)
      /\ c = [key |-> A.key, buf |-> Append(A.buf, Space), l |-> A.l, y |-> A.y]
  <2> HIDE DEF A
  <2>1. c = [A EXCEPT !.buf = Append(A.buf, Space)]
    BY <1>1 DEF A
  <2>2. c = [key |-> A.key, buf |-> Append(A.buf, Space), l |-> A.l, y |-> A.y]
    BY <1>3, <2>1, BarFields
  <2>3. Append(A.buf, Space) \in Seq(Int)
    BY <1>3, BarNumbers DEF BarType
  <2> QED
    BY <1>3, <2>2, <2>3 DEF BarType
<1>5. PICK g \in [0..20 -> BarType] :
          /\ BuildsUp(g, c)
          /\ compile_chyron(c) = [g[20] EXCEPT !.buf = Append(@, Space)]
  BY <1>4, CompileSteps
<1> DEFINE T == {k \in 0..20 : g[k] # Same(h[k])}
<1>6. T = {}
  <2> SUFFICES ASSUME T # {} PROVE FALSE
    OBVIOUS
  <2>1. PICK k \in T : \A j \in T : k <= j
    <3>1. T \in SUBSET Nat
      OBVIOUS
    <3> HIDE DEF T
    <3> QED
      BY <3>1, NatMin
  <2>2. k \in 0..20 /\ g[k] # Same(h[k])
    OBVIOUS
  <2>3. k # 0
    <3>1. g[0] = [key |-> A.key, buf |-> <<>>, l |-> 0, y |-> A.y]
      BY <1>4, <1>5, BarFields DEF BuildsUp
    <3>2. h[0].buf = <<>> /\ h[0].l = 0 /\ h[0].y = b.y
      BY <1>1, EmptyBar DEF BuildsUp
    <3>3. A.y = b.y
      BY <1>3 DEF Kept
    <3>4. g[0] = Same(h[0])
      <4> HIDE DEF A
      <4> QED
        BY <3>1, <3>2, <3>3
    <3> QED
      BY <2>2, <3>4
  <2> DEFINE n == k - 1
             a == h[k - 1]
  <2>4. k \in 1..20 /\ n \in 0..20 /\ n \in BarKey /\ ~(k <= n) /\ n + 1 = k
    BY <2>2, <2>3, BarNumbers
  <2>5. a \in BarType /\ Kept(a, b)
    <3>1. Built(h[n], b, n)
      BY <1>2, <2>4
    <3> QED
      BY <3>1 DEF Built
  <2>6. g[n] = Same(a)
    <3>1. n \notin T
      BY <2>1, <2>4
    <3> QED
      BY <2>4, <3>1
  <2>7. h[k] = AddKey(a, n) /\ g[k] = AddKey(g[n], n)
    BY <1>1, <1>5, <2>4 DEF BuildsUp
  <2>8. OnBar(b, n) => A.key[n].end_pos = Len(AddKey(a, n).buf)
    <3> SUFFICES ASSUME OnBar(b, n) PROVE A.key[n].end_pos = Len(AddKey(a, n).buf)
      OBVIOUS
    <3> HIDE DEF n, a, A
    <3>1. h[20].key[n].end_pos = Len(h[n + 1].buf)
      BY <1>1, <2>4, EndStays
    <3> QED
      BY <2>4, <2>7, <3>1 DEF A
  <2>9. AddKey(Same(a), n) = Same(AddKey(a, n))
    <3> HIDE DEF n, a, A
    <3> QED
      BY <1>3, <2>4, <2>5, <2>8, AgainStep
  <2>10. g[k] = Same(h[k])
    <3> HIDE DEF n, a, Same, T
    <3> QED
      BY <2>6, <2>7, <2>9, Zenon
  <2> QED
    BY <2>2, <2>10
<1>7. g[20] = A
  <2>1. 20 \in 0..20 /\ 20 \notin T
    <3> HIDE DEF T
    <3> QED
      BY <1>6
  <2>2. g[20] = [key |-> A.key, buf |-> A.buf, l |-> A.l, y |-> A.y]
    BY <2>1
  <2> HIDE DEF A
  <2>3. [key |-> A.key, buf |-> A.buf, l |-> A.l, y |-> A.y] = A
    BY <1>3 DEF BarType
  <2> QED
    BY <2>2, <2>3
<1>8. compile_chyron(c) = c
  BY <1>1, <1>5, <1>7
<1> QED
  BY <1>8 DEF c

\* The text of a compiled bar has its keys in the order of the table, and the length without
\* the blank at its end; compiling the bar again changes
\* nothing (dwin.c, compile_chyron).
THEOREM TextCorrect == \A b \in BarType : TextRight(compile_chyron(b))
<1> SUFFICES ASSUME NEW b \in BarType PROVE TextRight(compile_chyron(b))
  OBVIOUS
<1> DEFINE c == compile_chyron(b)
<1>1. PICK a : Built(a, b, 20) /\ Finished(c, a)
  BY CompiledIs
<1>2. compile_chyron(c) = c
  BY CompiledAgain
<1> HIDE DEF c
<1>3. /\ a \in BarType /\ c \in BarType /\ Len(a.buf) \in Nat
      /\ Len(c.buf) = Len(a.buf) + 1
      /\ \A p \in 1..Len(a.buf) : c.buf[p] = a.buf[p]
      /\ c.buf[Len(a.buf) + 1] = Space
      /\ \A k \in BarKey : (OnBar(c, k) <=> OnBar(b, k)) /\ k < 20
  BY <1>1, FinishedColumns
<1>4. c.l = IF \E k \in BarKey : OnBar(c, k) THEN Len(c.buf) - 1 ELSE 0
  <2>1. c.l = Len(a.buf)
    BY <1>1 DEF Finished, Built
  <2>2. a.buf = <<>> <=> \A k \in BarKey : ~OnBar(c, k)
    BY <1>1, <1>3 DEF Built
  <2>3. CASE a.buf = <<>>
    BY <2>1, <2>2, <2>3
  <2>4. CASE a.buf # <<>>
    BY <1>3, <2>1, <2>2, <2>4
  <2> QED
    BY <2>3, <2>4
<1>5. ASSUME NEW i \in DOMAIN c.buf, NEW j \in DOMAIN c.buf, i < j,
             c.buf[i] \in BarKey, c.buf[j] \in BarKey
      PROVE  c.buf[i] <= c.buf[j]
  <2>1. \A p \in DOMAIN c.buf : p \in Nat /\ (c.buf[p] \in BarKey =>
            p \in 1..Len(a.buf) /\ c.buf[p] = a.buf[p] /\ TextAt(a, b, 20, p))
    <3> SUFFICES ASSUME NEW p \in DOMAIN c.buf
                 PROVE  p \in Nat /\ (c.buf[p] \in BarKey =>
                            p \in 1..Len(a.buf) /\ c.buf[p] = a.buf[p] /\ TextAt(a, b, 20, p))
      OBVIOUS
    <3>1. c.buf \in Seq(Int)
      BY <1>3 DEF BarType
    <3>2. p \in 1..(Len(a.buf) + 1)
      <4>1. DOMAIN c.buf = 1..Len(c.buf)
        BY <3>1
      <4>2. p \in 1..Len(c.buf)
        BY <4>1
      <4> QED
        BY <1>3, <4>2, Zenon
    <3>3. p \in Nat /\ (p # Len(a.buf) + 1 => p \in 1..Len(a.buf))
      BY <1>3, <3>2
    <3>4. c.buf[p] \in BarKey => p \in 1..Len(a.buf) /\ c.buf[p] = a.buf[p]
      BY <1>3, <3>3, BarNumbers
    <3> QED
      BY <1>1, <3>3, <3>4 DEF Built
  <2> DEFINE k == c.buf[i]
             m == c.buf[j]
  <2>2. k \in BarKey /\ m \in BarKey /\ OnBar(b, m) /\ j <= a.key[m].end_pos
        /\ \A n \in BarKey : n < k /\ OnBar(b, n) => a.key[n].end_pos + 2 <= i
    BY <1>5, <2>1 DEF TextAt
  <2>3. i \in Nat /\ j \in Nat /\ a.key[m].end_pos \in Nat
    BY <1>3, <2>1, <2>2 DEF BarType, KeyType
  <2> HIDE DEF k, m
  <2>4. ~(m < k)
    <3> SUFFICES ASSUME m < k PROVE FALSE
      OBVIOUS
    <3>1. a.key[m].end_pos + 2 <= i
      BY <2>2
    <3>2. \A u, v, w \in Nat : ~(u + 2 <= v /\ v < w /\ w <= u)
      OBVIOUS
    <3> QED
      BY <1>5, <2>2, <2>3, <3>1, <3>2, Zenon
  <2>5. k <= m
    BY <2>2, <2>4, BarNumbers
  <2> QED
    BY <2>5 DEF k, m
<1>6. \A i, j \in DOMAIN c.buf :
          i < j /\ {c.buf[i], c.buf[j]} \subseteq BarKey => c.buf[i] <= c.buf[j]
  BY <1>5
<1>7. TextRight(c)
  BY <1>2, <1>4, <1>6 DEF TextRight
<1> QED
  BY <1>7 DEF c
=============================================================================
