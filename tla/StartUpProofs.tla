--------------------------- MODULE StartUpProofs ---------------------------
(***************************************************************************)
(* Proofs about the start of the program menu, for all texts, commands,     *)
(* alphabets, options and files: the types, the letters of a menu, and      *)
(* where the options and the files of a program come from.  And about the   *)
(* colour pairs that it defines in the terminal.                            *)
(***************************************************************************)
EXTENDS StartUp, Colors, NumberLemmas, FunctionTheorems, TLAPS

-----------------------------------------------------------------------------
(* Options and roles. *)

Options == [Option -> Value \cup {Default}]

LEMMA StoredType ==
  ASSUME NEW o, NEW v \in Value
  PROVE  Stored(o, v) \in Value /\ Switched(o, v) \in Value
  BY ConfigAssumption DEF Stored, Switched

LEMMA SwitchType ==
  ASSUME NEW i \in Options, NEW o, NEW v \in Value
  PROVE  SetSwitch(i, o, v) \in Options
<1>1. Switched(o, v) \in Value
  BY StoredType
<1> QED
  BY <1>1 DEF SetSwitch, Options

LEMMA FirstOptionsType == FirstOptions \in Options
  BY ConfigAssumption DEF FirstOptions, Options, Stored

\* What is read and what is written of a value is one.
LEMMA ParsedType ==
  ASSUME NEW k, NEW v \in AnyValue
  PROVE  /\ Parsed(k, v) \in AnyValue /\ Printout(k, v) \in AnyValue
         /\ v \in Value => Parsed(k, v) \in Value
  BY TextAssumption DEF Parsed, Printout, AnyValue

LEMMA TakeLineType ==
  ASSUME NEW i \in Options, NEW k, NEW v \in AnyValue
  PROVE  TakeLine(i, k, v) \in Options
<1>1. Parsed(k, v) \in Value \cup {Default}
  BY ParsedType DEF AnyValue
<1>2. Stored(KeyField(k), Parsed(k, v)) \in Value \cup {Default}
  BY <1>1, ConfigAssumption DEF Stored
<1> QED
  BY <1>2 DEF TakeLine, SetKey, Options

LEMMA ZeroOptArgsType ==
  ASSUME NEW i \in Options
  PROVE  ZeroOptArgs(i) \in Options
  BY ConfigAssumption DEF ZeroOptArgs, Options

\* parse_opt_args sets one switch after the other, and keeps the type of the options.
LEMMA ParseOptsSteps ==
  ASSUME NEW i0 \in Options, NEW D, NEW q \in Seq(D), \A d \in D : d[2] \in Value
  PROVE  \E h \in [0..Len(q) -> Options] :
             /\ h[0] = i0 /\ h[Len(q)] = ParseOpts(i0, q)
             /\ \A k \in 1..Len(q) : h[k] = SetSwitch(h[k - 1], q[k][1], q[k][2])
<1> DEFINE n == Len(q)
           Step(i, d) == SetSwitch(i, d[1], d[2])
           G == [p \in Options \X D |-> Step(p[1], p[2])]
           E(g) == [s \in SUBSET DOMAIN q |->
                        IF s = {} THEN i0 ELSE Step(g[s \ {Max(s)}], q[Max(s)])]
           f == CHOOSE g : g = E(g)
<1>1. \A i \in Options, d \in D : Step(i, d) \in Options
  BY SwitchType
<1>2. DOMAIN q = 1..n /\ n \in Nat /\ \A j \in 1..n : q[j] \in D
  OBVIOUS
<1> HIDE DEF Step
<1>3. G \in [Options \X D -> Options] /\ \A i \in Options, d \in D : G[<<i, d>>] = Step(i, d)
  BY <1>1
<1> HIDE DEF G
<1>4. PICK g \in [SUBSET (1..n) -> Options] : Folds(g, G, i0, q, n)
  BY <1>3, FoldExists, Zenon
<1>5. g = E(g)
  <2>1. \A s \in SUBSET (1..n) :
            g[s] = IF s = {} THEN i0 ELSE Step(g[s \ {Max(s)}], q[Max(s)])
    <3> SUFFICES ASSUME NEW s \in SUBSET (1..n), s # {}
                 PROVE  g[s] = Step(g[s \ {Max(s)}], q[Max(s)])
      BY <1>4 DEF Folds
    <3>1. s \ {Max(s)} \in SUBSET (1..n) /\ Max(s) \in 1..n
      BY <1>2, MaxIn
    <3>2. g[s] = G[<<g[s \ {Max(s)}], q[Max(s)]>>]
      BY <1>4 DEF Folds
    <3> QED
      BY <1>2, <1>3, <3>1, <3>2
  <2> QED
    BY <1>2, <2>1
<1>6. f = E(f)
  <2> HIDE DEF E
  <2> QED
    BY <1>5, Zenon
<1> HIDE DEF f
<1>7. f[{}] = i0 /\ \A s \in SUBSET (1..n) : s # {} =>
          f[s] = Step(f[s \ {Max(s)}], q[Max(s)])
  BY <1>2, <1>6
<1>8. \A s \in SUBSET (1..n) : s # {} /\ f[s \ {Max(s)}] \in Options => f[s] \in Options
  <2> SUFFICES ASSUME NEW s \in SUBSET (1..n), s # {}, f[s \ {Max(s)}] \in Options
               PROVE  f[s] \in Options
    OBVIOUS
  <2>1. q[Max(s)] \in D
    BY <1>2, MaxIn
  <2> QED
    BY <1>1, <1>7, <2>1, Zenon
<1>9. \A s \in SUBSET (1..n) : f[s] \in Options
  BY <1>2, <1>7, <1>8, FoldType
<1>10. ParseOpts(i0, q) = f[DOMAIN q]
  BY DEF ParseOpts, FoldLeft, MapThenFoldSet, f, E, Step
<1> DEFINE h == [k \in 0..n |-> f[1..k]]
<1>11. h \in [0..n -> Options]
  <2>1. \A k \in 0..n : 1..k \in SUBSET (1..n)
    BY <1>2
  <2> QED
    BY <1>9, <2>1
<1>12. h[0] = i0 /\ h[n] = ParseOpts(i0, q)
  <2>1. 0 \in 0..n /\ n \in 0..n /\ 1..0 = {}
    BY <1>2
  <2> QED
    BY <1>2, <1>7, <1>10, <2>1
<1>13. ASSUME NEW k \in 1..n
       PROVE  h[k] = SetSwitch(h[k - 1], q[k][1], q[k][2])
  <2>1. /\ 1..k \in SUBSET (1..n) /\ 1..k # {} /\ Max(1..k) = k
        /\ (1..k) \ {Max(1..k)} = 1..(k - 1) /\ k - 1 \in 0..n /\ k \in 0..n
    <3>1. n \in Nat /\ k \in 0..n
      BY <1>2
    <3> QED
      BY <3>1, FoldPrefixes, Zenon
  <2>2. f[1..k] = Step(f[1..(k - 1)], q[k])
    <3>1. f[1..k] = Step(f[(1..k) \ {Max(1..k)}], q[Max(1..k)])
      BY <1>7, <2>1, Zenon
    <3> QED
      BY <2>1, <3>1, Zenon
  <2> QED
    BY <2>1, <2>2 DEF Step
<1> HIDE DEF h
<1> QED
  BY <1>11, <1>12, <1>13

LEMMA ParseOptsType ==
  ASSUME NEW i0 \in Options, NEW D, NEW q \in Seq(D), \A d \in D : d[2] \in Value
  PROVE  ParseOpts(i0, q) \in Options
<1>1. PICK h \in [0..Len(q) -> Options] : h[Len(q)] = ParseOpts(i0, q)
  BY ParseOptsSteps
<1>2. Len(q) \in 0..Len(q)
  OBVIOUS
<1> QED
  BY <1>1, <1>2


Arguments == [optind : Nat, use : [Role -> Nat]]

LEMMA TakenType ==
  ASSUME NEW kind, NEW args, NEW acc \in Arguments, NEW role \in Role
  PROVE  Taken(kind, args, acc, role) \in Arguments
<1>1. [acc EXCEPT !.optind = @ + 1] \in Arguments
  BY DEF Arguments
<1>2. [acc EXCEPT !.optind = @ + 1, !.use[role] = acc.optind] \in Arguments
  <2>1. acc.optind \in Nat /\ acc.use \in [Role -> Nat] /\ acc.optind + 1 \in Nat
    BY DEF Arguments
  <2>2. [acc.use EXCEPT ![role] = acc.optind] \in [Role -> Nat]
    BY <2>1
  <2>3. [acc EXCEPT !.optind = acc.optind + 1, !.use = [acc.use EXCEPT ![role] = acc.optind]]
            \in Arguments
    BY <2>1, <2>2 DEF Arguments
  <2> QED
    BY <2>3
<1> QED
  BY <1>1, <1>2 DEF Taken

LEMMA RolesType ==
  ASSUME NEW kind
  PROVE  Roles(kind) \in Seq(Role)
<1>1. {"spec", "in", "out", "provider", "cmd", "receiver", "help"} = Role
  BY DEF Role
<1>2. <<"spec", "help">> \in Seq(Role)
  BY <1>1
<1>3. <<"spec", "in", "out", "provider", "cmd", "receiver", "help">> \in Seq(Role)
  BY <1>1
<1>4. <<"in", "out", "provider", "cmd", "receiver", "help">> \in Seq(Role)
  BY <1>1
<1>5. <<>> \in Seq(Role)
  OBVIOUS
<1> QED
  BY <1>2, <1>3, <1>4, <1>5, Zenon DEF Roles

\* What one role does to the arguments.
NextRole(c, acc, role) ==
    IF role \in Filled(c.kind, c.files) \/ acc.optind > Len(c.args) THEN acc
    ELSE Taken(c.kind, c.args, acc, role)

\* The roles of an engine take arguments in their order, all of them numbers of arguments.
LEMMA PositionalSteps ==
  ASSUME NEW c
  PROVE  \E h \in [0..Len(Roles(c.kind)) -> Arguments] :
             /\ h[0] = [optind |-> FirstArg(c.kind), use |-> [r \in Role |-> 0]]
             /\ h[Len(Roles(c.kind))].use = Positional(c.kind, c.args, c.files)
             /\ \A k \in 1..Len(Roles(c.kind)) :
                    h[k] = NextRole(c, h[k - 1], Roles(c.kind)[k])
<1> DEFINE q == Roles(c.kind)
           n == Len(q)
           b == [optind |-> FirstArg(c.kind), use |-> [r \in Role |-> 0]]
           Step(acc, role) ==
               IF role \in Filled(c.kind, c.files) \/ acc.optind > Len(c.args) THEN acc
               ELSE Taken(c.kind, c.args, acc, role)
           G == [p \in Arguments \X Role |-> Step(p[1], p[2])]
           E(g) == [s \in SUBSET DOMAIN q |->
                        IF s = {} THEN b ELSE Step(g[s \ {Max(s)}], q[Max(s)])]
           f == CHOOSE g : g = E(g)
<1>1. \A acc \in Arguments, role \in Role : Step(acc, role) \in Arguments
  BY TakenType
<1>2. b \in Arguments
  BY DEF Arguments, FirstArg
<1>3. q \in Seq(Role)
  BY RolesType
<1>4. Positional(c.kind, c.args, c.files) = f[DOMAIN q].use
  BY DEF Positional, FoldLeft, MapThenFoldSet
<1> HIDE DEF Step, q, b
<1>5. DOMAIN q = 1..n /\ n \in Nat /\ \A j \in 1..n : q[j] \in Role
  BY <1>3
<1>6. G \in [Arguments \X Role -> Arguments]
      /\ \A acc \in Arguments, role \in Role : G[<<acc, role>>] = Step(acc, role)
  BY <1>1
<1> HIDE DEF G
<1>7. PICK g \in [SUBSET (1..n) -> Arguments] : Folds(g, G, b, q, n)
  BY <1>2, <1>3, <1>6, FoldExists, Zenon
<1>8. g = E(g)
  <2>1. \A s \in SUBSET (1..n) :
            g[s] = IF s = {} THEN b ELSE Step(g[s \ {Max(s)}], q[Max(s)])
    <3> SUFFICES ASSUME NEW s \in SUBSET (1..n), s # {}
                 PROVE  g[s] = Step(g[s \ {Max(s)}], q[Max(s)])
      BY <1>7 DEF Folds
    <3>1. s \ {Max(s)} \in SUBSET (1..n) /\ Max(s) \in 1..n
      BY <1>5, MaxIn
    <3>2. g[s] = G[<<g[s \ {Max(s)}], q[Max(s)]>>]
      BY <1>7 DEF Folds
    <3> QED
      BY <1>5, <1>6, <3>1, <3>2
  <2> QED
    BY <1>5, <2>1
<1>9. f = E(f)
  <2> HIDE DEF E
  <2> QED
    BY <1>8, Zenon
<1> HIDE DEF f
<1>10. f[{}] = b /\ \A s \in SUBSET (1..n) : s # {} =>
           f[s] = Step(f[s \ {Max(s)}], q[Max(s)])
  BY <1>5, <1>9
<1>11. \A s \in SUBSET (1..n) : s # {} /\ f[s \ {Max(s)}] \in Arguments => f[s] \in Arguments
  <2> SUFFICES ASSUME NEW s \in SUBSET (1..n), s # {}, f[s \ {Max(s)}] \in Arguments
               PROVE  f[s] \in Arguments
    OBVIOUS
  <2>1. q[Max(s)] \in Role
    BY <1>5, MaxIn
  <2> QED
    BY <1>1, <1>10, <2>1, Zenon
<1>12. \A s \in SUBSET (1..n) : f[s] \in Arguments
  BY <1>2, <1>5, <1>10, <1>11, FoldType
<1> DEFINE h == [k \in 0..n |-> f[1..k]]
<1>13. h \in [0..n -> Arguments]
  <2>1. \A k \in 0..n : 1..k \in SUBSET (1..n)
    BY <1>5
  <2> QED
    BY <1>12, <2>1
<1>14. h[0] = b /\ h[n].use = Positional(c.kind, c.args, c.files)
  <2>1. 0 \in 0..n /\ n \in 0..n /\ 1..0 = {}
    BY <1>5
  <2> QED
    BY <1>4, <1>5, <1>10, <2>1
<1>15. ASSUME NEW k \in 1..n
       PROVE  h[k] = Step(h[k - 1], q[k])
  <2>1. /\ 1..k \in SUBSET (1..n) /\ 1..k # {} /\ Max(1..k) = k
        /\ (1..k) \ {Max(1..k)} = 1..(k - 1) /\ k - 1 \in 0..n /\ k \in 0..n
    <3>1. n \in Nat /\ k \in 0..n
      BY <1>5
    <3> QED
      BY <3>1, FoldPrefixes, Zenon
  <2>2. f[1..k] = Step(f[1..(k - 1)], q[k])
    <3>1. f[1..k] = Step(f[(1..k) \ {Max(1..k)}], q[Max(1..k)])
      BY <1>10, <2>1, Zenon
    <3> QED
      BY <2>1, <3>1, Zenon
  <2> QED
    BY <2>1, <2>2
<1> HIDE DEF h
<1> QED
  BY <1>13, <1>14, <1>15 DEF Step, NextRole, q, b

LEMMA PositionalType ==
  ASSUME NEW c
  PROVE  Positional(c.kind, c.args, c.files) \in [Role -> Nat]
<1>1. PICK h \in [0..Len(Roles(c.kind)) -> Arguments] :
          h[Len(Roles(c.kind))].use = Positional(c.kind, c.args, c.files)
  BY PositionalSteps
<1>2. Len(Roles(c.kind)) \in 0..Len(Roles(c.kind))
  BY RolesType
<1> QED
  BY <1>1, <1>2 DEF Arguments

-----------------------------------------------------------------------------
(* Lines of a menu. *)

LineType ==
    {l \in [type : {"text", "choice"}, raw_text : Text, choice_letter : Nat,
            letter_pos : Nat, command : Commands \cup {"null"}] :
        l.type = "choice" => l.command \in Commands}
MenuType ==
    [line : Seq(LineType), title : BOOLEAN, choices : Nat, commands : Nat,
     fltr : SUBSET Nat, line_idx : Nat]

Ltr(m, i) == m.line[i].choice_letter
Asks(m, i) == Asked(m.line[i].raw_text)
Lines(m) == 1..Len(m.line)
Printed == Blank .. Final

LEMMA LineFacts ==
  ASSUME NEW m \in MenuType
  PROVE  /\ Len(m.line) \in Nat /\ DOMAIN m.line = Lines(m) /\ m.line \in Seq(LineType)
         /\ \A i \in Lines(m) : m.line[i] \in LineType /\ Ltr(m, i) \in Nat
<1>1. m.line \in Seq(LineType)
  BY DEF MenuType
<1>2. Len(m.line) \in Nat /\ DOMAIN m.line = Lines(m)
  BY <1>1 DEF Lines
<1>3. \A i \in Lines(m) : m.line[i] \in LineType
  BY <1>1 DEF Lines
<1>4. \A l \in LineType : l.choice_letter \in Nat
  BY DEF LineType
<1> QED
  BY <1>1, <1>2, <1>3, <1>4 DEF Ltr

LEMMA LetterFacts ==
  /\ Quit \in Nat /\ Quit \in Printed /\ NoLetter \in Nat /\ NoLetter \notin Printed
  /\ Printed \subseteq Nat /\ First .. Final \subseteq Printed /\ First .. Final \subseteq Nat
  /\ \A t : Asked(t) = NoLetter \/ Asked(t) \in Printed
<1>1. Blank \in Nat /\ Blank # 0 /\ First \in Nat /\ Final \in Nat /\ Blank < First
      /\ Quit \in First .. Final
  BY MenuDescAssumption DEF NoLetter
<1>2. /\ Quit \in Nat /\ Quit \in Printed /\ NoLetter \in Nat /\ NoLetter \notin Printed
      /\ Printed \subseteq Nat /\ First .. Final \subseteq Printed /\ First .. Final \subseteq Nat
  BY <1>1 DEF Printed, NoLetter
<1>3. \A t : Asked(t) = NoLetter \/ Asked(t) \in Printed
  BY DEF Asked, Printed
<1> QED
  BY <1>2, <1>3

LEMMA TextLineIs ==
  ASSUME NEW m \in MenuType, NEW t \in Text, NEW k, k = TextLine(m, t)
  PROVE  /\ k \in MenuType /\ Len(k.line) = Len(m.line) + 1
         /\ \A i \in Lines(m) : k.line[i] = m.line[i]
         /\ ~IsChoice(k, Len(k.line)) /\ Ltr(k, Len(k.line)) = NoLetter
         /\ k.fltr = m.fltr /\ k.choices = m.choices + 1 /\ k.commands = m.commands
         /\ k.line_idx = m.line_idx
<1> DEFINE l == [type |-> "text", raw_text |-> t, choice_letter |-> NoLetter,
                 letter_pos |-> 0, command |-> "null"]
<1>1. l \in LineType /\ l.type = "text" /\ l.choice_letter = NoLetter
  BY LetterFacts DEF LineType
<1>2. k = [m EXCEPT !.choices = @ + 1, !.line = Append(@, l)]
  BY DEF TextLine
<1> HIDE DEF l
<1>3. m.line \in Seq(LineType) /\ m.choices + 1 \in Nat
  BY DEF MenuType
<1>4. /\ Append(m.line, l) \in Seq(LineType) /\ Len(Append(m.line, l)) = Len(m.line) + 1
      /\ \A i \in Lines(m) : Append(m.line, l)[i] = m.line[i]
      /\ Append(m.line, l)[Len(m.line) + 1] = l
  BY <1>1, <1>3 DEF Lines
<1>5. /\ k \in MenuType /\ k.line = Append(m.line, l) /\ k.fltr = m.fltr
      /\ k.choices = m.choices + 1 /\ k.commands = m.commands /\ k.line_idx = m.line_idx
  BY <1>2, <1>3, <1>4 DEF MenuType
<1> QED
  BY <1>1, <1>4, <1>5 DEF IsChoice, Ltr

\* What a command makes of the text before it.
LEMMA CommandIs ==
  ASSUME NEW m \in MenuType, NEW c \in Commands, NEW k, k = Command(m, c),
         m.line # <<>>, ~IsChoice(m, Len(m.line))
  PROVE  LET n == Len(m.line)
             ltr == Asks(m, n)
             reserves == ltr # NoLetter /\ ltr \notin m.fltr
         IN  /\ k \in MenuType /\ Len(k.line) = n /\ n \in Lines(m)
             /\ \A i \in Lines(m) : i # n => k.line[i] = m.line[i]
             /\ IsChoice(k, n) /\ k.line[n].raw_text = m.line[n].raw_text
             /\ Ltr(k, n) = (IF reserves THEN ltr ELSE NoLetter)
             /\ k.fltr = (IF reserves THEN m.fltr \cup {ltr} ELSE m.fltr)
             /\ k.choices = m.choices /\ k.commands = m.commands + 1
             /\ k.line_idx = m.line_idx
<1> DEFINE n == Len(m.line)
           ltr == Asks(m, n)
           reserves == ltr # NoLetter /\ ltr \notin m.fltr
           x == IF reserves THEN ltr ELSE NoLetter
           y == IF reserves THEN m.fltr \cup {ltr} ELSE m.fltr
           l == [m.line[n] EXCEPT !.command = c, !.type = "choice", !.choice_letter = x]
<1>1. n \in Lines(m) /\ m.line[n] \in LineType /\ m.line \in Seq(LineType) /\ n \in Nat
  <2>1. m.line \in Seq(LineType) /\ n \in Nat /\ n # 0
    BY LineFacts
  <2>2. n \in Lines(m)
    BY <2>1 DEF Lines
  <2> QED
    BY <2>1, <2>2, LineFacts
<1>2. m.line[n].type = "text"
  BY <1>1 DEF IsChoice, LineType
<1>3. k = [m EXCEPT !.commands = @ + 1, !.line[n].command = c, !.line[n].type = "choice",
                    !.line[n].choice_letter = x, !.fltr = y]
  BY <1>2 DEF Command, Last1, Asks
<1>4. x \in Nat /\ y \in SUBSET Nat
  BY LetterFacts DEF MenuType, Asks
<1> HIDE DEF x, y, n
<1>5. /\ l \in LineType /\ l.type = "choice" /\ l.choice_letter = x
      /\ l.raw_text = m.line[n].raw_text
  BY <1>1, <1>4 DEF LineType
<1> DEFINE l1 == [m.line[n] EXCEPT !.command = c]
           l2 == [l1 EXCEPT !.type = "choice"]
           r == [m.line EXCEPT ![n] = l]
<1>6. [[[m.line EXCEPT ![n].command = c] EXCEPT ![n].type = "choice"]
              EXCEPT ![n].choice_letter = x] = r
  <2>1. l = [l2 EXCEPT !.choice_letter = x]
    OBVIOUS
  <2>2. \A f \in Seq(LineType) : \A a, b : n \in DOMAIN f =>
            [[f EXCEPT ![n] = a] EXCEPT ![n] = b] = [f EXCEPT ![n] = b]
    OBVIOUS
  <2>3. n \in DOMAIN m.line
    BY <1>1, LineFacts
  <2> HIDE DEF l, l1, l2
  <2>4. [m.line EXCEPT ![n].command = c] = [m.line EXCEPT ![n] = l1]
    BY DEF l1
  <2>5. [[m.line EXCEPT ![n] = l1] EXCEPT ![n].type = "choice"] = [m.line EXCEPT ![n] = l2]
    BY <1>1, <2>2, <2>3 DEF l2
  <2>6. [[m.line EXCEPT ![n] = l2] EXCEPT ![n].choice_letter = x] = r
    BY <1>1, <2>1, <2>2, <2>3
  <2> QED
    BY <2>4, <2>5, <2>6
<1> HIDE DEF l
<1>7. /\ r \in Seq(LineType) /\ Len(r) = Len(m.line) /\ r[n] = l
      /\ \A i \in Lines(m) : i # n => r[i] = m.line[i]
  BY <1>1, <1>5 DEF Lines
<1> HIDE DEF r
<1>8. /\ k \in MenuType /\ k.line = r /\ k.fltr = y
      /\ k.choices = m.choices /\ k.commands = m.commands + 1 /\ k.line_idx = m.line_idx
  <2>1. k = [m EXCEPT !.commands = @ + 1, !.line = r, !.fltr = y]
    BY <1>3, <1>6 DEF MenuType
  <2>2. m.commands + 1 \in Nat
    BY DEF MenuType
  <2> QED
    BY <1>4, <1>7, <2>1, <2>2 DEF MenuType
<1> QED
  BY <1>1, <1>5, <1>7, <1>8 DEF IsChoice, Ltr, n, x, y

\* What a line that gets a letter looks like.
LEMMA LetteredIs ==
  ASSUME NEW m \in MenuType, NEW i \in Lines(m), NEW ltr \in Nat, NEW pos \in Nat, NEW k,
         k = Lettered(m, i, ltr, pos)
  PROVE  /\ k \in MenuType /\ Len(k.line) = Len(m.line)
         /\ \A j \in Lines(m) : j # i => k.line[j] = m.line[j]
         /\ k.line[i].type = m.line[i].type /\ k.line[i].raw_text = m.line[i].raw_text
         /\ Ltr(k, i) = ltr /\ k.fltr = m.fltr \cup {ltr}
         /\ k.choices = m.choices /\ k.commands = m.commands /\ k.line_idx = m.line_idx
<1> DEFINE l1 == [m.line[i] EXCEPT !.choice_letter = ltr]
           l == [l1 EXCEPT !.letter_pos = pos]
           r == [m.line EXCEPT ![i] = l]
<1>1. m.line \in Seq(LineType) /\ m.line[i] \in LineType /\ i \in DOMAIN m.line
  BY LineFacts
<1>2. l \in LineType /\ l.type = m.line[i].type /\ l.raw_text = m.line[i].raw_text
      /\ l.choice_letter = ltr
  BY <1>1 DEF LineType
<1>3. [[m.line EXCEPT ![i].choice_letter = ltr] EXCEPT ![i].letter_pos = pos] = r
  <2>1. \A f \in Seq(LineType) : \A a, b : i \in DOMAIN f =>
            [[f EXCEPT ![i] = a] EXCEPT ![i] = b] = [f EXCEPT ![i] = b]
    OBVIOUS
  <2> HIDE DEF l1
  <2>2. [m.line EXCEPT ![i].choice_letter = ltr] = [m.line EXCEPT ![i] = l1]
    BY DEF l1
  <2>3. [[m.line EXCEPT ![i] = l1] EXCEPT ![i].letter_pos = pos] = r
    BY <1>1, <2>1, ZenonT(40)
  <2> QED
    BY <2>2, <2>3
<1> HIDE DEF l
<1>4. /\ r \in Seq(LineType) /\ Len(r) = Len(m.line) /\ r[i] = l
      /\ \A j \in Lines(m) : j # i => r[j] = m.line[j]
  BY <1>1, <1>2 DEF Lines
<1> HIDE DEF r
<1>5. k = [m EXCEPT !.line = r, !.fltr = @ \cup {ltr}]
  BY <1>3, ZenonT(40) DEF Lettered, MenuType
<1>6. /\ k \in MenuType /\ k.line = r /\ k.fltr = m.fltr \cup {ltr}
      /\ k.choices = m.choices /\ k.commands = m.commands /\ k.line_idx = m.line_idx
  BY <1>4, <1>5, ZenonT(40) DEF MenuType
<1> QED
  BY <1>2, <1>4, <1>6 DEF Ltr

-----------------------------------------------------------------------------
(* The cursor moves, and nothing else of the menu changes. *)

Moved(m, k) ==
    /\ k \in MenuType /\ k.line = m.line /\ k.fltr = m.fltr
    /\ k.choices = m.choices /\ k.commands = m.commands

LEMMA MovedTo ==
  ASSUME NEW m \in MenuType, NEW n \in Nat
  PROVE  Moved(m, [m EXCEPT !.line_idx = n]) /\ [m EXCEPT !.line_idx = n].line_idx = n
  BY DEF Moved, MenuType

LEMMA Least ==
  ASSUME NEW S \in SUBSET Nat, S # {}
  PROVE  (CHOOSE i \in S : \A j \in S : i <= j) \in S
  BY NatMin

LEMMA Greatest ==
  ASSUME NEW n \in Nat, NEW S \in SUBSET (1..n), S # {}
  PROVE  (CHOOSE i \in S : \A j \in S : j <= i) \in S
<1>1. S \in SUBSET (0..n)
  OBVIOUS
<1> QED
  BY <1>1, NatMax

\* The cursor is on the first choice, or on the first line.
LEMMA ResetMenuIs ==
  ASSUME NEW m \in MenuType, NEW k, k = ResetMenu(m)
  PROVE  Moved(m, k) /\ (m.line # <<>> => k.line_idx \in Lines(k))
<1> DEFINE choice == {i \in DOMAIN m.line : IsChoice(m, i)}
           n == IF choice = {} THEN 1 ELSE CHOOSE i \in choice : \A j \in choice : i <= j
<1>1. choice \subseteq Lines(m) /\ Lines(m) \in SUBSET Nat
  BY LineFacts DEF Lines
<1>2. n \in Nat /\ (m.line # <<>> => n \in Lines(m))
  <2>1. CASE choice = {}
    <3>1. m.line # <<>> => 1 \in Lines(m)
      <4>1. m.line \in Seq(LineType)
        BY LineFacts
      <4> QED
        BY <4>1 DEF Lines
    <3> QED
      BY <2>1, <3>1
  <2>2. CASE choice # {}
    <3>1. (CHOOSE i \in choice : \A j \in choice : i <= j) \in choice
      BY <1>1, <2>2, Least
    <3> QED
      BY <1>1, <2>2, <3>1
  <2> QED
    BY <2>1, <2>2
<1>3. k = [m EXCEPT !.line_idx = n]
  BY DEF ResetMenu
<1> HIDE DEF n
<1> QED
  BY <1>2, <1>3, MovedTo DEF Moved, Lines

LEMMA UpIs ==
  ASSUME NEW m \in MenuType, m.line_idx \in Lines(m)
  PROVE  Moved(m, Up(m)) /\ Up(m).line_idx \in Lines(m)
<1> DEFINE above == {i \in 1 .. m.line_idx - 1 : IsChoice(m, i)}
           n == CHOOSE i \in above : \A j \in above : j <= i
<1>1. Moved(m, m)
  BY DEF Moved
<1>2. CASE above = {}
  BY <1>1, <1>2 DEF Up
<1>3. CASE above # {}
  <2>1. m.line_idx - 1 \in Nat /\ \A i \in 1..(m.line_idx - 1) : i \in Lines(m) /\ i \in Nat
    BY LineFacts DEF Lines
  <2>2. n \in above
    BY <1>3, <2>1, Greatest
  <2>3. n \in Nat /\ n \in Lines(m)
    BY <2>1, <2>2
  <2>4. Up(m) = [m EXCEPT !.line_idx = n]
    BY <1>3 DEF Up
  <2> HIDE DEF n
  <2> QED
    BY <2>3, <2>4, MovedTo
<1> QED
  BY <1>2, <1>3

LEMMA DownIs ==
  ASSUME NEW m \in MenuType, m.line_idx \in Lines(m)
  PROVE  Moved(m, Down(m)) /\ Down(m).line_idx \in Lines(m)
<1> DEFINE below == {i \in m.line_idx + 1 .. Len(m.line) : IsChoice(m, i)}
           n == CHOOSE i \in below : \A j \in below : i <= j
<1>1. Moved(m, m)
  BY DEF Moved
<1>2. CASE below = {}
  BY <1>1, <1>2 DEF Down
<1>3. CASE below # {}
  <2>1. \A i \in (m.line_idx + 1)..Len(m.line) : i \in Lines(m) /\ i \in Nat
    BY LineFacts DEF Lines
  <2>2. below \in SUBSET Nat
    BY <2>1
  <2>3. n \in below
    BY <1>3, <2>2, Least
  <2>4. n \in Nat /\ n \in Lines(m)
    BY <2>1, <2>3
  <2>5. Down(m) = [m EXCEPT !.line_idx = n]
    BY <1>3 DEF Down
  <2> HIDE DEF n
  <2> QED
    BY <2>4, <2>5, MovedTo
<1> QED
  BY <1>2, <1>3

LEMMA ToLetterIs ==
  ASSUME NEW m \in MenuType, NEW b, WithLetter(m, b) # {}
  PROVE  Moved(m, ToLetter(m, b)) /\ ToLetter(m, b).line_idx \in Lines(m)
<1> DEFINE n == CHOOSE i \in WithLetter(m, b) : \A j \in WithLetter(m, b) : i <= j
<1>1. \A i \in Lines(m) : i \in Nat
  BY DEF Lines
<1>2. WithLetter(m, b) \in SUBSET Nat /\ WithLetter(m, b) \subseteq Lines(m)
  BY <1>1, LineFacts DEF WithLetter
<1>3. n \in WithLetter(m, b)
  BY <1>2, Least
<1>4. ToLetter(m, b) = [m EXCEPT !.line_idx = n]
  BY DEF ToLetter
<1> HIDE DEF n
<1> QED
  BY <1>2, <1>3, <1>4, MovedTo

-----------------------------------------------------------------------------
(* The letters. *)

\* A letter belongs to one line, is out of the filter and never q; a text has none.
LetterOwned(m) ==
    /\ Quit \in m.fltr
    /\ \A i \in Lines(m) : Ltr(m, i) \in Printed => Ltr(m, i) \in m.fltr /\ Ltr(m, i) # Quit
    /\ \A i, j \in Lines(m) : Ltr(m, i) \in Printed /\ Ltr(m, i) = Ltr(m, j) => i = j
    /\ \A i \in Lines(m) : ~IsChoice(m, i) => Ltr(m, i) = NoLetter

\* The line that asks for a letter before any other.
Wants(m, i) ==
    /\ Asks(m, i) \notin {NoLetter, Quit}
    /\ \A j \in 1 .. i - 1 : Asks(m, j) # Asks(m, i)

FirstServed(m) ==
    \A i \in Lines(m) : IsChoice(m, i) /\ Wants(m, i) => Ltr(m, i) = Asks(m, i)

\* While the description is read only what was taken from the start and what was asked for
\* is in the filter.
FromStart == (0 .. Blank - 1) \cup {Quit}
OnlyAsked(m) ==
    /\ \A i \in Lines(m) : Ltr(m, i) \in {NoLetter, Asks(m, i)}
    /\ \A c \in m.fltr : c \in FromStart \/ \E i \in Lines(m) : Ltr(m, i) = c

\* Texts and commands alternate: a text without a command can only be the last line.
Paired(m) ==
    /\ m.choices \in m.commands .. m.commands + 1
    /\ \A i \in Lines(m) : i # Len(m.line) => IsChoice(m, i)
    /\ m.line # <<>> /\ ~IsChoice(m, Len(m.line)) => m.choices = m.commands + 1

LEMMA EmptyMenuIs ==
  /\ EmptyMenu \in MenuType /\ LetterOwned(EmptyMenu) /\ FirstServed(EmptyMenu)
  /\ OnlyAsked(EmptyMenu) /\ Paired(EmptyMenu)
<1>1. Lines(EmptyMenu) = {} /\ EmptyMenu.fltr = FromStart /\ EmptyMenu.line = <<>>
      /\ EmptyMenu.choices = 0 /\ EmptyMenu.commands = 0 /\ Quit \in FromStart
  BY DEF EmptyMenu, Lines, FromStart
<1>2. EmptyMenu \in MenuType
  <2>1. FromStart \in SUBSET Nat
    BY LetterFacts, MenuDescAssumption DEF FromStart
  <2> QED
    BY <1>1, <2>1 DEF EmptyMenu, MenuType, FromStart
<1> QED
  BY <1>1, <1>2 DEF LetterOwned, FirstServed, OnlyAsked, Paired

\* The lines before the last one ask the same of a menu that is longer.
LEMMA WantsSame ==
  ASSUME NEW m, NEW k, NEW i \in Nat,
         \A j \in 1..i : k.line[j].raw_text = m.line[j].raw_text, i >= 1
  PROVE  Asks(k, i) = Asks(m, i) /\ (Wants(k, i) <=> Wants(m, i))
<1>1. i \in 1..i /\ \A j \in 1..(i - 1) : j \in 1..i
  OBVIOUS
<1>2. \A j \in 1..i : Asks(k, j) = Asks(m, j)
  BY Zenon DEF Asks
<1> QED
  BY <1>1, <1>2, Zenon DEF Wants

LEMMA TextLineLetters ==
  ASSUME NEW m \in MenuType, NEW t \in Text, NEW k, k = TextLine(m, t),
         LetterOwned(m), FirstServed(m), OnlyAsked(m), Paired(m), ~(m.choices > m.commands)
  PROVE  LetterOwned(k) /\ FirstServed(k) /\ OnlyAsked(k) /\ Paired(k)
<1> DEFINE n == Len(k.line)
<1>1. /\ k \in MenuType /\ n = Len(m.line) + 1
      /\ \A i \in Lines(m) : k.line[i] = m.line[i]
      /\ ~IsChoice(k, n) /\ Ltr(k, n) = NoLetter
      /\ k.fltr = m.fltr /\ k.choices = m.choices + 1 /\ k.commands = m.commands
  BY TextLineIs
<1>2. n \in Nat /\ n >= 1 /\ Lines(k) = 1..n /\ Lines(m) = 1..(n - 1) /\ Len(m.line) = n - 1
  BY <1>1, LineFacts DEF Lines
<1> HIDE DEF n
<1>3. \A i \in Lines(k) : i = n \/ i \in Lines(m)
  BY <1>2
<1>4. Lines(m) \subseteq Lines(k) /\ n \in Lines(k)
  BY <1>2
<1>5. \A i \in Lines(m) : /\ Ltr(k, i) = Ltr(m, i) /\ (IsChoice(k, i) <=> IsChoice(m, i))
                          /\ Asks(k, i) = Asks(m, i)
  BY <1>1 DEF Ltr, IsChoice, Asks
<1>6. \A i \in Lines(m) : Wants(k, i) <=> Wants(m, i)
  <2> SUFFICES ASSUME NEW i \in Lines(m) PROVE Wants(k, i) <=> Wants(m, i)
    OBVIOUS
  <2>1. i \in Nat /\ i >= 1 /\ \A j \in 1..i : j \in Lines(m)
    BY <1>2
  <2> QED
    BY <1>1, <2>1, WantsSame
<1>7. LetterOwned(k)
  BY <1>1, <1>3, <1>5, LetterFacts, Zenon DEF LetterOwned
<1>8. FirstServed(k)
  BY <1>1, <1>3, <1>5, <1>6, Zenon DEF FirstServed
<1>9. OnlyAsked(k)
  <2>1. \A i \in Lines(k) : Ltr(k, i) \in {NoLetter, Asks(k, i)}
    BY <1>1, <1>3, <1>5, Zenon DEF OnlyAsked
  <2>2. \A c \in k.fltr : c \in FromStart \/ \E i \in Lines(k) : Ltr(k, i) = c
    BY <1>1, <1>4, <1>5, Zenon DEF OnlyAsked
  <2> QED
    BY <2>1, <2>2 DEF OnlyAsked
<1>10. Paired(k)
  <2>1. m.choices \in Nat /\ m.commands \in Nat
    BY DEF MenuType
  <2>2. m.choices = m.commands
    BY <2>1 DEF Paired
  <2>3. k.choices \in k.commands .. k.commands + 1 /\ k.choices = k.commands + 1
    BY <1>1, <2>1, <2>2
  <2>4. \A i \in Lines(m) : IsChoice(m, i)
    <3>1. m.line = <<>> \/ IsChoice(m, Len(m.line))
      BY <2>1, <2>2 DEF Paired
    <3>2. m.line = <<>> => Lines(m) = {}
      BY DEF Lines
    <3> QED
      BY <3>1, <3>2, Zenon DEF Paired
  <2>5. \A i \in Lines(k) : i # n => IsChoice(k, i)
    BY <1>3, <1>5, <2>4, Zenon
  <2> QED
    BY <2>3, <2>5, Zenon DEF Paired, n
<1> QED
  BY <1>7, <1>8, <1>9, <1>10

\* '!' says nothing unless the last line is a text.
LEMMA CommandNothing ==
  ASSUME NEW m \in MenuType, NEW c, m.line = <<>> \/ IsChoice(m, Len(m.line))
  PROVE  Command(m, c) = m
  BY DEF Command, Last1, IsChoice

LEMMA CommandLetters ==
  ASSUME NEW m \in MenuType, NEW c \in Commands, NEW k, k = Command(m, c),
         LetterOwned(m), FirstServed(m), OnlyAsked(m), Paired(m)
  PROVE  k \in MenuType /\ LetterOwned(k) /\ FirstServed(k) /\ OnlyAsked(k) /\ Paired(k)
<1>1. CASE m.line = <<>> \/ IsChoice(m, Len(m.line))
  BY <1>1, CommandNothing
<1>2. CASE m.line # <<>> /\ ~IsChoice(m, Len(m.line))
  <2> DEFINE n == Len(m.line)
             ltr == Asks(m, n)
             reserves == ltr # NoLetter /\ ltr \notin m.fltr
  <2>1. /\ k \in MenuType /\ Len(k.line) = n /\ n \in Lines(m)
        /\ \A i \in Lines(m) : i # n => k.line[i] = m.line[i]
        /\ IsChoice(k, n) /\ k.line[n].raw_text = m.line[n].raw_text
        /\ Ltr(k, n) = (IF reserves THEN ltr ELSE NoLetter)
        /\ k.fltr = (IF reserves THEN m.fltr \cup {ltr} ELSE m.fltr)
        /\ k.choices = m.choices /\ k.commands = m.commands + 1
    BY <1>2, CommandIs, ZenonT(40)
  <2>2. Lines(k) = Lines(m) /\ \A i \in Lines(m) : i \in Nat /\ i >= 1
                                   /\ \A j \in 1..i : j \in Lines(m)
    BY <2>1, LineFacts DEF Lines
  <2>3. \A i \in Lines(m) : k.line[i].raw_text = m.line[i].raw_text
    BY <2>1, Zenon
  <2>4. \A i \in Lines(m) : Asks(k, i) = Asks(m, i) /\ (Wants(k, i) <=> Wants(m, i))
    BY <2>2, <2>3, WantsSame
  <2>5. \A i \in Lines(m) : i # n =>
            Ltr(k, i) = Ltr(m, i) /\ (IsChoice(k, i) <=> IsChoice(m, i))
    BY <2>1 DEF Ltr, IsChoice
  <2>6. Ltr(m, n) = NoLetter
    BY <1>2, <2>1 DEF LetterOwned
  <2>7. NoLetter \notin Printed /\ Quit \in m.fltr
    BY LetterFacts DEF LetterOwned
  <2> HIDE DEF n, ltr
  <2>8. LetterOwned(k)
    <3>1. CASE reserves
      <4>1. Ltr(k, n) = ltr /\ k.fltr = m.fltr \cup {ltr} /\ ltr \notin m.fltr
        BY <2>1, <3>1
      <4>2. \A i \in Lines(m) : i # n /\ Ltr(k, i) \in Printed => Ltr(k, i) \in m.fltr
        BY <2>5 DEF LetterOwned
      <4>3. \A i \in Lines(k) : Ltr(k, i) \in Printed => Ltr(k, i) \in k.fltr /\ Ltr(k, i) # Quit
        BY <2>2, <2>5, <2>7, <4>1, <4>2 DEF LetterOwned
      <4>4. \A i, j \in Lines(k) : Ltr(k, i) \in Printed /\ Ltr(k, i) = Ltr(k, j) => i = j
        <5> SUFFICES ASSUME NEW i \in Lines(m), NEW j \in Lines(m),
                            Ltr(k, i) \in Printed, Ltr(k, i) = Ltr(k, j), i # j
                     PROVE  FALSE
          BY <2>2, Zenon
        <5>1. i # n
          <6>1. j # n => Ltr(k, j) \in m.fltr
            BY <4>2
          <6> QED
            BY <4>1, <6>1
        <5>2. j # n
          BY <4>1, <4>2, <5>1
        <5> QED
          BY <2>5, <5>1, <5>2 DEF LetterOwned
      <4>5. \A i \in Lines(k) : ~IsChoice(k, i) => Ltr(k, i) = NoLetter
        BY <2>1, <2>2, <2>5, Zenon DEF LetterOwned
      <4> QED
        BY <2>7, <4>1, <4>3, <4>4, <4>5 DEF LetterOwned
    <3>2. CASE ~reserves
      <4>1. \A i \in Lines(m) : Ltr(k, i) = Ltr(m, i)
        BY <2>1, <2>5, <2>6, <3>2
      <4>2. k.fltr = m.fltr
        BY <2>1, <3>2
      <4>3. \A i \in Lines(k) : ~IsChoice(k, i) => Ltr(k, i) = NoLetter
        BY <2>1, <2>2, <2>5, Zenon DEF LetterOwned
      <4> QED
        BY <2>2, <4>1, <4>2, <4>3, Zenon DEF LetterOwned
    <3> QED
      BY <3>1, <3>2
  <2>9. FirstServed(k)
    <3> SUFFICES ASSUME NEW i \in Lines(m), IsChoice(k, i), Wants(k, i)
                 PROVE  Ltr(k, i) = Asks(k, i)
      BY <2>2, Zenon DEF FirstServed
    <3>1. CASE i # n
      BY <2>4, <2>5, <3>1, Zenon DEF FirstServed
    <3>2. CASE i = n
      <4>1. ltr \notin {NoLetter, Quit} /\ \A j \in 1 .. n - 1 : Asks(m, j) # ltr
        BY <2>4, <3>2 DEF Wants, ltr
      <4>2. ltr \notin m.fltr
        <5> SUFFICES ASSUME ltr \in m.fltr PROVE FALSE
          OBVIOUS
        <5>1. PICK j \in Lines(m) : Ltr(m, j) = ltr
          <6>1. ltr \in Printed \ {Quit}
            BY <4>1 DEF ltr, Asks, Asked, Printed
          <6>2. ltr \notin FromStart
            BY <6>1, MenuDescAssumption DEF FromStart, Printed
          <6> QED
            BY <6>2 DEF OnlyAsked
        <5>2. j # n /\ Asks(m, j) = ltr
          BY <2>6, <4>1, <5>1 DEF OnlyAsked
        <5>3. j \in 1 .. n - 1
          BY <2>1, <5>2 DEF Lines, n
        <5> QED
          BY <4>1, <5>2, <5>3
      <4> QED
        BY <2>1, <2>4, <3>2, <4>1, <4>2 DEF ltr
    <3> QED
      BY <3>1, <3>2
  <2>10. OnlyAsked(k)
    <3>1. \A i \in Lines(k) : Ltr(k, i) \in {NoLetter, Asks(k, i)}
      BY <2>1, <2>2, <2>4, <2>5 DEF OnlyAsked, ltr
    <3>2. ASSUME NEW c2 \in k.fltr, c2 \notin FromStart
          PROVE  \E i \in Lines(k) : Ltr(k, i) = c2
      <4>1. CASE c2 \in m.fltr
        <5>1. PICK i \in Lines(m) : Ltr(m, i) = c2
          BY <3>2, <4>1 DEF OnlyAsked
        <5>2. NoLetter \in FromStart
          BY MenuDescAssumption DEF FromStart, NoLetter
        <5>3. i # n
          BY <2>6, <3>2, <5>1, <5>2
        <5> QED
          BY <2>2, <2>5, <5>1, <5>3
      <4>2. CASE c2 \notin m.fltr
        BY <2>1, <2>2, <3>2, <4>2
      <4> QED
        BY <4>1, <4>2
    <3> QED
      BY <3>1, <3>2 DEF OnlyAsked
  <2>11. Paired(k)
    <3>1. m.choices \in Nat /\ m.commands \in Nat /\ m.choices = m.commands + 1
      BY <1>2 DEF MenuType, Paired
    <3>2. k.choices \in k.commands .. k.commands + 1
      BY <2>1, <3>1
    <3>3. \A i \in Lines(k) : i # n => IsChoice(k, i)
      BY <2>2, <2>5 DEF Paired, n
    <3> QED
      BY <2>1, <3>2, <3>3 DEF Paired
  <2> QED
    BY <2>1, <2>8, <2>9, <2>10, <2>11
<1> QED
  BY <1>1, <1>2

\* A line that has the letter already, or one that is free, gets it.
LEMMA LetteredLetters ==
  ASSUME NEW m \in MenuType, NEW i \in Lines(m), NEW ltr \in Nat, NEW pos \in Nat, NEW k,
         k = Lettered(m, i, ltr, pos), LetterOwned(m), FirstServed(m), Paired(m),
         IsChoice(m, i),
         \/ Ltr(m, i) = ltr
         \/ Ltr(m, i) = NoLetter /\ (ltr \in Printed => ltr \notin m.fltr)
  PROVE  LetterOwned(k) /\ FirstServed(k) /\ Paired(k)
<1>1. /\ k \in MenuType /\ Len(k.line) = Len(m.line)
      /\ \A j \in Lines(m) : j # i => k.line[j] = m.line[j]
      /\ k.line[i].type = m.line[i].type /\ k.line[i].raw_text = m.line[i].raw_text
      /\ Ltr(k, i) = ltr /\ k.fltr = m.fltr \cup {ltr}
      /\ k.choices = m.choices /\ k.commands = m.commands
  BY LetteredIs
<1>2. Lines(k) = Lines(m) /\ \A j \in Lines(m) : j \in Nat /\ j >= 1
                                 /\ \A h \in 1..j : h \in Lines(m)
  BY <1>1, LineFacts DEF Lines
<1>3. \A j \in Lines(m) : k.line[j].raw_text = m.line[j].raw_text
  BY <1>1, Zenon
<1>4. \A j \in Lines(m) : Asks(k, j) = Asks(m, j) /\ (Wants(k, j) <=> Wants(m, j))
  BY <1>2, <1>3, WantsSame
<1>5. \A j \in Lines(m) : /\ IsChoice(k, j) <=> IsChoice(m, j)
                          /\ j # i => Ltr(k, j) = Ltr(m, j)
  BY <1>1, Zenon DEF Ltr, IsChoice
<1>6. NoLetter \notin Printed /\ Quit \in m.fltr
  BY LetterFacts DEF LetterOwned
<1>7. ltr \in Printed => ltr # Quit
  BY <1>6 DEF LetterOwned
<1>8. LetterOwned(k)
  <2>1. \A j \in Lines(k) : Ltr(k, j) \in Printed => Ltr(k, j) \in k.fltr /\ Ltr(k, j) # Quit
    <3> SUFFICES ASSUME NEW j \in Lines(m), Ltr(k, j) \in Printed
                 PROVE  Ltr(k, j) \in k.fltr /\ Ltr(k, j) # Quit
      BY <1>2
    <3>1. CASE j = i
      BY <1>1, <1>7, <3>1
    <3>2. CASE j # i
      BY <1>1, <1>5, <3>2 DEF LetterOwned
    <3> QED
      BY <3>1, <3>2
  <2>2. \A j, h \in Lines(k) : Ltr(k, j) \in Printed /\ Ltr(k, j) = Ltr(k, h) => j = h
    <3>1. ASSUME NEW j \in Lines(m), Ltr(m, j) = ltr, ltr \in Printed PROVE j = i
      BY <3>1 DEF LetterOwned
    <3> SUFFICES ASSUME NEW j \in Lines(m), NEW h \in Lines(m), Ltr(k, j) \in Printed,
                        Ltr(k, j) = Ltr(k, h), j # h
                 PROVE  FALSE
      BY <1>2, Zenon
    <3>2. j # i
      BY <1>1, <1>5, <3>1
    <3>3. h # i
      BY <1>1, <1>5, <3>1
    <3> QED
      BY <1>5, <3>2, <3>3 DEF LetterOwned
  <2>3. \A j \in Lines(k) : ~IsChoice(k, j) => Ltr(k, j) = NoLetter
    BY <1>2, <1>5, Zenon DEF LetterOwned
  <2> QED
    BY <1>1, <1>6, <2>1, <2>2, <2>3 DEF LetterOwned
<1>9. FirstServed(k)
  <2> SUFFICES ASSUME NEW j \in Lines(m), IsChoice(k, j), Wants(k, j)
               PROVE  Ltr(k, j) = Asks(k, j)
    BY <1>2, Zenon DEF FirstServed
  <2>1. Ltr(m, j) = Asks(m, j) /\ Asks(m, j) # NoLetter
    BY <1>4, <1>5 DEF FirstServed, Wants
  <2>2. CASE j # i
    BY <1>4, <1>5, <2>1, <2>2
  <2>3. CASE j = i
    BY <1>1, <1>4, <2>1, <2>3
  <2> QED
    BY <2>2, <2>3
<1>10. Paired(k)
  <2>1. m.line # <<>> <=> k.line # <<>>
    <3>1. m.line \in Seq(LineType) /\ k.line \in Seq(LineType)
      BY <1>1 DEF MenuType
    <3> QED
      BY <1>1, <3>1
  <2>2. k.line # <<>> => Len(m.line) \in Lines(m)
    <3>1. m.line \in Seq(LineType)
      BY DEF MenuType
    <3> QED
      BY <2>1, <3>1 DEF Lines
  <2>3. k.choices \in k.commands .. k.commands + 1
    BY <1>1 DEF Paired
  <2>4. \A j \in Lines(k) : j # Len(k.line) => IsChoice(k, j)
    BY <1>1, <1>2, <1>5, Zenon DEF Paired
  <2>5. k.line # <<>> /\ ~IsChoice(k, Len(k.line)) => k.choices = k.commands + 1
    BY <1>1, <1>5, <2>1, <2>2 DEF Paired
  <2> QED
    BY <2>3, <2>4, <2>5 DEF Paired
<1> QED
  BY <1>8, <1>9, <1>10

\* Where the cursor is makes no difference.
LEMMA MovedLetters ==
  ASSUME NEW m, NEW k, Moved(m, k), LetterOwned(m), FirstServed(m), Paired(m)
  PROVE  /\ LetterOwned(k) /\ FirstServed(k) /\ Paired(k) /\ Lines(k) = Lines(m)
         /\ Unused(k) = Unused(m)
         /\ \A i : IsChoice(k, i) <=> IsChoice(m, i)
<1>1. k.line = m.line /\ k.fltr = m.fltr /\ k.choices = m.choices /\ k.commands = m.commands
  BY DEF Moved
<1>2. /\ Lines(k) = Lines(m) /\ Unused(k) = Unused(m)
      /\ \A i : /\ Ltr(k, i) = Ltr(m, i) /\ Asks(k, i) = Asks(m, i)
                /\ IsChoice(k, i) <=> IsChoice(m, i)
  BY <1>1 DEF Lines, Unused, Ltr, Asks, IsChoice
<1>3. \A i : Wants(k, i) <=> Wants(m, i)
  BY <1>2, Zenon DEF Wants
<1>4. LetterOwned(k)
  BY <1>1, <1>2, Zenon DEF LetterOwned
<1>5. FirstServed(k)
  BY <1>2, <1>3, Zenon DEF FirstServed
<1>6. Paired(k)
  BY <1>1, <1>2, Zenon DEF Paired
<1> QED
  BY <1>2, <1>4, <1>5, <1>6

-----------------------------------------------------------------------------
(* The invariant. *)

TInv ==
    /\ pc \in {"config", "args", "desc", "letters", "keys", "popup", "usage", "exited",
               "crashed"}
    /\ reading \in Seq({"minitrc", "theme", "included"}) /\ Len(reading) <= MaxInclude + 1
    /\ init \in Options /\ roles \in [Role -> Nat] /\ inputs \in 0 .. Budget

\* What the description leaves, what the letters are given to, and what the menu shows:
\* a text without a command stays only when the letters ran out before it.
MInv ==
    /\ menu \in MenuType /\ LetterOwned(menu) /\ FirstServed(menu) /\ Paired(menu)
    /\ pc \in {"config", "args", "desc"} => OnlyAsked(menu)
    /\ pc = "letters" =>
           /\ menu.line_idx >= 1
           /\ \A j \in Lines(menu) : j < menu.line_idx => IsChoice(menu, j)
    /\ pc \in {"keys", "popup"} =>
           /\ menu.line # <<>>
           /\ (\A j \in Lines(menu) : IsChoice(menu, j)) \/ Unused(menu) = {}
    /\ pc = "keys" => menu.line_idx \in Lines(menu)

LEMMA ReadsType ==
  ASSUME TInv, NEW cost \in Nat, Reads(cost)
  PROVE  inputs' \in 0 .. Budget
  BY StartUpAssumption DEF TInv, Reads

LEMMA StartInv == Init => TInv /\ MInv
<1> SUFFICES ASSUME Init PROVE TInv /\ MInv
  OBVIOUS
<1>1. pc = "config" /\ menu = EmptyMenu /\ init = FirstOptions /\ roles = NoRoles
      /\ inputs = 0
  BY DEF Init
<1>2. MInv
  BY <1>1, EmptyMenuIs DEF MInv
<1>3. reading \in Seq({"minitrc", "theme", "included"}) /\ Len(reading) <= MaxInclude + 1
  <2>1. MaxInclude \in Nat
    BY StartUpAssumption
  <2>2. CASE reading = <<"minitrc">>
    BY <2>1, <2>2
  <2>3. CASE reading = <<"theme">>
    BY <2>1, <2>3
  <2> QED
    BY <2>2, <2>3 DEF Init
<1>4. roles \in [Role -> Nat]
  BY <1>1 DEF NoRoles
<1>5. inputs \in 0 .. Budget
  BY <1>1, StartUpAssumption
<1> QED
  BY <1>1, <1>2, <1>3, <1>4, <1>5, FirstOptionsType DEF TInv

\* What a popup does to the options.
LEMMA PopupType ==
  ASSUME TInv, NEW c \in Commands, Popup(c)
  PROVE  /\ pc' \in {"usage", "popup"}
         /\ init' \in Options /\ roles' \in [Role -> Nat]
<1>1. CASE Unknown(c.opts)
  BY <1>1 DEF Popup, TInv
<1>2. CASE ~Unknown(c.opts)
  <2>1. init' = ParseOpts(ZeroOptArgs(init), c.opts) /\ pc' = "popup"
        /\ roles' = Positional(c.kind, c.args, c.files)
    BY <1>2 DEF Popup
  <2>2. c.opts \in Seq(Offered \X Value)
    BY StartUpAssumption
  <2>3. \A d \in Offered \X Value : d[2] \in Value
    OBVIOUS
  <2>4. ZeroOptArgs(init) \in Options
    BY ZeroOptArgsType DEF TInv
  <2>5. init' \in Options
    BY <2>1, <2>2, <2>3, <2>4, ParseOptsType
  <2> QED
    BY <2>1, <2>5, PositionalType
<1> QED
  BY <1>1, <1>2

LEMMA RunsType ==
  ASSUME TInv, pc = "keys", NEW c \in Commands, Runs(c)
  PROVE  /\ pc' \in {"keys", "exited", "usage", "popup"}
         /\ init' \in Options /\ roles' \in [Role -> Nat]
<1>1. CASE c.kind \in {"return", "write_config", "exec", "unknown"}
  BY <1>1 DEF Runs, TInv
<1>2. CASE c.kind \notin {"return", "write_config", "exec", "unknown"}
  BY <1>2, PopupType DEF Runs
<1> QED
  BY <1>1, <1>2

\* A line that runs leaves the menu as it is and the cursor on it.
LEMMA RunInv ==
  ASSUME TInv, MInv, pc = "keys", NEW m, Moved(menu, m), NEW i \in Lines(menu), Run(m, i),
         inputs' \in 0 .. Budget, reading' = reading
  PROVE  TInv' /\ MInv'
<1>1. /\ m \in MenuType /\ LetterOwned(m) /\ FirstServed(m) /\ Paired(m)
      /\ Lines(m) = Lines(menu) /\ Unused(m) = Unused(menu) /\ m.line = menu.line
      /\ \A j : IsChoice(m, j) <=> IsChoice(menu, j)
  BY MovedLetters DEF MInv, Moved
<1>2. i \in Nat /\ menu' = [m EXCEPT !.line_idx = i]
  <2>1. i \in Nat
    BY DEF Lines
  <2> QED
    BY <2>1 DEF Run
<1>3. Moved(m, menu') /\ menu'.line_idx = i
  BY <1>1, <1>2, MovedTo
<1>4. /\ menu' \in MenuType /\ LetterOwned(menu') /\ FirstServed(menu') /\ Paired(menu')
      /\ Lines(menu') = Lines(m) /\ Unused(menu') = Unused(m) /\ menu'.line = m.line
      /\ \A j : IsChoice(menu', j) <=> IsChoice(m, j)
  BY <1>1, <1>3, MovedLetters DEF Moved
<1>5. /\ pc' \in {"keys", "exited", "usage", "popup"}
      /\ init' \in Options /\ roles' \in [Role -> Nat]
  <2>1. CASE IsChoice(m, i)
    <3>1. m.line[i] \in LineType
      BY <1>1, LineFacts
    <3>2. m.line[i].command \in Commands
      BY <2>1, <3>1 DEF LineType, IsChoice
    <3> QED
      BY <2>1, <3>2, RunsType DEF Run
  <2>2. CASE ~IsChoice(m, i)
    BY <2>2 DEF Run, TInv
  <2> QED
    BY <2>1, <2>2
<1>6. TInv'
  BY <1>5 DEF TInv
<1>7. menu.line # <<>> /\ ((\A j \in Lines(menu) : IsChoice(menu, j)) \/ Unused(menu) = {})
  BY DEF MInv
<1>8. (\A j \in Lines(menu') : IsChoice(menu', j)) \/ Unused(menu') = {}
  BY <1>1, <1>4, <1>7, Zenon
<1>9. MInv'
  BY <1>1, <1>3, <1>4, <1>5, <1>7, <1>8 DEF MInv
<1> QED
  BY <1>6, <1>9

-----------------------------------------------------------------------------
(* The steps. *)

\* Configuration and command line: the menu is empty still.
LEMMA ReadingInv ==
  ASSUME TInv, MInv,
         ConfigLine \/ IncludeLine \/ EndOfFile \/ EndConfig \/ SwitchArg \/ EndArgs
  PROVE  TInv' /\ MInv'
<1>1. /\ pc \in {"config", "args"} /\ pc' \in {"config", "args", "usage", "exited", "desc"}
      /\ menu' = menu
  BY DEF TInv, ConfigLine, IncludeLine, EndOfFile, EndConfig, SwitchArg, EndArgs
<1>2. MInv'
  BY <1>1 DEF MInv
<1>3. inputs' \in 0 .. Budget
  BY ReadsType DEF TInv, ConfigLine, IncludeLine, EndOfFile, EndConfig, SwitchArg, EndArgs
<1>4. roles' = roles
  BY DEF ConfigLine, IncludeLine, EndOfFile, EndConfig, SwitchArg, EndArgs
<1>5. init' \in Options
  <2>1. CASE ConfigLine
    <3>1. PICK k \in Key, v \in Value : init' = TakeLine(init, k, v)
      BY <2>1 DEF ConfigLine
    <3> QED
      BY <3>1, TakeLineType DEF TInv, AnyValue
  <2>2. CASE EndConfig
    <3>1. 0 \in Value
      BY ConfigAssumption
    <3> QED
      BY <2>2, <3>1 DEF EndConfig, TInv, Options
  <2>3. CASE SwitchArg
    <3>1. PICK o \in Switch, v \in Value :
              init' = init \/ init' = ParseOpts(init, <<<<o, v>>>>)
      BY <2>3 DEF SwitchArg
    <3>2. <<<<o, v>>>> \in Seq(Switch \X Value) /\ \A d \in Switch \X Value : d[2] \in Value
      OBVIOUS
    <3>3. ParseOpts(init, <<<<o, v>>>>) \in Options
      BY <3>2, ParseOptsType DEF TInv
    <3> QED
      BY <3>1, <3>3 DEF TInv
  <2>4. CASE IncludeLine \/ EndOfFile \/ EndArgs
    BY <2>4 DEF IncludeLine, EndOfFile, EndArgs, TInv
  <2> QED
    BY <2>1, <2>2, <2>3, <2>4
<1>6. reading' \in Seq({"minitrc", "theme", "included"}) /\ Len(reading') <= MaxInclude + 1
  <2>1. MaxInclude \in Nat /\ Len(reading) \in Nat
        /\ reading \in Seq({"minitrc", "theme", "included"})
    BY StartUpAssumption DEF TInv
  <2>2. CASE IncludeLine
    <3>1. /\ Append(reading, "included") \in Seq({"minitrc", "theme", "included"})
          /\ Len(Append(reading, "included")) = Len(reading) + 1
      BY <2>1
    <3> QED
      BY <2>1, <2>2, <3>1 DEF IncludeLine, TInv
  <2>3. CASE EndOfFile
    <3>1. <<"theme">> \in Seq({"minitrc", "theme", "included"}) /\ Len(<<"theme">>) = 1
          /\ <<>> \in Seq({"minitrc", "theme", "included"}) /\ Len(<<>>) = 0
      OBVIOUS
    <3>2. reading # <<>> => /\ Front(reading) \in Seq({"minitrc", "theme", "included"})
                            /\ Len(Front(reading)) <= Len(reading)
      BY <2>1 DEF Front
    <3>3. \/ reading # <<>> /\ reading' = Front(reading)
          \/ reading' = <<"theme">> \/ reading' = <<>>
      BY <2>3 DEF EndOfFile
    <3>4. Len(reading) <= MaxInclude + 1
      BY DEF TInv
    <3>5. CASE reading # <<>> /\ reading' = Front(reading)
      <4>1. reading' \in Seq({"minitrc", "theme", "included"})
        BY <3>2, <3>5
      <4>2. Len(reading') \in Nat /\ Len(reading') <= Len(reading)
        <5>1. Len(reading') \in Nat
          BY <4>1
        <5>2. Len(reading') <= Len(reading)
          BY <3>2, <3>5
        <5> QED
          BY <5>1, <5>2
      <4>3. Len(reading') <= MaxInclude + 1
        BY <2>1, <3>4, <4>2
      <4> QED
        BY <4>1, <4>3
    <3>6. 1 <= MaxInclude + 1 /\ 0 <= MaxInclude + 1
      BY <2>1
    <3>7. CASE reading' = <<"theme">> \/ reading' = <<>>
      BY <3>1, <3>6, <3>7, Zenon
    <3> QED
      BY <3>3, <3>5, <3>7, Zenon
  <2>4. CASE ConfigLine \/ EndConfig \/ SwitchArg \/ EndArgs
    BY <2>4 DEF ConfigLine, EndConfig, SwitchArg, EndArgs, TInv
  <2> QED
    BY <2>2, <2>3, <2>4
<1> QED
  BY <1>1, <1>2, <1>3, <1>4, <1>5, <1>6 DEF TInv

\* The description.
LEMMA DescriptionInv ==
  ASSUME TInv, MInv, ChoiceLine \/ CommandLine \/ EndDesc
  PROVE  TInv' /\ MInv'
<1>1. pc = "desc" /\ OnlyAsked(menu)
  BY DEF ChoiceLine, CommandLine, EndDesc, MInv
<1>2. pc' \in {"desc", "exited", "crashed", "letters"}
  BY <1>1 DEF ChoiceLine, CommandLine, EndDesc
<1>3. inputs' \in 0 .. Budget
  BY ReadsType DEF TInv, ChoiceLine, CommandLine, EndDesc
<1>4. TInv'
  BY <1>2, <1>3 DEF TInv, ChoiceLine, CommandLine, EndDesc
<1>5. CASE ChoiceLine
  <2>1. CASE menu.choices > menu.commands
    <3>1. pc' = "exited" /\ menu' = menu
      BY <1>5, <2>1 DEF ChoiceLine
    <3>2. MInv'
      BY <3>1 DEF MInv
    <3> QED
      BY <1>4, <3>2
  <2>2. CASE ~(menu.choices > menu.commands) /\ ~menu.title
    <3>1. menu' = [menu EXCEPT !.title = TRUE] /\ pc' = pc
      BY <1>5, <2>2 DEF ChoiceLine
    <3>2. Moved(menu, menu')
      BY <3>1 DEF Moved, MInv, MenuType
    <3>3. /\ LetterOwned(menu') /\ FirstServed(menu') /\ Paired(menu')
          /\ menu' \in MenuType /\ menu'.line = menu.line /\ menu'.fltr = menu.fltr
      BY <3>2, MovedLetters DEF MInv, Moved
    <3>4. OnlyAsked(menu')
      BY <1>1, <3>3 DEF OnlyAsked, Lines, Ltr, Asks
    <3> QED
      BY <1>1, <1>4, <3>1, <3>3, <3>4 DEF MInv
  <2>3. CASE ~(menu.choices > menu.commands) /\ menu.title
    <3>1. PICK t \in Text : menu' = TextLine(menu, t)
      BY <1>5, <2>3 DEF ChoiceLine
    <3>2. pc' \in {"desc", "crashed"}
      BY <1>1, <1>5, <2>3 DEF ChoiceLine
    <3>3. /\ menu' \in MenuType /\ LetterOwned(menu') /\ FirstServed(menu')
          /\ OnlyAsked(menu') /\ Paired(menu')
      BY <1>1, <2>3, <3>1, TextLineIs, TextLineLetters DEF MInv
    <3> QED
      BY <1>4, <3>2, <3>3 DEF MInv
  <2> QED
    BY <2>1, <2>2, <2>3
<1>6. CASE CommandLine
  <2>1. PICK c \in Commands : menu' = Command(menu, c)
    BY <1>6 DEF CommandLine
  <2>2. /\ menu' \in MenuType /\ LetterOwned(menu') /\ FirstServed(menu')
        /\ OnlyAsked(menu') /\ Paired(menu')
    BY <1>1, <2>1, CommandLetters DEF MInv
  <2> QED
    BY <1>1, <1>4, <1>6, <2>2 DEF MInv, CommandLine
<1>7. CASE EndDesc
  <2>1. menu' = [menu EXCEPT !.line_idx = 1] /\ pc' = "letters"
    BY <1>7 DEF EndDesc
  <2>2. Moved(menu, menu') /\ menu'.line_idx = 1
    BY <2>1, MovedTo DEF MInv
  <2>3. /\ LetterOwned(menu') /\ FirstServed(menu') /\ Paired(menu') /\ menu' \in MenuType
    BY <2>2, MovedLetters DEF MInv, Moved
  <2>4. \A j \in Lines(menu') : ~(j < 1)
    BY DEF Lines
  <2> QED
    BY <1>4, <2>1, <2>2, <2>3, <2>4 DEF MInv
<1> QED
  BY <1>5, <1>6, <1>7

\* A letter is given to the line at line_idx, a choice, and the next one is due.
LEMMA LetteredInv ==
  ASSUME TInv, MInv, pc = "letters", menu.line_idx \in Lines(menu),
         IsChoice(menu, menu.line_idx), NEW ltr \in Nat, NEW pos \in Nat,
         menu' = Next1(Lettered(menu, menu.line_idx, ltr, pos)), UNCHANGED pc,
         \/ Ltr(menu, menu.line_idx) = ltr
         \/ Ltr(menu, menu.line_idx) = NoLetter /\ (ltr \in Printed => ltr \notin menu.fltr)
  PROVE  MInv'
<1> DEFINE i == menu.line_idx
           k == Lettered(menu, i, ltr, pos)
<1>1. menu \in MenuType /\ LetterOwned(menu) /\ FirstServed(menu) /\ Paired(menu)
      /\ \A j \in Lines(menu) : j < i => IsChoice(menu, j)
  BY DEF MInv
<1>2. /\ k \in MenuType /\ Len(k.line) = Len(menu.line)
      /\ \A j \in Lines(menu) : j # i => k.line[j] = menu.line[j]
      /\ k.line[i].type = menu.line[i].type /\ k.line_idx = i
  BY <1>1, LetteredIs
<1>3. LetterOwned(k) /\ FirstServed(k) /\ Paired(k)
  BY <1>1, LetteredLetters
<1> HIDE DEF k
<1>4. i \in Nat /\ i >= 1 /\ i + 1 \in Nat
  <2>1. i \in Nat /\ i >= 1
    BY DEF Lines
  <2> QED
    BY <2>1
<1>5. menu' = [k EXCEPT !.line_idx = i + 1]
  BY <1>2 DEF Next1, k
<1>6. Moved(k, menu') /\ menu'.line_idx = i + 1
  BY <1>2, <1>4, <1>5, MovedTo
<1>7. /\ menu' \in MenuType /\ LetterOwned(menu') /\ FirstServed(menu') /\ Paired(menu')
      /\ Lines(menu') = Lines(k)
      /\ \A j : IsChoice(menu', j) <=> IsChoice(k, j)
  BY <1>3, <1>6, MovedLetters DEF Moved
<1>8. Lines(k) = Lines(menu)
  BY <1>2 DEF Lines
<1>9. \A j \in Lines(menu) : IsChoice(k, j) <=> IsChoice(menu, j)
  BY <1>2 DEF IsChoice
<1>10. \A j \in Lines(menu) : j < i + 1 => j < i \/ j = i
  BY <1>4 DEF Lines
<1>11. \A j \in Lines(menu') : j < i + 1 => IsChoice(menu', j)
  BY <1>1, <1>7, <1>8, <1>9, <1>10, Zenon
<1> QED
  BY <1>4, <1>6, <1>7, <1>11 DEF MInv

\* Where a letter is in the text of a choice.
LEMMA PlaceFacts ==
  ASSUME NEW m \in MenuType, NEW i \in Lines(m)
  PROVE  LET s == Rest(m.line[i].raw_text)
         IN  /\ DOMAIN s \in SUBSET Nat
             /\ \A k \in DOMAIN s : s[k] \in Nat /\ PosOf(k) \in Nat
<1> DEFINE t == m.line[i].raw_text
<1>1. t \in Seq(Nat)
  <2>1. t \in Text
    BY LineFacts DEF LineType
  <2> QED
    BY <2>1, StartUpAssumption
<1> HIDE DEF t
<1>2. Rest(t) \in Seq(Nat)
  <2>1. CASE Head(t) \in Designator
    <3>1. Rest(t) = SubSeq(t, 3, Len(t))
      BY <2>1 DEF Rest
    <3>2. SubSeq(t, 3, Len(t)) \in Seq(Nat)
      BY <1>1
    <3> QED
      BY <3>1, <3>2
  <2>2. CASE Head(t) \notin Designator
    BY <1>1, <2>2 DEF Rest
  <2> QED
    BY <2>1, <2>2
<1> DEFINE s == Rest(t)
<1> HIDE DEF s
<1>3. s \in Seq(Nat)
  BY <1>2 DEF s
<1>4. DOMAIN s \in SUBSET Nat /\ \A k \in DOMAIN s : s[k] \in Nat /\ PosOf(k) \in Nat
  BY <1>3 DEF PosOf
<1> QED
  BY <1>4 DEF s, t

LEMMA LetterInv ==
  ASSUME TInv, MInv, Letter
  PROVE  TInv' /\ MInv'
<1> DEFINE i == menu.line_idx
           s == Rest(menu.line[i].raw_text)
<1>1. /\ pc = "letters" /\ i <= Len(menu.line) /\ pc' \in {"crashed", "letters", "keys"}
      /\ UNCHANGED <<reading, init, ran, roles, dump, log, inputs>>
  BY DEF Letter
<1>2. TInv'
  BY <1>1 DEF TInv
<1>3. menu \in MenuType /\ LetterOwned(menu) /\ FirstServed(menu) /\ Paired(menu) /\ i >= 1
  BY <1>1 DEF MInv
<1>4. i \in Lines(menu) /\ i \in Nat
  <2>1. i \in Nat
    BY <1>3 DEF MenuType
  <2> QED
    BY <1>1, <1>3, <2>1, LineFacts DEF Lines
<1>5. DOMAIN s \in SUBSET Nat /\ \A k \in DOMAIN s : s[k] \in Nat /\ PosOf(k) \in Nat
  BY <1>3, <1>4, PlaceFacts
<1>6. Ltr(menu, i) \in Nat
  BY <1>3, <1>4, LineFacts
<1>7. CASE ~IsChoice(menu, i)
  <2>1. pc' = "crashed" /\ menu' = menu
    BY <1>7 DEF Letter
  <2>2. MInv'
    BY <2>1 DEF MInv
  <2> QED
    BY <1>2, <2>2
<1>8. CASE IsChoice(menu, i) /\ Ltr(menu, i) # NoLetter
  <2> DEFINE has == {k \in DOMAIN s : s[k] = Ltr(menu, i)}
             pos == IF has = {} THEN 1 ELSE PosOf(CHOOSE k \in has : \A j \in has : k <= j)
  <2>1. menu' = Next1(Reserved(menu, i)) /\ UNCHANGED pc
    BY <1>8 DEF Letter, Ltr
  <2>2. pos \in Nat
    <3>1. CASE has = {}
      BY <3>1
    <3>2. CASE has # {}
      <4>1. has \in SUBSET Nat
        BY <1>5
      <4>2. (CHOOSE k \in has : \A j \in has : k <= j) \in has
        BY <3>2, <4>1, Least
      <4> QED
        BY <1>5, <3>2, <4>2
    <3> QED
      BY <3>1, <3>2
  <2>3. Reserved(menu, i) = Lettered(menu, i, Ltr(menu, i), pos)
    BY DEF Reserved, Ltr
  <2> HIDE DEF pos
  <2>4. MInv'
    BY <1>1, <1>4, <1>6, <1>8, <2>1, <2>2, <2>3, LetteredInv
  <2> QED
    BY <1>2, <2>4
<1>9. CASE IsChoice(menu, i) /\ Ltr(menu, i) = NoLetter
  <2>1. \/ \E k \in Places(menu, i) : menu' = Next1(Picked(menu, i, k)) /\ UNCHANGED pc
        \/ /\ NoPlace(menu, i)
           /\ IF Unused(menu) = {} THEN pc' = "keys" /\ menu' = ResetMenu(menu)
              ELSE menu' = Next1(FallBack(menu, i)) /\ UNCHANGED pc
    BY <1>9 DEF Letter, Ltr
  <2>2. CASE \E k \in Places(menu, i) : menu' = Next1(Picked(menu, i, k)) /\ UNCHANGED pc
    <3>1. PICK k \in Places(menu, i) : menu' = Next1(Picked(menu, i, k)) /\ UNCHANGED pc
      BY <2>2
    <3>2. k \in DOMAIN s /\ ((s[k] # Blank /\ s[k] \notin menu.fltr) \/ s[k] > Final)
      BY DEF Places
    <3>3. s[k] \in Nat /\ PosOf(k) \in Nat
      BY <1>5, <3>2
    <3>4. s[k] \in Printed => s[k] \notin menu.fltr
      <4>1. s[k] > Final => s[k] \notin Printed
        BY <3>3, MenuDescAssumption DEF Printed
      <4> QED
        BY <3>2, <4>1
    <3>5. Picked(menu, i, k) = Lettered(menu, i, s[k], PosOf(k))
      BY DEF Picked
    <3> HIDE DEF s
    <3>6. MInv'
      BY <1>1, <1>4, <1>9, <3>1, <3>3, <3>4, <3>5, LetteredInv
    <3> QED
      BY <1>2, <3>6
  <2>3. CASE Unused(menu) = {} /\ pc' = "keys" /\ menu' = ResetMenu(menu)
    <3>1. Moved(menu, menu') /\ (menu.line # <<>> => menu'.line_idx \in Lines(menu'))
      BY <1>3, <2>3, ResetMenuIs
    <3>2. menu.line # <<>>
      BY <1>4 DEF Lines
    <3>3. /\ menu' \in MenuType /\ menu'.line = menu.line
          /\ LetterOwned(menu') /\ FirstServed(menu') /\ Paired(menu')
          /\ Unused(menu') = Unused(menu)
      BY <1>3, <3>1, MovedLetters DEF Moved
    <3>4. MInv'
      BY <2>3, <3>1, <3>2, <3>3 DEF MInv
    <3> QED
      BY <1>2, <3>4
  <2>4. CASE Unused(menu) # {} /\ menu' = Next1(FallBack(menu, i)) /\ UNCHANGED pc
    <3> DEFINE c == CHOOSE c \in Unused(menu) : \A d \in Unused(menu) : c <= d
    <3>1. Unused(menu) \in SUBSET Nat
      BY LetterFacts DEF Unused
    <3>2. c \in Unused(menu)
      BY <2>4, <3>1, Least
    <3>3. FallBack(menu, i) = Lettered(menu, i, c, 1)
      BY DEF FallBack
    <3> HIDE DEF c
    <3>4. c \in Nat /\ c \notin menu.fltr
      BY <3>1, <3>2 DEF Unused
    <3>5. MInv'
      BY <1>1, <1>4, <1>9, <2>4, <3>3, <3>4, LetteredInv
    <3> QED
      BY <1>2, <3>5
  <2> QED
    BY <2>1, <2>2, <2>3, <2>4
<1> QED
  BY <1>7, <1>8, <1>9

\* The menu is drawn: every line has a command, but for a text after the last one.
LEMMA ShowMenuInv ==
  ASSUME TInv, MInv, ShowMenu
  PROVE  TInv' /\ MInv'
<1>1. /\ pc = "letters" /\ pc' \in {"crashed", "keys"} /\ menu' = ResetMenu(menu)
      /\ pc' = "keys" => menu.line # <<>>
      /\ UNCHANGED <<reading, init, ran, roles, dump, log, inputs>>
      /\ menu.line_idx > Len(menu.line)
  BY DEF ShowMenu
<1>2. TInv'
  BY <1>1 DEF TInv
<1>3. menu \in MenuType /\ LetterOwned(menu) /\ FirstServed(menu) /\ Paired(menu)
  BY DEF MInv
<1>4. Moved(menu, menu') /\ (menu.line # <<>> => menu'.line_idx \in Lines(menu'))
  BY <1>1, <1>3, ResetMenuIs
<1>5. /\ menu' \in MenuType /\ menu'.line = menu.line
      /\ LetterOwned(menu') /\ FirstServed(menu') /\ Paired(menu')
      /\ Lines(menu') = Lines(menu) /\ \A j : IsChoice(menu', j) <=> IsChoice(menu, j)
  BY <1>3, <1>4, MovedLetters DEF Moved
<1>6. \A j \in Lines(menu) : IsChoice(menu, j)
  <2>1. \A j \in Lines(menu) : j < menu.line_idx
    <3>1. menu.line_idx \in Nat /\ Len(menu.line) \in Nat
      BY <1>3, LineFacts DEF MenuType
    <3> QED
      BY <1>1, <3>1 DEF Lines
  <2> QED
    BY <1>1, <2>1 DEF MInv
<1>7. MInv'
  BY <1>1, <1>4, <1>5, <1>6 DEF MInv
<1> QED
  BY <1>2, <1>7

LEMMA CursorKeyInv ==
  ASSUME TInv, MInv, CursorKey
  PROVE  TInv' /\ MInv'
<1>1. /\ pc = "keys" /\ menu' \in {Up(menu), Down(menu)}
      /\ UNCHANGED <<pc, reading, init, ran, roles, dump, log, inputs>>
  BY DEF CursorKey
<1>2. TInv'
  BY <1>1 DEF TInv
<1>3. /\ menu \in MenuType /\ LetterOwned(menu) /\ FirstServed(menu) /\ Paired(menu)
      /\ menu.line_idx \in Lines(menu) /\ menu.line # <<>>
      /\ (\A j \in Lines(menu) : IsChoice(menu, j)) \/ Unused(menu) = {}
  BY <1>1 DEF MInv
<1>4. Moved(menu, menu') /\ menu'.line_idx \in Lines(menu)
  BY <1>1, <1>3, UpIs, DownIs
<1>5. /\ menu' \in MenuType /\ menu'.line = menu.line
      /\ LetterOwned(menu') /\ FirstServed(menu') /\ Paired(menu')
      /\ Lines(menu') = Lines(menu) /\ Unused(menu') = Unused(menu)
      /\ \A j : IsChoice(menu', j) <=> IsChoice(menu, j)
  BY <1>3, <1>4, MovedLetters DEF Moved
<1>6. (\A j \in Lines(menu') : IsChoice(menu', j)) \/ Unused(menu') = {}
  BY <1>3, <1>5, Zenon
<1>7. MInv'
  BY <1>1, <1>3, <1>4, <1>5, <1>6 DEF MInv
<1> QED
  BY <1>2, <1>7

\* ENTER, a click or a letter runs a line, or the letter is of no line.
LEMMA RunKeyInv ==
  ASSUME TInv, MInv, Enter \/ Mouse \/ LetterKey
  PROVE  TInv' /\ MInv'
<1>1. pc = "keys" /\ reading' = reading
  BY DEF Enter, Mouse, LetterKey
<1>2. inputs' \in 0 .. Budget
  BY ReadsType DEF Enter, Mouse, LetterKey
<1>3. menu \in MenuType /\ menu.line_idx \in Lines(menu) /\ DOMAIN menu.line = Lines(menu)
      /\ Moved(menu, menu)
  BY <1>1, LineFacts DEF MInv, Moved
<1>4. CASE Enter
  <2>1. Run(menu, menu.line_idx)
    BY <1>4 DEF Enter
  <2> QED
    BY <1>1, <1>2, <1>3, <2>1, RunInv
<1>5. CASE Mouse
  <2>1. PICK i \in DOMAIN menu.line : Run(menu, i)
    BY <1>5 DEF Mouse
  <2> QED
    BY <1>1, <1>2, <1>3, <2>1, RunInv
<1>6. CASE LetterKey
  <2>1. PICK b \in Byte \ {Quit} :
            IF WithLetter(menu, b) = {} THEN UNCHANGED <<pc, init, menu, ran, roles, dump, log>>
            ELSE Run(ToLetter(menu, b), ToLetter(menu, b).line_idx)
    BY <1>6 DEF LetterKey
  <2>2. CASE WithLetter(menu, b) = {}
    <3>1. UNCHANGED <<pc, init, menu, roles>>
      BY <2>1, <2>2
    <3>2. MInv'
      BY <3>1 DEF MInv
    <3> QED
      BY <1>1, <1>2, <3>1, <3>2 DEF TInv
  <2>3. CASE WithLetter(menu, b) # {}
    <3>1. Moved(menu, ToLetter(menu, b)) /\ ToLetter(menu, b).line_idx \in Lines(menu)
      BY <1>3, <2>3, ToLetterIs
    <3>2. Run(ToLetter(menu, b), ToLetter(menu, b).line_idx)
      BY <2>1, <2>3
    <3> QED
      BY <1>1, <1>2, <3>1, <3>2, RunInv
  <2> QED
    BY <2>2, <2>3
<1> QED
  BY <1>4, <1>5, <1>6

\* The menu ends, or is shown again after a popup.
LEMMA EndInv ==
  ASSUME TInv, MInv, QuitKey \/ PopupEnd
  PROVE  TInv' /\ MInv'
<1>1. CASE QuitKey
  <2>1. pc' = "exited" /\ UNCHANGED <<reading, init, menu, roles, inputs>>
    BY <1>1 DEF QuitKey
  <2>2. MInv'
    BY <2>1 DEF MInv
  <2> QED
    BY <2>1, <2>2 DEF TInv
<1>2. CASE PopupEnd
  <2>1. /\ pc = "popup" /\ pc' = "keys" /\ menu' = ResetMenu(menu) /\ roles' = NoRoles
        /\ UNCHANGED <<reading, init, inputs>>
    BY <1>2 DEF PopupEnd
  <2>2. roles' \in [Role -> Nat]
    BY <2>1 DEF NoRoles
  <2>3. TInv'
    BY <2>1, <2>2 DEF TInv
  <2>4. /\ menu \in MenuType /\ LetterOwned(menu) /\ FirstServed(menu) /\ Paired(menu)
        /\ menu.line # <<>>
        /\ (\A j \in Lines(menu) : IsChoice(menu, j)) \/ Unused(menu) = {}
    BY <2>1 DEF MInv
  <2>5. Moved(menu, menu') /\ menu'.line_idx \in Lines(menu')
    BY <2>1, <2>4, ResetMenuIs
  <2>6. /\ menu' \in MenuType /\ menu'.line = menu.line
        /\ LetterOwned(menu') /\ FirstServed(menu') /\ Paired(menu')
        /\ Lines(menu') = Lines(menu) /\ Unused(menu') = Unused(menu)
        /\ \A j : IsChoice(menu', j) <=> IsChoice(menu, j)
    BY <2>4, <2>5, MovedLetters DEF Moved
  <2>7. (\A j \in Lines(menu') : IsChoice(menu', j)) \/ Unused(menu') = {}
    BY <2>4, <2>6, Zenon
  <2>8. MInv'
    BY <2>1, <2>4, <2>5, <2>6, <2>7 DEF MInv
  <2> QED
    BY <2>3, <2>8
<1> QED
  BY <1>1, <1>2

LEMMA StepInv == TInv /\ MInv /\ [Next]_vars => TInv' /\ MInv'
<1> SUFFICES ASSUME TInv, MInv, [Next]_vars PROVE TInv' /\ MInv'
  OBVIOUS
<1>1. CASE ConfigLine \/ IncludeLine \/ EndOfFile \/ EndConfig \/ SwitchArg \/ EndArgs
  BY <1>1, ReadingInv
<1>2. CASE ChoiceLine \/ CommandLine \/ EndDesc
  BY <1>2, DescriptionInv
<1>3. CASE Letter
  BY <1>3, LetterInv
<1>4. CASE ShowMenu
  BY <1>4, ShowMenuInv
<1>5. CASE CursorKey
  BY <1>5, CursorKeyInv
<1>6. CASE Enter \/ Mouse \/ LetterKey
  BY <1>6, RunKeyInv
<1>7. CASE QuitKey \/ PopupEnd
  BY <1>7, EndInv
<1>8. CASE UNCHANGED vars
  <2>1. UNCHANGED <<pc, reading, init, menu, roles, inputs>>
    BY <1>8 DEF vars
  <2>2. MInv'
    BY <2>1 DEF MInv
  <2> QED
    BY <2>1, <2>2 DEF TInv
<1> QED
  BY <1>1, <1>2, <1>3, <1>4, <1>5, <1>6, <1>7, <1>8, Zenon DEF Next

\* In every state of the start the types hold, the letters that are given belong to one
\* line each and the line that asked first has what it asked for.
THEOREM Invariant == Spec => [](TInv /\ MInv)
  BY StartInv, StepInv, PTL DEF Spec

-----------------------------------------------------------------------------
(* The properties. *)

LEMMA InvTypes ==
  ASSUME TInv, MInv
  PROVE  TypeOK
<1>1. /\ pc \in {"config", "args", "desc", "letters", "keys", "popup", "usage", "exited",
                 "crashed"}
      /\ Len(reading) <= MaxInclude + 1
      /\ init \in [Option -> Value \cup {Default}]
      /\ roles \in [Role -> Nat] /\ inputs \in 0 .. Budget
  BY DEF TInv, Options
<1>2. menu.choices \in menu.commands .. menu.commands + 1
  BY DEF MInv, Paired
<1>3. ASSUME pc = "keys"
      PROVE  menu.line_idx \in DOMAIN menu.line
             /\ (IsChoice(menu, menu.line_idx) \/ Unused(menu) = {})
  BY <1>3, LineFacts DEF MInv
<1> QED
  BY <1>1, <1>2, <1>3 DEF TypeOK

LEMMA InvLetters ==
  ASSUME MInv
  PROVE  LettersRight
<1> DEFINE S == {i \in DOMAIN menu.line : menu.line[i].choice_letter \in Blank .. Final}
           f == [i \in S |-> Ltr(menu, i)]
<1>1. menu \in MenuType /\ LetterOwned(menu) /\ FirstServed(menu) /\ DOMAIN menu.line = Lines(menu)
  BY LineFacts DEF MInv
<1>2. S = {i \in Lines(menu) : Ltr(menu, i) \in Printed}
  BY <1>1 DEF Ltr, Printed
<1>3. Letters(S) = {Ltr(menu, i) : i \in S}
  BY DEF Letters, Ltr
<1> HIDE DEF S
<1>4. Cardinality(Letters(S)) = Cardinality(S)
  <2>1. IsFiniteSet(S)
    <3>1. Len(menu.line) \in Nat
      BY <1>1, LineFacts
    <3>2. IsFiniteSet(Lines(menu))
      BY <3>1, FS_Interval DEF Lines
    <3> QED
      BY <1>2, <3>2, FS_Subset
  <2>2. f \in Bijection(S, Letters(S))
    <3>1. f \in [S -> Letters(S)] /\ \A t \in Letters(S) : \E i \in S : f[i] = t
      BY <1>3
    <3>2. \A i, j \in S : f[i] = f[j] => i = j
      BY <1>1, <1>2 DEF LetterOwned
    <3> QED
      BY <3>1, <3>2, Fun_IsBij
  <2>3. ExistsBijection(S, Letters(S))
    BY <2>2 DEF ExistsBijection
  <2> QED
    BY <2>1, <2>3, FS_Bijection
<1>5. Quit \notin Letters(S)
  BY <1>1, <1>2, <1>3 DEF LetterOwned
<1>6. ASSUME NEW i \in S, Asked(menu.line[i].raw_text) \notin {NoLetter, Quit},
             \A j \in 1 .. i - 1 :
                 Asked(menu.line[j].raw_text) # Asked(menu.line[i].raw_text)
      PROVE  menu.line[i].choice_letter = Asked(menu.line[i].raw_text)
  <2>1. Wants(menu, i)
    BY <1>6 DEF Wants, Asks
  <2>2. i \in Lines(menu) /\ Ltr(menu, i) # NoLetter
    BY <1>2, LetterFacts
  <2>3. IsChoice(menu, i)
    BY <1>1, <2>2 DEF LetterOwned
  <2> QED
    BY <1>1, <2>1, <2>2, <2>3 DEF FirstServed, Ltr, Asks
<1> QED
  BY <1>4, <1>5, <1>6 DEF LettersRight, S

\* Every state has the types that StartUp declares: the files in hand never more than
\* the code opens, the options and the arguments what the files and switches can say
\* (init.c, parse_menu_desc.c), and the cursor of a menu that waits for a key
\* (menu_engine.c:256) on a line that runs, unless the letters ran out.
THEOREM TypeCorrect == Spec => []TypeOK
  BY Invariant, InvTypes, PTL

\* Whatever the texts ask for and run out of, no two lines of a menu that is shown have
\* the same letter, none has the q that ends the menu, and the line that asks first for a
\* letter gets it (menu_engine.c, parse_menu_desc.c; docs/C-Menu-UG.md:143).
THEOREM LettersCorrect == Spec => []LettersRight
  BY Invariant, InvLetters, PTL

-----------------------------------------------------------------------------
(* Options: what was given last, and what a dump says. *)

\* What stands in the log: names of options, and the value they were given, which is a
\* truth value when they are flags.
Names == AnyOption \cup Zeroed
Entry == {e \in [keys : SUBSET Names, value : Value] :
              e.keys \cap Flags # {} => e.value \in {0, 1}}

LEMMA EntryOf ==
  ASSUME NEW K \in SUBSET Names, NEW v \in Value, K \cap Flags # {} => v \in {0, 1}
  PROVE  [keys |-> K, value |-> v] \in Entry
  BY DEF Entry

LEMMA FlagValues ==
  ASSUME NEW o \in Flags, NEW v \in Nat
  PROVE  Stored(o, v) \in {0, 1} /\ Switched(o, v) \in {0, 1}
  BY DEF Stored, Switched

\* One more entry decides what its own names were given last.
OneMore(G, H, n) == DOMAIN G = 1..n /\ DOMAIN H = 1..(n + 1) /\ \A i \in 1..n : H[i] = G[i]

Decided(G, H, n, o) ==
    LastGiven(H, o) = IF o \in H[n + 1].keys THEN H[n + 1].value ELSE LastGiven(G, o)

LEMMA LastStep ==
  ASSUME NEW n \in Nat, NEW G, NEW H, NEW o, OneMore(G, H, n)
  PROVE  Decided(G, H, n, o)
<1> SUFFICES LastGiven(H, o) = IF o \in H[n + 1].keys THEN H[n + 1].value ELSE LastGiven(G, o)
  BY DEF Decided
<1> DEFINE atG == {i \in DOMAIN G : o \in G[i].keys}
           atH == {i \in DOMAIN H : o \in H[i].keys}
<1>0. DOMAIN G = 1..n /\ DOMAIN H = 1..(n + 1) /\ \A i \in 1..n : H[i] = G[i]
  BY DEF OneMore
<1>1. /\ LastGiven(G, o) = IF atG = {} THEN FirstOptions[o] ELSE G[Max(atG)].value
      /\ LastGiven(H, o) = IF atH = {} THEN FirstOptions[o] ELSE H[Max(atH)].value
  BY DEF LastGiven
<1>2. n + 1 \in Nat /\ n + 1 \in 1..(n + 1) /\ \A i \in 1..(n + 1) : i # n + 1 => i \in 1..n
  OBVIOUS
<1>3. atG \in SUBSET (1..n) /\ atH \in SUBSET (1..(n + 1))
  BY <1>0
<1>4. CASE o \in H[n + 1].keys
  <2>1. n + 1 \in atH
    BY <1>0, <1>2, <1>4
  <2> HIDE DEF atH, atG
  <2>2. Max(atH) \in 1..(n + 1) /\ n + 1 <= Max(atH)
    BY <1>2, <1>3, <2>1, MaxIn
  <2>3. Max(atH) = n + 1
    BY <2>2
  <2> QED
    BY <1>1, <1>4, <2>1, <2>3
<1>5. CASE o \notin H[n + 1].keys
  <2>1. atH = atG
    BY <1>0, <1>2, <1>5
  <2>2. atG # {} => H[Max(atG)] = G[Max(atG)]
    <3> HIDE DEF atG
    <3>1. atG # {} => Max(atG) \in 1..n
      BY <1>3, MaxIn
    <3> QED
      BY <1>0, <3>1
  <2> HIDE DEF atH, atG
  <2> QED
    BY <1>1, <1>5, <2>1, <2>2, Zenon
<1> QED
  BY <1>4, <1>5

LEMMA LastAppend ==
  ASSUME NEW L \in Seq(Entry), NEW e \in Entry, NEW o
  PROVE  /\ Append(L, e) \in Seq(Entry)
         /\ LastGiven(Append(L, e), o) = IF o \in e.keys THEN e.value ELSE LastGiven(L, o)
<1> DEFINE H == Append(L, e)
           n == Len(L)
<1>1. /\ n \in Nat /\ DOMAIN L = 1..n /\ DOMAIN H = 1..(n + 1)
      /\ H[n + 1] = e /\ \A i \in 1..n : H[i] = L[i]
  OBVIOUS
<1> HIDE DEF H, n
<1>2. LastGiven(H, o) = IF o \in H[n + 1].keys THEN H[n + 1].value ELSE LastGiven(L, o)
  BY <1>1, LastStep DEF OneMore, Decided
<1> QED
  BY <1>1, <1>2 DEF H

\* A switch sets its own field.
LEMMA SetSwitchOne ==
  ASSUME NEW i \in Options, NEW d, NEW v, NEW o \in Option
  PROVE  SetSwitch(i, d, v)[o] = IF d = o THEN Switched(o, v) ELSE i[o]
  BY DEF SetSwitch, Options

\* K is a, and b behind it.
Joins(K, a, b) ==
    /\ DOMAIN K = 1..(Len(a) + Len(b))
    /\ \A i \in 1..Len(a) : K[i] = a[i]
    /\ \A k \in 1..Len(b) : K[Len(a) + k] = b[k]

LEMMA Joined ==
  ASSUME NEW S, NEW a \in Seq(S), NEW b \in Seq(S)
  PROVE  a \o b \in Seq(S) /\ Joins(a \o b, a, b)
<1>1. a \o b \in Seq(S) /\ Len(a) \in Nat /\ Len(b) \in Nat
  OBVIOUS
<1>2. Len(a \o b) = Len(a) + Len(b)
  OBVIOUS
<1>3. DOMAIN (a \o b) = 1..(Len(a) + Len(b))
  BY <1>1, <1>2
<1>4. \A i \in 1..Len(a) : (a \o b)[i] = a[i]
  BY <1>1
<1>5. \A k \in 1..Len(b) : (a \o b)[Len(a) + k] = b[k]
  BY <1>1
<1> QED
  BY <1>1, <1>3, <1>4, <1>5 DEF Joins

LEMMA LoggedType ==
  ASSUME NEW q \in Seq(Offered \X Value)
  PROVE  Logged(q) \in Seq(Entry) /\ Len(Logged(q)) = Len(q)
<1> DEFINE n == Len(q)
<1>0. n \in Nat /\ DOMAIN q = 1..n /\ \A k \in 1..n : q[k] \in Offered \X Value
  OBVIOUS
<1>1. \A k \in 1..n : [keys |-> {q[k][1]}, value |-> Switched(q[k][1], q[k][2])] \in Entry
  <2> SUFFICES ASSUME NEW k \in 1..n
               PROVE  [keys |-> {q[k][1]}, value |-> Switched(q[k][1], q[k][2])] \in Entry
    OBVIOUS
  <2>1. q[k] \in Offered \X Value
    BY <1>0
  <2>2. q[k][1] \in Offered /\ q[k][2] \in Value
    BY <2>1
  <2>3. q[k][1] \in Names
    BY <2>2 DEF Offered, Names, AnyOption
  <2>4. Switched(q[k][1], q[k][2]) \in Value
    BY <2>2, StoredType
  <2>5. {q[k][1]} \cap Flags # {} => Switched(q[k][1], q[k][2]) \in {0, 1}
    <3>1. q[k][2] \in Nat
      BY <2>2, ConfigAssumption
    <3> QED
      BY <3>1, FlagValues
  <2> QED
    BY <2>3, <2>4, <2>5, EntryOf
<1>2. Logged(q) = [k \in 1..n |-> [keys |-> {q[k][1]}, value |-> Switched(q[k][1], q[k][2])]]
  BY <1>0 DEF Logged
<1>3. Logged(q) \in [1..n -> Entry]
  BY <1>1, <1>2
<1> QED
  BY <1>0, <1>3

\* The switches that are parsed and the entries that are logged for them agree about
\* every option, when the options and the log agreed before.
LEMMA ParseLogged ==
  ASSUME NEW i0 \in Options, NEW q \in Seq(Offered \X Value), NEW L \in Seq(Entry),
         NEW o \in Option, i0[o] = LastGiven(L, o)
  PROVE  /\ L \o Logged(q) \in Seq(Entry)
         /\ ParseOpts(i0, q)[o] = LastGiven(L \o Logged(q), o)
<1> DEFINE n == Len(q)
           K == L \o Logged(q)
           M(k) == [i \in 1..(Len(L) + k) |-> K[i]]
<1>1. n \in Nat /\ DOMAIN q = 1..n /\ Len(L) \in Nat /\ DOMAIN L = 1..Len(L)
      /\ \A k \in 1..n : q[k] \in Offered \X Value
  OBVIOUS
<1>2. Logged(q) \in Seq(Entry) /\ Len(Logged(q)) = n
  BY LoggedType
<1>3. K \in Seq(Entry) /\ Joins(K, L, Logged(q))
  BY <1>2, Joined, Zenon
<1> HIDE DEF K
<1>4. PICK h \in [0..n -> Options] :
          /\ h[0] = i0 /\ h[n] = ParseOpts(i0, q)
          /\ \A k \in 1..n : h[k] = SetSwitch(h[k - 1], q[k][1], q[k][2])
  <2>1. \A d \in Offered \X Value : d[2] \in Value
    OBVIOUS
  <2> QED
    BY <2>1, ParseOptsSteps
<1>5. M(0) = L /\ M(n) = K
  BY <1>1, <1>2, <1>3 DEF Joins
<1> DEFINE T == {k \in 0..n : h[k][o] # LastGiven(M(k), o)}
<1>6. T = {}
  <2> SUFFICES ASSUME T # {} PROVE FALSE
    OBVIOUS
  <2>1. PICK k \in T : \A j \in T : k <= j
    <3>1. T \in SUBSET Nat
      OBVIOUS
    <3> HIDE DEF T
    <3> QED
      BY <3>1, NatMin
  <2>2. k \in 0..n /\ h[k][o] # LastGiven(M(k), o)
    OBVIOUS
  <2>3. k # 0
    BY <1>4, <1>5, <2>2
  <2>4. k - 1 \in 0..n /\ k \in 1..n /\ k - 1 \notin T
    <3>1. k - 1 \in 0..n /\ k \in 1..n /\ ~(k <= k - 1)
      BY <1>1, <2>2, <2>3
    <3> QED
      BY <2>1, <3>1, Zenon
  <2>5. h[k - 1][o] = LastGiven(M(k - 1), o)
    BY <2>4
  <2>6. h[k][o] = IF q[k][1] = o THEN Switched(o, q[k][2]) ELSE h[k - 1][o]
    <3>1. h[k - 1] \in Options /\ h[k] = SetSwitch(h[k - 1], q[k][1], q[k][2])
      BY <1>4, <2>4
    <3> QED
      BY <3>1, SetSwitchOne
  <2>7. LastGiven(M(k), o) = IF o = q[k][1] THEN Switched(o, q[k][2]) ELSE LastGiven(M(k - 1), o)
    <3> DEFINE m == Len(L) + (k - 1)
    <3>1. m \in Nat /\ m + 1 = Len(L) + k /\ \A i \in 1..m : i \in 1..(m + 1)
      BY <1>1, <2>4
    <3>2. DOMAIN M(k - 1) = 1..m /\ DOMAIN M(k) = 1..(m + 1)
          /\ \A i \in 1..m : M(k)[i] = M(k - 1)[i]
      BY <3>1
    <3>3. M(k)[m + 1] = [keys |-> {q[k][1]}, value |-> Switched(q[k][1], q[k][2])]
      <4>1. M(k)[m + 1] = K[Len(L) + k]
        BY <1>1, <2>4, <3>1
      <4>2. K[Len(L) + k] = Logged(q)[k]
        BY <1>2, <1>3, <2>4 DEF Joins
      <4>3. Logged(q)[k] = [keys |-> {q[k][1]}, value |-> Switched(q[k][1], q[k][2])]
        BY <1>1, <2>4 DEF Logged
      <4> QED
        BY <4>1, <4>2, <4>3
    <3> HIDE DEF M, m
    <3>4. LastGiven(M(k), o) = IF o \in M(k)[m + 1].keys THEN M(k)[m + 1].value
                               ELSE LastGiven(M(k - 1), o)
      <4> DEFINE G == M(k - 1)
                 H == M(k)
      <4>1. OneMore(G, H, m)
        BY <3>2 DEF OneMore
      <4> HIDE DEF G, H
      <4>2. LastGiven(H, o) = IF o \in H[m + 1].keys THEN H[m + 1].value ELSE LastGiven(G, o)
        <5>1. m \in Nat
          BY <3>1
        <5> HIDE DEF T
        <5> QED
          <6>1. Decided(G, H, m, o)
            BY <4>1, <5>1, LastStep, Zenon
          <6> QED
            BY <6>1 DEF Decided
      <4> QED
        BY <4>2 DEF G, H
    <3> QED
      BY <3>3, <3>4
  <2> QED
    BY <2>2, <2>5, <2>6, <2>7
<1>7. n \in 0..n /\ h[n][o] = LastGiven(M(n), o)
  <2>1. n \in 0..n
    BY <1>1
  <2> QED
    BY <1>6, <2>1
<1> QED
  BY <1>3, <1>4, <1>5, <1>7 DEF K

\* A line of a file gives its key what it says; only the two lines for the command line
\* write a field of another name.
LEMMA SetKeyOne ==
  ASSUME NEW i \in Options, NEW k, NEW v, NEW o \in Option \ Misdirected
  PROVE  SetKey(i, k, v)[o] = IF k = o THEN Stored(o, v) ELSE i[o]
<1>1. KeyField(k) = o <=> k = o
  BY DEF KeyField, Misdirected
<1>2. CASE KeyField(k) \in Option
  BY <1>1, <1>2 DEF SetKey, Options
<1>3. CASE KeyField(k) \notin Option
  BY <1>1, <1>3 DEF SetKey
<1> QED
  BY <1>2, <1>3

\* What is given last to a flag is a truth value.
LEMMA LastFlag ==
  ASSUME NEW L \in Seq(Entry), NEW o \in Option \cap Flags
  PROVE  LastGiven(L, o) \in {0, 1}
<1> DEFINE at == {i \in DOMAIN L : o \in L[i].keys}
<1>1. LastGiven(L, o) = IF at = {} THEN FirstOptions[o] ELSE L[Max(at)].value
  BY DEF LastGiven
<1>2. CASE at = {}
  <2>1. FirstOptions[o] = 0 \/ FirstOptions[o] = Stored(o, Default)
    BY DEF FirstOptions
  <2>2. Stored(o, Default) \in {0, 1}
    BY ConfigAssumption, FlagValues
  <2> QED
    BY <1>1, <1>2, <2>1, <2>2
<1>3. CASE at # {}
  <2>1. at \in SUBSET (1..Len(L)) /\ Len(L) \in Nat
    OBVIOUS
  <2>2. Max(at) \in at
    <3> HIDE DEF at
    <3> QED
      BY <1>3, <2>1, MaxIn
  <2>3. L[Max(at)] \in Entry /\ o \in L[Max(at)].keys
    BY <2>2
  <2>4. L[Max(at)].value \in {0, 1}
    BY <2>3 DEF Entry
  <2> QED
    BY <1>1, <1>3, <2>4
<1> QED
  BY <1>2, <1>3

PositionalKinds == {"menu", "pick", "form"}

\* Nothing but the last value given is in an option; a dump is of the options as they
\* are; and the engine of a popup has what its line gives it.
Agreed(i, L) == L \in Seq(Entry) /\ \A o \in Option \ Misdirected : i[o] = LastGiven(L, o)
OInv ==
    /\ Agreed(init, log)
    /\ dump = <<>> \/ dump = WriteConfig(init)
    /\ pc \in {"config", "args"} => dump = <<>>
    /\ pc = "popup" /\ menu.line[ran].command.kind \in PositionalKinds =>
           roles = Positional(menu.line[ran].command.kind, menu.line[ran].command.args,
                              menu.line[ran].command.files)

LEMMA StartOptions == Init => OInv
<1> SUFFICES ASSUME Init PROVE OInv
  OBVIOUS
<1>1. pc = "config" /\ init = FirstOptions /\ dump = <<>> /\ log = <<>>
  BY DEF Init
<1>2. <<>> \in Seq(Entry) /\ \A o : LastGiven(<<>>, o) = FirstOptions[o]
  BY DEF LastGiven
<1> QED
  BY <1>1, <1>2 DEF OInv, Agreed

\* zero_opt_args and the switches of a command.
LEMMA PopupAgreed ==
  ASSUME NEW i \in Options, NEW L, Agreed(i, L), NEW q \in Seq(Offered \X Value)
  PROVE  Agreed(ParseOpts(ZeroOptArgs(i), q),
                Append(L, [keys |-> Zeroed, value |-> 0]) \o Logged(q))
<1> DEFINE Z == Append(L, [keys |-> Zeroed, value |-> 0])
<1>1. [keys |-> Zeroed, value |-> 0] \in Entry
  <2>1. Zeroed \in SUBSET Names /\ 0 \in Value
    BY ConfigAssumption DEF Names
  <2> QED
    BY <2>1, EntryOf
<1>2. L \in Seq(Entry)
  BY DEF Agreed
<1>3. Z \in Seq(Entry)
  BY <1>1, <1>2, LastAppend
<1>4. ASSUME NEW o \in Option \ Misdirected
      PROVE  ZeroOptArgs(i)[o] = LastGiven(Z, o)
  <2>1. LastGiven(Z, o) = IF o \in Zeroed THEN 0 ELSE LastGiven(L, o)
    BY <1>1, <1>2, LastAppend
  <2>2. ZeroOptArgs(i)[o] = IF o \in Zeroed THEN 0 ELSE i[o]
    BY DEF ZeroOptArgs
  <2> QED
    BY <2>1, <2>2 DEF Agreed
<1>5. ZeroOptArgs(i) \in Options
  BY ZeroOptArgsType
<1> HIDE DEF Z
<1>6. \A o \in Option \ Misdirected :
          Z \o Logged(q) \in Seq(Entry)
          /\ ParseOpts(ZeroOptArgs(i), q)[o] = LastGiven(Z \o Logged(q), o)
  BY <1>3, <1>4, <1>5, ParseLogged
<1>7. Z \o Logged(q) \in Seq(Entry)
  BY <1>3, LoggedType, Joined, Zenon
<1> QED
  BY <1>6, <1>7 DEF Agreed, Z

\* What a menu line does to the options and to the roles.
LEMMA RunsOptions ==
  ASSUME TInv, OInv, pc = "keys", NEW c \in Commands, Runs(c)
  PROVE  /\ Agreed(init', log') /\ (dump' = <<>> \/ dump' = WriteConfig(init'))
         /\ pc' \in {"keys", "exited", "usage", "popup"}
         /\ pc' = "popup" /\ c.kind \in PositionalKinds =>
                roles' = Positional(c.kind, c.args, c.files)
<1>1. Agreed(init, log) /\ (dump = <<>> \/ dump = WriteConfig(init)) /\ init \in Options
  BY DEF OInv, TInv
<1>2. CASE c.kind \in {"return", "write_config", "exec", "unknown"}
  <2>1. c.kind \notin PositionalKinds
    BY <1>2 DEF PositionalKinds
  <2>2. init' = init /\ log' = log /\ (dump' = dump \/ dump' = WriteConfig(init))
        /\ pc' \in {"keys", "exited", "usage", "popup"}
    BY <1>2 DEF Runs
  <2> QED
    BY <1>1, <2>1, <2>2
<1>3. CASE c.kind \notin {"return", "write_config", "exec", "unknown"}
  <2>1. Popup(c) /\ dump' = <<>>
    BY <1>3 DEF Runs
  <2>2. CASE Unknown(c.opts)
    <3>1. pc' = "usage" /\ init' = init /\ log' = log
      BY <2>1, <2>2 DEF Popup
    <3> QED
      BY <1>1, <2>1, <3>1
  <2>3. CASE ~Unknown(c.opts)
    <3>1. /\ init' = ParseOpts(ZeroOptArgs(init), c.opts) /\ pc' = "popup"
          /\ log' = Append(log, [keys |-> Zeroed, value |-> 0]) \o Logged(c.opts)
          /\ roles' = Positional(c.kind, c.args, c.files)
      BY <2>1, <2>3 DEF Popup
    <3>2. c.opts \in Seq(Offered \X Value)
      BY StartUpAssumption
    <3>3. Agreed(init', log')
      BY <1>1, <3>1, <3>2, PopupAgreed
    <3> QED
      BY <2>1, <3>1, <3>3
  <2> QED
    BY <2>2, <2>3
<1> QED
  BY <1>2, <1>3

LEMMA RunOptions ==
  ASSUME TInv, MInv, OInv, pc = "keys", NEW m, Moved(menu, m), NEW i \in Lines(menu), Run(m, i)
  PROVE  OInv'
<1>1. m \in MenuType /\ m.line = menu.line /\ Lines(m) = Lines(menu)
  BY MovedLetters DEF MInv, Moved
<1>2. ran' = i /\ menu'.line = m.line
  <2>1. i \in Nat
    BY DEF Lines
  <2>2. menu' = [m EXCEPT !.line_idx = i] /\ ran' = i
    BY DEF Run
  <2> QED
    BY <1>1, <2>1, <2>2, MovedTo DEF Moved
<1>3. CASE IsChoice(m, i)
  <2> DEFINE c == m.line[i].command
  <2>1. c \in Commands
    <3>1. m.line[i] \in LineType
      BY <1>1, LineFacts
    <3> QED
      BY <1>3, <3>1 DEF LineType, IsChoice
  <2>2. Runs(c)
    BY <1>3 DEF Run
  <2>3. menu'.line[ran'].command = c
    BY <1>2
  <2> HIDE DEF c
  <2>4. /\ Agreed(init', log') /\ (dump' = <<>> \/ dump' = WriteConfig(init'))
        /\ pc' \in {"keys", "exited", "usage", "popup"}
        /\ pc' = "popup" /\ c.kind \in PositionalKinds =>
               roles' = Positional(c.kind, c.args, c.files)
    BY <2>1, <2>2, RunsOptions
  <2>5. pc' \notin {"config", "args"}
    BY <2>4
  <2>6. OInv' <=>
            /\ Agreed(init', log')
            /\ dump' = <<>> \/ dump' = WriteConfig(init')
            /\ pc' \in {"config", "args"} => dump' = <<>>
            /\ pc' = "popup" /\ menu'.line[ran'].command.kind \in PositionalKinds =>
                   roles' = Positional(menu'.line[ran'].command.kind,
                                menu'.line[ran'].command.args, menu'.line[ran'].command.files)
    BY DEF OInv, Agreed
  <2> QED
    BY <2>3, <2>4, <2>5, <2>6
<1>4. CASE ~IsChoice(m, i)
  <2>1. UNCHANGED <<pc, init, log, roles, dump>>
    BY <1>4 DEF Run
  <2> QED
    BY <2>1 DEF OInv, Agreed
<1> QED
  BY <1>3, <1>4

\* The files and the command line.
LEMMA ReadingOptions ==
  ASSUME TInv, OInv,
         ConfigLine \/ IncludeLine \/ EndOfFile \/ EndConfig \/ SwitchArg \/ EndArgs
  PROVE  OInv'
<1>1. /\ pc \in {"config", "args"} /\ pc' \in {"config", "args", "usage", "exited", "desc"}
      /\ dump = <<>> /\ Agreed(init, log) /\ init \in Options
  BY DEF OInv, TInv, ConfigLine, IncludeLine, EndOfFile, EndConfig, SwitchArg, EndArgs
<1>2. ASSUME Agreed(init', log'), dump' = dump
      PROVE  OInv'
  BY <1>1, <1>2 DEF OInv, Agreed
<1>3. log \in Seq(Entry) /\ \A o \in Option \ Misdirected : init[o] = LastGiven(log, o)
  BY <1>1 DEF Agreed
<1>4. CASE ConfigLine
  <2>0. PICK k \in Key, given \in Value :
            /\ Says(k, Parsed(k, given)) /\ init' = TakeLine(init, k, given)
            /\ log' = Append(log, [keys |-> {k}, value |-> Stored(k, Parsed(k, given))])
    BY <1>4 DEF ConfigLine
  <2> DEFINE v == Parsed(k, given)
  <2>1. /\ v \in Value /\ init' = SetKey(init, k, v)
        /\ log' = Append(log, [keys |-> {k}, value |-> Stored(k, v)])
    BY <2>0, ParsedType DEF TakeLine, AnyValue
  <2> HIDE DEF v
  <2>2. [keys |-> {k}, value |-> Stored(k, v)] \in Entry
    <3>1. {k} \in SUBSET Names
      BY StartUpAssumption DEF Names, AnyOption
    <3>2. Stored(k, v) \in Value
      BY <2>1, StoredType
    <3>3. {k} \cap Flags # {} => Stored(k, v) \in {0, 1}
      <4>1. v \in Nat
        BY <2>1, ConfigAssumption
      <4> QED
        BY <4>1, FlagValues
    <3> QED
      BY <3>1, <3>2, <3>3, EntryOf
  <2>3. log' \in Seq(Entry)
    BY <1>3, <2>1, <2>2, LastAppend
  <2>4. ASSUME NEW o \in Option \ Misdirected
        PROVE  init'[o] = LastGiven(log', o)
    <3>1. LastGiven(log', o) = IF o = k THEN Stored(k, v) ELSE LastGiven(log, o)
      BY <1>3, <2>1, <2>2, LastAppend
    <3>2. init'[o] = IF k = o THEN Stored(o, v) ELSE init[o]
      BY <1>1, <2>1, SetKeyOne
    <3> QED
      BY <1>3, <3>1, <3>2
  <2>5. dump' = dump
    BY <1>4 DEF ConfigLine
  <2> QED
    BY <1>2, <2>3, <2>4, <2>5 DEF Agreed
<1>5. CASE EndConfig
  <2>1. /\ init' = [o \in Option |-> IF o = "mapp_spec" THEN 0 ELSE init[o]]
        /\ log' = Append(log, [keys |-> {"mapp_spec"}, value |-> 0]) /\ dump' = dump
    BY <1>5 DEF EndConfig
  <2>2. [keys |-> {"mapp_spec"}, value |-> 0] \in Entry
    <3>1. {"mapp_spec"} \in SUBSET Names /\ 0 \in Value
      BY ConfigAssumption DEF Names, Zeroed
    <3> QED
      BY <3>1, EntryOf
  <2>3. log' \in Seq(Entry)
    BY <1>3, <2>1, <2>2, LastAppend
  <2>4. ASSUME NEW o \in Option \ Misdirected
        PROVE  init'[o] = LastGiven(log', o)
    <3>1. LastGiven(log', o) = IF o = "mapp_spec" THEN 0 ELSE LastGiven(log, o)
      BY <1>3, <2>1, <2>2, LastAppend
    <3> QED
      BY <1>3, <2>1, <3>1
  <2> QED
    BY <1>2, <2>1, <2>3, <2>4 DEF Agreed
<1>6. CASE SwitchArg
  <2>1. PICK o \in Switch, v \in Value :
            \/ init' = init /\ log' = log
            \/ init' = ParseOpts(init, <<<<o, v>>>>) /\ log' = log \o Logged(<<<<o, v>>>>)
    BY <1>6 DEF SwitchArg
  <2>2. dump' = dump
    BY <1>6 DEF SwitchArg
  <2>3. CASE init' = init /\ log' = log
    BY <1>1, <1>2, <2>2, <2>3
  <2>4. CASE init' = ParseOpts(init, <<<<o, v>>>>) /\ log' = log \o Logged(<<<<o, v>>>>)
    <3> DEFINE q == <<<<o, v>>>>
    <3>1. q \in Seq(Offered \X Value)
      <4>1. o \in Offered
        BY StartUpAssumption
      <4> QED
        BY <4>1
    <3> HIDE DEF q
    <3>2. log \o Logged(q) \in Seq(Entry)
      BY <1>3, <3>1, LoggedType, Joined, Zenon
    <3>3. \A p \in Option \ Misdirected : ParseOpts(init, q)[p] = LastGiven(log \o Logged(q), p)
      BY <1>1, <1>3, <3>1, ParseLogged
    <3>4. Agreed(init', log')
      BY <2>4, <3>2, <3>3 DEF Agreed, q
    <3> QED
      BY <1>2, <2>2, <3>4
  <2> QED
    BY <2>1, <2>3, <2>4
<1>7. CASE IncludeLine \/ EndOfFile
  <2>1. UNCHANGED <<init, log, dump>>
    BY <1>7 DEF IncludeLine, EndOfFile
  <2> QED
    BY <1>1, <1>2, <2>1
<1>8. CASE EndArgs
  <2>1. init' = init /\ log' = log /\ (dump' = dump \/ dump' = WriteConfig(init))
        /\ pc' \in {"exited", "desc"}
    BY <1>8 DEF EndArgs
  <2> QED
    BY <1>1, <2>1 DEF OInv, Agreed
<1> QED
  BY <1>4, <1>5, <1>6, <1>7, <1>8

LEMMA StepOptions == TInv /\ MInv /\ OInv /\ [Next]_vars => OInv'
<1> SUFFICES ASSUME TInv, MInv, OInv, [Next]_vars PROVE OInv'
  OBVIOUS
<1>1. CASE ConfigLine \/ IncludeLine \/ EndOfFile \/ EndConfig \/ SwitchArg \/ EndArgs
  BY <1>1, ReadingOptions
<1>2. CASE ChoiceLine \/ CommandLine \/ EndDesc \/ Letter \/ ShowMenu \/ CursorKey
           \/ QuitKey \/ PopupEnd
  <2>1. /\ UNCHANGED <<init, log, dump>>
        /\ pc' \in {"desc", "letters", "keys", "exited", "crashed"}
    BY <1>2 DEF ChoiceLine, CommandLine, EndDesc, Letter, ShowMenu, CursorKey, QuitKey,
                PopupEnd
  <2> QED
    BY <2>1 DEF OInv, Agreed
<1>3. CASE Enter \/ Mouse \/ LetterKey
  <2>1. pc = "keys"
    BY <1>3 DEF Enter, Mouse, LetterKey
  <2>2. menu \in MenuType /\ menu.line_idx \in Lines(menu) /\ DOMAIN menu.line = Lines(menu)
        /\ Moved(menu, menu)
    BY <2>1, LineFacts DEF MInv, Moved
  <2>3. CASE Enter
    <3>1. Run(menu, menu.line_idx)
      BY <2>3 DEF Enter
    <3> QED
      BY <2>1, <2>2, <3>1, RunOptions
  <2>4. CASE Mouse
    <3>1. PICK i \in DOMAIN menu.line : Run(menu, i)
      BY <2>4 DEF Mouse
    <3> QED
      BY <2>1, <2>2, <3>1, RunOptions
  <2>5. CASE LetterKey
    <3>1. PICK b \in Byte \ {Quit} :
              IF WithLetter(menu, b) = {}
              THEN UNCHANGED <<pc, init, menu, ran, roles, dump, log>>
              ELSE Run(ToLetter(menu, b), ToLetter(menu, b).line_idx)
      BY <2>5 DEF LetterKey
    <3>2. CASE WithLetter(menu, b) = {}
      <4>1. UNCHANGED <<pc, init, menu, ran, roles, dump, log>>
        BY <3>1, <3>2
      <4> QED
        BY <4>1 DEF OInv, Agreed
    <3>3. CASE WithLetter(menu, b) # {}
      <4>1. Moved(menu, ToLetter(menu, b)) /\ ToLetter(menu, b).line_idx \in Lines(menu)
        BY <2>2, <3>3, ToLetterIs
      <4>2. Run(ToLetter(menu, b), ToLetter(menu, b).line_idx)
        BY <3>1, <3>3
      <4> QED
        BY <2>1, <2>2, <4>1, <4>2, RunOptions
    <3> QED
      BY <3>2, <3>3
  <2> QED
    BY <1>3, <2>3, <2>4, <2>5
<1>4. CASE UNCHANGED vars
  BY <1>4 DEF vars, OInv, Agreed
<1> QED
  BY <1>1, <1>2, <1>3, <1>4, Zenon DEF Next

THEOREM OptionInvariant == Spec => []OInv
<1>1. TInv /\ MInv /\ OInv /\ [Next]_vars => OInv'
  BY StepOptions
<1> QED
  BY <1>1, StartOptions, Invariant, PTL DEF Spec

-----------------------------------------------------------------------------
(* A dump that is read. *)

LEMMA DumpedType == Dumped \in Seq(AnyOption)
<1>1. DumpedGeneral \in Seq(AnyOption)
  BY SMT DEF DumpedGeneral, AnyOption, ConfigKeys, GeneralKeys, Switches, GeneralSwitches,
             BareSwitches
<1>2. DumpedParts \in Seq(AnyOption)
  BY SMT DEF DumpedParts, AnyOption, ConfigKeys, PartKeys, GammaKeys
<1>3. DumpedRest \in Seq(AnyOption)
  BY SMT DEF DumpedRest, AnyOption, ConfigKeys, PlainColorKeys, BrightColorKeys, PathKeys
<1> QED
  BY <1>1, <1>2, <1>3 DEF Dumped

\* What a line of a dump does to the options.
LineRead(i, l) == TakeLine(i, l[1], l[2])

LEMMA LineReadType ==
  ASSUME NEW i \in Options, NEW l \in AnyOption \X (Value \cup {Default})
  PROVE  LineRead(i, l) \in Options
  BY TakeLineType DEF LineRead, AnyValue

\* The lines of a dump are read in the order of their places.
LEMMA ReadLinesIs ==
  ASSUME NEW i \in Options
  PROVE  \E f : /\ f[{}] = FirstOptions /\ ReadLines(FirstOptions, WriteConfig(i)) = f[Written]
                /\ \A s \in SUBSET Written :
                       /\ f[s] \in Options
                       /\ s # {} => f[s] = LineRead(f[s \ {Max(s)}], WriteConfig(i)[Max(s)])
<1> DEFINE n == Len(Dumped)
           D == AnyOption \X (Value \cup {Default})
           lines == WriteConfig(i)
           val(o) == IF o \in Option THEN Printout(o, i[o]) ELSE 0
           q == [j \in 1..n |-> <<Dumped[j], val(Dumped[j])>>]
           G == [p \in Options \X D |-> LineRead(p[1], p[2])]
           E(g) == [s \in SUBSET DOMAIN lines |->
                        IF s = {} THEN FirstOptions
                        ELSE LineRead(g[s \ {Max(s)}], lines[Max(s)])]
           f == CHOOSE g : g = E(g)
<1>1. n \in Nat /\ DOMAIN Dumped = 1..n /\ \A j \in 1..n : Dumped[j] \in AnyOption
  BY DumpedType
<1>2. Written \in SUBSET (1..n) /\ DOMAIN lines = Written
  BY <1>1 DEF Written, WriteConfig
<1>3. q \in Seq(D) /\ Len(q) = n
  <2>1. \A j \in 1..n : <<Dumped[j], val(Dumped[j])>> \in D
    <3> SUFFICES ASSUME NEW j \in 1..n PROVE val(Dumped[j]) \in Value \cup {Default}
      BY <1>1
    <3>1. Dumped[j] \in Option => i[Dumped[j]] \in AnyValue
      BY DEF Options, AnyValue
    <3> QED
      BY <3>1, ParsedType, ConfigAssumption DEF AnyValue
  <2>2. q \in [1..n -> D]
    BY <2>1
  <2> QED
    BY <1>1, <2>2
<1>4. \A j \in Written : j \in 1..n /\ lines[j] = q[j] /\ lines[j] \in D
  <2> SUFFICES ASSUME NEW j \in Written PROVE j \in 1..n /\ lines[j] = q[j] /\ lines[j] \in D
    OBVIOUS
  <2>1. j \in 1..n /\ Dumped[j] \in Option
    BY <1>2 DEF Written
  <2>2. lines[j] = q[j]
    BY <2>1 DEF WriteConfig
  <2> QED
    BY <1>3, <2>1, <2>2
<1> HIDE DEF q, n, lines
<1>5. G \in [Options \X D -> Options]
      /\ \A a \in Options, d \in D : G[<<a, d>>] = LineRead(a, d)
  BY LineReadType
<1> HIDE DEF G, D
<1>6. PICK h \in [SUBSET (1..n) -> Options] : Folds(h, G, FirstOptions, q, n)
  BY <1>3, <1>5, FirstOptionsType, FoldExists
<1> DEFINE g == [s \in SUBSET Written |-> h[s]]
<1>7. \A s \in SUBSET Written :
          g[s] = IF s = {} THEN FirstOptions ELSE LineRead(g[s \ {Max(s)}], lines[Max(s)])
  <2> SUFFICES ASSUME NEW s \in SUBSET Written
               PROVE  h[s] = IF s = {} THEN FirstOptions
                             ELSE LineRead(h[s \ {Max(s)}], lines[Max(s)])
    BY Zenon
  <2>1. s \in SUBSET (1..n) /\ s \ {Max(s)} \in SUBSET (1..n)
    BY <1>2
  <2>2. h[s] = IF s = {} THEN FirstOptions ELSE G[<<h[s \ {Max(s)}], q[Max(s)]>>]
    BY <1>6, <2>1 DEF Folds
  <2>3. s # {} => Max(s) \in s
    <3>1. n \in Nat
      BY <1>1
    <3> QED
      BY <2>1, <3>1, MaxIn
  <2>4. s # {} => G[<<h[s \ {Max(s)}], q[Max(s)]>>] = LineRead(h[s \ {Max(s)}], lines[Max(s)])
    <3>1. h[s \ {Max(s)}] \in Options
      BY <1>6, <2>1
    <3>2. s # {} => lines[Max(s)] = q[Max(s)] /\ lines[Max(s)] \in D
      BY <1>4, <2>3
    <3> QED
      BY <1>5, <3>1, <3>2
  <2> QED
    BY <2>2, <2>4
<1>8. g = E(g)
  BY <1>2, <1>7
<1>9. f = E(f)
  <2> HIDE DEF E, g
  <2> QED
    BY <1>8, Zenon
<1> HIDE DEF f
<1>10. f[{}] = FirstOptions /\ \A s \in SUBSET Written : s # {} =>
           f[s] = LineRead(f[s \ {Max(s)}], lines[Max(s)])
  BY <1>2, <1>9
<1>11. \A s \in SUBSET Written : f[s] \in Options
  <2> DEFINE P == [s \in SUBSET (1..n) |-> s \subseteq Written => f[s] \in Options]
             Yes == {TRUE}
  <2>1. P[{}] \in Yes
    BY <1>10, FirstOptionsType
  <2>2. \A s \in SUBSET (1..n) : s # {} /\ P[s \ {Max(s)}] \in Yes => P[s] \in Yes
    <3> SUFFICES ASSUME NEW s \in SUBSET (1..n), s # {}, P[s \ {Max(s)}] \in Yes,
                        s \subseteq Written
                 PROVE  f[s] \in Options
      OBVIOUS
    <3>1. Max(s) \in s
      <4>1. n \in Nat
        BY <1>1
      <4> QED
        BY <4>1, MaxIn
    <3>2. f[s \ {Max(s)}] \in Options
      OBVIOUS
    <3>3. lines[Max(s)] \in D
      BY <1>4, <3>1
    <3> QED
      BY <1>10, <3>2, <3>3, LineReadType DEF D
  <2>3. \A s \in SUBSET (1..n) : P[s] \in Yes
    <3> HIDE DEF P, Yes
    <3> QED
      BY <1>1, <2>1, <2>2, FoldType
  <2> QED
    BY <1>2, <2>3
<1>12. ReadLines(FirstOptions, lines) = f[Written]
  <2>1. ReadLines(FirstOptions, lines) = f[DOMAIN lines]
    BY DEF ReadLines, FoldLeft, MapThenFoldSet, f, E, LineRead
  <2> QED
    BY <1>2, <2>1
<1> QED
  BY <1>10, <1>11, <1>12 DEF lines

\* A line of a dump gives an option its value again, when a line can say it and reading
\* makes it of what was written.
LEMMA LineReadBack ==
  ASSUME NEW i \in Options, \A p \in Option \cap Flags : i[p] \in {0, 1},
         NEW o \in (Option \cap ConfigKeys) \ Misdirected,
         i[o] # 0 \/ o \in NumberFields \/ FirstOptions[o] = 0, Keeps(o, i[o]),
         NEW k \in Option, NEW a \in Options, a[o] \in {i[o], FirstOptions[o]}
  PROVE  LineRead(a, <<k, Printout(k, i[k])>>)[o] = IF k = o THEN i[o] ELSE a[o]
<1> DEFINE v == Parsed(k, Printout(k, i[k]))
<1>1. LineRead(a, <<k, Printout(k, i[k])>>) = IF Says(k, v) THEN SetKey(a, k, v) ELSE a
  BY DEF LineRead, TakeLine
<1>2. k = o => v = i[o]
  BY DEF Keeps
<1> HIDE DEF v
<1>3. SetKey(a, k, v)[o] = IF k = o THEN Stored(o, v) ELSE a[o]
  BY SetKeyOne
<1>4. Stored(o, i[o]) = i[o]
  BY DEF Stored
<1>5. CASE k # o
  BY <1>1, <1>3, <1>5
<1>6. CASE k = o /\ Says(k, v)
  BY <1>1, <1>2, <1>3, <1>4, <1>6
<1>7. CASE k = o /\ ~Says(k, v)
  <2>1. i[o] = 0 /\ FirstOptions[o] = 0
    BY <1>2, <1>7 DEF Says
  <2> QED
    BY <1>1, <1>7, <2>1
<1> QED
  BY <1>5, <1>6, <1>7

LEMMA ReadBack ==
  ASSUME NEW i \in Options, \A p \in Option \cap Flags : i[p] \in {0, 1},
         NEW o \in (Option \cap ToSet(Dumped) \cap ConfigKeys) \ Misdirected,
         i[o] # 0 \/ o \in NumberFields \/ FirstOptions[o] = 0, Keeps(o, i[o])
  PROVE  ReadLines(FirstOptions, WriteConfig(i))[o] = i[o]
<1> DEFINE n == Len(Dumped)
           Told1(s) == \E j \in s : Dumped[j] = o
<1>1. n \in Nat /\ DOMAIN Dumped = 1..n
  BY DumpedType
<1>2. Written \in SUBSET (1..n) /\ \A j \in Written :
          /\ Dumped[j] \in Option
          /\ WriteConfig(i)[j] = <<Dumped[j], Printout(Dumped[j], i[Dumped[j]])>>
  BY <1>1 DEF Written, WriteConfig
<1>3. PICK f :
          /\ f[{}] = FirstOptions /\ ReadLines(FirstOptions, WriteConfig(i)) = f[Written]
          /\ \A s \in SUBSET Written :
                 /\ f[s] \in Options
                 /\ s # {} => f[s] = LineRead(f[s \ {Max(s)}], WriteConfig(i)[Max(s)])
  BY ReadLinesIs
<1> DEFINE P == [s \in SUBSET (1..n) |->
                     s \subseteq Written =>
                         f[s][o] = IF Told1(s) THEN i[o] ELSE FirstOptions[o]]
           Yes == {TRUE}
<1> HIDE DEF n
<1>4. P[{}] \in Yes
  BY <1>3
<1>5. \A s \in SUBSET (1..n) : s # {} /\ P[s \ {Max(s)}] \in Yes => P[s] \in Yes
  <2> SUFFICES ASSUME NEW s \in SUBSET (1..n), s # {}, P[s \ {Max(s)}] \in Yes,
                      s \subseteq Written
               PROVE  f[s][o] = IF Told1(s) THEN i[o] ELSE FirstOptions[o]
    OBVIOUS
  <2> DEFINE m == Max(s)
             r == s \ {m}
  <2>1. m \in s /\ m \in Written
    BY <1>1, MaxIn
  <2>2. r \subseteq Written /\ r \in SUBSET (1..n)
    BY <1>2
  <2>3. f[r][o] = IF Told1(r) THEN i[o] ELSE FirstOptions[o]
    BY <2>2
  <2>4. Told1(s) <=> Told1(r) \/ Dumped[m] = o
    BY <2>1
  <2>5. f[s] = LineRead(f[r], <<Dumped[m], Printout(Dumped[m], i[Dumped[m]])>>)
    <3>1. f[s] = LineRead(f[r], WriteConfig(i)[m])
      BY <1>3
    <3> QED
      BY <1>2, <2>1, <3>1
  <2>6. f[r] \in Options /\ f[r][o] \in {i[o], FirstOptions[o]} /\ Dumped[m] \in Option
    BY <1>2, <1>3, <2>1, <2>2, <2>3
  <2> HIDE DEF Told1, m, r
  <2>7. f[s][o] = IF Dumped[m] = o THEN i[o] ELSE f[r][o]
    BY <2>5, <2>6, LineReadBack
  <2> QED
    BY <2>3, <2>4, <2>7
<1>6. \A s \in SUBSET (1..n) : P[s] \in Yes
  <2> HIDE DEF P, Yes
  <2> QED
    BY <1>1, <1>4, <1>5, FoldType
<1>7. Told1(Written)
  <2>1. PICK j \in 1..n : Dumped[j] = o
    BY <1>1 DEF ToSet
  <2>2. j \in Written
    BY <1>1, <2>1 DEF Written
  <2> QED
    BY <2>1, <2>2
<1> HIDE DEF Told1
<1>8. f[Written][o] = i[o]
  BY <1>2, <1>6, <1>7
<1> QED
  BY <1>3, <1>8

-----------------------------------------------------------------------------
(* Roles. *)

LEMMA RolesDistinct ==
  ASSUME NEW kind, NEW i \in 1..Len(Roles(kind)), NEW j \in 1..Len(Roles(kind)), i # j
  PROVE  Roles(kind)[i] # Roles(kind)[j]
<1>1. CASE kind = "menu"
  <2>1. Roles(kind) = <<"spec", "help">>
    BY <1>1 DEF Roles
  <2> QED
    BY <2>1
<1>2. CASE kind = "form"
  <2>1. Roles(kind) = <<"spec", "in", "out", "provider", "cmd", "receiver", "help">>
    BY <1>2 DEF Roles
  <2> QED
    BY <2>1
<1>3. CASE kind = "pick"
  <2>1. Roles(kind) = <<"in", "out", "provider", "cmd", "receiver", "help">>
    BY <1>3 DEF Roles
  <2> QED
    BY <2>1
<1>4. CASE kind \notin {"menu", "form", "pick"}
  <2>1. Roles(kind) = <<>>
    BY <1>4 DEF Roles
  <2> QED
    BY <2>1
<1> QED
  BY <1>1, <1>2, <1>3, <1>4

\* A role takes the next argument, passes it, or leaves it to the next role, and one that
\* a switch has filled leaves it.
Follows(b, a, role, filled) ==
    \/ b = a
    \/ b.optind = a.optind + 1 /\ b.use = a.use
    \/ /\ b.optind = a.optind + 1 /\ b.use = [a.use EXCEPT ![role] = a.optind]
       /\ role \notin filled

LEMMA NextRoleIs ==
  ASSUME NEW c, NEW a \in Arguments, NEW role \in Role
  PROVE  Follows(NextRole(c, a, role), a, role, Filled(c.kind, c.files))
<1>1. [a EXCEPT !.optind = @ + 1].optind = a.optind + 1 /\ [a EXCEPT !.optind = @ + 1].use = a.use
  BY DEF Arguments
<1> DEFINE u == [a EXCEPT !.optind = @ + 1, !.use[role] = a.optind]
<1>2. u.optind = a.optind + 1 /\ u.use = [a.use EXCEPT ![role] = a.optind]
  BY DEF Arguments
<1>3. Taken(c.kind, c.args, a, role) \in {a, [a EXCEPT !.optind = @ + 1], u}
  BY DEF Taken
<1> QED
  BY <1>1, <1>2, <1>3 DEF NextRole, Follows

\* The arguments of the roles after k: those that follow have none, and they are in order.
InOrder(a, q, k, filled) ==
    /\ a.optind >= 1
    /\ \A j \in 1..Len(q) : IF j > k THEN a.use[q[j]] = 0 ELSE a.use[q[j]] < a.optind
    /\ \A i, j \in 1..Len(q) :
           i < j /\ a.use[q[i]] # 0 /\ a.use[q[j]] # 0 => a.use[q[i]] < a.use[q[j]]
    /\ \A r \in filled \cap Role : a.use[r] = 0

LEMMA InOrderStep ==
  ASSUME NEW q \in Seq(Role), \A i, j \in 1..Len(q) : i # j => q[i] # q[j],
         NEW k \in 1..Len(q), NEW a \in Arguments, NEW b \in Arguments, NEW filled,
         InOrder(a, q, k - 1, filled), Follows(b, a, q[k], filled)
  PROVE  InOrder(b, q, k, filled)
<1>1. /\ a.optind \in Nat /\ a.optind >= 1 /\ b.optind \in Nat /\ b.optind >= a.optind
      /\ a.use \in [Role -> Nat] /\ b.use \in [Role -> Nat]
      /\ Len(q) \in Nat /\ \A j \in 1..Len(q) : q[j] \in Role
  BY DEF InOrder, Arguments, Follows
<1>2. \A j \in 1..Len(q) : IF j >= k THEN a.use[q[j]] = 0 ELSE a.use[q[j]] < a.optind
  <2> SUFFICES ASSUME NEW j \in 1..Len(q)
               PROVE  IF j >= k THEN a.use[q[j]] = 0 ELSE a.use[q[j]] < a.optind
    OBVIOUS
  <2>1. j >= k <=> j > k - 1
    OBVIOUS
  <2> QED
    BY <2>1 DEF InOrder
<1>3. CASE b.use = a.use
  <2>1. ASSUME NEW j \in 1..Len(q)
        PROVE  IF j > k THEN b.use[q[j]] = 0 ELSE b.use[q[j]] < b.optind
    <3> DEFINE u == a.use[q[j]]
    <3>1. u \in Nat /\ (IF j >= k THEN u = 0 ELSE u < a.optind)
      BY <1>1, <1>2
    <3>2. b.use[q[j]] = u
      BY <1>3
    <3> HIDE DEF u
    <3>3. IF j > k THEN u = 0 ELSE u < b.optind
      BY <1>1, <3>1
    <3> QED
      BY <3>2, <3>3, Zenon
  <2>2. b.optind >= 1
    BY <1>1
  <2>3. /\ \A i, j \in 1..Len(q) :
               i < j /\ b.use[q[i]] # 0 /\ b.use[q[j]] # 0 => b.use[q[i]] < b.use[q[j]]
        /\ \A r \in filled \cap Role : b.use[r] = 0
    BY <1>3, Zenon DEF InOrder
  <2> QED
    BY <2>1, <2>2, <2>3, Zenon DEF InOrder
<1>4. CASE /\ b.optind = a.optind + 1 /\ b.use = [a.use EXCEPT ![q[k]] = a.optind]
           /\ q[k] \notin filled
  <2>1. \A j \in 1..Len(q) : b.use[q[j]] = IF j = k THEN a.optind ELSE a.use[q[j]]
    BY <1>1, <1>4
  <2>2. ASSUME NEW j \in 1..Len(q)
        PROVE  IF j > k THEN b.use[q[j]] = 0 ELSE b.use[q[j]] < b.optind
    <3> DEFINE u == a.use[q[j]]
    <3>1. u \in Nat /\ (IF j >= k THEN u = 0 ELSE u < a.optind)
      BY <1>1, <1>2
    <3>2. b.use[q[j]] = IF j = k THEN a.optind ELSE u
      BY <2>1
    <3> HIDE DEF u
    <3> QED
      BY <1>1, <1>4, <3>1, <3>2
  <2>3. ASSUME NEW i \in 1..Len(q), NEW j \in 1..Len(q), i < j,
               b.use[q[i]] # 0, b.use[q[j]] # 0
        PROVE  b.use[q[i]] < b.use[q[j]]
    <3>1. CASE j = k
      <4>1. b.use[q[j]] = a.optind /\ b.use[q[i]] = a.use[q[i]]
        BY <2>1, <2>3, <3>1
      <4> QED
        BY <1>2, <2>3, <3>1, <4>1
    <3>2. CASE i = k
      <4>1. a.use[q[j]] = 0 /\ b.use[q[j]] = a.use[q[j]]
        BY <1>2, <2>1, <2>3, <3>2
      <4> QED
        BY <2>3, <4>1
    <3>3. CASE i # k /\ j # k
      BY <2>1, <2>3, <3>3 DEF InOrder
    <3> QED
      BY <3>1, <3>2, <3>3
  <2>4. \A r \in filled \cap Role : b.use[r] = 0
    <3>1. \A r \in Role : r # q[k] => b.use[r] = a.use[r]
      BY <1>1, <1>4
    <3> QED
      BY <1>4, <3>1 DEF InOrder
  <2> QED
    BY <1>1, <2>2, <2>3, <2>4 DEF InOrder
<1> QED
  BY <1>3, <1>4 DEF Follows

LEMMA PositionalOrder ==
  ASSUME NEW c
  PROVE  LET use == Positional(c.kind, c.args, c.files)
             order == Roles(c.kind)
         IN  /\ \A i, j \in DOMAIN order :
                    i < j /\ use[order[i]] # 0 /\ use[order[j]] # 0
                    => use[order[i]] < use[order[j]]
             /\ \A r \in Filled(c.kind, c.files) \cap Role : use[r] = 0
<1> DEFINE q == Roles(c.kind)
           n == Len(q)
           filled == Filled(c.kind, c.files)
<1>1. /\ q \in Seq(Role) /\ n \in Nat /\ DOMAIN q = 1..n
      /\ \A i, j \in 1..n : i # j => q[i] # q[j]
  <2>1. q \in Seq(Role)
    BY RolesType
  <2>2. \A i, j \in 1..n : i # j => q[i] # q[j]
    BY RolesDistinct
  <2> QED
    BY <2>1, <2>2
<1> HIDE DEF q
<1>2. PICK h \in [0..n -> Arguments] :
          /\ h[0] = [optind |-> FirstArg(c.kind), use |-> [r \in Role |-> 0]]
          /\ h[n].use = Positional(c.kind, c.args, c.files)
          /\ \A k \in 1..n : h[k] = NextRole(c, h[k - 1], q[k])
  <2>1. \E h \in [0..Len(Roles(c.kind)) -> Arguments] :
            /\ h[0] = [optind |-> FirstArg(c.kind), use |-> [r \in Role |-> 0]]
            /\ h[Len(Roles(c.kind))].use = Positional(c.kind, c.args, c.files)
            /\ \A k \in 1..Len(Roles(c.kind)) :
                   h[k] = NextRole(c, h[k - 1], Roles(c.kind)[k])
    BY PositionalSteps
  <2>2. q = Roles(c.kind)
    BY DEF q
  <2> QED
    BY <2>1, <2>2
<1> HIDE DEF q, filled
<1> DEFINE T == {k \in 0..n : ~InOrder(h[k], q, k, filled)}
<1>3. InOrder(h[0], q, 0, filled)
  <2>1. h[0].optind >= 1 /\ \A r \in Role : h[0].use[r] = 0
    BY <1>2 DEF FirstArg
  <2>2. \A j \in 1..n : q[j] \in Role
    BY <1>1
  <2> QED
    BY <2>1, <2>2 DEF InOrder
<1>4. T = {}
  <2> SUFFICES ASSUME T # {} PROVE FALSE
    OBVIOUS
  <2>1. PICK k \in T : \A j \in T : k <= j
    <3>1. T \in SUBSET Nat
      OBVIOUS
    <3> HIDE DEF T
    <3> QED
      BY <3>1, NatMin
  <2>2. k \in 0..n /\ ~InOrder(h[k], q, k, filled)
    OBVIOUS
  <2>3. k - 1 \in 0..n /\ k \in 1..n /\ k - 1 \notin T
    <3>1. k # 0
      BY <1>3, <2>2
    <3>2. k - 1 \in 0..n /\ k \in 1..n /\ ~(k <= k - 1)
      BY <1>1, <2>2, <3>1
    <3> QED
      BY <2>1, <3>2, Zenon
  <2>4. InOrder(h[k - 1], q, k - 1, filled)
    <3>1. \A x \in 0..n : x \notin T => InOrder(h[x], q, x, filled)
      OBVIOUS
    <3> HIDE DEF T
    <3> QED
      BY <2>3, <3>1, Zenon
  <2>5. h[k - 1] \in Arguments /\ h[k] \in Arguments /\ q[k] \in Role
    <3>1. \A j \in 1..n : q[j] \in Role
      BY <1>1
    <3>2. \A j \in 0..n : h[j] \in Arguments
      OBVIOUS
    <3> QED
      BY <2>2, <2>3, <3>1, <3>2, Zenon
  <2>6. h[k] = NextRole(c, h[k - 1], q[k])
    BY <1>2, <2>3
  <2>7. Follows(h[k], h[k - 1], q[k], filled)
    BY <2>5, <2>6, NextRoleIs DEF filled
  <2>8. InOrder(h[k], q, k, filled)
    BY <1>1, <2>3, <2>4, <2>5, <2>7, InOrderStep
  <2> QED
    BY <2>2, <2>8
<1>5. InOrder(h[n], q, n, filled)
  <2>1. n \in 0..n
    BY <1>1
  <2> QED
    BY <1>4, <2>1
<1> QED
  BY <1>1, <1>2, <1>5 DEF InOrder, q, filled

\* The names of the roles that switches have filled are roles.
LEMMA FilledRoles ==
  ASSUME NEW kind, NEW files
  PROVE  Filled(kind, files) \subseteq Role
<1>1. \A j \in DOMAIN Roles(kind) : Roles(kind)[j] \in Role
  BY RolesType
<1>2. ToSet(Roles(kind)) \subseteq Role
  BY <1>1 DEF ToSet
<1> QED
  BY <1>2 DEF Filled

LEMMA InvOptions ==
  ASSUME TInv, OInv
  PROVE  OptionsRight
<1>1. init \in Options /\ log \in Seq(Entry)
      /\ \A o \in Option \ Misdirected : init[o] = LastGiven(log, o)
  BY DEF TInv, OInv, Agreed
<1>2. \A p \in Option \cap Flags : init[p] \in {0, 1}
  <2>1. \A p \in Flags : p \notin Misdirected
    BY DEF Flags, Misdirected
  <2> QED
    BY <1>1, <2>1, LastFlag
<1>3. ASSUME NEW o \in Told \ Misdirected, dump # <<>>
      PROVE  ReadLines(FirstOptions, dump)[o] = init[o]
  <2>1. dump = WriteConfig(init)
    BY <1>3 DEF OInv
  <2>2. /\ o \in (Option \cap ToSet(Dumped) \cap ConfigKeys) \ Misdirected
        /\ init[o] # 0 \/ o \in NumberFields \/ FirstOptions[o] = 0
        /\ Keeps(o, init[o])
    BY DEF Told
  <2> QED
    BY <1>1, <1>2, <2>1, <2>2, ReadBack
<1>4. ASSUME pc = "popup", menu.line[ran].command.kind \in {"menu", "pick", "form"}
      PROVE  LET c == menu.line[ran].command
                 order == Roles(c.kind)
             IN  /\ \A i, j \in DOMAIN order :
                        i < j /\ roles[order[i]] # 0 /\ roles[order[j]] # 0
                        => roles[order[i]] < roles[order[j]]
                 /\ \A r \in Filled(c.kind, c.files) : roles[r] = 0
  <2> DEFINE c == menu.line[ran].command
  <2>1. roles = Positional(c.kind, c.args, c.files)
    BY <1>4 DEF OInv, PositionalKinds
  <2> HIDE DEF c
  <2> QED
    BY <2>1, PositionalOrder, FilledRoles DEF c
<1> QED
  BY <1>1, <1>3, <1>4 DEF OptionsRight

\* Every option but the four of another name has the value it was given last, by the
\* files, the command line (init.c, process_config_file and parse_opt) or the line of the
\* menu that ran, nothing of an earlier popup where zero_opt_args clears it (init.c:597);
\* a dump gives back what lines can say and what writing and reading leaves of it
\* (write_config, process_config_file); and the engine of a popup gets
\* its arguments in the order of the roles that no switch filled (mem.c).
THEOREM OptionsCorrect == Spec => []OptionsRight
  BY Invariant, OptionInvariant, InvOptions, PTL

-----------------------------------------------------------------------------
(* The colours and the pairs of a terminal. *)

\* A colour of a program, one of a terminal, and what corrects the first.
RGB == [Channel -> 0..255]
Colour == [Channel -> Nat]
Correction == [gray : [0..255 -> Nat], channel : [Channel -> [0..255 -> Nat]]]

\* The tables of a terminal.
Tables ==
    [color : [0..(UI_COLORS - 1) -> Colour], ui_color_cnt : Nat,
     pair : [0..(UI_PAIRS - 1) -> Nat \X Nat], ui_pair_cnt : Nat,
     gamma : Correction, std_color : [1..16 -> Colour]]

RoomForColor(ui) == ui.ui_color_cnt + 1 < UI_COLORS
RoomForPair(ui) == ui.ui_pair_cnt > 0 /\ ui.ui_pair_cnt + 1 < UI_PAIRS

\* A call that may have changed the colours, and the slot it answers with.
ColorAdded(ui, c, call) ==
    /\ call.ui \in Tables /\ call.index \in Nat
    /\ call.ui.pair = ui.pair /\ call.ui.ui_pair_cnt = ui.ui_pair_cnt
    /\ call.ui.gamma = ui.gamma
    /\ call.ui.ui_color_cnt \in {ui.ui_color_cnt, ui.ui_color_cnt + 1}
    /\ call.index \in 0..(call.ui.ui_color_cnt - 1) /\ call.ui.color[call.index] = c
    /\ \A j \in 0..(call.index - 1) : call.ui.color[j] # c
    /\ \A j \in 0..(ui.ui_color_cnt - 1) : call.ui.color[j] = ui.color[j]

LEMMA LeastOf ==
  ASSUME NEW S \in SUBSET Nat, S # {}
  PROVE  Min(S) \in S /\ \A x \in S : Min(S) <= x
<1>1. \E n \in S : \A m \in S : n <= m
  BY NatMin
<1> QED
  BY <1>1 DEF Min

LEMMA LeastIs ==
  ASSUME NEW S \in SUBSET Nat, NEW i \in S, \A j \in S : i <= j
  PROVE  Min(S) = i
<1>1. Min(S) \in S /\ Min(S) <= i
  BY LeastOf
<1>2. i <= Min(S) /\ Min(S) \in Nat /\ i \in Nat
  BY <1>1
<1>3. \A u, v \in Nat : u <= v /\ v <= u => u = v
  OBVIOUS
<1> QED
  BY <1>1, <1>2, <1>3, Zenon

LEMMA SlotSet ==
  ASSUME NEW S, NEW T, NEW g \in [S -> T], NEW n \in S, NEW x \in T
  PROVE  /\ [g EXCEPT ![n] = x] \in [S -> T] /\ [g EXCEPT ![n] = x][n] = x
         /\ \A j \in S : j # n => [g EXCEPT ![n] = x][j] = g[j]
  OBVIOUS

LEMMA SeenType ==
  ASSUME NEW ui \in Tables, NEW rgb \in RGB
  PROVE  Seen(ui, rgb) \in Colour
<1>1. \A i \in Channel : rgb[i] \in 0..255
  BY DEF RGB
<1>2. ui.gamma.gray \in [0..255 -> Nat] /\ ui.gamma.channel \in [Channel -> [0..255 -> Nat]]
  BY DEF Tables, Correction
<1>3. apply_gamma(ui, rgb) \in [Channel -> Nat]
  <2> DEFINE gray == ui.gamma.gray
             channel == ui.gamma.channel
  <2>1. apply_gamma(ui, rgb) \in
            {[i \in Channel |-> gray[rgb[i]]],
             [i \in Channel |-> IF rgb[i] = 0 THEN 0 ELSE channel[i][rgb[i]]]}
    BY Zenon DEF apply_gamma
  <2>2. \A i \in Channel : gray[rgb[i]] \in Nat
    BY <1>1, <1>2
  <2>3. \A i \in Channel : channel[i][rgb[i]] \in Nat
    <3>1. \A i \in Channel : channel[i] \in [0..255 -> Nat]
      BY <1>2
    <3> HIDE DEF channel
    <3> QED
      BY <1>1, <3>1
  <2>4. \A i \in Channel : (IF rgb[i] = 0 THEN 0 ELSE channel[i][rgb[i]]) \in Nat
    BY <2>3
  <2> HIDE DEF gray, channel
  <2> QED
    BY <2>1, <2>2, <2>4
<1>4. \A n \in Nat : (n * 1000) \div 255 \in Nat
  OBVIOUS
<1>5. \A r \in [Channel -> Nat] : Scaled(r) \in [Channel -> Nat]
  BY <1>4 DEF Scaled
<1> QED
  BY <1>3, <1>5 DEF Seen, Colour

LEMMA AddColorIs ==
  ASSUME NEW ui \in Tables, NEW c \in Colour, RoomForColor(ui), UI_COLORS \in Nat
  PROVE  ColorAdded(ui, c, AddColor(ui, c, c, c))
<1> DEFINE n == ui.ui_color_cnt
           same == {j \in 0..(n - 1) : ui.color[j] = c}
           cnt == Min({n + 1, UI_COLORS - 1})
           new == [SetColor(ui, n, c, c) EXCEPT !.ui_color_cnt = cnt]
           call == AddColor(ui, c, c, c)
<1>1. n \in Nat /\ n + 1 < UI_COLORS /\ n \in 0..(UI_COLORS - 1)
      /\ 0..(n - 1) \subseteq 0..(UI_COLORS - 1)
  <2>1. n \in Nat /\ n + 1 < UI_COLORS
    BY DEF Tables, RoomForColor
  <2> HIDE DEF n
  <2> QED
    BY <2>1
<1>2. call = IF same # {} THEN Answer(ui, Min(same)) ELSE Answer(new, cnt - 1)
  BY DEF AddColor
<1>3. cnt = n + 1
  <2>1. {n + 1, UI_COLORS - 1} \in SUBSET Nat /\ {n + 1, UI_COLORS - 1} # {}
    BY <1>1
  <2>2. cnt \in {n + 1, UI_COLORS - 1} /\ \A x \in {n + 1, UI_COLORS - 1} : cnt <= x
    BY <2>1, LeastOf
  <2> HIDE DEF cnt
  <2> QED
    BY <1>1, <2>2
<1>4. CASE same # {}
  <2>1. Min(same) \in same /\ \A x \in same : Min(same) <= x
    <3>1. same \in SUBSET Nat
      BY <1>1
    <3> HIDE DEF same
    <3> QED
      BY <1>4, <3>1, LeastOf
  <2> DEFINE m == Min(same)
  <2>2. call.ui = ui /\ call.index = m
    BY <1>2, <1>4 DEF Answer
  <2>3. m \in 0..(n - 1) /\ ui.color[m] = c /\ \A x \in 0..(n - 1) : ui.color[x] = c => m <= x
    BY <2>1
  <2> HIDE DEF m, call, same
  <2>4. \A j \in 0..(m - 1) : ui.color[j] # c
    BY <1>1, <2>3
  <2>5. ColorAdded(ui, c, call)
    BY <1>1, <2>2, <2>3, <2>4 DEF ColorAdded
  <2> QED
    BY <2>5 DEF call
<1>5. CASE same = {}
  <2>1. /\ new \in Tables /\ new.pair = ui.pair /\ new.ui_pair_cnt = ui.ui_pair_cnt
        /\ new.gamma = ui.gamma /\ new.ui_color_cnt = n + 1
        /\ new.color = [ui.color EXCEPT ![n] = c]
    <3> HIDE DEF cnt
    <3>1. ui.std_color \in [1..16 -> Colour] /\ ui.color \in [0..(UI_COLORS - 1) -> Colour]
      BY DEF Tables
    <3> DEFINE s == IF n < 16 THEN [ui.std_color EXCEPT ![n + 1] = c] ELSE ui.std_color
               k == [ui.color EXCEPT ![n] = c]
    <3>2. s \in [1..16 -> Colour] /\ k \in [0..(UI_COLORS - 1) -> Colour]
      BY <3>1
    <3> HIDE DEF s, k
    <3>3. SetColor(ui, n, c, c) = [ui EXCEPT !.color = k, !.std_color = s]
      BY DEF SetColor, s, k
    <3> DEFINE set == [ui EXCEPT !.color = k, !.std_color = s]
    <3>4. set \in Tables /\ set.pair = ui.pair /\ set.ui_pair_cnt = ui.ui_pair_cnt
          /\ set.gamma = ui.gamma /\ set.color = k
      BY <3>2 DEF Tables
    <3> HIDE DEF set
    <3> DEFINE last == [set EXCEPT !.ui_color_cnt = n + 1]
    <3>5. last \in Tables /\ last.pair = ui.pair /\ last.ui_pair_cnt = ui.ui_pair_cnt
          /\ last.gamma = ui.gamma /\ last.color = k /\ last.ui_color_cnt = n + 1
      <4> DEFINE v == n + 1
      <4>1. v \in Nat
        BY <1>1
      <4> HIDE DEF v, k
      <4>2. [set EXCEPT !.ui_color_cnt = v] \in Tables
        BY <3>4, <4>1 DEF Tables
      <4>3. \A t : t = [set EXCEPT !.ui_color_cnt = v] =>
                t.pair = set.pair /\ t.ui_pair_cnt = set.ui_pair_cnt
                /\ t.gamma = set.gamma /\ t.color = set.color /\ t.ui_color_cnt = v
        BY <3>4 DEF Tables
      <4> QED
        BY <3>4, <4>2, <4>3 DEF v
    <3>6. new = last
      BY <1>3, <3>3 DEF set
    <3> HIDE DEF last
    <3> QED
      BY <3>5, <3>6 DEF k
  <2>2. call.ui = new /\ call.index = n
    <3> HIDE DEF new, cnt
    <3> QED
      BY <1>1, <1>2, <1>3, <1>5 DEF Answer
  <2> HIDE DEF call, new, cnt
  <2>3. ui.color \in [0..(UI_COLORS - 1) -> Colour]
    BY DEF Tables
  <2>4. new.color[n] = c /\ \A j \in 0..(n - 1) : new.color[j] = ui.color[j]
    BY <1>1, <2>1, <2>3
  <2>5. \A j \in 0..(n - 1) : new.color[j] # c
    BY <1>5, <2>4
  <2>6. n \in 0..((n + 1) - 1)
    BY <1>1
  <2> HIDE DEF same
  <2>7. ColorAdded(ui, c, call)
    BY <1>1, <2>1, <2>2, <2>4, <2>5, <2>6 DEF ColorAdded
  <2> QED
    BY <2>7 DEF call
<1> QED
  BY <1>4, <1>5

\* A call that may have added a pair, and the pair it answers with.
PairAdded(ui, pr, call) ==
    /\ call.ui \in Tables /\ call.index \in Nat
    /\ call.ui.color = ui.color /\ call.ui.ui_color_cnt = ui.ui_color_cnt
    /\ call.ui.gamma = ui.gamma
    /\ call.ui.ui_pair_cnt \in {ui.ui_pair_cnt, ui.ui_pair_cnt + 1}
    /\ call.index \in 1..(call.ui.ui_pair_cnt - 1) /\ call.ui.pair[call.index] = pr
    /\ \A j \in 1..(call.index - 1) : call.ui.pair[j] # pr
    /\ \A j \in 1..(ui.ui_pair_cnt - 1) : call.ui.pair[j] = ui.pair[j]
    /\ \A j \in 1..(call.ui.ui_pair_cnt - 1) :
           j \in 1..(ui.ui_pair_cnt - 1) \/ call.ui.pair[j] = pr

LEMMA AddPairIs ==
  ASSUME NEW ui \in Tables, NEW f \in Nat, NEW b \in Nat, RoomForPair(ui), UI_PAIRS \in Nat
  PROVE  PairAdded(ui, <<f, b>>, ui_add_pair(ui, f, b))
<1> DEFINE n == ui.ui_pair_cnt
           pr == <<f, b>>
           same == {p \in 1..(n - 1) : ui.pair[p] = pr}
           free == Max({1, n})
           new == [ui EXCEPT !.pair[free] = pr, !.ui_pair_cnt = @ + 1]
           call == ui_add_pair(ui, f, b)
<1>1. n \in Nat /\ n > 0 /\ n + 1 < UI_PAIRS /\ n \in 0..(UI_PAIRS - 1)
      /\ 1..(n - 1) \subseteq 0..(UI_PAIRS - 1) /\ pr \in Nat \X Nat
  <2>1. n \in Nat /\ n > 0 /\ n + 1 < UI_PAIRS
    BY DEF Tables, RoomForPair
  <2> HIDE DEF n
  <2> QED
    BY <2>1
<1>2. free = n
  <2>1. {1, n} \in SUBSET (0..n) /\ {1, n} # {}
    BY <1>1
  <2>2. free \in {1, n}
    BY <1>1, <2>1, MaxIn
  <2>3. n <= free
    BY <1>1, <2>1, MaxIn
  <2> HIDE DEF free
  <2> QED
    BY <1>1, <2>2, <2>3
<1>3. call = IF same # {} THEN Answer(ui, Min(same)) ELSE Answer(new, n)
  <2>1. ~(free + 1 >= UI_PAIRS)
    BY <1>1, <1>2
  <2> QED
    BY <2>1 DEF ui_add_pair
<1>4. CASE same # {}
  <2>1. Min(same) \in same /\ \A x \in same : Min(same) <= x
    <3>1. same \in SUBSET Nat
      BY <1>1
    <3> HIDE DEF same
    <3> QED
      BY <1>4, <3>1, LeastOf
  <2> DEFINE m == Min(same)
  <2>2. call.ui = ui /\ call.index = m
    BY <1>3, <1>4 DEF Answer
  <2>3. m \in 1..(n - 1) /\ ui.pair[m] = pr /\ \A x \in 1..(n - 1) : ui.pair[x] = pr => m <= x
    BY <2>1
  <2> HIDE DEF m, call, same, pr
  <2>4. \A j \in 1..(m - 1) : ui.pair[j] # pr
    BY <1>1, <2>3
  <2>5. PairAdded(ui, pr, call)
    BY <1>1, <2>2, <2>3, <2>4 DEF PairAdded
  <2> QED
    BY <2>5 DEF call, pr
<1>5. CASE same = {}
  <2>1. /\ new \in Tables /\ new.color = ui.color /\ new.ui_color_cnt = ui.ui_color_cnt
        /\ new.gamma = ui.gamma /\ new.ui_pair_cnt = n + 1
        /\ new.pair = [ui.pair EXCEPT ![n] = pr]
    <3> DEFINE k == [ui.pair EXCEPT ![n] = pr]
               v == n + 1
    <3>1. k \in [0..(UI_PAIRS - 1) -> Nat \X Nat] /\ v \in Nat
      <4>1. ui.pair \in [0..(UI_PAIRS - 1) -> Nat \X Nat]
        BY DEF Tables
      <4> HIDE DEF pr, n
      <4>2. v \in Nat
        BY <1>1
      <4> HIDE DEF v
      <4> QED
        BY <1>1, <4>1, <4>2, SlotSet
    <3>2. new = [[ui EXCEPT !.pair = k] EXCEPT !.ui_pair_cnt = v]
      BY <1>2 DEF Tables
    <3> HIDE DEF k, v, new
    <3> DEFINE set == [ui EXCEPT !.pair = k]
    <3>3. set \in Tables /\ set.color = ui.color /\ set.ui_color_cnt = ui.ui_color_cnt
          /\ set.gamma = ui.gamma /\ set.pair = k
      BY <3>1 DEF Tables
    <3> HIDE DEF set
    <3>4. [set EXCEPT !.ui_pair_cnt = v] \in Tables
      BY <3>1, <3>3 DEF Tables
    <3>5. \A t : t = [set EXCEPT !.ui_pair_cnt = v] =>
              t.color = set.color /\ t.ui_color_cnt = set.ui_color_cnt
              /\ t.gamma = set.gamma /\ t.ui_pair_cnt = v /\ t.pair = set.pair
      BY <3>3 DEF Tables
    <3> QED
      BY <3>2, <3>3, <3>4, <3>5 DEF k, v, set
  <2>2. call.ui = new /\ call.index = n
    <3> HIDE DEF new
    <3> QED
      BY <1>3, <1>5 DEF Answer
  <2> HIDE DEF call, new, pr
  <2>3. ui.pair \in [0..(UI_PAIRS - 1) -> Nat \X Nat]
    BY DEF Tables
  <2>4. new.pair[n] = pr /\ \A j \in 1..(n - 1) : new.pair[j] = ui.pair[j]
    <3> HIDE DEF n
    <3>1. \A j \in 1..(n - 1) : j \in 0..(UI_PAIRS - 1) /\ j # n
      <4>1. \A m \in Nat : \A j \in 1..(m - 1) : j # m
        OBVIOUS
      <4> QED
        BY <1>1, <4>1
    <3>2. n \in 0..(UI_PAIRS - 1) /\ pr \in Nat \X Nat
      BY <1>1
    <3> DEFINE k == [ui.pair EXCEPT ![n] = pr]
    <3>3. k[n] = pr /\ \A j \in 0..(UI_PAIRS - 1) : j # n => k[j] = ui.pair[j]
      BY <2>3, <3>2, SlotSet, Zenon
    <3>4. new.pair = k
      BY <2>1
    <3> HIDE DEF k
    <3> QED
      BY <3>1, <3>3, <3>4
  <2>5. \A j \in 1..(n - 1) : new.pair[j] # pr
    BY <1>5, <2>4
  <2>6. n \in 1..((n + 1) - 1) /\ \A j \in 1..((n + 1) - 1) : j \in 1..(n - 1) \/ j = n
    BY <1>1
  <2> HIDE DEF same
  <2>7. PairAdded(ui, pr, call)
    BY <1>1, <2>1, <2>2, <2>4, <2>5, <2>6 DEF PairAdded
  <2> QED
    BY <2>7 DEF call, pr
<1> QED
  BY <1>4, <1>5

\* A colour, or a pair, that is in its table is found there and nothing is changed.
LEMMA ColorFound ==
  ASSUME NEW ui, NEW c, NEW i \in Nat, ui.ui_color_cnt \in Nat,
         i \in 0..(ui.ui_color_cnt - 1), ui.color[i] = c,
         \A j \in 0..(i - 1) : ui.color[j] # c
  PROVE  AddColor(ui, c, c, c) = Answer(ui, i)
<1> DEFINE same == {j \in 0..(ui.ui_color_cnt - 1) : ui.color[j] = c}
<1>1. i \in same /\ same \in SUBSET Nat /\ same # {}
  OBVIOUS
<1>2. \A j \in same : i <= j
  <2>1. \A j \in same : j \in Nat /\ j \notin 0..(i - 1)
    BY <1>1
  <2> HIDE DEF same
  <2> QED
    BY <2>1
<1>3. AddColor(ui, c, c, c) = IF same # {} THEN Answer(ui, Min(same)) ELSE
          Answer([SetColor(ui, ui.ui_color_cnt, c, c)
                      EXCEPT !.ui_color_cnt = Min({ui.ui_color_cnt + 1, UI_COLORS - 1})],
                 Min({ui.ui_color_cnt + 1, UI_COLORS - 1}) - 1)
  BY DEF AddColor
<1> HIDE DEF same
<1>4. Min(same) = i
  BY <1>1, <1>2, LeastIs
<1> QED
  BY <1>1, <1>3, <1>4

LEMMA PairFound ==
  ASSUME NEW ui, NEW f, NEW b, NEW i \in Nat, ui.ui_pair_cnt \in Nat,
         i \in 1..(ui.ui_pair_cnt - 1), ui.pair[i] = <<f, b>>,
         \A j \in 1..(i - 1) : ui.pair[j] # <<f, b>>
  PROVE  ui_add_pair(ui, f, b) = Answer(ui, i)
<1> DEFINE same == {j \in 1..(ui.ui_pair_cnt - 1) : ui.pair[j] = <<f, b>>}
<1>1. i \in same /\ same \in SUBSET Nat /\ same # {}
  OBVIOUS
<1>2. \A j \in same : i <= j
  <2>1. \A j \in same : j \in Nat /\ j > 0 /\ j \notin 1..(i - 1)
    BY <1>1
  <2> HIDE DEF same
  <2> QED
    BY <2>1
<1>3. same # {} => ui_add_pair(ui, f, b) = Answer(ui, Min(same))
  BY DEF ui_add_pair
<1> HIDE DEF same
<1>4. Min(same) = i
  BY <1>1, <1>2, LeastIs
<1> QED
  BY <1>1, <1>3, <1>4

\* The tables and the pair a cell of two colours gets.
LEMMA CellIs ==
  ASSUME NEW ui \in Tables, NEW fg \in RGB, NEW bg \in RGB,
         UI_COLORS \in Nat, UI_PAIRS \in Nat, RoomForCell(ui), Rooted(ui)
  PROVE  LET cell == ui_pair_from_hex(ui, fg, bg)
         IN  /\ cell.ui \in Tables /\ Rooted(cell.ui)
             /\ PairRight(ui, fg, bg)
<1> DEFINE c == Seen(ui, fg)
           d == Seen(ui, bg)
           f == AddColor(ui, c, c, c)
           b == AddColor(f.ui, d, d, d)
           pr == <<f.index, b.index>>
           cell == ui_add_pair(b.ui, f.index, b.index)
<1>1. c \in Colour /\ d \in Colour
  BY SeenType
<1>2. ui.ui_color_cnt \in Nat /\ ui.ui_pair_cnt \in Nat /\ ui.ui_color_cnt + 2 < UI_COLORS
      /\ RoomForColor(ui) /\ RoomForPair(ui)
  <2>1. ui.ui_color_cnt \in Nat /\ ui.ui_pair_cnt \in Nat
    BY DEF Tables
  <2> QED
    BY <2>1 DEF RoomForCell, RoomForColor, RoomForPair
<1> HIDE DEF c, d
<1>3. ColorAdded(ui, c, f)
  BY <1>1, <1>2, AddColorIs
<1>4. RoomForColor(f.ui) /\ f.ui \in Tables /\ f.ui.ui_color_cnt \in Nat
  <2>1. f.ui \in Tables /\ f.ui.ui_color_cnt \in {ui.ui_color_cnt, ui.ui_color_cnt + 1}
    BY <1>3 DEF ColorAdded
  <2> HIDE DEF f
  <2> QED
    BY <1>2, <2>1 DEF RoomForColor
<1>5. ColorAdded(f.ui, d, b)
  BY <1>1, <1>4, AddColorIs
<1>6. RoomForPair(b.ui) /\ b.ui \in Tables /\ f.index \in Nat /\ b.index \in Nat
      /\ b.ui.ui_color_cnt \in Nat
  BY <1>2, <1>3, <1>5 DEF ColorAdded, RoomForPair, Tables
<1>7. PairAdded(b.ui, pr, cell)
  BY <1>6, AddPairIs
<1>8. /\ ui_pair_from_hex(ui, fg, bg) = cell
      /\ cell.ui.gamma = ui.gamma => ui_pair_from_hex(cell.ui, fg, bg) =
             LET g == AddColor(cell.ui, c, c, c)
                 e == AddColor(g.ui, Seen(g.ui, bg), Seen(g.ui, bg), Seen(g.ui, bg))
             IN  ui_add_pair(e.ui, g.index, e.index)
  <2>1. \A u, r : ui_add_color_rgb(u, r) = AddColor(u, Seen(u, r), Seen(u, r), Seen(u, r))
    BY DEF ui_add_color_rgb, Seen
  <2>2. \A u, v, r : u.gamma = v.gamma => Seen(u, r) = Seen(v, r)
    BY DEF Seen, apply_gamma
  <2>3. Seen(f.ui, bg) = d
    BY <1>3, <2>2 DEF ColorAdded, d
  <2>4. cell.ui.gamma = ui.gamma => Seen(cell.ui, fg) = c
    BY <2>2 DEF c
  <2>5. \A u : ui_pair_from_hex(u, fg, bg) =
            LET g == AddColor(u, Seen(u, fg), Seen(u, fg), Seen(u, fg))
                e == AddColor(g.ui, Seen(g.ui, bg), Seen(g.ui, bg), Seen(g.ui, bg))
            IN  ui_add_pair(e.ui, g.index, e.index)
    BY <2>1 DEF ui_pair_from_hex
  <2>6. c = Seen(ui, fg)
    BY DEF c
  <2>7. ui_pair_from_hex(ui, fg, bg) = cell
    BY <2>3, <2>5, <2>6
  <2> HIDE DEF cell
  <2> QED
    BY <2>4, <2>5, <2>7
<1>9. Seen(cell.ui, bg) = d
  <2>1. \A u, v, r : u.gamma = v.gamma => Seen(u, r) = Seen(v, r)
    BY DEF Seen, apply_gamma
  <2>2. cell.ui.gamma = ui.gamma
    BY <1>3, <1>5, <1>7 DEF ColorAdded, PairAdded
  <2> QED
    BY <2>1, <2>2 DEF d
<1> HIDE DEF cell, f, b
\* The colours of the slots.
<1>10. /\ cell.ui \in Tables /\ cell.index \in 1..(cell.ui.ui_pair_cnt - 1)
       /\ cell.ui.pair[cell.index] = pr /\ cell.ui.color = b.ui.color
       /\ cell.ui.ui_color_cnt = b.ui.ui_color_cnt /\ cell.ui.gamma = ui.gamma
  BY <1>3, <1>5, <1>7 DEF ColorAdded, PairAdded
<1>11. /\ f.index \in 0..(f.ui.ui_color_cnt - 1) /\ f.ui.ui_color_cnt <= b.ui.ui_color_cnt
       /\ b.ui.color[f.index] = c /\ \A j \in 0..(f.index - 1) : b.ui.color[j] # c
  <2>1. f.index \in 0..(f.ui.ui_color_cnt - 1) /\ f.ui.color[f.index] = c
        /\ \A j \in 0..(f.index - 1) : f.ui.color[j] # c
    BY <1>3 DEF ColorAdded
  <2>2. b.ui.ui_color_cnt \in {f.ui.ui_color_cnt, f.ui.ui_color_cnt + 1}
        /\ \A j \in 0..(f.ui.ui_color_cnt - 1) : b.ui.color[j] = f.ui.color[j]
    BY <1>5 DEF ColorAdded
  <2>3. \A j \in 0..(f.index - 1) : j \in 0..(f.ui.ui_color_cnt - 1)
    BY <1>4, <2>1
  <2> QED
    BY <1>4, <2>1, <2>2, <2>3
<1>12. b.index \in 0..(b.ui.ui_color_cnt - 1) /\ b.ui.color[b.index] = d
       /\ \A j \in 0..(b.index - 1) : b.ui.color[j] # d
  BY <1>5 DEF ColorAdded
<1>13. Shows(cell.ui, cell.index) = <<c, d>>
  BY <1>10, <1>11, <1>12 DEF Shows
\* The pairs that stood.
<1>14. \A q \in 1..(ui.ui_pair_cnt - 1) :
           /\ cell.ui.pair[q] = ui.pair[q]
           /\ ui.pair[q][1] \in 0..(ui.ui_color_cnt - 1)
           /\ ui.pair[q][2] \in 0..(ui.ui_color_cnt - 1)
  BY <1>3, <1>5, <1>7 DEF ColorAdded, PairAdded, Rooted
<1>15. /\ ui.ui_color_cnt <= f.ui.ui_color_cnt
       /\ \A j \in 0..(ui.ui_color_cnt - 1) : b.ui.color[j] = ui.color[j]
  <2>1. f.ui.ui_color_cnt \in {ui.ui_color_cnt, ui.ui_color_cnt + 1}
        /\ \A j \in 0..(ui.ui_color_cnt - 1) : f.ui.color[j] = ui.color[j]
    BY <1>3 DEF ColorAdded
  <2>2. \A j \in 0..(f.ui.ui_color_cnt - 1) : b.ui.color[j] = f.ui.color[j]
    BY <1>5 DEF ColorAdded
  <2>3. \A j \in 0..(ui.ui_color_cnt - 1) : j \in 0..(f.ui.ui_color_cnt - 1)
    BY <1>2, <1>4, <2>1
  <2> QED
    BY <1>2, <1>4, <2>1, <2>2, <2>3
<1>16. \A q \in 1..(ui.ui_pair_cnt - 1) : Shows(cell.ui, q) = Shows(ui, q)
  BY <1>10, <1>14, <1>15 DEF Shows
<1>17. Rooted(cell.ui)
  <2> SUFFICES ASSUME NEW q \in 1..(cell.ui.ui_pair_cnt - 1)
               PROVE  /\ cell.ui.pair[q][1] \in 0..(b.ui.ui_color_cnt - 1)
                      /\ cell.ui.pair[q][2] \in 0..(b.ui.ui_color_cnt - 1)
    BY <1>10 DEF Rooted
  <2>1. \A m, n, r \in Nat : m <= n /\ n <= r => 0..(m - 1) \subseteq 0..(r - 1)
                                                 /\ 0..(n - 1) \subseteq 0..(r - 1)
    OBVIOUS
  <2>2. 0..(ui.ui_color_cnt - 1) \subseteq 0..(b.ui.ui_color_cnt - 1)
        /\ 0..(f.ui.ui_color_cnt - 1) \subseteq 0..(b.ui.ui_color_cnt - 1)
    BY <1>2, <1>4, <1>6, <1>11, <1>15, <2>1
  <2>3. q \in 1..(b.ui.ui_pair_cnt - 1) \/ cell.ui.pair[q] = pr
    BY <1>7 DEF PairAdded
  <2>4. b.ui.ui_pair_cnt = ui.ui_pair_cnt
    BY <1>3, <1>5 DEF ColorAdded
  <2>5. CASE q \in 1..(ui.ui_pair_cnt - 1)
    BY <1>14, <2>2, <2>5, Zenon
  <2>6. CASE cell.ui.pair[q] = pr
    <3>1. pr[1] = f.index /\ pr[2] = b.index
      OBVIOUS
    <3> HIDE DEF pr
    <3> QED
      BY <1>11, <1>12, <2>2, <2>6, <3>1, Zenon
  <2> QED
    BY <2>3, <2>4, <2>5, <2>6
\* The same cell again.
<1>18. ui_pair_from_hex(cell.ui, fg, bg) = Answer(cell.ui, cell.index)
  <2>1. AddColor(cell.ui, c, c, c) = Answer(cell.ui, f.index)
    <3>1. f.index \in 0..(cell.ui.ui_color_cnt - 1)
      BY <1>4, <1>6, <1>10, <1>11
    <3> QED
      BY <1>6, <1>10, <1>11, <3>1, ColorFound
  <2>2. AddColor(cell.ui, d, d, d) = Answer(cell.ui, b.index)
    BY <1>6, <1>10, <1>12, ColorFound
  <2>3. ui_add_pair(cell.ui, f.index, b.index) = Answer(cell.ui, cell.index)
    <3>1. cell.ui.ui_pair_cnt \in Nat /\ cell.index \in Nat
      BY <1>7, <1>10 DEF PairAdded, Tables
    <3>2. \A j \in 1..(cell.index - 1) : cell.ui.pair[j] # <<f.index, b.index>>
      BY <1>7 DEF PairAdded
    <3>3. cell.index \in 1..(cell.ui.ui_pair_cnt - 1)
          /\ cell.ui.pair[cell.index] = <<f.index, b.index>>
      BY <1>10
    <3> DEFINE u == cell.ui
               x == f.index
               y == b.index
               i == cell.index
    <3>4. /\ u.ui_pair_cnt \in Nat /\ i \in Nat /\ i \in 1..(u.ui_pair_cnt - 1)
          /\ u.pair[i] = <<x, y>> /\ \A j \in 1..(i - 1) : u.pair[j] # <<x, y>>
      BY <3>1, <3>2, <3>3
    <3> HIDE DEF u, x, y, i
    <3>5. ui_add_pair(u, x, y) = Answer(u, i)
      BY <3>4, PairFound
    <3> QED
      BY <3>5 DEF u, x, y, i
  <2>4. \A u, i : Answer(u, i).ui = u /\ Answer(u, i).index = i
    BY DEF Answer
  <2> QED
    BY <1>8, <1>9, <1>10, <2>1, <2>2, <2>3, <2>4
<1>19. PairRight(ui, fg, bg)
  BY <1>8, <1>13, <1>16, <1>18 DEF PairRight, c, d
<1> QED
  BY <1>8, <1>10, <1>17, <1>19

\* In tables with room, the pair of a cell shows the two colours that were asked for, every
\* pair that stood shows what it showed, and the same cell gets the same pair again
\* (ui_ncurses.c:77, 131).  The tables are again such that this holds of the next cell, as
\* long as there is room and no other theme is read.
THEOREM CellsCorrect ==
  UI_COLORS \in Nat /\ UI_PAIRS \in Nat =>
      \A ui \in Tables : RoomForCell(ui) /\ Rooted(ui) =>
          \A fg, bg \in RGB :
              /\ PairRight(ui, fg, bg)
              /\ ui_pair_from_hex(ui, fg, bg).ui \in Tables
              /\ Rooted(ui_pair_from_hex(ui, fg, bg).ui)
  BY CellIs
=============================================================================
