-------------------------- MODULE ViewEngineProofs --------------------------
(***************************************************************************)
(* Proofs about View, for all files, page sizes, counts and increments of   *)
(* the table: what the line table, the rows of the page and 'G' show        *)
(* without the command line; what the command line keeps, and what a search *)
(* finds, with it.                                                          *)
(***************************************************************************)
EXTENDS ViewSearch, NumberLemmas, TLAPS

\* get_line reads the first line of every file to its end.  Without it the first page
\* leaves the table empty, and what a later command enters is counted from the line of
\* the file viewed before.
FirstLineFits ==
    \A f \in File : Len(Ends[f]) > 0 => Ends[f][1] - 1 <= PadCols

-----------------------------------------------------------------------------
(* Lines of a file. *)

LEMMA EndsType ==
  ASSUME NEW f \in File
  PROVE  /\ Len(Ends[f]) \in Nat
         /\ \A i \in 1..Len(Ends[f]) : Ends[f][i] \in Nat /\ Ends[f][i] > 0
         /\ \A i, j \in 1..Len(Ends[f]) : i < j => Ends[f][i] < Ends[f][j]
         /\ Size[f] \in Nat
<1>1. Ends[f] \in Seq(Nat \ {0})
  BY FileAssumption
<1>2. \A i \in 1..Len(Ends[f]) : Ends[f][i] \in Nat \ {0}
  BY <1>1
<1> QED
  BY <1>1, <1>2, FileAssumption

LEMMA StartsAscend ==
  ASSUME NEW f \in File, NEW i \in Line(f), NEW j \in Line(f), i < j
  PROVE  LineStart(f, i) < LineStart(f, j)
  BY EndsType DEF Line, LineStart

LEMMA StartType ==
  ASSUME NEW f \in File, NEW i \in Line(f)
  PROVE  LineStart(f, i) \in Nat /\ (i > 0 <=> LineStart(f, i) > 0)
  BY EndsType DEF Line, LineStart

\* What is read from where a line starts ends where the next line starts.
LEMMA NextEndOfLine ==
  ASSUME NEW f \in File, NEW i \in Line(f), HasEnd(f, LineStart(f, i))
  PROVE  i + 1 \in Line(f) /\ NextEnd(f, LineStart(f, i)) = LineStart(f, i + 1)
<1> DEFINE After == EndsAfter(f, LineStart(f, i))
<1>1. \A j \in 1..Len(Ends[f]) : j \in After <=> j > i
  <2> SUFFICES ASSUME NEW j \in 1..Len(Ends[f]) PROVE j \in After <=> j > i
    OBVIOUS
  <2>1. j \in Line(f) /\ LineStart(f, j) = Ends[f][j]
    BY EndsType DEF Line, LineStart
  <2>2. CASE j > i
    BY <2>1, <2>2, StartsAscend DEF EndsAfter, Line
  <2>3. CASE j < i
    <3>1. LineStart(f, j) < LineStart(f, i)
      BY <2>1, <2>3, StartsAscend
    <3> QED
      BY <2>1, <2>3, <3>1, StartType DEF EndsAfter, Line
  <2>4. CASE j = i
    BY <2>1, <2>4, StartType DEF EndsAfter
  <2> QED
    BY <2>2, <2>3, <2>4, EndsType DEF Line
<1>2. PICK j \in After : TRUE
  BY DEF HasEnd
<1>3. i + 1 \in 1..Len(Ends[f])
  BY <1>1, <1>2, EndsType DEF EndsAfter, Line
<1>4. i + 1 \in After /\ \A k \in After : i + 1 <= k
  BY <1>1, <1>3, EndsType DEF EndsAfter, Line
<1>5. (CHOOSE k \in After : \A l \in After : k <= l) = i + 1
  <2> DEFINE First == CHOOSE k \in After : \A l \in After : k <= l
  <2>1. First \in After /\ \A l \in After : First <= l
    BY <1>4
  <2> HIDE DEF First
  <2>2. First \in Int
    BY <2>1, EndsType DEF EndsAfter
  <2> QED
    BY <1>4, <2>1, <2>2, EndsType DEF First, Line
<1>6. NextEnd(f, LineStart(f, i)) = Ends[f][i + 1]
  BY <1>5 DEF NextEnd
<1>7. i + 1 # 0 /\ i + 1 \in Line(f)
  BY <1>3, EndsType DEF Line
<1> QED
  BY <1>6, <1>7 DEF LineStart

LEMMA EndsOnlyWithLines ==
  ASSUME NEW f \in File, NEW pos, HasEnd(f, pos)
  PROVE  Len(Ends[f]) > 0
  BY EndsType DEF HasEnd, EndsAfter

-----------------------------------------------------------------------------
(* The invariant. *)

\* The last line of which the table holds the start.
Used == IF ln_max_pos = 0 THEN 0 ELSE ln_tbl_cnt

TableType ==
    /\ file \in File
    /\ ln_tbl_size \in Nat
    /\ ln_tbl_size > 1
    /\ ln_tbl \in [0..(ln_tbl_size - 1) -> Positions]
    /\ ln_tbl_cnt \in Nat
    /\ ln_max_pos \in Nat

\* Up to Used the table holds where lines start, beyond it nothing that is one.
TableFilled ==
    /\ Used \in 0..(ln_tbl_size - 1)
    /\ Used \in Line(file)
    /\ ln_max_pos = LineStart(file, Used)
    /\ \A i \in 0..Used : ln_tbl[i] = LineStart(file, i)
    /\ \A i \in (Used + 1)..(ln_tbl_size - 1) : ln_tbl[i] \in {0, Wild}

\* Until the first line is in the table, the first page is about to be displayed.
FirstPage ==
    ln_max_pos = 0 /\ Len(Ends[file]) > 0 => pc = "display" /\ ln_no = 0

\* sync_ln reads on from the end of the table.
SyncAtEnd ==
    pc = "sync" /\ ln_max_pos > 0 => ln_no = ln_tbl_cnt /\ file_pos = ln_max_pos

IInv == TableType /\ TableFilled /\ FirstPage /\ SyncAtEnd

LEMMA InvImpliesTableRight == IInv => TableRight
  BY DEF IInv, TableType, TableFilled, TableRight, Used, Entry

LEMMA InitInv == Init => IInv
<1> SUFFICES ASSUME Init PROVE IInv
  OBVIOUS
<1>1. TableType
  BY FileAssumption DEF Init, TableType, Positions
<1>2. 0 \in Line(file)
  BY <1>1, EndsType DEF Line, TableType
<1>3. Used = 0 /\ LineStart(file, 0) = 0
  BY DEF Init, Used, LineStart
<1>4. \A i \in 0..(ln_tbl_size - 1) : ln_tbl[i] = 0
  BY DEF Init
<1>5. TableFilled
  <2>1. 0 \in 0..(ln_tbl_size - 1) /\ ln_max_pos = 0
    BY <1>1 DEF TableType, Init
  <2>2. \A i \in (0 + 1)..(ln_tbl_size - 1) : ln_tbl[i] \in {0, Wild}
    BY <1>1, <1>4 DEF TableType
  <2>3. \A i \in 0..0 : ln_tbl[i] = LineStart(file, i)
    BY <1>3, <1>4, <2>1
  <2> QED
    BY <1>2, <1>3, <2>1, <2>2, <2>3 DEF TableFilled
<1>6. FirstPage /\ SyncAtEnd
  BY DEF Init, FirstPage, SyncAtEnd
<1> QED
  BY <1>1, <1>5, <1>6 DEF IInv

-----------------------------------------------------------------------------
(* What reading a line does to the table. *)

\* Wild is not a number.
LEMMA WildIsNoNumber == Wild \notin Nat
  BY FileAssumption

\* A newline found at the end e of line Used enters the next line.
LEMMA IncrementAtEnd ==
  ASSUME IInv, file' = file, Used + 1 \in Line(file),
         NEW e, e = LineStart(file, Used + 1), Increment(Used + 1, e)
  PROVE  TableType' /\ TableFilled' /\ ln_max_pos' > 0 /\ ln_max_pos' = e
         /\ ln_tbl_cnt' = Used + 1
<1>1. e \in Nat /\ e > ln_max_pos
  BY StartsAscend, StartType DEF IInv, TableFilled, TableType
<1>2. ln_tbl_cnt' = Used + 1 /\ ln_max_pos' = e
  BY <1>1 DEF Increment, IInv, TableType
<1>3. Used \in Nat /\ LineTblIncr \in Nat /\ LineTblIncr > 1
  BY FileAssumption DEF IInv, TableType, Used
<1>4. Used' = Used + 1
  BY <1>1, <1>2, <1>3 DEF Used, IInv, TableType
<1>5. /\ ln_tbl_size' \in Nat
      /\ ln_tbl_size' > 1
      /\ Used + 1 \in 0..(ln_tbl_size' - 1)
      /\ ln_tbl' \in [0..(ln_tbl_size' - 1) -> Positions]
      /\ ln_tbl'[Used + 1] = e
      /\ \A i \in 0..Used : ln_tbl'[i] = ln_tbl[i]
      /\ \A i \in (Used + 1 + 1)..(ln_tbl_size' - 1) : ln_tbl'[i] \in {0, Wild}
  <2>1. ~(e <= ln_max_pos)
    BY <1>1 DEF IInv, TableType
  <2>2. CASE Used + 1 <= ln_tbl_size - 1
    <3>1. ln_tbl' = [ln_tbl EXCEPT ![Used + 1] = e] /\ ln_tbl_size' = ln_tbl_size
      BY <2>1, <2>2, <1>3 DEF Increment, IInv, TableType
    <3> QED
      BY <1>1, <1>3, <2>2, <3>1 DEF IInv, TableType, TableFilled, Positions
  <2>3. CASE Used + 1 > ln_tbl_size - 1
    <3>1. PICK junk \in {0, Wild} :
            /\ ln_tbl_size' = ln_tbl_size + LineTblIncr
            /\ ln_tbl' = [i \in 0..(ln_tbl_size + LineTblIncr - 1) |->
                              IF i = Used + 1 THEN e
                              ELSE IF i < ln_tbl_size THEN ln_tbl[i] ELSE junk]
      BY <2>1, <2>3, <1>3 DEF Increment, IInv, TableType
    <3>2. Used = ln_tbl_size - 1
      BY <1>3, <2>3 DEF IInv, TableFilled, TableType
    <3> QED
      BY <1>1, <1>3, <3>1, <3>2 DEF IInv, TableType, TableFilled, Positions
  <2> QED
    BY <2>2, <2>3, <1>3 DEF IInv, TableType
<1>6. ln_tbl_size' \in Nat /\ ln_tbl_size' > 1
      /\ ln_tbl' \in [0..(ln_tbl_size' - 1) -> Positions]
  BY <1>5
<1>7. file' \in File /\ ln_tbl_cnt' \in Nat /\ ln_max_pos' \in Nat
  BY <1>1, <1>2, <1>3 DEF TableType, IInv
<1>8. TableType'
  BY <1>6, <1>7 DEF TableType
<1>9. \A i \in 0..(Used + 1) : ln_tbl'[i] = LineStart(file, i)
  <2>1. \A i \in 0..Used : ln_tbl'[i] = LineStart(file, i)
    BY <1>5 DEF IInv, TableFilled
  <2>2. ln_tbl'[Used + 1] = LineStart(file, Used + 1)
    BY <1>5
  <2> QED
    BY <1>3, <2>1, <2>2
<1>10. Used + 1 \in 0..(ln_tbl_size' - 1)
       /\ \A i \in (Used + 1 + 1)..(ln_tbl_size' - 1) : ln_tbl'[i] \in {0, Wild}
  BY <1>5
<1>11. TableFilled'
  BY <1>2, <1>4, <1>9, <1>10 DEF TableFilled
<1>12. ln_max_pos' > 0
  BY <1>1, <1>2 DEF TableType, IInv
<1> QED
  BY <1>2, <1>8, <1>11, <1>12

\* get_line for a line that is shown enters the next line, when it is the last one of the
\* table and not too long, or leaves the table alone: the line was read before, or it is
\* behind the table and stands for the first.
LEMMA GetLineStep ==
  ASSUME FirstLineFits, IInv, file' = file, NEW n, SomeLine(n), GetLine(n),
         ln_max_pos = 0 /\ Len(Ends[file]) > 0 => n = 0
  PROVE  /\ TableType' /\ TableFilled'
         /\ ln_max_pos' > 0 \/ Len(Ends[file]) = 0
         /\ n # Used => UNCHANGED table
         /\ n = Used /\ ~TooLong(file, Entry(n)) => Used' = Used + 1
<1> USE DEF IInv
<1>1. n \in 0..(ln_tbl_size - 1) /\ Entry(n) = ln_tbl[n] /\ ln_tbl[n] \in Nat
  BY DEF SomeLine, Entry, TableType, Positions
<1>2. Used \in Nat /\ Len(Ends[file]) \in Nat
  BY EndsType DEF TableType, Used
<1>3. CASE TooLong(file, Entry(n))
  <2>1. UNCHANGED table
    BY <1>3 DEF GetLine
  <2>2. ln_max_pos > 0 \/ Len(Ends[file]) = 0
    <3> SUFFICES ASSUME ln_max_pos = 0, Len(Ends[file]) > 0 PROVE FALSE
      BY <1>2 DEF TableType
    <3>1. Used = 0 /\ n = 0
      BY DEF Used
    <3>2. 0 \in Line(file) /\ LineStart(file, 0) = 0
      BY <1>2 DEF Line, LineStart
    <3>3. Entry(n) = 0
      BY <1>1, <3>1, <3>2 DEF TableFilled
    <3>4. HasEnd(file, 0)
      BY EndsType, <1>2 DEF HasEnd, EndsAfter, TableType
    <3>5. NextEnd(file, 0) = Ends[file][1]
      BY <3>2, <3>4, NextEndOfLine DEF LineStart, TableType
    <3>6. file \in File /\ Ends[file][1] \in Nat /\ Ends[file][1] - 1 <= PadCols /\ PadCols \in Nat
      BY <1>2, EndsType, FileAssumption DEF FirstLineFits, TableType
    <3>7. ~TooLong(file, 0)
      BY <3>4, <3>5, <3>6 DEF TooLong
    <3> QED
      BY <1>3, <3>3, <3>7
  <2> QED
    BY <1>3, <2>1, <2>2 DEF table, TableType, TableFilled, Used
<1>4. CASE ~TooLong(file, Entry(n))
  <2>1. HasEnd(file, Entry(n)) /\ Increment(n + 1, NextEnd(file, Entry(n)))
    BY <1>4 DEF GetLine, SomeLine, AtEod
  <2>2. Len(Ends[file]) > 0
    BY <2>1, EndsOnlyWithLines DEF TableType
  <2>3. CASE n = Used
    <3>1. Entry(n) = LineStart(file, Used)
      BY <1>1, <1>2, <2>3 DEF TableFilled
    <3>2. /\ Used + 1 \in Line(file)
          /\ NextEnd(file, Entry(n)) = LineStart(file, Used + 1)
      BY <2>1, <3>1, NextEndOfLine DEF TableFilled, TableType
    <3>3. /\ TableType' /\ TableFilled' /\ ln_max_pos' > 0
          /\ ln_tbl_cnt' = Used + 1
      BY <2>1, <2>3, <3>2, IncrementAtEnd
    <3>4. Used' = Used + 1
      BY <3>3 DEF Used, TableType
    <3> QED
      BY <2>3, <3>3, <3>4
  <2>4. CASE n # Used
    <3>1. ln_max_pos > 0 /\ Used > 0
      BY <1>2, <2>2, <2>4, StartType DEF TableFilled, TableType, Used
    <3>2. PICK i \in 0..(Used - 1) : Entry(n) = LineStart(file, i)
      <4>1. CASE n < Used
        BY <1>1, <1>2, <4>1 DEF TableFilled
      <4>2. CASE n > Used
        <5>1. n \in (Used + 1)..(ln_tbl_size - 1)
          BY <1>1, <1>2, <4>2 DEF TableType
        <5>2. ln_tbl[n] \in {0, Wild}
          BY <5>1 DEF TableFilled
        <5>3. ln_tbl[n] = 0
          BY <1>1, <5>2, WildIsNoNumber
        <5>4. 0 \in 0..(Used - 1) /\ LineStart(file, 0) = 0
          BY <1>2, <3>1 DEF LineStart
        <5> QED
          BY <1>1, <5>3, <5>4
      <4> QED
        BY <1>1, <1>2, <2>4, <4>1, <4>2
    <3>3. i \in Line(file)
      BY <1>2 DEF TableFilled, Line
    <3>4. i + 1 \in Line(file) /\ NextEnd(file, Entry(n)) = LineStart(file, i + 1)
      BY <2>1, <3>2, <3>3, NextEndOfLine DEF TableType
    <3>5. LineStart(file, i + 1) <= ln_max_pos
      <4>1. CASE i + 1 = Used
        BY <4>1 DEF TableFilled, TableType
      <4>2. CASE i + 1 < Used
        BY <3>4, <4>2, StartsAscend, StartType DEF TableFilled, TableType
      <4> QED
        BY <1>2, <4>1, <4>2
    <3>6. UNCHANGED table
      BY <2>1, <3>4, <3>5 DEF Increment
    <3> QED
      BY <2>4, <3>1, <3>6 DEF table, TableType, TableFilled, Used
  <2> QED
    BY <2>3, <2>4
<1> QED
  BY <1>3, <1>4

\* sync_ln's loop enters the line behind the last one.
LEMMA SyncStep == IInv /\ SyncLine => IInv'
<1> SUFFICES ASSUME IInv, SyncLine PROVE IInv'
  OBVIOUS
<1>1. file' = file /\ HasEnd(file, file_pos) /\ pc = "sync" /\ pc' = "sync"
  BY DEF SyncLine
<1>2. ln_max_pos > 0 /\ Len(Ends[file]) \in Nat
  BY <1>1, EndsOnlyWithLines, EndsType DEF IInv, FirstPage, TableType
<1>3. Used = ln_tbl_cnt /\ ln_no = Used /\ file_pos = LineStart(file, Used)
  BY <1>1, <1>2 DEF IInv, SyncAtEnd, Used, TableType, TableFilled
<1>4. Used + 1 \in Line(file) /\ NextEnd(file, file_pos) = LineStart(file, Used + 1)
  BY <1>1, <1>3, NextEndOfLine DEF IInv, TableFilled, TableType
<1>5. Increment(Used + 1, NextEnd(file, file_pos))
  BY <1>3 DEF SyncLine
<1>6. TableType' /\ TableFilled' /\ ln_max_pos' > 0
      /\ ln_max_pos' = NextEnd(file, file_pos) /\ ln_tbl_cnt' = Used + 1
  BY <1>1, <1>4, <1>5, IncrementAtEnd
<1>7. ln_no' = Used + 1 /\ file_pos' = NextEnd(file, file_pos)
  BY <1>3 DEF SyncLine
<1> QED
  BY <1>6, <1>7 DEF IInv, FirstPage, SyncAtEnd

-----------------------------------------------------------------------------
(* What the other steps do to it. *)

\* A step that leaves the file and the table alone, before which the first line was in
\* the table and after which sync_ln does not begin.
LEMMA QuietStep ==
  ASSUME IInv, UNCHANGED <<file, table>>, pc # "display" \/ ln_max_pos > 0, pc' # "sync"
  PROVE  IInv'
<1>1. ln_max_pos > 0 \/ ~(Len(Ends[file]) > 0)
  BY DEF IInv, FirstPage, TableType
<1> QED
  BY <1>1 DEF table, IInv, TableType, TableFilled, Used, FirstPage, SyncAtEnd

LEMMA NextPageQuiet ==
  ASSUME NEW n, NEW top, NEW y, NEW pos, NextPage(n, top, y, pos)
  PROVE  UNCHANGED table /\ pc' # "sync"
  BY DEF NextPage, Prompt

\* The commands but 'G' and those that open a file.
LEMMA CommandStep ==
  ASSUME IInv,
         \/ \E n : Down(n) \/ Up(n) \/ GoToLine(n)
         \/ \E p \in Percent : GoToPercent(p)
         \/ NPage \/ PPage \/ Redisplay \/ SetMark \/ GoToMark \/ Quit
  PROVE  IInv'
<1>1. ASSUME NEW n, Down(n) \/ Up(n)
      PROVE  pc = "prompt" /\ pc' # "sync" /\ UNCHANGED <<file, table>>
  BY <1>1 DEF Down, Up, Prompt
<1>2. ASSUME NEW n, GoToLine(n)
      PROVE  pc = "prompt" /\ pc' # "sync" /\ UNCHANGED <<file, table>>
  BY <1>2, NextPageQuiet DEF GoToLine, Prompt
<1>3. ASSUME NEW p \in Percent, GoToPercent(p)
      PROVE  pc = "prompt" /\ pc' # "sync" /\ UNCHANGED <<file, table>>
  <2>1. PICK n \in LineNumber((p * Size[file]) \div 100) :
          LET top == IF n > ScrollLines THEN n - ScrollLines ELSE 0
          IN  NextPage(n, top, cury, Entry(top))
    BY <1>3 DEF GoToPercent
  <2> QED
    BY <1>3, <2>1, NextPageQuiet DEF GoToPercent
<1>4. ASSUME GoToMark
      PROVE  pc = "prompt" /\ pc' # "sync" /\ UNCHANGED <<file, table>>
  BY <1>4, NextPageQuiet DEF GoToMark
<1>5. ASSUME NPage \/ PPage
      PROVE  pc = "prompt" /\ pc' # "sync" /\ UNCHANGED <<file, table>>
  BY <1>5, NextPageQuiet DEF NPage, PPage, Prompt
<1>6. ASSUME Redisplay \/ SetMark \/ Quit
      PROVE  pc = "prompt" /\ pc' # "sync" /\ UNCHANGED <<file, table>>
  BY <1>6 DEF Redisplay, SetMark, Quit
<1> QED
  BY <1>1, <1>2, <1>3, <1>4, <1>5, <1>6, QuietStep

LEMMA GoToEofStep == IInv /\ GoToEof => IInv'
<1> SUFFICES ASSUME IInv, GoToEof PROVE IInv'
  OBVIOUS
<1>1. pc = "prompt" /\ file' = file
  BY DEF GoToEof
<1>2. ASSUME NEW n, ShowEnd(n) PROVE UNCHANGED table /\ pc' # "sync"
  BY <1>2, NextPageQuiet DEF ShowEnd
<1>3. CASE pc' # "sync"
  BY <1>1, <1>2, <1>3, QuietStep DEF GoToEof, GoesWild
<1>4. CASE pc' = "sync"
  <2>1. UNCHANGED table /\ file_pos' = Entry(ln_tbl_cnt) /\ ln_no' = ln_tbl_cnt
    BY <1>2, <1>4 DEF GoToEof, GoesWild
  <2>2. ln_max_pos > 0 => Entry(ln_tbl_cnt) = ln_max_pos
    BY DEF IInv, TableType, TableFilled, Used, Entry
  <2>3. ln_max_pos > 0 \/ ~(Len(Ends[file]) > 0)
    BY <1>1 DEF IInv, FirstPage, TableType
  <2> QED
    BY <1>1, <1>4, <2>1, <2>2, <2>3
    DEF table, IInv, TableType, TableFilled, Used, FirstPage, SyncAtEnd
<1> QED
  BY <1>3, <1>4

\* The first page of a file is displayed from its first line, with an empty table.
LEMMA OpenStep == ASSUME IInv, NEW f \in File, Open(f) PROVE IInv'
<1>1. TableType'
  BY FileAssumption DEF Open, IInv, TableType, Positions
<1>2. Used' = 0 /\ LineStart(f, 0) = 0 /\ 0 \in Line(f)
  BY EndsType DEF Open, Used, LineStart, Line
<1>3. ln_tbl' = [i \in 0..(LineTblIncr - 1) |-> 0] /\ ln_tbl_size' = LineTblIncr
      /\ ln_max_pos' = 0 /\ file' = f
  BY DEF Open
<1>4. TableFilled'
  <2>1. \A i \in 0..(LineTblIncr - 1) : ln_tbl'[i] = 0
    BY <1>3
  <2>2. 0 \in 0..(LineTblIncr - 1)
    BY FileAssumption
  <2>3. \A i \in (0 + 1)..(LineTblIncr - 1) : ln_tbl'[i] \in {0, Wild}
    BY <2>1, FileAssumption
  <2>4. \A i \in 0..0 : ln_tbl'[i] = LineStart(f, i)
    BY <1>2, <2>1, <2>2
  <2> QED
    BY <1>2, <1>3, <2>2, <2>3, <2>4 DEF TableFilled
<1>5. FirstPage' /\ SyncAtEnd'
  BY DEF Open, FirstPage, SyncAtEnd
<1> QED
  BY <1>1, <1>4, <1>5 DEF IInv

\* A loop reads a line.
LEMMA LineStep ==
  ASSUME FirstLineFits, IInv, DisplayLine \/ DownLine \/ UpLine
  PROVE  IInv'
<1>1. file' = file /\ pc \in {"display", "down", "up"} /\ pc' # "sync"
  BY DEF DisplayLine, DownLine, UpLine, Prompt
<1>2. PICK n : SomeLine(n) /\ GetLine(n) /\ (pc = "display" => n = ln_no)
  <2>1. CASE DisplayLine
    BY <2>1 DEF DisplayLine
  <2>2. CASE DownLine
    BY <2>2 DEF DownLine
  <2>3. CASE UpLine
    BY <2>3 DEF UpLine
  <2> QED
    BY <2>1, <2>2, <2>3
<1>3. ln_max_pos = 0 /\ Len(Ends[file]) > 0 => n = 0
  BY <1>2 DEF IInv, FirstPage
<1>4. TableType' /\ TableFilled' /\ (ln_max_pos' > 0 \/ Len(Ends[file]) = 0)
  BY <1>1, <1>2, <1>3, GetLineStep
<1>5. FirstPage' /\ SyncAtEnd'
  BY <1>1, <1>4 DEF FirstPage, SyncAtEnd, TableType
<1> QED
  BY <1>4, <1>5 DEF IInv

\* A loop ends.  The first line of a file that has lines is neither undefined nor the
\* end of the data.
LEMMA LoopEndStep ==
  ASSUME IInv,
         \/ DisplayEod \/ DisplayWild \/ DownEnd \/ DownWild \/ UpEod \/ UpWild \/ SyncEnd
  PROVE  IInv'
<1>1. file' = file /\ pc' # "sync" /\ UNCHANGED table
  <2>1. ASSUME SyncEnd PROVE UNCHANGED <<file, table>> /\ pc' # "sync"
    BY <2>1, NextPageQuiet DEF SyncEnd, ShowEnd
  <2> QED
    BY <2>1 DEF DisplayEod, DisplayWild, DownEnd, DownWild, UpEod, UpWild, GoesWild, Prompt
<1>2. CASE pc # "display"
  BY <1>1, <1>2, QuietStep
<1>3. CASE pc = "display"
  <2>1. NoLine(ln_no) \/ Entry(ln_no) = Wild
    BY <1>3 DEF DisplayEod, DisplayWild, DownEnd, DownWild, UpEod, UpWild, SyncEnd
  <2>2. ln_max_pos > 0 \/ ~(Len(Ends[file]) > 0)
    <3> SUFFICES ASSUME ln_max_pos = 0, Len(Ends[file]) > 0 PROVE FALSE
      BY DEF IInv, TableType
    <3>1. ln_no = 0 /\ Used = 0 /\ LineStart(file, 0) = 0
      BY DEF IInv, FirstPage, Used, LineStart
    <3>2. Entry(ln_no) = 0
      BY <3>1 DEF IInv, TableFilled, TableType, Entry
    <3>3. HasEnd(file, 0)
      BY EndsType DEF HasEnd, EndsAfter, IInv, TableType
    <3> QED
      BY <2>1, <3>2, <3>3, WildIsNoNumber DEF NoLine, AtEod
  <2> QED
    BY <1>1, <2>2 DEF table, IInv, TableType, TableFilled, Used, FirstPage, SyncAtEnd
<1> QED
  BY <1>2, <1>3

-----------------------------------------------------------------------------

LEMMA NextInv == FirstLineFits /\ IInv /\ [Next]_vars => IInv'
<1> SUFFICES ASSUME FirstLineFits, IInv, [Next]_vars PROVE IInv'
  OBVIOUS
<1>1. CASE Command
  BY <1>1, CommandStep, GoToEofStep, OpenStep DEF Command
<1>2. CASE Loop
  BY <1>2, LineStep, LoopEndStep, SyncStep DEF Loop
<1>3. CASE UNCHANGED vars
  BY <1>3 DEF vars, table, IInv, TableType, TableFilled, Used, FirstPage, SyncAtEnd
<1> QED
  BY <1>1, <1>2, <1>3 DEF Next, Ended

\* Whatever is displayed, jumped to, read or opened, and in whatever order, the line
\* table holds where the lines of the file start (increment_ln, sync_ln, view_file).
THEOREM TableCorrect == ASSUME FirstLineFits PROVE Spec => []TableRight
<1>1. IInv /\ [Next]_vars => IInv'
  BY NextInv
<1> QED
  BY <1>1, InitInv, InvImpliesTableRight, PTL DEF Spec

-----------------------------------------------------------------------------
(* The rows of the page. *)

\* Row s shows, if anything, a line of file f.
ShowsLine(f, s) ==
    s # Blank /\ s.pos # 0 =>
        /\ s.no \in Line(f)
        /\ s.pos = LineStart(f, s.no)

RowsType ==
    /\ cury \in Nat
    /\ screen \in [Row -> [no : Nat, pos : Positions] \cup {Blank}]

\* While a page is displayed, the rows that were not reached yet still show the page
\* before, which may be one of another file.
RowsDrawn ==
    pc # "wild" => \A r \in Row : (pc = "display" => r < cury) => ShowsLine(file, screen[r])

RInv == RowsType /\ RowsDrawn

\* What is drawn for line n is line n, if it is not what the table does not know.
LEMMA DrawStep ==
  ASSUME IInv, RowsType, file' = file, NEW n, SomeLine(n), NEW r \in Nat, Draw(n, r)
  PROVE  /\ screen' \in [Row -> [no : Nat, pos : Positions] \cup {Blank}]
         /\ r \in Row => ShowsLine(file', screen'[r])
         /\ \A q \in Row : q # r /\ ShowsLine(file, screen[q]) => ShowsLine(file', screen'[q])
<1>1. n \in 0..(ln_tbl_size - 1) /\ Entry(n) = ln_tbl[n] /\ ln_tbl[n] \in Nat
  BY DEF SomeLine, Entry, IInv, TableType, Positions
<1>2. Entry(n) # 0 => n \in Line(file) /\ Entry(n) = LineStart(file, n)
  <2>1. Used \in Nat
    BY DEF IInv, TableType, Used
  <2>2. CASE n <= Used
    BY <1>1, <2>1, <2>2 DEF IInv, TableFilled, Line
  <2>3. CASE n > Used
    BY <1>1, <2>1, <2>3, WildIsNoNumber DEF IInv, TableFilled
  <2> QED
    BY <1>1, <2>1, <2>2, <2>3
<1>3. screen' = [screen EXCEPT ![r] = [no |-> n, pos |-> Entry(n)]]
  BY DEF Draw
<1>4. [no |-> n, pos |-> Entry(n)] \in [no : Nat, pos : Positions]
  BY <1>1 DEF Positions, IInv, TableType
<1>5. r \in Row => screen'[r] = [no |-> n, pos |-> Entry(n)]
  BY <1>3 DEF RowsType
<1>6. \A q \in Row : q # r => screen'[q] = screen[q]
  BY <1>3 DEF RowsType
<1> QED
  BY <1>2, <1>3, <1>4, <1>5, <1>6 DEF ShowsLine, RowsType

\* A step that leaves the rows alone, or begins to display them anew.
LEMMA SameRows ==
  ASSUME RInv, cury' \in Nat, screen' = screen,
         \/ pc' = "display" /\ cury' = 0
         \/ pc' = "wild"
         \/ file' = file /\ pc \notin {"display", "wild"}
  PROVE  RInv'
<1>1. RowsType'
  BY DEF RInv, RowsType, Row
<1>2. CASE pc' = "display" /\ cury' = 0
  <2>1. \A r \in Row : ~(r < cury')
    BY <1>2, ViewAssumption DEF Row
  <2> QED
    BY <1>1, <1>2, <2>1 DEF RInv, RowsDrawn
<1>3. CASE pc' = "wild"
  BY <1>1, <1>3 DEF RInv, RowsDrawn
<1>4. CASE file' = file /\ pc \notin {"display", "wild"}
  BY <1>1, <1>4 DEF RInv, RowsDrawn
<1> QED
  BY <1>1, <1>2, <1>3, <1>4 DEF RInv

LEMMA NextPageRows ==
  ASSUME RInv, file' = file, pc \notin {"display", "wild"},
         NEW n, NEW top, NEW y \in Nat, NEW pos, NextPage(n, top, y, pos)
  PROVE  RInv'
<1>1. cury' \in Nat /\ screen' = screen
  BY DEF NextPage, RInv, RowsType
<1> QED
  BY <1>1, SameRows

LEMMA ScrollRows ==
  ASSUME RInv, NEW n \in Count, Down(n) \/ Up(n)
  PROVE  RInv'
<1>1. n \in Nat /\ ScrollLines \in Nat
  BY ViewAssumption
<1>2. pc = "prompt" /\ pc' # "display" /\ file' = file
  BY DEF Down, Up, Prompt
<1>3. cury' \in Nat
  BY <1>1 DEF Down, Up, RInv, RowsType, page
<1>4. \/ screen' = screen
      \/ \E d \in Int : screen' = [r \in Row |-> IF r + d \in Row THEN screen[r + d] ELSE Blank]
  <2>1. CASE Down(n)
    BY <1>1, <2>1 DEF Down, page
  <2>2. CASE Up(n)
    <3>1. \/ screen' = screen
          \/ screen' = [r \in Row |-> IF r + (-n) \in Row THEN screen[r + (-n)] ELSE Blank]
      BY <1>1, <2>2 DEF Up, page, Row
    <3> QED
      BY <1>1, <3>1
  <2> QED
    BY <2>1, <2>2
<1>5. CASE screen' = screen
  BY <1>2, <1>3, <1>5, SameRows
<1>6. ASSUME NEW d \in Int,
             screen' = [r \in Row |-> IF r + d \in Row THEN screen[r + d] ELSE Blank]
      PROVE  RInv'
  <2>1. \A r \in Row : ShowsLine(file, screen[r])
    BY <1>2 DEF RInv, RowsDrawn
  <2>2. screen' \in [Row -> [no : Nat, pos : Positions] \cup {Blank}]
    BY <1>6 DEF RInv, RowsType
  <2>3. \A r \in Row : ShowsLine(file', screen'[r])
    BY <1>2, <1>6, <2>1 DEF ShowsLine
  <2> QED
    BY <1>3, <2>2, <2>3 DEF RInv, RowsType, RowsDrawn
<1> QED
  BY <1>4, <1>5, <1>6

LEMMA CommandRows == ASSUME RInv, Command PROVE RInv'
<1>1. ASSUME NEW n \in Count, Down(n) \/ Up(n) PROVE RInv'
  BY <1>1, ScrollRows
<1>2. cury \in Nat
  BY DEF RInv, RowsType
<1>3. ASSUME NEW n \in Count, GoToLine(n) PROVE RInv'
  <2>1. CASE UNCHANGED page
    BY <1>2, <1>3, <2>1, SameRows DEF GoToLine, page
  <2>2. CASE NextPage(n - 1, page_top_ln_no, cury, Entry(n - 1))
    BY <1>2, <1>3, <2>2, NextPageRows DEF GoToLine
  <2> QED
    BY <1>3, <2>1, <2>2 DEF GoToLine
<1>4. ASSUME NEW p \in Percent, GoToPercent(p) PROVE RInv'
  <2>1. PICK n \in LineNumber((p * Size[file]) \div 100) :
          LET top == IF n > ScrollLines THEN n - ScrollLines ELSE 0
          IN  NextPage(n, top, cury, Entry(top))
    BY <1>4 DEF GoToPercent
  <2> QED
    BY <1>2, <1>4, <2>1, NextPageRows DEF GoToPercent
<1>5. CASE GoToMark
  BY <1>2, <1>5, NextPageRows DEF GoToMark
<1>6. CASE NPage
  BY <1>2, <1>6, NextPageRows DEF NPage
<1>7. CASE PPage
  <2>1. CASE UNCHANGED page
    BY <1>2, <1>7, <2>1, SameRows DEF PPage, page
  <2>2. ASSUME NEW top, NextPage(top, top, 0, page_top_pos) PROVE RInv'
    BY <1>7, <2>2, NextPageRows DEF PPage
  <2> QED
    BY <1>7, <2>1, <2>2 DEF PPage
<1>8. CASE GoToEof
  <2>1. ASSUME NEW n, ShowEnd(n) PROVE RInv'
    BY <1>8, <2>1, NextPageRows DEF GoToEof, ShowEnd
  <2>2. CASE UNCHANGED page
    BY <1>2, <1>8, <2>2, SameRows DEF GoToEof, page
  <2> QED
    BY <1>8, <2>1, <2>2 DEF GoToEof, GoesWild
<1>9. CASE Redisplay \/ SetMark \/ Quit
  BY <1>2, <1>9, SameRows DEF Redisplay, SetMark, Quit, page
<1>10. ASSUME NEW f \in File, Open(f) PROVE RInv'
  BY <1>10, SameRows DEF Open
<1> QED
  BY <1>1, <1>3, <1>4, <1>5, <1>6, <1>7, <1>8, <1>9, <1>10 DEF Command

LEMMA LastRowType ==
  ASSUME NEW r \in Nat
  PROVE  LastRow(r) \in Nat
  BY ViewAssumption DEF LastRow

LEMMA LoopRows == ASSUME IInv, RInv, Loop PROVE RInv'
<1>1. cury \in Nat /\ ScrollLines \in Nat
  BY ViewAssumption DEF RInv, RowsType
<1>2. CASE DisplayLine
  <2>1. SomeLine(ln_no) /\ Draw(ln_no, cury) /\ file' = file /\ cury' = cury + 1
        /\ pc = "display"
    BY <1>2 DEF DisplayLine
  <2>2. /\ screen' \in [Row -> [no : Nat, pos : Positions] \cup {Blank}]
        /\ cury \in Row => ShowsLine(file', screen'[cury])
        /\ \A q \in Row : q # cury /\ ShowsLine(file, screen[q]) => ShowsLine(file', screen'[q])
    BY <1>1, <2>1, DrawStep DEF RInv
  <2>3. ASSUME NEW r \in Row, r < cury' PROVE ShowsLine(file', screen'[r])
    <3>1. r = cury \/ r < cury
      BY <1>1, <2>1, <2>3, ViewAssumption DEF Row
    <3>2. r < cury => ShowsLine(file, screen[r])
      BY <2>1 DEF RInv, RowsDrawn
    <3>3. r < cury => r # cury
      BY <1>1, ViewAssumption DEF Row
    <3> QED
      BY <2>2, <3>1, <3>2, <3>3
  <2>4. pc' = "display" \/ \A r \in Row : r < cury'
    <3>1. pc' = "display" \/ ~(cury + 1 < ScrollLines)
      BY <1>2 DEF DisplayLine
    <3> QED
      BY <1>1, <2>1, <3>1, ViewAssumption DEF Row
  <2>5. RowsType'
    BY <1>1, <2>1, <2>2 DEF RowsType, Row
  <2>6. RowsDrawn'
    BY <2>3, <2>4 DEF RowsDrawn, Row
  <2> QED
    BY <2>5, <2>6 DEF RInv
<1>3. CASE DownLine \/ UpLine
  <2>1. PICK n : /\ SomeLine(n) /\ Draw(n, LastRow(cury)) /\ file' = file
                 /\ cury' = LastRow(cury) + 1
                 /\ pc \in {"down", "up"} /\ pc' # "display"
    <3>1. CASE DownLine
      BY <3>1 DEF DownLine, Prompt
    <3>2. CASE UpLine
      BY <3>2 DEF UpLine, Prompt
    <3> QED
      BY <1>3, <3>1, <3>2
  <2>2. /\ screen' \in [Row -> [no : Nat, pos : Positions] \cup {Blank}]
        /\ LastRow(cury) \in Row => ShowsLine(file', screen'[LastRow(cury)])
        /\ \A q \in Row : q # LastRow(cury) /\ ShowsLine(file, screen[q])
              => ShowsLine(file', screen'[q])
    <3> DEFINE r == LastRow(cury)
    <3>1. r \in Nat /\ Draw(n, r)
      BY <1>1, <2>1, LastRowType
    <3> QED
      BY <2>1, <3>1, DrawStep DEF RInv
  <2>3. RowsType'
    <3>1. cury' \in Nat
      BY <1>1, <2>1, LastRowType
    <3> QED
      BY <2>2, <3>1 DEF RowsType, Row
  <2>4. \A r \in Row : ShowsLine(file, screen[r])
    BY <2>1 DEF RInv, RowsDrawn
  <2>5. \A r \in Row : ShowsLine(file', screen'[r])
    BY <2>2, <2>4
  <2> QED
    BY <2>3, <2>5 DEF RInv, RowsDrawn, Row
<1>4. CASE DisplayEod
  <2>1. screen' = [r \in Row |-> IF r < cury THEN screen[r] ELSE Blank]
        /\ file' = file /\ cury' = cury /\ pc = "display"
    BY <1>4 DEF DisplayEod
  <2>2. RowsType'
    BY <1>1, <2>1 DEF RInv, RowsType, Row
  <2>3. ASSUME NEW r \in Row PROVE ShowsLine(file', screen'[r])
    <3>1. CASE r < cury
      BY <2>1, <3>1 DEF RInv, RowsDrawn
    <3>2. CASE ~(r < cury)
      BY <2>1, <3>2 DEF ShowsLine
    <3> QED
      BY <3>1, <3>2
  <2> QED
    BY <2>2, <2>3 DEF RInv, RowsDrawn, Row
<1>5. CASE DownEnd \/ UpEod
  BY <1>1, <1>5, SameRows DEF DownEnd, UpEod, page
<1>6. CASE DisplayWild \/ DownWild \/ UpWild
  BY <1>1, <1>6, SameRows DEF DisplayWild, DownWild, UpWild, GoesWild, page
<1>7. CASE SyncLine
  BY <1>1, <1>7, SameRows DEF SyncLine, page
<1>8. CASE SyncEnd
  BY <1>8, NextPageRows DEF SyncEnd, ShowEnd
<1> QED
  BY <1>2, <1>3, <1>4, <1>5, <1>6, <1>7, <1>8 DEF Loop

LEMMA InitRows == Init => RInv
  BY ViewAssumption DEF Init, RInv, RowsType, RowsDrawn, ShowsLine, BlankScreen, Row

\* A row never shows another line of the file than the one whose number it carries
\* (display_line), whatever was scrolled, jumped to or opened before.
THEOREM RowsCorrect == ASSUME FirstLineFits PROVE Spec => []RowsRight
<1>1. IInv /\ RInv /\ [Next]_vars => IInv' /\ RInv'
  <2> SUFFICES ASSUME IInv, RInv, [Next]_vars PROVE RInv'
    BY NextInv
  <2>1. CASE UNCHANGED vars
    BY <2>1 DEF vars, page, RInv, RowsType, RowsDrawn, ShowsLine
  <2> QED
    BY <2>1, CommandRows, LoopRows DEF Next, Ended
<1>2. RInv => RowsRight
  BY DEF RInv, RowsDrawn, ShowsLine, RowsRight
<1> QED
  BY <1>1, <1>2, InitInv, InitRows, PTL DEF Spec
-----------------------------------------------------------------------------
(* The types, for any files: no loop leaves its bounds. *)

\* Where a loop is: a row is left to display, a line to scroll, a line to read on from.
LoopType ==
    /\ pc = "display" => cury < ScrollLines
    /\ pc = "up" => scroll > 0
    /\ pc = "sync" => ln_no \in Nat

\* What the commands and loops keep whatever else View is doing and its rows show.
Core ==
    /\ eof \in BOOLEAN
    /\ file \in File
    /\ ln_tbl_size \in Nat
    /\ ln_tbl \in [0..(ln_tbl_size - 1) -> Positions]
    /\ ln_tbl_cnt \in Nat
    /\ ln_max_pos \in Nat
    /\ ln_no \in Int
    /\ ln_no_max \in Int
    /\ file_pos \in Nat
    /\ page_top_ln_no \in Nat
    /\ page_bot_ln_no \in Int
    /\ page_top_pos \in Positions
    /\ cury \in 0..ScrollLines
    /\ scroll \in Nat
    /\ mark \in Positions \cup {NoMark}
    /\ scrolled \in {"down", "up", "off"}

Places == {"prompt", "display", "down", "up", "sync", "closed", "wild"}

\* The positions that the rows show.
Showing(P) == screen \in [Row -> [no : Nat, pos : P] \cup {Blank}]

CInv == Core /\ LoopType

TInv == TypeOK /\ LoopType

LEMMA TypeIs == TInv <=> CInv /\ pc \in Places /\ Showing(Nat)
  BY DEF TInv, CInv, TypeOK, Core, Places, Showing

LEMMA TypeIsCore == TypeOK => Core
  BY DEF TypeOK, Core

LEMMA TypeIsNext == TInv' <=> CInv' /\ pc' \in Places /\ Showing(Nat)'
  BY DEF TInv, CInv, TypeOK, Core, Places, Showing, Row

LEMMA EntryType ==
  ASSUME Core, NEW n
  PROVE  /\ Entry(n) \in Positions
         /\ Entry(n) # Wild => n \in 0..(ln_tbl_size - 1) /\ n \in Nat /\ Entry(n) \in Nat
  BY DEF Core, Entry, Positions

LEMMA SomeEnd ==
  ASSUME NEW f \in File, NEW pos, HasEnd(f, pos)
  PROVE  NextEnd(f, pos) \in Nat /\ NextEnd(f, pos) > 0
<1>1. EndsAfter(f, pos) \in SUBSET Nat /\ EndsAfter(f, pos) # {}
  BY EndsType DEF EndsAfter, HasEnd
<1>2. \E i \in EndsAfter(f, pos) : \A j \in EndsAfter(f, pos) : i <= j
  BY <1>1, NatMin
<1>3. \E i \in EndsAfter(f, pos) : NextEnd(f, pos) = Ends[f][i]
  BY <1>2 DEF NextEnd
<1>. QED
  BY <1>3, EndsType DEF EndsAfter

\* The table with one more entry, or as it was.
TableTyped ==
    /\ ln_tbl_size \in Nat
    /\ ln_tbl \in [0..(ln_tbl_size - 1) -> Positions]
    /\ ln_tbl_cnt \in Nat
    /\ ln_max_pos \in Nat

LEMMA IncrementType ==
  ASSUME Core, NEW n \in Nat, NEW e \in Nat, Increment(n, e)
  PROVE  TableTyped'
<1>1. ln_tbl_size \in Nat /\ ln_tbl \in [0..(ln_tbl_size - 1) -> Positions] /\ LineTblIncr \in Nat
      /\ ln_max_pos \in Nat /\ ln_tbl_cnt \in Nat
  BY FileAssumption DEF Core
<1>2. CASE UNCHANGED table
  BY <1>1, <1>2 DEF table, TableTyped
<1>3. CASE ~UNCHANGED table
  <2>1. ln_tbl_cnt' = n /\ ln_max_pos' = e
    BY <1>3 DEF Increment
  <2>2. ln_tbl_size' \in Nat /\ ln_tbl' \in [0..(ln_tbl_size' - 1) -> Positions]
    <3>1. CASE ln_tbl' = [ln_tbl EXCEPT ![n] = e] /\ UNCHANGED ln_tbl_size
      BY <1>1, <3>1 DEF Positions
    <3>2. ASSUME NEW junk \in {0, Wild}, ln_tbl_size' = ln_tbl_size + LineTblIncr,
                 ln_tbl' = [i \in 0..(ln_tbl_size + LineTblIncr - 1) |->
                                IF i = n THEN e ELSE IF i < ln_tbl_size THEN ln_tbl[i] ELSE junk]
          PROVE  ln_tbl_size' \in Nat /\ ln_tbl' \in [0..(ln_tbl_size' - 1) -> Positions]
      <4>1. \A i \in 0..(ln_tbl_size + LineTblIncr - 1) :
               i < ln_tbl_size => i \in 0..(ln_tbl_size - 1)
        BY <1>1
      <4>. QED
        BY <1>1, <3>2, <4>1 DEF Positions
    <3>. QED
      BY <1>3, <3>1, <3>2 DEF Increment
  <2>. QED
    BY <2>1, <2>2 DEF TableTyped
<1>. QED
  BY <1>2, <1>3

LEMMA GetLineType ==
  ASSUME Core, NEW n, SomeLine(n), GetLine(n)
  PROVE  TableTyped' /\ n \in Nat
<1>1. n \in Nat /\ n + 1 \in Nat /\ Entry(n) \in Nat /\ file \in File
  BY EntryType DEF SomeLine, Core
<1>2. CASE UNCHANGED table
  BY <1>1, <1>2 DEF table, Core, TableTyped
<1>3. CASE ~UNCHANGED table
  <2>1. HasEnd(file, Entry(n)) /\ Increment(n + 1, NextEnd(file, Entry(n)))
    BY <1>3 DEF GetLine, SomeLine, AtEod
  <2>. QED
    BY <1>1, <2>1, SomeEnd, IncrementType
<1>. QED
  BY <1>2, <1>3

LEMMA PromptType ==
  ASSUME NEW pos \in Positions, TableTyped', Prompt(pos)
  PROVE  pc' = "prompt" /\ page_top_pos' \in Positions
  BY DEF Prompt, TableTyped, Positions

\* What a command or a loop that reads no line leaves of the types to show.
PageTyped ==
    /\ pc \in Places
    /\ ln_no \in Int
    /\ page_top_ln_no \in Nat
    /\ page_bot_ln_no \in Int
    /\ page_top_pos \in Positions
    /\ cury \in 0..ScrollLines
    /\ scroll \in Nat
    /\ scrolled \in {"down", "up", "off"}

RestTyped ==
    /\ eof \in BOOLEAN
    /\ file \in File
    /\ ln_no_max \in Int
    /\ file_pos \in Nat
    /\ mark \in Positions \cup {NoMark}

LEMMA TypeParts ==
  /\ Core /\ pc \in Places <=> TableTyped /\ PageTyped /\ RestTyped
  /\ Core' /\ pc' \in Places <=> TableTyped' /\ PageTyped' /\ RestTyped'
  BY DEF Core, TableTyped, PageTyped, RestTyped

LEMMA SameTable ==
  ASSUME Core, UNCHANGED table
  PROVE  TableTyped'
  BY DEF Core, table, TableTyped

LEMMA NextPageType ==
  ASSUME Core, NEW n \in Int, NEW top, Entry(n) = Size[file] => top \in Nat,
         NEW y \in 0..ScrollLines, NEW pos \in Positions, NextPage(n, top, y, pos)
  PROVE  TableTyped' /\ PageTyped' /\ LoopType'
<1>1. UNCHANGED table /\ TableTyped'
  BY SameTable DEF NextPage
<1>2. ScrollLines \in Nat \ {0} /\ Size[file] # Wild
  BY ViewAssumption, FileAssumption, WildIsNoNumber DEF Core
<1>3. CASE Entry(n) = Wild
  BY <1>1, <1>2, <1>3 DEF NextPage, PageTyped, Places, LoopType, Core, Row
<1>4. CASE Entry(n) = Size[file]
  <2>1. pc' = "prompt" /\ page_top_pos' \in Positions
    BY <1>1, <1>2, <1>4, PromptType DEF NextPage
  <2>. QED
    BY <1>1, <1>2, <1>4, <2>1 DEF NextPage, PageTyped, Places, LoopType, Core, Row
<1>5. CASE Entry(n) \notin {Wild, Size[file]}
  BY <1>1, <1>2, <1>5 DEF NextPage, PageTyped, Places, LoopType, Core, Row
<1>. QED
  BY <1>3, <1>4, <1>5

\* A step to the prompt that leaves the page alone.
LEMMA StayType ==
  ASSUME Core, UNCHANGED <<table, page, scroll, scrolled>>, ln_no' \in Int, Prompt(page_top_pos)
  PROVE  TableTyped' /\ PageTyped' /\ LoopType'
<1>1. TableTyped'
  BY SameTable
<1>2. pc' = "prompt" /\ page_top_pos' \in Positions
  BY <1>1, PromptType DEF Core
<1>. QED
  BY <1>1, <1>2 DEF page, Core, PageTyped, Places, LoopType, Row

LEMMA WildType ==
  ASSUME Core, GoesWild
  PROVE  TableTyped' /\ PageTyped' /\ LoopType' /\ file_pos' \in Nat /\ ln_no_max' \in Int
<1>1. TableTyped'
  BY SameTable DEF GoesWild
<1>. QED
  BY <1>1 DEF GoesWild, page, Core, PageTyped, Places, LoopType, Row

LEMMA CountType == \A n \in Count : n \in Nat /\ n > 0
  BY ViewAssumption

LEMMA DownType == ASSUME CInv, NEW n \in Nat, n > 0, Down(n) PROVE CInv' /\ pc' \in Places
<1>1. n \in Nat /\ n > 0 /\ ScrollLines \in Nat /\ Core
  BY ViewAssumption DEF CInv
<1>2. RestTyped'
  BY <1>1 DEF Down, Core, RestTyped
<1>3. CASE page_bot_ln_no >= ln_no_max
  <2>1. UNCHANGED <<table, page, scroll, scrolled>> /\ Prompt(page_top_pos) /\ ln_no' \in Int
    BY <1>1, <1>3 DEF Down, Core
  <2>. QED
    BY <1>1, <1>2, <2>1, StayType, TypeParts DEF CInv
<1>4. CASE ~(page_bot_ln_no >= ln_no_max)
  <2>1. UNCHANGED table /\ TableTyped'
    BY <1>1, <1>4, SameTable DEF Down
  <2>3. PageTyped' /\ LoopType'
    BY <1>1, <1>4 DEF Down, Core, PageTyped, Places, LoopType, Row
  <2>. QED
    BY <1>2, <2>1, <2>3, TypeParts DEF CInv
<1>. QED
  BY <1>3, <1>4

LEMMA UpType == ASSUME CInv, NEW n \in Nat, n > 0, Up(n) PROVE CInv' /\ pc' \in Places
<1>1. n \in Nat /\ n > 0 /\ ScrollLines \in Nat /\ Core
  BY ViewAssumption DEF CInv
<1>2. RestTyped'
  BY <1>1 DEF Up, Core, RestTyped
<1>3. CASE page_top_ln_no = 0
  <2>1. UNCHANGED <<table, page, scroll, scrolled>> /\ Prompt(page_top_pos) /\ ln_no' \in Int
    BY <1>1, <1>3 DEF Up, Core
  <2>. QED
    BY <1>1, <1>2, <2>1, StayType, TypeParts DEF CInv
<1>4. CASE page_top_ln_no # 0
  <2>1. UNCHANGED table /\ TableTyped'
    BY <1>1, <1>4, SameTable DEF Up
  <2>3. PageTyped' /\ LoopType'
    BY <1>1, <1>4 DEF Up, Core, PageTyped, Places, LoopType, Row
  <2>. QED
    BY <1>2, <2>1, <2>3, TypeParts DEF CInv
<1>. QED
  BY <1>3, <1>4

LEMMA ShowEndType ==
  ASSUME Core, NEW n \in Int, ShowEnd(n)
  PROVE  TableTyped' /\ PageTyped' /\ LoopType' /\ ln_no_max' \in Int
<1>. DEFINE top == IF n - 1 > ScrollLines THEN n - ScrollLines ELSE n - 1
<1>1. top \in Int /\ NextPage(top, top, 0, page_top_pos) /\ ln_no_max' \in Int
      /\ 0 \in 0..ScrollLines /\ page_top_pos \in Positions
  BY ViewAssumption DEF ShowEnd, Core
<1>2. Size[file] # Wild
  BY FileAssumption, WildIsNoNumber DEF Core
<1>3. Entry(top) = Size[file] => top \in Nat
  BY <1>2, EntryType
<1>. HIDE DEF top
<1>. QED
  BY <1>1, <1>3, NextPageType

LEMMA LineNumberType == \A position : LineNumber(position) \subseteq 0..(ln_tbl_size - 1)
  BY DEF LineNumber

LEMMA JumpType ==
  ASSUME CInv,
         \/ NPage \/ PPage \/ GoToMark
         \/ \E n \in Nat : GoToLine(n)
         \/ \E p \in Percent : GoToPercent(p)
  PROVE  CInv' /\ pc' \in Places
<1>1. Core /\ cury \in 0..ScrollLines /\ 0 \in 0..ScrollLines /\ ScrollLines \in Nat
      /\ page_top_pos \in Positions /\ page_top_ln_no \in Nat /\ ln_no \in Int
      /\ ln_tbl_size \in Nat
  BY ViewAssumption DEF CInv, Core
<1>2. RestTyped'
  BY <1>1 DEF NPage, PPage, GoToMark, GoToLine, GoToPercent, Core, RestTyped
<1>3. ASSUME NPage PROVE TableTyped' /\ PageTyped' /\ LoopType'
  <2>1. ln_no + 1 \in Int
    BY <1>1
  <2>. QED
    BY <1>1, <1>3, <2>1, NextPageType DEF NPage
<1>4. ASSUME PPage PROVE TableTyped' /\ PageTyped' /\ LoopType'
  <2>. DEFINE up == page_top_ln_no - ScrollLines
              top == IF up >= 0 THEN up ELSE 0
  <2>1. top \in Nat /\ top \in Int
    BY <1>1
  <2>2. CASE UNCHANGED <<table, page, ln_no, scroll, scrolled>> /\ Prompt(page_top_pos)
    BY <1>1, <2>2, StayType
  <2>3. CASE NextPage(top, top, 0, page_top_pos)
    <3>. HIDE DEF top
    <3>. QED
      BY <1>1, <2>1, <2>3, NextPageType
  <2>. QED
    BY <1>4, <2>2, <2>3 DEF PPage
<1>5. ASSUME GoToMark PROVE TableTyped' /\ PageTyped' /\ LoopType'
  <2>1. PICK n \in LineNumber(mark) : NextPage(n, page_top_ln_no, cury, page_top_pos)
    BY <1>5 DEF GoToMark
  <2>2. n \in Int
    BY <1>1, LineNumberType
  <2>. QED
    BY <1>1, <2>1, <2>2, NextPageType
<1>6. ASSUME NEW n \in Nat, GoToLine(n) PROVE TableTyped' /\ PageTyped' /\ LoopType'
  <2>1. n - 1 \in Int /\ Entry(n - 1) \in Positions
    BY <1>1, EntryType
  <2>2. CASE UNCHANGED <<table, page, ln_no, scroll, scrolled>> /\ Prompt(page_top_pos)
    BY <1>1, <2>2, StayType
  <2>3. CASE NextPage(n - 1, page_top_ln_no, cury, Entry(n - 1))
    BY <1>1, <2>1, <2>3, NextPageType
  <2>. QED
    BY <1>6, <2>2, <2>3 DEF GoToLine
<1>7. ASSUME NEW p \in Percent, GoToPercent(p) PROVE TableTyped' /\ PageTyped' /\ LoopType'
  <2>1. PICK n \in LineNumber((p * Size[file]) \div 100) :
          LET top == IF n > ScrollLines THEN n - ScrollLines ELSE 0
          IN  NextPage(n, top, cury, Entry(top))
    BY <1>7 DEF GoToPercent
  <2>2. n \in Int
    BY <1>1, LineNumberType
  <2>3. PICK top \in Nat : NextPage(n, top, cury, Entry(top))
    BY <1>1, <2>1, <2>2
  <2>. QED
    BY <1>1, <2>2, <2>3, NextPageType, EntryType
<1>. QED
  BY <1>2, <1>3, <1>4, <1>5, <1>6, <1>7, TypeParts DEF CInv

LEMMA GoToEofType == ASSUME CInv, GoToEof PROVE CInv' /\ pc' \in Places
<1>1. Core /\ ln_no \in Int /\ ln_tbl_cnt \in Nat /\ ln_tbl_cnt \in Int /\ Size[file] \in Nat
  BY FileAssumption DEF CInv, Core
<1>2. eof' \in BOOLEAN /\ file' \in File /\ mark' \in Positions \cup {NoMark}
  BY <1>1 DEF GoToEof, Core
<1>3. ASSUME NEW n \in Int, ShowEnd(n), file_pos' = Size[file] PROVE CInv' /\ pc' \in Places
  <2>1. TableTyped' /\ PageTyped' /\ LoopType' /\ ln_no_max' \in Int
    BY <1>1, <1>3, ShowEndType
  <2>. QED
    BY <1>1, <1>2, <1>3, <2>1, TypeParts DEF CInv, RestTyped
<1>4. CASE /\ Entry(ln_tbl_cnt) \notin {Wild, Size[file]}
           /\ file_pos' = Entry(ln_tbl_cnt)
           /\ ln_no' = ln_tbl_cnt
           /\ pc' = "sync"
           /\ UNCHANGED <<table, page, page_top_pos, scroll, ln_no_max, scrolled>>
  <2>1. TableTyped' /\ file_pos' \in Nat
    BY <1>1, <1>4, SameTable, EntryType
  <2>2. PageTyped' /\ LoopType'
    BY <1>1, <1>4 DEF page, Core, PageTyped, Places, LoopType, Row
  <2>3. RestTyped'
    BY <1>1, <1>2, <1>4, <2>1 DEF RestTyped, Core
  <2>. QED
    BY <2>1, <2>2, <2>3, TypeParts DEF CInv
<1>5. CASE GoesWild
  BY <1>1, <1>2, <1>5, WildType, TypeParts DEF CInv, RestTyped
<1>. QED
  BY <1>1, <1>3, <1>4, <1>5 DEF GoToEof

LEMMA OtherCommandType ==
  ASSUME CInv, Redisplay \/ SetMark \/ Quit \/ \E f \in File : Open(f)
  PROVE  CInv' /\ pc' \in Places
<1>1. Core /\ ScrollLines \in Nat /\ ScrollLines > 0 /\ LineTblIncr \in Nat
  BY ViewAssumption, FileAssumption DEF CInv
<1>2. CASE Redisplay
  <2>1. TableTyped'
    BY <1>1, <1>2, SameTable DEF Redisplay
  <2>2. PageTyped'
    BY <1>1, <1>2 DEF Redisplay, Core, PageTyped, Places, Row
  <2>3. LoopType'
    BY <1>1, <1>2 DEF Redisplay, LoopType
  <2>4. RestTyped'
    BY <1>1, <1>2 DEF Redisplay, Core, RestTyped
  <2>. QED
    BY <2>1, <2>2, <2>3, <2>4, TypeParts DEF CInv
<1>3. CASE SetMark \/ Quit
  <2>1. TableTyped'
    BY <1>1, <1>3, SameTable DEF SetMark, Quit
  <2>2. PageTyped' /\ LoopType' /\ RestTyped'
    BY <1>1, <1>3 DEF SetMark, Quit, page, Core, PageTyped, Places, LoopType, RestTyped, Row
  <2>. QED
    BY <2>1, <2>2, TypeParts DEF CInv
<1>4. ASSUME NEW f \in File, Open(f) PROVE CInv' /\ pc' \in Places
  <2>1. TableTyped'
    BY <1>1, <1>4 DEF Open, Core, TableTyped, Positions
  <2>2. PageTyped'
    BY <1>1, <1>4 DEF Open, Core, PageTyped, Places, Row, Positions
  <2>3. LoopType'
    BY <1>1, <1>4 DEF Open, LoopType
  <2>4. RestTyped'
    BY <1>1, <1>4 DEF Open, Core, RestTyped
  <2>. QED
    BY <2>1, <2>2, <2>3, <2>4, TypeParts DEF CInv
<1>. QED
  BY <1>2, <1>3, <1>4

LEMMA LastRowRange ==
  ASSUME NEW r \in 0..ScrollLines
  PROVE  /\ LastRow(r) \in 0..(ScrollLines - 1) /\ LastRow(r) + 1 \in 0..ScrollLines
         /\ LastRow(r) \in Nat
         /\ r < ScrollLines => LastRow(r) = r
  BY ViewAssumption DEF LastRow

LEMMA DisplayLineType == ASSUME CInv, DisplayLine PROVE CInv' /\ pc' \in Places
<1>1. Core /\ ScrollLines \in Nat /\ ScrollLines > 0 /\ cury < ScrollLines
  BY ViewAssumption DEF CInv, LoopType, DisplayLine
<1>2. TableTyped' /\ ln_no \in Nat
  BY <1>1, GetLineType DEF DisplayLine
<1>4. cury' \in 0..ScrollLines /\ page_top_ln_no' \in Nat
  BY <1>1, <1>2 DEF DisplayLine, Core
<1>5. RestTyped'
  BY <1>1 DEF DisplayLine, Core, RestTyped
<1>6. CASE cury + 1 < ScrollLines
  <2>1. /\ ln_no' \in Int /\ pc' = "display" /\ cury' < ScrollLines
        /\ UNCHANGED <<page_bot_ln_no, page_top_pos, scroll, scrolled>>
    BY <1>1, <1>2, <1>6 DEF DisplayLine
  <2>. QED
    BY <1>1, <1>2, <1>4, <1>5, <2>1, TypeParts DEF CInv, Core, PageTyped, Places, LoopType, Row
<1>7. CASE ~(cury + 1 < ScrollLines)
  <2>1. /\ ln_no' \in Int /\ Prompt(page_top_pos) /\ page_bot_ln_no' \in Int
        /\ UNCHANGED <<scroll, scrolled>>
    BY <1>1, <1>2, <1>7 DEF DisplayLine
  <2>2. pc' = "prompt" /\ page_top_pos' \in Positions
    BY <1>1, <1>2, <2>1, PromptType DEF Core
  <2>. QED
    BY <1>1, <1>2, <1>4, <1>5, <2>1, <2>2, TypeParts
    DEF CInv, Core, PageTyped, Places, LoopType, Row
<1>. QED
  BY <1>6, <1>7

LEMMA DownLineType == ASSUME CInv, DownLine PROVE CInv' /\ pc' \in Places
<1>. DEFINE r == LastRow(cury)
<1>1. Core /\ ScrollLines \in Nat /\ cury \in 0..ScrollLines
  BY ViewAssumption DEF CInv, Core
<1>2. TableTyped' /\ ln_no + 1 \in Nat
  BY <1>1, GetLineType DEF DownLine
<1>4. r \in Nat /\ r + 1 \in 0..ScrollLines
  BY <1>1, LastRowRange
<1>5. cury' = r + 1 /\ page_top_ln_no' \in Nat /\ ln_no' \in Int
  BY <1>1, <1>2 DEF DownLine, Core
<1>6. RestTyped'
  BY <1>1 DEF DownLine, Core, RestTyped
<1>7. UNCHANGED <<scroll, scrolled>>
  BY DEF DownLine
<1>8. CASE r + 1 = ScrollLines
  <2>1. Prompt(page_top_pos) /\ page_bot_ln_no' \in Int
    BY <1>2, <1>8 DEF DownLine
  <2>2. pc' = "prompt" /\ page_top_pos' \in Positions
    BY <1>1, <1>2, <2>1, PromptType DEF Core
  <2>. QED
    BY <1>1, <1>2, <1>4, <1>5, <1>6, <1>7, <2>1, <2>2, TypeParts
    DEF CInv, Core, PageTyped, Places, LoopType, Row
<1>9. CASE r + 1 # ScrollLines
  <2>1. pc' = "down" /\ UNCHANGED <<page_bot_ln_no, page_top_pos>>
    BY <1>9 DEF DownLine
  <2>. QED
    BY <1>1, <1>2, <1>4, <1>5, <1>6, <1>7, <2>1, TypeParts
    DEF CInv, Core, PageTyped, Places, LoopType, Row
<1>. QED
  BY <1>8, <1>9

LEMMA UpLineType == ASSUME CInv, UpLine PROVE CInv' /\ pc' \in Places
<1>. DEFINE r == LastRow(cury)
            to == UpTo
<1>1. Core /\ ScrollLines \in Nat /\ cury \in 0..ScrollLines /\ scroll \in Nat /\ scroll > 0
  BY ViewAssumption DEF CInv, Core, LoopType, UpLine
<1>2. TableTyped' /\ to \in Nat
  BY <1>1, GetLineType DEF UpLine
<1>4. r \in Nat /\ r + 1 \in 0..ScrollLines
  BY <1>1, LastRowRange
<1>5. /\ cury' = r + 1
      /\ page_top_ln_no' = IF r = 0 THEN to ELSE page_top_ln_no
      /\ page_bot_ln_no' = IF r = ScrollLines - 1 THEN to ELSE page_bot_ln_no
      /\ scroll' = scroll - 1 /\ scrolled' = scrolled
      /\ IF scroll = 1 THEN ln_no' = to /\ Prompt(page_top_pos)
         ELSE ln_no' = to + 1 /\ pc' = "up" /\ UNCHANGED page_top_pos
  BY DEF UpLine
<1>6. RestTyped'
  BY <1>1 DEF UpLine, Core, RestTyped
<1>. HIDE DEF r, to
<1>7. page_top_ln_no' \in Nat /\ page_bot_ln_no' \in Int /\ scroll' \in Nat /\ ln_no' \in Int
  BY <1>1, <1>2, <1>5 DEF Core
<1>8. CASE scroll = 1
  <2>1. pc' = "prompt" /\ page_top_pos' \in Positions
    BY <1>1, <1>2, <1>5, <1>8, PromptType DEF Core
  <2>. QED
    BY <1>1, <1>2, <1>4, <1>5, <1>6, <1>7, <2>1, TypeParts
    DEF CInv, Core, PageTyped, Places, LoopType, Row
<1>9. CASE scroll # 1
  <2>1. pc' = "up" /\ UNCHANGED page_top_pos /\ scroll' > 0
    BY <1>1, <1>5, <1>9
  <2>. QED
    BY <1>1, <1>2, <1>4, <1>5, <1>6, <1>7, <2>1, TypeParts
    DEF CInv, Core, PageTyped, Places, LoopType, Row
<1>. QED
  BY <1>8, <1>9

LEMMA SyncType == ASSUME CInv, SyncLine \/ SyncEnd PROVE CInv' /\ pc' \in Places
<1>1. Core /\ file \in File /\ ln_no \in Nat /\ Size[file] \in Nat
  BY FileAssumption DEF CInv, Core, LoopType, SyncLine, SyncEnd
<1>2. CASE SyncLine
  <2>1. NextEnd(file, file_pos) \in Nat /\ ln_no + 1 \in Nat
    BY <1>1, <1>2, SomeEnd DEF SyncLine
  <2>2. TableTyped'
    BY <1>1, <1>2, <2>1, IncrementType DEF SyncLine
  <2>3. PageTyped' /\ LoopType'
    BY <1>1, <1>2, <2>1 DEF SyncLine, page, Core, PageTyped, Places, LoopType, Row
  <2>4. RestTyped'
    BY <1>1, <1>2, <2>1 DEF SyncLine, Core, RestTyped
  <2>. QED
    BY <2>2, <2>3, <2>4, TypeParts DEF CInv
<1>3. CASE SyncEnd
  <2>1. TableTyped' /\ PageTyped' /\ LoopType' /\ ln_no_max' \in Int
    BY <1>1, <1>3, ShowEndType DEF SyncEnd
  <2>2. RestTyped'
    BY <1>1, <1>3, <2>1 DEF SyncEnd, Core, RestTyped
  <2>. QED
    BY <2>1, <2>2, TypeParts DEF CInv
<1>. QED
  BY <1>2, <1>3

\* A loop that comes to the end of the data, or of the table.
LEMMA LoopEndType ==
  ASSUME CInv, DisplayEod \/ DownEnd \/ UpEod \/ DisplayWild \/ DownWild \/ UpWild
  PROVE  CInv' /\ pc' \in Places
<1>1. Core /\ ln_no \in Int /\ page_top_ln_no \in Nat /\ scroll \in Nat
      /\ page_top_pos \in Positions
  BY DEF CInv, Core
<1>2. CASE DisplayWild \/ DownWild \/ UpWild
  <2>1. GoesWild /\ UNCHANGED <<eof, file, mark>>
    BY <1>2 DEF DisplayWild, DownWild, UpWild
  <2>2. TableTyped' /\ PageTyped' /\ LoopType' /\ file_pos' \in Nat /\ ln_no_max' \in Int
    BY <1>1, <2>1, WildType
  <2>. QED
    BY <1>1, <2>1, <2>2, TypeParts DEF CInv, Core, RestTyped
<1>3. CASE DisplayEod \/ DownEnd \/ UpEod
  <2>1. UNCHANGED table /\ TableTyped' /\ Prompt(page_top_pos)
    BY <1>1, <1>3, SameTable DEF DisplayEod, DownEnd, UpEod
  <2>2. pc' = "prompt" /\ page_top_pos' \in Positions
    BY <1>1, <2>1, PromptType
  <2>4. ln_no' \in Int /\ page_bot_ln_no' \in Int /\ cury' = cury
        /\ UNCHANGED <<page_top_ln_no, scroll, scrolled>>
    <3>1. CASE DisplayEod
      BY <1>1, <3>1 DEF DisplayEod
    <3>2. CASE DownEnd
      BY <1>1, <3>2 DEF DownEnd
    <3>3. CASE UpEod
      BY <1>1, <3>3 DEF UpEod, UpTo, page, Core
    <3> QED
      BY <1>3, <3>1, <3>2, <3>3
  <2>5. PageTyped' /\ LoopType'
    BY <1>1, <2>2, <2>4 DEF Core, PageTyped, Places, LoopType, Row
  <2>6. RestTyped'
    BY <1>1, <1>3 DEF DisplayEod, DownEnd, UpEod, Core, RestTyped
  <2>. QED
    BY <2>1, <2>5, <2>6, TypeParts DEF CInv
<1>. QED
  BY <1>2, <1>3

\* Whatever the rows show, they go on showing it or a position of the table.
LEMMA DrawType ==
  ASSUME Core, NEW n, SomeLine(n), NEW r, Draw(n, r), NEW P, Nat \subseteq P, Showing(P)
  PROVE  Showing(P)'
<1>1. n \in Nat /\ Entry(n) \in Nat
  BY EntryType DEF SomeLine
<1>. QED
  BY <1>1 DEF Draw, Showing, Row

LEMMA ScrollShows ==
  ASSUME NEW P, Showing(P), NEW d \in Int,
         screen' = [r \in Row |-> IF r + d \in Row THEN screen[r + d] ELSE Blank]
  PROVE  Showing(P)'
  BY DEF Showing, Row

LEMMA SameShows == ASSUME NEW P, Showing(P), screen' = screen PROVE Showing(P)'
  BY DEF Showing, Row

LEMMA CommandShows ==
  ASSUME NEW P, Showing(P),
         \/ \E n \in Nat : Down(n) \/ Up(n) \/ GoToLine(n)
         \/ \E p \in Percent : GoToPercent(p)
         \/ NPage \/ PPage \/ Redisplay \/ GoToEof \/ SetMark \/ GoToMark
         \/ \E f \in File : Open(f)
         \/ Quit
  PROVE  Showing(P)'
<1>1. ASSUME NEW n \in Nat, Down(n) PROVE Showing(P)'
  <2>1. \/ screen' = screen
        \/ screen' = [r \in Row |-> IF r + n \in Row THEN screen[r + n] ELSE Blank]
    BY <1>1 DEF Down, page
  <2>. QED
    BY <2>1, SameShows, ScrollShows
<1>2. ASSUME NEW n \in Nat, Up(n) PROVE Showing(P)'
  <2>1. -n \in Int
    OBVIOUS
  <2>2. \/ screen' = screen
        \/ screen' = [r \in Row |-> IF r + (-n) \in Row THEN screen[r + (-n)] ELSE Blank]
    BY <1>2 DEF Up, page, Row
  <2>. QED
    BY <2>1, <2>2, SameShows, ScrollShows
<1>3. ASSUME \/ \E n \in Nat : GoToLine(n)
             \/ \E p \in Percent : GoToPercent(p)
             \/ NPage \/ PPage \/ Redisplay \/ GoToEof \/ SetMark \/ GoToMark
             \/ \E f \in File : Open(f)
             \/ Quit
      PROVE  screen' = screen
  BY <1>3 DEF GoToLine, GoToPercent, NPage, PPage, Redisplay, GoToEof, SetMark, GoToMark, Open,
              Quit, ShowEnd, NextPage, GoesWild, page
<1>. QED
  BY <1>1, <1>2, <1>3, SameShows

LEMMA LoopShows ==
  ASSUME NEW P, Showing(P), Nat \subseteq P, Core, Loop
  PROVE  Showing(P)'
<1>1. CASE DisplayLine
  BY <1>1, DrawType DEF DisplayLine
<1>2. CASE DownLine
  BY <1>2, DrawType DEF DownLine
<1>3. CASE UpLine
  BY <1>3, DrawType DEF UpLine
<1>4. CASE DisplayEod
  BY <1>4 DEF DisplayEod, Showing, Row
<1>5. ASSUME \/ DisplayWild \/ DownEnd \/ DownWild \/ UpEod \/ UpWild \/ SyncLine \/ SyncEnd
      PROVE  screen' = screen
  BY <1>5 DEF DisplayWild, DownEnd, DownWild, UpEod, UpWild, SyncLine, SyncEnd, ShowEnd, NextPage,
              GoesWild, page
<1>. QED
  BY <1>1, <1>2, <1>3, <1>4, <1>5, SameShows DEF Loop

LEMMA InitTInv == Init => TInv
<1>. SUFFICES ASSUME Init PROVE TInv
  OBVIOUS
<1>1. ScrollLines \in Nat /\ ScrollLines > 0 /\ LineTblIncr \in Nat
  BY ViewAssumption, FileAssumption
<1>2. TableTyped
  BY <1>1 DEF Init, TableTyped, Positions
<1>3. PageTyped
  BY <1>1 DEF Init, PageTyped, Places, Positions
<1>4. RestTyped
  <2>1. eof = FALSE /\ file \in File /\ ln_no_max = 0 /\ file_pos = 0 /\ mark = NoMark
    BY DEF Init
  <2>2. eof \in BOOLEAN
    BY <2>1
  <2>3. mark \in Positions \cup {NoMark}
    BY <2>1
  <2>4. ln_no_max \in Int /\ file_pos \in Nat
    BY <2>1
  <2>. QED
    BY <2>1, <2>2, <2>3, <2>4 DEF RestTyped
<1>5. LoopType
  BY <1>1 DEF Init, LoopType
<1>6. Showing(Nat)
  BY DEF Init, Showing, BlankScreen
<1>. QED
  BY <1>2, <1>3, <1>4, <1>5, <1>6, TypeParts, TypeIs DEF CInv

LEMMA CommandType == ASSUME CInv, Command PROVE CInv' /\ pc' \in Places
  BY CountType, DownType, UpType, JumpType, GoToEofType, OtherCommandType DEF Command

LEMMA LoopKeepsType == ASSUME CInv, Loop PROVE CInv' /\ pc' \in Places
  BY DisplayLineType, DownLineType, UpLineType, SyncType, LoopEndType DEF Loop

LEMMA NextTInv == TInv /\ [Next]_vars => TInv'
<1>. SUFFICES ASSUME TInv, [Next]_vars PROVE TInv'
  OBVIOUS
<1>1. CInv /\ Showing(Nat) /\ Nat \subseteq Nat /\ Core
  BY TypeIs DEF CInv
<1>2. CASE Command
  <2>1. CInv' /\ pc' \in Places
    BY <1>1, <1>2, CommandType
  <2>2. Showing(Nat)'
    BY <1>1, <1>2, CommandShows, CountType DEF Command
  <2>. QED
    BY <2>1, <2>2, TypeIsNext
<1>3. CASE Loop
  <2>1. CInv' /\ pc' \in Places
    BY <1>1, <1>3, LoopKeepsType
  <2>2. Showing(Nat)'
    BY <1>1, <1>3, LoopShows
  <2>. QED
    BY <2>1, <2>2, TypeIsNext
<1>4. CASE UNCHANGED vars
  BY <1>4 DEF vars, table, page, TInv, TypeOK, LoopType, Row
<1>. QED
  BY <1>2, <1>3, <1>4 DEF Next, Ended

\* The loops of scroll_up, scroll_down, view_display_page and sync_ln keep the cursor on
\* the pad, the numbers of lines and rows natural and the table defined up to its
\* capacity, whatever the files are and whatever is typed.
THEOREM TypeCorrect == Spec => []TypeOK
  BY InitTInv, NextTInv, PTL DEF Spec, TInv

-----------------------------------------------------------------------------
(* The rows of a page that is displayed, or scrolled line by line. *)

\* The rows carry the numbers that follow page_top_ln_no.
Level == \A r \in Row : screen[r] # Blank => screen[r].no = page_top_ln_no + r

\* The rows carry numbers that go up, from page_top_ln_no on.
Climbing ==
    /\ \A r \in Row : screen[r] # Blank => screen[r].no >= page_top_ln_no
    /\ screen[0] # Blank => screen[0].no = page_top_ln_no
    /\ \A r, q \in Row : r < q /\ screen[r] # Blank /\ screen[q] # Blank
          => screen[r].no < screen[q].no

Resting == pc \in {"prompt", "sync"}

DisplayInv ==
    pc = "display" =>
        /\ scrolled = "down"
        /\ \A r \in Row : r < cury =>
              screen[r] # Blank /\ screen[r].no = page_top_ln_no + r
        /\ cury > 0 => ln_no = page_top_ln_no + cury

\* scroll_down goes on from page_bot_ln_no, which is the line of the last row when there
\* is one in it.
RestInv ==
    Resting =>
        /\ scrolled = "down" =>
              /\ Level
              /\ screen[ScrollLines - 1] # Blank =>
                    page_bot_ln_no = page_top_ln_no + ScrollLines - 1
        /\ scrolled = "up" => Climbing

DownInv ==
    pc = "down" /\ scrolled # "off" =>
        /\ scrolled = "down"
        /\ Level
        /\ screen[ScrollLines - 1] = Blank
        /\ ScrollLines > 1 =>
              cury = ScrollLines - 1 /\ ln_no = page_top_ln_no + ScrollLines - 2

UpInv ==
    pc = "up" /\ scrolled # "off" =>
        /\ scrolled = "up"
        /\ Climbing
        /\ screen[0] = Blank
        /\ scroll = 1
        /\ cury = 0
        /\ page_top_ln_no > 0

PageInv == DisplayInv /\ RestInv /\ DownInv /\ UpInv

LEMMA RowFacts ==
  /\ ScrollLines \in Nat /\ ScrollLines > 0
  /\ 0 \in Row /\ ScrollLines - 1 \in Row
  /\ \A r \in Row : r \in Nat /\ r < ScrollLines /\ (r > 0 => r - 1 \in Row)
                    /\ (r # ScrollLines - 1 => r + 1 \in Row)
  BY ViewAssumption DEF Row

LEMMA NumberType ==
  ASSUME TypeOK, NEW r \in Row, screen[r] # Blank
  PROVE  screen[r].no \in Nat
  BY DEF TypeOK

LEMMA DrawRows ==
  ASSUME TypeOK, NEW n, SomeLine(n), NEW r \in Row, Draw(n, r)
  PROVE  /\ screen'[r] = [no |-> n, pos |-> Entry(n)]
         /\ screen'[r] # Blank /\ screen'[r].no = n /\ n \in Nat
         /\ \A q \in Row : q # r => screen'[q] = screen[q]
<1>1. n \in Nat /\ Entry(n) \in Nat
  BY EntryType, TypeIsCore DEF SomeLine
<1>2. screen'[r] = [no |-> n, pos |-> Entry(n)] /\ \A q \in Row : q # r => screen'[q] = screen[q]
  BY DEF Draw, TypeOK
<1>3. [no |-> n, pos |-> Entry(n)] # Blank
  BY <1>1, ViewAssumption
<1>. QED
  BY <1>1, <1>2, <1>3

LEMMA LevelClimbs == ASSUME TypeOK, Level PROVE Climbing
<1>1. page_top_ln_no \in Nat
  BY DEF TypeOK
<1>2. ASSUME NEW r \in Row, screen[r] # Blank
      PROVE  screen[r].no = page_top_ln_no + r /\ r \in Nat
  BY <1>2, RowFacts DEF Level
<1>3. screen[0] # Blank => screen[0].no = page_top_ln_no
  BY <1>1, <1>2, RowFacts
<1>. QED
  BY <1>1, <1>2, <1>3 DEF Climbing

\* A step that leaves the page as it was.
LEMMA PageStays ==
  ASSUME PageInv, Resting, UNCHANGED <<page, scrolled>>, pc' \notin {"display", "down", "up"}
  PROVE  PageInv'
  BY DEF PageInv, DisplayInv, RestInv, DownInv, UpInv, Level, Climbing, Resting, page, Row

LEMMA NextPagePage ==
  ASSUME TypeOK, PageInv, Resting, NEW n, NEW top, NEW y, NEW pos, NextPage(n, top, y, pos)
  PROVE  PageInv'
<1>1. CASE pc' = "wild"
  BY <1>1 DEF PageInv, DisplayInv, RestInv, DownInv, UpInv, Resting
<1>2. CASE /\ pc' = "prompt" /\ page_top_ln_no' = top
           /\ scrolled' = IF top = page_top_ln_no THEN scrolled ELSE "off"
           /\ UNCHANGED <<screen, page_bot_ln_no>>
  <2>1. CASE top = page_top_ln_no
    BY <1>2, <2>1 DEF PageInv, DisplayInv, RestInv, DownInv, UpInv, Level, Climbing, Resting, Row
  <2>2. CASE top # page_top_ln_no
    BY <1>2, <2>2 DEF PageInv, DisplayInv, RestInv, DownInv, UpInv, Resting
  <2>. QED
    BY <2>1, <2>2
<1>3. CASE pc' = "display" /\ cury' = 0 /\ scrolled' = "down"
  BY <1>3, RowFacts DEF PageInv, DisplayInv, RestInv, DownInv, UpInv, Resting, Row
<1>. QED
  BY <1>1, <1>2, <1>3 DEF NextPage, Prompt

LEMMA DownPage == ASSUME TInv, PageInv, NEW n \in Count, Down(n) PROVE PageInv'
<1>1. n \in Nat /\ n > 0 /\ TypeOK /\ Resting /\ page_top_ln_no \in Nat /\ page_bot_ln_no \in Int
      /\ ln_no_max \in Int
  BY CountType DEF TInv, TypeOK, Down, Resting
<1>2. CASE page_bot_ln_no >= ln_no_max
  <2>1. UNCHANGED <<page, scrolled>> /\ pc' = "prompt"
    BY <1>1, <1>2 DEF TypeOK, Down, Prompt
  <2>. QED
    BY <1>1, <2>1, PageStays
<1>3. CASE ~(page_bot_ln_no >= ln_no_max)
  <2>1. /\ ln_no' = page_bot_ln_no /\ pc' = "down"
        /\ scrolled' = IF n = 1 /\ scrolled = "down" /\ screen[ScrollLines - 1] # Blank
                       THEN "down" ELSE "off"
        /\ page_top_ln_no' = page_top_ln_no + n
        /\ screen' = [r \in Row |-> IF r + n \in Row THEN screen[r + n] ELSE Blank]
        /\ cury' = IF n < ScrollLines THEN ScrollLines - n ELSE cury
    BY <1>3 DEF Down
  <2>2. CASE scrolled' = "off"
    BY <2>1, <2>2 DEF PageInv, DisplayInv, RestInv, DownInv, UpInv, Resting
  <2>3. CASE n = 1 /\ scrolled = "down" /\ screen[ScrollLines - 1] # Blank
    <3>1. Level /\ page_bot_ln_no = page_top_ln_no + ScrollLines - 1
      BY <1>1, <2>3 DEF PageInv, RestInv
    <3>2. \A r \in Row : screen'[r] # Blank => r + 1 \in Row /\ screen'[r] = screen[r + 1]
      BY <2>1, <2>3
    <3>3. Level'
      <4>1. ASSUME NEW r \in Row, screen'[r] # Blank
            PROVE  screen'[r].no = page_top_ln_no' + r
        BY <1>1, <2>1, <2>3, <3>1, <3>2, <4>1, RowFacts DEF Level
      <4>. QED
        BY <4>1 DEF Level, Row
    <3>4. screen'[ScrollLines - 1] = Blank
      <4>1. ScrollLines - 1 \in Row /\ (ScrollLines - 1) + 1 \notin Row
        BY RowFacts
      <4>. QED
        BY <3>2, <4>1
    <3>5. ScrollLines > 1 =>
             cury' = ScrollLines - 1 /\ ln_no' = page_top_ln_no' + ScrollLines - 2
      BY <1>1, <2>1, <2>3, <3>1, RowFacts
    <3>. QED
      BY <2>1, <2>3, <3>3, <3>4, <3>5 DEF PageInv, DisplayInv, RestInv, DownInv, UpInv, Resting
  <2>. QED
    BY <2>1, <2>2, <2>3
<1>. QED
  BY <1>2, <1>3

LEMMA UpPage == ASSUME TInv, PageInv, NEW n \in Count, Up(n) PROVE PageInv'
<1>1. n \in Nat /\ n > 0 /\ TypeOK /\ Resting /\ page_top_ln_no \in Nat
  BY CountType DEF TInv, TypeOK, Up, Resting
<1>2. CASE page_top_ln_no = 0
  BY <1>1, <1>2, PageStays DEF Up, Prompt
<1>3. CASE page_top_ln_no # 0
  <2>1. /\ pc' = "up" /\ scroll' = n /\ cury' = 0
        /\ scrolled' = IF n = 1 /\ scrolled # "off" THEN "up" ELSE "off"
        /\ page_top_ln_no' = page_top_ln_no
        /\ screen' = [r \in Row |-> IF r - n \in Row THEN screen[r - n] ELSE Blank]
    BY <1>3 DEF Up
  <2>2. CASE scrolled' = "off"
    BY <2>1, <2>2 DEF PageInv, DisplayInv, RestInv, DownInv, UpInv, Resting
  <2>3. CASE n = 1 /\ scrolled # "off"
    <3>1. Climbing
      BY <1>1, <2>3, LevelClimbs DEF PageInv, RestInv, TypeOK
    <3>2. \A r \in Row : screen'[r] # Blank => r - 1 \in Row /\ screen'[r] = screen[r - 1]
      BY <2>1, <2>3
    <3>3. screen'[0] = Blank
      <4>1. 0 \in Row /\ 0 - 1 \notin Row
        BY RowFacts
      <4>. QED
        BY <3>2, <4>1
    <3>4. Climbing'
      <4>1. ASSUME NEW r \in Row, screen'[r] # Blank
            PROVE  screen'[r].no >= page_top_ln_no'
        BY <2>1, <3>1, <3>2, <4>1 DEF Climbing
      <4>2. ASSUME NEW r \in Row, NEW q \in Row, r < q, screen'[r] # Blank, screen'[q] # Blank
            PROVE  screen'[r].no < screen'[q].no
        BY <3>1, <3>2, <4>2, RowFacts DEF Climbing
      <4>. QED
        BY <3>3, <4>1, <4>2 DEF Climbing, Row
    <3>. QED
      BY <1>1, <1>3, <2>1, <2>3, <3>3, <3>4
      DEF PageInv, DisplayInv, RestInv, DownInv, UpInv, Resting
  <2>. QED
    BY <2>1, <2>2, <2>3
<1>. QED
  BY <1>2, <1>3

LEMMA CommandPage == ASSUME TInv, PageInv, Command PROVE PageInv'
<1>1. TypeOK
  BY DEF TInv
<1>2. ASSUME NEW n \in Count, Down(n) \/ Up(n) PROVE PageInv'
  BY <1>2, DownPage, UpPage
<1>3. ASSUME NEW n \in Count, GoToLine(n) PROVE PageInv'
  BY <1>1, <1>3, PageStays, NextPagePage DEF GoToLine, Prompt, Resting
<1>4. ASSUME NEW p \in Percent, GoToPercent(p) PROVE PageInv'
  <2>1. PICK n \in LineNumber((p * Size[file]) \div 100) :
          LET top == IF n > ScrollLines THEN n - ScrollLines ELSE 0
          IN  NextPage(n, top, cury, Entry(top))
    BY <1>4 DEF GoToPercent
  <2>2. Resting
    BY <1>4 DEF GoToPercent, Resting
  <2>. QED
    BY <1>1, <2>1, <2>2, NextPagePage
<1>5. CASE NPage \/ GoToMark
  BY <1>1, <1>5, NextPagePage DEF NPage, GoToMark, Resting
<1>6. CASE PPage
  <2>1. CASE UNCHANGED <<page, scrolled>> /\ Prompt(page_top_pos)
    BY <1>6, <2>1, PageStays DEF PPage, Prompt, Resting
  <2>2. ASSUME NEW top, NextPage(top, top, 0, page_top_pos) PROVE PageInv'
    BY <1>1, <1>6, <2>2, NextPagePage DEF PPage, Resting
  <2>. QED
    BY <1>6, <2>1, <2>2 DEF PPage
<1>7. CASE GoToEof
  <2>1. ASSUME NEW n, ShowEnd(n) PROVE PageInv'
    BY <1>1, <1>7, <2>1, NextPagePage DEF GoToEof, ShowEnd, Resting
  <2>2. CASE UNCHANGED <<page, scrolled>> /\ pc' \in {"sync", "wild"}
    BY <1>7, <2>2, PageStays DEF GoToEof, Resting
  <2>. QED
    BY <1>7, <2>1, <2>2 DEF GoToEof, GoesWild
<1>8. CASE SetMark \/ Quit
  BY <1>8, PageStays DEF SetMark, Quit, Resting
<1>9. CASE Redisplay \/ \E f \in File : Open(f)
  <2>1. pc' = "display" /\ cury' = 0 /\ scrolled' = "down"
    BY <1>9 DEF Redisplay, Open
  <2>. QED
    BY <2>1, RowFacts DEF PageInv, DisplayInv, RestInv, DownInv, UpInv, Resting, Row
<1>. QED
  BY <1>2, <1>3, <1>4, <1>5, <1>6, <1>7, <1>8, <1>9 DEF Command

LEMMA DisplayLinePage == ASSUME TInv, PageInv, DisplayLine PROVE PageInv'
<1>1. /\ TypeOK /\ cury \in Nat /\ cury < ScrollLines /\ cury \in Row /\ ScrollLines \in Nat
      /\ page_top_ln_no \in Nat
  BY RowFacts DEF TInv, TypeOK, LoopType, DisplayLine, Row
<1>2. /\ scrolled' = "down" /\ SomeLine(ln_no) /\ Draw(ln_no, cury) /\ cury' = cury + 1
      /\ page_top_ln_no' = IF cury = 0 THEN ln_no ELSE page_top_ln_no
      /\ pc' \in {"display", "prompt"}
      /\ pc' = "display" => ln_no' = ln_no + 1
      /\ pc' = "prompt" => ~(cury + 1 < ScrollLines) /\ page_bot_ln_no' = ln_no
  BY DEF DisplayLine, Prompt, PageInv, DisplayInv
<1>3. /\ screen'[cury] # Blank /\ screen'[cury].no = ln_no /\ ln_no \in Nat
      /\ \A q \in Row : q # cury => screen'[q] = screen[q]
  BY <1>1, <1>2, DrawRows
<1>4. ln_no = page_top_ln_no' + cury
  BY <1>1, <1>2, <1>3 DEF PageInv, DisplayInv, DisplayLine
<1>5. ASSUME NEW r \in Row, r < cury'
      PROVE  screen'[r] # Blank /\ screen'[r].no = page_top_ln_no' + r
  <2>1. CASE r = cury
    BY <1>3, <1>4, <2>1
  <2>2. CASE r # cury
    <3>1. r < cury /\ cury # 0
      BY <1>1, <1>2, <1>5, <2>2, RowFacts
    <3>. QED
      BY <1>2, <1>3, <2>2, <3>1 DEF PageInv, DisplayInv, DisplayLine
  <2>. QED
    BY <2>1, <2>2
<1>6. CASE pc' = "display"
  BY <1>2, <1>3, <1>4, <1>5, <1>6, <1>1 DEF PageInv, DisplayInv, RestInv, DownInv, UpInv, Resting, Row
<1>7. CASE pc' = "prompt"
  <2>1. cury' = ScrollLines /\ cury = ScrollLines - 1
    BY <1>1, <1>2, <1>7
  <2>2. Level'
    BY <1>5, <2>1, RowFacts DEF Level, Row
  <2>3. page_bot_ln_no' = page_top_ln_no' + ScrollLines - 1
    BY <1>1, <1>2, <1>3, <1>4, <1>7, <2>1
  <2>. QED
    BY <1>2, <1>7, <2>2, <2>3 DEF PageInv, DisplayInv, RestInv, DownInv, UpInv, Resting
<1>. QED
  BY <1>2, <1>6, <1>7

LEMMA DisplayEodPage == ASSUME TInv, PageInv, DisplayEod PROVE PageInv'
<1>1. /\ TypeOK /\ cury \in Nat /\ cury < ScrollLines /\ ScrollLines \in Nat
  BY RowFacts DEF TInv, TypeOK, LoopType, DisplayEod
<1>2. /\ screen' = [r \in Row |-> IF r < cury THEN screen[r] ELSE Blank]
      /\ pc' = "prompt" /\ page_top_ln_no' = page_top_ln_no /\ scrolled' = "down"
  BY DEF DisplayEod, Prompt, PageInv, DisplayInv
<1>3. Level'
  BY <1>2 DEF Level, PageInv, DisplayInv, DisplayEod, Row
<1>4. screen'[ScrollLines - 1] = Blank
  BY <1>1, <1>2, RowFacts
<1>. QED
  BY <1>2, <1>3, <1>4 DEF PageInv, DisplayInv, RestInv, DownInv, UpInv, Resting

LEMMA DownLinePage == ASSUME TInv, PageInv, DownLine PROVE PageInv'
<1>1. /\ TypeOK /\ cury \in 0..ScrollLines /\ ScrollLines \in Nat /\ ScrollLines > 0
      /\ page_top_ln_no \in Nat
  BY RowFacts DEF TInv, TypeOK
<1>. DEFINE r == LastRow(cury)
<1>2. r \in Row
  BY <1>1, LastRowRange DEF Row
<1>3. /\ SomeLine(ln_no + 1) /\ Draw(ln_no + 1, r) /\ pc = "down" /\ scrolled' = scrolled
      /\ cury' = r + 1
      /\ page_top_ln_no' = IF r = 0 THEN ln_no + 1 ELSE page_top_ln_no
      /\ r + 1 = ScrollLines => page_bot_ln_no' = ln_no + 1 /\ pc' = "prompt"
      /\ r + 1 # ScrollLines => pc' = "down"
  BY DEF DownLine, Prompt
<1>4. CASE scrolled = "off"
  BY <1>3, <1>4 DEF PageInv, DisplayInv, RestInv, DownInv, UpInv, Resting
<1>5. CASE scrolled # "off"
  <2>1. /\ scrolled = "down" /\ Level /\ r = ScrollLines - 1
        /\ ScrollLines > 1 => ln_no + 1 = page_top_ln_no + ScrollLines - 1
    <3>1. scrolled = "down" /\ Level
      BY <1>3, <1>5 DEF PageInv, DownInv
    <3>2. ScrollLines > 1 => cury = ScrollLines - 1 /\ ln_no = page_top_ln_no + ScrollLines - 2
      BY <1>3, <1>5 DEF PageInv, DownInv
    <3>3. r = ScrollLines - 1
      <4>1. CASE ScrollLines > 1
        BY <1>1, <3>2, <4>1, LastRowRange
      <4>2. CASE ScrollLines = 1
        BY <1>2, <4>2, RowFacts
      <4>. QED
        BY <1>1, <4>1, <4>2
    <3>. QED
      BY <1>1, <3>1, <3>2, <3>3
  <2>. HIDE DEF r
  <2>2. /\ screen'[r] # Blank /\ screen'[r].no = ln_no + 1 /\ ln_no + 1 \in Nat
        /\ \A q \in Row : q # r => screen'[q] = screen[q]
    BY <1>1, <1>2, <1>3, DrawRows
  <2>3. pc' = "prompt" /\ page_bot_ln_no' = ln_no + 1
    BY <1>1, <1>3, <2>1
  <2>4. ln_no + 1 = page_top_ln_no' + ScrollLines - 1
    <3>1. CASE ScrollLines > 1
      BY <1>1, <1>3, <2>1, <3>1
    <3>2. CASE ScrollLines = 1
      BY <1>1, <1>3, <2>1, <2>2, <3>2
    <3>. QED
      BY <1>1, <3>1, <3>2
  <2>5. ASSUME NEW q \in Row, screen'[q] # Blank
        PROVE  screen'[q].no = page_top_ln_no' + q
    <3>1. CASE q = r
      BY <1>1, <1>3, <2>1, <2>2, <2>4, <3>1, TypeParts
    <3>2. CASE q # r
      <4>1. r # 0
        <5>1. q \in Nat /\ q < ScrollLines
          BY RowFacts
        <5>. QED
          BY <1>1, <2>1, <3>2, <5>1
      <4>. QED
        BY <1>3, <2>1, <2>2, <2>5, <3>2, <4>1 DEF Level
    <3>. QED
      BY <3>1, <3>2
  <2>6. Level'
    BY <2>5 DEF Level, Row
  <2>. QED
    BY <1>3, <2>1, <2>3, <2>4, <2>6 DEF PageInv, DisplayInv, RestInv, DownInv, UpInv, Resting
<1>. QED
  BY <1>4, <1>5

LEMMA DownEndPage == ASSUME TInv, PageInv, DownEnd PROVE PageInv'
<1>1. /\ pc = "down" /\ pc' = "prompt" /\ UNCHANGED <<page_top_ln_no, screen, scrolled>>
  BY DEF DownEnd, Prompt
<1>. QED
  BY <1>1 DEF PageInv, DisplayInv, RestInv, DownInv, UpInv, Resting, Level, Row

LEMMA UpLinePage == ASSUME TInv, PageInv, UpLine PROVE PageInv'
<1>1. /\ TypeOK /\ cury \in 0..ScrollLines /\ ScrollLines \in Nat /\ ScrollLines > 0
      /\ page_top_ln_no \in Nat
  BY RowFacts DEF TInv, TypeOK
<1>2. pc = "up" /\ scrolled' = scrolled /\ pc' \in {"up", "prompt"}
  BY DEF UpLine, Prompt
<1>3. CASE scrolled = "off"
  BY <1>2, <1>3 DEF PageInv, DisplayInv, RestInv, DownInv, UpInv, Resting
<1>4. CASE scrolled # "off"
  <2>1. /\ scrolled = "up" /\ Climbing /\ screen[0] = Blank /\ scroll = 1 /\ cury = 0
        /\ page_top_ln_no > 0
    BY <1>2, <1>4 DEF PageInv, UpInv
  <2>2. LastRow(cury) = 0 /\ 0 \in Row /\ UpTo = page_top_ln_no - 1
    BY <1>1, <2>1, RowFacts DEF LastRow, UpTo
  <2>3. /\ SomeLine(UpTo) /\ Draw(UpTo, 0) /\ page_top_ln_no' = page_top_ln_no - 1
        /\ pc' = "prompt"
    BY <2>1, <2>2 DEF UpLine, Prompt
  <2>4. /\ screen'[0] # Blank /\ screen'[0].no = page_top_ln_no - 1
        /\ \A q \in Row : q # 0 => screen'[q] = screen[q]
    BY <1>1, <2>2, <2>3, DrawRows, ZenonT(40)
  <2>5. ASSUME NEW q \in Row, screen'[q] # Blank, q # 0
        PROVE  screen'[q].no >= page_top_ln_no /\ screen'[q].no \in Nat
    BY <1>1, <2>1, <2>4, <2>5, NumberType, SMTT(30) DEF Climbing
  <2>6. ASSUME NEW q \in Row, NEW s \in Row, q < s, screen'[q] # Blank, screen'[s] # Blank
        PROVE  screen'[q].no < screen'[s].no
    <3>1. s # 0
      BY <2>6, RowFacts
    <3>2. CASE q = 0
      <4>1. screen'[s].no >= page_top_ln_no /\ screen'[s].no \in Nat
        BY <2>5, <2>6, <3>1
      <4>2. screen'[q].no = page_top_ln_no - 1
        BY <2>4, <3>2
      <4>. QED
        BY <1>1, <4>1, <4>2
    <3>3. CASE q # 0
      BY <2>1, <2>4, <2>6, <3>1, <3>3 DEF Climbing
    <3>. QED
      BY <3>2, <3>3
  <2>7. \A q \in Row : screen'[q] # Blank => screen'[q].no >= page_top_ln_no'
    BY <1>1, <2>3, <2>4, <2>5
  <2>8. Climbing'
    BY <2>3, <2>4, <2>6, <2>7 DEF Climbing, Row
  <2>. QED
    BY <1>2, <2>1, <2>3, <2>8 DEF PageInv, DisplayInv, RestInv, DownInv, UpInv, Resting
<1>. QED
  BY <1>3, <1>4

LEMMA LoopPage == ASSUME TInv, PageInv, Loop PROVE PageInv'
<1>1. CASE DisplayWild \/ DownWild \/ UpWild
  BY <1>1 DEF DisplayWild, DownWild, UpWild, GoesWild, PageInv, DisplayInv, RestInv, DownInv,
              UpInv, Resting
<1>2. CASE UpEod
  BY <1>2 DEF UpEod, Prompt, page, PageInv, DisplayInv, RestInv, DownInv, UpInv, Resting, Climbing,
              Row
<1>3. CASE SyncLine
  BY <1>3 DEF SyncLine, page, PageInv, DisplayInv, RestInv, DownInv, UpInv, Resting, Level,
              Climbing, Row
<1>4. CASE SyncEnd
  BY <1>4, NextPagePage DEF SyncEnd, ShowEnd, Resting, TInv
<1>. QED
  BY <1>1, <1>2, <1>3, <1>4, DisplayLinePage, DisplayEodPage, DownLinePage, DownEndPage, UpLinePage
  DEF Loop

\* The first row is the one page_top_ln_no says and the rows go on in the order of the
\* file (view_display_page, scroll_down, scroll_up by a line), as long as the page was
\* not moved off: for any files, long lines and undefined entries of the table included.
THEOREM AscendCorrect == Spec => []RowsAscend
<1>1. Init => PageInv
  <2>. SUFFICES ASSUME Init PROVE PageInv
    OBVIOUS
  <2>1. pc = "display" /\ cury = 0 /\ scrolled = "down"
    BY DEF Init
  <2>2. DisplayInv
    <3>1. \A r \in Row : ~(r < 0)
      BY DEF Row
    <3>. QED
      BY <2>1, <3>1 DEF DisplayInv
  <2>3. RestInv /\ DownInv /\ UpInv
    BY <2>1 DEF RestInv, DownInv, UpInv, Resting
  <2>. QED
    BY <2>2, <2>3 DEF PageInv
<1>2. TInv /\ PageInv /\ [Next]_vars => PageInv'
  <2>1. TInv /\ PageInv /\ UNCHANGED vars => PageInv'
    BY DEF vars, page, PageInv, DisplayInv, RestInv, DownInv, UpInv, Resting, Level, Climbing, Row
  <2>. QED
    BY <2>1, CommandPage, LoopPage DEF Next, Ended
<1>3. TInv /\ PageInv => RowsAscend
  <2>. SUFFICES ASSUME TInv, PageInv, pc = "prompt", scrolled # "off"
                PROVE  /\ screen[0] # Blank => screen[0].no = page_top_ln_no
                       /\ \A r, q \in Row : r < q /\ Blank \notin {screen[r], screen[q]} =>
                             screen[r].no < screen[q].no
    BY DEF RowsAscend
  <2>1. Climbing
    BY LevelClimbs DEF PageInv, RestInv, Resting, TInv, TypeOK
  <2>. QED
    BY <2>1 DEF Climbing
<1>. QED
  BY <1>1, <1>2, <1>3, InitTInv, NextTInv, PTL DEF Spec

-----------------------------------------------------------------------------
(* 'G' and the last line. *)

Lines == Len(Ends[file])

\* Before the first line, or in the table.
LineKnown(n) == n = -1 \/ Entry(n) # Wild

\* From where 'G' and scroll_down go on is not outside of the table.
KnownInv ==
    Lines > 0 =>
        /\ pc \in {"prompt", "down"} => LineKnown(ln_no)
        /\ pc \in {"prompt", "up", "sync"} => LineKnown(page_bot_ln_no)

LastLine(r) == screen[r] = [no |-> Lines - 1, pos |-> LineStart(file, Lines - 1)]

\* Behind 'G' the whole file is in the table, and the page that is displayed shows the
\* last line or has room for it.
EofInv ==
    eof /\ Lines > 0 =>
        /\ pc \notin {"down", "up"}
        /\ pc = "display" =>
              /\ Used = Lines
              /\ \/ \E r \in Row : r < cury /\ LastLine(r)
                 \/ ln_no \in 0..(Lines - 1) /\ Lines - 1 - ln_no < ScrollLines - cury
        /\ pc = "prompt" => \E r \in Row : LastLine(r)

LEMMA LinesFact ==
  ASSUME TypeOK
  PROVE  /\ file \in File /\ Lines \in Nat /\ Lines \in Line(file) /\ Size[file] \in Nat
         /\ Size[file] > 0 /\ Size[file] # Wild
         /\ \A n \in Line(file) : n \in Nat /\ n <= Lines
         /\ \A n \in Nat : n <= Lines => n \in Line(file)
  BY EndsType, FileAssumption, WildIsNoNumber DEF TypeOK, Lines, Line

\* Only behind the last line there is no end of a line.
LEMMA LastStart ==
  ASSUME TypeOK, NEW n \in Line(file)
  PROVE  /\ LineStart(file, n) <= Size[file] /\ LineStart(file, n) \in Nat
         /\ LineStart(file, n) = Size[file] => n = Lines
         /\ ~HasEnd(file, LineStart(file, n)) => n = Lines
<1>1. file \in File /\ Lines \in Nat /\ n \in Nat /\ n <= Lines /\ Size[file] \in Nat
  BY LinesFact
<1>2. \A m \in Line(file) : LineStart(file, m) <= Size[file] /\ LineStart(file, m) \in Nat
  BY <1>1, FileAssumption, StartType DEF Line, LineStart
<1>3. ASSUME n # Lines
      PROVE  LineStart(file, n) < Size[file] /\ HasEnd(file, LineStart(file, n))
  <2>1. n + 1 \in Line(file) /\ n + 1 \in 1..Len(Ends[file])
    BY <1>1, <1>3 DEF Line, Lines
  <2>2. LineStart(file, n) < LineStart(file, n + 1) /\ LineStart(file, n + 1) = Ends[file][n + 1]
    BY <1>1, <2>1, StartsAscend DEF LineStart
  <2>3. n + 1 \in EndsAfter(file, LineStart(file, n))
    BY <2>1, <2>2, <1>2 DEF EndsAfter
  <2>. QED
    BY <1>2, <2>1, <2>2, <2>3, <1>1 DEF HasEnd
<1>. QED
  BY <1>1, <1>2, <1>3

\* What the table says of line n, when it says something.
LEMMA EntryIs ==
  ASSUME TypeOK, IInv, NEW n
  PROVE  /\ n \in 0..Used => Entry(n) = LineStart(file, n) /\ n \in Line(file)
         /\ Entry(n) # Wild => n \in Nat /\ (n <= Used \/ Entry(n) = 0)
         /\ Used \in Nat /\ Used <= Lines
<1>1. Used \in Nat /\ Used \in Line(file) /\ Used <= ln_tbl_size - 1 /\ Used <= Lines
      /\ ln_tbl_size \in Nat
  BY LinesFact DEF IInv, TableFilled, TableType
<1>2. ASSUME n \in 0..Used PROVE Entry(n) = LineStart(file, n) /\ n \in Line(file)
  <2>1. n \in 0..(ln_tbl_size - 1) /\ n <= Lines /\ n \in Nat
    BY <1>1, <1>2, LinesFact
  <2>. QED
    BY <1>2, <2>1, LinesFact DEF Entry, IInv, TableFilled
<1>3. ASSUME Entry(n) # Wild PROVE n \in Nat /\ (n <= Used \/ Entry(n) = 0)
  <2>1. n \in 0..(ln_tbl_size - 1) /\ n \in Nat /\ Entry(n) = ln_tbl[n]
    BY <1>3 DEF Entry
  <2>2. CASE n > Used
    <3>1. n \in (Used + 1)..(ln_tbl_size - 1)
      BY <1>1, <2>1, <2>2
    <3>. QED
      BY <1>3, <2>1, <3>1 DEF IInv, TableFilled
  <2>. QED
    BY <1>1, <2>1, <2>2
<1>. QED
  BY <1>1, <1>2, <1>3

LEMMA FirstHasEnd == ASSUME TypeOK, Lines > 0 PROVE HasEnd(file, 0)
  BY LinesFact, LastStart DEF LineStart

\* The data ends behind the last line and nowhere else.
LEMMA NoLineIsEnd ==
  ASSUME TypeOK, IInv, Lines > 0, NEW n, NoLine(n)
  PROVE  n = Lines /\ Used = Lines
<1>1. Entry(n) # Wild /\ ~HasEnd(file, Entry(n))
  BY DEF NoLine, AtEod
<1>2. n \in Nat /\ n <= Used /\ Used \in Nat /\ Used <= Lines
  BY <1>1, EntryIs, FirstHasEnd
<1>3. Entry(n) = LineStart(file, n) /\ n \in Line(file)
  BY <1>2, EntryIs
<1>. QED
  BY <1>1, <1>2, <1>3, LastStart, LinesFact

LEMMA SizeIsEnd ==
  ASSUME TypeOK, IInv, NEW n, Entry(n) = Size[file]
  PROVE  n = Lines /\ Used = Lines
<1>1. n \in Nat /\ n <= Used /\ Used \in Nat /\ Used <= Lines
  BY EntryIs, LinesFact
<1>2. Entry(n) = LineStart(file, n) /\ n \in Line(file)
  BY <1>1, EntryIs
<1>. QED
  BY <1>1, <1>2, LastStart, LinesFact

\* What is in the table stays there.
LEMMA IncrementKeeps ==
  ASSUME TypeOK, NEW n \in Nat, NEW e \in Nat, Increment(n, e)
  PROVE  /\ ln_max_pos' \in Nat /\ ln_max_pos' >= ln_max_pos
         /\ \A m : Entry(m) # Wild => Entry(m)' # Wild
<1>1. ln_tbl_size \in Nat /\ ln_tbl \in [0..(ln_tbl_size - 1) -> Positions] /\ LineTblIncr \in Nat
      /\ ln_max_pos \in Nat /\ e # Wild
  BY FileAssumption, WildIsNoNumber DEF TypeOK
<1>2. CASE UNCHANGED table
  BY <1>1, <1>2 DEF table, Entry
<1>3. CASE ~UNCHANGED table
  <2>1. ln_max_pos' = e /\ e > ln_max_pos
    BY <1>1, <1>3 DEF Increment
  <2>2. ASSUME NEW m, Entry(m) # Wild PROVE Entry(m)' # Wild
    <3>1. m \in 0..(ln_tbl_size - 1) /\ ln_tbl[m] # Wild
      BY <2>2 DEF Entry
    <3>2. CASE ln_tbl' = [ln_tbl EXCEPT ![n] = e] /\ UNCHANGED ln_tbl_size
      BY <1>1, <3>1, <3>2 DEF Entry
    <3>3. ASSUME NEW junk \in {0, Wild}, ln_tbl_size' = ln_tbl_size + LineTblIncr,
                 ln_tbl' = [i \in 0..(ln_tbl_size + LineTblIncr - 1) |->
                                IF i = n THEN e ELSE IF i < ln_tbl_size THEN ln_tbl[i] ELSE junk]
          PROVE  Entry(m)' # Wild
      <4>1. m \in 0..(ln_tbl_size' - 1) /\ m < ln_tbl_size
        BY <1>1, <3>1, <3>3
      <4>2. ln_tbl'[m] # Wild
        BY <1>1, <3>1, <3>3, <4>1
      <4>. QED
        BY <4>1, <4>2 DEF Entry
    <3>. QED
      BY <1>3, <3>2, <3>3 DEF Increment
  <2>. QED
    BY <1>1, <2>1, <2>2
<1>. QED
  BY <1>2, <1>3

LEMMA GetLineKeeps ==
  ASSUME TypeOK, NEW n, SomeLine(n), GetLine(n)
  PROVE  /\ ln_max_pos' \in Nat /\ ln_max_pos' >= ln_max_pos
         /\ \A m : Entry(m) # Wild => Entry(m)' # Wild
<1>1. n \in Nat /\ n + 1 \in Nat /\ Entry(n) \in Nat /\ file \in File /\ ln_max_pos \in Nat
  BY EntryType, TypeIsCore DEF SomeLine, TypeOK
<1>2. CASE UNCHANGED table
  BY <1>1, <1>2 DEF table, Entry
<1>3. CASE ~UNCHANGED table
  <2>1. HasEnd(file, Entry(n)) /\ Increment(n + 1, NextEnd(file, Entry(n)))
    BY <1>3 DEF GetLine, SomeLine, AtEod
  <2>. QED
    BY <1>1, <2>1, SomeEnd, IncrementKeeps
<1>. QED
  BY <1>2, <1>3

\* A whole table stays whole.
LEMMA StaysWhole ==
  ASSUME TypeOK, IInv, IInv', file' = file, Lines > 0, Used = Lines, ln_max_pos' >= ln_max_pos
  PROVE  Used' = Lines
<1>1. /\ Used' \in Line(file) /\ ln_max_pos' = LineStart(file, Used')
      /\ ln_max_pos = LineStart(file, Lines)
  BY DEF IInv, TableFilled
<1>2. Used' \in Nat /\ Used' <= Lines /\ Lines \in Line(file) /\ file \in File
  BY <1>1, LinesFact
<1>3. CASE Used' < Lines
  <2>1. LineStart(file, Used') < LineStart(file, Lines)
    BY <1>1, <1>2, <1>3, StartsAscend
  <2>. QED
    BY <1>1, <1>2, <2>1, LastStart
<1>. QED
  BY <1>2, <1>3, LinesFact

\* A step that leaves the file and the table alone.
LEMMA SameKnown ==
  ASSUME UNCHANGED <<file, table>>
  PROVE  /\ Lines' = Lines
         /\ \A n : Entry(n)' = Entry(n) /\ (LineKnown(n)' <=> LineKnown(n))
  BY DEF table, Entry, LineKnown, Lines

LEMMA NextPageKnown ==
  ASSUME TypeOK, KnownInv, Resting, file' = file,
         NEW n, NEW top, NEW y, NEW pos, NextPage(n, top, y, pos)
  PROVE  KnownInv'
<1>1. UNCHANGED table /\ Lines' = Lines /\ pc' \in {"wild", "prompt", "display"}
  BY SameKnown DEF NextPage, Prompt
<1>2. CASE pc' = "prompt"
  <2>1. Entry(n) = Size[file] /\ ln_no' = n /\ page_bot_ln_no' = page_bot_ln_no
    BY <1>2 DEF NextPage
  <2>2. LineKnown(n)
    BY <2>1, LinesFact DEF LineKnown
  <2>. QED
    BY <1>1, <1>2, <2>1, <2>2, SameKnown DEF KnownInv, Resting, LineKnown
<1>. QED
  BY <1>1, <1>2 DEF KnownInv

LEMMA CommandKnown == ASSUME TInv, KnownInv, Command PROVE KnownInv'
<1>1. TypeOK
  BY DEF TInv
<1>2. ASSUME UNCHANGED <<file, table, ln_no, page_bot_ln_no>>, pc = "prompt",
             pc' \in {"prompt", "up", "closed", "wild"}
      PROVE  KnownInv'
  BY <1>2, SameKnown DEF KnownInv, LineKnown
<1>3. ASSUME NEW n \in Count, Down(n) PROVE KnownInv'
  <2>1. /\ UNCHANGED <<file, table, page_bot_ln_no>> /\ ln_no' = page_bot_ln_no
        /\ pc = "prompt" /\ pc' \in {"prompt", "down"}
    BY <1>3 DEF Down, Prompt, page
  <2>. QED
    BY <2>1, SameKnown DEF KnownInv, LineKnown
<1>4. ASSUME NEW n \in Count, Up(n) PROVE KnownInv'
  BY <1>2, <1>4 DEF Up, Prompt, page
<1>5. ASSUME NEW n \in Count, GoToLine(n) PROVE KnownInv'
  <2>1. CASE UNCHANGED <<table, page, ln_no>> /\ Prompt(page_top_pos)
    BY <1>2, <1>5, <2>1 DEF GoToLine, Prompt, page
  <2>2. CASE NextPage(n - 1, page_top_ln_no, cury, Entry(n - 1))
    BY <1>1, <1>5, <2>2, NextPageKnown DEF GoToLine, Resting
  <2>. QED
    BY <1>5, <2>1, <2>2 DEF GoToLine
<1>6. ASSUME NEW p \in Percent, GoToPercent(p) PROVE KnownInv'
  <2>1. PICK n \in LineNumber((p * Size[file]) \div 100) :
          LET top == IF n > ScrollLines THEN n - ScrollLines ELSE 0
          IN  NextPage(n, top, cury, Entry(top))
    BY <1>6 DEF GoToPercent
  <2>2. Resting /\ file' = file
    BY <1>6 DEF GoToPercent, Resting
  <2>. QED
    BY <1>1, <2>1, <2>2, NextPageKnown
<1>7. CASE NPage \/ GoToMark
  BY <1>1, <1>7, NextPageKnown DEF NPage, GoToMark, Resting
<1>8. CASE PPage
  <2>1. CASE UNCHANGED <<table, page, ln_no>> /\ Prompt(page_top_pos)
    BY <1>2, <1>8, <2>1 DEF PPage, Prompt, page
  <2>2. ASSUME NEW top, NextPage(top, top, 0, page_top_pos) PROVE KnownInv'
    BY <1>1, <1>8, <2>2, NextPageKnown DEF PPage, Resting
  <2>. QED
    BY <1>8, <2>1, <2>2 DEF PPage
<1>9. CASE GoToEof
  <2>1. ASSUME NEW n, ShowEnd(n) PROVE KnownInv'
    BY <1>1, <1>9, <2>1, NextPageKnown DEF GoToEof, ShowEnd, Resting
  <2>2. CASE UNCHANGED <<table, page>> /\ pc' \in {"sync", "wild"}
    <3>1. UNCHANGED <<file, table, page_bot_ln_no>> /\ pc = "prompt"
      BY <1>9, <2>2 DEF GoToEof, page
    <3>. QED
      BY <2>2, <3>1, SameKnown DEF KnownInv, LineKnown
  <2>. QED
    BY <1>9, <2>1, <2>2 DEF GoToEof, GoesWild
<1>10. CASE SetMark \/ Quit
  BY <1>2, <1>10 DEF SetMark, Quit, page
<1>11. CASE Redisplay \/ \E f \in File : Open(f)
  BY <1>11 DEF Redisplay, Open, KnownInv
<1>. QED
  BY <1>3, <1>4, <1>5, <1>6, <1>7, <1>8, <1>9, <1>10, <1>11 DEF Command

\* The line before the end of the data is in the table.
LEMMA BeforeEod ==
  ASSUME TypeOK, IInv, Lines > 0, NEW n, NoLine(n)
  PROVE  n - 1 \in 0..Used /\ LineKnown(n - 1)
<1>1. n = Lines /\ Used = Lines /\ Lines \in Nat
  BY NoLineIsEnd, LinesFact
<1>2. n - 1 \in 0..Used
  BY <1>1
<1>3. Entry(n - 1) = LineStart(file, n - 1) /\ n - 1 \in Line(file)
  BY <1>2, EntryIs
<1>4. LineStart(file, n - 1) \in Nat
  BY <1>3, LastStart
<1>. QED
  BY <1>2, <1>3, <1>4, WildIsNoNumber DEF LineKnown

LEMMA LoopKnown == ASSUME TInv, IInv, KnownInv, Loop PROVE KnownInv'
<1>1. TypeOK /\ file' = file /\ Lines' = Lines
  BY DEF TInv, Loop, DisplayLine, DisplayEod, DisplayWild, DownLine, DownEnd, DownWild, UpLine,
         UpEod, UpWild, SyncLine, SyncEnd, Lines
<1>2. CASE DisplayLine
  <2>1. SomeLine(ln_no) /\ GetLine(ln_no) /\ pc' \in {"display", "prompt"}
        /\ (pc' = "prompt" => ln_no' = ln_no /\ page_bot_ln_no' = ln_no)
    BY <1>2 DEF DisplayLine, Prompt
  <2>3. \A m : Entry(m) # Wild => Entry(m)' # Wild
    BY <1>1, <2>1, GetLineKeeps
  <2>. QED
    BY <2>1, <2>3 DEF KnownInv, LineKnown, SomeLine
<1>3. CASE DownLine
  <2>1. SomeLine(ln_no + 1) /\ GetLine(ln_no + 1) /\ pc' \in {"down", "prompt"}
        /\ ln_no' = ln_no + 1 /\ (pc' = "prompt" => page_bot_ln_no' = ln_no + 1)
    BY <1>3 DEF DownLine, Prompt
  <2>3. \A m : Entry(m) # Wild => Entry(m)' # Wild
    BY <1>1, <2>1, GetLineKeeps
  <2>. QED
    BY <2>1, <2>3 DEF KnownInv, LineKnown, SomeLine
<1>4. CASE UpLine
  <2>1. SomeLine(UpTo) /\ GetLine(UpTo) /\ pc = "up" /\ pc' \in {"up", "prompt"}
        /\ (pc' = "prompt" => ln_no' = UpTo) /\ page_bot_ln_no' \in {UpTo, page_bot_ln_no}
    BY <1>4 DEF UpLine, Prompt
  <2>3. \A m : Entry(m) # Wild => Entry(m)' # Wild
    BY <1>1, <2>1, GetLineKeeps
  <2>. QED
    BY <1>1, <2>1, <2>3 DEF KnownInv, LineKnown, SomeLine
<1>5. CASE DisplayEod
  <2>1. NoLine(ln_no) /\ UNCHANGED table /\ pc' = "prompt" /\ ln_no' = ln_no - 1
        /\ page_bot_ln_no' = ln_no - 1
    BY <1>5 DEF DisplayEod, Prompt
  <2>2. Lines > 0 => LineKnown(ln_no - 1)
    BY <1>1, <2>1, BeforeEod
  <2>. QED
    BY <1>1, <2>1, <2>2, SameKnown DEF KnownInv, LineKnown
<1>6. CASE DownEnd
  <2>1. UNCHANGED table /\ pc' = "prompt" /\ pc = "down" /\ page_bot_ln_no' = ln_no'
        /\ (ln_no' = ln_no \/ NoLine(ln_no'))
    BY <1>6 DEF DownEnd, Prompt, NoLine
  <2>. QED
    BY <1>1, <2>1, SameKnown DEF KnownInv, LineKnown, NoLine
<1>7. CASE UpEod
  <2>1. NoLine(UpTo) /\ UNCHANGED <<table, page_bot_ln_no>> /\ pc' = "prompt" /\ pc = "up"
        /\ ln_no' = UpTo - 1
    BY <1>7 DEF UpEod, Prompt, page
  <2>2. Lines > 0 => LineKnown(UpTo - 1)
    BY <1>1, <2>1, BeforeEod
  <2>. QED
    BY <1>1, <2>1, <2>2, SameKnown DEF KnownInv, LineKnown
<1>8. CASE DisplayWild \/ DownWild \/ UpWild
  BY <1>8 DEF DisplayWild, DownWild, UpWild, GoesWild, KnownInv
<1>9. CASE SyncLine
  <2>1. ln_no \in Nat /\ HasEnd(file, file_pos) /\ file \in File
        /\ Increment(ln_no + 1, NextEnd(file, file_pos))
        /\ pc = "sync" /\ pc' = "sync" /\ page_bot_ln_no' = page_bot_ln_no
    BY <1>1, <1>9 DEF SyncLine, page, TInv, LoopType, TypeOK
  <2>2. NextEnd(file, file_pos) \in Nat /\ ln_no + 1 \in Nat
    BY <2>1, SomeEnd
  <2>3. \A m : Entry(m) # Wild => Entry(m)' # Wild
    BY <1>1, <2>1, <2>2, IncrementKeeps
  <2>. QED
    BY <1>1, <2>1, <2>3 DEF KnownInv, LineKnown
<1>10. CASE SyncEnd
  BY <1>1, <1>10, NextPageKnown DEF SyncEnd, ShowEnd, Resting
<1>. QED
  BY <1>2, <1>3, <1>4, <1>5, <1>6, <1>7, <1>8, <1>9, <1>10 DEF Loop

-----------------------------------------------------------------------------

\* With the whole file in the table, the page that 'G' displays reaches the last line.
LEMMA ShowEndShows ==
  ASSUME TInv, IInv, Lines > 0, Used = Lines, file' = file, ShowEnd(Lines)
  PROVE  /\ pc' = "display" /\ cury' = 0 /\ UNCHANGED table
         /\ ln_no' \in 0..(Lines - 1) /\ Lines - 1 - ln_no' < ScrollLines
<1>1. TypeOK /\ Lines \in Nat /\ ScrollLines \in Nat /\ ScrollLines > 0
  BY LinesFact, ViewAssumption DEF TInv
<1>2. PICK top \in 0..(Lines - 1) : /\ NextPage(top, top, 0, page_top_pos)
                                    /\ Lines - 1 - top < ScrollLines
  <2>1. CASE Lines - 1 > ScrollLines
    BY <1>1, <2>1 DEF ShowEnd
  <2>2. CASE ~(Lines - 1 > ScrollLines)
    BY <1>1, <2>2 DEF ShowEnd
  <2>. QED
    BY <2>1, <2>2
<1>3. Entry(top) = LineStart(file, top) /\ top \in Line(file)
  BY <1>1, EntryIs
<1>4. Entry(top) \notin {Wild, Size[file]}
  <2>1. Entry(top) # Wild
    BY <1>1, <1>3, LastStart, WildIsNoNumber
  <2>2. Entry(top) # Size[file]
    BY <1>1, <1>3, LastStart
  <2>. QED
    BY <2>1, <2>2
<1>5. Entry(top) # Wild /\ Entry(top) # Size[file]
  BY <1>4
<1>6. ln_no' = top /\ UNCHANGED table /\ cury' = 0 /\ pc' = "display"
  BY <1>2, <1>5 DEF NextPage
<1>7. ln_no' \in 0..(Lines - 1) /\ Lines - 1 - ln_no' < ScrollLines
  BY <1>2, <1>6
<1>. QED
  BY <1>6, <1>7

\* Above the first line 'G' is lost.
LEMMA ShowEndLost == ASSUME TypeOK, ShowEnd(-1) PROVE pc' = "wild"
<1>1. ScrollLines \in Nat
  BY ViewAssumption
<1>2. NextPage(-2, -2, 0, page_top_pos)
  BY <1>1 DEF ShowEnd
<1>3. Entry(-2) = Wild
  <2>1. -2 \notin 0..(ln_tbl_size - 1)
    OBVIOUS
  <2>. QED
    BY <2>1 DEF Entry
<1>4. Entry(-2) # Size[file]
  BY <1>3, LinesFact
<1>. QED
  BY <1>2, <1>3, <1>4 DEF NextPage

LEMMA EofFromShowEnd ==
  ASSUME TInv, IInv, Lines > 0, Used = Lines, file' = file, ShowEnd(Lines)
  PROVE  EofInv'
<1>1. /\ pc' = "display" /\ cury' = 0 /\ UNCHANGED table /\ Lines' = Lines
      /\ ln_no' \in 0..(Lines - 1) /\ Lines - 1 - ln_no' < ScrollLines
  BY ShowEndShows DEF Lines
<1>2. Used' = Used /\ ScrollLines \in Nat
  BY <1>1, ViewAssumption DEF table, Used
<1>. QED
  BY <1>1, <1>2 DEF EofInv

LEMMA GoToEofEof == ASSUME TInv, IInv, KnownInv, GoToEof PROVE EofInv'
<1>1. TypeOK /\ pc = "prompt" /\ file' = file /\ Lines' = Lines
  BY DEF TInv, GoToEof, Lines
<1>2. CASE ~(Lines > 0)
  BY <1>1, <1>2 DEF EofInv
<1>3. CASE Lines > 0 /\ pc' \in {"sync", "wild"}
  BY <1>3 DEF EofInv
<1>4. ASSUME Lines > 0, Entry(ln_no) \in {Size[file], Wild}, ShowEnd(ln_no) PROVE EofInv'
  <2>1. CASE Entry(ln_no) = Size[file]
    <3>1. ln_no = Lines /\ Used = Lines
      BY <1>1, <2>1, SizeIsEnd
    <3>. QED
      BY <1>1, <1>4, <3>1, EofFromShowEnd
  <2>2. CASE Entry(ln_no) = Wild
    <3>1. ln_no = -1
      BY <1>1, <1>4, <2>2 DEF KnownInv, LineKnown
    <3>. QED
      BY <1>1, <1>4, <3>1, ShowEndLost DEF EofInv
  <2>. QED
    BY <1>4, <2>1, <2>2
<1>5. ASSUME Lines > 0, Entry(ln_tbl_cnt) = Size[file], ShowEnd(ln_tbl_cnt) PROVE EofInv'
  <2>1. ln_tbl_cnt = Lines /\ Used = Lines
    BY <1>1, <1>5, SizeIsEnd
  <2>. QED
    BY <1>1, <1>5, <2>1, EofFromShowEnd
<1>. QED
  BY <1>2, <1>3, <1>4, <1>5 DEF GoToEof, GoesWild

LEMMA CommandEof == ASSUME TInv, IInv, KnownInv, Command PROVE EofInv'
<1>1. ~GoToEof => eof' = FALSE
  BY DEF Command, Down, Up, GoToLine, GoToPercent, NPage, PPage, Redisplay, SetMark, GoToMark,
         Open, Quit
<1>2. CASE ~GoToEof
  BY <1>1, <1>2 DEF EofInv
<1>. QED
  BY <1>2, GoToEofEof

LEMMA DisplayLineEof ==
  ASSUME TInv, IInv, IInv', EofInv, DisplayLine
  PROVE  EofInv'
<1>. SUFFICES ASSUME eof', Lines' > 0 PROVE EofInv'
  BY DEF EofInv
<1>1. /\ TypeOK /\ cury \in Nat /\ cury < ScrollLines /\ cury \in Row /\ ScrollLines \in Nat
      /\ file' = file /\ Lines' = Lines /\ Lines \in Nat /\ eof /\ pc = "display" /\ Lines > 0
  BY RowFacts, LinesFact DEF TInv, TypeOK, LoopType, DisplayLine, Row, Lines
<1>2. /\ SomeLine(ln_no) /\ GetLine(ln_no) /\ Draw(ln_no, cury) /\ cury' = cury + 1
      /\ pc' \in {"display", "prompt"}
      /\ pc' = "display" => ln_no' = ln_no + 1
      /\ pc' = "prompt" => ~(cury + 1 < ScrollLines)
  BY DEF DisplayLine, Prompt
<1>3. Used = Lines
  BY <1>1 DEF EofInv
<1>4. Used' = Lines
  BY <1>1, <1>2, <1>3, GetLineKeeps, StaysWhole
<1>5. /\ screen'[cury] = [no |-> ln_no, pos |-> Entry(ln_no)]
      /\ \A q \in Row : q # cury => screen'[q] = screen[q]
  BY <1>1, <1>2, DrawRows
<1>6. CASE \E r \in Row : r < cury /\ LastLine(r)
  <2>1. PICK r \in Row : r < cury /\ LastLine(r)
    BY <1>6
  <2>2. LastLine(r)'
    <3>1. r # cury
      BY <1>1, <2>1, RowFacts
    <3>. QED
      BY <1>1, <1>5, <2>1, <3>1 DEF LastLine
  <2>3. r < cury'
    BY <1>1, <1>2, <2>1, RowFacts
  <2>. QED
    BY <1>1, <1>2, <1>4, <2>2, <2>3 DEF EofInv, Row
<1>7. CASE ln_no \in 0..(Lines - 1) /\ Lines - 1 - ln_no < ScrollLines - cury
  <2>1. CASE ln_no = Lines - 1
    <3>1. Entry(ln_no) = LineStart(file, Lines - 1)
      BY <1>1, <1>3, <2>1, EntryIs
    <3>2. screen'[cury] = [no |-> Lines - 1, pos |-> LineStart(file, Lines - 1)]
      BY <1>5, <2>1, <3>1
    <3>3. cury < cury'
      BY <1>1, <1>2
    <3>4. \E r \in Row : r < cury' /\ screen'[r] = [no |-> Lines' - 1, pos |-> LineStart(file', Lines' - 1)]
      BY <1>1, <3>2, <3>3
    <3>5. Used' = Lines'
      BY <1>1, <1>4
    <3>. QED
      BY <1>2, <3>4, <3>5 DEF EofInv, LastLine
  <2>2. CASE ln_no # Lines - 1
    <3>1. cury + 1 < ScrollLines /\ pc' = "display" /\ ln_no' = ln_no + 1
      BY <1>1, <1>2, <1>7, <2>2
    <3>2. ln_no' \in 0..(Lines - 1) /\ Lines - 1 - ln_no' < ScrollLines - cury'
      BY <1>1, <1>2, <1>7, <2>2, <3>1
    <3>. QED
      BY <1>1, <1>4, <3>1, <3>2 DEF EofInv
  <2>. QED
    BY <2>1, <2>2
<1>. QED
  BY <1>1, <1>6, <1>7 DEF EofInv

LEMMA DisplayEodEof ==
  ASSUME TInv, IInv, EofInv, DisplayEod
  PROVE  EofInv'
<1>. SUFFICES ASSUME eof', Lines' > 0 PROVE EofInv'
  BY DEF EofInv
<1>1. /\ TypeOK /\ file' = file /\ Lines' = Lines /\ Lines \in Nat /\ eof /\ pc = "display"
      /\ Lines > 0 /\ NoLine(ln_no) /\ pc' = "prompt"
      /\ screen' = [r \in Row |-> IF r < cury THEN screen[r] ELSE Blank]
  BY LinesFact DEF TInv, DisplayEod, Prompt, Lines
<1>2. ln_no = Lines
  BY <1>1, NoLineIsEnd
<1>3. PICK r \in Row : r < cury /\ LastLine(r)
  BY <1>1, <1>2 DEF EofInv
<1>4. LastLine(r)'
  BY <1>1, <1>3 DEF LastLine
<1>. QED
  BY <1>1, <1>4 DEF EofInv, Row

LEMMA SyncEndEof ==
  ASSUME TInv, IInv, SyncEnd
  PROVE  EofInv'
<1>1. /\ TypeOK /\ file' = file /\ Lines' = Lines /\ Lines \in Nat /\ pc = "sync"
      /\ ShowEnd(ln_no) /\ (ln_max_pos >= Size[file] \/ ~HasEnd(file, file_pos))
  BY LinesFact DEF TInv, SyncEnd, Lines
<1>2. CASE Lines > 0
  <2>1. ln_max_pos > 0 /\ ln_no = ln_tbl_cnt /\ file_pos = ln_max_pos
    BY <1>1, <1>2 DEF IInv, FirstPage, SyncAtEnd, TableType, Lines
  <2>2. ln_no = Used /\ Used \in Line(file) /\ ln_max_pos = LineStart(file, Used)
    BY <2>1 DEF Used, IInv, TableFilled
  <2>3. Used = Lines
    BY <1>1, <2>1, <2>2, LastStart, LinesFact
  <2>. QED
    BY <1>1, <1>2, <2>2, <2>3, EofFromShowEnd
<1>. QED
  BY <1>1, <1>2 DEF EofInv

LEMMA LoopEof ==
  ASSUME TInv, IInv, IInv', EofInv, Loop
  PROVE  EofInv'
<1>1. CASE \/ DownLine \/ DownEnd \/ DownWild \/ UpLine \/ UpEod \/ UpWild
  <2>1. pc \in {"down", "up"} /\ file' = file /\ eof' = eof /\ Lines' = Lines
    BY <1>1 DEF DownLine, DownEnd, DownWild, UpLine, UpEod, UpWild, Lines
  <2>. QED
    BY <2>1 DEF EofInv
<1>2. CASE DisplayWild \/ SyncLine
  <2>1. pc' \in {"wild", "sync"}
    BY <1>2 DEF DisplayWild, GoesWild, SyncLine
  <2>. QED
    BY <2>1 DEF EofInv
<1>. QED
  BY <1>1, <1>2, DisplayLineEof, DisplayEodEof, SyncEndEof DEF Loop

\* Behind 'G' the page shows the last line that has an end (go_to_eof, sync_ln), however
\* much of the file was read before and wherever the page was.
THEOREM EofCorrect == ASSUME FirstLineFits PROVE Spec => []EofShown
<1>1. Init => KnownInv /\ EofInv
  BY DEF Init, KnownInv, EofInv
<1>2. /\ TInv /\ IInv /\ KnownInv /\ EofInv /\ [Next]_vars
      => TInv' /\ IInv' /\ KnownInv' /\ EofInv'
  <2>. SUFFICES ASSUME TInv, IInv, KnownInv, EofInv, [Next]_vars, TInv', IInv'
                PROVE  KnownInv' /\ EofInv'
    BY NextTInv, NextInv
  <2>1. CASE UNCHANGED vars
    BY <2>1 DEF vars, table, page, KnownInv, EofInv, LineKnown, Entry, Lines, Used, LastLine, Row
  <2>. QED
    BY <2>1, CommandKnown, LoopKnown, CommandEof, LoopEof DEF Next, Ended
<1>3. TInv /\ EofInv => EofShown
  <2>. SUFFICES ASSUME TInv, EofInv, pc = "prompt", eof, Len(Ends[file]) - 1 >= 0
                PROVE  \E r \in Row : LastLine(r)
    BY DEF EofShown, LastLine, Lines
  <2>1. Lines > 0
    BY LinesFact DEF TInv, Lines
  <2>. QED
    BY <2>1 DEF EofInv
<1>. QED
  BY <1>1, <1>2, <1>3, InitInv, InitTInv, PTL DEF Spec
-----------------------------------------------------------------------------
(* The command line: what the editors keep. *)

Texts == Seq(Char \cup {Space, Nul})

\* Behind the field of an argument, of L columns, there is nothing.
Fits(buf, L) == buf \in Buffers /\ \A i \in Place : i >= L => buf[i] = Nul

FieldCols == FieldLens \cup {0}

EditorType == [buf : Buffers, p : Nat, end : Nat, insert : BOOLEAN, flen : FieldCols]

EditorOK(ed, L) ==
    /\ ed \in EditorType /\ Fits(ed.buf, L)
    /\ ed.p <= L /\ ed.end <= L /\ ed.flen <= L

LEMMA EditFacts ==
  /\ BufferLen \in Nat /\ 0 \in Place
  /\ \A i \in Place : i \in Nat
  /\ \A i \in FieldCols : i \in Nat
  BY EditAssumption DEF Place, FieldCols

\* A terminator is found where the field ends, or at once behind it, if there is one.
LEMMA TerminatorFound ==
  ASSUME NEW L \in Nat, NEW buf, Fits(buf, L), NEW i \in Nat, EndsBehind(buf, i)
  PROVE  /\ Terminator(buf, i) \in Nat /\ Terminator(buf, i) >= i
         /\ Terminator(buf, i) <= L \/ Terminator(buf, i) = i
         /\ Terminator(buf, i) \in Place
<1> DEFINE S == {z \in Place : z >= i /\ buf[z] = Nul}
           Is(z) == z \in Place /\ z >= i /\ buf[z] = Nul
                    /\ \A y \in Place : y >= i /\ buf[y] = Nul => z <= y
<1>1. S \in SUBSET Nat /\ S # {}
  BY EditFacts DEF EndsBehind
<1>2. PICK w \in S : \A y \in S : w <= y
  BY <1>1, NatMin
<1>3. Is(w)
  BY <1>2
<1>4. Terminator(buf, i) = CHOOSE z \in Place : z >= i /\ buf[z] = Nul
                         /\ \A y \in Place : y >= i /\ buf[y] = Nul => z <= y
  BY DEF Terminator
<1>5. Is(Terminator(buf, i))
  BY <1>3, <1>4
<1>6. Terminator(buf, i) <= L \/ Terminator(buf, i) <= i
  <2> DEFINE y == IF L >= i THEN L ELSE i
             t == Terminator(buf, i)
  <2>1. t \in 0..BufferLen /\ BufferLen \in Nat /\ t \in Nat
    BY <1>5, EditFacts DEF Place
  <2>2. ASSUME ~(t <= L), ~(t <= i) PROVE FALSE
    <3>1. y \in Place /\ y >= L /\ y >= i /\ y < t
      BY <2>1, <2>2 DEF Place
    <3>2. buf[y] = Nul
      BY <3>1 DEF Fits
    <3>3. t <= y
      BY <1>5, <3>1, <3>2
    <3> HIDE DEF y, t
    <3> QED
      BY <2>1, <3>1, <3>3, EditFacts
  <2> QED
    BY <2>2
<1> HIDE DEF Is
<1>7. Terminator(buf, i) \in Place /\ Terminator(buf, i) >= i
  BY <1>5 DEF Is
<1>8. Terminator(buf, i) \in Nat
  BY <1>7, EditFacts
<1> HIDE DEF S
<1> QED
  BY <1>6, <1>7, <1>8

LEMMA EditingOK ==
  ASSUME NEW L \in Nat, NEW buf, Fits(buf, L), EndsBehind(buf, 0), NEW flen \in FieldCols,
         flen <= L
  PROVE  EditorOK(Editing(buf, flen), L) /\ InBuffer(Editing(buf, flen))
<1>1. /\ Terminator(buf, 0) \in Nat /\ Terminator(buf, 0) <= L
      /\ Terminator(buf, 0) \in Place
  BY TerminatorFound
<1>2. buf \in Buffers
  BY DEF Fits
<1> QED
  BY <1>1, <1>2, EditFacts DEF Editing, EditorOK, EditorType, InBuffer

LEMMA CutOutOK ==
  ASSUME NEW L \in Nat, NEW ed, EditorOK(ed, L), NEW i \in 0..L, EndsBehind(ed.buf, i + 1)
  PROVE  EditorOK(CutOut(ed, i), L)
<1> DEFINE z == Terminator(ed.buf, i + 1)
           b == [j \in Place |-> IF j \in i..(z - 2) THEN ed.buf[j + 1]
                                 ELSE IF j = z - 1 THEN Nul ELSE ed.buf[j]]
<1>1. Fits(ed.buf, L) /\ i + 1 \in Nat /\ ed \in EditorType /\ ed.buf \in Buffers
  BY DEF EditorOK, Fits
<1>2. z \in Nat /\ z >= i + 1 /\ (z <= L \/ z = i + 1) /\ z \in Place
  BY <1>1, TerminatorFound
<1>3. z - 1 \in Nat /\ z - 1 <= L
  BY <1>2
<1>4. CutOut(ed, i) = [ed EXCEPT !.buf = b, !.end = z - 1]
  BY DEF CutOut
<1> HIDE DEF z
<1>5. b \in Buffers
  <2>1. \A j \in Place : j \in i..(z - 2) => j + 1 \in Place
    BY <1>2, EditFacts DEF Place
  <2>2. \A j \in Place : ed.buf[j] \in Char \cup {Space, Nul}
    BY <1>1 DEF Buffers
  <2> QED
    BY <2>1, <2>2 DEF Buffers
<1>6. Fits(b, L)
  <2>1. ASSUME NEW j \in Place, j >= L PROVE b[j] = Nul
    <3>1. ~(j \in i..(z - 2))
      BY <1>2, <2>1, EditFacts
    <3>2. ed.buf[j] = Nul
      BY <1>1, <2>1 DEF Fits
    <3> QED
      BY <3>1, <3>2
  <2> QED
    BY <1>5, <2>1 DEF Fits
<1> HIDE DEF b
<1> QED
  BY <1>1, <1>3, <1>4, <1>5, <1>6 DEF EditorOK, EditorType

LEMMA OneWritten ==
  ASSUME NEW L \in Nat, NEW buf, Fits(buf, L), NEW i \in Nat, NEW c \in Char \cup {Space, Nul},
         i < L \/ c = Nul
  PROVE  Fits([buf EXCEPT ![i] = c], L)
<1> DEFINE b == [buf EXCEPT ![i] = c]
<1>1. b \in Buffers
  BY DEF Fits, Buffers
<1>2. ASSUME NEW j \in Place, j >= L PROVE b[j] = Nul
  BY <1>2, EditFacts DEF Fits, Buffers
<1> QED
  BY <1>1, <1>2 DEF Fits

LEMMA EditorChanged ==
  ASSUME NEW L \in Nat, NEW ed, EditorOK(ed, L), NEW b, Fits(b, L), NEW p \in 0..L,
         NEW end \in 0..L
  PROVE  /\ EditorOK([ed EXCEPT !.buf = b, !.p = p, !.end = end], L)
         /\ EditorOK([ed EXCEPT !.buf = b, !.p = p], L)
<1> DEFINE x == [ed EXCEPT !.buf = b, !.p = p, !.end = end]
           y == [ed EXCEPT !.buf = b, !.p = p]
<1>1. ed \in EditorType /\ b \in Buffers /\ p \in Nat /\ end \in Nat
  BY DEF EditorOK, Fits
<1>2. x \in EditorType /\ y \in EditorType
  BY <1>1 DEF EditorType
<1>3. /\ x.buf = b /\ x.p = p /\ x.end = end /\ x.flen = ed.flen
      /\ y.buf = b /\ y.p = p /\ y.end = ed.end /\ y.flen = ed.flen
  BY <1>1 DEF EditorType
<1> HIDE DEF x, y
<1>4. EditorOK(x, L)
  BY <1>2, <1>3 DEF EditorOK
<1>5. EditorOK(y, L)
  BY <1>2, <1>3 DEF EditorOK
<1> QED
  BY <1>4, <1>5 DEF x, y

LEMMA TypedOK ==
  ASSUME NEW L \in Nat, NEW ed, EditorOK(ed, L), NEW c \in Char \cup {Space},
         EndsBehind(ed.buf, TypedFrom(ed, c))
  PROVE  EditorOK(Typed(ed, c), L)
<1>1. /\ ed \in EditorType /\ Fits(ed.buf, L) /\ ed.p \in 0..L /\ ed.end \in 0..L
      /\ ed.flen \in 0..L /\ ed.buf \in Buffers /\ c \in Char \cup {Space, Nul}
  BY EditFacts DEF EditorOK, EditorType
<1>2. CASE ed.p >= ed.flen
  BY <1>2 DEF Typed
<1>3. ASSUME ed.p < ed.flen PROVE EditorOK(Insert(ed, c), L)
  <2> DEFINE b == [j \in Place |-> IF j = ed.p THEN c
                                   ELSE IF j \in (ed.p + 1)..ed.end
                                   THEN ed.buf[j - 1] ELSE ed.buf[j]]
  <2>1. CASE ed.end >= ed.flen
    BY <2>1 DEF Insert
  <2>2. CASE ~(ed.end >= ed.flen)
    <3>1. Insert(ed, c) = [ed EXCEPT !.buf = b, !.p = ed.p + 1, !.end = ed.end + 1]
      BY <2>2 DEF Insert
    <3>2. b \in Buffers
      <4>1. \A j \in Place : j \in (ed.p + 1)..ed.end => j - 1 \in Place
        BY <1>1, EditFacts DEF Place
      <4>2. \A j \in Place : ed.buf[j] \in Char \cup {Space, Nul}
        BY <1>1 DEF Buffers
      <4> QED
        BY <1>1, <4>1, <4>2 DEF Buffers
    <3>3. Fits(b, L)
      <4>1. ASSUME NEW j \in Place, j >= L PROVE b[j] = Nul
        <5>1. j # ed.p /\ ~(j \in (ed.p + 1)..ed.end)
          BY <1>1, <1>3, <2>2, <4>1, EditFacts
        <5>2. ed.buf[j] = Nul
          BY <1>1, <4>1 DEF Fits
        <5> QED
          BY <5>1, <5>2
      <4> QED
        BY <3>2, <4>1 DEF Fits
    <3>4. ed.p + 1 \in 0..L /\ ed.end + 1 \in 0..L
      BY <1>1, <1>3, <2>2
    <3> DEFINE p == ed.p + 1
               end == ed.end + 1
    <3> HIDE DEF b, p, end
    <3>5. EditorOK([ed EXCEPT !.buf = b, !.p = p, !.end = end], L)
      <4>1. p \in 0..L /\ end \in 0..L
        BY <3>4 DEF p, end
      <4> QED
        BY <3>3, <4>1, EditorChanged, Zenon
    <3> QED
      BY <3>1, <3>5 DEF p, end
  <2> QED
    BY <2>1, <2>2
<1>4. ASSUME ed.p < ed.flen, ~ed.insert, ed.p < ed.end PROVE EditorOK(Overwrite(ed, c), L)
  <2>1. CASE ed.p = 0 /\ c = Space
    <3> DEFINE b == CutOut(ed, 0).buf
    <3>1. EditorOK(CutOut(ed, 0), L)
      <4>1. EndsBehind(ed.buf, 0 + 1)
        BY <1>4, <2>1 DEF TypedFrom
      <4> QED
        BY <4>1, CutOutOK
    <3>2. b \in Buffers /\ Fits(b, L)
      BY <3>1 DEF EditorOK, EditorType
    <3>3. Overwrite(ed, c) = [ed EXCEPT !.buf = b]
      BY <2>1 DEF Overwrite
    <3> HIDE DEF b
    <3> QED
      BY <1>1, <3>2, <3>3 DEF EditorOK, EditorType
  <2>2. CASE ~(ed.p = 0 /\ c = Space)
    <3> DEFINE b == [ed.buf EXCEPT ![ed.p] = c]
    <3>1. Overwrite(ed, c) = [ed EXCEPT !.buf = b, !.p = ed.p + 1]
      BY <1>1, <2>2 DEF Overwrite, EditorType
    <3>2. Fits(b, L)
      BY <1>1, <1>4, OneWritten
    <3>3. ed.p + 1 \in 0..L
      BY <1>1, <1>4
    <3> DEFINE p == ed.p + 1
    <3> HIDE DEF b, p
    <3>4. EditorOK([ed EXCEPT !.buf = b, !.p = p], L)
      <4>1. p \in 0..L /\ ed.end \in 0..L
        BY <1>1, <3>3 DEF p
      <4> QED
        BY <3>2, <4>1, EditorChanged, Zenon
    <3> QED
      BY <3>1, <3>4 DEF p
  <2> QED
    BY <2>1, <2>2
<1>5. ASSUME ed.p < ed.flen PROVE EditorOK(AtEnd(ed, c), L)
  <2> DEFINE a == [ed.buf EXCEPT ![ed.p] = c]
             b == [a EXCEPT ![ed.p + 1] = Nul]
             d == [j \in Place |-> IF j = ed.p THEN c
                                   ELSE IF j = ed.p + 1 THEN Nul ELSE ed.buf[j]]
  <2>1. AtEnd(ed, c) = [ed EXCEPT !.buf = d, !.p = ed.p + 1, !.end = ed.p + 1]
    BY DEF AtEnd
  <2>2. d = b
    <3>1. DOMAIN ed.buf = Place
      BY <1>1 DEF Buffers
    <3>2. DOMAIN b = Place /\ \A j \in Place : b[j] = d[j]
      BY <1>1, <3>1, EditFacts
    <3> QED
      BY <3>1, <3>2
  <2>3. Fits(a, L)
    BY <1>1, <1>5, OneWritten
  <2> HIDE DEF a, d
  <2>4. Fits(b, L)
    <3>1. ed.p + 1 \in Nat
      BY <1>1
    <3> QED
      BY <2>3, <3>1, OneWritten
  <2>5. ed.p + 1 \in 0..L
    BY <1>1, <1>5
  <2> DEFINE p == ed.p + 1
  <2> HIDE DEF b, p
  <2>6. EditorOK([ed EXCEPT !.buf = b, !.p = p, !.end = p], L)
    <3>1. p \in 0..L
      BY <2>5 DEF p
    <3> QED
      BY <2>4, <3>1, EditorChanged, Zenon
  <2> QED
    BY <2>1, <2>2, <2>6 DEF p
<1> QED
  BY <1>1, <1>2, <1>3, <1>4, <1>5 DEF Typed

LEMMA EditedOK ==
  ASSUME NEW L \in Nat, NEW ed, EditorOK(ed, L), NEW k \in EditKey,
         EndsBehind(ed.buf, LooksFrom(ed, k))
  PROVE  EditorOK(Edited(ed, k), L)
<1>1. /\ ed \in EditorType /\ Fits(ed.buf, L) /\ ed.p \in 0..L /\ ed.end \in 0..L
      /\ ed.flen \in 0..L /\ ed.buf \in Buffers /\ ed.insert \in BOOLEAN
  BY EditFacts DEF EditorOK, EditorType
<1>2. ASSUME NEW at \in 0..L PROVE EditorOK([ed EXCEPT !.p = at], L)
  BY <1>1 DEF EditorOK, EditorType
<1>3. CASE k = "end"
  <2>1. EndsBehind(ed.buf, ed.p)
    BY <1>3 DEF LooksFrom
  <2>2. Terminator(ed.buf, ed.p) \in 0..L
    BY <1>1, <2>1, TerminatorFound
  <2> QED
    BY <1>2, <1>3, <2>2 DEF Edited
<1>4. CASE k = "home"
  BY <1>2, <1>4 DEF Edited
<1>5. CASE k = "insert"
  <2>1. Edited(ed, k) = [ed EXCEPT !.insert = ~ed.insert]
    BY <1>5 DEF Edited
  <2> QED
    BY <1>1, <2>1 DEF EditorOK, EditorType
<1>6. CASE k = "delete"
  <2>1. EndsBehind(ed.buf, ed.p + 1)
    BY <1>6 DEF LooksFrom
  <2>2. EditorOK(CutOut(ed, ed.p), L)
    BY <1>1, <2>1, CutOutOK
  <2>3. Edited(ed, k) = [CutOut(ed, ed.p) EXCEPT !.insert = FALSE]
    BY <1>6 DEF Edited, Delete
  <2> QED
    BY <2>2, <2>3 DEF EditorOK, EditorType
<1>7. CASE k = "backspace"
  <2> DEFINE at == IF ed.p > 0 THEN ed.p - 1 ELSE ed.p
  <2>1. at \in 0..L /\ EndsBehind(ed.buf, at + 1)
    BY <1>1, <1>7 DEF LooksFrom
  <2>2. Edited(ed, k) = [CutOut(ed, at) EXCEPT !.p = at]
    BY <1>7 DEF Edited, Backspace
  <2> HIDE DEF at
  <2>3. EditorOK(CutOut(ed, at), L)
    BY <2>1, CutOutOK
  <2> QED
    BY <2>1, <2>2, <2>3 DEF EditorOK, EditorType
<1>8. CASE k = "left"
  <2> DEFINE at == IF ed.p > 0 THEN ed.p - 1 ELSE ed.p
  <2>1. at \in 0..L /\ Edited(ed, k) = [ed EXCEPT !.p = at]
    BY <1>1, <1>8 DEF Edited
  <2> QED
    BY <1>2, <2>1
<1>9. CASE k = "right"
  <2> DEFINE at == IF ed.p < ed.flen /\ ed.p < ed.end THEN ed.p + 1 ELSE ed.p
  <2>1. at \in 0..L /\ Edited(ed, k) = [ed EXCEPT !.p = at]
    BY <1>1, <1>9 DEF Edited
  <2> QED
    BY <1>2, <2>1
<1> QED
  BY <1>3, <1>4, <1>5, <1>6, <1>7, <1>8, <1>9 DEF EditKey

LEMMA AcceptedOK ==
  ASSUME NEW L \in Nat, NEW ed, EditorOK(ed, L), InBuffer(ed)
  PROVE  Fits(Accepted(ed), L) /\ EndsBehind(Accepted(ed), 0)
<1>1. Fits(ed.buf, L) /\ ed.p \in Place /\ ed.p \in Nat /\ ed.buf \in Buffers
  BY EditFacts DEF EditorOK, EditorType, InBuffer
<1>2. Accepted(ed)[ed.p] = Nul
  BY <1>1 DEF Accepted, Buffers
<1>3. EndsBehind(Accepted(ed), 0)
  BY <1>1, <1>2 DEF EndsBehind
<1> QED
  BY <1>1, <1>3, OneWritten DEF Accepted

LEMMA TextType ==
  ASSUME NEW L \in Nat, NEW buf, Fits(buf, L), EndsBehind(buf, 0)
  PROVE  Text(buf) \in Texts
<1>1. Terminator(buf, 0) \in Nat /\ Terminator(buf, 0) \in Place
  BY TerminatorFound
<1>2. \A i \in 1..Terminator(buf, 0) : buf[i - 1] \in Char \cup {Space, Nul}
  BY <1>1, EditFacts DEF Fits, Buffers, Place
<1> QED
  BY <1>1, <1>2 DEF Text, Texts

\* The digits in front of a command make a number.
LEMMA NumberIsNat ==
  ASSUME NEW m, m.digits \in Seq(Digit)
  PROVE  NumberOf(m) \in Nat
<1> DEFINE q == m.digits
           n == Len(q)
           Step(a, d) == 10 * a + d
           G == [p \in Nat \X Digit |-> Step(p[1], p[2])]
           E(g) == [s \in SUBSET DOMAIN q |->
                        IF s = {} THEN 0 ELSE Step(g[s \ {Max(s)}], q[Max(s)])]
           f == CHOOSE g : g = E(g)
<1>1. \A a \in Nat, d \in Digit : Step(a, d) \in Nat
  BY EditAssumption
<1>2. DOMAIN q = 1..n /\ n \in Nat /\ \A j \in 1..n : q[j] \in Digit
  OBVIOUS
<1> HIDE DEF Step
<1>3. G \in [Nat \X Digit -> Nat] /\ \A a \in Nat, d \in Digit : G[<<a, d>>] = Step(a, d)
  BY <1>1
<1> HIDE DEF G
<1>4. PICK g \in [SUBSET (1..n) -> Nat] : Folds(g, G, 0, q, n)
  BY <1>3, FoldExists
<1>5. g = E(g)
  <2>1. \A s \in SUBSET (1..n) :
            g[s] = IF s = {} THEN 0 ELSE Step(g[s \ {Max(s)}], q[Max(s)])
    <3> SUFFICES ASSUME NEW s \in SUBSET (1..n), s # {}
                 PROVE  g[s] = Step(g[s \ {Max(s)}], q[Max(s)])
      BY <1>4 DEF Folds
    <3>1. s \ {Max(s)} \in SUBSET (1..n) /\ Max(s) \in 1..n
      BY <1>2, MaxIn
    <3>2. g[s] = G[<<g[s \ {Max(s)}], q[Max(s)]>>]
      BY <1>4 DEF Folds
    <3> QED
      BY <1>2, <1>3, <3>1, <3>2
  <2> QED
    BY <1>2, <2>1
<1>6. f = E(f)
  <2> HIDE DEF E
  <2> QED
    BY <1>5, Zenon
<1> HIDE DEF f
<1>7. f[{}] = 0 /\ \A s \in SUBSET (1..n) : s # {} =>
          f[s] = Step(f[s \ {Max(s)}], q[Max(s)])
  BY <1>2, <1>6
<1>8. \A s \in SUBSET (1..n) : s # {} /\ f[s \ {Max(s)}] \in Nat => f[s] \in Nat
  <2> SUFFICES ASSUME NEW s \in SUBSET (1..n), s # {}, f[s \ {Max(s)}] \in Nat
               PROVE  f[s] \in Nat
    OBVIOUS
  <2>1. q[Max(s)] \in Digit
    BY <1>2, MaxIn
  <2> QED
    BY <1>1, <1>7, <2>1, Zenon
<1>9. \A s \in SUBSET (1..n) : f[s] \in Nat
  <2>1. f[{}] \in Nat
    BY <1>7
  <2> HIDE DEF n
  <2> QED
    BY <1>2, <1>8, <2>1, FoldType, Zenon
<1>10. NumberOf(m) = f[DOMAIN q]
  BY DEF NumberOf, FoldLeft, MapThenFoldSet, f, E, Step
<1> QED
  BY <1>2, <1>9, <1>10

NumberRight(m) ==
  /\ m \in [digits : Seq(Digit), at : Nat]
  /\ Len(m.digits) <= MaxDigits /\ m.at \in 0..Len(m.digits)

LEMMA RemoveFacts ==
  ASSUME NEW S, NEW q \in Seq(S), NEW i \in 1..Len(q)
  PROVE  RemoveAt(q, i) \in Seq(S) /\ Len(RemoveAt(q, i)) = Len(q) - 1
<1> DEFINE a == SubSeq(q, 1, i - 1)
           b == SubSeq(q, i + 1, Len(q))
<1>1. a \in Seq(S) /\ Len(a) = i - 1
  OBVIOUS
<1>2. b \in Seq(S) /\ Len(b) = Len(q) - i
  OBVIOUS
<1>3. RemoveAt(q, i) = a \o b
  BY DEF RemoveAt
<1> HIDE DEF a, b
<1>4. a \o b \in Seq(S) /\ Len(a \o b) = Len(q) - 1
  BY <1>1, <1>2
<1> QED
  BY <1>3, <1>4

LEMMA NoDigitsRight == NumberRight(NoDigits)
  BY EditAssumption DEF NumberRight, NoDigits

LEMMA TypeDigitRight ==
  ASSUME NEW m, NumberRight(m), m.at < MaxDigits, NEW d \in Digit
  PROVE  NumberRight(TypeDigit(m, d))
<1> DEFINE q == m.digits
           s == SubSeq(q, 1, m.at)
<1>1. q \in Seq(Digit) /\ m.at \in 0..Len(q) /\ m.at \in Nat /\ MaxDigits \in Nat
  BY EditAssumption DEF NumberRight
<1>2. s \in Seq(Digit) /\ Len(s) = m.at
  BY <1>1
<1>3. TypeDigit(m, d) = [digits |-> Append(s, d), at |-> m.at + 1]
  BY DEF TypeDigit
<1> HIDE DEF s
<1>4. Append(s, d) \in Seq(Digit) /\ Len(Append(s, d)) = m.at + 1
  BY <1>2
<1> QED
  BY <1>1, <1>3, <1>4 DEF NumberRight

LEMMA DigitEditedRight ==
  ASSUME NEW m, NumberRight(m), NEW k \in DigitKey
  PROVE  NumberRight(DigitEdited(m, k))
<1> DEFINE q == m.digits
<1>1. q \in Seq(Digit) /\ m.at \in 0..Len(q) /\ m.at \in Nat /\ MaxDigits \in Nat
      /\ Len(q) <= MaxDigits /\ Len(q) \in Nat /\ m = [digits |-> q, at |-> m.at]
  BY EditAssumption DEF NumberRight
<1>2. CASE k = "backspace" /\ m.at # 0
  <2>1. DigitEdited(m, k) = [digits |-> RemoveAt(q, m.at), at |-> m.at - 1]
    BY <1>2 DEF DigitEdited
  <2>2. RemoveAt(q, m.at) \in Seq(Digit) /\ Len(RemoveAt(q, m.at)) = Len(q) - 1
    BY <1>1, <1>2, RemoveFacts
  <2> QED
    BY <1>1, <1>2, <2>1, <2>2 DEF NumberRight
<1>3. CASE k = "delete" /\ m.at < Len(q)
  <2>1. DigitEdited(m, k) = [digits |-> RemoveAt(q, m.at + 1), at |-> m.at]
    BY <1>1, <1>3 DEF DigitEdited
  <2>2. RemoveAt(q, m.at + 1) \in Seq(Digit) /\ Len(RemoveAt(q, m.at + 1)) = Len(q) - 1
    BY <1>1, <1>3, RemoveFacts
  <2> QED
    BY <1>1, <1>3, <2>1, <2>2 DEF NumberRight
<1>4. CASE k = "sright"
  <2>1. DigitEdited(m, k) = [digits |-> q, at |-> IF m.at < Len(q) THEN m.at + 1 ELSE m.at]
    BY <1>1, <1>4 DEF DigitEdited
  <2> QED
    BY <1>1, <2>1 DEF NumberRight
<1>5. CASE k = "sleft"
  <2>1. DigitEdited(m, k) = [digits |-> q, at |-> IF m.at > 0 THEN m.at - 1 ELSE m.at]
    BY <1>1, <1>5 DEF DigitEdited
  <2> QED
    BY <1>1, <2>1 DEF NumberRight
<1>6. CASE (k = "backspace" /\ m.at = 0) \/ (k = "delete" /\ ~(m.at < Len(q)))
  BY <1>1, <1>6 DEF DigitEdited
<1> QED
  BY <1>2, <1>3, <1>4, <1>5, <1>6 DEF DigitKey

-----------------------------------------------------------------------------
(* The types of the search. *)

Shown == Nat \cup {Other}

SearchRecord ==
    [curr : Nat, first : BOOLEAN, complete : BOOLEAN, pattern : Texts, f_page : BOOLEAN,
     line : Shown]

Asked == [ed : EditorType, for : {"none", "/", "other"}, longest : FieldCols]

ArgumentOK(a) == a \in Asked /\ EditorOK(a.ed, a.longest) /\ InBuffer(a.ed)

\* What the keys of the command line, and the search, keep.
TypedInv ==
    /\ NumberRight(num)
    /\ ArgumentOK(arg)
    /\ srch \in SearchRecord
    /\ prev \in Texts
    /\ hist \in [from : Nat, wrapped : BOOLEAN]

SInv == CInv /\ pc \in Places \cup {"argument", "search"} /\ Showing(Shown) /\ TypedInv

LEMMA NoPatternType == NoPattern \in Texts
  BY DEF NoPattern, Texts

LEMMA BlankBuffer ==
  ArgumentOK([ed |-> Editing([i \in Place |-> Nul], 0), for |-> "none", longest |-> 0])
<1> DEFINE buf == [i \in Place |-> Nul]
<1>1. Fits(buf, 0) /\ EndsBehind(buf, 0) /\ 0 \in FieldCols
  BY EditFacts DEF Fits, Buffers, EndsBehind, FieldCols
<1> HIDE DEF buf
<1>2. EditorOK(Editing(buf, 0), 0) /\ InBuffer(Editing(buf, 0))
  BY <1>1, EditingOK
<1> QED
  BY <1>1, <1>2 DEF ArgumentOK, Asked, EditorOK, buf

LEMMA InitSInv == SearchInit => SInv
<1> SUFFICES ASSUME SearchInit PROVE SInv
  OBVIOUS
<1>1. CInv /\ pc \in Places /\ Showing(Nat)
  BY InitTInv, TypeIs DEF SearchInit
<1>2. Showing(Shown)
  BY <1>1 DEF Showing, Shown
<1>3. NumberRight(num)
  BY NoDigitsRight DEF SearchInit
<1>4. ArgumentOK(arg)
  BY BlankBuffer DEF SearchInit
<1>5. srch \in SearchRecord /\ prev \in Texts /\ hist \in [from : Nat, wrapped : BOOLEAN]
  BY NoPatternType DEF SearchInit, NoSearch, NoHistory, SearchRecord, Shown
<1> QED
  BY <1>1, <1>2, <1>3, <1>4, <1>5 DEF SInv, TypedInv

\* The commands are given the number that was typed, or at least one.
LEMMA CountedIs ==
  ASSUME NEW n \in Nat, Counted(n)
  PROVE  \/ \E c \in Nat : c > 0 /\ (Down(c) \/ Up(c))
         \/ \E c \in Nat : GoToLine(c)
         \/ NPage \/ PPage \/ GoToEof \/ Quit
<1>1. AtLeastOne(n) \in Nat /\ AtLeastOne(n) > 0
  BY DEF AtLeastOne
<1> QED
  BY <1>1 DEF Counted

LEMMA SearchCommandType == ASSUME SInv, SearchCommand PROVE SInv'
<1> DEFINE n == NumberOf(num)
<1>1. n \in Nat /\ Counted(n) /\ CInv /\ Showing(Shown)
  BY NumberIsNat DEF SInv, TypedInv, NumberRight, SearchCommand
<1> HIDE DEF n
<1>2. CInv' /\ pc' \in Places
  BY <1>1, CountedIs, DownType, UpType, JumpType, GoToEofType, OtherCommandType
<1>3. Showing(Shown)'
  BY <1>1, CountedIs, CommandShows
<1>4. TypedInv'
  BY NoDigitsRight DEF SearchCommand, SInv, TypedInv
<1> QED
  BY <1>2, <1>3, <1>4 DEF SInv

LEMMA SearchOpenType == ASSUME SInv, SearchOpen PROVE SInv'
<1>1. CInv /\ Showing(Shown) /\ \E f \in File : Open(f)
  BY DEF SInv, SearchOpen
<1>2. CInv' /\ pc' \in Places
  BY <1>1, OtherCommandType
<1>3. Showing(Shown)'
  BY <1>1, CommandShows
<1>4. TypedInv'
  BY NoDigitsRight, NoPatternType DEF SearchOpen, SInv, TypedInv
<1> QED
  BY <1>2, <1>3, <1>4 DEF SInv

\* A step that leaves View where it was but for the cursor, or that goes to a place
\* where no loop runs.
LEMMA CalmType ==
  ASSUME SInv, UNCHANGED <<eof, file, table, ln_no, ln_no_max, file_pos, page_top_ln_no,
                           page_bot_ln_no, screen, page_top_pos, scroll, mark, scrolled>>,
         cury' \in 0..ScrollLines, pc' \in {"prompt", "argument", "search"}
  PROVE  CInv' /\ pc' \in Places \cup {"argument", "search"} /\ Showing(Shown)'
<1>1. Core' /\ LoopType'
  BY DEF SInv, CInv, Core, table, LoopType
<1>2. Showing(Shown)'
  BY SameShows DEF SInv
<1> QED
  BY <1>1, <1>2 DEF CInv, Places

LEMMA AtPromptType ==
  ASSUME SInv, UNCHANGED <<eof, file, table, ln_no, ln_no_max, file_pos, page_top_ln_no,
                           page_bot_ln_no, screen, scroll, mark, scrolled>>,
         cury' \in 0..ScrollLines, Prompt(page_top_pos)
  PROVE  CInv' /\ pc' \in Places \cup {"argument", "search"} /\ Showing(Shown)'
<1>1. TableTyped'
  BY SameTable DEF SInv, CInv
<1>2. pc' = "prompt" /\ page_top_pos' \in Positions
  BY <1>1, PromptType DEF SInv, CInv, Core
<1>3. Core' /\ LoopType'
  BY <1>2 DEF SInv, CInv, Core, table, LoopType
<1>4. Showing(Shown)'
  BY SameShows DEF SInv
<1> QED
  BY <1>2, <1>3, <1>4 DEF CInv, Places

LEMMA CursorType == SInv => cury \in 0..ScrollLines /\ 0 \in 0..ScrollLines
  BY ViewAssumption DEF SInv, CInv, Core

LEMMA DigitsType == ASSUME SInv, DigitTyped \/ DigitsEdited PROVE SInv'
<1>1. NumberRight(num)'
  BY TypeDigitRight, DigitEditedRight DEF DigitTyped, DigitsEdited, SInv, TypedInv
<1>2. TypedInv'
  BY <1>1 DEF DigitTyped, DigitsEdited, SInv, TypedInv
<1>3. /\ UNCHANGED <<eof, file, table, ln_no, ln_no_max, file_pos, page_top_ln_no,
                     page_bot_ln_no, screen, page_top_pos, scroll, mark, scrolled>>
      /\ pc' = "prompt"
  BY DEF DigitTyped, DigitsEdited, vars, page
<1>4. cury' \in 0..ScrollLines
  BY CursorType DEF DigitTyped, DigitsEdited, vars, page
<1> QED
  BY <1>2, <1>3, <1>4, CalmType DEF SInv

LEMMA AskType == ASSUME SInv, AskArgument PROVE SInv'
<1> DEFINE Longest(flen) == IF flen > arg.longest THEN flen ELSE arg.longest
<1>1. PICK c \in {"/", "?", "other"}, flen \in FieldLens :
          /\ arg' = [ed |-> Editing(arg.ed.buf, flen), for |-> IF c = "/" THEN c ELSE "other",
                     longest |-> Longest(flen)]
          /\ srch' = IF c = "other" THEN srch ELSE [srch EXCEPT !.complete = FALSE]
  BY DEF AskArgument
<1> DEFINE L == Longest(flen)
<1>2. /\ L \in FieldCols /\ L \in Nat /\ flen \in FieldCols /\ flen <= L
      /\ Fits(arg.ed.buf, L) /\ EndsBehind(arg.ed.buf, 0)
  BY EditFacts DEF SInv, TypedInv, ArgumentOK, Asked, EditorOK, Fits, InBuffer, FieldCols
<1> HIDE DEF L
<1>3. ArgumentOK(arg')
  <2>1. EditorOK(Editing(arg.ed.buf, flen), L) /\ InBuffer(Editing(arg.ed.buf, flen))
    BY <1>2, EditingOK
  <2>2. PICK command \in {"/", "other"} :
          arg' = [ed |-> Editing(arg.ed.buf, flen), for |-> command, longest |-> L]
    BY <1>1 DEF L
  <2> QED
    BY <1>2, <2>1, <2>2 DEF ArgumentOK, Asked, EditorOK
<1>4. srch' \in SearchRecord
  BY <1>1 DEF SInv, TypedInv, SearchRecord
<1>5. TypedInv'
  BY <1>3, <1>4, NoDigitsRight DEF AskArgument, SInv, TypedInv
<1>6. /\ UNCHANGED <<eof, file, table, ln_no, ln_no_max, file_pos, page_top_ln_no,
                     page_bot_ln_no, screen, page_top_pos, scroll, mark, scrolled>>
      /\ pc' = "argument" /\ cury' \in 0..ScrollLines
  BY CursorType DEF AskArgument, page
<1> QED
  BY <1>5, <1>6, CalmType DEF SInv

\* A step that may go on with anything keeps what there is.
LEMMA LostType ==
  ASSUME SInv, GoesWild, UNCHANGED <<eof, file, mark, searching>>
  PROVE  SInv'
<1>1. Core /\ RestTyped
  BY DEF SInv, CInv, Core, RestTyped
<1>2. TableTyped' /\ PageTyped' /\ LoopType' /\ file_pos' \in Nat /\ ln_no_max' \in Int
  BY <1>1, WildType
<1>3. RestTyped'
  BY <1>1, <1>2 DEF RestTyped
<1>4. CInv' /\ pc' \in Places
  BY <1>2, <1>3, TypeParts DEF CInv
<1>5. Showing(Shown)'
  BY SameShows DEF SInv, GoesWild, page
<1>6. TypedInv'
  BY DEF searching, SInv, TypedInv
<1> QED
  BY <1>4, <1>5, <1>6 DEF SInv

LEMMA ArgumentKeyType == ASSUME SInv, ArgumentKey PROVE SInv'
<1> DEFINE L == arg.longest
<1>1. ArgumentOK(arg) /\ EditorOK(arg.ed, L) /\ L \in Nat
  BY EditFacts DEF SInv, TypedInv, ArgumentOK, Asked
<1>2. UNCHANGED <<num, srch, prev, hist>>
  BY DEF ArgumentKey
<1>3. ASSUME NEW found, NEW ed, found => EditorOK(ed, L), Keyed(found, ed)
      PROVE  SInv'
  <2>1. CASE found /\ InBuffer(ed)
    <3>1. arg' = [arg EXCEPT !.ed = ed] /\ UNCHANGED vars
      BY <1>3, <2>1 DEF Keyed
    <3>2. ArgumentOK(arg')
      BY <1>1, <1>3, <2>1, <3>1 DEF ArgumentOK, Asked, EditorOK
    <3>3. TypedInv'
      BY <1>2, <3>2 DEF SInv, TypedInv
    <3>4. /\ UNCHANGED <<eof, file, table, ln_no, ln_no_max, file_pos, page_top_ln_no,
                         page_bot_ln_no, screen, page_top_pos, scroll, mark, scrolled>>
          /\ pc' = "argument" /\ cury' \in 0..ScrollLines
      BY <3>1, CursorType DEF ArgumentKey, vars, page
    <3> QED
      BY <3>3, <3>4, CalmType DEF SInv
  <2>2. CASE ~(found /\ InBuffer(ed))
    <3>1. GoesWild /\ UNCHANGED <<eof, file, mark, searching>>
      BY <1>2, <1>3, <2>2 DEF Keyed, searching
    <3> QED
      BY <3>1, LostType
  <2> QED
    BY <2>1, <2>2
<1>4. ASSUME NEW c \in Char \cup {Space},
             Keyed(EndsBehind(arg.ed.buf, TypedFrom(arg.ed, c)), Typed(arg.ed, c))
      PROVE  SInv'
  BY <1>1, <1>3, <1>4, TypedOK
<1>5. ASSUME NEW k \in EditKey,
             Keyed(EndsBehind(arg.ed.buf, LooksFrom(arg.ed, k)), Edited(arg.ed, k))
      PROVE  SInv'
  BY <1>1, <1>3, <1>5, EditedOK
<1> QED
  BY <1>4, <1>5 DEF ArgumentKey

\* The argument is cleared before another command is asked for.
LEMMA ClearedType ==
  ASSUME SInv, NEW buf, Fits(buf, arg.longest), arg' = Cleared(buf)
  PROVE  ArgumentOK(arg')
<1> DEFINE b == [buf EXCEPT ![0] = Nul]
           L == arg.longest
<1>1. arg \in Asked /\ L \in Nat /\ 0 \in FieldCols
  BY EditFacts DEF SInv, TypedInv, ArgumentOK, Asked, FieldCols
<1>2. Fits(b, L)
  BY <1>1, OneWritten
<1>3. EndsBehind(b, 0)
  BY EditFacts DEF Fits, Buffers, EndsBehind
<1> HIDE DEF b
<1>4. EditorOK(Editing(b, 0), L) /\ InBuffer(Editing(b, 0))
  BY <1>1, <1>2, <1>3, EditingOK
<1>5. arg' = [arg EXCEPT !.ed = Editing(b, 0), !.for = "none"]
  BY DEF Cleared, b
<1> QED
  BY <1>1, <1>4, <1>5 DEF ArgumentOK, Asked, EditorOK

LEMMA SearchStarts ==
  ASSUME SInv, NEW pattern \in Texts, NEW first \in BOOLEAN, StartSearch(pattern, first)
  PROVE  srch' \in SearchRecord /\ hist' \in [from : Nat, wrapped : BOOLEAN]
<1>1. srch \in SearchRecord /\ Other \in Shown /\ FALSE \in BOOLEAN
  BY DEF SInv, TypedInv, Shown
<1>2. srch' = [srch EXCEPT !.pattern = pattern, !.first = first, !.f_page = FALSE,
                           !.line = Other]
  BY DEF StartSearch
<1>3. srch' \in SearchRecord
  BY <1>1, <1>2 DEF SearchRecord
<1>4. srch.curr \in Nat /\ hist' = [from |-> srch.curr, wrapped |-> FALSE]
  BY <1>1 DEF StartSearch, SearchRecord, NoHistory
<1> QED
  BY <1>3, <1>4

LEMMA ArgumentEnterType == ASSUME SInv, ArgumentEnter PROVE SInv'
<1> DEFINE buf == Accepted(arg.ed)
           pattern == Text(buf)
<1>1. Fits(buf, arg.longest) /\ pattern \in Texts
  <2>1. EditorOK(arg.ed, arg.longest) /\ InBuffer(arg.ed) /\ arg.longest \in Nat
    BY EditFacts DEF SInv, TypedInv, ArgumentOK, Asked
  <2> QED
    BY <2>1, AcceptedOK, TextType
<1>2. /\ arg' = Cleared(buf) /\ cury' = IF arg.for = "/" THEN 0 ELSE cury
      /\ UNCHANGED <<eof, file, table, ln_no, ln_no_max, file_pos, page_top_ln_no,
                     page_bot_ln_no, screen, scroll, mark, scrolled, num, prev>>
      /\ \/ StartSearch(pattern, TRUE)
         \/ /\ srch' = IF arg.for = "/" THEN [srch EXCEPT !.first = TRUE] ELSE srch
            /\ hist' = hist /\ Prompt(page_top_pos)
  BY DEF ArgumentEnter
<1> HIDE DEF buf, pattern
<1>3. ArgumentOK(arg')
  BY <1>1, <1>2, ClearedType
<1>4. cury' \in 0..ScrollLines
  BY <1>2, CursorType
<1>5. CASE StartSearch(pattern, TRUE)
  <2>1. srch' \in SearchRecord /\ hist' \in [from : Nat, wrapped : BOOLEAN]
    BY <1>1, <1>5, SearchStarts
  <2>2. TypedInv'
    BY <1>2, <1>3, <2>1 DEF SInv, TypedInv
  <2>3. CInv' /\ pc' \in Places \cup {"argument", "search"} /\ Showing(Shown)'
    BY <1>2, <1>4, <1>5, CalmType DEF StartSearch
  <2> QED
    BY <2>2, <2>3 DEF SInv
<1>6. CASE ~StartSearch(pattern, TRUE)
  <2>1. srch' \in SearchRecord /\ hist' = hist /\ Prompt(page_top_pos)
    BY <1>2, <1>6 DEF SInv, TypedInv, SearchRecord
  <2>2. TypedInv'
    BY <1>2, <1>3, <2>1 DEF SInv, TypedInv
  <2>3. CInv' /\ pc' \in Places \cup {"argument", "search"} /\ Showing(Shown)'
    BY <1>2, <1>4, <2>1, AtPromptType
  <2> QED
    BY <2>2, <2>3 DEF SInv
<1> QED
  BY <1>5, <1>6

LEMMA ArgumentF9Type == ASSUME SInv, ArgumentF9 PROVE SInv'
<1>1. ArgumentOK(arg')
  BY ClearedType DEF ArgumentF9, SInv, TypedInv, ArgumentOK, EditorOK
<1>2. TypedInv'
  BY <1>1 DEF ArgumentF9, SInv, TypedInv
<1>3. CInv' /\ pc' \in Places \cup {"argument", "search"} /\ Showing(Shown)'
  BY AtPromptType, CursorType DEF ArgumentF9, page
<1> QED
  BY <1>2, <1>3 DEF SInv

LEMMA SearchAgainType == ASSUME SInv, SearchAgain PROVE SInv'
<1>1. /\ num' = NoDigits
      /\ UNCHANGED <<eof, file, table, ln_no, ln_no_max, file_pos, page_top_ln_no,
                     page_bot_ln_no, screen, scroll, mark, scrolled, arg, prev>>
  BY DEF SearchAgain
<1>2. CASE cury' = cury /\ srch' = srch /\ hist' = hist /\ Prompt(page_top_pos)
  <2>1. TypedInv'
    BY <1>1, <1>2, NoDigitsRight DEF SInv, TypedInv
  <2>2. CInv' /\ pc' \in Places \cup {"argument", "search"} /\ Showing(Shown)'
    BY <1>1, <1>2, AtPromptType, CursorType
  <2> QED
    BY <2>1, <2>2 DEF SInv
<1>3. CASE cury' = 0 /\ StartSearch(prev, srch.first)
  <2>1. prev \in Texts /\ srch.first \in BOOLEAN
    BY DEF SInv, TypedInv, SearchRecord
  <2>2. TypedInv'
    BY <1>1, <1>3, <2>1, SearchStarts, NoDigitsRight DEF SInv, TypedInv
  <2>3. CInv' /\ pc' \in Places \cup {"argument", "search"} /\ Showing(Shown)'
    BY <1>1, <1>3, CalmType, CursorType DEF StartSearch
  <2> QED
    BY <2>2, <2>3 DEF SInv
<1> QED
  BY <1>2, <1>3 DEF SearchAgain

\* A line that was read is shown, if it matches or the page has begun, ...
Drawn(shown) ==
    /\ page_top_ln_no' = IF shown /\ (~srch.f_page \/ RowAtLoop = 0) THEN Current
                         ELSE page_top_ln_no
    /\ page_bot_ln_no' = Current
    /\ cury' = IF shown THEN RowAtLoop + 1 ELSE RowAtLoop
    /\ screen' = IF shown
                 THEN [screen EXCEPT ![RowAtLoop] = [no |-> Current, pos |-> LineRead(Current)]]
                 ELSE screen

\* ... and the search goes on with the next one, ...
GoesOn(shown) ==
    /\ pc' = "search"
    /\ ln_no' = Current
    /\ srch' = [srch EXCEPT !.curr = Current + 1, !.first = srch.first /\ ~AtBeginning,
                            !.complete = srch.complete /\ ~AtBeginning, !.f_page = shown,
                            !.line = LineRead(Current)]
    /\ hist' = [hist EXCEPT !.wrapped = @ \/ Current # srch.curr
                                        \/ (Current = 0 /\ srch.f_page)]
    /\ UNCHANGED <<page_top_pos, prev>>

\* ... or stops behind a full page.
Stops == Cleanup(Current, srch.first /\ ~AtBeginning, srch.complete /\ ~AtBeginning, TRUE)

LEMMA SearchLineIs ==
  ASSUME SearchLine
  PROVE  /\ pc = "search" /\ ~Through /\ RowAtLoop # ScrollLines /\ Entry(Current) # Wild
         /\ \/ SomeLine(Current) /\ GetLine(Current)
            \/ ~SomeLine(Current) /\ UNCHANGED table
         /\ \E m \in Matches(LineRead(Current)) :
                /\ Drawn(m \/ srch.f_page)
                /\ \/ ~m /\ cury' = ScrollLines /\ Stops
                   \/ (m \/ cury' # ScrollLines) /\ GoesOn(m \/ srch.f_page)
         /\ scrolled' = "off"
         /\ UNCHANGED <<eof, file, ln_no_max, file_pos, scroll, mark, num, arg>>
  BY DEF SearchLine, Drawn, GoesOn, Stops

LEMMA CurrentType ==
  ASSUME SInv
  PROVE  Current \in Nat /\ RowAtLoop \in 0..ScrollLines
  BY CursorType DEF SInv, TypedInv, SearchRecord, Current, RowAtLoop

LEMMA LineReadType ==
  ASSUME SInv, Entry(Current) # Wild
  PROVE  LineRead(Current) \in Shown
<1>1. Entry(Current) \in Nat
  BY EntryType DEF SInv, CInv
<1> QED
  BY <1>1 DEF LineRead, SInv, TypedInv, SearchRecord, Shown

LEMMA StopType ==
  ASSUME SInv, TableTyped', NEW n \in Nat, NEW first \in BOOLEAN, NEW complete \in BOOLEAN,
         NEW found \in BOOLEAN, Cleanup(n, first, complete, found)
  PROVE  /\ pc' = "prompt" /\ page_top_pos' \in Positions /\ ln_no' \in Int
         /\ srch' \in SearchRecord /\ prev' \in Texts
         /\ hist' \in [from : Nat, wrapped : BOOLEAN]
<1>1. page_top_pos \in Positions /\ srch.pattern \in Texts /\ prev \in Texts /\ Other \in Shown
  BY DEF SInv, CInv, Core, TypedInv, SearchRecord, Shown
<1>2. pc' = "prompt" /\ page_top_pos' \in Positions
  BY <1>1, PromptType DEF Cleanup
<1>3. srch' = [curr |-> n, first |-> first, complete |-> complete, pattern |-> NoPattern,
               f_page |-> FALSE, line |-> Other]
  BY DEF Cleanup, NoSearch
<1>4. srch' \in SearchRecord
  BY <1>1, <1>3, NoPatternType DEF SearchRecord
<1>5. hist' \in [from : Nat, wrapped : BOOLEAN] /\ prev' \in Texts /\ ln_no' \in Int
  BY <1>1 DEF Cleanup, NoHistory
<1> QED
  BY <1>2, <1>4, <1>5

LEMMA SearchLineType == ASSUME SInv, SearchLine PROVE SInv'
<1>1. /\ Entry(Current) # Wild /\ RowAtLoop # ScrollLines
      /\ \/ SomeLine(Current) /\ GetLine(Current)
         \/ ~SomeLine(Current) /\ UNCHANGED table
      /\ scrolled' = "off"
      /\ UNCHANGED <<eof, file, ln_no_max, file_pos, scroll, mark, num, arg>>
  BY SearchLineIs
<1>2. PICK m \in Matches(LineRead(Current)) :
          /\ Drawn(m \/ srch.f_page)
          /\ \/ ~m /\ cury' = ScrollLines /\ Stops
             \/ (m \/ cury' # ScrollLines) /\ GoesOn(m \/ srch.f_page)
  BY SearchLineIs
<1> DEFINE shown == m \/ srch.f_page
<1>3. Current \in Nat /\ RowAtLoop \in Nat /\ RowAtLoop < ScrollLines /\ RowAtLoop \in Row
      /\ ScrollLines \in Nat /\ LineRead(Current) \in Shown
  BY <1>1, CurrentType, LineReadType, ViewAssumption DEF Row
<1>4. TableTyped'
  BY <1>1, SameTable, GetLineType DEF SInv, CInv
<1>5. page_top_ln_no' \in Nat /\ page_bot_ln_no' \in Int /\ cury' \in 0..ScrollLines
  BY <1>2, <1>3 DEF Drawn, SInv, CInv, Core
<1>6. Showing(Shown)'
  <2> DEFINE row == [no |-> Current, pos |-> LineRead(Current)]
  <2>1. row \in [no : Nat, pos : Shown]
    BY <1>3
  <2>2. screen' = screen \/ screen' = [screen EXCEPT ![RowAtLoop] = row]
    BY <1>2 DEF Drawn
  <2> HIDE DEF row
  <2>3. screen \in [Row -> [no : Nat, pos : Shown] \cup {Blank}]
    BY DEF SInv, Showing
  <2>4. screen' \in [Row -> [no : Nat, pos : Shown] \cup {Blank}]
    BY <1>3, <2>1, <2>2, <2>3
  <2> QED
    BY <2>4 DEF Showing, Row
<1>7. /\ srch.first \in BOOLEAN /\ srch.complete \in BOOLEAN /\ srch.f_page \in BOOLEAN
      /\ srch \in SearchRecord
  BY DEF SInv, TypedInv, SearchRecord
<1>8. /\ pc' \in {"prompt", "search"} /\ page_top_pos' \in Positions /\ ln_no' \in Int
      /\ srch' \in SearchRecord /\ prev' \in Texts
      /\ hist' \in [from : Nat, wrapped : BOOLEAN]
  <2>1. CASE Stops
    <3> DEFINE first == srch.first /\ ~AtBeginning
               complete == srch.complete /\ ~AtBeginning
    <3>1. first \in BOOLEAN /\ complete \in BOOLEAN /\ TRUE \in BOOLEAN
      BY <1>7
    <3>2. Cleanup(Current, first, complete, TRUE)
      BY <2>1 DEF Stops
    <3> HIDE DEF first, complete
    <3> QED
      BY <1>3, <1>4, <3>1, <3>2, StopType
  <2>2. CASE GoesOn(shown)
    <3> DEFINE first == srch.first /\ ~AtBeginning
               complete == srch.complete /\ ~AtBeginning
    <3>1. first \in BOOLEAN /\ complete \in BOOLEAN
      BY <1>7
    <3>2. shown \in BOOLEAN
      <4>1. m \in BOOLEAN \/ m = Finds(srch.pattern, file, LineRead(Current))
        BY DEF Matches
      <4> QED
        BY <1>7, <4>1
    <3>3. srch' = [srch EXCEPT !.curr = Current + 1, !.first = first, !.complete = complete,
                               !.f_page = shown, !.line = LineRead(Current)]
      BY <2>2 DEF GoesOn
    <3> HIDE DEF first, complete, shown
    <3>4. srch' \in SearchRecord
      <4>1. Current + 1 \in Nat /\ LineRead(Current) \in Shown
        BY <1>3
      <4>2. ASSUME NEW c \in Nat, NEW ln \in Shown,
                   srch' = [srch EXCEPT !.curr = c, !.first = first, !.complete = complete,
                                        !.f_page = shown, !.line = ln]
            PROVE  srch' \in SearchRecord
        BY <1>7, <3>1, <3>2, <4>2 DEF SearchRecord
      <4> QED
        BY <3>3, <4>1, <4>2
    <3>5. hist' \in [from : Nat, wrapped : BOOLEAN]
      BY <2>2 DEF GoesOn, SInv, TypedInv
    <3> QED
      BY <1>3, <2>2, <3>4, <3>5 DEF GoesOn, SInv, CInv, Core, TypedInv
  <2> QED
    BY <1>2, <2>1, <2>2
<1>9. Core'
  BY <1>1, <1>4, <1>5, <1>8 DEF TableTyped, SInv, CInv, Core
<1>10. LoopType'
  BY <1>8 DEF LoopType
<1>11. TypedInv'
  BY <1>1, <1>8 DEF SInv, TypedInv
<1> QED
  BY <1>6, <1>8, <1>9, <1>10, <1>11 DEF SInv, CInv, Places

LEMMA SearchEndType == ASSUME SInv, SearchEnd PROVE SInv'
<1>1. /\ UNCHANGED <<eof, file, table, ln_no_max, file_pos, page, scroll, mark, scrolled,
                     num, arg>>
      /\ Cleanup(Current, srch.first, srch.complete \/ Through, srch.f_page)
  BY DEF SearchEnd
<1>2. /\ srch.first \in BOOLEAN /\ srch.complete \in BOOLEAN /\ srch.f_page \in BOOLEAN
      /\ Current \in Nat
  BY CurrentType DEF SInv, TypedInv, SearchRecord
<1>3. TableTyped'
  BY <1>1, SameTable DEF SInv, CInv
<1> DEFINE complete == srch.complete \/ Through
<1>4. complete \in BOOLEAN
  BY <1>2
<1> HIDE DEF complete
<1>5. /\ pc' = "prompt" /\ page_top_pos' \in Positions /\ ln_no' \in Int
      /\ srch' \in SearchRecord /\ prev' \in Texts
      /\ hist' \in [from : Nat, wrapped : BOOLEAN]
  <2>1. Cleanup(Current, srch.first, complete, srch.f_page)
    BY <1>1 DEF complete
  <2> QED
    BY <1>2, <1>3, <1>4, <2>1, StopType
<1>6. Core' /\ LoopType'
  BY <1>1, <1>3, <1>5 DEF TableTyped, page, SInv, CInv, Core, LoopType
<1>7. TypedInv'
  BY <1>1, <1>5 DEF SInv, TypedInv
<1>8. Showing(Shown)'
  BY <1>1, SameShows DEF page, SInv
<1> QED
  BY <1>5, <1>6, <1>7, <1>8 DEF SInv, CInv, Places

LEMMA SearchNextType == ASSUME SInv, [SearchNext]_allvars PROVE SInv'
<1>1. CASE UNCHANGED allvars
  BY <1>1 DEF allvars, vars, searching, table, page, SInv, CInv, Core, LoopType, Showing,
              TypedInv, Row
<1>2. CASE Loop /\ UNCHANGED searching
  <2>1. CInv /\ Core /\ Showing(Shown) /\ Nat \subseteq Shown
    BY DEF SInv, CInv, Shown
  <2>2. CInv' /\ pc' \in Places /\ Showing(Shown)'
    BY <1>2, <2>1, LoopKeepsType, LoopShows
  <2>3. TypedInv'
    BY <1>2 DEF searching, SInv, TypedInv
  <2> QED
    BY <2>2, <2>3 DEF SInv
<1>3. CASE Ended /\ UNCHANGED searching
  BY <1>1, <1>3 DEF Ended, allvars
<1>4. CASE Typing
  <2>1. CASE ArgumentMouse
    BY <2>1, LostType DEF ArgumentMouse
  <2> QED
    BY <1>4, <2>1, DigitsType, AskType, ArgumentKeyType, ArgumentEnterType, ArgumentF9Type,
       SearchAgainType DEF Typing
<1>5. CASE Searching
  <2>1. CASE SearchWild
    BY <2>1, LostType DEF SearchWild
  <2> QED
    BY <1>5, <2>1, SearchLineType, SearchEndType DEF Searching
<1> QED
  BY <1>1, <1>2, <1>3, <1>4, <1>5, SearchCommandType, SearchOpenType DEF SearchNext

LEMMA SInvTypes == SInv => SearchTypeOK
<1> SUFFICES ASSUME SInv PROVE SearchTypeOK
  OBVIOUS
<1>1. /\ num.digits \in Seq(Digit) /\ Len(num.digits) <= MaxDigits /\ num.at \in 0..Len(num.digits)
      /\ arg.for \in {"none", "/", "other"}
  BY DEF SInv, TypedInv, NumberRight, ArgumentOK, Asked
<1>2. /\ arg.ed.buf \in Buffers /\ \A i \in Place : i >= arg.longest => arg.ed.buf[i] = Nul
      /\ arg.ed.insert \in BOOLEAN /\ InBuffer(arg.ed)
      /\ arg.ed.flen \in FieldLens \cup {0} /\ arg.longest \in FieldLens \cup {0}
      /\ arg.ed.flen <= arg.longest
  BY DEF SInv, TypedInv, ArgumentOK, Asked, EditorOK, Fits, EditorType, FieldCols
<1>5. {arg.ed.p, arg.ed.end} \subseteq 0..arg.longest
  BY EditFacts DEF SInv, TypedInv, ArgumentOK, Asked, EditorOK, EditorType
<1>3. srch.curr \in Nat /\ {srch.first, srch.complete, srch.f_page} \subseteq BOOLEAN
  BY DEF SInv, TypedInv, SearchRecord
<1>4. screen \in [Row -> [no : Nat, pos : Nat \cup {Other}] \cup {Blank}] /\ cury \in 0..ScrollLines
  BY CursorType DEF SInv, Showing, Shown
<1> QED
  BY <1>1, <1>2, <1>3, <1>4, <1>5 DEF SearchTypeOK

\* With fields shorter than the buffer its last place is a terminator, before which every
\* loop ends and every key stays.
LEMMA SInvKeeps == SInv => ArgumentInBuffer
<1> DEFINE L == arg.longest
           ed == arg.ed
<1> SUFFICES ASSUME SInv, L < BufferLen
             PROVE  /\ \A c \in Char \cup {Space} :
                          EndsBehind(ed.buf, TypedFrom(ed, c)) /\ InBuffer(Typed(ed, c))
                    /\ \A k \in EditKey :
                          EndsBehind(ed.buf, LooksFrom(ed, k)) /\ InBuffer(Edited(ed, k))
  BY DEF ArgumentInBuffer
<1>1. EditorOK(ed, L) /\ L \in Nat /\ BufferLen \in Nat /\ BufferLen \in Place
  BY EditFacts DEF SInv, TypedInv, ArgumentOK, Asked, Place
<1> HIDE DEF ed, L
<1>2. ASSUME NEW buf, Fits(buf, L), NEW i \in 0..(L + 1) PROVE EndsBehind(buf, i)
  BY <1>1, <1>2 DEF Fits, EndsBehind
<1>3. ASSUME NEW e, EditorOK(e, L) PROVE InBuffer(e)
  <2>1. e.p \in Place /\ e.end \in Place
    BY <1>1, <1>3 DEF EditorOK, EditorType, Place
  <2> QED
    BY <1>1, <1>2, <1>3, <2>1 DEF InBuffer, EditorOK
<1>4. ed.p \in 0..L /\ Fits(ed.buf, L)
  BY <1>1 DEF EditorOK, EditorType
<1>5. ASSUME NEW c \in Char \cup {Space}
      PROVE  EndsBehind(ed.buf, TypedFrom(ed, c)) /\ InBuffer(Typed(ed, c))
  <2>1. TypedFrom(ed, c) \in 0..(L + 1)
    BY <1>1 DEF TypedFrom
  <2>2. EndsBehind(ed.buf, TypedFrom(ed, c))
    BY <1>2, <1>4, <2>1
  <2> QED
    BY <1>1, <1>3, <2>2, TypedOK
<1>6. ASSUME NEW k \in EditKey
      PROVE  EndsBehind(ed.buf, LooksFrom(ed, k)) /\ InBuffer(Edited(ed, k))
  <2>1. LooksFrom(ed, k) \in 0..(L + 1)
    BY <1>1, <1>4 DEF LooksFrom, EditKey
  <2>2. EndsBehind(ed.buf, LooksFrom(ed, k))
    BY <1>2, <1>4, <2>1
  <2> QED
    BY <1>1, <1>3, <2>2, EditedOK
<1> QED
  BY <1>5, <1>6

\* Whatever is typed in front of a command and for its argument, however wide the fields,
\* cf_accept and get_cmd_char write nothing behind their fields and keep the cursor where a
\* character may stand, and the search draws on the rows of the page only.
THEOREM SearchTypeCorrect == SearchSpec => []SearchTypeOK
  BY InitSInv, SearchNextType, SInvTypes, PTL DEF SearchSpec

\* No key that cf_accept takes looks or writes behind the buffer of an argument before a field
\* is as long as the buffer.
THEOREM ArgumentCorrect == SearchSpec => []ArgumentInBuffer
  BY InitSInv, SearchNextType, SInvKeeps, PTL DEF SearchSpec

-----------------------------------------------------------------------------
(* The line table, with searches. *)

LEMMA LinesFit ==
  /\ FirstLineFits
  /\ \A f \in File : \A i \in Line(f) : ~TooLong(f, LineStart(f, i))
<1>1. ASSUME NEW f \in File, Len(Ends[f]) > 0 PROVE Ends[f][1] - 1 <= PadCols
  <2>1. 0 \in Line(f) /\ LineStart(f, 0) = 0 /\ Len(Ends[f]) \in Nat
    BY EndsType DEF Line, LineStart
  <2>2. HasEnd(f, 0)
    <3>1. 1 \in 1..Len(Ends[f])
      BY <1>1, <2>1
    <3>2. Ends[f][1] > 0
      BY <3>1, EndsType
    <3> QED
      BY <3>1, <3>2 DEF HasEnd, EndsAfter
  <2>3. NextEnd(f, 0) = Ends[f][1] /\ ~TooLong(f, 0)
    <3>1. 0 + 1 \in Line(f) /\ NextEnd(f, LineStart(f, 0)) = LineStart(f, 0 + 1)
      BY <2>1, <2>2, NextEndOfLine
    <3>2. ~TooLong(f, LineStart(f, 0))
      BY <2>1, SearchAssumption
    <3> QED
      BY <2>1, <3>1, <3>2 DEF LineStart
  <2>4. Ends[f][1] \in Nat /\ PadCols \in Nat
    BY <1>1, <2>1, EndsType, FileAssumption
  <2> QED
    BY <2>2, <2>3, <2>4 DEF TooLong
<1> QED
  BY <1>1, SearchAssumption DEF FirstLineFits

\* What is typed, and what ends a search, leaves the table alone.
LEMMA CalmStep ==
  ASSUME IInv,
         \/ DigitTyped \/ DigitsEdited \/ AskArgument \/ ArgumentKey \/ ArgumentMouse
         \/ ArgumentEnter \/ ArgumentF9 \/ SearchAgain \/ SearchEnd \/ SearchWild
  PROVE  IInv'
<1>1. /\ UNCHANGED <<file, table>> /\ pc \in {"prompt", "argument", "search"}
      /\ pc' \in {"prompt", "argument", "search", "wild"}
  BY DEF DigitTyped, DigitsEdited, AskArgument, ArgumentKey, Keyed, ArgumentMouse,
         ArgumentEnter, ArgumentF9, SearchAgain, SearchEnd, SearchWild, vars, GoesWild, Prompt, StartSearch,
         Cleanup
<1> QED
  BY <1>1, QuietStep

LEMMA SearchLineStep ==
  ASSUME IInv, SearchLine
  PROVE  /\ IInv' /\ file' = file
         /\ Current # Used \/ ~SomeLine(Current) => UNCHANGED table
         /\ Current = Used /\ SomeLine(Current) => Used' = Used + 1
<1>1. /\ pc = "search" /\ file' = file /\ Entry(Current) # Wild
      /\ \/ SomeLine(Current) /\ GetLine(Current)
         \/ ~SomeLine(Current) /\ UNCHANGED table
      /\ pc' \in {"prompt", "search"}
  BY SearchLineIs DEF Stops, Cleanup, Prompt, GoesOn
<1>2. CASE UNCHANGED table /\ ~SomeLine(Current)
  <2>1. IInv'
    BY <1>1, <1>2, QuietStep
  <2> QED
    BY <1>1, <1>2, <2>1
<1>3. CASE SomeLine(Current) /\ GetLine(Current)
  <2>1. ln_max_pos = 0 /\ Len(Ends[file]) > 0 => Current = 0
    BY <1>1 DEF IInv, FirstPage
  <2>2. /\ TableType' /\ TableFilled'
        /\ ln_max_pos' > 0 \/ Len(Ends[file]) = 0
        /\ Current # Used => UNCHANGED table
        /\ Current = Used /\ ~TooLong(file, Entry(Current)) => Used' = Used + 1
    BY <1>1, <1>3, <2>1, LinesFit, GetLineStep
  <2>3. Current = Used => ~TooLong(file, Entry(Current))
    <3>1. ASSUME Current = Used PROVE Entry(Current) = LineStart(file, Used) /\ Used \in Line(file)
      BY <3>1 DEF IInv, TableFilled, TableType, Used, Entry
    <3> QED
      BY <3>1, LinesFit DEF IInv, TableType
  <2>4. FirstPage' /\ SyncAtEnd'
    BY <1>1, <2>2 DEF FirstPage, SyncAtEnd, TableType
  <2> QED
    BY <1>1, <1>3, <2>2, <2>3, <2>4 DEF IInv
<1> QED
  BY <1>1, <1>2, <1>3

LEMMA SearchNextInv == ASSUME SInv, IInv, [SearchNext]_allvars PROVE IInv'
<1>1. CASE SearchCommand
  <2>1. NumberOf(num) \in Nat
    BY NumberIsNat DEF SInv, TypedInv, NumberRight
  <2>2. \/ \E n : Down(n) \/ Up(n) \/ GoToLine(n)
        \/ NPage \/ PPage \/ GoToEof \/ Quit
    BY <1>1, <2>1, CountedIs DEF SearchCommand
  <2> QED
    BY <2>2, CommandStep, GoToEofStep
<1>2. CASE SearchOpen
  BY <1>2, OpenStep DEF SearchOpen
<1>3. CASE Typing
  BY <1>3, CalmStep DEF Typing
<1>4. CASE Searching
  BY <1>4, SearchLineStep, CalmStep DEF Searching
<1>5. CASE Loop
  BY <1>5, LinesFit, LineStep, LoopEndStep, SyncStep DEF Loop
<1>6. CASE UNCHANGED vars
  BY <1>6 DEF vars, table, IInv, TableType, TableFilled, Used, FirstPage, SyncAtEnd
<1> QED
  BY <1>1, <1>2, <1>3, <1>4, <1>5, <1>6 DEF SearchNext, Ended, allvars

-----------------------------------------------------------------------------
(* What a search has found. *)

\* The search set out from a line that the table knows, or behind the last one.
SetOut == HasLine(hist.from) => hist.from <= Used

\* Of the lines that were read, those that match are on the page or before it ...
LinesTold ==
    \A i \in hist.from..(srch.curr - 1) :
        HasLine(i) /\ Finds(srch.pattern, file, LineStart(file, i))
            => srch.f_page /\ page_top_ln_no <= i

\* ... which shows one line after the other, ...
RowsFollowTop ==
    \A r \in Row : r < cury => screen[r].no = page_top_ln_no + r

\* ... from where they start.
RowsAtStart ==
    \A r \in Row : r < cury /\ HasLine(page_top_ln_no + r) =>
        screen[r].pos = LineStart(file, page_top_ln_no + r)

\* Until it comes round again: the page, once it has begun, ends in front of the line
\* that is read next, and the table knows that line.
FoundInv ==
    pc = "search" /\ ~hist.wrapped =>
        /\ hist.from <= srch.curr
        /\ ~srch.f_page => cury = 0
        /\ srch.f_page => /\ cury > 0 /\ srch.curr = page_top_ln_no + cury
                          /\ RowsFollowTop
        /\ SetOut => /\ HasLine(srch.curr) => srch.curr <= Used
                     /\ LinesTold
                     /\ srch.f_page => RowsAtStart

LEMMA FoundIsRight == ASSUME SInv, IInv, FoundInv PROVE SearchRight
<1> SUFFICES ASSUME pc = "search", ~hist.wrapped, HasLine(hist.from) => hist.from <= ln_tbl_cnt
             PROVE  /\ LinesTold
                    /\ srch.f_page =>
                          \A r \in Row : r < cury =>
                              /\ screen[r].no = page_top_ln_no + r
                              /\ HasLine(screen[r].no)
                                     => screen[r].pos = LineStart(file, screen[r].no)
  BY DEF SearchRight, LinesTold
<1>1. SetOut
  BY EndsType DEF SetOut, HasLine, IInv, FirstPage, TableType, Used, SInv, TypedInv
<1>2. LinesTold /\ (srch.f_page => RowsFollowTop /\ RowsAtStart)
  BY <1>1 DEF FoundInv
<1> QED
  BY <1>2 DEF RowsFollowTop, RowsAtStart

LEMMA SearchSetsOut ==
  ASSUME SInv, IInv, NEW pattern, NEW first, StartSearch(pattern, first), cury' = 0,
         UNCHANGED <<file, table>>
  PROVE  FoundInv'
<1>1. /\ srch'.curr = srch.curr /\ srch'.f_page = FALSE /\ hist'.from = srch.curr
      /\ srch.curr \in Nat
  BY DEF StartSearch, SInv, TypedInv, SearchRecord, NoHistory
<1>2. LinesTold'
  BY <1>1 DEF LinesTold
<1> QED
  BY <1>1, <1>2 DEF FoundInv, SetOut

\* What the table has for a line that it knows, and for one that it does not.
LEMMA EntryKnown ==
  ASSUME IInv, pc = "search", NEW n \in Nat, Entry(n) # Wild
  PROVE  /\ n <= Used => /\ n \in Line(file) /\ Entry(n) = LineStart(file, n)
                         /\ SomeLine(n) <=> HasLine(n)
         /\ HasLine(n + 1) => HasLine(n)
         /\ n \in Int /\ Used \in Nat
<1>1. Used \in Nat /\ Used \in Line(file) /\ Len(Ends[file]) \in Nat /\ file \in File
  BY EndsType DEF IInv, TableType, TableFilled, Used
<1>2. ASSUME n <= Used PROVE n \in Line(file) /\ Entry(n) = LineStart(file, n)
  BY <1>1, <1>2 DEF IInv, TableFilled, TableType, Entry, Line
<1>3. ASSUME n <= Used PROVE SomeLine(n) <=> HasLine(n)
  <2>1. ~TooLong(file, Entry(n))
    BY <1>1, <1>2, <1>3, LinesFit
  <2>2. SomeLine(n) <=> HasEnd(file, LineStart(file, n))
    BY <1>2, <1>3, <2>1 DEF SomeLine, AtEod
  <2>3. HasEnd(file, LineStart(file, n)) => HasLine(n)
    BY <1>1, <1>2, <1>3, NextEndOfLine DEF Line, HasLine
  <2>4. ASSUME HasLine(n) PROVE HasEnd(file, LineStart(file, n))
    <3>1. n + 1 \in Line(file) /\ n + 1 \in 1..Len(Ends[file])
      BY <1>1, <2>4 DEF HasLine, Line
    <3>2. LineStart(file, n + 1) > LineStart(file, n)
      BY <1>1, <1>2, <1>3, <3>1, StartsAscend, StartType
    <3>3. LineStart(file, n + 1) = Ends[file][n + 1]
      BY <3>1 DEF LineStart
    <3> QED
      BY <3>1, <3>2, <3>3 DEF HasEnd, EndsAfter
  <2> QED
    BY <2>2, <2>3, <2>4
<1> QED
  BY <1>1, <1>2, <1>3 DEF HasLine

\* The search reads the line behind those that it has read.
LEMMA SearchLineFound == ASSUME SInv, IInv, FoundInv, SearchLine PROVE FoundInv'
<1> DEFINE n == Current
           r == RowAtLoop
<1> SUFFICES ASSUME pc' = "search", ~hist'.wrapped PROVE FoundInv'
  BY DEF FoundInv
<1>1. PICK m \in Matches(LineRead(Current)) :
          Drawn(m \/ srch.f_page) /\ GoesOn(m \/ srch.f_page)
  BY SearchLineIs DEF Stops, Cleanup, Prompt
<1> DEFINE shown == m \/ srch.f_page
<1>2. /\ pc = "search" /\ RowAtLoop # ScrollLines /\ Entry(n) # Wild /\ file' = file
  BY SearchLineIs
<1>3. /\ hist.wrapped = FALSE /\ hist'.from = hist.from /\ n = srch.curr
      /\ ~(n = 0 /\ srch.f_page)
  BY <1>1 DEF GoesOn, SInv, TypedInv
<1>4. /\ srch'.curr = n + 1 /\ srch'.f_page = shown /\ srch'.pattern = srch.pattern
  BY <1>1 DEF GoesOn, SInv, TypedInv, SearchRecord
<1>5. /\ n \in Nat /\ r \in Nat /\ r \in Row /\ hist.from \in Nat /\ cury \in Nat
      /\ page_top_ln_no \in Nat /\ ScrollLines \in Nat
  BY <1>2, CurrentType, CursorType, ViewAssumption DEF Row, SInv, CInv, Core, TypedInv
<1>6. /\ hist.from <= n /\ (~srch.f_page => cury = 0)
      /\ srch.f_page => cury > 0 /\ n = page_top_ln_no + cury /\ RowsFollowTop
  BY <1>2, <1>3 DEF FoundInv
<1>7. r = cury
  BY <1>3, <1>6 DEF RowAtLoop, AtBeginning
<1>8. /\ shown => cury' = r + 1 /\ n = page_top_ln_no' + r
                  /\ screen' = [screen EXCEPT ![r] = [no |-> n, pos |-> LineRead(n)]]
      /\ ~shown => cury' = r
      /\ srch.f_page => page_top_ln_no' = page_top_ln_no
      /\ page_top_ln_no' \in Nat
  BY <1>1, <1>5, <1>6, <1>7 DEF Drawn
<1> DEFINE row == [no |-> n, pos |-> LineRead(n)]
<1>9. row.no = n /\ row.pos = LineRead(n)
  OBVIOUS
<1>10. screen \in [Row -> [no : Nat, pos : Shown] \cup {Blank}] /\ Row' = Row
  BY DEF SInv, Showing, Row
<1>11. shown => screen' = [screen EXCEPT ![r] = row]
  BY <1>8
<1> HIDE DEF n, r, shown, row
<1>12. shown => /\ screen'[r] = row
                /\ \A q \in Row : q # r => screen'[q] = screen[q]
  BY <1>5, <1>10, <1>11
<1>13. ASSUME shown PROVE page_top_ln_no' <= n
  <2>1. n = page_top_ln_no' + r /\ page_top_ln_no' \in Nat
    BY <1>8, <1>13
  <2>2. \A a, b, c \in Nat : a = b + c => b <= a
    OBVIOUS
  <2> QED
    BY <1>5, <2>1, <2>2, Zenon
<1>14. shown => RowsFollowTop'
  <2> SUFFICES ASSUME shown, NEW q \in Row, q < r + 1
               PROVE  screen'[q].no = page_top_ln_no' + q
    BY <1>8, <1>10 DEF RowsFollowTop
  <2>1. CASE q = r
    BY <1>8, <1>9, <1>12, <2>1
  <2>2. CASE q # r
    <3>1. q < cury /\ srch.f_page
      BY <1>5, <1>6, <1>7, <2>2 DEF Row
    <3> QED
      BY <1>6, <1>8, <1>12, <2>2, <3>1 DEF RowsFollowTop
  <2> QED
    BY <2>1, <2>2
<1>15. ASSUME SetOut' PROVE SetOut
  <2> SUFFICES ASSUME HasLine(hist.from), ~(hist.from <= Used) PROVE FALSE
    BY DEF SetOut
  <2>1. Used \in Nat
    BY DEF IInv, TableType, Used
  <2>2. n # Used
    BY <1>5, <1>6, <2>1
  <2>3. UNCHANGED table
    BY <2>2, SearchLineStep DEF n
  <2> QED
    BY <1>2, <1>3, <1>15, <2>3 DEF SetOut, HasLine, Used, table
<1>16. ASSUME SetOut
       PROVE  /\ HasLine(n + 1) => n + 1 <= Used'
              /\ HasLine(n) => /\ LineRead(n) = LineStart(file, n)
                               /\ Finds(srch.pattern, file, LineStart(file, n)) => shown
  <2>1. HasLine(n) => n <= Used
    BY <1>2, <1>3, <1>16 DEF FoundInv
  <2>2. /\ n <= Used => /\ n \in Line(file) /\ Entry(n) = LineStart(file, n)
                        /\ SomeLine(n) <=> HasLine(n)
        /\ HasLine(n + 1) => HasLine(n)
        /\ Used \in Nat
    BY <1>2, <1>5, EntryKnown
  <2>3. ASSUME HasLine(n) PROVE n + 1 <= Used'
    <3>1. n <= Used /\ SomeLine(n)
      BY <2>1, <2>2, <2>3
    <3>2. CASE n = Used
      <4>1. Used' = Used + 1
        BY <3>1, <3>2, SearchLineStep DEF n
      <4> QED
        BY <2>2, <3>2, <4>1
    <3>3. CASE n # Used
      <4>1. Used' = Used
        BY <3>3, SearchLineStep DEF n, table, Used
      <4> QED
        BY <1>5, <2>2, <3>1, <3>3, <4>1
    <3> QED
      BY <3>2, <3>3
  <2>4. ASSUME HasLine(n)
        PROVE  /\ LineRead(n) = LineStart(file, n)
               /\ Finds(srch.pattern, file, LineStart(file, n)) => shown
    <3>1. n \in Line(file) /\ SomeLine(n) /\ Entry(n) = LineStart(file, n)
      BY <2>1, <2>2, <2>4
    <3>2. LineRead(n) = LineStart(file, n)
      BY <3>1 DEF LineRead
    <3>3. LineStart(file, n) # Other
      BY <3>1, StartType, SearchAssumption DEF IInv, TableType
    <3>4. Matches(LineStart(file, n)) = {Finds(srch.pattern, file, LineStart(file, n))}
      BY <3>3 DEF Matches
    <3>5. m = Finds(srch.pattern, file, LineStart(file, n))
      BY <3>2, <3>4 DEF n
    <3> QED
      BY <3>2, <3>5 DEF shown
  <2> QED
    BY <2>2, <2>3, <2>4
<1>17. ASSUME SetOut PROVE LinesTold'
  <2> SUFFICES ASSUME NEW i \in hist.from..n, HasLine(i),
                      Finds(srch.pattern, file, LineStart(file, i))
               PROVE  shown /\ page_top_ln_no' <= i
    BY <1>2, <1>3, <1>4, <1>5 DEF LinesTold, HasLine
  <2>1. CASE i = n
    <3>1. shown
      BY <1>16, <1>17, <2>1
    <3> QED
      BY <1>13, <2>1, <3>1, Zenon
  <2>2. CASE i # n
    <3>1. i \in hist.from..(srch.curr - 1)
      BY <1>3, <1>5, <2>2
    <3>2. srch.f_page /\ page_top_ln_no <= i
      BY <1>2, <1>3, <1>17, <3>1 DEF FoundInv, LinesTold
    <3> QED
      BY <1>8, <3>2 DEF shown
  <2> QED
    BY <2>1, <2>2
<1>18. ASSUME SetOut, shown PROVE RowsAtStart'
  <2> SUFFICES ASSUME NEW q \in Row, q < r + 1, HasLine(page_top_ln_no' + q)
               PROVE  screen'[q].pos = LineStart(file, page_top_ln_no' + q)
    BY <1>2, <1>8, <1>10, <1>18 DEF RowsAtStart, HasLine
  <2>1. CASE q = r
    BY <1>8, <1>9, <1>12, <1>16, <1>18, <2>1
  <2>2. CASE q # r
    <3>1. q < cury /\ srch.f_page
      BY <1>5, <1>6, <1>7, <2>2 DEF Row
    <3>2. RowsAtStart
      BY <1>2, <1>3, <1>18, <3>1 DEF FoundInv
    <3> QED
      BY <1>8, <1>12, <1>18, <2>2, <3>1, <3>2 DEF RowsAtStart
  <2> QED
    BY <2>1, <2>2
<1>19. ~shown => cury' = 0
  BY <1>6, <1>7, <1>8 DEF shown
<1>20. shown => cury' > 0 /\ n + 1 = page_top_ln_no' + cury'
  BY <1>5, <1>8
<1>21. SetOut' => (HasLine(srch.curr)' => srch'.curr <= Used')
  BY <1>2, <1>4, <1>15, <1>16 DEF HasLine
<1> QED
  BY <1>3, <1>4, <1>5, <1>6, <1>14, <1>15, <1>17, <1>18, <1>19, <1>20, <1>21 DEF FoundInv

LEMMA SearchNextFound ==
  ASSUME SInv, IInv, SInv', FoundInv, [SearchNext]_allvars
  PROVE  FoundInv'
<1>1. CASE UNCHANGED allvars
  BY <1>1 DEF allvars, vars, searching, table, page, FoundInv, SetOut, LinesTold, RowsFollowTop,
              RowsAtStart, HasLine, Used, Row
<1>2. CASE SearchLine
  BY <1>2, SearchLineFound
<1>3. CASE ArgumentEnter
  <2>1. CASE pc' = "search"
    <3>1. /\ StartSearch(Text(Accepted(arg.ed)), TRUE) /\ cury' = 0
          /\ UNCHANGED <<file, table>>
      BY <1>3, <2>1 DEF ArgumentEnter, Prompt
    <3> QED
      BY <3>1, SearchSetsOut
  <2> QED
    BY <2>1 DEF FoundInv
<1>4. CASE SearchAgain
  <2>1. CASE pc' = "search"
    <3>1. StartSearch(prev, srch.first) /\ cury' = 0 /\ UNCHANGED <<file, table>>
      BY <1>4, <2>1 DEF SearchAgain, Prompt
    <3> QED
      BY <3>1, SearchSetsOut
  <2> QED
    BY <2>1 DEF FoundInv
<1>5. ASSUME SearchCommand \/ SearchOpen \/ Loop PROVE pc' # "search"
  <2>1. CASE SearchCommand
    <3>1. NumberOf(num) \in Nat /\ CInv
      BY NumberIsNat DEF SInv, TypedInv, NumberRight
    <3> QED
      BY <2>1, <3>1, CountedIs, DownType, UpType, JumpType, GoToEofType, OtherCommandType
      DEF SearchCommand, Places
  <2>2. CASE SearchOpen
    BY <2>2 DEF SearchOpen, Open
  <2>3. CASE Loop
    BY <2>3, LoopKeepsType DEF SInv, Places
  <2> QED
    BY <1>5, <2>1, <2>2, <2>3
<1>6. ASSUME \/ DigitTyped \/ DigitsEdited \/ AskArgument \/ ArgumentKey \/ ArgumentMouse
             \/ ArgumentF9 \/ SearchEnd \/ SearchWild
      PROVE  pc' # "search"
  BY <1>6 DEF DigitTyped, DigitsEdited, AskArgument, ArgumentKey, Keyed, ArgumentMouse,
              ArgumentF9, SearchEnd, SearchWild, vars, GoesWild, Prompt, Cleanup
<1>7. pc' # "search" => FoundInv'
  BY DEF FoundInv
<1> QED
  BY <1>1, <1>2, <1>3, <1>4, <1>5, <1>6, <1>7 DEF SearchNext, Typing, Searching, Ended, allvars

\* A page of the search begins with the first line that matches, of those from where it set
\* out, and shows the lines behind it in their order, however the table was filled before,
\* whatever was searched for and wherever the last search stopped (search).  The line
\* table stays right under it.
THEOREM SearchCorrect == SearchSpec => []SearchRight /\ []TableRight
<1>1. SearchInit => SInv /\ IInv /\ FoundInv
  BY InitSInv, InitInv DEF SearchInit, Init, FoundInv
<1>2. SInv /\ IInv /\ FoundInv /\ [SearchNext]_allvars => SInv' /\ IInv' /\ FoundInv'
  BY SearchNextType, SearchNextInv, SearchNextFound
<1>3. SInv /\ IInv /\ FoundInv => SearchRight /\ TableRight
  BY FoundIsRight, InvImpliesTableRight
<1> QED
  BY <1>1, <1>2, <1>3, PTL DEF SearchSpec

=============================================================================
