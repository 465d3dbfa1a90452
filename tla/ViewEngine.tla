----------------------------- MODULE ViewEngine -----------------------------
(***************************************************************************)
(* The pages of C-Menu View (src/src/view_engine.c, lines not wrapped): the *)
(* line table, which is filled while lines are read, and the commands that  *)
(* page, scroll and jump with it.  A command is one action when it calls    *)
(* nothing that loops over lines, otherwise one action and one for each     *)
(* line its loop reads.                                                     *)
(***************************************************************************)
EXTENDS ViewFile

CONSTANTS
    ScrollLines,    \* lines of a page
    Count,          \* numbers typed before a command
    Percent,        \* numbers typed before 'p'
    PromptHasRoom,  \* PromptHasRoom[f]: the name of f leaves room for positions in the prompt
    NoMark,         \* NULL_POSITION
    Blank           \* a row of the pad without a line

ASSUME ViewAssumption ==
    /\ ScrollLines \in Nat \ {0}
    /\ Count \subseteq Nat \ {0}
    /\ Percent \subseteq 0..99
    /\ PromptHasRoom \in [File -> BOOLEAN]
    /\ NoMark \notin Int \cup {Wild}
    /\ Blank \notin [no : Int, pos : Int]

VARIABLES
    pc,             \* what View is doing: waiting at the prompt, or the loop it is in
    eof,            \* history: the last command was 'G'
    file,
    ln_tbl, ln_tbl_size, ln_tbl_cnt, ln_max_pos,
    ln_no, ln_no_max,
    file_pos,       \* in sync_ln: whatever else reads sets it first
    page_top_ln_no, page_bot_ln_no, page_top_pos,
    cury,           \* the row the next line is drawn on
    screen,         \* by row: number and position of the line it shows
    scroll,         \* lines still to be scrolled
    mark,           \* the position under one label
    scrolled        \* history: since the page was displayed, it was scrolled line by line,
                    \* "down" while full or at last "up", or page_top_ln_no went "off" it

table == <<ln_tbl, ln_tbl_size, ln_tbl_cnt, ln_max_pos>>
page == <<page_top_ln_no, page_bot_ln_no, cury, screen>>
vars == <<pc, eof, file, table, ln_no, ln_no_max, file_pos, page, page_top_pos, scroll,
          mark, scrolled>>

Row == 0..(ScrollLines - 1)
BlankScreen == [r \in Row |-> Blank]

\* ln_tbl[i], whatever i is.
Entry(i) == IF i \in 0..(ln_tbl_size - 1) THEN ln_tbl[i] ELSE Wild

\* view_file: the first page of the first file is about to be shown.
Init ==
    /\ pc = "display"
    /\ eof = FALSE
    /\ file \in File
    /\ ln_tbl = [i \in 0..(LineTblIncr - 1) |-> 0]
    /\ ln_tbl_size = LineTblIncr
    /\ ln_tbl_cnt = 0
    /\ ln_max_pos = 0
    /\ ln_no = 0
    /\ ln_no_max = 0
    /\ file_pos = 0
    /\ page_top_ln_no = 0
    /\ page_bot_ln_no = 0
    /\ page_top_pos = 0
    /\ cury = 0
    /\ screen = BlankScreen
    /\ scroll = 0
    /\ mark = NoMark
    /\ scrolled = "down"

-----------------------------------------------------------------------------
(* Reading lines. *)

\* Mutant: the entry is written whether the line is new or not.
Increment_Always(n, e) ==
    /\ ln_tbl_cnt' = n
    /\ ln_max_pos' = e
    /\ IF n <= ln_tbl_size - 1
       THEN /\ ln_tbl' = [ln_tbl EXCEPT ![n] = e]
            /\ UNCHANGED ln_tbl_size
       ELSE /\ ln_tbl_size' = ln_tbl_size + LineTblIncr
            /\ ln_tbl' = [i \in 0..(ln_tbl_size + LineTblIncr - 1) |->
                              IF i = n THEN e ELSE IF i < ln_tbl_size THEN ln_tbl[i] ELSE 0]

\* increment_ln: a newline was read, line n starts at e.  What realloc adds to the
\* table is not initialized: zero when the memory is fresh, anything otherwise.
Increment(n, e) ==
    IF e <= ln_max_pos THEN UNCHANGED table
    ELSE /\ ln_tbl_cnt' = n
         /\ ln_max_pos' = e
         /\ \/ /\ n <= ln_tbl_size - 1
               /\ ln_tbl' = [ln_tbl EXCEPT ![n] = e]
               /\ UNCHANGED ln_tbl_size
            \/ /\ n > ln_tbl_size - 1
               /\ ln_tbl_size' = ln_tbl_size + LineTblIncr
               /\ \E junk \in {0, Wild} :
                      ln_tbl' = [i \in 0..(ln_tbl_size + LineTblIncr - 1) |->
                                     IF i = n THEN e
                                     ELSE IF i < ln_tbl_size THEN ln_tbl[i] ELSE junk]

\* get_line for a line that is shown: the table learns where the next one starts.
GetLine(n) ==
    LET pos == Entry(n)
    IN  IF TooLong(file, pos) THEN UNCHANGED table
        ELSE Increment(n + 1, NextEnd(file, pos))

NoLine(n) == Entry(n) # Wild /\ AtEod(file, Entry(n))
SomeLine(n) == Entry(n) # Wild /\ ~AtEod(file, Entry(n))

\* The command is done: build_prompt notes where the page begins, if it gets that far.
Prompt(pos) ==
    /\ pc' = "prompt"
    /\ page_top_pos' = IF ~PromptHasRoom[file] THEN pos
                       ELSE IF page_top_ln_no' \in 0..(ln_tbl_size' - 1)
                       THEN ln_tbl'[page_top_ln_no'] ELSE Wild

\* A position that is not one is used: anything may follow.
GoesWild ==
    /\ pc' = "wild"
    /\ UNCHANGED <<table, ln_no, ln_no_max, file_pos, page, page_top_pos, scroll,
                   scrolled>>

-----------------------------------------------------------------------------
(* next_page, view_display_page *)

\* Display from line n, unless it is where the file ends.  The caller made top, y and
\* pos of page_top_ln_no, cury and page_top_pos.
NextPage(n, top, y, pos) ==
    /\ ln_no' = n
    /\ UNCHANGED <<table, screen, scroll>>
    /\ \/ /\ Entry(n) = Wild
          /\ pc' = "wild"
          /\ page_top_pos' = pos
          /\ UNCHANGED <<page_top_ln_no, page_bot_ln_no, cury, scrolled>>
       \/ /\ Entry(n) = Size[file]
          /\ page_top_ln_no' = top
          /\ cury' = y
          /\ scrolled' = IF top = page_top_ln_no THEN scrolled ELSE "off"
          /\ UNCHANGED page_bot_ln_no
          /\ Prompt(pos)
       \/ /\ Entry(n) \notin {Wild, Size[file]}
          /\ page_top_ln_no' = 0
          /\ page_bot_ln_no' = 0
          /\ cury' = 0
          /\ page_top_pos' = pos
          /\ scrolled' = "down"
          /\ pc' = "display"

\* display_line: line n on row r.
Draw(n, r) == screen' = [screen EXCEPT ![r] = [no |-> n, pos |-> Entry(n)]]

DisplayLine ==
    /\ pc = "display"
    /\ SomeLine(ln_no)
    /\ GetLine(ln_no)
    /\ Draw(ln_no, cury)
    /\ page_top_ln_no' = IF cury = 0 THEN ln_no ELSE page_top_ln_no
    /\ cury' = cury + 1
    /\ IF cury + 1 < ScrollLines
       THEN /\ ln_no' = ln_no + 1
            /\ pc' = "display"
            /\ UNCHANGED <<page_bot_ln_no, page_top_pos>>
       ELSE /\ page_bot_ln_no' = ln_no
            /\ UNCHANGED ln_no
            /\ Prompt(page_top_pos)
    /\ UNCHANGED <<eof, file, ln_no_max, file_pos, scroll, mark, scrolled>>

\* The data ends on this page: the rows below are cleared.
DisplayEod ==
    /\ pc = "display"
    /\ NoLine(ln_no)
    /\ screen' = [r \in Row |-> IF r < cury THEN screen[r] ELSE Blank]
    /\ ln_no' = ln_no - 1
    /\ page_bot_ln_no' = ln_no - 1
    /\ UNCHANGED <<eof, file, table, ln_no_max, file_pos, page_top_ln_no, cury, scroll,
                   mark, scrolled>>
    /\ Prompt(page_top_pos)

DisplayWild ==
    /\ pc = "display"
    /\ Entry(ln_no) = Wild
    /\ GoesWild
    /\ UNCHANGED <<eof, file, mark>>

-----------------------------------------------------------------------------
(* scroll_down *)

\* The pad is moved up n lines, or cleared.
Down(n) ==
    /\ pc = "prompt"
    /\ eof' = FALSE
    /\ ln_no' = page_bot_ln_no
    /\ \/ /\ page_bot_ln_no >= ln_no_max
          /\ UNCHANGED <<table, page, scroll, scrolled>>
          /\ Prompt(page_top_pos)
       \/ /\ page_bot_ln_no < ln_no_max
          /\ scrolled' = IF n = 1 /\ scrolled = "down" /\ screen[ScrollLines - 1] # Blank
                          THEN "down" ELSE "off"
          /\ page_top_ln_no' = page_top_ln_no + n
          /\ screen' = [r \in Row |-> IF r + n \in Row THEN screen[r + n] ELSE Blank]
          /\ cury' = IF n < ScrollLines THEN ScrollLines - n ELSE cury
          /\ pc' = "down"
          /\ UNCHANGED <<table, page_bot_ln_no, page_top_pos, scroll>>
    /\ UNCHANGED <<file, ln_no_max, file_pos, mark>>

\* Mutant: the cursor may stand below the pad.
LastRow_Unbounded(r) == r

LastRow(r) == IF r < ScrollLines THEN r ELSE ScrollLines - 1

\* Mutant: the bottom of the page is not noted.
DownLine_BottomStays ==
    /\ pc = "down"
    /\ ln_no < ln_no_max
    /\ SomeLine(ln_no + 1)
    /\ ln_no' = ln_no + 1
    /\ GetLine(ln_no + 1)
    /\ Draw(ln_no + 1, LastRow(cury))
    /\ cury' = LastRow(cury) + 1
    /\ UNCHANGED <<page_top_ln_no, page_bot_ln_no>>
    /\ IF cury' = ScrollLines THEN Prompt(page_top_pos)
       ELSE pc' = "down" /\ UNCHANGED page_top_pos
    /\ UNCHANGED <<eof, file, ln_no_max, file_pos, scroll, mark, scrolled>>

\* Mutant: the line is fetched before its number is counted up.
DownLine_StaleLine ==
    /\ pc = "down"
    /\ ln_no < ln_no_max
    /\ SomeLine(ln_no)
    /\ ln_no' = ln_no + 1
    /\ GetLine(ln_no)
    /\ screen' = [screen EXCEPT ![LastRow(cury)] = [no |-> ln_no + 1, pos |-> Entry(ln_no)]]
    /\ cury' = LastRow(cury) + 1
    /\ page_bot_ln_no' = ln_no + 1
    /\ UNCHANGED <<eof, file, page_top_ln_no, ln_no_max, file_pos, scroll, mark, scrolled>>
    /\ IF cury' = ScrollLines THEN Prompt(page_top_pos)
       ELSE pc' = "down" /\ UNCHANGED page_top_pos

DownLine ==
    /\ pc = "down"
    /\ ln_no < ln_no_max
    /\ SomeLine(ln_no + 1)
    /\ ln_no' = ln_no + 1
    /\ GetLine(ln_no + 1)
    /\ LET r == LastRow(cury)
       IN  /\ Draw(ln_no + 1, r)
           /\ cury' = r + 1
           /\ page_top_ln_no' = IF r = 0 THEN ln_no + 1 ELSE page_top_ln_no
           /\ IF r + 1 = ScrollLines
              THEN page_bot_ln_no' = ln_no + 1 /\ Prompt(page_top_pos)
              ELSE pc' = "down" /\ UNCHANGED <<page_bot_ln_no, page_top_pos>>
    /\ UNCHANGED <<eof, file, ln_no_max, file_pos, scroll, mark, scrolled>>

DownEnd ==
    /\ pc = "down"
    /\ \/ ln_no >= ln_no_max /\ ln_no' = ln_no
       \/ ln_no < ln_no_max /\ NoLine(ln_no + 1) /\ ln_no' = ln_no + 1
    /\ page_bot_ln_no' = ln_no'
    /\ UNCHANGED <<eof, file, table, ln_no_max, file_pos, page_top_ln_no, cury, screen,
                   scroll, mark, scrolled>>
    /\ Prompt(page_top_pos)

DownWild ==
    /\ pc = "down"
    /\ ln_no < ln_no_max
    /\ Entry(ln_no + 1) = Wild
    /\ GoesWild
    /\ UNCHANGED <<eof, file, mark>>

-----------------------------------------------------------------------------
(* scroll_up *)

Up(n) ==
    /\ pc = "prompt"
    /\ eof' = FALSE
    /\ \/ /\ page_top_ln_no = 0
          /\ UNCHANGED <<table, page, scroll, scrolled>>
          /\ Prompt(page_top_pos)
       \/ /\ page_top_ln_no # 0
          /\ scrolled' = IF n = 1 /\ scrolled # "off" THEN "up" ELSE "off"
          /\ screen' = [r \in Row |-> IF r - n \in Row THEN screen[r - n] ELSE Blank]
          /\ cury' = 0
          /\ scroll' = n
          /\ pc' = "up"
          /\ UNCHANGED <<table, page_top_ln_no, page_bot_ln_no, page_top_pos>>
    /\ UNCHANGED <<file, ln_no, ln_no_max, file_pos, mark>>

UpTo == IF page_top_ln_no - scroll < 0 THEN 0 ELSE page_top_ln_no - scroll

\* Mutant: the line that is drawn is not counted.
UpLine_NotCounted ==
    /\ pc = "up"
    /\ SomeLine(UpTo)
    /\ GetLine(UpTo)
    /\ Draw(UpTo, LastRow(cury))
    /\ cury' = LastRow(cury) + 1
    /\ page_top_ln_no' = IF LastRow(cury) = 0 THEN UpTo ELSE page_top_ln_no
    /\ ln_no' = UpTo + 1
    /\ UNCHANGED <<pc, scroll, page_bot_ln_no, page_top_pos, eof, file, ln_no_max, file_pos,
                   mark, scrolled>>

UpLine ==
    /\ pc = "up"
    /\ SomeLine(UpTo)
    /\ GetLine(UpTo)
    /\ LET r == LastRow(cury)
       IN  /\ Draw(UpTo, r)
           /\ cury' = r + 1
           /\ page_top_ln_no' = IF r = 0 THEN UpTo ELSE page_top_ln_no
           /\ page_bot_ln_no' = IF r = ScrollLines - 1 THEN UpTo ELSE page_bot_ln_no
    /\ scroll' = scroll - 1
    /\ IF scroll = 1 THEN ln_no' = UpTo /\ Prompt(page_top_pos)
       ELSE ln_no' = UpTo + 1 /\ pc' = "up" /\ UNCHANGED page_top_pos
    /\ UNCHANGED <<eof, file, ln_no_max, file_pos, mark, scrolled>>

UpEod ==
    /\ pc = "up"
    /\ NoLine(UpTo)
    /\ ln_no' = UpTo - 1
    /\ UNCHANGED <<eof, file, table, ln_no_max, file_pos, page, scroll, mark, scrolled>>
    /\ Prompt(page_top_pos)

UpWild ==
    /\ pc = "up"
    /\ Entry(UpTo) = Wild
    /\ GoesWild
    /\ UNCHANGED <<eof, file, mark>>

-----------------------------------------------------------------------------
(* Pages and jumps. *)

\* KEY_NPAGE
NPage ==
    /\ pc = "prompt"
    /\ eof' = FALSE
    /\ NextPage(ln_no + 1, page_top_ln_no, cury, page_top_pos)
    /\ UNCHANGED <<file, ln_no_max, file_pos, mark>>

\* KEY_PPAGE, prev_page
PPage ==
    /\ pc = "prompt"
    /\ eof' = FALSE
    /\ LET up == page_top_ln_no - ScrollLines
           top == IF up >= 0 THEN up ELSE 0
       IN  \/ /\ page_top_ln_no = 0
              /\ UNCHANGED <<table, page, ln_no, scroll, scrolled>>
              /\ Prompt(page_top_pos)
           \/ /\ page_top_ln_no # 0
              /\ NextPage(top, top, 0, page_top_pos)
    /\ UNCHANGED <<file, ln_no_max, file_pos, mark>>

\* Ctrl-L and KEY_RESIZE: the page is displayed again from its top.
Redisplay ==
    /\ pc = "prompt"
    /\ eof' = FALSE
    /\ pc' = "display"
    /\ ln_no' = page_top_ln_no
    /\ page_top_ln_no' = 0
    /\ page_bot_ln_no' = 0
    /\ cury' = 0
    /\ scrolled' = "down"
    /\ UNCHANGED <<file, table, ln_no_max, file_pos, page_top_pos, screen, scroll, mark>>

\* 'G' behind a number, go_to_line.
GoToLine(n) ==
    /\ pc = "prompt"
    /\ eof' = FALSE
    /\ \/ /\ n - 1 > ln_tbl_size - 1
          /\ UNCHANGED <<table, page, ln_no, scroll, scrolled>>
          /\ Prompt(page_top_pos)
       \/ /\ n - 1 <= ln_tbl_size - 1
          /\ NextPage(n - 1, page_top_ln_no, cury, Entry(n - 1))
    /\ UNCHANGED <<file, ln_no_max, file_pos, mark>>

\* go_to_eof behind sync_ln: the last line is the one before line n.
ShowEnd(n) ==
    LET top == IF n - 1 > ScrollLines THEN n - ScrollLines ELSE n - 1
    IN  /\ ln_no_max' = n - 1
        /\ NextPage(top, top, 0, page_top_pos)

\* 'G', go_to_eof, and sync_ln up to the loop that reads on to the end.  What is read
\* outside of the table may equal the size of the file.
GoToEof ==
    /\ pc = "prompt"
    /\ eof' = TRUE
    /\ \/ /\ Entry(ln_no) \in {Size[file], Wild}
          /\ ShowEnd(ln_no)
          /\ file_pos' = Size[file]
       \/ /\ Entry(ln_no) # Size[file]
          /\ Entry(ln_tbl_cnt) = Size[file]
          /\ ShowEnd(ln_tbl_cnt)
          /\ file_pos' = Size[file]
       \/ /\ Entry(ln_no) # Size[file]
          /\ Entry(ln_tbl_cnt) \notin {Wild, Size[file]}
          /\ file_pos' = Entry(ln_tbl_cnt)
          /\ ln_no' = ln_tbl_cnt
          /\ pc' = "sync"
          /\ UNCHANGED <<table, page, page_top_pos, scroll, ln_no_max, scrolled>>
       \/ /\ Entry(ln_no) # Size[file]
          /\ Entry(ln_tbl_cnt) = Wild
          /\ GoesWild
    /\ UNCHANGED <<file, mark>>

\* Mutant: sync_ln leaves the line number to increment_ln, which does not get there.
SyncLine_SameLine ==
    /\ pc = "sync"
    /\ ln_max_pos < Size[file]
    /\ HasEnd(file, file_pos)
    /\ Increment(ln_no, NextEnd(file, file_pos))
    /\ ln_no' = ln_no + 1
    /\ file_pos' = NextEnd(file, file_pos)
    /\ UNCHANGED <<pc, eof, file, ln_no_max, page, page_top_pos, scroll, mark, scrolled>>

SyncLine ==
    /\ pc = "sync"
    /\ ln_max_pos < Size[file]
    /\ HasEnd(file, file_pos)
    /\ Increment(ln_no + 1, NextEnd(file, file_pos))
    /\ ln_no' = ln_no + 1
    /\ file_pos' = NextEnd(file, file_pos)
    /\ UNCHANGED <<pc, eof, file, ln_no_max, page, page_top_pos, scroll, mark, scrolled>>

SyncEnd ==
    /\ pc = "sync"
    /\ ln_max_pos >= Size[file] \/ ~HasEnd(file, file_pos)
    /\ ShowEnd(ln_no)
    /\ file_pos' = Size[file]
    /\ UNCHANGED <<eof, file, mark>>

\* The search of line_number: the table is bisected up to its capacity.  Where what it
\* holds, or the position, is not defined, the search may go on either way.
Bisect(position) ==
    LET bisect[low \in 0..ln_tbl_size, high \in -1..(ln_tbl_size - 1),
               prev \in 0..(ln_tbl_size - 1)] ==
            LET guess == low + (high - low) \div 2
                wild == Wild \in {position, ln_tbl[guess]}
            IN  IF low > high THEN {prev}
                ELSE IF wild
                THEN {guess} \cup bisect[guess + 1, high, guess] \cup bisect[low, guess - 1, prev]
                ELSE IF ln_tbl[guess] = position THEN {guess}
                ELSE IF ln_tbl[guess] < position THEN bisect[guess + 1, high, guess]
                ELSE bisect[low, guess - 1, prev]
    IN  bisect[0, ln_tbl_size - 1, 0]

\* What it returns is the index of an entry.
LineNumber(position) == {n \in 0..(ln_tbl_size - 1) : n \in Bisect(position)}

GoToPercent(p) ==
    /\ pc = "prompt"
    /\ eof' = FALSE
    /\ \E n \in LineNumber((p * Size[file]) \div 100) :
           LET top == IF n > ScrollLines THEN n - ScrollLines ELSE 0
           IN  NextPage(n, top, cury, Entry(top))
    /\ UNCHANGED <<file, ln_no_max, file_pos, mark>>

\* 'm'
SetMark ==
    /\ pc = "prompt"
    /\ eof' = FALSE
    /\ mark' = page_top_pos
    /\ UNCHANGED <<pc, file, table, ln_no, ln_no_max, file_pos, page, page_top_pos, scroll,
                   scrolled>>

\* 'M', go_to_mark and go_to_position.
GoToMark ==
    /\ pc = "prompt"
    /\ mark # NoMark
    /\ eof' = FALSE
    /\ \E n \in LineNumber(mark) : NextPage(n, page_top_ln_no, cury, page_top_pos)
    /\ UNCHANGED <<file, ln_no_max, file_pos, mark>>

-----------------------------------------------------------------------------
(* view_file *)

\* 'N' and 'P' leave the command processor and view_file opens a file.  Of
\* the table it resets all but the number of entries.
Open(f) ==
    /\ pc = "prompt"
    /\ pc' = "display"
    /\ eof' = FALSE
    /\ file' = f
    /\ ln_tbl' = [i \in 0..(LineTblIncr - 1) |-> 0]
    /\ ln_tbl_size' = LineTblIncr
    /\ ln_max_pos' = 0
    /\ ln_no' = 0
    /\ file_pos' = 0
    /\ page_top_ln_no' = 0
    /\ page_bot_ln_no' = 0
    /\ page_top_pos' = 0
    /\ cury' = 0
    /\ mark' = NoMark
    /\ scrolled' = "down"
    /\ UNCHANGED <<ln_tbl_cnt, ln_no_max, screen, scroll>>

Quit ==
    /\ pc = "prompt"
    /\ pc' = "closed"
    /\ eof' = FALSE
    /\ UNCHANGED <<file, table, ln_no, ln_no_max, file_pos, page, page_top_pos, scroll, mark,
                   scrolled>>

-----------------------------------------------------------------------------

Command ==
    \/ \E n \in Count : Down(n) \/ Up(n) \/ GoToLine(n)
    \/ \E p \in Percent : GoToPercent(p)
    \/ NPage \/ PPage \/ Redisplay \/ GoToEof \/ SetMark \/ GoToMark
    \/ \E f \in File : Open(f)
    \/ Quit

Loop ==
    \/ DisplayLine \/ DisplayEod \/ DisplayWild
    \/ DownLine \/ DownEnd \/ DownWild
    \/ UpLine \/ UpEod \/ UpWild
    \/ SyncLine \/ SyncEnd

\* View has ended, in one way or another.
Ended == pc \in {"closed", "wild"} /\ UNCHANGED vars

Next == Command \/ Loop \/ Ended

\* The loops run on by themselves; nobody has to press a key.
Spec == Init /\ [][Next]_vars /\ WF_vars(Loop)
-----------------------------------------------------------------------------
(* What must hold. *)

Positions == Nat \cup {Wild}

TypeOK ==
    /\ pc \in {"prompt", "display", "down", "up", "sync", "closed", "wild"}
    /\ eof \in BOOLEAN
    /\ file \in File
    /\ ln_tbl_size \in Nat
    /\ ln_tbl \in [0..(ln_tbl_size - 1) -> Positions]
    /\ ln_tbl_cnt \in Nat
    /\ ln_max_pos \in Nat
    /\ ln_no \in Int
    /\ ln_no_max \in Int
    /\ file_pos \in Nat
    /\ page_top_ln_no \in Nat
    /\ page_bot_ln_no \in Int
    /\ page_top_pos \in Positions
    /\ cury \in 0..ScrollLines
    /\ screen \in [Row -> [no : Nat, pos : Nat] \cup {Blank}]
    /\ scroll \in Nat
    /\ mark \in Positions \cup {NoMark}
    /\ scrolled \in {"down", "up", "off"}

\* The comment of increment_ln, "if the current file position exceeds the maximum
\* position recorded": whatever is shown, jumped to or reopened, the used part of the
\* table holds where the lines start, in order and without a gap.
TableRight ==
    ln_max_pos > 0 =>
        /\ ln_tbl_cnt \in Line(file)
        /\ ln_max_pos = LineStart(file, ln_tbl_cnt)
        /\ \A i \in 0..ln_tbl_cnt : Entry(i) = LineStart(file, i)

\* A row shows the line whose number it carries or, when the table did not know that
\* line, the first one of the file; never some other line.
RowsRight ==
    pc = "prompt" =>
        \A r \in Row : screen[r] # Blank /\ screen[r].pos # 0 =>
            /\ screen[r].no \in Line(file)
            /\ screen[r].pos = LineStart(file, screen[r].no)

\* The first row is what page_top_ln_no says, which every move to another page and
\* every mark starts from, and the rows go on in the order of the file.  That is so until
\* the page is scrolled by a count, down after it was scrolled up, down although the data
\* ends on it, or paged back from behind the end of the file.
RowsAscend ==
    pc = "prompt" /\ scrolled # "off" =>
        /\ screen[0] # Blank => screen[0].no = page_top_ln_no
        /\ \A r, q \in Row : r < q /\ Blank \notin {screen[r], screen[q]} =>
            screen[r].no < screen[q].no

\* 'G' shows the last line that has an end, however much of the file was read before.
EofShown ==
    LET last == Len(Ends[file]) - 1
    IN  pc = "prompt" /\ eof /\ last >= 0 =>
            \E r \in Row : screen[r] = [no |-> last, pos |-> LineStart(file, last)]

\* Every command comes back to the prompt.
Responds == pc \in {"display", "down", "up", "sync"} ~> pc \in {"prompt", "wild"}
-----------------------------------------------------------------------------
(* What the comments of View say and the code does not do. *)

\* view_engine.c:1511, scroll_down moves down n lines, "effectively advancing the display
\* by n lines": the rows of the page stay consecutive lines of the file.
RowsFollow ==
    pc = "prompt" =>
        \A r \in Row : r > 0 /\ Blank \notin {screen[r - 1], screen[r]} =>
            screen[r].no = screen[r - 1].no + 1
=============================================================================
