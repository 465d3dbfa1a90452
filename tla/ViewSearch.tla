----------------------------- MODULE ViewSearch -----------------------------
(***************************************************************************)
(* The pager with its command line: digits and arguments are typed, with    *)
(* LineEdit, in front of the commands of ViewEngine, and '/' and 'n' search *)
(* (src/src/view_engine.c).  A key is one action, and so is each line that  *)
(* the search reads.  Enter ends an argument as KEY_ENTER, and '?' asks for *)
(* a newline, so a search never goes backward.                              *)
(***************************************************************************)
EXTENDS ViewEngine, LineEdit

CONSTANTS
    Invalid,        \* arguments that regcomp refuses
    Finds(_, _, _), \* Finds(pattern, f, pos): the line of f at pos matches
    Other           \* a line put together from the ends of others

ASSUME SearchAssumption ==
    /\ Other \notin Int
    /\ \A f \in File : \A i \in Line(f) : ~TooLong(f, LineStart(f, i))

VARIABLES
    num,            \* get_cmd_char: the digits in front of a command
    arg,            \* cmd_arg as cf_accept edits it, whether it is for '/', and, a history,
                    \* the longest field so far
    srch,           \* srch_curr_ln_no, f_first_iter and f_search_complete, which last;
                    \* the pattern, f_page and line_in_s of the search that runs
    prev,           \* prev_search_cmd and prev_regex_pattern
    hist            \* history: where the search set out, and that it began again at the top

searching == <<num, arg, srch, prev, hist>>
allvars == <<vars, searching>>

NoPattern == <<Nul>>

NoSearch == [curr |-> 0, first |-> FALSE, complete |-> FALSE,
             pattern |-> NoPattern, f_page |-> FALSE, line |-> Other]

NoHistory == [from |-> 0, wrapped |-> FALSE]

SearchInit ==
    /\ Init
    /\ num = NoDigits
    /\ arg = [ed |-> Editing([i \in Place |-> Nul], 0), for |-> "none", longest |-> 0]
    /\ srch = NoSearch
    /\ prev = NoPattern
    /\ hist = NoHistory

-----------------------------------------------------------------------------
(* The digits, and the command behind them. *)

\* A bound of the model: a command is given at most MaxDigits digits.  (get_cmd_char takes
\* 32 and leaves the next one to ask for an argument.)
DigitTyped ==
    /\ pc = "prompt"
    /\ num.at < MaxDigits
    /\ \E d \in Digit : num' = TypeDigit(num, d)
    /\ UNCHANGED <<vars, arg, srch, prev, hist>>

\* The keys that move among the digits leave the row of the command line in cury.
DigitsEdited ==
    /\ pc = "prompt"
    /\ \E k \in DigitKey :
           /\ num' = DigitEdited(num, k)
           /\ cury' = IF k \in {"sright", "sleft"} /\ num'.at # num.at THEN 0 ELSE cury
    /\ UNCHANGED <<pc, eof, file, table, ln_no, ln_no_max, file_pos, page_top_ln_no,
                   page_bot_ln_no, screen, page_top_pos, scroll, mark, scrolled, arg, srch,
                   prev, hist>>

AtLeastOne(n) == IF n = 0 THEN 1 ELSE n

\* view_cmd_processor, with n_cmd as it was typed: the commands of ViewEngine but for
\* marks, percentages and the redisplay, which no search looks at.
Counted(n) ==
    \/ Down(AtLeastOne(n)) \/ Up(AtLeastOne(n))
    \/ IF n > 0 THEN GoToLine(n) ELSE GoToEof
    \/ NPage \/ PPage
    \/ Quit

SearchCommand ==
    /\ Counted(NumberOf(num))
    /\ num' = NoDigits
    /\ UNCHANGED <<arg, srch, prev, hist>>

\* Another file: view_cmd_processor starts anew and knows of no search.
SearchOpen ==
    /\ \E f \in File : Open(f)
    /\ num' = NoDigits
    /\ prev' = NoPattern
    /\ UNCHANGED <<arg, srch, hist>>

-----------------------------------------------------------------------------
(* Arguments. *)

\* get_cmd_arg for '/', for '?', and for the other commands with an argument ('o', '!',
\* '+', 't'), which wait for an answer that cf_accept does not give; what '?' asks for is
\* dropped as well.
AskArgument ==
    /\ pc = "prompt"
    /\ pc' = "argument"
    /\ \E c \in {"/", "?", "other"}, flen \in FieldLens :
           /\ arg' = [ed |-> Editing(arg.ed.buf, flen), for |-> IF c = "/" THEN c ELSE "other",
                      longest |-> IF flen > arg.longest THEN flen ELSE arg.longest]
           /\ srch' = IF c = "other" THEN srch ELSE [srch EXCEPT !.complete = FALSE]
    /\ num' = NoDigits
    /\ UNCHANGED <<eof, file, table, ln_no, ln_no_max, file_pos, page, page_top_pos, scroll,
                   mark, scrolled, prev, hist>>

\* The editor becomes ed, unless the key looks or writes behind the buffer.
Keyed(found, ed) ==
    IF found /\ InBuffer(ed)
    THEN arg' = [arg EXCEPT !.ed = ed] /\ UNCHANGED vars
    ELSE GoesWild /\ UNCHANGED <<eof, file, mark, arg>>

ArgumentKey ==
    /\ pc = "argument"
    /\ LET ed == arg.ed
       IN  \/ \E c \in Char \cup {Space} :
                  Keyed(EndsBehind(ed.buf, TypedFrom(ed, c)), Typed(ed, c))
           \/ \E k \in EditKey : Keyed(EndsBehind(ed.buf, LooksFrom(ed, k)), Edited(ed, k))
    /\ UNCHANGED <<num, srch, prev, hist>>

\* A report of the mouse: click_x is -1 as cf_accept set it, and the cursor goes to a
\* place in front of the buffer.
ArgumentMouse ==
    /\ pc = "argument"
    /\ GoesWild
    /\ UNCHANGED <<eof, file, mark, searching>>

\* The processor clears cmd_arg before it asks for the next command.
Cleared(buf) == [arg EXCEPT !.ed = Editing([buf EXCEPT ![0] = Nul], 0), !.for = "none"]

\* Mutant: the line where the last search stopped is taken for done.
StartSearch_SkipsOne(pattern, first) ==
    /\ pc' = "search"
    /\ srch' = [srch EXCEPT !.pattern = pattern, !.first = first, !.f_page = FALSE,
                            !.line = Other, !.curr = @ + 1]
    /\ hist' = [NoHistory EXCEPT !.from = srch.curr]
    /\ UNCHANGED page_top_pos

\* search begins with the line where the last one stopped: whoever calls it sets positions,
\* which nobody reads.
StartSearch(pattern, first) ==
    /\ pc' = "search"
    /\ srch' = [srch EXCEPT !.pattern = pattern, !.first = first, !.f_page = FALSE,
                            !.line = Other]
    /\ hist' = [NoHistory EXCEPT !.from = srch.curr]
    /\ UNCHANGED page_top_pos

\* Enter: the argument is taken.  Of the commands only '/' goes on.
ArgumentEnter ==
    /\ pc = "argument"
    /\ LET buf == Accepted(arg.ed)
           pattern == Text(buf)
       IN  /\ arg' = Cleared(buf)
           /\ cury' = IF arg.for = "/" THEN 0 ELSE cury
           /\ \/ /\ arg.for = "/" /\ pattern # <<>> /\ pattern \notin Invalid
                 /\ StartSearch(pattern, TRUE)
              \/ /\ arg.for # "/" \/ pattern = <<>> \/ pattern \in Invalid
                 /\ srch' = IF arg.for = "/" THEN [srch EXCEPT !.first = TRUE] ELSE srch
                 /\ UNCHANGED <<table, page_top_ln_no, hist>>
                 /\ Prompt(page_top_pos)
    /\ UNCHANGED <<eof, file, table, ln_no, ln_no_max, file_pos, page_top_ln_no,
                   page_bot_ln_no, screen, scroll, mark, scrolled, num, prev>>

ArgumentF9 ==
    /\ pc = "argument"
    /\ arg' = Cleared(arg.ed.buf)
    /\ UNCHANGED <<eof, file, table, ln_no, ln_no_max, file_pos, page, scroll, mark,
                   scrolled, num, srch, prev, hist>>
    /\ Prompt(page_top_pos)

\* 'n': the last search goes on, unless it was through.
SearchAgain ==
    /\ pc = "prompt"
    /\ num' = NoDigits
    /\ \/ /\ srch.complete \/ prev = NoPattern
          /\ UNCHANGED <<table, page_top_ln_no, cury, srch, hist>>
          /\ Prompt(page_top_pos)
       \/ /\ ~srch.complete /\ prev # NoPattern
          /\ cury' = 0
          /\ StartSearch(prev, srch.first)
    /\ UNCHANGED <<eof, file, table, ln_no, ln_no_max, file_pos, page_top_ln_no,
                   page_bot_ln_no, screen, scroll, mark, scrolled, arg, prev>>

-----------------------------------------------------------------------------
(* search, a line at a time. *)

\* A line number is taken for the end when it equals the size of the file.
Current == IF srch.curr = Size[file] THEN 0 ELSE srch.curr

\* The line where the search began is never set; it is 0.
AtBeginning == Current = 0

\* Mutant: the end is tested for when the number has just left it.
Through_AtEnd == Current = Size[file] /\ ~srch.first

Through == AtBeginning /\ ~srch.first

RowAtLoop == IF AtBeginning THEN 0 ELSE cury

\* What line_in_s holds when line n was read: nothing new at the end of the data, and part
\* of a line when the data ends in it.
LineRead(n) ==
    IF SomeLine(n) THEN Entry(n)
    ELSE IF Entry(n) = Size[file] THEN srch.line ELSE Other

Matches(line) ==
    IF line = Other THEN BOOLEAN ELSE {Finds(srch.pattern, file, line)}

\* The end of the search: what it found counts as the last one to go on with.  What is
\* local to search is forgotten.
Cleanup(curr, first, complete, found) ==
    /\ ln_no' = curr
    /\ prev' = IF found THEN srch.pattern ELSE prev
    /\ srch' = [NoSearch EXCEPT !.curr = curr, !.first = first, !.complete = complete]
    /\ hist' = NoHistory
    /\ Prompt(page_top_pos)

SearchLine ==
    /\ pc = "search"
    /\ ~Through
    /\ RowAtLoop # ScrollLines
    /\ Entry(Current) # Wild
    /\ LET n == Current
           line == LineRead(n)
           r == RowAtLoop
           first == srch.first /\ ~AtBeginning
           complete == srch.complete /\ ~AtBeginning
       IN  /\ IF SomeLine(n) THEN GetLine(n) ELSE UNCHANGED table
           /\ \E matches \in Matches(line) :
                  LET shown == matches \/ srch.f_page
                  IN  /\ page_top_ln_no' = IF shown /\ (~srch.f_page \/ r = 0)
                                           THEN n ELSE page_top_ln_no
                      /\ page_bot_ln_no' = n
                      /\ cury' = IF shown THEN r + 1 ELSE r
                      /\ screen' = IF shown THEN [screen EXCEPT ![r] = [no |-> n, pos |-> line]]
                                   ELSE screen
                      /\ \/ /\ ~matches /\ cury' = ScrollLines
                            /\ Cleanup(n, first, complete, TRUE)
                         \/ /\ matches \/ cury' # ScrollLines
                            /\ pc' = "search"
                            /\ ln_no' = n
                            /\ srch' = [srch EXCEPT !.curr = n + 1, !.first = first,
                                                    !.complete = complete, !.f_page = shown,
                                                    !.line = line]
                            /\ hist' = [hist EXCEPT !.wrapped = @ \/ n # srch.curr
                                                                \/ (n = 0 /\ srch.f_page)]
                            /\ UNCHANGED <<page_top_pos, prev>>
    /\ scrolled' = "off"
    /\ UNCHANGED <<eof, file, ln_no_max, file_pos, scroll, mark, num, arg>>

\* The page is full, or the line where it all began comes round again.
SearchEnd ==
    /\ pc = "search"
    /\ Through \/ RowAtLoop = ScrollLines
    /\ UNCHANGED <<eof, file, table, ln_no_max, file_pos, page, scroll, mark, scrolled,
                   num, arg>>
    /\ Cleanup(Current, srch.first, srch.complete \/ Through, srch.f_page)

\* sync_ln looks up the line, and the number of entries that a file before may have left
\* over, before the row is compared.
SearchWild ==
    /\ pc = "search"
    /\ ~Through
    /\ Wild \in {Entry(Current), Entry(ln_tbl_cnt)}
    /\ GoesWild
    /\ UNCHANGED <<eof, file, mark, searching>>

-----------------------------------------------------------------------------

Typing ==
    \/ DigitTyped \/ DigitsEdited
    \/ AskArgument \/ ArgumentKey \/ ArgumentMouse \/ ArgumentEnter \/ ArgumentF9
    \/ SearchAgain

Searching == SearchLine \/ SearchEnd \/ SearchWild

SearchNext ==
    \/ SearchCommand \/ SearchOpen
    \/ Typing
    \/ Searching
    \/ Loop /\ UNCHANGED searching
    \/ Ended /\ UNCHANGED searching

\* A search runs on by itself.
SearchSpec == SearchInit /\ [][SearchNext]_allvars /\ WF_allvars(Searching)
-----------------------------------------------------------------------------
(* What must hold. *)

\* The editors stay in their fields: nothing is written behind the longest field of an
\* argument although the text in the buffer may have lost its terminator, the cursor stays
\* where a character may still stand, and the text ends in the buffer.
SearchTypeOK ==
    /\ num.digits \in Seq(Digit) /\ Len(num.digits) <= MaxDigits
    /\ num.at \in 0..Len(num.digits)
    /\ arg.for \in {"none", "/", "other"}
    /\ arg.ed.flen \in FieldLens \cup {0} /\ arg.longest \in FieldLens \cup {0}
    /\ arg.ed.flen <= arg.longest
    /\ arg.ed.buf \in Buffers
    /\ \A i \in Place : i >= arg.longest => arg.ed.buf[i] = Nul
    /\ {arg.ed.p, arg.ed.end} \subseteq 0..arg.longest
    /\ InBuffer(arg.ed)
    /\ arg.ed.insert \in BOOLEAN
    /\ srch.curr \in Nat
    /\ {srch.first, srch.complete, srch.f_page} \subseteq BOOLEAN
    /\ screen \in [Row -> [no : Nat, pos : Nat \cup {Other}] \cup {Blank}]
    /\ cury \in 0..ScrollLines

\* No key looks or writes behind the buffer of an argument, whatever was typed and cut out
\* before, as long as every field so far was shorter than it.  Nothing keeps the fields of
\* a window of more than MAXLEN columns so short (view_engine.c:898).
ArgumentInBuffer ==
    pc = "argument" /\ arg.longest < BufferLen =>
        LET ed == arg.ed
        IN  /\ \A c \in Char \cup {Space} :
                  EndsBehind(ed.buf, TypedFrom(ed, c)) /\ InBuffer(Typed(ed, c))
            /\ \A k \in EditKey :
                  EndsBehind(ed.buf, LooksFrom(ed, k)) /\ InBuffer(Edited(ed, k))

HasLine(n) == n < Len(Ends[file])

\* A search that set out from a line the table knows, if it is one of the file (where the
\* last one stopped may be a line of another file, or one the table does not know any
\* more): as long as it has not come round to the first line again, its page begins with
\* the first line that matches, of those from where it set out, and goes on with the lines
\* behind it whether they match or not.
SearchRight ==
    pc = "search" /\ ~hist.wrapped /\ (HasLine(hist.from) => hist.from <= ln_tbl_cnt) =>
        /\ \A i \in hist.from..(srch.curr - 1) :
              HasLine(i) /\ Finds(srch.pattern, file, LineStart(file, i))
                  => srch.f_page /\ page_top_ln_no <= i
        /\ srch.f_page =>
              \A r \in Row : r < cury =>
                  /\ screen[r].no = page_top_ln_no + r
                  /\ HasLine(screen[r].no) => screen[r].pos = LineStart(file, screen[r].no)

\* A search ends, whether anything matches or not.
SearchEnds == pc = "search" ~> pc \in {"prompt", "wild"}
=============================================================================
