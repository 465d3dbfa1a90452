----------------------------- MODULE LineFormat -----------------------------
(***************************************************************************)
(* A line of the pager made ready for the screen (view_engine.c): its        *)
(* characters become cells with the style of the escape sequences in front    *)
(* of them and, with wrapping, the cells are divided into rows of the window  *)
(* that break between words.  A line is a sequence of items: characters with  *)
(* their width, blanks, dashes, tabs and escape sequences.                    *)
(*                                                                            *)
(* Left out: an escape sequence the line ends in, a byte that is no character *)
(* and a character without a width, which all read or write beyond the line.  *)
(***************************************************************************)
EXTENDS Integers, Sequences, SequencesExt, FiniteSetsExt, Functions

\* The columns of a row: those of the window without the line numbers.
sl_maxlen(view) == view.cols - IF view.f_ln THEN view.ln_win_cols ELSE 0

Cols(cells) == FoldSeq(LAMBDA c, n : c.width + n, 0, cells)

\* cells is the line so far, and sl_cc the place in it where the row in hand begins: sl_cells
\* cells of sl_cols columns and, behind them, the word that is not yet complete.
Empty(maxcol) ==
    [cells |-> <<>>, rows |-> <<>>, sl_cc |-> 0, sl_cols |-> 0, sl_cells |-> 0,
     word_cols |-> 0, word_cells |-> 0, style |-> 0, maxcol |-> maxcol, endless |-> FALSE]

Separates == {"blank", "dash", "tab"}

\* The blanks a tab stands for; without wrapping the columns are not counted.
tab_spaces(view, st) == view.tab_stop - ((st.sl_cols + st.word_cols) % view.tab_stop)

Columns(view, st, item) ==
    CASE item.kind = "tab"            -> tab_spaces(view, st)
      [] item.kind \in {"blank", "dash"} -> 0
      [] item.kind = "end"            -> 1

\* A character always goes on; a separator and the end of the line may have to wait for a
\* new row.
Fits(view, st, item) ==
    \/ ~view.wrap
    \/ item.kind \notin Separates \cup {"end"}
    \/ st.sl_cols + st.word_cols + Columns(view, st, item) <= sl_maxlen(view) - 1

\* The word becomes part of the row, with n columns of the separator behind it.
EndWord(view, st, n) ==
    IF ~view.wrap THEN st
    ELSE [st EXCEPT !.sl_cols = @ + st.word_cols + n, !.sl_cells = @ + st.word_cells + n,
                    !.word_cols = 0, !.word_cells = 0]

Write(st, kind, width, n) ==
    [st EXCEPT !.cells = @ \o [i \in 1..n |-> [kind |-> kind, width |-> width, style |-> st.style]]]

\* An escape sequence that sets no style ("skip": one that erases, one with a blank in it,
\* one without a bracket) is left out of the line.
Place(view, st, item) ==
    CASE item.kind = "char" ->
            LET w == Write(st, "char", item.width, 1)
            IN  IF view.wrap THEN [w EXCEPT !.word_cols = @ + item.width, !.word_cells = @ + 1]
                ELSE w
      [] item.kind \in {"blank", "dash"} -> EndWord(view, Write(st, item.kind, 1, 1), 1)
      [] item.kind = "tab" ->
            LET n == tab_spaces(view, st) IN EndWord(view, Write(st, "tab", 1, n), n)
      [] item.kind = "sgr"  -> [st EXCEPT !.style = item.style]
      [] item.kind = "skip" -> st
      [] item.kind = "end"  -> EndWord(view, st, 0)

\* A row of so many cells is done and the next begins behind it.
Row(st, cells, cols) ==
    [st EXCEPT !.rows = Append(@, [first |-> st.sl_cc, cells |-> cells, cols |-> cols]),
               !.sl_cc = @ + cells, !.maxcol = Max({@, st.sl_cols})]

\* The row ends in front of the word in hand, which the next one begins with.
BreakBeforeWord(view, st) ==
    IF st.word_cols > 0 /\ st.sl_cols <= sl_maxlen(view)
    THEN [Row(st, st.sl_cells, st.sl_cols) EXCEPT
             !.sl_cols = st.word_cols, !.sl_cells = st.word_cells,
             !.word_cols = 0, !.word_cells = 0]
    ELSE st

\* As many cells as a row holds; one that is wider than a row is taken for a full one.
Taken(row, maxlen) ==
    Min({k \in 0..Len(row) :
            \/ k = Len(row) \/ Cols(SubSeq(row, 1, k)) >= maxlen
            \/ Cols(SubSeq(row, 1, k + 1)) > maxlen})

RECURSIVE SplitLong(_, _)
SplitLong(view, st) ==
    LET maxlen == sl_maxlen(view)
        row == SubSeq(st.cells, st.sl_cc + 1, st.sl_cc + st.sl_cells)
        k == Taken(row, maxlen)
        cells == Max({1, k})
        cols == IF k = 0 THEN maxlen ELSE Cols(SubSeq(row, 1, k))
    IN  IF st.sl_cols <= maxlen - 1 THEN st
        ELSE SplitLong(view, [Row(st, cells, cols) EXCEPT
                 !.sl_cols = @ - cols, !.sl_cells = @ - cells, !.word_cols = 0, !.word_cells = 0])

Wrap(view, st) ==
    LET w == IF view.wrap THEN SplitLong(view, BreakBeforeWord(view, st)) ELSE st
    IN  [w EXCEPT !.maxcol = Max({@, Len(w.cells)})]

\* An item that does not fit is tried again after the row is done.  A tab that does not fit
\* where no word is in hand stays where it is: the loop does not end.
Item(view, st, item) ==
    LET w == Wrap(view, st)
        v == Wrap(view, w)
    IN  IF st.endless THEN st
        ELSE IF Fits(view, st, item) THEN Place(view, st, item)
        ELSE IF item.kind = "end" THEN st
        ELSE IF Fits(view, w, item) THEN Place(view, w, item)
        ELSE IF Fits(view, v, item) THEN Place(view, v, item)
        ELSE [v EXCEPT !.endless = TRUE]

\* The line, and the rows it has when it does not fit in one.
fmt_line(view, line) ==
    LET end == Item(view, FoldLeft(LAMBDA st, it : Item(view, st, it), Empty(view.maxcol), line),
                    [kind |-> "end"])
        all == IF line = <<>> \/ end.endless THEN end ELSE Wrap(view, end)
    IN  IF all.rows = <<>> THEN all ELSE Row(all, all.sl_cells, all.sl_cols)

\* The rows of a line from sl_idx on, as many as the page has room for, and what the page
\* remembers of its first and last row.
display_split_line(view, sl_cnt) ==
    LET y == Min({view.cury, view.scroll_lines - 1})
        n == Min({sl_cnt - view.sl_idx, view.scroll_lines - y})
        top == [ln_no |-> view.ln_no, sl_idx |-> view.sl_idx, sl_cnt |-> sl_cnt]
        bot == [ln_no |-> view.ln_no, sl_idx |-> view.sl_idx + n - 1, sl_cnt |-> sl_cnt]
    IN  [view EXCEPT !.page = [i \in DOMAIN @ |->
                                  IF i \in y..(y + n - 1) THEN <<view.ln_no, view.sl_idx + i - y>>
                                  ELSE @[i]],
                     !.top = IF y = 0 THEN top ELSE @,
                     !.bot = IF y + n = view.scroll_lines THEN bot ELSE @,
                     !.cury = y + n]

\* A line that fits is one row of the page.
display_line(view, sl_cnt) ==
    LET y == Min({view.cury, view.scroll_lines - 1})
    IN  IF view.wrap /\ sl_cnt > 0 /\ view.sl_idx < sl_cnt THEN display_split_line(view, sl_cnt)
        ELSE [view EXCEPT !.page[y] = <<view.ln_no, 0>>,
                          !.top.ln_no = IF y = 0 THEN view.ln_no ELSE @,
                          !.bot.ln_no = IF y = view.scroll_lines - 1 THEN view.ln_no ELSE @,
                          !.cury = y + 1]
=============================================================================
