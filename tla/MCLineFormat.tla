---------------------------- MODULE MCLineFormat ----------------------------
(* Lines of up to four items of every kind, and longer ones of words and tabs, in     *)
(* windows narrower than some of their words.                                         *)
EXTENDS Integers, Sequences, SequencesExt, FiniteSetsExt

F == INSTANCE LineFormat

Glyph(w) == [kind |-> "char", width |-> w]
Gap == [kind |-> "blank"]
Dash == [kind |-> "dash"]
Tab == [kind |-> "tab"]
Items == {Glyph(1), Glyph(2), Glyph(0), Gap, Tab, [kind |-> "sgr", style |-> 7], [kind |-> "skip"]}

Lines(items, n) == UNION {[1..k -> items] : k \in 0..n}
Words == Lines({Glyph(1), Gap, Tab}, 7)
WideWords == Lines({Glyph(1), Glyph(2), Dash}, 6)
Mixed == Lines(Items, 4)

\* A mark without a width stands behind the character it belongs to; the cell of one that
\* begins a word behind a full row is lost.
MarksFollow(line) ==
    \A i \in DOMAIN line : line[i] = Glyph(0) => i > 1 /\ line[i - 1].kind = "char"
AllLines == {line \in Words \cup WideWords \cup Mixed : MarksFollow(line)}

Window(wrap, cols, f_ln) ==
    [wrap |-> wrap, cols |-> cols, f_ln |-> f_ln, ln_win_cols |-> 2, tab_stop |-> 3, maxcol |-> 0]
Narrow == Window(TRUE, 6, TRUE)
Wide == Window(FALSE, 6, FALSE)

RowsOf(st) == [i \in DOMAIN st.rows |->
                 SubSeq(st.cells, st.rows[i].first + 1, st.rows[i].first + st.rows[i].cells)]

\* The rows are the line: each cell is in one of them, in order, none is wider than the
\* window, and what a row claims of its columns is so.  Only a line that has one row
\* has none in the table.
RowsMakeLine(line) ==
    LET st == F!fmt_line(Narrow, line)
        rows == RowsOf(st)
    IN  st.endless \/
        IF rows = <<>> THEN F!Cols(st.cells) <= F!sl_maxlen(Narrow)
        ELSE /\ FlattenSeq(rows) = st.cells
             /\ \A i \in DOMAIN rows :
                    F!Cols(rows[i]) = st.rows[i].cols /\ F!Cols(rows[i]) <= F!sl_maxlen(Narrow)

\* A row ends inside a word only when that word is wider than a row or reaches the last
\* column of one.
BreaksAtWords(line) ==
    LET st == F!fmt_line(Narrow, line)
        cut == {st.rows[i].first : i \in DOMAIN st.rows} \ {0, Len(st.cells)}
    IN  st.endless \/ \A c \in cut :
            \/ st.cells[c].kind # "char"
            \/ st.cells[c + 1].kind # "char"
            \/ \E i, j \in 1..Len(st.cells) :
                   /\ i <= c /\ c < j /\ \A k \in i..j : st.cells[k].kind = "char"
                   /\ F!Cols(SubSeq(st.cells, i, j)) >= F!sl_maxlen(Narrow) - 1

\* Only a tab can keep the loop from ending, and only with wrapping; the cells are those of
\* the line in both, but for the blanks of tabs.
EndsButForTabs(line) ==
    LET n == F!fmt_line(Narrow, line)
        w == F!fmt_line(Wide, line)
        Chars(st) == SelectSeq(st.cells, LAMBDA c : c.kind # "tab")
    IN  /\ ~w.endless /\ w.rows = <<>> /\ w.maxcol = Len(w.cells)
        /\ (\A i \in DOMAIN line : line[i].kind # "tab") => ~n.endless
        /\ ~n.endless => Chars(n) = Chars(w)
        /\ F!Cols(w.cells) = FoldSeq(LAMBDA it, c : c + (CASE it.kind = "char" -> it.width
                                     [] it.kind = "tab" -> Wide.tab_stop
                                     [] it.kind \in {"blank", "dash"} -> 1
                                     [] OTHER -> 0), 0, line)

\* With wrapping a tab ends at a tab stop of its row.
TabsStop(line) ==
    LET st == F!fmt_line(Narrow, line)
    IN  st.endless \/ \A i \in 1..Len(line) :
            line[i].kind = "tab" =>
                LET upto == FoldLeft(LAMBDA s, it : F!Item(Narrow, s, it), F!Empty(0), SubSeq(line, 1, i))
                IN  upto.sl_cols % Narrow.tab_stop = 0

ASSUME LinesWrapped ==
    \A line \in AllLines :
        RowsMakeLine(line) /\ BreaksAtWords(line) /\ EndsButForTabs(line) /\ TabsStop(line)

\* A tab behind a blank, where no tab stop is left in front of the end of a row, is such a line.
ASSUME TabEndless ==
    F!fmt_line(Narrow, <<Glyph(1), Glyph(1), Gap, Tab>>).endless

\* A page filled line by line shows each row of each line once, and remembers the line
\* and the row that stand at its top and at its bottom.
Page == [page |-> [i \in 0..3 |-> <<>>], cury |-> 0, scroll_lines |-> 4, wrap |-> TRUE,
         top |-> [ln_no |-> -1, sl_idx |-> 0, sl_cnt |-> 0],
         bot |-> [ln_no |-> -1, sl_idx |-> 0, sl_cnt |-> 0], sl_idx |-> 0, ln_no |-> 0]
Filled(cnts) ==
    FoldLeft(LAMBDA v, i : IF v.cury >= v.scroll_lines THEN v
                           ELSE F!display_line([v EXCEPT !.ln_no = i], cnts[i]),
             Page, [i \in DOMAIN cnts |-> i])

ASSUME PageFilled ==
    \A cnts \in [1..4 -> {0, 2, 3, 5}] :
        LET v == Filled(cnts)
            rows == FlattenSeq([i \in 1..4 |-> [k \in 1..Max({1, cnts[i]}) |-> <<i, k - 1>>]])
        IN  /\ \A y \in 0..3 : v.page[y] = rows[y + 1]
            /\ v.top.ln_no = 1 /\ v.bot.ln_no = v.page[3][1]
            /\ cnts[v.bot.ln_no] > 0 => v.bot.sl_idx = v.page[3][2]
=============================================================================
