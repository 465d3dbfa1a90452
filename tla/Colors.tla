------------------------------- MODULE Colors -------------------------------
(***************************************************************************)
(* The colours and colour pairs the program defines in the terminal          *)
(* (ui_ncurses.c), the palette of a theme (dwin.c) and the escape sequences   *)
(* of a text that choose them (view_engine.c).  A colour is a triple of       *)
(* channels, 0..255 in the program and 0..1000 in the terminal.               *)
(***************************************************************************)
EXTENDS Integers, Sequences, SequencesExt, FiniteSetsExt

CONSTANTS UI_COLORS, UI_PAIRS,      \* the sizes of the terminal's two tables
          CLR_NCOLORS,              \* the slots of a theme, in front of all others
          CLR_NT_FG, CLR_NT_BG      \* the two of them for normal text

Channel == 1..3
Black == <<0, 0, 0>>

\* The tables of the terminal and the counts the program keeps of what is in them;
\* gamma is the correction of each channel, and of a gray, as a function on 0..255.
NewTables(gamma) ==
    [color |-> [c \in 0..(UI_COLORS - 1) |-> Black], ui_color_cnt |-> 0,
     pair |-> [p \in 0..(UI_PAIRS - 1) |-> <<0, 0>>], ui_pair_cnt |-> 0,
     gamma |-> gamma,
     std_color |-> <<<<0, 0, 0>>, <<128, 0, 0>>, <<0, 128, 0>>, <<128, 128, 0>>,
                     <<0, 0, 128>>, <<128, 0, 128>>, <<0, 128, 128>>, <<192, 192, 192>>,
                     <<128, 128, 128>>, <<255, 0, 0>>, <<0, 255, 0>>, <<255, 255, 0>>,
                     <<0, 0, 255>>, <<255, 0, 255>>, <<0, 255, 255>>, <<255, 255, 255>>>>]

IsGray(rgb) == rgb[1] = rgb[2] /\ rgb[2] = rgb[3]

apply_gamma(ui, rgb) ==
    IF IsGray(rgb) THEN [i \in Channel |-> ui.gamma.gray[rgb[i]]]
    ELSE [i \in Channel |-> IF rgb[i] = 0 THEN 0 ELSE ui.gamma.channel[i][rgb[i]]]

Scaled(rgb) == [i \in Channel |-> (rgb[i] * 1000) \div 255]

\* A call that puts something in a table returns the tables and the index.
Answer(ui, i) == [ui |-> ui, index |-> i]

\* The first pair is written to slot 1 and answered with 0, and the second pair goes to
\* slot 1 again: only from then on is the answer the slot.
ui_add_pair(ui, fg, bg) ==
    LET same == {p \in 1..(ui.ui_pair_cnt - 1) : ui.pair[p] = <<fg, bg>>}
        free == Max({1, ui.ui_pair_cnt})
    IN  IF same # {} THEN Answer(ui, Min(same))
        ELSE IF free + 1 >= UI_PAIRS THEN Answer(ui, 1)    \* EXIT_FAILURE
        ELSE Answer([ui EXCEPT !.pair[free] = <<fg, bg>>, !.ui_pair_cnt = @ + 1],
                    ui.ui_pair_cnt)

\* A slot is filled; the copy of the first 16 is kept in the scale of the caller.
SetColor(ui, c, rgb, kept) ==
    [ui EXCEPT !.color[c] = rgb,
               !.std_color = IF c < 16 THEN [@ EXCEPT ![c + 1] = kept] ELSE @]

\* The last slot is filled again and again, and answered with the one before it.
AddColor(ui, seen, rgb, kept) ==
    LET same == {c \in 0..(ui.ui_color_cnt - 1) : ui.color[c] = seen}
        cnt == Min({ui.ui_color_cnt + 1, UI_COLORS - 1})
    IN  IF same # {} THEN Answer(ui, Min(same))
        ELSE Answer([SetColor(ui, ui.ui_color_cnt, rgb, kept) EXCEPT !.ui_color_cnt = cnt],
                    cnt - 1)

ui_add_color_rgb(ui, rgb) ==
    LET c == Scaled(apply_gamma(ui, rgb)) IN AddColor(ui, c, c, c)

\* This one looks for the colour before it is scaled.
ui_add_color_hex(ui, rgb) ==
    LET c == apply_gamma(ui, rgb) IN AddColor(ui, c, Scaled(c), c)

ui_chg_color_hex(ui, color, rgb) ==
    LET c == apply_gamma(ui, rgb)
    IN  IF color + 1 >= UI_COLORS THEN ui ELSE SetColor(ui, color, Scaled(c), c)

ui_chg_color_rgb(ui, color, rgb) ==
    LET c == Scaled(apply_gamma(ui, rgb))
    IN  IF color + 1 >= UI_COLORS THEN ui ELSE SetColor(ui, color, c, c)

ui_chg_pair(ui, p, fg, bg) ==
    IF p + 1 >= UI_PAIRS THEN ui ELSE [ui EXCEPT !.pair[p] = <<fg, bg>>]

\* ui_pair_from_hex and ui_cell_from_hex: the two colours, then the pair.
ui_pair_from_hex(ui, fg, bg) ==
    LET f == ui_add_color_rgb(ui, fg)
        b == ui_add_color_rgb(f.ui, bg)
    IN  ui_add_pair(b.ui, f.index, b.index)

\* The colours of a theme: those it names replace the slot's.
init_clr_palette(ui, theme) ==
    LET Named(u, c) == IF c \in DOMAIN theme THEN ui_chg_color_hex(u, c, theme[c]) ELSE u
        all == FoldLeft(Named, ui, [i \in 1..CLR_NCOLORS |-> i - 1])
    IN  [all EXCEPT !.ui_color_cnt = CLR_NCOLORS]

\* The gammas and the palette of the theme, a pair for each of the program's purposes (two
\* slots of the theme), and the pair of each of its cells (two colours).  index holds what
\* the calls answered.
initialize_cells(ui, sio, pairs, cells) ==
    LET Note(st, call) == [ui |-> call.ui, index |-> Append(st.index, call.index)]
        Pair(st, p) == Note(st, ui_add_pair(st.ui, p[1], p[2]))
        Cell(st, c) == Note(st, ui_pair_from_hex(st.ui, c[1], c[2]))
        start == [ui |-> init_clr_palette([ui EXCEPT !.gamma = sio.gamma], sio.palette),
                  index |-> <<>>]
    IN  FoldLeft(Cell, FoldLeft(Pair, start, pairs), cells)

\* The colour of an index of the 256: the 16 standard ones, a cube of six levels, grays.
xterm256_idx_to_rgb(ui, idx) ==
    LET i == Min({idx, 255})
        cube == i - 16
    IN  IF i < 16 THEN ui.std_color[i + 1]
        ELSE IF i <= 231 THEN <<(cube \div 36) % 6 * 51, (cube \div 6) % 6 * 51, cube % 6 * 51>>
        ELSE [c \in Channel |-> (i - 232) * 11]

----------------------------------------------------------------------------
(* An escape sequence is a sequence of numbers, each with its digits.  The state is the *)
(* attributes set, the slots of foreground and background, and the numbers of a         *)
(* selection (38 or 48) read so far.                                                    *)

WA_NORMAL == {}
AttrOf(n) == IF n \in {1, 2, 3, 4, 5, 7, 8} THEN {n} ELSE {}

Ground(tens, st, slot) == IF tens = 3 THEN [st EXCEPT !.fg = slot] ELSE [st EXCEPT !.bg = slot]

\* A colour is added as soon as it is named.
Choose(tens, st, rgb) ==
    LET c == ui_add_color_rgb(st.ui, rgb)
    IN  Ground(tens, [st EXCEPT !.ui = c.ui, !.sel = <<>>], c.index)

Selecting(st, n) ==
    LET sel == Append(st.sel, n)
        tens == sel[1] \div 10
    IN  IF Len(sel) = 3 /\ sel[2] = 5 THEN Choose(tens, st, xterm256_idx_to_rgb(st.ui, n))
        ELSE IF Len(sel) = 5 THEN Choose(tens, st, SubSeq(sel, 3, 5))
        ELSE [st EXCEPT !.sel = sel]

\* Numbers of three digits and those of two that name no colour change nothing: with 01
\* the zero is overwritten by the one and 11 is read.
Number(st, tok) ==
    LET n == tok.n
        tens == n \div 10
        ones == n % 10
    IN  IF st.sel # <<>> THEN Selecting(st, n)
        ELSE IF tok.digits = 2 /\ tens \in {3, 4} THEN
            CASE ones = 8  -> [st EXCEPT !.sel = <<n>>]
              [] ones = 9  -> Ground(tens, st, IF tens = 3 THEN CLR_NT_FG ELSE CLR_NT_BG)
              [] OTHER     -> Choose(tens, st, xterm256_idx_to_rgb(st.ui, ones))
        ELSE IF tok.digits <= 2 /\ n = 0 THEN
            [st EXCEPT !.attr = WA_NORMAL, !.fg = CLR_NT_FG, !.bg = CLR_NT_BG]
        ELSE IF tok.digits = 1 THEN [st EXCEPT !.attr = @ \cup AttrOf(n)]
        ELSE st

\* The attributes and the pair of the text behind the sequence: a pair is asked for only
\* when one of the two grounds has changed.
parse_ansi_str(ui, attr, cpx, toks) ==
    LET fg == ui.pair[cpx][1]
        bg == ui.pair[cpx][2]
        end == FoldLeft(Number, [ui |-> ui, attr |-> attr, fg |-> fg, bg |-> bg, sel |-> <<>>],
                        toks)
        p == ui_add_pair(end.ui, end.fg, end.bg)
    IN  IF end.fg = fg /\ end.bg = bg THEN [ui |-> end.ui, attr |-> end.attr, cpx |-> cpx]
        ELSE [ui |-> p.ui, attr |-> end.attr, cpx |-> p.index]

----------------------------------------------------------------------------
(* What must hold of the pair of a cell. *)

\* The colour of a triple in the terminal, and the two colours a pair shows.
Seen(ui, rgb) == Scaled(apply_gamma(ui, rgb))
Shows(ui, p) == <<ui.color[ui.pair[p][1]], ui.color[ui.pair[p][2]]>>

\* Every pair names two slots that are in use.  Reading another theme ends this: it sets
\* the count of slots back to those of the theme.
Rooted(ui) ==
    \A p \in 1..(ui.ui_pair_cnt - 1) : {ui.pair[p][1], ui.pair[p][2]} \subseteq 0..(ui.ui_color_cnt - 1)

\* The first pair was defined, and two colours and a pair fit.
RoomForCell(ui) ==
    /\ ui.ui_color_cnt + 2 < UI_COLORS
    /\ ui.ui_pair_cnt > 0 /\ ui.ui_pair_cnt + 1 < UI_PAIRS

\* The pair of a cell shows the colours that were asked for, every pair that stood shows
\* what it showed, and the same cell gets the same pair again and defines nothing.
PairRight(ui, fg, bg) ==
    LET cell == ui_pair_from_hex(ui, fg, bg)
    IN  /\ Shows(cell.ui, cell.index) = <<Seen(ui, fg), Seen(ui, bg)>>
        /\ \A p \in 1..(ui.ui_pair_cnt - 1) : Shows(cell.ui, p) = Shows(ui, p)
        /\ ui_pair_from_hex(cell.ui, fg, bg) = Answer(cell.ui, cell.index)
=============================================================================
