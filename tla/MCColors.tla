------------------------------ MODULE MCColors ------------------------------
(* A theme of 16 standard colours and the two of normal text, in tables with some room  *)
(* and in tables that are soon full.                                                    *)
EXTENDS Integers, Sequences, SequencesExt

Room  == INSTANCE Colors WITH UI_COLORS <- 30, UI_PAIRS <- 20, CLR_NCOLORS <- 18,
                              CLR_NT_FG <- 16, CLR_NT_BG <- 17
Tight == INSTANCE Colors WITH UI_COLORS <- 20, UI_PAIRS <- 5, CLR_NCOLORS <- 18,
                              CLR_NT_FG <- 16, CLR_NT_BG <- 17

Plain  == [v \in 0..255 |-> v]
Darker == [v \in 0..255 |-> (v * v) \div 255]
Gammas == {[gray |-> Plain, channel |-> <<Plain, Plain, Plain>>],
           [gray |-> Darker, channel |-> <<Plain, Darker, Plain>>]}
NoGamma == CHOOSE g \in Gammas : g.gray = Plain

Red == <<205, 0, 0>>
Sand == <<220, 200, 150>>
Gray == <<120, 120, 120>>
White == <<255, 255, 255>>
Night == <<10, 20, 60>>
Colours == {Red, Sand, Gray, White, Night}

Day == [c \in {1, 16, 17} |-> IF c = 1 THEN Red ELSE IF c = 16 THEN Night ELSE White]
Dusk == [c \in {1, 16, 17} |-> IF c = 1 THEN Sand ELSE IF c = 16 THEN White ELSE Night]
Sio == [gamma : Gammas, palette : {Day, Dusk}]

PairsOf == <<<<16, 17>>, <<17, 16>>, <<16, 17>>, <<16, 1>>>>
CellsOf(pal) == <<<<pal[16], pal[17]>>, <<Gray, pal[17]>>, <<pal[17], pal[16]>>, <<Sand, Gray>>>>

Themed(ui, sio) == Room!initialize_cells(ui, sio, PairsOf, CellsOf(sio.palette))
New(sio) == Room!NewTables(sio.gamma)
Ready == {Themed(New(sio), sio).ui : sio \in Sio}

Shown(ui, p) == Room!Shows(ui, p)
Seen(ui, rgb) == Room!Seen(ui, rgb)

\* Each cell of a theme has a pair of the two colours asked for, with the gamma of that
\* theme, at the start and when another theme is read later.
ASSUME CellsRight ==
    \A one, two \in Sio :
        LET first == Themed(New(one), one)
            again == Themed(first.ui, two)
            Right(st, sio) == \A i \in DOMAIN CellsOf(sio.palette) :
                Shown(st.ui, st.index[Len(PairsOf) + i])
                    = <<Seen(st.ui, CellsOf(sio.palette)[i][1]),
                        Seen(st.ui, CellsOf(sio.palette)[i][2])>>
        IN  Right(first, one) /\ Right(again, two)

\* A pair is found again while it stands, a new one disturbs no other, and each has the two
\* colours it was asked for; the very first of the program is lost to the second.
ASSUME PairsKept ==
    /\ \A ui \in Ready, f, b, g \in {1, 16, 17} :
           LET p == Room!ui_add_pair(ui, f, b)
               q == Room!ui_add_pair(p.ui, g, b)
           IN  /\ p.ui.pair[p.index] = <<f, b>>
               /\ q.ui.pair[p.index] = <<f, b>>
               /\ q.ui.pair[q.index] = <<g, b>>
               /\ Room!ui_add_pair(q.ui, f, b) = Room!Answer(q.ui, p.index)
    /\ \A f, b, g \in {1, 16, 17} :
           LET p == Room!ui_add_pair(Room!NewTables(NoGamma), f, b)
               q == Room!ui_add_pair(p.ui, g, b)
           IN  p.index = 0 /\ q.index = 1 /\ q.ui.pair[1] = <<g, b>>

\* A colour is added once, with its gamma, and no other changes, while there is room.
ASSUME ColoursKept ==
    \A ui \in Ready, c \in Colours :
        LET a == Room!ui_add_color_rgb(ui, c)
            again == Room!ui_add_color_rgb(a.ui, c)
        IN  /\ a.ui.color[a.index] = Seen(ui, c)
            /\ again = Room!Answer(a.ui, a.index)
            /\ \A i \in 0..(ui.ui_color_cnt - 1) : a.ui.color[i] = ui.color[i]

\* A cell disturbs no other, and is found again, while there is room.
ASSUME CellsKept ==
    \A ui \in Ready : /\ Room!Rooted(ui) /\ Room!RoomForCell(ui)
                       /\ \A fg, bg \in Colours : Room!PairRight(ui, fg, bg)

\* The form of the call that takes a text never finds a colour that is there, other than
\* one without any light.
ASSUME TextNotFound ==
    \A ui \in Ready, c \in Colours :
        Room!ui_add_color_hex(Room!ui_add_color_rgb(ui, c).ui, c).index # Room!ui_add_color_rgb(ui, c).index

\* In full tables a call answers with the slot of another colour, or with pair 1, and the
\* caller is not told.
ASSUME FullTables ==
    LET full == FoldLeft(LAMBDA u, c : Tight!ui_add_color_rgb(u, c).ui,
                         Tight!init_clr_palette(Tight!NewTables(NoGamma), Day), <<Gray, Sand, Night>>)
        pairs == FoldLeft(LAMBDA u, c : Tight!ui_add_pair(u, c, 1).ui, full, <<1, 2, 3, 4>>)
    IN  /\ Tight!ui_add_color_rgb(full, <<1, 2, 3>>).index = 18
        /\ Tight!ui_add_color_rgb(full, <<1, 2, 3>>).ui.color[18] = Tight!Scaled(Gray)
        /\ Tight!ui_add_pair(pairs, 5, 1).index = 1
        /\ Tight!ui_add_pair(pairs, 5, 1).ui.pair[1] # <<5, 1>>

----------------------------------------------------------------------------
One(n) == <<[digits |-> IF n < 10 THEN 1 ELSE IF n < 100 THEN 2 ELSE 3, n |-> n]>>
Numbers(s) == FlattenSeq([i \in DOMAIN s |-> One(s[i])])
Parts == {<<>>, One(0), One(1), One(7), One(31), One(37), One(41), One(39), One(49), One(95),
          One(101), Numbers(<<38, 5, 1>>), Numbers(<<48, 5, 208>>), Numbers(<<38, 5, 250>>),
          Numbers(<<38, 2, 220, 200, 150>>), Numbers(<<48, 2, 7, 0, 0>>)}

Parse(ui, st, s) == Room!parse_ansi_str(ui, st.attr, st.cpx, s)
Styled(ui) == Parse(ui, [attr |-> {}, cpx |-> 1], Numbers(<<4, 31>>))
Look(st) == <<st.attr, Shown(st.ui, st.cpx)>>

\* A sequence shows the text as its parts do when each is a sequence of its own.
ASSUME PartsAdd ==
    \A ui \in Ready : \A s, t \in Parts :
        LET one == Parse(Styled(ui).ui, Styled(ui), s \o t)
            first == Parse(Styled(ui).ui, Styled(ui), s)
        IN  Look(one) = Look(Parse(first.ui, first, t))

\* A sequence that ends with 0 shows normal text, whatever stood before, and one without a
\* number is no such sequence: it changes nothing; nor does a 1 written as 01.
ASSUME ZeroResets ==
    \A ui \in Ready : \A s \in Parts :
        LET zero == Parse(Styled(ui).ui, Styled(ui), s \o One(0))
        IN  /\ zero.attr = {} /\ zero.ui.pair[zero.cpx] = <<16, 17>>
            /\ Parse(Styled(ui).ui, Styled(ui), <<>>) = Styled(ui)
            /\ Parse(Styled(ui).ui, Styled(ui), <<[digits |-> 2, n |-> 1]>>) = Styled(ui)

\* Foreground 1 of a text is the theme's red when the theme has no gamma; with one it is
\* corrected a second time and is another colour.
ASSUME StandardIsTheme ==
    \A sio \in Sio :
        LET ui == Themed(New(sio), sio).ui
            st == Parse(ui, [attr |-> {}, cpx |-> 1], One(31))
            red == st.ui.color[st.ui.pair[st.cpx][1]]
        IN  (red = ui.color[1]) <=> (sio.gamma = NoGamma \/ sio.palette = Day)

\* A text that is on the screen when another theme is read may get other colours: its pair
\* stands, the slot behind it is used again.
ASSUME OldTextRecoloured ==
    \E one, two \in Sio :
        LET old == Parse(Themed(New(one), one).ui, [attr |-> {}, cpx |-> 1],
                         Numbers(<<38, 2, 1, 2, 3, 48, 2, 4, 5, 6>>))
            now == Themed(old.ui, two).ui
            text == Parse(now, [attr |-> {}, cpx |-> 1], Numbers(<<38, 2, 9, 9, 9>>)).ui
        IN  Shown(text, old.cpx) # Shown(old.ui, old.cpx)
=============================================================================
