------------------------------ MODULE MCStart ------------------------------
(* A small alphabet, a handful of options of every kind, three texts, five commands. *)
EXTENDS StartUp, MCTexts, MCColors

\* ' ' is 1, '-' is 2, '0' .. 126 is 3 .. 4 with 'q' 4, and 7 is beyond.
MCText == {<<3, 2>>, <<2, 3, 2, 3>>, <<4, 7, 1>>}

MCHas ==
    [a \in Arg |-> [m \in Mode |->
        CASE a = "data" -> IF m = "exec" THEN {} ELSE {"alt"}
          [] a = "prog" -> IF m = "exec" THEN {"path"} ELSE {"here"}
          [] OTHER -> {}]]

\* 2 is a text with a blank, and 1 what is left of it; 2 is a gamma with three digits.
MCTextRead == [k \in TextKeys |-> [v \in AnyValue |-> IF v = 2 THEN 1 ELSE v]]
MCRounded == [v \in AnyValue |-> IF v = 2 THEN 1 ELSE v]

MCCommands ==
    {[kind |-> "view", opts |-> <<<<"h_shift", 0>>, <<"red_gamma", 2>>>>, files |-> {}, args |-> <<>>],
     [kind |-> "pick", opts |-> <<<<"p_view_files", 1>>, <<"title", 1>>>>,
      files |-> {<<"receiver", "prog">>, <<"cmd", "new">>},
      args |-> <<"", "new", "data", "prog", "prog", "data">>],
     [kind |-> "form", opts |-> <<<<"title", 2>>, <<"fill_char", 0>>>>,
      files |-> {<<"provider", "prog">>, <<"out", "new">>},
      args |-> <<"data", "prog", "prog", "", "data">>],
     [kind |-> "menu", opts |-> <<<<"f_ignore_case", 1>>>>, files |-> {<<"help", "data">>},
      args |-> <<"data">>],
     [kind |-> "write_config", opts |-> <<>>, files |-> {}, args |-> <<>>]}
=============================================================================
