---------------------------- MODULE MCLfOptions ----------------------------
(* Command lines of up to three options, and every file they tell apart. *)
EXTENDS LfOptions

Users == {"me"}
SomeValid == {"p", "q", "d"}
SomeDirs == {"d", "e("}

SomeOptions ==
    ({"a", "b"} \X {-1, 1, 2}) \cup ({"c"} \X {{}, {"s"}}) \cup ({"D"} \X {{"1"}, {"1", "7"}, {"8"}})
    \cup ({"r", "e"} \X {"p", "(" }) \cup ({"p"} \X {{"r"}, {"r", "x"}})
    \cup ({"t"} \X {{"f"}, {"d", "l"}, {"u"}}) \cup ({"u"} \X {"me", "you"}) \cup {<<"s", 2>>}
    \cup ({"H"} \X {{}, {"o"}}) \cup {<<"z", 0>>}

CommandLines == BoundedSeq(SomeOptions, 2)
SomeFiles ==
    [type : {"reg", "dir", "lnk"}, stated : BOOLEAN, user : {"me", "you"},
     perms : {{}, {"IRUSR"}, {"IRUSR", "IXUSR"}}, mtime : {1, 2}, size : {1, 2},
     matches : SUBSET {"p"}]

\* However often -a and -b are given, the times that are left can both be met.
ASSUME TimesInOrder ==
    \A opts \in BoundedSeq({"a", "b"} \X {-1, 1, 2, 3}, 4) : InOrder(Parsed(opts, Users))

\* A second option that is not of a kind that adds up never makes a file pass that the
\* first one kept out, unless it is a type; the kinds that are replaced are those with a
\* value of their own.
Replaced == {"a", "b", "r", "e", "s", "u"}
ASSUME OptionsNarrow ==
    \A o1, o2 \in SomeOptions : \A file \in SomeFiles :
        LET f1 == Parsed(<<o1>>, Users)
            f2 == Parsed(<<o1, o2>>, Users)
        IN  /\ ~f2.ended /\ Passes(f2, file)
            /\ ~(o1[1] = "t" /\ o2[1] = "t")
            /\ ~(o1[1] \in Replaced /\ o2[1] \in {"a", "b", o1[1]})
            => Passes(f1, file)

\* lf takes a directory and a pattern in this order only: with a pattern in front the
\* second argument is refused, whatever it is, and so it is behind -r.
ASSUME DirectoryFirst ==
    \A opts \in CommandLines, args \in BoundedSeq({"p", "q", "d", "e(", "("}, 3) :
        LET f == Parsed(opts, Users)
            out == Arguments(f, args, SomeDirs, SomeValid)
        IN  out.ok <=>
            \/ args = <<>>
            \/ Len(args) = 1 /\ args[1] \in SomeDirs \cup SomeValid
            \/ Len(args) = 2 /\ args[1] \in SomeDirs /\ args[2] \in SomeValid /\ f.re = NoPattern

\* The program ends well only when it printed its configuration and nothing else, or
\* when it found a file; and it finds none when only errors are asked for.
ASSUME StatusTells ==
    \A opts \in CommandLines, file \in SomeFiles :
        LET f == Parsed(opts, Users)
            found == IF Searches(f, SomeValid) THEN scan_file(f, file).counted ELSE 0
            status == ExitStatus(f, TRUE, SomeValid, found)
        IN  /\ status = "success" => OnlyConfig(f) \/ found = 1
            /\ found = 1 => status = "success" /\ "only_errors" \notin f.report /\ Passes(f, file)

\* Hidden files are the only ones asked for only when they are asked for at all, and a
\* file whose name is printed is counted.
ASSUME Consistent ==
    \A opts \in CommandLines :
        LET f == Parsed(opts, Users)
        IN  /\ f.hidden_only => ~f.hide
            /\ f.count_silently => f.count
            /\ \A file \in SomeFiles :
                LET out == scan_file(f, file)
                IN  out.printed <=> out.counted = 1 /\ ~f.count_silently

\* Sorting loses no line and leaves them in order.
ASSUME Sorted ==
    \A lines \in BoundedSeq({1, 2, 3}, 4), s, r \in BOOLEAN :
        LET out == Arranged([Start EXCEPT !.sort = s, !.sort_reverse = r], lines,
                            {p \in (1..3) \X (1..3) : p[1] < p[2]})
        IN  /\ \A x \in 1..3 : Cardinality({i \in DOMAIN lines : lines[i] = x})
                             = Cardinality({i \in DOMAIN out : out[i] = x})
            /\ s => \A i, j \in DOMAIN out :
                        i < j => IF r THEN out[i] >= out[j] ELSE out[i] <= out[j]
=============================================================================
