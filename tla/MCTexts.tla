------------------------------ MODULE MCTexts ------------------------------
(***************************************************************************)
(* The text functions against what their callers rely on, over all short    *)
(* texts of a few characters.                                               *)
(***************************************************************************)
EXTENDS Files

Short(C) == BoundedSeq(C, 4)
Words == BoundedSeq({"a", " "}, 5)
Paths == BoundedSeq({"/", "a", "."}, 5)
Quoted == BoundedSeq({"\"", "\\", "a", " "}, 5)
Coded == BoundedSeq({Escape, "m", "[", Beyond}, 5)
Lines == Short({"a", "\n"})

\* Nothing that copies writes more than the bound its caller gives, and a second copy
\* of what was copied is the same text: fields and messages are copied many times.
ASSUME CopiesBounded ==
    \A s \in Lines, n \in 0..4 :
        /\ Len(strnz__cpy(s, n)) <= n
        /\ strnz__cpy(strnz__cpy(s, n), n) = strnz__cpy(s, n)
        /\ IsPrefix(strnz__cpy(s, n), s)
        /\ n > 0 => Len(strnz(s, n)) <= n /\ Len(strnlf(s, n)) <= n + 1
        /\ \A d \in Lines : n > 0 =>
            /\ Len(strnz__cat(d, s, n)) <= n
            /\ IsPrefix(strnz__cpy(d, n), strnz__cat(d, s, n))

\* A field is filled to its length exactly, and justifying to the right keeps its text.
ASSUME FieldsFilled ==
    \A s \in Words, n \in 0..6 :
        /\ Len(fill_field(s, "_", n)) = n
        /\ Len(trim(s)) <= n =>
            Len(right_justify(s, n)) = n /\ trim(right_justify(s, n)) = trim(s)

\* trim takes all the blanks at both ends and nothing else.
ASSUME TrimRight ==
    \A s \in Words :
        /\ trim(trim(s)) = trim(s)
        /\ Without(trim(s), {" "}) = Without(s, {" "})
        /\ trim(s) # <<>> => Head(trim(s)) # " " /\ Last(trim(s)) # " "
        /\ \E i \in 0..Len(s), j \in 0..Len(s) : s = Repeat(" ", i) \o trim(s) \o Repeat(" ", j)

\* stripz_quotes takes what is between two quotes; strip_quotes does the same where the
\* text has them both.
ASSUME QuotesStripped ==
    \A s \in Quoted :
        /\ stripz_quotes(<<"\"">> \o s \o <<"\"">>) = s
        /\ strip_quotes(<<"\"">> \o s \o <<"\"">>) = s
        /\ Len(stripz_quotes(s)) \in {Len(s), Len(s) - 2}

\* Words without blanks or quotes that are joined by blanks come apart as they were,
\* and no more than the caller has room for.
Joined(ws) == FoldLeft(LAMBDA t, w : t \o <<" ">> \o w, <<>>, ws)
ASSUME ArgumentsApart ==
    \A ws \in BoundedSeq({<<"a">>, <<"a", "b">>, <<"\\", "a">>}, 3), n \in 0..3 :
        str_to_args(Joined(ws), n) = Prefix(ws, n)

\* A quoted argument keeps its blanks, and a quote in it that has a backslash.
ASSUME QuotesKept ==
    \A s \in Short({"a", " ", "\""}) :
        LET escaped == FoldLeft(LAMBDA t, c : t \o (IF c = "\"" THEN <<"\\", c>> ELSE <<c>>), <<>>, s)
        IN  str_to_args(<<"\"">> \o escaped \o <<"\"", " ", "a">>, 3) = <<s, <<"a">>>>

\* The memory rep_substring asks for is what it writes: the occurrences it counts are
\* the ones it replaces.
Count(t, s) ==
    LET from[i \in 1..(Len(s) + Len(t))] ==
            IF i > Len(s) THEN 0
            ELSE IF OccursAt(t, s, i) THEN 1 + from[i + Len(t)] ELSE from[i + 1]
    IN  from[1]
ASSUME ReplacedFits ==
    \A org \in BoundedSeq({"%", "a"}, 5), rep \in Short({"%", "a"}) :
        LET tgt == <<"%", "%">>
            out == rep_substring(org, tgt, rep)
        IN  out # Null =>
            /\ Len(out) = Len(org) + (Len(rep) - 2) * Count(tgt, org)
            /\ ToSet(rep) \cap {"%"} = {} => ~Occurs(tgt, out)

\* str_subc replaces one character only.
ASSUME FirstReplaced ==
    \A s \in Short({"%", "a"}) :
        Len(str_subc(s, "%", <<"b", "b">>, 9)) =
            IF Where(s, {"%"}) = {} THEN Len(s) ELSE Len(s) - Cardinality(Where(s, {"%"})) + 2

\* No escape is left in a stripped line, so a second pass changes nothing.
ASSUME EscapesStripped ==
    \A s \in Coded :
        /\ ToSet(strip_ansi(s)) \cap {Escape, Beyond} = {}
        /\ strip_ansi(strip_ansi(s)) = strip_ansi(s)
        /\ Where(s, {Escape, Beyond}) = {} => strip_ansi(s) = s

\* A path comes apart into a directory and a name with the slashes between them.
ASSUME PathApart ==
    \A p \in Paths :
        /\ Where(base_name(p), Slashes) = {}
        /\ base_name(p) = file_spec_name(p)
        /\ Max({i \in Where(p, Slashes) : i > 1} \cup {0}) > 0 =>
            \E n \in 1..Len(p) : dir_name(p) \o Repeat("/", n) \o base_name(p) = p
        /\ IsPrefix(trim_ext(p), p) /\ IsPrefix(trim_path(p), p)
        /\ trim_path(trim_path(p)) = trim_path(p)
        /\ canonicalize_file_spec(canonicalize_file_spec(p)) = canonicalize_file_spec(p)

\* Behind a blank nothing is left of a path.
ASSUME PathEnds ==
    \A p \in BoundedSeq({"/", "a", " "}, 5) :
        /\ Where(Tail(<<"a">> \o Behind(trim_path(p), 1)), {" "}) = {}
        /\ trim_path(<<"a", "/", " ", "b">>) = <<"a", "/">>
        /\ trim_path(<<"a", "/">>) = <<"a">>

\* A home directory with a tilde in it makes an empty path of one that has "~/".
ASSUME TildeExpanded ==
    \A rest \in Short({"a", "/"}) :
        /\ expand_tilde(<<"~", "/">> \o rest, <<"/", "h">>) = <<"/", "h", "/">> \o rest
        /\ expand_tilde(<<"~", "/">> \o rest, <<"/", "~">>) = <<>>

\* The capacity of a String holds its text and the terminator after every operation.
Holds(d) == d.l >= Len(d.s) + 1
ASSUME StringsHold ==
    \A s \in Short({"a"}), t \in Short({"a"}), n \in 0..5, l \in 1..5 :
        LET d == string_cpy(mk_string(l), to_string(s))
            src == to_string(t)
        IN  /\ Holds(d) /\ d.s = s
            /\ Holds(string_cat(d, src)) /\ Holds(string_ncat(d, src, n))
            /\ Holds(string_ncpy(d, src, n)) /\ Holds(string_cpy(d, src))

\* The days of a year are the valid dates in it.
ASSUME DatesCounted ==
    \A y \in {1900, 2000, 2023, 2024} :
        Cardinality({md \in (0..13) \X (0..32) : is_valid_date(y, md[1], md[2])}) =
            IF Leap(y) THEN 366 ELSE 365

\* A home with a file, a program, a directory and three links.
Home == <<"/", "h">>
In(d, n) == d \o <<"/">> \o n
Node(type, modes, target) == [type |-> type, modes |-> modes, target |-> target]
Tree ==
    LET node[p \in {Home, In(Home, <<"f">>), In(Home, <<"x">>), In(Home, <<"d">>),
                    In(Home, <<"l">>), In(Home, <<"m">>), In(Home, <<"n">>)}] ==
            CASE p = Home \/ Last(p) = "d" -> Node("dir", {"read", "exec"}, p)
              [] Last(p) = "f" -> Node("file", {"read"}, p)
              [] Last(p) = "x" -> Node("file", {"read", "exec"}, p)
              [] Last(p) = "l" -> Node("link", {}, In(Home, <<"d">>))
              [] Last(p) = "m" -> Node("link", {}, In(Home, <<"f">>))
              [] OTHER -> Node("link", {}, <<"/", "g">>)
    IN  node

\* No path is both a file and a directory, whatever the links; a program that is found
\* in the path exists; a directory that could not be found is there after mk_dir when
\* it answers no.
ASSUME FilesFound ==
    LET specs == {In(h, n) : h \in {Home, <<"~">>},
                             n \in {<<"f">>, <<"x">>, <<"d">>, <<"l">>, <<"m">>, <<"n">>, <<"q">>}}
    IN  \A s \in specs, modes \in SUBSET {"read", "write", "exec"}, quiet \in BOOLEAN :
        /\ ~(verify_file(Tree, s, Home, modes, quiet).ok /\ verify_dir(Tree, s, Home, modes, quiet).ok)
        /\ "write" \in modes => ~verify_file(Tree, s, Home, modes, quiet).ok
        /\ is_symlink_to_dir(Tree, s) => is_directory(Tree, s)
        /\ LET out == locate_file_in_path(Tree, <<<<"/", "b">>, Home>>, <<Last(s)>>)
           IN  out # Null => There(Tree, out)
        /\ \A allowed \in BOOLEAN :
            LET out == mk_dir(Tree, s, Home, allowed)
            IN  ~out.ok <=> allowed /\ expand_tilde(s, Home) \notin DOMAIN Tree
                                   /\ is_directory(out.fs, expand_tilde(s, Home))

\* The functions that change one kind of character leave none of it.
ASSUME OnlyText ==
    /\ \A s \in Short({"a", "A", "1"}) : str_to_lower(str_to_upper(s)) = str_to_lower(s)
    /\ \A s \in Short({"-", "1", "a"}) : numeric(numeric(s)) = numeric(s)
    /\ \A s \in Short({"\\", "/", "a"}) : Where(normalize_file_spec(s), {"\\"}) = {}
=============================================================================
