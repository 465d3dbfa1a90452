----------------------------- MODULE LfOptions -----------------------------
(***************************************************************************)
(* The command line of lf (lf.c): the search filters its options and        *)
(* arguments make, when a search begins at all, and which files pass the    *)
(* filters.  A pattern is a name; the argument of -p, -t and -D is its set   *)
(* of letters; a time, size or depth is a number, 0 for none.               *)
(***************************************************************************)
EXTENDS Integers, Sequences, FiniteSets, SequencesExt

NoPattern == "none"

Start ==
    [after |-> 0, before |-> 0, max_depth |-> 0, file_size_min |-> 0, user |-> "any",
     re |-> NoPattern, ere |-> NoPattern, icase |-> FALSE, perms |-> {}, types |-> {},
     sort |-> FALSE, sort_reverse |-> FALSE, hide |-> TRUE, hidden_only |-> FALSE,
     follow_links |-> FALSE, count |-> FALSE, count_silently |-> FALSE, debug |-> FALSE,
     report |-> {}, nthreads |-> 0, ended |-> FALSE]

-----------------------------------------------------------------------------
(* parse_opt *)

\* The times are kept in order: the one that comes later on the command line is dropped.
\* A time that cannot be read, one without hours for instance, is -1 here and leaves what
\* there was.
InOrder(f) == f.after # 0 /\ f.before # 0 => f.before >= f.after

After(f, t) ==
    LET g == IF t = -1 THEN f ELSE [f EXCEPT !.after = t]
    IN  IF InOrder(g) THEN g ELSE [g EXCEPT !.after = 0]

Earlier(f, t) ==
    LET g == IF t = -1 THEN f ELSE [f EXCEPT !.before = t]
    IN  IF InOrder(g) THEN g ELSE [g EXCEPT !.before = 0]

CountFiles(f, letters) ==
    [f EXCEPT !.count = TRUE, !.count_silently = @ \/ letters = {"s"}]

Report(letter) ==
    CASE letter = "1" -> {"config"}
      [] letter = "2" -> {"info"}
      [] letter = "3" -> {"warnings"}
      [] letter = "4" -> {"errors"}
      [] letter = "5" -> {"badlinks"}
      [] letter = "6" -> {"trace"}
      [] letter = "7" -> {"config", "info", "warnings", "errors", "badlinks", "all"}
      [] letter = "8" -> {"only_errors"}
      [] OTHER -> {}

Debug(f, letters) ==
    [f EXCEPT !.debug = TRUE, !.report = @ \cup UNION {Report(l) : l \in letters}]

Perm(letter) ==
    CASE letter = "g" -> {"ISGID"}
      [] letter = "r" -> {"IRUSR"}
      [] letter = "s" -> {"ISUID"}
      [] letter = "w" -> {"IWUSR"}
      [] letter = "x" -> {"IXUSR"}
      [] OTHER -> {}

FileTypes == {"blk", "chr", "dir", "fifo", "lnk", "reg", "sock", "unknown"}

TypeOf(letter) ==
    CASE letter = "b" -> {"blk"}
      [] letter = "c" -> {"chr"}
      [] letter = "d" -> {"dir"}
      [] letter = "p" -> {"fifo"}
      [] letter = "l" -> {"lnk"}
      [] letter \in {"f", "r"} -> {"reg"}
      [] letter = "s" -> {"sock"}
      [] letter = "u" -> {"unknown"}
      [] OTHER -> {}

Permissions(f, letters) == [f EXCEPT !.perms = @ \cup UNION {Perm(l) : l \in letters}]
Types(f, letters) == [f EXCEPT !.types = @ \cup UNION {TypeOf(l) : l \in letters}]

HiddenFiles(f, letters) == [f EXCEPT !.hide = FALSE, !.hidden_only = @ \/ letters = {"o"}]

User(f, name, Users) ==
    IF name \in Users THEN [f EXCEPT !.user = name] ELSE [f EXCEPT !.ended = TRUE]

ParseOpt(f, opt, Users) ==
    LET key == opt[1]
        arg == opt[2]
    IN  IF f.ended THEN f
        ELSE CASE key = "a" -> After(f, arg)
               [] key = "b" -> Earlier(f, arg)
               [] key = "c" -> CountFiles(f, arg)
               [] key = "d" -> [f EXCEPT !.max_depth = arg]
               [] key = "D" -> Debug(f, arg)
               [] key = "e" -> [f EXCEPT !.ere = arg]
               [] key = "H" -> HiddenFiles(f, arg)
               [] key = "i" -> [f EXCEPT !.icase = TRUE]
               [] key = "L" -> [f EXCEPT !.follow_links = TRUE]
               [] key = "p" -> Permissions(f, arg)
               [] key = "R" -> [f EXCEPT !.sort_reverse = TRUE]
               [] key = "r" -> [f EXCEPT !.re = arg]
               [] key = "S" -> [f EXCEPT !.sort = TRUE]
               [] key = "s" -> [f EXCEPT !.file_size_min = arg]
               [] key = "T" -> [f EXCEPT !.nthreads = arg]
               [] key = "t" -> Types(f, arg)
               [] key = "u" -> User(f, arg, Users)
               [] OTHER -> [f EXCEPT !.ended = TRUE]     \* argp reports it

Parsed(opts, Users) == FoldLeft(LAMBDA f, o : ParseOpt(f, o, Users), Start, opts)

-----------------------------------------------------------------------------
(* main *)

Here == "."

\* What the arguments without an option make of the filters: at most two, the first a
\* directory or else a pattern.  The second has to be a pattern where there is none yet,
\* even when it is the directory that is missing and was just taken.
Arguments(f, args, Dirs, Valid) ==
    LET first == IF args = <<>> THEN [f |-> f, base |-> "", ok |-> TRUE]
                 ELSE IF args[1] \in Dirs THEN [f |-> f, base |-> args[1], ok |-> TRUE]
                 ELSE [f |-> [f EXCEPT !.re = args[1]], base |-> "", ok |-> args[1] \in Valid]
        second == IF first.f.re = NoPattern /\ args[2] \in Valid
                  THEN [first EXCEPT !.f.re = args[2]]
                  ELSE [first EXCEPT !.ok = FALSE]
        last == IF Len(args) < 2 \/ ~first.ok THEN first ELSE second
    IN  [last EXCEPT !.base = IF @ = "" THEN Here ELSE @, !.ok = @ /\ Len(args) <= 2]

\* debug_out ends the program when the configuration is all that was asked for.
OnlyConfig(f) == f.debug /\ "config" \in f.report /\ "all" \notin f.report

\* init_find up to the first task: the types a search leaves out, and whether there is
\* a search.
Excluded(f) == IF f.types = {} THEN {} ELSE FileTypes \ f.types
Patterns(f) == {f.re, f.ere} \ {NoPattern}
Searches(f, Valid) == ~f.ended /\ Patterns(f) \subseteq Valid /\ ~OnlyConfig(f)

\* The status main returns: that of a search is the success of finding something; a
\* wrong argument is a failure, the configuration alone a success.
ExitStatus(f, ok, Valid, found) ==
    IF f.ended \/ ~ok THEN "failure"
    ELSE IF Patterns(f) \subseteq Valid /\ OnlyConfig(f) THEN "success"
    ELSE IF Searches(f, Valid) /\ found > 0 THEN "success" ELSE "failure"

-----------------------------------------------------------------------------
(* scan_file *)

\* A file is its type, what stat says of it (stated is false when the call fails, and
\* the permissions are then whatever was in memory) and the patterns it matches.
Matches(file, pattern) == pattern \in file.matches

RightType(f, file) == file.type \notin Excluded(f)
RightName(f, file) ==
    /\ f.re # NoPattern => Matches(file, f.re)
    /\ f.ere # NoPattern => ~Matches(file, f.ere)
RightOwner(f, file) == f.user # "any" /\ file.stated => file.user = f.user
RightPerms(f, file) == f.perms \subseteq file.perms
RightTime(f, file) ==
    file.stated => /\ f.before # 0 => file.mtime <= f.before
                   /\ f.after # 0 => file.mtime >= f.after
RightSize(f, file) == file.stated /\ f.file_size_min # 0 => file.size >= f.file_size_min

Passes(f, file) ==
    /\ RightType(f, file) /\ RightName(f, file) /\ RightOwner(f, file)
    /\ RightPerms(f, file) /\ RightTime(f, file) /\ RightSize(f, file)

\* What a file that passes adds to the count and whether its name is printed.
scan_file(f, file) ==
    IF ~Passes(f, file) \/ "only_errors" \in f.report THEN [counted |-> 0, printed |-> FALSE]
    ELSE [counted |-> 1, printed |-> ~f.count_silently]

-----------------------------------------------------------------------------
(* sort_lf_output: what becomes of the lines that are found.  -R alone does nothing. *)

\* before holds the pairs of lines that sort puts in this order.
Arranged(f, lines, before) ==
    IF ~f.sort THEN lines
    ELSE IF f.sort_reverse THEN SortSeq(lines, LAMBDA x, y : <<y, x>> \in before)
    ELSE SortSeq(lines, LAMBDA x, y : <<x, y>> \in before)
=============================================================================
