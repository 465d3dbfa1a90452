------------------------------ MODULE FileSpec ------------------------------
(***************************************************************************)
(* Which files the engines of a program get (mem.c): a name is looked for   *)
(* in the directory of its role, in the one it falls back to and where the  *)
(* program runs, and the arguments without a switch go to the roles that    *)
(* no switch has filled, in the order of the roles.                         *)
(***************************************************************************)
EXTENDS Naturals, Sequences, FiniteSets, SequencesExt

CONSTANTS
    Arg,    \* names of files; NoArg is the empty one
    NoArg,
    Has     \* the directories in which a name can be accessed, by its mode

Dir == {"home", "alt", "path", "here"}
Mode == {"read", "write", "exec"}

ASSUME FileSpecAssumption ==
    /\ NoArg \in Arg
    /\ Has \in [Arg -> [Mode -> SUBSET Dir]]
    /\ \A m \in Mode : Has[NoArg][m] = {}

Role == {"spec", "in", "out", "provider", "cmd", "receiver", "help"}
Program == {"provider", "cmd", "receiver"}

ModeOf(role) ==
    CASE role \in Program -> "exec" [] role = "out" -> "write" [] OTHER -> "read"

\* verify_spec_arg: dirs are dir and alt_dir; $PATH only finds programs.
VerifySpec(arg, dirs, mode) ==
    LET tried == Append(dirs, "here")
        found == {i \in DOMAIN tried : tried[i] \in Has[arg][mode]}
    IN  IF found = {} THEN [ok |-> FALSE, at |-> "here"]
        ELSE [ok |-> TRUE, at |-> tried[CHOOSE i \in found : \A j \in found : i <= j]]

\* What the name a switch gives and what a positional argument is tried with.
OfSwitch(role, arg) ==
    VerifySpec(arg, IF role \in Program THEN <<"home", "path">> ELSE <<"home", "alt">>,
               ModeOf(role))

OfArgument(role, arg) ==
    LET first == VerifySpec(arg, IF role \in Program THEN <<"home">> ELSE <<"home", "alt">>,
                            ModeOf(role))
    IN  IF role \in Program /\ ~first.ok THEN VerifySpec(arg, <<"path">>, "exec")
        ELSE first

Roles(kind) ==
    CASE kind = "menu" -> <<"spec", "help">>
      [] kind = "form" -> <<"spec", "in", "out", "provider", "cmd", "receiver", "help">>
      [] kind = "pick" -> <<"in", "out", "provider", "cmd", "receiver", "help">>
      [] OTHER -> <<>>

\* Arguments count from 1.  A pick does not look at the first one.
FirstArg(kind) == IF kind = "pick" THEN 2 ELSE 1

\* One role takes the next argument.  For a program it is passed even when there
\* is none of the name; the help file of a form is looked for under the name the
\* switch gave, which was not found before.
Taken(kind, args, acc, role) ==
    LET arg == args[acc.optind]
        ok == arg # NoArg /\ OfArgument(role, arg).ok
        use == [acc EXCEPT !.optind = @ + 1, !.use[role] = acc.optind]
    IN  CASE role \in Program -> IF ok THEN use ELSE [acc EXCEPT !.optind = @ + 1]
          [] role \notin Program /\ kind = "form" /\ role = "help" -> acc
          [] OTHER -> IF ok THEN use ELSE acc

\* The roles that switches have filled: files are pairs of a role and a name.  A menu
\* does not look at them.
Filled(kind, files) ==
    IF kind = "menu" THEN {}
    ELSE {f[1] : f \in {g \in files : g[1] \in ToSet(Roles(kind)) /\ OfSwitch(g[1], g[2]).ok}}

\* init_menu_files, init_pick_files, init_form_files: the argument each role gets, 0
\* for none.
Positional(kind, args, files) ==
    FoldLeft(LAMBDA acc, role :
                 IF role \in Filled(kind, files) \/ acc.optind > Len(args) THEN acc
                 ELSE Taken(kind, args, acc, role),
             [optind |-> FirstArg(kind), use |-> [r \in Role |-> 0]],
             Roles(kind)).use
=============================================================================
