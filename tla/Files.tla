------------------------------- MODULE Files -------------------------------
(***************************************************************************)
(* What the programs ask of files and directories (src/src/futil.c).  A     *)
(* file system is a function from the paths that exist to what is there: a  *)
(* type, the modes this user may access it with and, for a link, its        *)
(* target.  An answer is a truth value and whether a message was shown.     *)
(***************************************************************************)
EXTENDS Texts

Follow(fs, path) == IF fs[path].type = "link" THEN fs[path].target ELSE path

\* What stat and faccessat see: they follow a link.
There(fs, path) == path \in DOMAIN fs /\ Follow(fs, path) \in DOMAIN fs
At(fs, path) == fs[Follow(fs, path)]

is_directory(fs, path) == There(fs, path) /\ At(fs, path).type = "dir"

is_symlink_to_dir(fs, path) ==
    path \in DOMAIN fs /\ fs[path].type = "link" /\ is_directory(fs, path)

Accessible(fs, path, modes) == There(fs, path) /\ modes \subseteq At(fs, path).modes

\* verify_dir clears the flag for silence before it looks at it.
verify_dir(fs, spec, home, modes, quiet) ==
    LET path == expand_tilde(spec, home)
        ok == Accessible(fs, path, modes) /\ is_directory(fs, path)
    IN  IF spec = <<>> THEN [ok |-> FALSE, shown |-> FALSE]
        ELSE [ok |-> ok, shown |-> ~ok]

verify_file(fs, spec, home, modes, quiet) ==
    LET path == expand_tilde(canonicalize_file_spec(spec), home)
        ok == Accessible(fs, path, modes) /\ At(fs, path).type = "file"
    IN  IF spec = <<>> THEN [ok |-> FALSE, shown |-> FALSE]
        ELSE [ok |-> ok, shown |-> ~ok /\ ~quiet]

\* locate_file_in_path: the first place of $PATH that has the name; a name with a slash
\* in it is not looked for.
locate_file_in_path(fs, dirs, name) ==
    LET fn == canonicalize_file_spec(name)
        found == {i \in DOMAIN dirs : There(fs, dirs[i] \o <<"/">> \o fn)}
    IN  IF name = <<>> \/ Where(fn, {"/"}) # {} \/ found = {} THEN Null
        ELSE dirs[Min(found)] \o <<"/">> \o fn

\* mk_dir reads the result of mkdir the wrong way round: a directory it makes is an
\* error and one it cannot make is not.
mk_dir(fs, dir, home, allowed) ==
    LET path == expand_tilde(dir, home)
        made == allowed /\ path \notin DOMAIN fs
        new == [type |-> "dir", modes |-> {"read", "write", "exec"}, target |-> path]
    IN  IF verify_dir(fs, dir, home, {}, TRUE).ok THEN [ok |-> TRUE, fs |-> fs]
        ELSE IF made THEN [ok |-> FALSE, fs |-> [p \in DOMAIN fs \cup {path} |->
                                                    IF p = path THEN new ELSE fs[p]]]
        ELSE [ok |-> TRUE, fs |-> fs]
=============================================================================
