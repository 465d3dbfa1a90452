----------------------------- MODULE ViewInput -----------------------------
(***************************************************************************)
(* Where the pager takes its text from (init_view.c): a file it maps, or     *)
(* the output of a command or its own standard input, which it first copies   *)
(* to a file in memory.  An input is the sequence of bytes that can be read    *)
(* from it; files maps a name to [type, bytes].                                *)
(***************************************************************************)
EXTENDS Integers, Sequences

\* The input a name and the options stand for.  A name for something that is no regular
\* file is opened, closed again, and standard input is read in its place.
Source(view, files, name) ==
    IF view.provider_cmd THEN "command"
    ELSE IF name = "-" THEN "stdin"
    ELSE IF name \notin DOMAIN files THEN "missing"
    ELSE IF files[name].bytes = <<>> THEN "empty"
    ELSE IF files[name].type = "regular" THEN "file" ELSE "stdin"

Failed(view, stdin) == [end |-> "message", view |-> view, stdin |-> stdin]

\* end is how the call ends: the text is there, a message was shown, or the program is over.
\* stdin is what the descriptor stands for then.  input is what standard input and the
\* command have to give, and mapped is whether the text could be mapped.
view_init_input(view, files, name, input, mapped) ==
    LET from == Source(view, files, name)
        stdin == IF from = "command" THEN "pipe" ELSE view.stdin
        bytes == IF from = "file" THEN files[name].bytes
                 ELSE IF from = "command" THEN input.command ELSE input[view.stdin]
    IN  IF from \in {"missing", "empty"} THEN Failed(view, view.stdin)
        ELSE IF bytes = <<>> THEN [end |-> "abend", view |-> view, stdin |-> stdin]
        ELSE IF ~mapped THEN Failed(view, stdin)
        ELSE [end |-> "text", stdin |-> "saved",
              view |-> [view EXCEPT !.buf = bytes, !.file_size = Len(bytes), !.marks = {},
                                    !.cmd = IF view.cmd_all # "" THEN view.cmd_all ELSE @,
                                    !.name = name]]
=============================================================================
