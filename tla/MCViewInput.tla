---------------------------- MODULE MCViewInput ----------------------------
(* Every kind of name, with and without a command, and inputs with and without text. *)
EXTENDS ViewInput

Kinds == [n \in {"text", "none", "dir"} |->
             CASE n = "text" -> [type |-> "regular", bytes |-> <<1, 2>>]
               [] n = "none" -> [type |-> "regular", bytes |-> <<>>]
               [] n = "dir"  -> [type |-> "directory", bytes |-> <<9>>]]
Names == DOMAIN Kinds \cup {"gone", "-"}

Views == [provider_cmd : BOOLEAN, stdin : {"saved", "terminal", "pipe"}, cmd_all : {"", "G"},
          cmd : {"", "g"}, marks : {{}, {3}}, buf : {<<7>>}, file_size : {1}, name : {"old"}]
Inputs == [{"command", "saved", "terminal", "pipe"} -> {<<>>, <<4, 5, 6>>}]

\* A text that is shown is one of the name's, of the command's or of standard input, has at
\* least a byte and the size the pager believes, and no mark of the text before it; without
\* one the pager keeps what it had.  The command's pipe stays standard input only when the
\* copy of its output cannot be used.
ASSUME TextShown ==
    \A v \in Views, n \in Names, in \in Inputs, mapped \in BOOLEAN :
        LET out == view_init_input(v, Kinds, n, in, mapped)
        IN  /\ out.end = "text" =>
                /\ out.view.buf \in {in[i] : i \in {"command", v.stdin}} \cup {<<1, 2>>}
                /\ out.view.file_size = Len(out.view.buf) /\ out.view.file_size > 0
                /\ out.view.marks = {} /\ out.stdin = "saved"
            /\ out.end # "text" => out.view = v
            /\ out.stdin = "pipe" /\ v.stdin # "pipe" =>
                v.provider_cmd /\ (~mapped \/ in.command = <<>>)

\* A file is shown only when it is a regular one with text; a directory is not an error.
ASSUME OnlyRegular ==
    \A v \in Views, in \in Inputs :
        LET Out(n) == view_init_input([v EXCEPT !.provider_cmd = FALSE], Kinds, n, in, TRUE)
        IN  /\ \A n \in {"gone", "none"} : Out(n).end = "message"
            /\ Out("text").view.buf = <<1, 2>>
            /\ Out("dir").end = Out("-").end /\ Out("dir").view.buf = Out("-").view.buf
=============================================================================
