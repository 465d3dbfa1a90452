------------------------------ MODULE StartUp ------------------------------
(***************************************************************************)
(* The program menu from its start: the configuration files with what they  *)
(* include and the theme, the switches of the command line, the description *)
(* of the menu, the keys, and the popups that the lines of the menu open    *)
(* with switches and arguments of their own (init.c, parse_menu_desc.c,     *)
(* menu_engine.c, popups.c, mem.c).                                         *)
(***************************************************************************)
EXTENDS MenuDesc, Config, FileSpec

CONSTANTS
    Key,        \* the keys of configuration lines, of ConfigKeys
    Switch,     \* the switches of the command line
    Text,       \* the texts of menu lines
    Commands,   \* what a menu line runs: [kind, opts, files, args]
    Byte,       \* what the low byte of a key that is no special one can be
    MaxInclude, \* how deep configuration files include each other
    Budget      \* bounds what a behaviour reads: a line of the description or a key
                \* counts once, what sets an option twice

Offered == (Switches \cap Option) \cup UnknownSwitches

ASSUME StartUpAssumption ==
    /\ Key \subseteq ConfigKeys /\ Switch \subseteq Offered
    /\ \A t \in Text : t \in Seq(Nat) /\ t # <<>> /\ (Head(t) \in Designator => Len(t) > 1)
    /\ Byte \subseteq Nat \ {NoLetter}
    /\ MaxInclude \in Nat /\ Budget \in Nat
    /\ \A c \in Commands :
           /\ c.kind \in {"menu", "pick", "form", "view", "exec", "return",
                          "write_config", "unknown"}
           /\ c.opts \in Seq(Offered \X Value)
           /\ c.files \subseteq Role \X Arg /\ c.args \in Seq(Arg)

VARIABLES
    pc,         \* what the program reads next, or how it ended
    reading,    \* the configuration files that are open, the innermost last
    init,       \* struct Init and struct SIO
    menu,       \* struct Menu
    ran,        \* the line that runs, 0 for none
    roles,      \* the arguments the engine of the popup got
    dump,       \* what write_config wrote, until the options change
    log,        \* the values that options were given, in this order
    inputs      \* counts to Budget

vars == <<pc, reading, init, menu, ran, roles, dump, log, inputs>>

NoRoles == [r \in Role |-> 0]

Init ==
    /\ pc = "config"
    /\ reading \in {<<"minitrc">>, <<"theme">>}   \* without a .minitrc the theme is next
    /\ init = FirstOptions
    /\ menu = EmptyMenu
    /\ ran = 0 /\ roles = NoRoles /\ dump = <<>> /\ log = <<>>
    /\ inputs = 0

Reads(cost) == inputs + cost <= Budget /\ inputs' = inputs + cost

-----------------------------------------------------------------------------
(* Configuration. *)

\* A line with a key and a value.
ConfigLine ==
    /\ pc = "config" /\ reading # <<>> /\ Reads(2)
    /\ \E k \in Key, v \in Value :
           /\ Says(k, Parsed(k, v))
           /\ init' = TakeLine(init, k, v)
           /\ log' = Append(log, [keys |-> {k}, value |-> Stored(k, Parsed(k, v))])
    /\ UNCHANGED <<pc, reading, menu, ran, roles, dump>>

\* include = file; one that cannot be opened is passed over.
IncludeLine ==
    /\ pc = "config" /\ reading # <<>> /\ Reads(2)
    /\ Len(reading) <= MaxInclude
    /\ reading' \in {Append(reading, "included"), reading}
    /\ UNCHANGED <<pc, init, menu, ran, roles, dump, log>>

\* The end of a file.  The theme is read after the .minitrc, if it is there.
EndOfFile ==
    /\ pc = "config" /\ reading # <<>>
    /\ \/ reading # <<"minitrc">> /\ reading' = Front(reading)
       \/ reading = <<"minitrc">> /\ reading' \in {<<"theme">>, <<>>}
    /\ UNCHANGED <<pc, init, menu, ran, roles, dump, log, inputs>>

\* process_config_files is done; mapp_spec of the files is not used.
EndConfig ==
    /\ pc = "config" /\ reading = <<>>
    /\ init' = [o \in Option |-> IF o = "mapp_spec" THEN 0 ELSE init[o]]
    /\ log' = Append(log, [keys |-> {"mapp_spec"}, value |-> 0])
    /\ pc' = "args"
    /\ UNCHANGED <<reading, menu, ran, roles, dump, inputs>>

Logged(opts) ==
    [i \in DOMAIN opts |->
        [keys |-> {opts[i][1]}, value |-> Switched(opts[i][1], opts[i][2])]]

\* argp_parse meets a switch that parse_opt has no case for: the program ends.
Unknown(opts) == \E o \in ToSet(opts) : o[1] \in UnknownSwitches

SwitchArg ==
    /\ pc = "args" /\ Reads(2)
    /\ \E o \in Switch, v \in Value :
           IF Unknown(<<<<o, v>>>>) THEN pc' = "usage" /\ UNCHANGED <<init, log>>
           ELSE /\ init' = ParseOpts(init, <<<<o, v>>>>)
                /\ log' = log \o Logged(<<<<o, v>>>>)
                /\ UNCHANGED pc
    /\ UNCHANGED <<reading, menu, ran, roles, dump>>

\* -W: the configuration is written and the program ends.  Otherwise the menu is read.
EndArgs ==
    /\ pc = "args"
    /\ \/ pc' = "exited" /\ dump' = WriteConfig(init)
       \/ pc' = "desc" /\ UNCHANGED dump
    /\ UNCHANGED <<reading, init, menu, ran, roles, log, inputs>>

-----------------------------------------------------------------------------
(* The description. *)

\* ':'  More texts than commands end the program after a message.
ChoiceLine ==
    /\ pc = "desc" /\ Reads(1)
    /\ IF menu.choices > menu.commands THEN pc' = "exited" /\ UNCHANGED menu
       ELSE IF ~menu.title THEN menu' = [menu EXCEPT !.title = TRUE] /\ UNCHANGED pc
       ELSE \E t \in Text :
                /\ menu' = TextLine(menu, t)
                /\ pc' = IF Len(menu.line) = MaxMenuLines THEN "crashed" ELSE pc
    /\ UNCHANGED <<reading, init, ran, roles, dump, log>>

\* '!'
CommandLine ==
    /\ pc = "desc" /\ Reads(1)
    /\ \E c \in Commands : menu' = Command(menu, c)
    /\ UNCHANGED <<pc, reading, init, ran, roles, dump, log>>

\* line_idx runs over the lines.
EndDesc ==
    /\ pc = "desc"
    /\ pc' = "letters"
    /\ menu' = [menu EXCEPT !.line_idx = 1]
    /\ UNCHANGED <<reading, init, ran, roles, dump, log, inputs>>

Next1(m) == [m EXCEPT !.line_idx = @ + 1]

\* A text without a command has no choice_text to look into.  When there is no
\* letter left the message about it is all that happens to the lines that remain.
Letter ==
    LET i == menu.line_idx
    IN  /\ pc = "letters" /\ i <= Len(menu.line)
        /\ CASE ~IsChoice(menu, i) -> pc' = "crashed" /\ UNCHANGED menu
             [] IsChoice(menu, i) /\ menu.line[i].choice_letter # NoLetter ->
                    menu' = Next1(Reserved(menu, i)) /\ UNCHANGED pc
             [] OTHER ->
                    \/ \E k \in Places(menu, i) :
                           menu' = Next1(Picked(menu, i, k)) /\ UNCHANGED pc
                    \/ /\ NoPlace(menu, i)
                       /\ IF Unused(menu) = {} THEN pc' = "keys" /\ menu' = ResetMenu(menu)
                          ELSE menu' = Next1(FallBack(menu, i)) /\ UNCHANGED pc
        /\ UNCHANGED <<reading, init, ran, roles, dump, log, inputs>>

\* menu_engine draws the menu.  Without lines there is nothing under the cursor.
ShowMenu ==
    /\ pc = "letters" /\ menu.line_idx > Len(menu.line)
    /\ menu' = ResetMenu(menu)
    /\ pc' = IF menu.line = <<>> THEN "crashed" ELSE "keys"
    /\ UNCHANGED <<reading, init, ran, roles, dump, log, inputs>>

-----------------------------------------------------------------------------
(* Keys and what they run. *)

CursorKey ==
    /\ pc = "keys"
    /\ menu' \in {Up(menu), Down(menu)}
    /\ UNCHANGED <<pc, reading, init, ran, roles, dump, log, inputs>>

\* The popup functions: the options of the last popup are put away, the switches of
\* the command parsed, and the files found.
Popup(c) ==
    LET parsed == ParseOpts(ZeroOptArgs(init), c.opts)
    IN  IF Unknown(c.opts) THEN pc' = "usage" /\ UNCHANGED <<init, log, roles>>
        ELSE /\ init' = parsed
             /\ log' = Append(log, [keys |-> Zeroed, value |-> 0]) \o Logged(c.opts)
             /\ roles' = Positional(c.kind, c.args, c.files)
             /\ pc' = "popup"

\* What a command does.
Runs(c) ==
    CASE c.kind = "return" -> pc' = "exited" /\ UNCHANGED <<init, log, roles, dump>>
      [] c.kind = "write_config" ->
             dump' = WriteConfig(init) /\ UNCHANGED <<pc, init, log, roles>>
      [] c.kind = "exec" -> pc' = "popup" /\ UNCHANGED <<init, log, roles, dump>>
      [] c.kind = "unknown" -> UNCHANGED <<pc, init, log, roles, dump>>
      [] OTHER -> Popup(c) /\ dump' = <<>>

\* The line at i runs; a text that was left without a command does nothing.
Run(m, i) ==
    /\ menu' = [m EXCEPT !.line_idx = i] /\ ran' = i
    /\ IF IsChoice(m, i) THEN Runs(m.line[i].command)
       ELSE UNCHANGED <<pc, init, log, roles, dump>>

\* ENTER
Enter ==
    /\ pc = "keys" /\ Reads(1)
    /\ Run(menu, menu.line_idx)
    /\ UNCHANGED reading

\* A click on a line, whatever it is.
Mouse ==
    /\ pc = "keys" /\ Reads(1)
    /\ \E i \in DOMAIN menu.line : Run(menu, i)
    /\ UNCHANGED reading

\* Any other key is looked up by its low byte.
LetterKey ==
    /\ pc = "keys" /\ Reads(1)
    /\ \E b \in Byte \ {Quit} :
           IF WithLetter(menu, b) = {} THEN UNCHANGED <<pc, init, menu, ran, roles, dump, log>>
           ELSE LET m == ToLetter(menu, b) IN Run(m, m.line_idx)
    /\ UNCHANGED reading

\* 'q', F9
QuitKey ==
    /\ pc = "keys" /\ pc' = "exited"
    /\ UNCHANGED <<reading, init, menu, ran, roles, dump, log, inputs>>

\* The popup closes: the menu is shown again, with the cursor on its first choice.
PopupEnd ==
    /\ pc = "popup" /\ pc' = "keys"
    /\ menu' = ResetMenu(menu) /\ ran' = 0 /\ roles' = NoRoles
    /\ UNCHANGED <<reading, init, dump, log, inputs>>

Next ==
    \/ ConfigLine \/ IncludeLine \/ EndOfFile \/ EndConfig \/ SwitchArg \/ EndArgs
    \/ ChoiceLine \/ CommandLine \/ EndDesc \/ Letter \/ ShowMenu
    \/ CursorKey \/ Enter \/ Mouse \/ LetterKey \/ QuitKey \/ PopupEnd

Spec == Init /\ [][Next]_vars

-----------------------------------------------------------------------------
(* Properties. *)

\* Every variable is what the C declares; and while keys are awaited the cursor is on
\* a line that has a command to run, or the letters ran out and it may be on the text
\* that was left behind the last command.
TypeOK ==
    /\ pc \in {"config", "args", "desc", "letters", "keys", "popup", "usage", "exited",
               "crashed"}
    /\ Len(reading) <= MaxInclude + 1
    /\ init \in [Option -> Value \cup {Default}]
    /\ menu.choices \in menu.commands .. menu.commands + 1
    /\ roles \in [Role -> Nat] /\ inputs \in 0 .. Budget
    /\ pc = "keys" => /\ menu.line_idx \in DOMAIN menu.line
                      /\ IsChoice(menu, menu.line_idx) \/ Unused(menu) = {}

Letters(S) == {menu.line[i].choice_letter : i \in S}

\* When the menu is shown no two lines have the same letter and none has the 'q' that
\* ends the menu, whatever the texts ask for and run out of; and a line that asks for a
\* letter before any other line does gets it, though lines before it could have taken
\* it from their texts (docs/C-Menu-UG.md:143: "letters assigned with the "-" dash are
\* processed first, thus reserving those assignments").
LettersRight ==
    pc \in {"keys", "popup"} =>
        LET lettered == {i \in DOMAIN menu.line : menu.line[i].choice_letter \in Blank .. Final}
            asks(i) == Asked(menu.line[i].raw_text)
        IN  /\ Cardinality(Letters(lettered)) = Cardinality(lettered)
            /\ Quit \notin Letters(lettered)
            /\ \A i \in lettered :
                   asks(i) \notin {NoLetter, Quit}
                       /\ (\A j \in 1 .. i - 1 : asks(j) # asks(i))
                   => menu.line[i].choice_letter = asks(i)

\* The fields a line or a switch of another name writes.
Misdirected == {"ln_fg", "ln_bg", "cmdln_fg", "cmdln_bg"}

\* The value given last, to the option under its own name.
LastGiven(given, o) ==
    LET at == {i \in DOMAIN given : o \in given[i].keys}
    IN  IF at = {} THEN FirstOptions[o] ELSE given[Max(at)].value

\* The options a dump can say: an empty text makes no line that is taken, and what
\* mapp_initialization set stays; a text loses its blanks and semicolons, and what follows a
\* '#', and a gamma its third digit.
Told == {o \in Option \cap ToSet(Dumped) \cap ConfigKeys :
             /\ init[o] # 0 \/ o \in NumberFields \/ FirstOptions[o] = 0
             /\ Keeps(o, init[o])}

\* An option has the value it was given last, by the files in reading order, by the
\* theme after them, by the command line after both (docs/C-Menu-UG.md, "Command line
\* options override configuration file options"), or by the command of a menu line;
\* those that zero_opt_args knows have nothing from before the popup, the others keep
\* what an earlier popup set.  The configuration that is written gives, when its lines
\* are read up to the theme that the last one includes, the options that were written
\* and can be told; and no argument gets two roles, one out of their order or one that a
\* switch has filled.
OptionsRight ==
    /\ \A o \in Option \ Misdirected : init[o] = LastGiven(log, o)
    /\ \A o \in Told \ Misdirected :
           dump # <<>> => ReadLines(FirstOptions, dump)[o] = init[o]
    /\ pc = "popup" /\ menu.line[ran].command.kind \in {"menu", "pick", "form"} =>
           LET c == menu.line[ran].command
               order == Roles(c.kind)
           IN  /\ \A i, j \in DOMAIN order :
                      i < j /\ roles[order[i]] # 0 /\ roles[order[j]] # 0
                      => roles[order[i]] < roles[order[j]]
               /\ \A r \in Filled(c.kind, c.files) : roles[r] = 0
=============================================================================
