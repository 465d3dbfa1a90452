------------------------------- MODULE Config -------------------------------
(***************************************************************************)
(* The options of a program (init.c): what mapp_initialization, the lines   *)
(* of the configuration files, the switches of the command line and the     *)
(* commands of a menu do to the fields of struct Init and struct SIO.  A    *)
(* value is a number, 0 for what calloc and zero_opt_args leave, 1 for true *)
(* or the least a width can be.                                             *)
(***************************************************************************)
EXTENDS Naturals, Sequences, FiniteSets, SequencesExt

CONSTANTS
    Option,     \* the fields that are looked at, of AnyOption
    Value,      \* what a line or a switch can set
    Default,    \* what mapp_initialization sets
    TextRead,   \* TextRead[k][v]: what is taken of the text v in a line of key k
    Rounded     \* a gamma, with the two digits that are written of it

AnyValue == Value \cup {Default}

ASSUME ConfigAssumption ==
    /\ Value \subseteq Nat /\ {0, 1} \subseteq Value
    /\ Default \in Nat \ Value

-----------------------------------------------------------------------------
(* The names. *)

\* process_config_file: the fields of init a line can set, and those of sio.
GeneralKeys ==
    {"minitrc", "lines", "cols", "begy", "begx", "f_ln", "f_at_end_remove",
     "f_erase_remainder", "brackets", "fill_char", "f_ignore_case", "p_view_files",
     "f_read_theme", "f_squeeze", "f_strip_ansi", "f_multiple_cmd_args", "select_max",
     "tab_stop", "h_shift", "wrap", "title", "cmd", "cmd_all", "parent_cmd",
     "provider_cmd", "receiver_cmd", "editor"}
PartKeys ==
    {"fg", "bg", "box_fg", "box_bg", "ind_fg", "ind_bg", "brackets_fg", "brackets_bg",
     "fill_char_fg", "fill_char_bg", "ln_fg", "ln_bg", "cmdln_fg", "cmdln_bg", "nt_fg",
     "nt_bg", "nt_rev_fg", "nt_rev_bg", "nt_hl_fg", "nt_hl_bg", "nt_hl_rev_fg",
     "nt_hl_rev_bg", "title_fg", "title_bg", "ran_fg", "ran_bg"}
PlainColorKeys ==
    {"black", "red", "green", "yellow", "blue", "magenta", "cyan", "white", "orange"}
BrightColorKeys ==
    {"bblack", "bred", "bgreen", "byellow", "bblue", "bmagenta", "bcyan", "bwhite",
     "borange"}
GammaKeys == {"red_gamma", "green_gamma", "blue_gamma", "gray_gamma"}
PathKeys ==
    {"mapp_spec", "mapp_data", "mapp_help", "mapp_home", "mapp_msrc", "mapp_user",
     "mapp_theme"}
ConfigKeys ==
    GeneralKeys \cup PartKeys \cup PlainColorKeys \cup BrightColorKeys \cup GammaKeys
        \cup PathKeys

\* The lines for the command line write the fields of the line numbers.
KeyField(key) ==
    CASE key = "cmdln_fg" -> "ln_fg"
      [] key = "cmdln_bg" -> "ln_bg"
      [] OTHER -> key

\* The switches parse_opt knows; what follows a bare one is not looked at.
BareSwitches ==
    {"f_erase_remainder", "f_strip_ansi", "f_multiple_cmd_args", "f_read_theme",
     "f_squeeze"}
GeneralSwitches ==
    BareSwitches \cup
    {"minitrc", "parent_cmd", "cols", "lines", "title", "begx", "begy", "cmd_all", "cmd",
     "mapp_spec", "help_spec", "in_spec", "out_spec", "receiver_cmd", "provider_cmd",
     "fill_char", "select_max", "f_ln", "tab_stop", "h_shift", "brackets", "wrap",
     "p_view_files"}
PartSwitches == PartKeys \cup GammaKeys
PathSwitches == PathKeys
Switches == GeneralSwitches \cup PartSwitches \cup PathSwitches

\* What the table of argp_parse offers and parse_opt has no case for.
UnknownSwitches == {"f_ignore_case", "editor"} \cup PlainColorKeys \cup BrightColorKeys

AnyOption == ConfigKeys \cup Switches \cup UnknownSwitches

ASSUME OptionAssumption == Option \subseteq AnyOption

-----------------------------------------------------------------------------
(* The functions of init.c on the fields. *)

\* mapp_initialization before the files are read.
Initialized ==
    {"mapp_home", "minitrc", "mapp_user", "mapp_theme", "mapp_msrc", "mapp_data",
     "mapp_help", "f_erase_remainder", "fill_char", "editor"}
        \cup (PartKeys \ {"brackets_fg", "brackets_bg", "fill_char_fg", "fill_char_bg"})

\* The truth values, and the fields a line sets even to nothing; a string that is
\* empty makes no line.
Flags ==
    {"f_ln", "f_at_end_remove", "f_erase_remainder", "f_ignore_case", "p_view_files",
     "f_read_theme", "f_squeeze", "f_strip_ansi", "f_multiple_cmd_args", "wrap"}
NumberFields ==
    {"cols", "lines", "begx", "begy", "select_max", "tab_stop", "h_shift"} \cup Flags
        \cup GammaKeys

\* The keys of texts.  What process_config_file takes of a text is without its blanks and
\* semicolons, in quotes or not, without an opening quote and what follows a '#', unless a
\* colour does, and as long as the field; it may be nothing.
TextKeys == ConfigKeys \ NumberFields

ASSUME TextAssumption ==
    /\ TextRead \in [TextKeys -> [AnyValue -> AnyValue]]
    /\ \A k \in TextKeys, v \in Value : TextRead[k][v] \in Value
    /\ Rounded \in [AnyValue -> AnyValue]

Parsed(key, v) == IF key \in TextKeys THEN TextRead[key][v] ELSE v

\* str_to_bool, atoi, strnz__cpy: what a field holds of a value.
Stored(o, v) == IF o \in Flags /\ v # 0 THEN 1 ELSE v

FirstOptions == [o \in Option |-> IF o \in Initialized THEN Stored(o, Default) ELSE 0]

\* A line of a configuration file with the value v, which the fields of the key hold.
Says(key, v) == key \in ConfigKeys /\ (v # 0 \/ key \in NumberFields)

SetKey(init, key, v) ==
    IF KeyField(key) \in Option
    THEN [init EXCEPT ![KeyField(key)] = Stored(KeyField(key), v)] ELSE init

TakeLine(init, key, v) ==
    IF Says(key, Parsed(key, v)) THEN SetKey(init, key, Parsed(key, v)) ELSE init

\* What a switch makes of its argument: tab_stop and h_shift are at least 1.
Switched(o, v) ==
    IF o \in BareSwitches \/ (o \in {"tab_stop", "h_shift"} /\ v = 0) THEN 1
    ELSE Stored(o, v)

SetSwitch(init, o, v) == [init EXCEPT ![o] = Switched(o, v)]

\* parse_opt_args: the switches of a command, one after the other.
ParseOpts(init, opts) == FoldLeft(LAMBDA i, o : SetSwitch(i, o[1], o[2]), init, opts)

\* zero_opt_args
Zeroed ==
    {"lines", "cols", "begx", "begy", "p_view_files", "h_shift", "mapp_spec",
     "help_spec", "provider_cmd", "receiver_cmd", "title", "cmd", "cmd_all",
     "parent_cmd", "in_spec", "out_spec"}

\* Mutant: the preview of the last pick stays on.
ZeroOptArgs_KeepsPreview(init) ==
    [o \in Option |-> IF o \in Zeroed \ {"p_view_files"} THEN 0 ELSE init[o]]

ZeroOptArgs(init) == [o \in Option |-> IF o \in Zeroed THEN 0 ELSE init[o]]

-----------------------------------------------------------------------------
(* write_config: the lines of the dump, in the order in which they are written. *)

DumpedGeneral ==
    <<"parent_cmd", "cols", "lines", "title", "begx", "begy", "cmd_all", "cmd",
      "mapp_spec", "help_spec", "in_spec", "out_spec", "receiver_cmd", "provider_cmd",
      "f_erase_remainder", "fill_char", "f_strip_ansi", "f_multiple_cmd_args",
      "select_max", "f_ln", "f_squeeze", "tab_stop", "h_shift", "brackets", "wrap",
      "f_ignore_case", "p_view_files", "f_read_theme", "editor">>
DumpedParts ==
    <<"bg", "fg", "box_fg", "box_bg", "ind_fg", "ind_bg", "brackets_fg", "brackets_bg",
      "fill_char_fg", "fill_char_bg", "ln_bg", "ln_fg", "cmdln_bg", "cmdln_fg", "nt_fg",
      "nt_bg", "nt_hl_fg", "nt_hl_bg", "nt_rev_fg", "nt_rev_bg", "nt_hl_rev_fg",
      "nt_hl_rev_bg", "title_fg", "title_bg", "ran_fg", "ran_bg", "blue_gamma",
      "gray_gamma", "green_gamma", "red_gamma">>
DumpedRest ==
    <<"black", "red", "green", "yellow", "blue", "magenta", "cyan", "white", "bblack",
      "bred", "bgreen", "byellow", "bblue", "bmagenta", "bcyan", "bwhite", "mapp_data",
      "mapp_help", "mapp_home", "mapp_msrc", "mapp_user", "mapp_theme">>
Dumped == DumpedGeneral \o DumpedParts \o DumpedRest

\* Each line is the key and the value of its field, a text as it is, without quotes.  Those
\* of other fields are left out, and the lines that stay keep their places.
Written == {i \in DOMAIN Dumped : Dumped[i] \in Option}

Printout(key, v) == IF key \in GammaKeys THEN Rounded[v] ELSE v

WriteConfig(init) ==
    [i \in Written |-> <<Dumped[i], Printout(Dumped[i], init[Dumped[i]])>>]

\* A file that holds these lines is read, from the first place to the last.
ReadLines(init, lines) ==
    FoldLeft(LAMBDA i, l : TakeLine(i, l[1], l[2]), init, lines)

\* A value that reading makes of what was written of it.
Keeps(o, v) == Parsed(o, Printout(o, v)) = v
=============================================================================
