SPECIFICATION Spec
CONSTANTS
    Blank = 1
    First = 3
    Final = 4
    Quit = 4
    Designator = {2}
    MaxMenuLines = 4
    Option = {"f_ln", "h_shift", "p_view_files", "title", "mapp_spec", "ln_fg", "cmdln_fg", "f_ignore_case",
              "fill_char", "f_erase_remainder", "red_gamma"}
    Value = {0, 1, 2}
    Default = 9
    TextRead <- MCTextRead
    Rounded <- MCRounded
    Arg = {"data", "prog", "new", ""}
    NoArg = ""
    Has <- MCHas
    Key = {"f_ln", "mapp_spec", "cmdln_fg", "p_view_files"}
    Switch = {"f_ln", "h_shift", "p_view_files", "f_ignore_case"}
    Text <- MCText
    Commands <- MCCommands
    Byte = {3, 8}
    MaxInclude = 1
    Budget = 8
INVARIANTS TypeOK LettersRight OptionsRight
CHECK_DEADLOCK FALSE
