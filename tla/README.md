# C-Menu in TLA+

C-Menu is a set of terminal programs written in C: a menu system (`menu`), a
pager (`view`), a selection list (`pick`), a data-entry form (`form`) and a
file finder (`lf`), with a library they share. This directory holds TLA+
modules of its parts that are hard to test, TLC configurations that check them
on small instances, and theorems about them that the TLA+ proof system checks.
Every definition is a translation of the C source; `PROJECT.json` names the
lines each one stands for.

- [What the system consists of](#inventory)
- [Plan](#plan)
- [The models](#the-models)
- [The runs](#the-runs)
- [The proofs](#the-proofs)
- [Where documents and code disagree](#where-documents-and-code-disagree)
- [What is not modelled](#what-is-not-modelled)

## Inventory

All of the core code is in `src/src/`. `src/src/work`, `src/src/snippets`,
`src/src/notcurses` and the `ui_notcurses*` files are drafts or an alternative
backend and are left aside, as are `menuapp/`, `screenshots/` and `configs/`.

| component | source | state it keeps | operations |
|---|---|---|---|
| lf | `lf.c` | queue of directory tasks, `active_tasks`, `shut_down`, the mutex and condition variable, `file_count` | `init_find`, the thread function `finder`, `enqueue_dir`, `dequeue_dir`, `scan_file` |
| pick | `pick_engine.c` | `struct Pick`: master list, displayed list, marks, cursor, page | `pick_engine`, `picker` (objects loop and line editor), `match_objects`, `output_objects`, `exec_objects` |
| view | `view_engine.c`, `init_view.c` | `struct View`: mapped file, line table, page top and bottom, marks, search state | `view_file`, `view_cmd_processor`, paging, scrolling, `search`, `go_to_*` |
| form | `form_engine.c`, `fields.c`, `cm_fields.c` | `struct Form`: fields, current field, which function keys are offered | `form_engine` (action loop), `field_navigator`, `field_editor`, `form_post`, `form_process` |
| menu | `menu_engine.c`, `parse_menu_desc.c`, `popups.c`, `menu.c` | `struct Menu`, current line; `init->menu` .. `init->view` | `menu_engine`, `menu_cmd_processor`, `popup_*` |
| processes | `exec.c`, `sig.c`, `scriou.c`, `rsh.c`, `detach.c` | saved terminal modes, handlers, `sig_received` | `fork_exec`, `fork_detach_execvp`, `signal_handler`, `capture_*`, `restore_*` |
| structures | `mem.c` | `init->*_cnt`, the globals `menu`, `pick`, `form`, `view` | `new_*`, `destroy_*`, `verify_spec_arg` |
| configuration | `init.c` | `struct Init` | configuration file, environment, command line |
| windows and keys | `dwin.c`, `ui/ui_ncurses*.c`, `curskeys.c` | surface stack, chyron | `box_win_new`, `ui_get_event*`, `compile_chyron`, `get_chyron_key` |
| strings | `futil.c` | none | `str_to_args`, `trim`, path functions |
| small programs | `iloan.c`, `amort.c`, `whence.c`, ... | none | one pass over the input |

How they interact. `menu` is the root: its loop waits for a key and either
starts a program (`full_screen_fork_exec`, `fork_detach_execvp`) or calls a
popup, and a popup saves the pointer of its kind in `init`, builds a new
structure, runs the engine and puts the pointer back. `pick` shows a `view` of
the file under the cursor; every engine opens a `view` for help. `form` and
`pick` start provider and receiver processes over pipes. All of that is one
thread; `lf` is the only part with several. Signals only set `sig_received`.

What makes them hard, and what correctness means:

- **lf**: threads meet in a queue, an atomic counter that is changed outside
  the mutex, and one condition variable the main thread shares. Correct when
  every directory is read once and every wanted path is listed once, the search
  is not ended early, and it ends.
- **pick**: four indices (object, page, line, column) describe one cursor, and
  the list under them is replaced as the user types. Correct when the cursor is
  on an object that is listed, what is passed on is what was marked, and the
  limit of `-n` is kept.
- **view**: the line table is filled while lines are read and consulted for
  lines that may not have been read. Correct when a line number stands for the
  same line in the table, on the screen and in every jump.
- **form**: the loop is driven by action codes that several functions return.
  Correct when data is written once and only after it was accepted, and every
  failure returns to a state from which the user can go on.
- **menu, structures, processes**: what is saved before a call must be put back
  after it on every path. Correct when pointers, counters, terminal modes and
  handlers after a popup or a command are those from before.

`PROJECT.json` lists the hazards of this kind at their lines, with the
properties that would catch each.

## Plan

| | modules | what it shows | state |
|---|---|---|---|
| 1 | `LfTree`, `LfWalk`, `LfFinder`, `LfFinderProofs` | the thread pool of lf, that it implements an abstract walk, and proofs of both | done |
| 2 | `PickTable`, `PickEngine`, `PickEngineProofs` | the cursor, the filter and the selection of pick; proofs of every invariant | done |
| 3 | `ViewFile`, `ViewEngine`, `ViewEngineProofs` | the line table of view: what it holds is always right; paging, scrolling, jumps, marks; proofs of every invariant | done |
| 4 | `FormFields`, `FormEngine`, `FormEngineProofs` | action loop, navigator, editor, provider with failures, writing; what is confirmed is what is shown; proofs | done |
| 5 | `Terminal`, `MenuSession`, `PopupStack`, `MenuSessionProofs`, `MenuSessionTheorems` | popups within popups, their structures and windows, processes, signals, the modes of the terminal: what is saved is restored; that popups implement a stack; proofs of both | done |
| 6 | `LineEdit`, `ViewSearch` on top of `ViewEngine`; `ViewEngineProofs` | the command line of view and the search: it ends and skips no match; proofs of all but the end | done |
| 7 | `Config`, `MenuDesc`, `FileSpec`, composed by `StartUp`; `StartUpProofs` | which option wins, which letter a menu line gets, which file a role gets, from the start of a program through its popups; proofs of every invariant | done |
| 8 | `Texts`, `Files`, `Chyron`, `Colors`, `LfOptions`, `LineFormat`, `ViewInput` | pure functions, against reference definitions over bounded inputs | checked; the bar of keys (`Chyron`) proved in `FormEngineProofs`, the colours and pairs of cells (`Colors`) in `StartUpProofs`, what the others say of every input not |

Abstract specifications: the walk (`LfWalk`) and the stack of popups
(`PopupStack`). For view the reference is the file itself, `LineStart` of
`ViewFile`, and no abstract machine is needed. Every invariant, action property and refinement
that a run passes is proved. Theorems worth proving next are about the pure functions that
are not recursive: that an escape sequence shows a text as its parts do (`PartsAdd`), and that
the options of lf narrow what is listed (`OptionsNarrow`).

## The models

### lf: `LfTree`, `LfWalk`, `LfFinder`, `MCLfFinder`, `LfFinderProofs`

`LfTree` is the directory tree and the tests of the `readdir` loop in
`finder()`: skipped, listed, descended into. A directory task is the path that
leads to it; two paths may lead to the same directory through a link.

`LfFinder` is the pool. Each thread has a `pc`; the queue is the list `qhead ..
qtail`, guarded by `mutex`. Sections under the mutex that touch only guarded
data are one step (`Enqueue`, `Take`, `Quit`). `dequeue_dir` also loads
`active_tasks`, which other threads change without the mutex, so it is split
where their `fetch_sub` and broadcast can fall (`Lock`, `MustWait`, `Wait`).
`file_count++` is a load and a store. `pthread_cond_signal` wakes any one
sleeper, the main thread too; sleepers may also wake for no reason.

`LfWalk` is what a search promises without threads: directories are open, then
closed when all they hold has been dealt with. `LfFinder` implements it with
`open` the directories queued or in hand, `closed` those whose task was freed
and `stopped` the flag `shut_down`.

| code | model |
|---|---|
| `qhead`, `qtail`, `active_tasks`, `shut_down`, `queue_mutex`, `cond_var` | `queue`, `active_tasks`, `shut_down`, `mutex`, `pc[t] = "asleep"` |
| `init_find` | `Spawn`, `Spawned`, `AwaitShutDown`, `Join` |
| `dequeue_dir` | `Lock`, `Take`, `Quit`, `ShutDown`, `MustWait`, `Wait` |
| `finder` | `OpenFails`, `WakeAll`, `OpenDir`, `ReadEntry`, `CloseDir` |
| `enqueue_dir`, `scan_file` | `Enqueue`, `LoadCount`, `StoreCount` |

### pick: `PickTable`, `PickEngine`, `MCPick`, `PickEngineProofs`

`PickTable` holds the cursor arithmetic of `struct Pick` as operators on a
record: where a page, a column and a line are in the list, what drawing and
undrawing the cursor does to the index, what each key does. Unsigned
subtraction wraps. Drawing an entry that is not there sets `fault`.

`PickEngine` is the program around it: one action per key, and in the same
action what the loop does before it waits for the next key (draw the cursor,
open the preview, draw it again). `picker` returns for several reasons and
`pick_engine` processes the selection for all but one of them. A search text is
a value known by the objects that contain it. Three variables are histories:
`chosen`, what the user marked; `job`, what the last step processed; `rc`.

| code | model |
|---|---|
| `d_cnt`, `d_object`, `d_idx`, `tbl_page`, `tbl_line`, `tbl_col` | fields of `pick` |
| `f_selected`, `select_cnt` | the same |
| `pick_engine` | `Open`, `Process`, `Leave` |
| `picker`, objects loop | `Toggle`, `Accept`, `Cancel`, `Help`, `View`, `End`, ..., `EnterField`, `Wheel` |
| `picker`, line editor | `EditText`, `EraseText`, `LeaveField`, `FieldClick`, `FieldHelp`, ... |
| `output_objects`, `exec_objects` | `Processed` |

### view: `ViewFile`, `ViewEngine`, `MCView`, `ViewEngineProofs`

`ViewFile` is a file known by the positions at which its lines end, and what
`get_line` makes of a position: a line, a line longer than the pad (whose end it
does not see), or the end of the data.

`ViewEngine` is the command processor with lines cut at the pad (`S` off). A
command is one action if it loops over nothing. Paging, scrolling and `G` read
line by line: the command sets up the loop, `pc` names it, and each line is one
step, so that reading a line and entering the next one in the table is one step
and a loop that never ends is seen. `screen` is what each row shows, the number
in front of it and the position it was read from. Two variables are histories:
`eof` (the last command was `G`) and `scrolled` (how the page was moved since it
was displayed, "off" once its rows need not follow one another).

An index outside of the table, or a part of it that `realloc` did not
initialize, reads `Wild`. When a command uses such a value as a position the C
program may do anything, so the behaviour ends there (`pc = "wild"`); it is not
an error of the runs, and what leads to it is listed below.

| code | model |
|---|---|
| `ln_tbl`, `ln_tbl_size`, `ln_tbl_cnt`, `ln_max_pos`, `ln_no`, `ln_no_max`, `page_top_ln_no`, `page_bot_ln_no`, `page_top_pos`, `cury` | the same |
| `view_file` | `Init`, `Open` |
| `next_page`, `view_display_page`, `display_line` | `NextPage`, `DisplayLine`, `DisplayEod`, `Draw` |
| `scroll_down`, `scroll_up` | `Down`, `DownLine`, `DownEnd`; `Up`, `UpLine`, `UpEod` |
| `prev_page` and Ctrl-L | `PPage`, `Redisplay` |
| `get_line`, `increment_ln` | `GetLine`, `Increment` |
| `sync_ln`, `go_to_eof` | `GoToEof`, `SyncLine`, `SyncEnd`, `ShowEnd` |
| `line_number` | `Bisect`, the search, and `LineNumber`, the set of its possible results |
| `go_to_line`, `go_to_percent`, `go_to_mark` | `GoToLine`, `GoToPercent`, `GoToMark` |
| `build_prompt` | `Prompt` (it sets `page_top_pos`, if the title leaves room) |

### form: `FormFields`, `FormEngine`, `MCForm`, `FormEngineProofs`

`FormFields` is what formatting makes of a text, and which texts are refused.
A text is blank or a number; the digits of a hexadecimal field are read again
each time, as `form_fmt_field` does, because it writes the number back in
decimal. A field has a number of columns (`len`): what is typed ends with them
(`InField`), and so do the value (`AcceptText`) and what is shown of it
(`DisplayText`). A date and a time are kept as eight and six digits and shown as
YYYY-MM-DD and HH:MM:SS, ten and eight columns, so a narrower field shows only the
beginning (`DateCut` with a gap of one column between the parts); one that is narrower
than the digits cuts the value itself (`DateCut` without a gap).

`FormEngine` is one run of `form`: a description and options (`form`, chosen at
the start), reading the input, editing, confirming, the provider and the end.
`pc` tells which function has control. `field_editor` and `field_navigator` are
a step each, joined by `key`; so are starting the provider, each line it prints,
and its end. `accept` and `display` are the two texts of each field and `screen`
what the window shows of it, three things the code keeps in step by hand.
Addressing a field outside of the array ends the behaviour (`pc = "wild"`): the
wheel over a field, a form of text only in which Down is pressed `FIELD_MAXCNT`
times, and an input of more lines than that lead there.

| code | model |
|---|---|
| `fidx`, `fcnt`, `accept_s`, `display_s` | `fidx`, `fcnt`, `accept`, `display` |
| `form_engine`, `display_form` | `Loaded`, `ToPrompt`, `Help`, `Cancel`, `End` |
| `form_read_data` | `ReadLine`, then `Loaded` or `Provided` |
| `field_editor` | `Edit` (entry), `Type`, `ArrowKey`, `EnterKey`, `AcceptKey`, `CancelKey`, `HelpKey`, `Wheel` |
| `field_navigator` | `Navigator` (entry), `Up`, `Down`, `Accept` |
| `form_post`, `form_process` | `PromptEdit`, `PromptCancel`, `PromptAccept`; `Process`, `StartProvider`, `Provided` |
| `form_fmt_field`, `form_validate_field` | `Formatted` with `AcceptText`, `DisplayText`; `Refused` |
| `form_write`, `form_exec_receiver` | `WriteForm`, `Arguments` |

Which function keys the chyron offers is not a variable: no handler looks at it.

### menu, popups, processes: `Terminal`, `MenuSession`, `PopupStack`, `MCMenu`, `MenuSessionProofs`, `MenuSessionTheorems`

`Terminal` is what a program holds of the terminal as a record with an operator
for every function: the surfaces that are allocated, `ui_surface` with its
`sfc_ptr`, whether the screen is open, who handles signals, whose modes are set.
A surface is its address, and a freed address can be allocated again, so that a
dangling entry of `ui_surface` may come to stand for another window.

`MenuSession` is the call stack. A frame is an engine that runs, with the
structure it works on, the one `popups.c` keeps for its caller, and its windows;
an action is a key, the end of a child, or a signal, and does all that the code
does between two waits. What an engine does with its data is left to the other
modules. `lost` remembers the paths on which the code loses a window or the
screen; what happens after one is undefined behaviour, and `CrashOnFreed` lets
the program stop there or go on.

`PopupStack` is what popups promise, without windows and failures: they open and
close like a stack, and the pointer of a kind is the innermost structure of that
kind.

| code | model |
|---|---|
| `ui_surface`, `sfc_ptr`, `f_curses_open`, handlers, saved modes | fields of `tm` |
| `init->menu` .. `init->view`, `*_cnt`, what is allocated | `init.ptr`, `init.cnt`, `init.live` |
| `box_win_new`, `win_del`, `cm_surface_destroy`, `ui_shutdown`, `destroy_curses` | `BoxWinNew`, `SurfaceDestroy`, `CmSurfaceDestroy`, `UiShutdown`, `DestroyCurses` |
| `new_*`, `destroy_*` | `New`, `Destroy` |
| `popup_menu` .. `popup_ckeys` | `PopupMenu` .. `PopupCkeys`, `Back`, `CkeysEnd` |
| `fork_exec`, `fork_detach_execvp`, `exec_objects`, `form_exec_receiver` | `ForkExec`, `ForkExecFails`, `ForkDetach`, `ExecCommand`; `ChildEnd`, `DetachDone` |
| `display_error`, `abend`, `signal_handler`, `handle_signal` | `Notice`, `NoticeEnd`, `Abend`, `Signal`, `CkeysSignal` |

### start and options: `MenuDesc`, `Config`, `FileSpec`, `StartUp`, `MCStart`, `StartUpProofs`

`Config` is how a line of a configuration file, a switch and `zero_opt_args`
change the options; `MenuDesc` the lines of a menu, their letters and the cursor;
`FileSpec` the positional arguments and the search for a file. `StartUp` composes
them: configuration with what it includes, theme, command line, description,
letters, keys, and the popups with the switches and arguments of their lines.
`log` is a history of what set each option: an entry is the options that were set and
their value, one entry for each line or switch, and one for all that `zero_opt_args`
clears. The file that `write_config` makes is read again from the first options up to the
theme its last line includes. Writing and reading lose something, and three constants say
what: `Rounded` is a gamma with the two digits that are printed of it, and `TextRead`
what `process_config_file` takes of a text that was printed without quotes: no blank and
no semicolon, no opening quote, nothing behind a `#` unless a colour follows, and no more
than the field holds. They may be any functions; in the run a text with a blank becomes
another one, and a gamma of three digits one of two. `Keeps` are the values that come back
as they were. An empty text makes no line that is taken (`init.c:723`), so a text that
`mapp_initialization` sets and a switch makes empty comes back with its first value.
`Told` leaves out the options whose value is lost in one of these ways, and only those.

### search: `LineEdit`, `ViewSearch`, `MCSearch`

`LineEdit` has the two editors of the pager's command line: the digits in front of
a command, and `cf_accept` with its buffer and its terminator, which the text
may lose. The length of a field is what the window leaves beside the prompt
(`view_engine.c:898`) and nobody compares it with the buffer, so `FieldLens` are any
lengths. Where a key looks or writes behind the buffer the behaviour ends
(`pc = "wild"`), as it does where the table is read out of range. `ViewSearch` extends
`ViewEngine`: a key is an action, and so is each line a search reads. `arg.longest`
remembers the longest field of the session and `hist` where a search set out and whether
it came round.

`srch_curr_ln_no`, from which the next search sets out, survives the file: when another
file is opened, or the same again, the table is emptied and the line may be one that it
does not know or that the new file does not have. Such a search reads position 0 under
that number. `SearchRight` therefore speaks of searches that set out from a line the table
knows, or from one behind the end; a search that goes on in a file it has read, and every
first search, do.

### pure functions: `Texts`, `Files`, `Chyron`, `Colors`, `LfOptions`, `LineFormat`, `ViewInput`

These modules have no variables: each function of the source is an operator on
values, and their MC modules state as assumptions what the callers rely on, over
all inputs up to a bound. TLC evaluates the assumptions of a module with the run
whose module extends it.

| module | source | assumptions | evaluated by |
|---|---|---|---|
| `Texts`, `Files` (`MCTexts`) | `futil.c`: copying, trimming, splitting, replacing, dates, paths, files | `CopiesBounded`, `FieldsFilled`, `TrimRight`, `QuotesStripped`, `ArgumentsApart`, `QuotesKept`, `ReplacedFits`, `FirstReplaced`, `EscapesStripped`, `PathApart`, `PathEnds`, `TildeExpanded`, `StringsHold`, `DatesCounted`, `FilesFound`, `OnlyText` | `start_up` |
| `Colors` (`MCColors`) | `ui_ncurses.c`, `dwin.c`, `parse_ansi_str`: the colour and pair tables, themes, escape sequences | `CellsRight`, `PairsKept`, `ColoursKept`, `CellsKept`, `TextNotFound`, `FullTables`, `PartsAdd`, `ZeroResets`, `StandardIsTheme`, `OldTextRecoloured` | `start_up` |
| `Chyron` (`MCChyron`) | `dwin.c`: the bar of function keys and clicks on it | `ClickFindsKey`, `CompiledOnce` | `form_values` |
| `LfOptions` (`MCLfOptions`) | `lf.c`: options, dates, sizes, what is listed | `TimesInOrder`, `OptionsNarrow`, `DirectoryFirst`, `StatusTells`, `Consistent`, `Sorted` | `lf_pool`, `lf_count` |
| `LineFormat` (`MCLineFormat`) | `view_engine.c`: a line made into cells and rows | `LinesWrapped`, `TabEndless`, `PageFilled` | `view_search` |
| `ViewInput` (`MCViewInput`) | `init_view.c`: where the text of the pager comes from | `TextShown`, `OnlyRegular` | `view_search` |

## The runs

| run | instance | properties |
|---|---|---|
| `lf_pool` | three finders, a tree with a nested file, a directory that cannot be opened and a dangling link, one spurious wake-up | types; the count of active tasks; no early end; completeness; nothing read twice; some finder awake; implements `LfWalk`; ends |
| `lf_count` | two finders, two files | violated: two increments of `file_count` meet |
| `pick_pages` | seven objects on pages of three, `-n 3`, a preview | the limit; what is processed is what was marked, with room for the names of three in one argument; the preview follows; `j` goes to the next object of the page and END to the last |
| `pick_search` | four objects on one page, two search texts, the wheel | types; the cursor on a listed object; the filter |
| `pick_filter` | as above, with `-n 2` and a command | violated: a mark stays at its row when a search moves the objects |
| `view_lines` | four files: one that makes the table grow, one with a line longer than the pad and an unterminated end, one without a newline, one of a single line; counts 1, 2 and 5; pages of two | types; the table is right; rows show the line they are numbered with; rows ascend; `G` shows the last line; every command returns |
| `form_values` | five descriptions (text only; a string and a date of ten columns; hexadecimal and decimal; a time of six columns; a date of seven), with and without directive, input, receiver and output to a file or standard output | types; the cursor in the form; what is confirmed is shown, as far as there are columns; what is written was confirmed; a cancelled form gives nothing away; form always answers |
| `view_scroll` | one file | violated: up and then down leaves out a line |
| `view_search` | two files, one with an unterminated line; a character, the space, fields of one and of three columns beside a buffer of three places, two arguments that are no pattern; a digit | types of the editors; an argument stays in its buffer while no field is as long; the page of a search begins with the first match behind where it set out; a search ends |
| `menu_session` | four engines on the call stack, room for three windows, lines of every kind, failures of every call that can fail, a signal at any moment | types; the surface stack is the call stack; each structure belongs to one engine; a program stops by itself or by a signal only where said; the terminal is given back; implements `PopupStack` |
| `menu_exec` | two engines | violated: after a command the windows are gone |
| `start_up` | eleven options, set by four keys and by four switches and those of five commands, one file including another, three texts, eight events; a text that loses a blank and a gamma that loses a digit when they are written and read | types; the letters of a menu; where each option comes from, the written configuration, the order of arguments |

Bounds and why they are enough. Three finders are the least for which a wake-up
can go to one sleeper while another needs it and a third still reads. The tree
has one directory at each depth a finder treats differently (base, below it,
and one that fails) and entries of each kind. Seven objects on pages of three
give a first, a middle and a short last page; a limit of three lets marks be
spread over pages and taken back. With `pick_search` all objects fit one page:
a search from a later page leaves the cursor outside the list (see below), so
that a larger table would check nothing more that holds. `OBJ_MAXCNT` and
`UINT_MAX` keep their roles at small values above every index that can occur.
For `menu_session` four frames are a menu, a popup in it, a popup or preview in
that, and a message or a child; three windows make the stack run full before the
frames do, and fifteen addresses are enough that memory does not run out. `start_up` lets eight events happen (a line that sets an option counts
twice), so that an option can be set by three sources before a popup, or by two
and used by two popups; the three texts let two lines want the same letter, all
letters be taken with a text left over, and one want the letter of `q`. Among the options are a text that is set at
the start and that a form's switch makes empty, a flag that no line of the instance
sets, a title that comes back as it is or without its blank, and a gamma that comes back
rounded. In `view_search` a field of one column is filled beside a buffer of three places,
and one of three, as long as the buffer, is filled, overwritten and shortened until its
terminator is lost; no line is longer than the pad, commands that no search looks at (marks, percentages,
redisplay) are left out, and a number has one digit.
For view, five lines and a table that grows by four entries give a table that
is not full, full, and grown; the counts lie inside a page, at its height and
beyond the file; files are opened after one another, because the number of
entries survives the file, and so does `ln_no_max`, which for a file of one line after one
of five is far behind its end. A search in a file of four lines, with a table of four,
was checked besides. All numbers are bounded by the file, so no bound on
the length of a session is needed: the runs reach every state.

Fairness. In `lf_pool` each thread that can run
keeps running (weak fairness of the main thread and of each finder), which is
what the kernel's scheduler gives. Nothing is assumed of spurious wake-ups, of
which thread a signal wakes, or of who gets the mutex next. In the view runs a
loop that was begun goes on by itself (weak fairness of `Loop`); no key is ever
assumed to be pressed. In `form_values` Form goes on by itself (weak fairness of
`Program`), which includes that the input and the provider's output come to an
end; again no key is assumed. In `view_search` a search goes on by itself (weak
fairness of `Searching`). The other runs assume none. Deadlock is checked in
every run but `form_values`, `menu_session`, `menu_exec` and `start_up`, where the
program ends, and those violated on purpose.

For form, a description has at most two fields and the array three, so that an
unused one is formatted too and an input can be too long. Among the texts are a
number that is longer than its field, a date of a leap year and one that is none, a time
and one that is none. Of the fields for dates and times one has the columns of what is
shown, one only those of the digits and one fewer, so that the window shows all of it,
its beginning, and the beginning of a value that is itself cut. Hexadecimal fields have
two digits, which makes the drift of their values end in a cycle. Opening the output may
fail; writing to an opened file is assumed to succeed.

## The proofs

`LfFinderProofs` proves, for every finite set of finders, every tree and every
number of spurious wake-ups:

- `TypeCorrect`, `ActiveCorrect`, `ShutDownCorrect`, `ReadOnceCorrect`,
  `CompleteCorrect`: the invariants of `lf_pool` of the same names;
- `ListedOnceCorrect`: no path is counted twice;
- `PoolImplementsWalk`: `LfFinder` implements `LfWalk`.

- `SomeoneAwakeCorrect`: while the search is on some finder is awake.

Assumed are `TreeAssumption` and `ThreadAssumption`, which TLC evaluates on
each run. The properties are not inductive one by one: that the count is right
needs that no task is held twice, that no task is held twice needs that a
directory enters the queue only from the finder whose entry it is, and
completeness needs what every finder has still to do. `IInv` states all of
these: types, the count, disjointness of queued, held and finished tasks, what
each finder has in hand and in `todo`, and that everything a finished directory
leads to is somewhere in the pool. Each conjunct is preserved by every action
(`NextType`, `NextActive`, `NextReadOnce`, ...), and the theorems follow. For
`SomeoneAwake` the mutex is needed: between two steps it is held by the finder
inside of `dequeue_dir` and by nobody else (`MutexHeld`). A finder that is about to
sleep saw `active_tasks` above zero, so another one was at work; that one may have
counted itself out since, but to sleep it needs the mutex, and before that it
broadcasts (`SleepInv`).

`NumberLemmas` holds what several components need of numbers: least and greatest
elements, quotients and remainders, the rank of an element in a finite set of
numbers, and folds over such sets. Induction is not used for it: a counterexample with a least number is
contradicted.

`PickEngineProofs` proves, for every number of lines of input, every page height
and number of columns, every set of search texts, every limit and command, from
`TableAssumption` and `PickAssumption` (the width of an unsigned holds twice what
all columns of a full table can count to):

- `TypeCorrect`, `CountCorrect`, `FilterCorrect`: shapes, the count of the marks (which
  no run checks), and what a search lists, without any hypothesis;
- `LimitCorrect`: the limit of `-n`, without `-o` (with it the code passes the limit,
  see below);
- `CursorCorrect`: the cursor is on an object of the list and on its page, if
  nothing is searched or all objects fit one page and every text is in one of them;
- `ViewCorrect`, `KeysCorrect`: the preview is the object under the cursor, `j` goes
  to the next object and END to the last, under the same hypothesis and in a table
  of one column;
- `ChosenCorrect`: what is processed is what was marked, if nothing is searched and
  the command has room for all objects: in `eargv`, or for all names in the one argument
  that `-m` and `%%` join.

The hypotheses are those without which the code does something else: a search from
a later page leaves the cursor beyond the list and moves the objects under the
marks, with two columns `j` stays where it is, arguments beyond `MAXARGS` are dropped, and an
argument of joined names is cut at `MAXLEN - 1` characters (`Fitting`). Each hypothesis is what the run of that property has, or weaker. The
inductive invariants are `TableInv` (what is listed are objects, then nulls),
`CountInv`, `LimitInv` (when `picker` returns because the limit is reached the cursor
is on a mark, which is then taken off), `CursorInv` (the page and the column exist
whenever a key can look at them; it does not hold of a loop that spins),
`ObjectInv` (drawing the cursor twice leaves it in place, so the preview opened in
between is the right one), `ChosenInv` and `JobInv`. That the list made by a search
is in the order of the master list and has no gap is a statement about the rank of
an object among those that match.

`ViewEngineProofs` proves, for every set of files, page height, width of the
pad, increment of the table, counts and marks:

- `TableCorrect`: the used part of the line table holds where the lines of the
  file start, in order and without a gap, whatever was displayed, jumped to,
  read to the end or opened;
- `RowsCorrect`: a row never shows another line than the one it is numbered
  with, except the first line of the file where the table held a zero;
- `TypeCorrect` and `AscendCorrect`: the types, and that the rows of a page are in
  the order of the file and begin with `page_top_ln_no`;
- `EofCorrect`: behind `G` the page shows the last line.

`TableCorrect`, `RowsCorrect` and `EofCorrect` assume `FirstLineFits` besides `FileAssumption` and `ViewAssumption`: the
first line of every file is read to its end. `view_file` does not reset
`ln_tbl_cnt`; it is set right by the first newline that is read, and a file
whose first line is longer than the pad shows a page without reading one. `G`
would then go on from the count of the file viewed before.

What makes the table inductive (`IInv`) is what is known of it before the first
newline was read: the count may still be that of another file, all entries are
zero and no line can be numbered yet (`FirstPage`); that beyond the used part
there is nothing but zeros and undefined entries (`TableFilled`), so that a
command which trusts the capacity of the table reads a zero and never half a
table; and where `sync_ln` stands while it reads on (`SyncAtEnd`). The rows
need in addition that a page being displayed is right above the cursor while
below it there are still the rows of the page, or of the file, before (`RInv`).
The types are inductive together with what each loop knows of its variables
(`TInv`), and for that the result of `line_number` need only be an index of the
table: `LineNumber` says so of the recursive `Bisect`. The order of the rows rests
on which row each loop draws next (`PageInv`): a page that is displayed is numbered
from its top, a page that is scrolled down goes on from the line of its last row,
one that is scrolled up is free in its first. The proof found a case in which the
rows do not ascend: with `ln_no_max` left over from a longer file `j` goes on past
the end of the data, and drawing resumes with a number that was shown. `scrolled`
therefore turns to "off" when a page on which the data ends is scrolled down, and
`view_lines` has the file that shows the case. For `G`, `EofInv` says that the last
line is above the cursor or still fits below it, and `KnownInv` that `ln_no` and
`page_bot_ln_no`, from which `G` and the scrolling go on, are in the table.

The module also has the theorems of `ViewSearch`, for any characters, size of the buffer and
of the fields, digits and patterns, from `EditAssumption` and `SearchAssumption` besides:

- `SearchTypeCorrect`: the number that is typed stays in its buffer and the argument in
  its own until a key leads out of it, where the model ends; nothing is written behind the
  longest field; the search, the rows and the cursor keep their types;
- `ArgumentCorrect`: as long as every field was shorter than the buffer, no key looks or
  writes behind it;
- `SearchCorrect`: the page of a search begins with the first line that matches, of those
  from where it set out, and goes on with the lines behind it; and the line table is right
  under searches too.

`EditAssumption` says nothing of the fields but that they have columns. That the argument
stays in its buffer needs where a text without a terminator ends: the
buffer behind the longest field is never written, so if there is any the terminator is
found there at the latest (`Fits`, `EditorOK`). `SInv` joins this with the types of the loops. `SearchNextInv` shows
that a search enters lines in the table like any other reader, because it reads from where
the table says that a line begins, and `SearchAssumption` (the search knows the end of
every line) takes the place of `FirstLineFits`. `FoundInv` is what a step of the
search keeps: until it comes round it is not in front of where it set out, no page
has begun or the page ends in front of the line that is read next, every row follows the
one above, and if it set out from a line of the table the table has every line it read, so
that each row has its position from there. The proof showed that `SearchRight` needs its
condition: without it the property is violated in a file of four lines.

`FormEngineProofs` proves, for every set of descriptions and options, every
size of the array and every text:

- `TypeCorrect`, `CursorCorrect`: shapes, and the editor is in a field of the
  form;
- `ScreenCorrect`: what the user is asked to confirm is what the fields hold, or, of a
  date or a time, as much of it as the columns of the field show; except one that is not
  a date or a time, and one whose field is shorter than its digits and cuts it to
  something that may be none (`Shown`);
- `SavedCorrect`, `CancelCorrect`: the properties `SavedIsFinal` and
  `CancelLeaves` of `form_values`;
- `RefusedCorrect`: the only value that can be refused is a hexadecimal field
  with one digit.

Assumed are `BlankAssumption` and `FormAssumption`. The window alone is not
inductive, because while lines are read it shows the texts from before and is
then drawn from `display`: `IInv` says in addition that `display` is right at
all times (`DisplayRight`), which holds because a text that is formatted is
displayed right whatever was displayed before (`FormatRight`).

The same module proves what `MCChyron` checks, for every bar in `BarType`, which is every
bar that the calls on it can make (`CallsType`): `ClicksCorrect`, that a click on the text
of a key answers with the code of the key, one on the bar behind a key with that of the key,
and that the last key of the table is never found; and `TextCorrect`, that the keys stand in
the order of the table, that the length leaves out the last blank and that compiling again
changes nothing. `compile_chyron` is a fold over the keys. `Built` says what holds when the
keys in front of a given one were added: a column that shows a key is not behind the
`end_pos` of the key, and the texts of the keys before it end at least two columns in front
of it. So the first key whose `end_pos` is not in front of a column is the one whose text is
there. `EndStays` says that the keys that follow leave an `end_pos` alone, from which it
follows that a second compilation adds every key where the first did.

`MenuSessionProofs` and `MenuSessionTheorems` prove, for any bound on the engines that
run and on the windows, and any lines of the menus, from `SessionAssumption` and
`TerminalAssumption` (memory has addresses for all windows):

- `TypeCorrect`: the types, with the counts of structures and of windows;
- `CountsCorrect`: each structure belongs to one engine on the call stack, and the
  counts of `struct Init` are right;
- `StackCorrect`: `MenuSession` implements `PopupStack`;
- `SurfaceCorrect`: `ui_surface` is the windows of the engines, in their order;
- `EndsCorrect`, `ExitCorrect`: how a program ends, and what it leaves.

The last three speak of the paths on which no window was lost, as the properties
do; the first three of all. The argument has two parts. The first is about
structures: `Whole` says of every kind that the pointer in `init` is the structure of
the innermost engine that has one, the pointer that a popup saved that of the
innermost engine below it, that no two engines share a structure and that the counts
are their numbers; `Leak`
that every allocated surface is that of somebody; `Deep` that only a message goes
beyond the bound of frames, for which there is always room. `Sound` joins them, and
there is a lemma for each function of the source (`New`, `Destroy`, the popups, the
ends, the processes) that it leads from a sound world to a sound one, in which the
structures of the engines below are what they were (`Grows`, `Shrinks`). An action
opens or closes one engine or two, which is what a step of `PopupStack` does
(`StackStep`). `Inv` is the invariant: it says nothing of a program that has
stopped but its types.

The second part is about windows. `Shown` gives the place of a window in `ui_surface`
by its rank among the engines that have one; `Placed` adds that the screen is open
and which engine has which windows; `Clean` that an engine that failed has its message above it.
`Follow` is what each function keeps of that: it loses no window silently, it never
ends the program by a signal, who gives away the handlers is about to start a
process, and what was clean is clean or restored. `InOrder` is the second invariant.
Where a program is killed is known from who set the default handlers (`Guarded`).

`StartUpProofs` proves, for any texts, commands, switches, options, files and any
alphabet, from `MenuDescAssumption`, `ConfigAssumption`, `OptionAssumption`, `TextAssumption` (what
reading and rounding make of a value is a value) and `StartUpAssumption`:

- `TypeCorrect`: the types of the start, and that the cursor of a menu that waits for
  a key is on a line that runs, unless the letters ran out;
- `LettersCorrect`: the letters of a menu that is shown;
- `OptionsCorrect`: every option but the four of a wrong name has the value that it was
  given last, a configuration that is written gives it back if writing and reading leave
  its value as it is, whatever they make of the other lines, and the arguments of a
  popup get their roles in order.

`TInv` has the types. They need that `parse_opt_args`, which goes over switches of any
number, keeps the options what they are: the fold it is written with is a choice of a
function on the sets of indices, so `FoldExists` shows that there is one and `FoldType`
that it keeps the type each step keeps, both by a least counterexample. `MInv` is about
the menu: a letter that was given belongs to one line and is out of the filter
(`LetterOwned`), a choice that asks first has its letter (`FirstServed`), and while the
description is read nothing is in the filter but the control characters, `q` and what was
asked for (`OnlyAsked`), which is why that letter is still free when the command of the line comes.
`Paired` says that a text without a command can only be the last line; the program
stops at it unless the letters ran out before.

For the options `OInv` says that they agree with the log, that what was dumped are the
options of that moment, and that the roles of a popup are those its arguments give. The
switches of one command are any number: along the prefixes of the fold the options agree
with the log so far and the part of `Logged` that belongs to the prefix (`ParseLogged`,
`FoldPrefixes`), and the last entry of two logs joined is the last of the second that
speaks of the option (`Joined`). `ReadBack` goes through the lines of a dump in the same way: an
option has its first value until its line was read and its own from then on, whatever the
other lines say; what the line makes of it is its own value where `Keeps` holds.
`PositionalOrder` is about the arguments: an argument that is taken
gets a role behind all that were given, and `FilledRoles` that it is none a switch has
filled.

The same module proves `CellsCorrect` about the colours and the pairs of a terminal
(`Colors`), for tables of any size, any corrections and any two colours of a cell: its pair
shows the two colours, no pair that stood shows others, and the same cell gets the same pair
again. The theorem asks that two colours and a pair still fit, that the first pair, which is
lost, was defined, and that every pair names slots in use (`Rooted`); `CellsKept` checks that
these hold of the tables a theme leaves. The last is what keeps a new colour from a slot that
a pair still names. Each cell keeps it, and reading another theme ends it, because it sets
the count of slots back (`OldTextRecoloured`).

Only model-checked: termination and every other liveness property (`Termination` of
lf, `Responds` of view and form, `SearchEnds`; fairness and `ENABLED` are out of the
prover's reach), and the assumptions about the pure functions but those about the bar of
keys and the cells. What the recursive ones of those compute for every input needs
induction over data, which the installed provers cannot do, and is checked over bounded
inputs.

## Where documents and code disagree

Each of these is a run that ends in a violation; `PROJECT.json` quotes the
line of the document.

- `lf -c` undercounts: `file_count++` is not protected (`lf_count`).
- Marks of pick stay at their row while a search moves the objects
  (`pick_filter`).
- `k` and then `j` in view leaves out a line (`view_scroll`).
- A menu, a form or a pager that starts a command in the foreground has no window
  and no screen when the command ends (`menu_exec`).

Others were met while modelling. The models contain the behaviour; no run is
spent on them:

- lf: with `-L` the base is read again through a link to it; `-T` above 1 on one
  processor starts no finder and hangs (560); the result of `pthread_create` is
  not looked at (578), nor is `termination_status`, which errors set (139);
  the flags for `regcomp` are given to `regexec` too, where they mean that `^`
  never matches, and with `-i` `$` neither (1103); `README.md:228` shows `lf -a 2024-01-01`, but a
  date without a time is ignored (`futil.c:278`); `lf regex dir` always fails
  (430); `-t u` lists nothing; a dangling link is skipped (`lf.c:957`) where the comment at 944 says it
  is still processed; hidden directories are listed without `-H` (962 against
  `docs/lf.md:78`); `-T 2` on four processors starts three finders (554).
- pick: a list of one object divides by `lines - 1`, which is 0
  (297); a search from a later page leaves the cursor beyond the list (457); a
  text without a match is taken back but the list stays empty (1212); `-o`
  writes to standard output and leaves the file empty (609); after `-o` the
  object under the cursor is not unmarked, so `-n` is passed (607); one command
  is run for all selections where `docs/pick.md:17` says one for each (705),
  and with `-m` they are one argument (678); names joined by `-m` or `%%` are cut at
  `MAXLEN - 1` characters without a message (679, 703); with two columns `j` stays where
  it is, because the line is computed row by row and the index column by column
  (486); KEY_HOME goes to the last object of the page (1153); a click selects
  nothing (1251); the wheel beside the table makes the loop spin (1177).
- pick, further: F1 in the line editor processes the selection (331); the file of
  `-o` is refused unless it exists, so nothing is written (`mem.c:457`); the first
  positional argument is skipped; input beyond `OBJ_MAXCNT` lines and arguments
  beyond `MAXARGS` are dropped without a message (402, 701); INS is bound to one key
  of the bar and shown on another (178, 1304).
- view: `line_number` finds a wrong line while the table is not full (1916); `M`
  and `p` then go to a wrong line or to none; a tab that does not fit in a wrapped
  row, behind a blank, makes `fmt_line` loop for ever (2176), and a control or
  invalid character has a width of -1 there (2195); without wrapping a tab is
  always `tab_stop` columns wide; a name of something that is no regular file has
  standard input read in its place (`init_view.c:365`); a search sets out from
  where the last one stopped and not from the top of the page (1138, where the comment at 467 says
  it does), in another file too, compares a line number with
  the size of the file (1140), and never runs backward, because Enter ends the
  argument as another key than `?` waits for (497); `^` never matches (1175);
  the commands `o`, `!`, `+` and `t` with an argument wait for an answer that
  `cf_accept` does not give (348, 365, 423, 513); in a window of more than `MAXLEN`
  columns an argument can be typed behind its buffer (898); a mouse report while an argument
  is typed puts the cursor in front of the buffer (`cm_fields.c:137`); `j` does nothing until `G` was used, because only `go_to_eof` sets
  `ln_no_max`, and a later file keeps its value (1596); a count to `j` that
  reaches the page height draws one line, and `k` with a count repeats lines and
  leaves others out (1758); the next page behind the last line, and every line
  behind one longer than the pad, shows the first line of the file under another
  number (`increment_ln` never entered it); an unterminated last line is never
  shown; `PPage` from behind the end moves the top without displaying; a label
  that is not a lower-case letter is refused by `m`; squeezing empty lines
  changes nothing; writing the buffer begins at the first line in every pass
  (1020); `G` in a file without a newline after a larger file reads outside of
  the table (2015).

- menu and processes: a message returns only on F9, F10 or q, so that "Enter Y"
  and "Try again? y" of view cannot be answered; a command of one word leaves the
  arguments of its process uninitialized (`menu_engine.c:291`); `popup_ckeys` leaves
  its destroyed window on the stack (`curskeys.c:57`); an unknown switch in a menu
  line ends the whole program; `-k` takes no argument and copies one.
- descriptions: a text line without a command behind it, and a menu without lines,
  end in a null pointer (`parse_menu_desc.c:181`), unless the letters run out before
  it: then the line stays in the menu without a text, and a click leaves the cursor on
  it (`menu_engine.c:256`); bytes above 126 index behind a
  table (187); neither the number of lines nor that of texts is checked (143).
- configuration: a quoted value loses its opening quote, keeps the closing one (`init.c:693`)
  and loses its blanks and semicolons like any other (712), where the head that
  `write_config` gives its file says that quotes keep them (1134); texts are written
  without quotes (1155) and gammas with two digits (1267), so that a title or a command
  with a blank comes back without it; `cmdln_fg`
  and `cmdln_bg` set the colours of the line numbers (893); the file named by `-a`
  is known only after the configuration was read; with EDITOR set the editor is
  `vi` (555); what one popup sets of `f_ln`, `wrap`, `select_max` and others is still
  set in the next, and what the configuration sets of `h_shift`, `p_view_files` and
  `title` is lost with the first (597); `-d` is ignored by `menu` (`mem.c:494`).
- texts and files: `str_subc` replaces the first occurrence and drops later ones
  (`futil.c:693`); `file_spec_path` copies the wrong way (864); `verify_dir` shows its
  message in any case (1190); `mk_dir` reads the result of `mkdir` the wrong way
  round (1317).
- colours: the first pair the program defines is overwritten by the second
  (`ui_ncurses.c:77`), and a full colour table answers with the slot before the one it
  fills (131); the form of the call with a text compares unscaled values and never
  finds a colour (143); the theme's sixteen colours are corrected twice for a
  text that names them; `ESC[01m` is read as 11 and changes nothing
  (`view_engine.c:2499`); reading a theme moves the colours under the pairs of text
  that is shown (`pick_engine.c:584`).
- bar of keys: the last key of the table cannot be clicked, and a click beside the
  keys reads in front of the table.
- form: a hexadecimal field that holds one digit, so also one left at zero,
  cannot be accepted: `form_validate_field` takes the number of the format for
  flags, and `field_editor` keeps F10 in `in_key`, so that its message comes
  back for ever (`fields.c:95`); the number is read as hexadecimal and written
  back as decimal each time it is formatted, so that 10 becomes 16, 22, 34
  (484); `docs/form.md` says an invalid date is rejected, but it is accepted,
  written and given on, while the window still shows the valid one before it
  (513); a date in a field of fewer than ten columns, or a time in one of fewer than
  eight, is shown without its end, and one shorter than the digits is cut to what may be
  another valid date; with `-o /dev/stdout` and a directive what was written before the
  provider ran stays, and writing at the end fails (`form_engine.c:1099`); F10
  after the fields are complete accepts without running the provider, where
  `docs/form.md` says that it is executed; F1 at the prompt goes back to
  editing; Down behind the last field accepts without validating (502); blank
  values are no arguments, so the receiver cannot tell which field a value
  belongs to (990); the letter `H` is help and cannot be typed (`fields.c:105`).

## What is not modelled

Drawing, layout, formatting of numbers and logging everywhere; failure of `malloc`
and `calloc`, which ends the program. In lf: matching of regular expressions, the
pipe to sort, failure of `pthread_create`. In pick: reading the list from a provider
process, editing inside the search text, the failure of `fork`. In form: parsing
the description, a cursor within a field (its editor is that of view, in
`LineEdit`), formats with a fraction, the limits of `MAXARGS` on arguments and of
`MAXLEN - 1` on those that are joined (`form_engine.c:966`), fields that are shortened to
the window (596), which function keys are highlighted; of their bar the limit of
`MAXLEN - 1` columns (`dwin.c:1156`), which no bar of the programs comes near. In view: scrolling by the rows of wrapped lines,
writing and printing the buffer (`write_view_buffer` begins at the first line in
every pass and does not end, 1020), horizontal scrolling, failure of `realloc`. In
menu: the layout of the lines and what a mouse finds under it. In the configuration:
lines of `MAXLEN` characters and more, which are read as two. The
only component that is not modelled at all is that of the small programs, filters
and calculators of one pass; of the terminal the drawing, the key tables and the
backend for notcurses keep no state worth a model.
