# A TLA+ model of VED

VED (`src/README.md`) is a small terminal text editor in C with Emacs keys: a
buffer of lines, a kill ring, incremental search, a save-as prompt and a fuzzy
file finder, all in one thread that reads bytes from the terminal, hands them
one by one to `editor_process_key` and redraws the screen after each read. The
repository has no tests. These modules model what the keys do to the editor's
state, check it on small texts with TLC, and prove part of it with TLAPS.

Contents: [the system](#the-system), [what is hard](#what-is-hard),
[modules](#modules), [runs](#runs), [bounds](#bounds), [fairness](#fairness),
[disagreements with the documentation](#disagreements-with-the-documentation),
[proofs](#proofs), [not modelled](#not-modelled), [plan](#plan).

## The system

| component | state | operations | where |
|---|---|---|---|
| UTF-8 columns | none | boundary before / after a column, clamping a column, byte column to visible column and back | `utf8.c` |
| text buffer | `lines`, `line_count`, `mode`, `file_path`, `syntax_*` | insert a byte, a newline, a tab; delete backward, forward, a range of a line, a region; load, write | `buffer.c` |
| kill ring | `kill_ring[KILL_RING_MAX]`, `kill_ring_len`, `kill_ring_index` | record or extend a kill, yank, rotate | `input.c` 666-828, 949-970 |
| editing commands | `frame` (row, col), `mark_*`, `yank_*`, `last_was_kill`, `last_was_yank`, `dirty` | about thirty keys | `input.c` 536-977, 1273-1399 |
| incremental search | `isearch_*` | begin, extend, shorten, repeat, cancel, accept | `input.c` 289-534 |
| key dispatch and modes | `esc_state`, `esc_buf`, `esc_len`, `pending_ctrl_x`, `prompt_active`, `prompt_save_as`, `finder.active`, `should_exit` | one key, through escape sequences, finder, search, ESC, C-g, prompt, C-x and commands, in that order | `input.c` 1058-1399 |
| files | the file on disk | open, save, save as | `buffer.c` 106-193, `input.c` 1176-1257, `finder.c` 697-726 |
| prompt and query lines | `prompt_buf`, `prompt_len`, `prompt_col`; `finder.query*` | move, insert, delete inside one line of fixed capacity | `input.c` 143-287, `finder.c` 583-670 |
| project finder | `project_root`, `files`, `matches`, `selection`, `scroll` | scan a project, score and sort files, move, open | `finder.c` |
| viewport and mouse | `row_offset`, `col_offset`, `screen_*` | scroll to the cursor, wheel, press, drag | `render.c` 610-646, `input.c` 979-1056 |
| terminal | `orig_termios`, `stdin_flags`, `g_editor` | raw mode and back, read loop, signal, exit | `core.c` |
| drawing, highlighting, clipboard | the syntax tree | parse, draw, OSC 52 | `render.c`, `input.c` 43-54, `util.c` |

How they interact: everything shares one `Editor` structure and one thread, so
a component calls another directly and there are no messages. What connects
them is state left by one key and used by a later one: the mark and the yank
positions refer to a text that later keys change; `last_was_kill` and
`last_was_yank` make two commands one; `pending_ctrl_x`, `esc_state` and the
modes decide who gets the next key; `dirty` and the syntax tree describe a text
that someone else edits; `file_path` is set by loading and by saving and read by
saving, highlighting and the finder.

What makes each component correct:

- *buffer and commands*: positions stay in the text, characters stay whole, the
  cursor keeps its place in the text, every change is marked;
- *kill ring*: it holds the last kills in order, and C-y gives back what a kill
  took;
- *search*: it stands on a match, finds the first, and visits them all;
- *modes*: a key has one owner, open prompts shield the text, C-g and C-x C-c
  do what they say;
- *files*: a buffer that looks saved is saved, unless an operation failed.

## What is hard

There is no concurrency to speak of: a signal and the end of the process are the
only asynchronous events. The difficulty is in long sequences of legal keys:
positions that outlive the text they point into, modes stacked on modes,
commands of several bytes whose first byte has effects of its own, arithmetic on
columns at the ends of lines and inside characters, lists and indices that must
change together, a ring and buffers at their limits, calls that fail after
others have had their effect, and saves cut short after the file was truncated.
`PROJECT.json` lists these under `hazards`, each at its line with the properties
that watch it.

## Modules

A text is a non-empty sequence of lines, a line a sequence of bytes, which are
model values (single letters in `Modals`, where names are spelled). Rows and
columns count from zero, as in the code, so line `row` is `lines[row + 1]`.

Operators only:

| module | models | how |
|---|---|---|
| `Utf8` | `utf8.c`, and the word scans | `Cont` is the set of continuation bytes; boundaries are sets of stops and their minimum or maximum, where the code has loops |
| `Buffer` | `buffer.c` 195-379 | each `buffer_*` takes the lines and a position to the new lines. `Join`, `Before`, `After` are the algebra of positions: a deletion is `Join(Before, After)` |
| `LineInput` | one line of input of fixed capacity: `input.c` 143-287, `finder.c` 583-670 | the same operators for the prompt and for the query, which the code writes twice |
| `Project` | finding a project and scanning it: `finder.c` 47-449 | directories, `.gitignore` files and their patterns; `scan_project` is the scan, a function over the directories that calls itself through `scan_entry` |
| `Storage` | `buffer_load_file` and the bytes `buffer_write_file` writes | carriage returns, NULs, newlines; `WriteEnd` is where each `write` call ends |

State machines:

| module | models | state and actions |
|---|---|---|
| `KillRing` | the ring in `input.c` | `kill_ring` (the used slots) and `kill_ring_index`; `editor_kill_set` records or extends |
| `Editing` | every editing key while no search, prompt or finder is open | one action per command, epilogue included; `ESC` is an action of its own because a meta key is two bytes |
| `ISearch` | incremental search over `Editing` | adds `isearch_*`; any other key ends the search and is then obeyed (`OtherKey`) |
| `Viewport` | scrolling, mouse, opening a file, window size, over `Editing` | adds the offsets, the window, the syntax tree and `drawn`; a mouse report is one action, and `Refresh` is the drawing after a read |
| `Finder` | the project finder | list, matches, selection, scroll and query; the scan is made when the root changes, scores and order on every change of the query. `match_run` is the loop of `fuzzy_score` byte by byte |
| `Modals` | the save-as prompt with the finder above it | one action per key and line, characters arriving byte by byte, files removed, window resized |
| `Session` | the dispatch of all keys, files, prompt, finder, exit, crash | the text is one of a few contents; an edit makes it any of them; a key goes through `EscapeKey`, `HandedOn` and `PlainKey` as through `handle_escape` and `editor_process_key` |
| `Process` | one process after the other on a terminal and a file | `pc` is the next call of `main`, `editor_create`, `enable_raw_mode`, `editor_loop`, a save, or `editor_destroy`; any call may fail, SIGINT and a kill may come before any of them |

Abstract specifications, which model nothing of the code but what it promises:

| module | promise | implemented by |
|---|---|---|
| `KillHistory` | the last `Kept` kills, newest first; a kill is recorded or continues the newest | `Editing`, read from the ring backwards from `kill_ring_index` (`KillsKept`; checked and proved) |
| `SavePromise` | a file is opened, saved as a whole, or left as it was or with the beginning of the text | `Process`, whose many steps of a save are one step of the promise; the history variable `before` holds the file until then (`SavesKept`; checked and proved) |

`KillRun` is `Editing` with history: the text from before a run of kills, and
whether each kill of the run took what it deleted. It constrains no step.

`MCEditing`, `MCKillRun`, `MCISearch`, `MCModals`, `MCViewport` and `MCProcess`
are the instances for TLC, with initial texts and files and the bounds.
`MCYankPop` also records the last keys, for a property of a given sequence of
keys. `MCSession` is a terminal: the keys it has arrive as their whole sequence
of bytes, one byte at a time. `Utf8Theorems`, `BufferTheorems` and the modules
named `*Proofs` hold the [proofs](#proofs).

`ISearch` and `Viewport` compose with `Editing` by extension: their steps that
are editing keys are exactly the actions of `Editing`. `Modals` extends `Finder`,
which uses `LineInput` for its query as `Modals` does for the prompt. `Session`
and the others are two views of the same program: `Session` keeps all of the
control and abstracts text, lists and lines; the others keep the data of one
part and leave out the modes around it.

Abstractions worth knowing:

- Memory past the end of a string. `frame_move_prev_char` after `Backspace`
  reads a line that the deletion has just shortened. `MemoryAfterDelete` is what
  the buffer of that line then holds.
- The capacities (`kill_ring`, `isearch_query`, `esc_buf`, `prompt_buf`,
  `finder.query`) and widths (`TABSTOP`, margins and rows of the finder's box)
  are constants, small in the runs and arbitrary in the proofs.
- In `Session` the prompt holds the path it spells or none, and the finder's
  query its length and the file selected; an edit of either makes it any other.
  `Modals` has the lines and the list themselves.
- A failed save in `Session` leaves the file untouched (it could not be opened),
  cut short (a write failed after the truncation, the content `Partial`), or
  complete (only closing it failed). `Process` has the calls one by one.
- `Process` knows the shell's terminal settings, raw ones, zeroes (memory never
  written) and garbage (freed memory), not single flags.
- Messages in the status line are left out, but for the one that says whether a
  save failed; so are colours and the layout of what is drawn.

## Runs

Passing runs. Each property has a mutant of the code that breaks it, listed in
`PROJECT.json`; the variants are defined in the modules and marked `Variant`.

| run | asks | shows |
|---|---|---|
| `EditingKill` | kills, appended kills, a ring of two that wraps around, yanks, mixed with insertions and deletions | the ring implements `KillHistory` (`KillsKept`, a refinement); C-y undoes a first kill within a line (`LineKillUndone`); the yank positions delimit the pasted text (`YankSpansPaste`); inserting leaves the cursor before the same text, deleting forward after the same text, M-Backspace before the same text (`InsertKeepsTail`, `DeleteKeepsHead`, `KillBackKeepsTail`) |
| `EditingRegion` | a mark that edits leave behind, C-w, M-w; C-k, M-d, M-Backspace and C-w one after the other, over three lines | C-w with the mark in the text is undone by C-y whichever way the region runs (`RegionKillUndone`); a run of kills is undone by one C-y: the entry they share holds all their text in its order (`RunUndone`); every change marks the buffer and the syntax tree (`EditMarksDirty`) |
| `EditingChars` | two-byte characters and words, motion, tabs of a makefile, Backspace, C-d, kills | characters stay whole in the text and in the ring, the cursor stays in its line and on a boundary; M-b skips no beginning of a word |
| `Searching` | search, edit, move, search again, with case folding and overlapping matches | `isearch_has_match` means a match at the cursor; a new query finds the first match from the origin; C-s visits all; a search meets no half-done escape sequence or run of kills |
| `Modes` | a session over two files: all modes, failing saves, crashes, restarts | a key has one owner; prompt and finder shield the text; a clean buffer differs from its file only after a failure; C-x C-c ends the session whatever follows in the same read |
| `Modals` | the prompt and the finder above it, over two nested projects with `.gitignore` files, while the window changes its height and files come and go | the matches are exactly the files that hold the query's bytes in order, each once, but for those whose length outweighs the match (`MatchesRight`), one that begins with the query before all longer ones (`PrefixFirst`); the list is that of the project's files when it was scanned (`ListingRight`); the selected row is shown after every key that moves the selection, not after a resize (`SelectionShown`); both lines keep their shape, whatever fits (`EditIsLocal`, `QueryOnBoundary`) |
| `View` | keys, mouse reports, opened files and window sizes in any order between two drawings | the cursor is on the screen, up to the width of the character at its left edge, and no row is wasted (`CursorOnScreen`); the tree is that of the text (`TreeIsOfText`); what is shown as selected is what M-w copies, with a mark left behind by edits too (`SelectionIsRegion`); the wheel scrolls down where the text goes on (`WheelScrolls`) |
| `Process` | processes one after the other on one file, with failing calls, SIGINT and kills between any two of their steps | the terminal is as it was found once its settings have been read (`TerminalRestored`); a buffer that looks saved is what a new process reads, but for carriage returns (`ReadsBack`); the file is never anything but the old one, the text or its beginning (`SavesKept`, a refinement); the editor comes back to its keys or ends, and C-x C-c ends it (`Answers`) |

The other runs each check one sentence of the documentation that the code does
not keep; see [below](#disagreements-with-the-documentation).

`OnlyFailuresHide` deserves a word. `dirty` is the only protection against
losing text, so the property says that a step from "dirty or equal to the file"
to "clean and different" is a failed save that cut the file short, or a load
that failed after `access` had succeeded (`finder.c` 710-718). The first case is
real: a save of a clean buffer that fails leaves `dirty` false and the file cut
short, so the editor looks saved though only the buffer still has the text.

## Bounds

- *Texts*: two or three lines of at most two to five bytes. The code treats
  rows as first, last or other and columns as start, end or inside, and reads
  at most the neighbouring line; every boundary case is reached with two lines
  (three for regions and scrolling). `InBounds` cuts off steps that leave the
  bounds, which only removes longer texts.
- *Bytes*: one of each class the code tells apart: word byte, space, tab,
  punctuation, first and continuation byte of a character. `Searching` adds an
  upper case letter for `tolower`.
- *Kill ring*: one or two slots, so that it wraps after two or three kills. The
  arithmetic depends on the size only through the remainder.
- *Keys*: each run of `Editing` enables the commands its question needs, since
  a run over all keys and all texts does not end; together they fire every
  action.
- *Session*: two files, one a makefile and one a C file; an empty text, another
  one, and one cut short; `ESC_BUF` and `QUERY_BUF` 2, so that both buffers
  fill within a sequence. One key per class the dispatch tells apart. The runs of
  arrow keys have the real `ESC_BUF`, 32 (`editor.h` 61), and keys that
  arrive whole, so that only what earlier keys left can fill the buffer.
- *Kill runs*: three lines and a mark set anywhere in them, so that a run can join
  kills within a line, of empty lines and of regions; a ring of one slot.
- *Modals*: lines of capacity 4, so that three bytes fit and a two-byte
  character is cut; the characters typed are a letter, a slash, a space and a
  two-byte one. Twelve files in two nested projects, five directories, and
  patterns of every kind the code reads: anchored, of a directory, with a
  wildcard, negated, a comment, a blank line, and one that ends in spaces. One
  file is removed or one created. The finder's box has two or three rows, of
  windows 1 and 7 high. `InBounds` keeps the prompt empty under a query
  (`MaxBelow`) and the files unchanged under a query of two bytes.
- *Viewport*: windows of one row, which has no room for text, and three, both
  two columns wide; a tab of three columns, wider than the window; three lines,
  one of them empty, one a two-byte character.
- *Process*: no file, an empty one, and files without a last newline, with
  CR LF, and with a NUL before or behind a carriage return; three texts that
  editing makes; two keys in a read, so that one follows C-x C-c.

## Fairness

- `Session`: `WF_vars(EndOfBatch)`. A `read` returns at most 256 bytes
  (`core.c` 97), so the loop over them ends, after which `editor_loop` returns
  if `should_exit` is set.
- `Process`: `WF_vars(Step)`, where `Step` is the process's own next step: the
  scheduler runs a process that can run. Reading is not part of `Step` (nobody
  has to press a key), and neither are a signal, a kill or the failure of a
  call.

Nothing is assumed of keys, saves or crashes. All other properties are safety
properties. `Answers` is about a process that gets its bytes: at the end of the
input `poll` reports input for ever and `read` returns nothing (`core.c` 89-98),
so the process spins, which in the model is a stutter at `poll`.

## Disagreements with the documentation

Four of them are runs, which TLC ends with a counterexample:

| run | documentation | code |
|---|---|---|
| `YankRotate` | "`M-y`: rotate kill ring after `C-y`" | the ESC of M-y clears `last_was_yank`, so M-y does nothing |
| `BackspaceJoin` | "`Backspace`: delete backward" | joining two lines leaves the cursor at the end of the joined line |
| `ArrowsNavigateFinder` | "Arrow keys: move cursor (or navigate finder list)" | in the finder their bytes are typed into the query |
| `ArrowsTypeNothing` | the same | `esc_len` is not reset when a sequence begins; ten arrow keys with modifiers (`ESC [ 1 ; 2 A`) leave three bytes each, and the rest of the eleventh is typed into the text |

The models show others, for which no run is kept. The passing properties are
worded so as not to claim what these break.

Editing:

- C-k at the end of a line puts the next line into the ring along with the
  newline, though it stays in the text, so C-y pastes a line that was never
  killed (`input.c` 694-716; `LineKillUndone` is about kills within a line).
- C-w with the mark on a row that is gone fills the ring and says "Killed", and
  deletes nothing (`input.c` 859; `README.md` 89). With the mark past the end of
  its line it puts the cursor there too (860; `RegionKillUndone` asks for a mark
  in the text). With a mark in front of the cursor it can follow another kill,
  and its text then comes last in their entry though it was first in the buffer
  (856; `RunUndone` is about kills that leave the cursor in place).
- A C-k at the end of the text or an M-d in front of punctuation kills nothing,
  yet the next kill is appended to the entry of an older one (`input.c` 927,
  1333).
- Backspace inside a line measures the character in front of the cursor after
  the bytes have moved (`input.c` 1352-1353), so behind a character of several
  bytes the cursor may land off its place there as well.
- M-f does not stop at a word that ends its line (`input.c` 593-624), and M-d
  kills nothing before punctuation (718-752).
- A repeated C-r skips a match that ends where the current one begins
  (`input.c` 395-402, 460).

Prompt, finder and files:

- M-p above the save-as prompt opens a file, and the Enter that then ends the
  prompt writes it under the name typed before (`input.c` 882; `README.md` 64
  has the prompt for a buffer without a file).
- ESC before a character of several bytes in the prompt takes its first byte and
  leaves the others (`QueryOnBoundary` is about the query).
- In the finder, C-g only closes the finder; a C-x typed before it is still
  pending (`finder.c` 787). Save as never enables highlighting
  (`input.c` 1184-1189).
- The length of a path is taken off its score, and files with a negative score
  are left out, so a long path does not appear for a short query that it matches
  (`finder.c` 465).
- The size of the window is read after the next key (`core.c` 106); until a key
  moves the selection it may be off the list's rows.
- Opening a file in a nested repository makes that the project of the finder,
  and a relative name stands for a file of the editor's directory.

View and terminal:

- A character of several bytes counts as several columns, so the cursor is drawn
  too far to the right, and up to the width of a tab past the right edge
  (`CursorOnScreen` allows for it). What is drawn as selected, and the row a
  click on a line with tabs finds, are shifted in the same way.
- The wheel leaves the cursor's column inside a character or past the line until
  the next motion.
- Reading a file drops the carriage returns at the ends of lines and what follows
  a NUL; writing always ends with a newline.
- `die` or SIGINT before `tcgetattr` restores zeroed settings and flags
  (`core.c` 125), as with standard output to a pipe. At the normal exit the
  `atexit` handler restores what it finds in freed memory (`core.c` 203).
  `TerminalRestored` begins after the one and ends before the other.
- `die` loses the unsaved text; end of input on the terminal makes the loop spin.

## Proofs

Checked by TLAPS for every value of the constants that satisfies the modules'
named assumptions: the classes of bytes are subsets of `Byte` and disjoint where
the code tests them in turn, capacities and widths are positive, initial texts
well formed, a character is a first byte and continuation bytes, and control
keys are no text.

Facts about operators:

- `Utf8Theorems`: clamping, stepping, the minima and maxima they are defined
  by, characters, and parts of lines put together. `SetInduction` is induction
  over a set of numbers, which stands in for induction over an operator: what a
  recursive function has for each argument is stated as membership in a set.
  `StepsExist` gives a function defined by recursion on numbers, and
  `FlattenParts` the place of each part in a flattened sequence.
- `BufferTheorems`: each operation of `Buffer` returns a well-formed, non-empty
  text, and how many lines it has; and the algebra of `Join`, `Before`, `After`:
  parts of a text put together give the text, `Join` is associative, and what is
  before or after a position in a joined text is known from its parts.

Theorems about the state machines, each listed in `PROJECT.json` with the
property that a run also checks.

*Editing.* The inductive invariant is `TypeOK /\ EscClearsFlags`: inside an escape
sequence neither flag is set. It is needed because M-y, which replaces the text
between the yank positions, would otherwise have to be shown to find them in the
text: it is the flag cleared by ESC that keeps it from doing anything. There is one lemma per group of commands
and one case per action.

- `TypeCorrect`: in particular the cursor's row is a row of the text, whatever is
  deleted, and the ring's index one of its slots. `EditsMarked` comes from the same
  invariant.
- `KillsAlwaysKept`, `Spec => KillsKept`: the ring implements the history of
  kills. Every command is sorted by what it does to the ring (`StepRing`):
  nothing, a new text, or a longer newest one. `KInv` adds to the invariant that
  the newest kill is the last slot until the ring has wrapped around
  (`FreshIsLast`): without it a new slot at the end of the ring would not be next
  to the newest in the order that C-y and M-y walk.
- `InsertionsKeepTail`, `DeletionsKeepHead`, `KillsBackKeepTail`: where commands
  leave the cursor, by the algebra of `Join`. `LineKillsAreUndone`,
  `RegionKillsAreUndone`: C-y puts back what was killed, for any number of lines,
  since a killed text is what lies between two positions and pasting is `Join`.
- `RunsAreUndone`, `RunSpec => []RunUndone`: each kill of a run puts exactly what it
  takes behind what the entry has (`ExactKill`), and pasting two texts joined is
  pasting the second and then the first in front of it (`InsertJoined`, from the
  associativity of `Join`). So one C-y undoes the last kill and then the run
  before it.
- `CursorStaysInLine`, `YankSpans`, under `RegionsInText`: a C-w finds the mark in
  the text. Without it the code leaves the cursor at the column of a mark that
  edits have put off the end of its line (see
  [above](#disagreements-with-the-documentation)).
- `CursorStaysOnChar`, `CharsAlwaysWhole`, `NoWordSkipped`: from `CharInv(K)`,
  which says that every line of the text and of the ring is made of characters
  of the set `K` and the cursor stands before one. Their hypotheses, each needed:
  `FilesBegun`, no line of a file begins inside a character;
  `RegionsOnChars`, C-w and M-w find the mark on a character of the text, not where
  edits have left it inside one or off the text (the code does cut the
  character); `BytesContinue`, a continuation
  byte is typed behind another byte. The last two theorems ask for keys of one
  byte, as between the bytes of a longer character it is not whole yet; longer
  characters are in the files. `LeadsAreWords` is `is_word_byte`: every byte from
  128 on belongs to a word.

*Search*, by one invariant over that of `Editing`.

- `SearchTypeCorrect`, `SearchAlwaysIsolated`, `MatchAlwaysAtCursor`: the last
  survives every edit since every edit ends the search first.
- `ForwardAlwaysFindsFirst`: a search walks rows and in each takes the least
  column that matches, so what it finds is the first of `MatchPositions`.
- `RepeatAlwaysVisitsAll`: C-s begins at the next character, so it could pass a
  match that begins inside one. `QueriesContinue` (a query does not begin with a
  continuation byte) and `FoldKeepsChars` (`tolower` leaves the bytes of
  characters alone) exclude that; they hold of a terminal that sends UTF-8 and
  of the C locale, which the program never leaves.

*View*, from `ViewInv`: `ViewTypeCorrect`, `CursorAlwaysShown`,
`TreeMatchesText`, `WheelAlwaysScrolls`, `SelectionAlwaysRight`. Visible columns
are a recursive function of the column; that it grows with every byte, by at
most the width of a tab, is proved by `SetInduction`, and from it that the
column `editor_scroll` walks to brings the cursor into the window. The selection's
theorem is a case analysis of where mark and cursor are, in the text or out.

*Prompt and finder*, from `ModalsInv`, which is `LinesInv` (the two lines),
`DiskInv` (files lie in directories), `ModeInv` (what is half typed) and
`ListInv` (the matches are those of the query).

- `QueryAlwaysOnBoundary`, `EditAlwaysLocal`: the query begins with a whole
  character and its cursor stands at one (`Whole`), and while a character is half
  typed there is a byte in front of the cursor or no room for another
  (`NoRoomInFront`): a character whose first byte was dropped for want of room
  cannot leave its rest at the beginning of the line.
- `ModalsTypeOK`, `SelectionAlwaysShown`.
- `MatchesAlwaysRight`: the greedy loop of `fuzzy_score` is ahead of any other way
  to place the query's bytes (`RunGreedy`), so it fails only if there is none; a
  matched byte scores ten at least, which is where the factor eleven comes from;
  and a strict order on a finite set has one element for each rank (`OrderedSet`),
  so the sorted list holds each file once.
- `PrefixAlwaysFirst`: a path that begins with the query has the bonus of a streak
  for every byte but the first, and that of a word wherever another path can have
  it, since the bytes that end a word are matched by no others (an assumption on
  `Fold` and `WordBreaks`, which are `tolower` and four punctuation bytes in
  the code).
- `ListingAlwaysRight`: the scan. It calls itself on deeper directories only, and
  these are finitely many, so the recursion has a solution (`ScanExists`). `Gathers`
  says what the scan of a directory adds when the rules it is given are those of
  the directories above it: the files below it that are kept from there down,
  each once. It is carried from entry to entry (`Collects`, for disjoint sets of
  files) and from the deepest directories up. That the rules are the right ones
  at the next entry rests on `ignore_list_truncate`.

*Session*, by the inductive invariant `TypeOK /\ ModesExclusive`, one case per
action of `Next`.

- `TypeCorrect`, `OneOwner`: the bound on `esc_len` is the absence of an overrun of
  `esc_buf`.
- `PromptsShieldText` and `FailuresHide`, the action properties `ModesShieldText`
  and `OnlyFailuresHide`. The second splits the step into one that saves (to the
  buffer's file or another), one that loads, and all others, which change text and
  file not at all or set `dirty`.

*Process.*

- `AlwaysRestored`: `TerminalInv` says, for each `pc`, what the terminal is and what
  the editor remembers of it: untouched up to the first call, known from
  `tcgetattr` on, gone once the editor is freed.
- `SavesAlwaysKept`, `Spec => SavesKept`: processes that write a file in many calls,
  any of which may fail or be the last, implement the promise of `SavePromise`.
  `FileInv` says that while a save is under way the file holds the first `sent`
  bytes of the text's; every way out of the save then leaves the old file, the
  text or a beginning of it. It rests on a text having at least one line: a text
  without bytes would be written by no step.
- `AlwaysReadsBack`: reading back what was written finds each newline where
  writing put it (`Parted`), so it gives the lines again, but for carriage returns
  and NULs. `ReadInv` is `FileInv` and `ReadsBack` together.

Only model-checked: `ExitHonoured` and `Answers`, which are liveness.

## Not modelled

- *Drawing*: layout, colours, the line of status and the box of the finder are a
  function of the state to terminal output. Which rows, which part of a line and
  where the cursor is are in `Viewport`, and the rows of the list in `Finder`.
- *The syntax tree and the highlight query*: tree-sitter, vendored. When
  highlighting is enabled, and when the tree is stale and is made again, are in
  `Viewport`, `Session` and `Editing`.
- *Clipboard*: output only.
- *Out of memory*: the code ends the process (`die`), as for other calls that
  fail.
- *Symbolic links* (and cycles of them) and directories that cannot be read.
- *Other programs* that change files while VED runs, except that files of the
  project come and go in `Modals`.
- A window without rows or columns: the process ends (`core.c` 74-77, in
  `Process`); `Viewport` begins at one row.
- Patterns of `.gitignore` against names: `ListingRight` says which rules reach
  which file, by the matchers of `Project` themselves; how a pattern matches is
  as translated.
- In `Modals`, sequences that begin with ESC `[`: they are in `Session`.

## Plan

What is left, in order of what it would add.

1. `Editor`: `Session` with the text of `Editing` in place of its contents, shown
   to implement `Session`. The pieces meet in pairs now (`ISearch` and `Viewport`
   over `Editing`, `Modals` over `Finder`).
2. The rows and columns that `render.c` draws, as a function of the state, and
   that what is drawn as selected is what `ShownSelected` says.
