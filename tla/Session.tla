------------------------------- MODULE Session -------------------------------
(***************************************************************************)
(* A session of ved as a whole: which part of the editor gets a key, and    *)
(* what the keys that open, save, search, prompt and exit do to the buffer, *)
(* its file and the modes (editor_process_key and handle_escape in          *)
(* src/src/input.c, finder_open_file in src/src/finder.c, editor_create and *)
(* editor_loop in src/src/core.c).                                          *)
(*                                                                         *)
(* The text is one of a few Contents, and what an editing command makes of  *)
(* it is any of them; the commands themselves are module Editing.  The      *)
(* bytes of the prompt are abstracted to the path they spell, those of the  *)
(* finder's query to their number and to the file it selects.               *)
(***************************************************************************)
EXTENDS Integers

CONSTANTS Contents,   \* texts
          Empty,      \* the text of a new buffer
          Partial,    \* the text of a file whose writing was cut short
          Paths, CPaths, Makefiles,
          NoPath,     \* file_path = NULL, an empty prompt, no match
          Absent,     \* there is no such file
          ESC_BUF,    \* sizeof(esc_buf)
          QUERY_BUF,  \* sizeof(finder.query)
          C_MODE, MAKEFILE_MODE

ASSUME SessionConstants ==
  /\ Empty \in Contents /\ Partial \in Contents
  /\ CPaths \subseteq Paths /\ Makefiles \subseteq Paths
  /\ NoPath \notin Paths
  /\ Absent \notin Contents
  /\ ESC_BUF \in Nat \ {0}
  /\ QUERY_BUF \in Nat \ {0}
  /\ C_MODE # MAKEFILE_MODE

VARIABLES running,                       \* the process is in editor_loop
          should_exit,
          esc_state, esc_len,
          pending_ctrl_x,
          prompt_active, prompt_save_as, prompt,
          isearch_active,
          finder_active, query_len, files, choice,
          text, dirty,
          file_path, mode, syntax_enabled,
          disk

escVars    == <<esc_state, esc_len>>
promptVars == <<prompt_active, prompt_save_as, prompt>>
finderVars == <<finder_active, query_len, files, choice>>
fileVars   == <<file_path, mode, syntax_enabled>>
processVars == <<running, should_exit>>
vars == <<processVars, escVars, pending_ctrl_x, promptVars, isearch_active,
          finderVars, text, dirty, fileVars, disk>>

(* Keys, one for each class that the code tells apart.  "A" ends the         *)
(* sequence of an arrow key, "1" stands for digits and the semicolon, "d",   *)
(* "w" and "p" are also meta commands, "m" ends a mouse report; any of them  *)
(* is also a character to type.                                              *)
TextKeys   == {"[", "<", "1", "A", "m", "p", "d", "w"}
ArrowEnds  == {"A"}
MetaKills  == {"d", "Backspace"}
MetaOthers == {"w"}
EditKeys   == {"Enter", "Backspace", "edit"} \cup TextKeys
Keys == TextKeys \cup {"ESC", "Enter", "Backspace", "edit", "move",
                       "C-g", "C-x", "C-s", "C-r", "C-c"}

detect_mode(path) == IF path \in Makefiles THEN MAKEFILE_MODE ELSE C_MODE

-----------------------------------------------------------------------------
(* editor_create: all but the file is reset.  A file that cannot be opened   *)
(* leaves an empty buffer without a name.                                    *)

NoModes ==
  /\ should_exit' = FALSE
  /\ esc_state' = "ESC_NONE" /\ esc_len' = 0
  /\ pending_ctrl_x' = FALSE
  /\ prompt_active' = FALSE /\ prompt_save_as' = FALSE /\ prompt' = NoPath
  /\ isearch_active' = FALSE
  /\ finder_active' = FALSE /\ query_len' = 0 /\ files' = {} /\ choice' = NoPath

StartWith(path) ==
  /\ running' = TRUE
  /\ NoModes
  /\ text' = IF path = NoPath THEN Empty ELSE disk[path]
  /\ dirty' = FALSE
  /\ file_path' = path
  /\ mode' = detect_mode(path)
  /\ syntax_enabled' = (path \in CPaths)

Start ==
  /\ ~running
  /\ \E path \in {NoPath} \cup {p \in Paths : disk[p] # Absent} : StartWith(path)
  /\ UNCHANGED disk

Init ==
  /\ running = FALSE /\ should_exit = FALSE
  /\ esc_state = "ESC_NONE" /\ esc_len = 0
  /\ pending_ctrl_x = FALSE
  /\ prompt_active = FALSE /\ prompt_save_as = FALSE /\ prompt = NoPath
  /\ isearch_active = FALSE
  /\ finder_active = FALSE /\ query_len = 0 /\ files = {} /\ choice = NoPath
  /\ text = Empty /\ dirty = FALSE
  /\ file_path = NoPath /\ mode = C_MODE /\ syntax_enabled = FALSE
  /\ disk \in [Paths -> (Contents \ {Partial}) \cup {Absent}]

(* The process ends, and with it all but the files.                          *)
Ends ==
  /\ running' = FALSE
  /\ NoModes
  /\ text' = Empty /\ dirty' = FALSE
  /\ file_path' = NoPath /\ mode' = C_MODE /\ syntax_enabled' = FALSE

(* Variant: an open prompt keeps the editor running.                         *)
EndOfBatchNoPrompt ==
  running /\ should_exit /\ ~prompt_active /\ Ends /\ UNCHANGED disk

(* When the bytes of one read are used up, editor_loop looks at should_exit. *)
(* Until then keys are handled even after C-x C-c.                           *)
EndOfBatch ==
  running /\ should_exit /\ Ends /\ UNCHANGED disk

-----------------------------------------------------------------------------
(* The finder.                                                               *)

(* The files of a project are scanned when its root is not that of the last  *)
(* scan, or that scan found none; otherwise the list is as old as the scan.  *)
(* A scan finds some of the files there are: the project's, less those       *)
(* .gitignore names.                                                         *)
finder_open ==
  \/ UNCHANGED finderVars                                 \* "No project root"
  \/ /\ finder_active' = TRUE
     /\ query_len' = 0
     /\ \/ files # {} /\ UNCHANGED files
        \/ files' \in SUBSET {p \in Paths : disk[p] # Absent}
     /\ choice' \in IF files' = {} THEN {NoPath} ELSE files'

(* access succeeds but fopen does not: the buffer stays, as if unmodified.   *)
FailedLoad ==
  /\ dirty' = FALSE
  /\ syntax_enabled' = (file_path \in CPaths)
  /\ UNCHANGED <<text, file_path, mode>>

Load(path) ==
  /\ text' = disk[path]
  /\ file_path' = path
  /\ mode' = detect_mode(path)
  /\ syntax_enabled' = (path \in CPaths)
  /\ dirty' = FALSE

finder_open_file ==
  \/ UNCHANGED <<text, dirty, fileVars>>         \* no match, or "Open failed"
  \/ choice # NoPath /\ FailedLoad
  \/ choice # NoPath /\ Load(choice)

-----------------------------------------------------------------------------
(* Saving: buffer_write_file truncates the file, writes it and closes it.    *)

Saved(path) == disk' = [disk EXCEPT ![path] = text] /\ dirty' = FALSE

(* Variant: a failed save counts as saved.                                   *)
SaveFailsClean(path) ==
  /\ \/ UNCHANGED disk
     \/ \E left \in {Partial, text} : disk' = [disk EXCEPT ![path] = left]
  /\ dirty' = FALSE

(* The file is not opened; or a write fails after it was truncated; or only  *)
(* closing it fails.                                                         *)
SaveFails(path) ==
  /\ \/ UNCHANGED disk
     \/ \E left \in {Partial, text} : disk' = [disk EXCEPT ![path] = left]
  /\ UNCHANGED dirty

-----------------------------------------------------------------------------
(* handle_escape: what it consumes.                                          *)

Consumed ==
  UNCHANGED <<processVars, pending_ctrl_x, isearch_active>>

BeginCsi(key) ==
  /\ key = "[" /\ esc_state = "ESC_SEEN"
  /\ esc_state' = "ESC_CSI"
  /\ Consumed
  /\ UNCHANGED <<esc_len, promptVars, finderVars, text, dirty, fileVars, disk>>

(* Variant: the terminating NUL is not accounted for.                        *)
EscapeByteNoNul ==
  IF esc_len < ESC_BUF THEN esc_len' = esc_len + 1 /\ UNCHANGED esc_state
                       ELSE esc_state' = "ESC_NONE" /\ UNCHANGED esc_len

(* A byte of a sequence is kept as long as there is room for it and a NUL.   *)
EscapeByte ==
  IF esc_len + 1 < ESC_BUF THEN esc_len' = esc_len + 1 /\ UNCHANGED esc_state
                           ELSE esc_state' = "ESC_NONE" /\ UNCHANGED esc_len

CsiParameter(key) ==
  /\ key = "1" /\ esc_state = "ESC_CSI"
  /\ EscapeByte
  /\ Consumed
  /\ UNCHANGED <<promptVars, finderVars, text, dirty, fileVars, disk>>

(* An arrow moves the cursor or, in the finder, the selection.               *)
CsiArrow(key) ==
  /\ key \in ArrowEnds /\ esc_state = "ESC_CSI"
  /\ esc_state' = "ESC_NONE"
  /\ choice' \in IF finder_active /\ choice # NoPath THEN files ELSE {choice}
  /\ Consumed
  /\ UNCHANGED <<esc_len, promptVars, finder_active, query_len, files,
                 text, dirty, fileVars, disk>>

BeginMouse(key) ==
  /\ key = "<" /\ esc_state = "ESC_CSI"
  /\ esc_state' = "ESC_MOUSE" /\ esc_len' = 0
  /\ Consumed
  /\ UNCHANGED <<promptVars, finderVars, text, dirty, fileVars, disk>>

MouseByte(key) ==
  /\ key # "m" /\ esc_state = "ESC_MOUSE"
  /\ EscapeByte
  /\ Consumed
  /\ UNCHANGED <<promptVars, finderVars, text, dirty, fileVars, disk>>

(* A well-formed report moves the cursor, the mark or the view.              *)
MouseEvent(key) ==
  /\ key = "m" /\ esc_state = "ESC_MOUSE"
  /\ esc_state' = "ESC_NONE"
  /\ Consumed
  /\ UNCHANGED <<esc_len, promptVars, finderVars, text, dirty, fileVars, disk>>

OpenFinder(key) ==
  /\ key = "p" /\ esc_state \in {"ESC_SEEN", "ESC_CSI"}
  /\ esc_state' = "ESC_NONE"
  /\ finder_open
  /\ Consumed
  /\ UNCHANGED <<esc_len, promptVars, text, dirty, fileVars, disk>>

(* With a prompt every other meta key is consumed; some edit the prompt.     *)
MetaPrompt(key) ==
  /\ key \notin {"[", "p"} /\ esc_state = "ESC_SEEN" /\ prompt_active
  /\ esc_state' = "ESC_NONE"
  /\ IF key \in MetaKills THEN prompt' \in Paths \cup {NoPath}
                          ELSE UNCHANGED prompt
  /\ Consumed
  /\ UNCHANGED <<esc_len, prompt_active, prompt_save_as, finderVars,
                 text, dirty, fileVars, disk>>

(* Variant: also when there is a prompt.                                     *)
MetaCommandAlways(key) ==
  /\ key \in MetaKills \cup MetaOthers
  /\ esc_state = "ESC_SEEN"
  /\ esc_state' = "ESC_NONE"
  /\ IF key \in MetaKills THEN text' \in Contents /\ dirty' = TRUE
                          ELSE UNCHANGED <<text, dirty>>
  /\ Consumed
  /\ UNCHANGED <<esc_len, promptVars, finderVars, fileVars, disk>>

MetaCommand(key) ==
  /\ key \in MetaKills \cup MetaOthers
  /\ esc_state = "ESC_SEEN" /\ ~prompt_active
  /\ esc_state' = "ESC_NONE"
  /\ IF key \in MetaKills THEN text' \in Contents /\ dirty' = TRUE
                          ELSE UNCHANGED <<text, dirty>>
  /\ Consumed
  /\ UNCHANGED <<esc_len, promptVars, finderVars, fileVars, disk>>

EscapeKey(key) ==
  \/ BeginCsi(key) \/ CsiParameter(key) \/ CsiArrow(key)
  \/ BeginMouse(key) \/ MouseByte(key) \/ MouseEvent(key)
  \/ OpenFinder(key) \/ MetaPrompt(key) \/ MetaCommand(key)

(* What it hands on as a plain key: among others an unknown meta or CSI key, *)
(* and the end of a mouse report that is malformed.                          *)
HandedOn(key) ==
  CASE esc_state = "ESC_NONE"  -> TRUE
    [] esc_state = "ESC_SEEN"  -> /\ ~prompt_active
                                  /\ key \notin {"[", "p"} \cup MetaKills
                                                 \cup MetaOthers
    [] esc_state = "ESC_CSI"   -> key \notin {"<", "1", "p"} \cup ArrowEnds
    [] esc_state = "ESC_MOUSE" -> key = "m"

-----------------------------------------------------------------------------
(* Plain keys: first the finder, then the search, then ESC, C-g, the prompt, *)
(* the key after C-x, and last the commands.                                 *)

FinderClose(key) ==
  /\ key \in {"C-g", "Enter"}
  /\ finder_active' = FALSE
  /\ IF key = "Enter" THEN finder_open_file ELSE UNCHANGED <<text, dirty, fileVars>>
  /\ UNCHANGED <<query_len, files, choice>>

FinderType(key) ==
  /\ key \in TextKeys /\ query_len + 1 < QUERY_BUF
  /\ query_len' = query_len + 1
  /\ choice' \in files \cup {NoPath}
  /\ UNCHANGED <<finder_active, files, text, dirty, fileVars>>

FinderErase(key) ==
  /\ key \in {"Backspace", "edit"} /\ query_len > 0
  /\ query_len' \in 0 .. (query_len - 1)
  /\ choice' \in files \cup {NoPath}
  /\ UNCHANGED <<finder_active, files, text, dirty, fileVars>>

FinderMove(key) ==
  /\ key = "move" /\ choice # NoPath
  /\ choice' \in files
  /\ UNCHANGED <<finder_active, query_len, files, text, dirty, fileVars>>

(* Also an erasing key with the cursor where there is nothing to erase.      *)
FinderIgnore(key) ==
  /\ key \notin {"C-g", "Enter"}
  /\ ~(key \in TextKeys /\ query_len + 1 < QUERY_BUF)
  /\ ~(key = "move" /\ choice # NoPath)
  /\ UNCHANGED <<finderVars, text, dirty, fileVars>>

FinderKey(key) ==
  /\ finder_active
  /\ esc_state' = "ESC_NONE"
  /\ \/ FinderClose(key) \/ FinderType(key) \/ FinderErase(key)
     \/ FinderMove(key) \/ FinderIgnore(key)
  /\ UNCHANGED <<processVars, esc_len, pending_ctrl_x, promptVars,
                 isearch_active, disk>>

SearchTakes(key) ==
  isearch_active /\ key \in TextKeys \cup {"C-g", "Enter", "C-s", "C-r", "Backspace"}

SearchKey(key) ==
  /\ ~finder_active /\ SearchTakes(key)
  /\ esc_state' = "ESC_NONE"
  /\ isearch_active' = (key \notin {"C-g", "Enter"})
  /\ UNCHANGED <<processVars, esc_len, pending_ctrl_x, promptVars, finderVars,
                 text, dirty, fileVars, disk>>

(* Variant: ESC does not end the search.                                     *)
MainKeepsSearch(key) ==
  /\ ~finder_active /\ ~SearchTakes(key)
  /\ UNCHANGED isearch_active
  /\ UNCHANGED <<running, finderVars>>

(* The key reaches the rest of editor_process_key, and ends any search.      *)
Main(key) ==
  /\ ~finder_active /\ ~SearchTakes(key)
  /\ isearch_active' = FALSE
  /\ UNCHANGED <<running, finderVars>>

Escape(key) ==
  /\ Main(key) /\ key = "ESC"
  /\ esc_state' = "ESC_SEEN"
  /\ UNCHANGED <<should_exit, esc_len, pending_ctrl_x, promptVars,
                 text, dirty, fileVars, disk>>

CtrlG(key) ==
  /\ Main(key) /\ key = "C-g"
  /\ esc_state' = "ESC_NONE" /\ esc_len' = 0
  /\ pending_ctrl_x' = FALSE
  /\ prompt_active' = FALSE /\ prompt_save_as' = FALSE /\ prompt' = NoPath
  /\ UNCHANGED <<should_exit, text, dirty, fileVars, disk>>

(* Keys after ESC and C-g were dealt with.                                   *)
Rest(key) ==
  /\ Main(key) /\ key \notin {"ESC", "C-g"}
  /\ esc_state' = "ESC_NONE" /\ UNCHANGED esc_len

SaveAs(path) ==
  \/ /\ Saved(path)
     /\ file_path' = path
     /\ mode' = detect_mode(path)
     /\ UNCHANGED syntax_enabled
  \/ SaveFails(path) /\ UNCHANGED fileVars

(* Enter closes the prompt, whether the name was empty, saved or refused.    *)
PromptEnter(key) ==
  /\ Rest(key) /\ prompt_active /\ key = "Enter"
  /\ IF prompt # NoPath /\ prompt_save_as THEN SaveAs(prompt)
                                          ELSE UNCHANGED <<dirty, fileVars, disk>>
  /\ prompt_active' = FALSE /\ prompt_save_as' = FALSE
  /\ UNCHANGED <<should_exit, pending_ctrl_x, prompt, text>>

PromptKey(key) ==
  /\ Rest(key) /\ prompt_active /\ key # "Enter"
  /\ IF key \in TextKeys \cup {"Backspace", "edit"}
       THEN prompt' \in Paths \cup {NoPath}
       ELSE UNCHANGED prompt
  /\ UNCHANGED <<should_exit, pending_ctrl_x, prompt_active, prompt_save_as,
                 text, dirty, fileVars, disk>>

(* C-x C-s.                                                                  *)
Save(key) ==
  /\ Rest(key) /\ ~prompt_active /\ pending_ctrl_x /\ key = "C-s"
  /\ pending_ctrl_x' = FALSE
  /\ IF file_path = NoPath
       THEN /\ prompt_active' = TRUE /\ prompt_save_as' = TRUE /\ prompt' = NoPath
            /\ UNCHANGED <<dirty, disk>>
       ELSE (Saved(file_path) \/ SaveFails(file_path)) /\ UNCHANGED promptVars
  /\ UNCHANGED <<should_exit, text, fileVars>>

(* C-x C-c.                                                                  *)
Exit(key) ==
  /\ Rest(key) /\ ~prompt_active /\ pending_ctrl_x /\ key = "C-c"
  /\ pending_ctrl_x' = FALSE
  /\ should_exit' = TRUE
  /\ UNCHANGED <<promptVars, text, dirty, fileVars, disk>>

(* Any other key after C-x is an ordinary key.                               *)
Command(key) ==
  /\ Rest(key) /\ ~prompt_active
  /\ ~(pending_ctrl_x /\ key \in {"C-s", "C-c"})
  /\ UNCHANGED <<should_exit, promptVars, fileVars, disk>>

BeginSearch(key) ==
  /\ ~finder_active /\ ~isearch_active /\ key \in {"C-s", "C-r"} /\ ~prompt_active
  /\ ~(pending_ctrl_x /\ key = "C-s")
  /\ isearch_active' = TRUE
  /\ pending_ctrl_x' = FALSE
  /\ esc_state' = "ESC_NONE"
  /\ UNCHANGED <<processVars, esc_len, promptVars, finderVars,
                 text, dirty, fileVars, disk>>

BeginPrefix(key) ==
  /\ Command(key) /\ key = "C-x"
  /\ pending_ctrl_x' = TRUE
  /\ UNCHANGED <<text, dirty>>

EditText(key) ==
  /\ Command(key) /\ key \in EditKeys
  /\ pending_ctrl_x' = FALSE
  /\ \/ text' \in Contents /\ dirty' = TRUE
     \/ key \in {"Backspace", "edit"} /\ UNCHANGED <<text, dirty>>

OtherCommand(key) ==
  /\ Command(key) /\ key \in {"move", "C-c"}
  /\ pending_ctrl_x' = FALSE
  /\ UNCHANGED <<text, dirty>>

PlainKey(key) ==
  \/ FinderKey(key) \/ SearchKey(key) \/ Escape(key) \/ CtrlG(key)
  \/ PromptEnter(key) \/ PromptKey(key)
  \/ Save(key) \/ Exit(key)
  \/ BeginSearch(key) \/ BeginPrefix(key) \/ EditText(key) \/ OtherCommand(key)

editor_process_key(key) ==
  running /\ (EscapeKey(key) \/ (HandedOn(key) /\ PlainKey(key)))

(* The process is killed, between two keys or while it writes a file.        *)
SavesTo ==
  IF finder_active \/ isearch_active \/ esc_state # "ESC_NONE" THEN NoPath
  ELSE IF prompt_active THEN prompt
  ELSE IF pending_ctrl_x THEN file_path ELSE NoPath

Crash ==
  /\ running /\ Ends
  /\ \/ UNCHANGED disk
     \/ SavesTo # NoPath /\ disk' = [disk EXCEPT ![SavesTo] = Partial]

Next ==
  \/ Start \/ EndOfBatch \/ Crash
  \/ \E key \in Keys : editor_process_key(key)

(* A read returns at most 256 bytes, so a batch of keys ends.                *)
Spec == Init /\ [][Next]_vars /\ WF_vars(EndOfBatch)

-----------------------------------------------------------------------------
(* Properties.                                                               *)

EscStates == {"ESC_NONE", "ESC_SEEN", "ESC_CSI", "ESC_MOUSE"}

(* esc_buf and the query never overflow, the mode is that of the file's name *)
(* and what the editor names is a file.                                      *)
TypeOK ==
  /\ running \in BOOLEAN /\ should_exit \in BOOLEAN
  /\ esc_state \in EscStates
  /\ esc_len \in 0 .. (ESC_BUF - 1)
  /\ pending_ctrl_x \in BOOLEAN
  /\ prompt_active \in BOOLEAN /\ prompt_save_as \in BOOLEAN
  /\ prompt \in Paths \cup {NoPath}
  /\ isearch_active \in BOOLEAN
  /\ finder_active \in BOOLEAN
  /\ query_len \in 0 .. (QUERY_BUF - 1)
  /\ files \subseteq Paths
  /\ choice \in files \cup {NoPath}
  /\ text \in Contents /\ dirty \in BOOLEAN
  /\ file_path \in Paths \cup {NoPath}
  /\ mode = detect_mode(file_path)
  /\ syntax_enabled \in BOOLEAN
  /\ disk \in [Paths -> Contents \cup {Absent}]
  /\ \A path \in files \cup {file_path} : path # NoPath => disk[path] # Absent

(* A key has one owner: a search excludes the prompt, the finder, a pending  *)
(* C-x and an escape sequence; a prompt excludes a pending C-x; the finder   *)
(* excludes an escape sequence (so its keys can never be arrows); and the    *)
(* only prompt there is is that of save as.                                  *)
ModesExclusive ==
  /\ isearch_active => /\ ~prompt_active /\ ~finder_active
                       /\ ~pending_ctrl_x /\ esc_state = "ESC_NONE"
  /\ prompt_active => ~pending_ctrl_x
  /\ finder_active => esc_state = "ESC_NONE"
  /\ prompt_save_as = prompt_active

(* The buffer looks unmodified, but its file holds something else.           *)
HiddenChange ==
  running /\ ~dirty /\ file_path # NoPath /\ disk[file_path] # text

(* Only a failure brings that about: a save of a clean buffer that truncated *)
(* the file and could not write it, or a file that could not be opened after *)
(* all from the finder.  No save, save as, opening, edit or restart does.    *)
OnlyFailuresHide ==
  [][~HiddenChange /\ HiddenChange' =>
       \/ disk[file_path] # Partial /\ disk'[file_path] = Partial
       \/ finder_active /\ <<text, file_path>>' = <<text, file_path>>]_vars

(* While a prompt or the finder is open no key changes the text, except by   *)
(* opening the selected file.                                                *)
ModesShieldText ==
  [][running /\ running' /\ (finder_active \/ prompt_active) =>
       text' = text \/ (finder_active /\ choice # NoPath /\ text' = disk[choice])]_vars

(* C-x C-c ends the session whatever keys follow in the same read, in        *)
(* whatever mode they leave the editor.                                      *)
ExitHonoured == running /\ should_exit ~> ~running

=============================================================================
