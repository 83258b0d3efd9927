------------------------------- MODULE Process -------------------------------
(***************************************************************************)
(* A ved process and the terminal and file it leaves behind: main,          *)
(* editor_create, editor_loop, editor_destroy, raw mode, SIGINT, die and    *)
(* the atexit handler (src/src/core.c, src/src/util.c), with the system     *)
(* calls of a save one by one (buffer_write_file in src/src/buffer.c).  A   *)
(* process can be killed between any two of them; another one is then       *)
(* started on the same file.                                                *)
(*                                                                         *)
(* The keys are those that change the text, save it and exit; what else     *)
(* keys do is in Editing, ISearch, Session, Modals and Viewport.  Failures  *)
(* of memory allocation are left out.                                       *)
(***************************************************************************)
EXTENDS Storage

CONSTANTS InitFiles,  \* what the file may hold at first, or Absent
          EditTexts,  \* what editing may make of the text
          BATCH       \* sizeof(buf) in editor_loop: keys in one read

ASSUME ProcessConstants ==
  /\ InitFiles \subseteq Bytes \cup {Absent}
  /\ EditTexts \subseteq Seq(Seq(Byte)) \ {<< >>}
  /\ BATCH \in Nat \ {0}

VARIABLES pc,           \* the step of the process that comes next, or "ended"
          how,          \* how it ended
          stdin_tty, stdout_tty,
          termios, stdin_fl, screen,     \* the terminal
          orig_termios, stdin_flags,     \* what the editor remembers of it
          keys_left,                     \* bytes read and not yet processed
          should_exit,
          lines, dirty, status,          \* status_msg, as far as saves set it
          disk,                          \* the file
          sent,                          \* bytes of it written by this save
          before                         \* history: the file before this save

ttyVars   == <<termios, stdin_fl, screen>>
savedVars == <<orig_termios, stdin_flags>>
textVars  == <<lines, dirty, status>>
diskVars  == <<disk, sent, before>>
loopVars  == <<keys_left, should_exit>>
vars == <<pc, how, stdin_tty, stdout_tty, ttyVars, savedVars, loopVars,
          textVars, diskVars>>

Steps == {"signal", "load", "winsize", "getfl", "setfl", "tcgetattr",
          "tcsetattr", "modes", "poll", "keys", "write", "close", "resize",
          "destroy", "free", "exit"}

(* "shell" is what the process finds; memory that was never written is zero, *)
(* and what freed memory holds is not known.                                 *)
Settings == {"shell", "raw", "zero", "garbage"}
Flags    == {"shell", "nonblock", "zero", "garbage"}

ProcessTypeOK ==
  /\ pc \in Steps \cup {"ended"}
  /\ how \in {"", "exit", "die", "sigint", "killed"}
  /\ stdin_tty \in BOOLEAN /\ stdout_tty \in BOOLEAN
  /\ termios \in Settings /\ stdin_fl \in Flags /\ screen \in {"main", "alt"}
  /\ orig_termios \in {"zero", "shell", "freed"}
  /\ stdin_flags \in {"zero", "error", "shell", "freed"}
  /\ keys_left \in 0 .. BATCH
  /\ should_exit \in BOOLEAN
  /\ lines \in Seq(Seq(Byte)) /\ dirty \in BOOLEAN
  /\ status \in {"", "Saved", "Save failed"}
  /\ disk \in Bytes \cup {Absent} /\ before \in Bytes \cup {Absent}
  /\ sent \in Nat

ShellTerminal == termios = "shell" /\ stdin_fl = "shell" /\ screen = "main"

Init ==
  /\ pc = "ended" /\ how = ""
  /\ stdin_tty \in BOOLEAN /\ stdout_tty \in BOOLEAN
  /\ ShellTerminal
  /\ orig_termios = "zero" /\ stdin_flags = "zero"
  /\ keys_left = 0 /\ should_exit = FALSE
  /\ lines = << << >> >> /\ dirty = FALSE /\ status = ""
  /\ disk \in InitFiles /\ before = disk /\ sent = 0

-----------------------------------------------------------------------------
(* The ends of the process.                                                  *)

(* Variant: stdin stays as it is.                                            *)
RestoreSettingsOnly ==
  /\ screen' = "main"
  /\ termios' \in IF ~stdin_tty THEN {termios}
                  ELSE IF orig_termios = "freed" THEN Settings
                  ELSE {orig_termios}
  /\ UNCHANGED stdin_fl

disable_raw_mode ==
  /\ screen' = "main"
  /\ termios' \in IF ~stdin_tty THEN {termios}
                  ELSE IF orig_termios = "freed" THEN Settings
                  ELSE {orig_termios}
  /\ stdin_fl' \in IF stdin_flags = "error" THEN {stdin_fl}
                   ELSE IF stdin_flags = "freed" THEN Flags
                   ELSE {stdin_flags}

End(h) == pc' = "ended" /\ how' = h

(* exit runs the atexit handler; the text is lost.                           *)
die ==
  /\ disable_raw_mode
  /\ End("die")
  /\ UNCHANGED <<stdin_tty, stdout_tty, savedVars, loopVars, textVars, diskVars>>

(* Until the handler is installed SIGINT kills.                              *)
handle_sigint ==
  /\ pc \notin {"ended", "signal"}
  /\ disable_raw_mode
  /\ End("sigint")
  /\ UNCHANGED <<stdin_tty, stdout_tty, savedVars, loopVars, textVars, diskVars>>

(* The file with the first n bytes of the text, over what it held.           *)
Overwritten(n) ==
  SubSeq(FileBytes(lines), 1, n) \o SubSeq(disk, n + 1, Len(disk))

(* A process that is killed in a write may have written a part of it.        *)
Killed ==
  /\ pc # "ended"
  /\ End("killed")
  /\ IF pc = "write"
       THEN disk' \in {Overwritten(n) :
                         n \in sent .. WriteEnd(FileBytes(lines), sent)}
       ELSE UNCHANGED disk
  /\ UNCHANGED <<stdin_tty, stdout_tty, ttyVars, savedVars, loopVars, textVars,
                 sent, before>>

-----------------------------------------------------------------------------
(* editor_create.                                                            *)

Goto(next) == pc' = next /\ UNCHANGED <<how, stdin_tty, stdout_tty>>

(* The shell puts the terminal in order and starts the program again.        *)
Exec ==
  /\ pc = "ended" /\ pc' = "signal" /\ how' = ""
  /\ stdin_tty' \in BOOLEAN /\ stdout_tty' \in BOOLEAN
  /\ termios' = "shell" /\ stdin_fl' = "shell" /\ screen' = "main"
  /\ orig_termios' = "zero" /\ stdin_flags' = "zero"
  /\ keys_left' = 0 /\ should_exit' = FALSE
  /\ UNCHANGED <<textVars, diskVars>>

(* The handlers of SIGINT and exit, on an editor that is all zeroes.         *)
InstallHandlers ==
  /\ pc = "signal" /\ Goto("load")
  /\ UNCHANGED <<ttyVars, savedVars, loopVars, textVars, diskVars>>

LoadFile ==
  /\ pc = "load" /\ Goto("winsize")
  /\ lines' = buffer_load_file(disk)
  /\ dirty' = FALSE /\ status' = ""
  /\ UNCHANGED <<ttyVars, savedVars, loopVars, diskVars>>

get_window_size(here, next) ==
  /\ pc = here
  /\ IF stdout_tty
       THEN /\ Goto(next)
            /\ UNCHANGED <<ttyVars, savedVars, loopVars, textVars, diskVars>>
       ELSE die

(* enable_raw_mode, call by call.                                            *)
GetFlags ==
  /\ pc = "getfl" /\ Goto("setfl")
  /\ stdin_flags' = stdin_fl
  /\ UNCHANGED <<ttyVars, orig_termios, loopVars, textVars, diskVars>>

(* stdin is closed: stdin_flags is -1 when die looks at it.                  *)
GetFlagsFails ==
  /\ pc = "getfl" /\ ~stdin_tty
  /\ End("die")
  /\ stdin_flags' = "error" /\ screen' = "main"
  /\ UNCHANGED <<stdin_tty, stdout_tty, termios, stdin_fl, orig_termios,
                 loopVars, textVars, diskVars>>

SetFlags ==
  /\ pc = "setfl" /\ Goto("tcgetattr")
  /\ stdin_fl' = "nonblock"
  /\ UNCHANGED <<termios, screen, savedVars, loopVars, textVars, diskVars>>

SaveTermios ==
  /\ pc = "tcgetattr"
  /\ IF stdin_tty
       THEN /\ Goto("tcsetattr")
            /\ orig_termios' = termios
            /\ UNCHANGED <<ttyVars, stdin_flags, loopVars, textVars, diskVars>>
       ELSE die

SetRaw ==
  /\ pc = "tcsetattr" /\ Goto("modes")
  /\ termios' = "raw"
  /\ UNCHANGED <<stdin_fl, screen, savedVars, loopVars, textVars, diskVars>>

(* The alternate screen and mouse reports, and the first drawing.            *)
EnterScreen ==
  /\ pc = "modes" /\ Goto("poll")
  /\ screen' = "alt"
  /\ UNCHANGED <<termios, stdin_fl, savedVars, loopVars, textVars, diskVars>>

(* F_SETFL, tcsetattr, poll and read may fail, and a terminal may have no    *)
(* size, from the beginning or when its size is asked for again.             *)
CallFails ==
  pc \in {"winsize", "setfl", "tcsetattr", "poll", "resize"} /\ die

-----------------------------------------------------------------------------
(* editor_loop.                                                              *)

Read ==
  /\ pc = "poll" /\ Goto("keys")
  /\ keys_left' \in 1 .. BATCH
  /\ UNCHANGED <<should_exit, ttyVars, savedVars, textVars, diskVars>>

(* Bytes are processed until none is left, those after C-x C-c too.          *)
Key(next) ==
  /\ pc = "keys" /\ keys_left > 0
  /\ keys_left' = keys_left - 1
  /\ Goto(next)
  /\ UNCHANGED <<ttyVars, savedVars>>

EditKey ==
  /\ Key("keys")
  /\ lines' \in EditTexts /\ dirty' = TRUE
  /\ UNCHANGED <<should_exit, status, diskVars>>

OtherKey ==
  /\ Key("keys")
  /\ UNCHANGED <<should_exit, textVars, diskVars>>

ExitKey ==
  /\ Key("keys")
  /\ should_exit' = TRUE
  /\ UNCHANGED <<textVars, diskVars>>

(* After the bytes of a read: exit, or draw for the window as it is now.     *)
EndOfBatch ==
  /\ pc = "keys" /\ keys_left = 0
  /\ Goto(IF should_exit THEN "destroy" ELSE "resize")
  /\ UNCHANGED <<ttyVars, savedVars, loopVars, textVars, diskVars>>

-----------------------------------------------------------------------------
(* buffer_write_file.                                                        *)

(* Variant: the file is not truncated.                                       *)
OpenWithoutTruncate ==
  /\ Key("write")
  /\ before' = disk /\ sent' = 0
  /\ disk' = IF disk = Absent THEN << >> ELSE disk
  /\ UNCHANGED <<should_exit, textVars>>

SaveKey ==
  /\ Key("write")
  /\ before' = disk /\ sent' = 0
  /\ disk' = << >>
  /\ UNCHANGED <<should_exit, textVars>>

SaveKeyFails ==
  /\ Key("keys")
  /\ status' = "Save failed"
  /\ UNCHANGED <<should_exit, lines, dirty, diskVars>>

WriteCall ==
  /\ pc = "write" /\ sent < Len(FileBytes(lines))
  /\ sent' = WriteEnd(FileBytes(lines), sent)
  /\ disk' = Overwritten(sent')
  /\ Goto(IF sent' = Len(FileBytes(lines)) THEN "close" ELSE "write")
  /\ UNCHANGED <<before, ttyVars, savedVars, loopVars, textVars>>

(* Variant: after a failed write the save starts over.                       *)
WriteStartsOver ==
  /\ pc = "write" /\ sent < Len(FileBytes(lines))
  /\ sent' = 0 /\ disk' = << >>
  /\ Goto("write")
  /\ UNCHANGED <<before, ttyVars, savedVars, loopVars, textVars>>

(* An error, or fewer bytes than asked for.                                  *)
WriteFails ==
  /\ pc = "write" /\ sent < Len(FileBytes(lines))
  /\ sent' \in sent .. (WriteEnd(FileBytes(lines), sent) - 1)
  /\ disk' = Overwritten(sent')
  /\ status' = "Save failed"
  /\ Goto("keys")
  /\ UNCHANGED <<before, ttyVars, savedVars, loopVars, lines, dirty>>

Close ==
  /\ pc = "close" /\ Goto("keys")
  /\ \/ status' = "Saved" /\ dirty' = FALSE
     \/ status' = "Save failed" /\ UNCHANGED dirty
  /\ UNCHANGED <<diskVars, ttyVars, savedVars, loopVars, lines>>

-----------------------------------------------------------------------------
(* editor_destroy, and exit with the atexit handler.                         *)

Destroy ==
  /\ pc = "destroy" /\ Goto("free")
  /\ disable_raw_mode
  /\ UNCHANGED <<savedVars, loopVars, textVars, diskVars>>

Free ==
  /\ pc = "free" /\ Goto("exit")
  /\ orig_termios' = "freed" /\ stdin_flags' = "freed"
  /\ UNCHANGED <<ttyVars, loopVars, textVars, diskVars>>

(* g_editor still points to the freed editor.                                *)
ExitMain ==
  /\ pc = "exit"
  /\ disable_raw_mode
  /\ End("exit")
  /\ UNCHANGED <<stdin_tty, stdout_tty, savedVars, loopVars, textVars, diskVars>>

-----------------------------------------------------------------------------

(* The steps the process takes by itself.                                    *)
Step ==
  \/ InstallHandlers \/ LoadFile
  \/ get_window_size("winsize", "getfl")
  \/ GetFlags \/ GetFlagsFails \/ SetFlags \/ SaveTermios \/ SetRaw
  \/ EnterScreen
  \/ EditKey \/ OtherKey \/ ExitKey \/ EndOfBatch
  \/ get_window_size("resize", "poll")
  \/ SaveKey \/ SaveKeyFails \/ WriteCall \/ WriteFails \/ Close
  \/ Destroy \/ Free \/ ExitMain

Next == Step \/ CallFails \/ Read \/ handle_sigint \/ Killed \/ Exec

Spec == Init /\ [][Next]_vars

(* A process that can run runs.                                              *)
FairSpec == Spec /\ WF_vars(Step)

-----------------------------------------------------------------------------
(* Properties.                                                               *)

(* Once the terminal's settings have been saved, whatever ends the process   *)
(* but a kill leaves the terminal as it was found: an error of any call and  *)
(* SIGINT between any two of them, and the exit up to the moment the editor  *)
(* is freed.  (Before, die and SIGINT restore zeroes; after, the atexit      *)
(* handler restores what it finds in freed memory.)                          *)
TerminalRestored ==
  \/ pc = "ended" /\ how \in {"die", "sigint"} /\ orig_termios = "shell"
  \/ pc = "exit"
  => ShellTerminal

WithoutCR(text) == [k \in DOMAIN text |-> StripEnd(text[k])]

(* A buffer that looks unmodified, and whose last save did not fail, is read *)
(* back from its file line by line, but for carriage returns at the ends of  *)
(* lines, which reading strips: also after lines were left empty, files      *)
(* without a last newline, and bytes cut at a NUL.                           *)
ReadsBack ==
  pc \in Steps \ {"signal", "load", "write", "close"}
  /\ ~dirty /\ status # "Save failed" /\ disk # Absent
  => WithoutCR(buffer_load_file(disk)) = WithoutCR(lines)

(* The promise about the file, whose writing is one step of the promise.     *)
Keeping == INSTANCE SavePromise WITH
  up   <- pc \notin {"ended", "signal", "load"},
  file <- IF pc \in {"write", "close"} THEN before ELSE disk

SavesKept == Keeping!Promise

(* The editor comes back to its keys or ends, whichever calls fail, and once *)
(* C-x C-c is pressed it ends.                                               *)
Answers ==
  /\ (pc \notin {"poll", "ended"}) ~> (pc \in {"poll", "ended"})
  /\ should_exit ~> (pc = "ended")

=============================================================================
