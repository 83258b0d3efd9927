------------------------------ MODULE KillRun -------------------------------
(***************************************************************************)
(* Editing with the history of a run of kills: commands that kill one after *)
(* the other, which editor_kill_set joins to one entry of the ring because  *)
(* last_was_kill stays set.  The history remembers the text the run began   *)
(* with and constrains no step.                                             *)
(***************************************************************************)
EXTENDS Editing

VARIABLES run_text,   \* the text before the first kill of the run
          run_whole   \* each kill of the run so far took what it deleted

runVars == <<run_text, run_whole>>

(* The kill of an empty line together with the newline before it.            *)
KillsEmptyLine ==
  /\ KillLine \/ editor_kill_word_forward
  /\ col = Len(CurLine)
  /\ row + 1 < Len(lines)
  /\ lines[row + 2] = << >>

(* The step deletes text, and the ring gets that text: a kill in one line,   *)
(* C-w with the mark in the text, an empty line.  (A kill that joins a line  *)
(* with one that is not empty puts that line into the ring and leaves it in  *)
(* the text, and a mark that is off the text or its line moves the kill.)    *)
TakesWhatGoes ==
  /\ last_was_kill'
  /\ lines' # lines
  /\ \/ Len(lines') = Len(lines)
     \/ mark.active /\ ~mark'.active /\ MarkInText
     \/ KillsEmptyLine

(* A kill that goes on with a run takes what follows the cursor: the text    *)
(* comes last in the entry.  (C-w from a mark in front of the cursor does    *)
(* not.)  Or there is nothing left to kill.                                  *)
GoesOn ==
  \/ TakesWhatGoes /\ UNCHANGED frameVars
  \/ last_was_kill' /\ UNCHANGED <<lines, frameVars, ringVars>>

RunInit == Init /\ run_text = EmptyText /\ run_whole = FALSE

RunNext ==
  /\ Next
  /\ run_whole' = IF last_was_kill THEN run_whole /\ GoesOn ELSE TakesWhatGoes
  /\ run_text' = IF ~run_whole' THEN EmptyText
                 ELSE IF last_was_kill THEN run_text ELSE lines

RunSpec == RunInit /\ [][RunNext]_<<vars, runVars>>

(* However many kills a run has, over several lines and by different         *)
(* commands, one C-y at the cursor brings back all the text it took, in its  *)
(* order: the text is again what it was before the run.                      *)
RunUndone ==
  run_whole =>
    InsertText(lines, row, ClampCol(lines, row, col), CurrentKill) = run_text

=============================================================================
