---------------------------- MODULE SessionProofs ----------------------------
(***************************************************************************)
(* Proofs about Session, for any files, texts and buffer sizes.             *)
(***************************************************************************)
EXTENDS Session, TLAPS

USE SessionConstants

(* The owners of a key are exclusive by themselves, the bounds of esc_len    *)
(* and of the query too; what opens and saves files needs both.              *)
IInv == TypeOK /\ ModesExclusive

LEMMA InitInv == Init => IInv
<1> SUFFICES ASSUME Init PROVE IInv
  OBVIOUS
<1> USE DEF Init
<1>1. ModesExclusive
  BY DEF ModesExclusive
<1>2. esc_len \in 0 .. (ESC_BUF - 1) /\ query_len \in 0 .. (QUERY_BUF - 1)
  OBVIOUS
<1>3. mode = detect_mode(file_path)
  BY DEF detect_mode
<1> QED
  BY <1>1, <1>2, <1>3 DEF IInv, TypeOK, EscStates

(* What every reset needs.                                                  *)
LEMMA ResetFacts ==
  /\ 0 \in 0 .. (ESC_BUF - 1) /\ 0 \in 0 .. (QUERY_BUF - 1)
  /\ NoPath \notin Makefiles /\ NoPath \notin CPaths
  OBVIOUS

(* A text written to a file.                                                *)
LEMMA DiskType ==
  ASSUME TypeOK, NEW path \in Paths, NEW left \in Contents,
         disk' = [disk EXCEPT ![path] = left]
  PROVE  /\ disk' \in [Paths -> Contents \cup {Absent}]
         /\ disk'[path] # Absent
         /\ \A p \in Paths : disk[p] # Absent => disk'[p] # Absent
<1>1. disk \in [Paths -> Contents \cup {Absent}]
  BY DEF TypeOK
<1> QED
  BY <1>1

(* Starting and ending the process.                                         *)
LEMMA ProcessInv ==
  ASSUME IInv, Start \/ EndOfBatch \/ Crash PROVE IInv'
<1>1. CASE Start
  <2>1. PICK path \in {NoPath} \cup {p \in Paths : disk[p] # Absent} : StartWith(path)
    BY <1>1 DEF Start
  <2>2. /\ disk' = disk
        /\ disk \in [Paths -> Contents \cup {Absent}]
        /\ text' \in Contents
    BY <1>1, <2>1 DEF Start, StartWith, IInv, TypeOK
  <2>3. ModesExclusive'
    BY <2>1 DEF StartWith, NoModes, ModesExclusive
  <2> QED
    <3>1. syntax_enabled' \in BOOLEAN
      BY <2>1 DEF StartWith
    <3>2. /\ file_path' \in Paths \cup {NoPath}
          /\ file_path' # NoPath => disk'[file_path'] # Absent
          /\ mode' = detect_mode(file_path')
      BY <2>1, <2>2 DEF StartWith
    <3> QED
      BY <2>1, <2>2, <2>3, <3>1, <3>2, ResetFacts
         DEF StartWith, NoModes, IInv, TypeOK, EscStates
<1>2. CASE EndOfBatch \/ Crash
  <2>1. Ends
    BY <1>2 DEF EndOfBatch, Crash
  <2>2. disk' \in [Paths -> Contents \cup {Absent}]
    <3>1. CASE disk' = disk
      BY <3>1 DEF IInv, TypeOK
    <3>2. CASE disk' # disk
      <4>1. /\ SavesTo # NoPath
            /\ disk' = [disk EXCEPT ![SavesTo] = Partial]
        BY <1>2, <3>2 DEF EndOfBatch, Crash
      <4>2. SavesTo \in Paths
        BY <4>1 DEF SavesTo, IInv, TypeOK
      <4> QED
        BY <4>1, <4>2, DiskType DEF IInv
    <3> QED
      BY <3>1, <3>2
  <2>3. ModesExclusive'
    BY <2>1 DEF Ends, NoModes, ModesExclusive
  <2> QED
    BY <2>1, <2>2, <2>3, ResetFacts DEF Ends, NoModes, IInv, TypeOK, EscStates,
                                        detect_mode
<1> QED
  BY <1>1, <1>2

(* The bytes handle_escape consumes.                                        *)
LEMMA EscapeInv ==
  ASSUME IInv, NEW key \in Keys, EscapeKey(key) PROVE IInv'
<1> USE DEF IInv, TypeOK, ModesExclusive, EscStates, Consumed, detect_mode,
            promptVars, finderVars, fileVars, processVars
<1>1. CASE BeginCsi(key)
  BY <1>1 DEF BeginCsi
<1>2. CASE CsiParameter(key)
  BY <1>2 DEF CsiParameter, EscapeByte
<1>3. CASE CsiArrow(key)
  BY <1>3 DEF CsiArrow
<1>4. CASE BeginMouse(key)
  BY <1>4 DEF BeginMouse
<1>5. CASE MouseByte(key)
  BY <1>5 DEF MouseByte, EscapeByte
<1>6. CASE MouseEvent(key)
  BY <1>6 DEF MouseEvent
<1>7. CASE OpenFinder(key)
  <2>1. /\ finder_active' \in BOOLEAN
        /\ query_len' \in 0 .. (QUERY_BUF - 1)
        /\ files' \subseteq Paths /\ choice' \in files' \cup {NoPath}
        /\ \A path \in files' : disk[path] # Absent
    <3>1. CASE UNCHANGED finderVars
      BY <3>1
    <3>2. CASE /\ finder_active' = TRUE /\ query_len' = 0
               /\ \/ UNCHANGED files
                  \/ files' \in SUBSET {p \in Paths : disk[p] # Absent}
               /\ choice' \in IF files' = {} THEN {NoPath} ELSE files'
      <4>1. files' \subseteq Paths /\ \A path \in files' : disk[path] # Absent
        BY <3>2
      <4> QED
        BY <3>2, <4>1, ResetFacts
    <3> QED
      BY <1>7, <3>1, <3>2 DEF OpenFinder, finder_open
  <2>2. /\ esc_state' = "ESC_NONE"
        /\ UNCHANGED <<running, should_exit, pending_ctrl_x, isearch_active,
                       esc_len, prompt_active, prompt_save_as, prompt, text,
                       dirty, file_path, mode, syntax_enabled, disk>>
    BY <1>7 DEF OpenFinder
  <2>3. ~isearch_active
    BY <1>7 DEF OpenFinder
  <2> QED
    BY <2>1, <2>2, <2>3
<1>8. CASE MetaPrompt(key)
  BY <1>8 DEF MetaPrompt
<1>9. CASE MetaCommand(key)
  BY <1>9 DEF MetaCommand
<1> QED
  BY <1>1, <1>2, <1>3, <1>4, <1>5, <1>6, <1>7, <1>8, <1>9 DEF EscapeKey

(* Plain keys.                                                              *)
LEMMA PlainInv ==
  ASSUME IInv, NEW key \in Keys, PlainKey(key) PROVE IInv'
<1> USE DEF IInv, TypeOK, ModesExclusive, EscStates, detect_mode,
            escVars, promptVars, finderVars, fileVars, processVars
<1>1. CASE FinderKey(key)
  <2>1. /\ finder_active' \in BOOLEAN
        /\ query_len' \in 0 .. (QUERY_BUF - 1)
        /\ choice' \in files \cup {NoPath}
    <3>1. CASE FinderClose(key)
      BY <3>1 DEF FinderClose
    <3>2. CASE FinderType(key)
      BY <3>2 DEF FinderType
    <3>3. CASE FinderErase(key)
      BY <3>3 DEF FinderErase
    <3>4. CASE FinderMove(key)
      BY <3>4 DEF FinderMove
    <3>5. CASE FinderIgnore(key)
      BY <3>5 DEF FinderIgnore
    <3> QED
      BY <1>1, <3>1, <3>2, <3>3, <3>4, <3>5 DEF FinderKey
  <2>2. /\ UNCHANGED <<running, should_exit, esc_len, pending_ctrl_x, prompt_active,
                       prompt_save_as, prompt, isearch_active, files, disk>>
        /\ finder_active /\ esc_state' = "ESC_NONE"
    BY <1>1 DEF FinderKey, FinderClose, FinderType, FinderErase,
                     FinderMove, FinderIgnore
  <2>3. UNCHANGED <<text, dirty, fileVars>> \/ finder_open_file
    BY <1>1 DEF FinderKey, FinderClose, FinderType, FinderErase,
                     FinderMove, FinderIgnore
  <2>4. /\ text' \in Contents /\ dirty' \in BOOLEAN
        /\ file_path' \in Paths \cup {NoPath}
        /\ mode' = detect_mode(file_path')
        /\ syntax_enabled' \in BOOLEAN
        /\ file_path' # NoPath => disk[file_path'] # Absent
    <3>1. CASE UNCHANGED <<text, dirty, fileVars>>
      BY <3>1
    <3>2. CASE FailedLoad
      <4>1. syntax_enabled' \in BOOLEAN
        BY <3>2 DEF FailedLoad
      <4> QED
        BY <3>2, <4>1 DEF FailedLoad
    <3>3. CASE choice # NoPath /\ Load(choice)
      <4>1. syntax_enabled' \in BOOLEAN
        BY <3>3 DEF Load
      <4>2. choice \in Paths /\ disk[choice] \in Contents
        BY <3>3
      <4> QED
        BY <3>3, <4>1, <4>2 DEF Load
    <3> QED
      BY <2>3, <3>1, <3>2, <3>3 DEF finder_open_file
  <2>5. TypeOK'
    BY <2>1, <2>2, <2>4
  <2>6. ModesExclusive'
    BY <2>1, <2>2
  <2> QED
    BY <2>5, <2>6
<1>2. CASE SearchKey(key)
  BY <1>2 DEF SearchKey, SearchTakes
<1>3. CASE Escape(key)
  BY <1>3 DEF Escape, Main
<1>4. CASE CtrlG(key)
  <2>1. TypeOK'
    BY <1>4, ResetFacts DEF CtrlG, Main
  <2>2. ModesExclusive'
    BY <1>4 DEF CtrlG, Main
  <2> QED
    BY <2>1, <2>2
<1>5. CASE PromptEnter(key)
  <2>1. /\ UNCHANGED <<running, finder_active, query_len, files, choice,
                       should_exit, pending_ctrl_x, prompt, text, esc_len>>
        /\ isearch_active' = FALSE /\ esc_state' = "ESC_NONE"
        /\ prompt_active' = FALSE /\ prompt_save_as' = FALSE
    BY <1>5 DEF PromptEnter, Rest, Main
  <2>2. \/ UNCHANGED <<dirty, file_path, mode, syntax_enabled, disk>>
        \/ prompt # NoPath /\ SaveAs(prompt)
    BY <1>5 DEF PromptEnter
  <2>3. /\ dirty' \in BOOLEAN
        /\ file_path' \in Paths \cup {NoPath}
        /\ mode' = detect_mode(file_path')
        /\ syntax_enabled' \in BOOLEAN
        /\ disk' \in [Paths -> Contents \cup {Absent}]
        /\ \A path \in files \cup {file_path'} : path # NoPath => disk'[path] # Absent
    <3>1. CASE UNCHANGED <<dirty, file_path, mode, syntax_enabled, disk>>
      BY <3>1
    <3>2. CASE prompt # NoPath /\ SaveAs(prompt)
      <4>1. prompt \in Paths
        BY <3>2
      <4>2. CASE UNCHANGED <<disk, dirty, fileVars>>
        BY <4>2
      <4>3. CASE \E left \in {Partial, text} : disk' = [disk EXCEPT ![prompt] = left]
        <5>1. PICK left \in Contents : disk' = [disk EXCEPT ![prompt] = left]
          BY <4>3
        <5>2. /\ disk' \in [Paths -> Contents \cup {Absent}]
              /\ disk'[prompt] # Absent
              /\ \A p \in Paths : disk[p] # Absent => disk'[p] # Absent
          BY <4>1, <5>1, DiskType
        <5>3. file_path' \in {file_path, prompt}
          BY <3>2 DEF SaveAs
        <5>4. mode' = detect_mode(file_path') /\ dirty' \in BOOLEAN
              /\ syntax_enabled' \in BOOLEAN
          BY <3>2 DEF SaveAs, Saved, SaveFails
        <5> QED
          BY <4>1, <5>2, <5>3, <5>4
      <4> QED
        BY <3>2, <4>2, <4>3 DEF SaveAs, Saved, SaveFails
    <3> QED
      BY <2>2, <3>1, <3>2
  <2>4. TypeOK'
    BY <2>1, <2>3
  <2>5. ModesExclusive'
    BY <2>1
  <2> QED
    BY <2>4, <2>5
<1>6. CASE PromptKey(key)
  BY <1>6 DEF PromptKey, Rest, Main
<1>7. CASE Save(key)
  <2>1. /\ UNCHANGED <<running, finder_active, query_len, files, choice,
                       should_exit, text, esc_len, file_path, mode, syntax_enabled>>
        /\ isearch_active' = FALSE /\ esc_state' = "ESC_NONE"
        /\ pending_ctrl_x' = FALSE
    BY <1>7 DEF Save, Rest, Main
  <2>2. /\ prompt_active' \in BOOLEAN /\ prompt_save_as' = prompt_active'
        /\ prompt' \in Paths \cup {NoPath}
    BY <1>7 DEF Save
  <2>3. dirty' \in BOOLEAN
    BY <1>7 DEF Save, Saved, SaveFails
  <2>4. /\ disk' \in [Paths -> Contents \cup {Absent}]
        /\ \A path \in files \cup {file_path} : path # NoPath => disk'[path] # Absent
    <3>1. CASE UNCHANGED disk
      BY <3>1
    <3>2. CASE /\ file_path # NoPath
               /\ \E left \in {Partial, text} : disk' = [disk EXCEPT ![file_path] = left]
      <4>1. PICK left \in Contents : disk' = [disk EXCEPT ![file_path] = left]
        BY <3>2
      <4>2. /\ disk' \in [Paths -> Contents \cup {Absent}]
            /\ \A p \in Paths : disk[p] # Absent => disk'[p] # Absent
        BY <3>2, <4>1, DiskType
      <4> QED
        BY <4>2
    <3> QED
      BY <1>7, <3>1, <3>2 DEF Save, Saved, SaveFails
  <2>5. TypeOK'
    BY <2>1, <2>2, <2>3, <2>4
  <2>6. ModesExclusive'
    BY <2>1, <2>2
  <2> QED
    BY <2>5, <2>6
<1>8. CASE Exit(key)
  BY <1>8 DEF Exit, Rest, Main
<1>9. CASE BeginSearch(key)
  BY <1>9 DEF BeginSearch
<1>10. CASE BeginPrefix(key)
  BY <1>10 DEF BeginPrefix, Command, Rest, Main
<1>11. CASE EditText(key)
  BY <1>11 DEF EditText, Command, Rest, Main
<1>12. CASE OtherCommand(key)
  BY <1>12 DEF OtherCommand, Command, Rest, Main
<1> QED
  BY <1>1, <1>2, <1>3, <1>4, <1>5, <1>6, <1>7, <1>8, <1>9, <1>10, <1>11, <1>12
     DEF PlainKey

LEMMA NextInv ==
  ASSUME IInv, [Next]_vars PROVE IInv'
<1>1. CASE Start \/ EndOfBatch \/ Crash
  BY <1>1, ProcessInv
<1>2. CASE \E key \in Keys : editor_process_key(key)
  BY <1>2, EscapeInv, PlainInv DEF editor_process_key
<1>3. CASE UNCHANGED vars
  BY <1>3 DEF vars, processVars, escVars, promptVars, finderVars, fileVars,
              IInv, TypeOK, ModesExclusive, EscStates, detect_mode
<1> QED
  BY <1>1, <1>2, <1>3 DEF Next

LEMMA Invariance == Spec => []IInv
<1>1. Init => IInv
  BY InitInv
<1>2. IInv /\ [Next]_vars => IInv'
  BY NextInv
<1> QED
  BY <1>1, <1>2, PTL DEF Spec

(* Every mode, buffer and file keeps its type: in particular the bytes kept  *)
(* of an escape sequence and of the query leave room for their NUL, and the  *)
(* mode is that of the file's name.                                          *)
THEOREM TypeCorrect == Spec => []TypeOK
<1>1. IInv => TypeOK
  BY DEF IInv
<1> QED
  BY <1>1, Invariance, PTL

(* A key has one owner (editor_process_key, handle_escape).                  *)
THEOREM OneOwner == Spec => []ModesExclusive
<1>1. IInv => ModesExclusive
  BY DEF IInv
<1> QED
  BY <1>1, Invariance, PTL

-----------------------------------------------------------------------------
(* What the open prompt and finder let through.                              *)

LEMMA ShieldStep ==
  ASSUME IInv, [Next]_vars, running, running', finder_active \/ prompt_active
  PROVE  text' = text \/ (finder_active /\ choice # NoPath /\ text' = disk[choice])
<1>1. CASE UNCHANGED vars
  BY <1>1 DEF vars
<1>2. CASE Start \/ EndOfBatch \/ Crash
  BY <1>2 DEF Start, EndOfBatch, Crash, Ends
<1>3. ASSUME NEW key \in Keys, EscapeKey(key) PROVE text' = text
  <2>1. ~MetaCommand(key)
    BY DEF MetaCommand, IInv, ModesExclusive
  <2> QED
    BY <1>3, <2>1 DEF EscapeKey, BeginCsi, CsiParameter, CsiArrow, BeginMouse,
                      MouseByte, MouseEvent, OpenFinder, MetaPrompt
<1>4. ASSUME NEW key \in Keys, FinderKey(key)
      PROVE  text' = text \/ (finder_active /\ choice # NoPath /\ text' = disk[choice])
  BY <1>4 DEF FinderKey, FinderClose, FinderType, FinderErase, FinderMove,
              FinderIgnore, finder_open_file, FailedLoad, Load
<1>5. ASSUME NEW key \in Keys, PlainKey(key), ~FinderKey(key) PROVE text' = text
  <2>1. ~Command(key)
    BY DEF Command, Rest, Main
  <2> QED
    BY <1>5, <2>1 DEF PlainKey, SearchKey, Escape, CtrlG, PromptEnter, PromptKey,
                      Save, Exit, BeginSearch, BeginPrefix, EditText, OtherCommand
<1> QED
  BY <1>1, <1>2, <1>3, <1>4, <1>5 DEF Next, editor_process_key

(* While a prompt or the finder is open, no key changes the text but the one *)
(* that opens the selected file.                                             *)
THEOREM PromptsShieldText == Spec => ModesShieldText
<1>1. IInv /\ [Next]_vars =>
        [running /\ running' /\ (finder_active \/ prompt_active) =>
           text' = text \/ (finder_active /\ choice # NoPath /\ text' = disk[choice])]_vars
  BY ShieldStep
<1> QED
  BY <1>1, Invariance, PTL DEF Spec, ModesShieldText

-----------------------------------------------------------------------------
(* How a buffer that looks unmodified comes to differ from its file.         *)

Hides ==
  \/ disk[file_path] # Partial /\ disk'[file_path] = Partial
  \/ finder_active /\ <<text, file_path>>' = <<text, file_path>>

(* A save that fails on the buffer's own file or on another.                 *)
LEMMA FailedSaveHides ==
  ASSUME IInv, running, ~HiddenChange, HiddenChange',
         NEW path \in Paths, SaveFails(path),
         UNCHANGED <<running, text, file_path>>
  PROVE  Hides
<1>1. /\ ~dirty /\ ~dirty' /\ file_path # NoPath
      /\ disk[file_path] = text /\ disk'[file_path] # text
  BY DEF HiddenChange, SaveFails
<1>2. PICK left \in {Partial, text} : disk' = [disk EXCEPT ![path] = left]
  BY <1>1 DEF SaveFails
<1>3. disk \in [Paths -> Contents \cup {Absent}] /\ file_path \in Paths
  BY <1>1 DEF IInv, TypeOK
<1>4. path = file_path /\ left = Partial
  BY <1>1, <1>2, <1>3
<1> QED
  BY <1>1, <1>2, <1>3, <1>4 DEF Hides

(* A save that succeeds leaves the file with the text.                       *)
LEMMA SavedShows ==
  ASSUME IInv, NEW path \in Paths, Saved(path), file_path' = path, UNCHANGED text
  PROVE  ~HiddenChange'
<1>1. disk \in [Paths -> Contents \cup {Absent}]
  BY DEF IInv, TypeOK
<1> QED
  BY <1>1 DEF Saved, HiddenChange

(* A step that touches no file and either nothing else or makes the buffer   *)
(* dirty.                                                                    *)
LEMMA QuietStep ==
  ASSUME running, ~HiddenChange, HiddenChange', UNCHANGED <<file_path, disk>>,
         UNCHANGED <<text, dirty>> \/ dirty' = TRUE
  PROVE  FALSE
  BY DEF HiddenChange

LEMMA HideStep ==
  ASSUME IInv, [Next]_vars, ~HiddenChange, HiddenChange'
  PROVE  Hides
<1>1. CASE UNCHANGED vars
  BY <1>1 DEF vars, processVars, fileVars, HiddenChange
<1>2. CASE Start
  BY <1>2 DEF Start, StartWith, HiddenChange
<1>3. CASE EndOfBatch \/ Crash
  BY <1>3 DEF EndOfBatch, Crash, Ends, HiddenChange
<1>4. ASSUME running, NEW key \in Keys, EscapeKey(key) PROVE FALSE
  <2>1. UNCHANGED <<file_path, disk>>
    BY <1>4 DEF EscapeKey, BeginCsi, CsiParameter, CsiArrow, BeginMouse, MouseByte,
                MouseEvent, OpenFinder, MetaPrompt, MetaCommand, fileVars
  <2>2. UNCHANGED <<text, dirty>> \/ dirty' = TRUE
    BY <1>4 DEF EscapeKey, BeginCsi, CsiParameter, CsiArrow, BeginMouse, MouseByte,
                MouseEvent, OpenFinder, MetaPrompt, MetaCommand
  <2> QED
    BY <1>4, <2>1, <2>2, QuietStep
<1>5. ASSUME running, NEW key \in Keys, PlainKey(key) PROVE Hides
  <2>1. CASE FinderKey(key)
    <3>1. UNCHANGED disk /\ finder_active
      BY <2>1 DEF FinderKey
    <3>2. UNCHANGED <<text, dirty, fileVars>> \/ finder_open_file
      BY <2>1 DEF FinderKey, FinderClose, FinderType, FinderErase, FinderMove,
                  FinderIgnore
    <3>3. CASE UNCHANGED <<text, dirty, fileVars>>
      BY <1>5, <3>1, <3>3, QuietStep DEF fileVars
    <3>4. CASE FailedLoad
      BY <3>1, <3>4 DEF FailedLoad, Hides
    <3>5. CASE choice # NoPath /\ Load(choice)
      BY <3>1, <3>5 DEF Load, HiddenChange
    <3> QED
      BY <3>2, <3>3, <3>4, <3>5 DEF finder_open_file
  <2>2. CASE PromptEnter(key)
    <3>1. UNCHANGED <<running, text>>
      BY <2>2 DEF PromptEnter, Rest, Main
    <3>2. CASE UNCHANGED <<dirty, fileVars, disk>>
      BY <1>5, <3>1, <3>2, QuietStep DEF fileVars
    <3>3. CASE prompt # NoPath /\ SaveAs(prompt)
      <4>1. prompt \in Paths
        BY <3>3 DEF IInv, TypeOK
      <4> QED
        BY <1>5, <3>1, <3>3, <4>1, SavedShows, FailedSaveHides DEF SaveAs, fileVars
    <3> QED
      BY <2>2, <3>2, <3>3 DEF PromptEnter
  <2>3. CASE Save(key)
    <3>1. UNCHANGED <<running, text, file_path>>
      BY <2>3 DEF Save, Rest, Main, fileVars
    <3>2. CASE UNCHANGED <<dirty, disk>>
      BY <1>5, <3>1, <3>2, QuietStep
    <3>3. CASE file_path # NoPath /\ (Saved(file_path) \/ SaveFails(file_path))
      <4>1. file_path \in Paths
        BY <3>3 DEF IInv, TypeOK
      <4> QED
        BY <1>5, <3>1, <3>3, <4>1, SavedShows, FailedSaveHides
    <3> QED
      BY <2>3, <3>2, <3>3 DEF Save
  <2>4. ASSUME ~FinderKey(key), ~PromptEnter(key), ~Save(key) PROVE FALSE
    <3>1. UNCHANGED <<file_path, disk>>
      BY <1>5, <2>4 DEF PlainKey, SearchKey, Escape, CtrlG, PromptKey, Exit, BeginSearch,
           BeginPrefix, EditText, OtherCommand, Command, fileVars
    <3>2. UNCHANGED <<text, dirty>> \/ dirty' = TRUE
      BY <1>5, <2>4 DEF PlainKey, SearchKey, Escape, CtrlG, PromptKey, Exit, BeginSearch,
           BeginPrefix, EditText, OtherCommand
    <3> QED
      BY <1>5, <3>1, <3>2, QuietStep
  <2> QED
    BY <2>1, <2>2, <2>3, <2>4
<1> QED
  BY <1>1, <1>2, <1>3, <1>4, <1>5 DEF Next, editor_process_key

(* A buffer that looks unmodified differs from its file only after a save    *)
(* that failed on that file (buffer_write_file) or a load that failed        *)
(* (finder_open_file).                                                       *)
THEOREM FailuresHide == Spec => OnlyFailuresHide
<1>1. IInv /\ [Next]_vars =>
        [~HiddenChange /\ HiddenChange' =>
           \/ disk[file_path] # Partial /\ disk'[file_path] = Partial
           \/ finder_active /\ <<text, file_path>>' = <<text, file_path>>]_vars
  BY HideStep DEF Hides
<1> QED
  BY <1>1, Invariance, PTL DEF Spec, OnlyFailuresHide

=============================================================================
