------------------------------ MODULE Editing -------------------------------
(***************************************************************************)
(* The editing core of ved: what editor_process_key (src/src/input.c) does  *)
(* with a key while no search, prompt or finder is open.  One action per    *)
(* key command; each includes the epilogue that resets the flags            *)
(* last_was_kill and last_was_yank.                                         *)
(*                                                                         *)
(* A meta command M-x is two keys, ESC and x: the first is an action of its *)
(* own (Escape) that leaves esc_state = ESC_SEEN.  ESC [ leads to ESC_CSI,  *)
(* where an arrow key ends the sequence.  A control key or a text byte that *)
(* does not continue an escape sequence ends it and is then handled as if   *)
(* the sequence had not been begun, which is what Plain says.               *)
(*                                                                         *)
(* Keys names the keys the user may press, so that a model can be limited   *)
(* to some commands; "char" stands for the printable bytes.                 *)
(***************************************************************************)
EXTENDS KillRing

CONSTANTS Keys,        \* the keys pressed in the model
          KeyBytes,    \* the bytes of the printable keys
          InitTexts,   \* the texts a file may hold when it is opened
          Mode         \* C_MODE or MAKEFILE_MODE

ASSUME EditingConstants ==
  /\ KeyBytes \subseteq Byte
  /\ InitTexts \subseteq Text
  /\ Mode \in {C_MODE, MAKEFILE_MODE}

VARIABLES lines,                         \* ed->buffer.lines
          row, col,                      \* ed->frame
          mark,                          \* mark_active, mark_row, mark_col
          yank,                          \* yank_start_*, yank_end_*
          last_was_kill, last_was_yank,
          esc_state,
          dirty, syntax_dirty

frameVars == <<row, col>>
flagVars  == <<dirty, syntax_dirty>>
vars == <<kill_ring, kill_ring_index, lines, row, col, mark, yank,
          last_was_kill, last_was_yank, esc_state, dirty, syntax_dirty>>

EscStates == {"ESC_NONE", "ESC_SEEN", "ESC_CSI"}

(* No command leaves the cursor on a row that is gone, an empty buffer       *)
(* without a line, or an index past the ring.                                *)
TypeOK ==
  /\ RingTypeOK
  /\ lines \in Text
  /\ row \in 0 .. (Len(lines) - 1)
  /\ col \in Nat
  /\ mark \in [active : BOOLEAN, row : Nat, col : Nat]
  /\ yank \in [start_row : Nat, start_col : Nat, end_row : Nat, end_col : Nat]
  /\ last_was_kill \in BOOLEAN
  /\ last_was_yank \in BOOLEAN
  /\ esc_state \in EscStates
  /\ dirty \in BOOLEAN
  /\ syntax_dirty \in BOOLEAN

(* The state at the first key: the file is read (or the buffer empty) and the *)
(* first refresh of the screen has parsed it.                                *)
Init ==
  /\ RingInit
  /\ lines \in InitTexts
  /\ row = 0
  /\ col = 0
  /\ mark = [active |-> FALSE, row |-> 0, col |-> 0]
  /\ yank = [start_row |-> 0, start_col |-> 0, end_row |-> 0, end_col |-> 0]
  /\ last_was_kill = FALSE
  /\ last_was_yank = FALSE
  /\ esc_state = "ESC_NONE"
  /\ dirty = FALSE
  /\ syntax_dirty = FALSE

-----------------------------------------------------------------------------
(* Guards and the epilogue common to the commands.                           *)

Plain(key) == key \in Keys /\ esc_state \in EscStates

(* 127 after ESC is M-Backspace, so a plain Backspace does not follow ESC.   *)
PlainBackspace ==
  "Backspace" \in Keys /\ esc_state \in {"ESC_NONE", "ESC_CSI"}

Meta(key) == key \in Keys /\ esc_state = "ESC_SEEN"

Done(kill, yanked) ==
  /\ last_was_kill' = kill
  /\ last_was_yank' = yanked
  /\ esc_state' = "ESC_NONE"

(* Variant: the syntax tree is not marked stale.                             *)
SetDirtyOnly == dirty' = TRUE /\ UNCHANGED syntax_dirty

SetDirty == dirty' = TRUE /\ syntax_dirty' = TRUE

CurLine == lines[row + 1]

-----------------------------------------------------------------------------
(* Escape sequences.                                                         *)

Escape ==
  /\ Plain("ESC")
  /\ esc_state' = "ESC_SEEN"
  /\ last_was_kill' = FALSE
  /\ last_was_yank' = FALSE
  /\ UNCHANGED <<ringVars, lines, frameVars, mark, yank, flagVars>>

BeginCsi ==
  /\ Meta("[")
  /\ esc_state' = "ESC_CSI"
  /\ last_was_kill' = FALSE
  /\ last_was_yank' = FALSE
  /\ UNCHANGED <<ringVars, lines, frameVars, mark, yank, flagVars>>

CtrlG ==
  /\ Plain("C-g")
  /\ mark' = [mark EXCEPT !.active = FALSE]
  /\ Done(FALSE, FALSE)
  /\ UNCHANGED <<ringVars, lines, frameVars, yank, flagVars>>

-----------------------------------------------------------------------------
(* Motion.  C-p, C-n, C-b and C-f also stand for the arrow keys, which end   *)
(* an ESC_CSI sequence and have the same effect.                             *)

Motion ==
  /\ Done(FALSE, FALSE)
  /\ UNCHANGED <<ringVars, lines, mark, yank, flagVars>>

frame_move_prev_line ==
  /\ Plain("C-p")
  /\ IF row = 0 THEN UNCHANGED frameVars
     ELSE row' = row - 1 /\ col' = utf8_clamp_col(lines[row], col)
  /\ Motion

(* Variant: the column is not clamped.                                       *)
NextLineUnclamped ==
  /\ Plain("C-n")
  /\ IF row + 1 >= Len(lines) THEN UNCHANGED frameVars
     ELSE row' = row + 1 /\ col' = col
  /\ Motion

frame_move_next_line ==
  /\ Plain("C-n")
  /\ IF row + 1 >= Len(lines) THEN UNCHANGED frameVars
     ELSE row' = row + 1 /\ col' = utf8_clamp_col(lines[row + 2], col)
  /\ Motion

(* The frame after frame_move_prev_char on the text L, where mem is the      *)
(* known memory of the cursor's line.                                        *)
MovePrevCharIn(L, mem) ==
  IF col > 0 THEN row' = row /\ col' \in PrevBoundaryIn(mem, col)
  ELSE IF row = 0 THEN UNCHANGED frameVars
  ELSE row' = row - 1 /\ col' = Len(L[row])

frame_move_prev_char ==
  /\ Plain("C-b")
  /\ MovePrevCharIn(lines, Append(CurLine, NUL))
  /\ Motion

frame_move_next_char ==
  /\ Plain("C-f")
  /\ IF col < Len(CurLine)
       THEN row' = row /\ col' = utf8_next_boundary(CurLine, col)
     ELSE IF row + 1 >= Len(lines) THEN UNCHANGED frameVars
     ELSE row' = row + 1 /\ col' = 0
  /\ Motion

frame_move_line_start ==
  /\ Plain("C-a")
  /\ row' = row /\ col' = 0
  /\ Motion

frame_move_line_end ==
  /\ Plain("C-e")
  /\ row' = row /\ col' = Len(CurLine)
  /\ Motion

(* Where the scan of frame_move_next_word stands when it has skipped the     *)
(* non-word bytes and the word that follow column c of row r.                *)
WordEnd(r, c) ==
  LET line == lines[r + 1]
      from == utf8_clamp_col(line, c)
  IN  SkipRight(line, SkipRight(line, from, Byte \ WordByte), WordByte)

(* The scan goes on to the next row whenever it ends at the end of a line.   *)
frame_move_next_word ==
  /\ Meta("f")
  /\ LET At(r) == WordEnd(r, IF r = row THEN col ELSE 0)
     IN  /\ row' = Min({r \in row .. (Len(lines) - 1) :
                          r + 1 = Len(lines) \/ At(r) < Len(lines[r + 1])})
         /\ col' = At(row')
  /\ Motion

(* From column 0 the scan starts at the end of the nearest row above that is *)
(* not empty.                                                                *)
frame_move_prev_word ==
  /\ Meta("b")
  /\ LET here  == utf8_clamp_col(CurLine, col)
         above == {r \in 0 .. (row - 1) : r = 0 \/ lines[r + 1] # << >>}
         start == IF here > 0 \/ row = 0 THEN row ELSE Max(above)
         line  == lines[start + 1]
         from  == IF start = row THEN here ELSE Len(line)
     IN  /\ row' = start
         /\ col' = SkipLeft(line, SkipLeft(line, from, Byte \ WordByte),
                            WordByte)
  /\ Motion

-----------------------------------------------------------------------------
(* Insertion and deletion.                                                   *)

Edit ==
  /\ SetDirty
  /\ Done(FALSE, FALSE)
  /\ UNCHANGED <<ringVars, mark, yank>>

SelfInsert(ch) ==
  /\ Plain("char")
  /\ lines' = buffer_insert_char(lines, row, col, ch)
  /\ row' = row /\ col' = col + 1
  /\ Edit

InsertTab ==
  /\ Plain("Tab")
  /\ lines' = buffer_insert_tab(lines, row, col, Mode)
  /\ row' = row /\ col' = col + (IF Mode = MAKEFILE_MODE THEN 1 ELSE 2)
  /\ Edit

Enter ==
  /\ Plain("Enter")
  /\ lines' = buffer_insert_newline(lines, row, col)
  /\ row' = row + 1 /\ col' = 0
  /\ Edit

(* Variant: the cursor goes to the beginning of its line.                    *)
OpenLineAtStart ==
  /\ Plain("C-o")
  /\ lines' = buffer_insert_newline(lines, row, 0)
  /\ row' = row + 1 /\ col' = 0
  /\ Edit

OpenLine ==
  /\ Plain("C-o")
  /\ lines' = buffer_insert_newline(lines, row, 0)
  /\ row' = row + 1 /\ col' = col
  /\ Edit

(* The bytes of the cursor's line after buffer_delete_char has moved its     *)
(* tail left: the new line, its NUL, and what the move left of the old line. *)
MemoryAfterDelete(old, new) ==
  Append(new, NUL)
    \o SubSeq(Append(old, NUL), Len(new) + 2, Len(old) + 1)

(* The character goes first; frame_move_prev_char then walks on what is left.*)
Backspace ==
  /\ PlainBackspace
  /\ IF col > 0 \/ row > 0
       THEN /\ lines' = buffer_delete_char(lines, row, col)
            /\ MovePrevCharIn(lines',
                 IF col = 0 THEN << >>
                 ELSE MemoryAfterDelete(CurLine, lines'[row + 1]))
            /\ SetDirty
       ELSE UNCHANGED <<lines, frameVars, flagVars>>
  /\ Done(FALSE, FALSE)
  /\ UNCHANGED <<ringVars, mark, yank>>

(* Variant: the character before the cursor goes.                            *)
DeleteForwardBackward ==
  /\ Plain("C-d")
  /\ lines' = buffer_delete_char(lines, row, col)
  /\ UNCHANGED frameVars
  /\ Edit

DeleteForward ==
  /\ Plain("C-d")
  /\ lines' = buffer_delete_forward(lines, row, col)
  /\ UNCHANGED frameVars
  /\ Edit

-----------------------------------------------------------------------------
(* Killing.                                                                  *)

(* editor_kill_newline_and_next with the frame on row r: the newline and the *)
(* whole next line go to the ring, only the newline leaves the text.         *)
editor_kill_newline_and_next(r) ==
  IF r + 1 >= Len(lines) THEN UNCHANGED <<lines, ringVars>>
  ELSE /\ editor_kill_set(<< << >>, lines[r + 2] >>, last_was_kill)
       /\ lines' = DeleteBetween(lines, r, Len(lines[r + 1]), r + 1, 0)

(* Variants: the ring misses the first byte; the text loses one too many.    *)
KillRangeShort(start, end) ==
  IF end > start
    THEN /\ editor_kill_set(<< SubSeq(CurLine, start + 2, end) >>,
                            last_was_kill)
         /\ lines' = buffer_delete_range(lines, row, start, end)
    ELSE UNCHANGED <<lines, ringVars>>
KillRangeLong(start, end) ==
  IF end > start
    THEN /\ editor_kill_set(<< SubSeq(CurLine, start + 1, end) >>,
                            last_was_kill)
         /\ lines' = buffer_delete_range(lines, row, start, end + 1)
    ELSE UNCHANGED <<lines, ringVars>>

KillRange(start, end) ==
  IF end > start
    THEN /\ editor_kill_set(<< SubSeq(CurLine, start + 1, end) >>,
                            last_was_kill)
         /\ lines' = buffer_delete_range(lines, row, start, end)
    ELSE UNCHANGED <<lines, ringVars>>

KillLine ==
  /\ Plain("C-k")
  /\ IF col < Len(CurLine)
       THEN KillRange(col, Len(CurLine)) /\ SetDirty
     ELSE IF row + 1 < Len(lines)
       THEN editor_kill_newline_and_next(row) /\ SetDirty
     ELSE UNCHANGED <<lines, ringVars, flagVars>>
  /\ Done(TRUE, FALSE)
  /\ UNCHANGED <<frameVars, mark, yank>>

(* M-d skips white space, then a word; it stops before other bytes.          *)
editor_kill_word_forward ==
  /\ Meta("d")
  /\ IF col >= Len(CurLine)
       THEN editor_kill_newline_and_next(row)
       ELSE KillRange(col, SkipRight(CurLine, SkipRight(CurLine, col, SpaceByte),
                                     WordByte))
  /\ SetDirty
  /\ Done(TRUE, FALSE)
  /\ UNCHANGED <<frameVars, mark, yank>>

editor_kill_word_backward ==
  /\ Meta("Backspace")
  /\ IF col = 0
       THEN IF row = 0 THEN UNCHANGED <<lines, ringVars, frameVars>>
            ELSE /\ row' = row - 1
                 /\ col' = Len(lines[row])
                 /\ editor_kill_newline_and_next(row - 1)
       ELSE LET end   == utf8_clamp_col(CurLine, col)
                start == SkipLeft(CurLine, SkipLeft(CurLine, end, SpaceByte),
                                  WordByte)
            IN  /\ KillRange(start, end)
                /\ row' = row
                /\ col' = IF end > start THEN start ELSE col
  /\ SetDirty
  /\ Done(TRUE, FALSE)
  /\ UNCHANGED <<mark, yank>>

-----------------------------------------------------------------------------
(* The region between mark and cursor.                                       *)

MarkFirst == pos_compare(mark.row, mark.col, row, col) <= 0

Region ==
  IF MarkFirst
    THEN [start_row |-> mark.row, start_col |-> mark.col,
          end_row |-> row, end_col |-> col]
    ELSE [start_row |-> row, start_col |-> col,
          end_row |-> mark.row, end_col |-> mark.col]

(* editor_get_region returns true.                                           *)
HasRegion == mark.active /\ ~(mark.row = row /\ mark.col = col)

(* Variant: the last row is copied to its end.                               *)
CopyWholeLastRow ==
  LET reg == Region
      From(r) == IF r = reg.start_row THEN ClampCol(lines, r, reg.start_col)
                                      ELSE 0
  IN  [i \in 1 .. (reg.end_row - reg.start_row + 1) |->
         LET r == reg.start_row + i - 1
         IN  SubSeq(LineAt(lines, r), From(r) + 1, line_length(lines, r))]

(* editor_copy_region_text: each row's part, an absent row being empty.      *)
editor_copy_region_text ==
  LET reg == Region
      From(r) == IF r = reg.start_row THEN ClampCol(lines, r, reg.start_col)
                                      ELSE 0
      To(r) == IF r = reg.end_row THEN ClampCol(lines, r, reg.end_col)
                                  ELSE line_length(lines, r)
  IN  [i \in 1 .. (reg.end_row - reg.start_row + 1) |->
         LET r == reg.start_row + i - 1
         IN  SubSeq(LineAt(lines, r), From(r) + 1, To(r))]

(* What the copy returns is NULL, "No region", when nothing is in the region.*)
CanCopy == HasRegion /\ editor_copy_region_text # EmptyText

SetMark ==
  /\ Plain("C-@")
  /\ mark' = IF mark.active /\ mark.row = row /\ mark.col = col
               THEN [mark EXCEPT !.active = FALSE]
               ELSE [active |-> TRUE, row |-> row, col |-> col]
  /\ Done(FALSE, FALSE)
  /\ UNCHANGED <<ringVars, lines, frameVars, yank, flagVars>>

(* Variant: the cursor stays where it was.                                   *)
KillRegionInPlace ==
  /\ Plain("C-w")
  /\ IF CanCopy
       THEN /\ editor_kill_set(editor_copy_region_text, last_was_kill)
            /\ lines' = buffer_delete_region(lines,
                          Region.start_row, Region.start_col,
                          Region.end_row, Region.end_col)
            /\ UNCHANGED frameVars
            /\ SetDirty
            /\ mark' = [mark EXCEPT !.active = FALSE]
            /\ Done(TRUE, FALSE)
       ELSE /\ Done(FALSE, FALSE)
            /\ UNCHANGED <<ringVars, lines, frameVars, flagVars, mark>>
  /\ UNCHANGED yank

editor_kill_region ==
  /\ Plain("C-w")
  /\ IF CanCopy
       THEN /\ editor_kill_set(editor_copy_region_text, last_was_kill)
            /\ lines' = buffer_delete_region(lines,
                          Region.start_row, Region.start_col,
                          Region.end_row, Region.end_col)
            /\ row' = Region.start_row /\ col' = Region.start_col
            /\ SetDirty
            /\ mark' = [mark EXCEPT !.active = FALSE]
            /\ Done(TRUE, FALSE)
       ELSE /\ Done(FALSE, FALSE)
            /\ UNCHANGED <<ringVars, lines, frameVars, flagVars, mark>>
  /\ UNCHANGED yank

editor_copy_region ==
  /\ Meta("w")
  /\ IF CanCopy
       THEN /\ editor_kill_set(editor_copy_region_text, FALSE)
            /\ mark' = [mark EXCEPT !.active = FALSE]
       ELSE UNCHANGED <<ringVars, mark>>
  /\ Done(FALSE, FALSE)
  /\ UNCHANGED <<lines, frameVars, yank, flagVars>>

-----------------------------------------------------------------------------
(* Yanking.                                                                  *)

(* Variant: the end column is counted from the starting column.              *)
YankFromEndCol(L, r, c, text) ==
  LET end_row == r + Len(text) - 1
      end_col == c + Len(text[Len(text)])
  IN  /\ lines' = InsertText(L, r, ClampCol(L, r, c), text)
      /\ row' = end_row /\ col' = end_col
      /\ yank' = [start_row |-> r, start_col |-> c,
                  end_row |-> end_row, end_col |-> end_col]
      /\ SetDirty

(* editor_yank_from inserts the text byte by byte at the frame (r, c) of the *)
(* text L.  Each insertion clamps its column, so from a column past the end  *)
(* of the line the bytes are appended while the frame's column keeps its     *)
(* lead.                                                                     *)
editor_yank_from(L, r, c, text) ==
  LET last == text[Len(text)]
      end_row == r + Len(text) - 1
      end_col == IF Len(text) = 1 THEN c + Len(last) ELSE Len(last)
  IN  /\ lines' = InsertText(L, r, ClampCol(L, r, c), text)
      /\ row' = end_row /\ col' = end_col
      /\ yank' = [start_row |-> r, start_col |-> c,
                  end_row |-> end_row, end_col |-> end_col]
      /\ SetDirty

editor_yank ==
  /\ Plain("C-y")
  /\ IF kill_ring = << >>
       THEN Done(FALSE, FALSE) /\ UNCHANGED <<lines, frameVars, yank, flagVars>>
       ELSE editor_yank_from(lines, row, col, CurrentKill) /\ Done(FALSE, TRUE)
  /\ UNCHANGED <<ringVars, mark>>

(* M-y: take the previous kill, delete what the last yank pasted and paste   *)
(* that kill instead.                                                        *)
YankPop ==
  /\ Meta("y")
  /\ IF last_was_yank /\ Len(kill_ring) > 1
       THEN /\ RotateKill
            /\ editor_yank_from(
                 buffer_delete_region(lines, yank.start_row, yank.start_col,
                                      yank.end_row, yank.end_col),
                 yank.start_row, yank.start_col, CurrentKill')
            /\ Done(FALSE, TRUE)
       ELSE /\ Done(FALSE, last_was_yank /\ kill_ring # << >>)
            /\ UNCHANGED <<ringVars, lines, frameVars, yank, flagVars>>
  /\ UNCHANGED mark

-----------------------------------------------------------------------------

(* The keys that an incremental search does not take for itself, and those   *)
(* that it does (C-g, Enter, Backspace and text).                            *)
ControlKey ==
  \/ Escape \/ BeginCsi
  \/ frame_move_prev_line \/ frame_move_next_line
  \/ frame_move_prev_char \/ frame_move_next_char
  \/ frame_move_line_start \/ frame_move_line_end
  \/ frame_move_next_word \/ frame_move_prev_word
  \/ InsertTab \/ OpenLine \/ DeleteForward
  \/ KillLine \/ editor_kill_word_forward \/ editor_kill_word_backward
  \/ SetMark \/ editor_kill_region \/ editor_copy_region
  \/ editor_yank \/ YankPop

TextKey ==
  CtrlG \/ Enter \/ Backspace \/ (\E ch \in KeyBytes : SelfInsert(ch))

Next == ControlKey \/ TextKey

Spec == Init /\ [][Next]_vars

-----------------------------------------------------------------------------
(* Safety.                                                                   *)

(* The ring read backwards from kill_ring_index, wrapping around.            *)
KillsNewestFirst ==
  [i \in 1 .. Len(kill_ring) |->
     kill_ring[((kill_ring_index - (i - 1)) % Len(kill_ring)) + 1]]

History == INSTANCE KillHistory WITH Kept <- KILL_RING_MAX, kills <- KillsNewestFirst

(* Whatever sequence of kills, copies and yanks is made, the ring holds the  *)
(* last KILL_RING_MAX kills in order, and C-y pastes the newest.             *)
KillsKept == History!Spec

(* Pasting the current kill at the cursor gives back the text before the     *)
(* step.                                                                     *)
YankRestores ==
  InsertText(lines', row', ClampCol(lines', row', col'), CurrentKill') = lines

(* The step is a kill that removes text and does not continue an earlier one.*)
FirstKill == ~last_was_kill /\ last_was_kill' /\ lines' # lines

(* A first kill inside one line (C-k, M-d, M-Backspace, C-w) can be undone   *)
(* by C-y: the ring gets exactly the text that left the buffer, and the      *)
(* cursor is left where it was.                                              *)
LineKillUndone ==
  [][FirstKill /\ Len(lines') = Len(lines) => YankRestores]_vars

(* The step is a C-w that reports "Killed", not continuing an earlier kill.  *)
RegionKilled ==
  mark.active /\ ~mark'.active /\ ~last_was_kill /\ last_was_kill'

(* Edits have not left the mark behind, off the end of the text or its line. *)
MarkInText ==
  mark.row < Len(lines) /\ mark.col <= line_length(lines, mark.row)

(* The mark stands on a character of the text, or at the end of a line.      *)
MarkOnChar ==
  /\ MarkInText
  /\ 0 < mark.col /\ mark.col < line_length(lines, mark.row)
       => LineAt(lines, mark.row)[mark.col + 1] \notin Cont

(* C-w with the mark on a position of the text can be undone by C-y, however *)
(* many lines the region has and whichever end the cursor is on.             *)
RegionKillUndone == [][RegionKilled /\ MarkInText => YankRestores]_vars

(* No command changes the text without marking the buffer as modified and    *)
(* its syntax tree as out of date.                                           *)
EditMarksDirty == [][lines' # lines => dirty' /\ syntax_dirty']_vars

(* The text from (row1, col1) to (row2, col2).                               *)
TextBetween(row1, col1, row2, col2) ==
  IF row1 = row2
    THEN << SubSeq(lines[row1 + 1], col1 + 1, col2) >>
    ELSE << SubSeq(lines[row1 + 1], col1 + 1, Len(lines[row1 + 1])) >>
           \o SubSeq(lines, row1 + 2, row2)
           \o << SubSeq(lines[row2 + 1], 1, col2) >>

(* What the recorded ends of a yank delimit is the pasted kill, nothing more *)
(* and nothing less (from a cursor within its line).                         *)
YankSpansPaste ==
  last_was_yank =>
    TextBetween(yank.start_row, yank.start_col, yank.end_row, yank.end_col)
      = CurrentKill

(* The cursor's column is in its line: byte reads at the cursor stay inside  *)
(* the string.  C-w can break it (its mark may be past the end of a line).   *)
CursorInLine == col <= Len(CurLine)

(* The cursor never stands inside a multi-byte character.                    *)
CursorOnBoundary ==
  0 < col /\ col < Len(CurLine) => CurLine[col + 1] \notin Cont

(* The characters the buffer is opened with, and those a key inserts.        *)
KnownChars ==
  LET Opened == UNION {{T[i] : i \in 1 .. Len(T)} : T \in InitTexts}
  IN  {<< ch >> : ch \in KeyBytes \cup {Space, Tab}}
        \cup UNION {Chars(line) : line \in Opened}

(* No keyboard command splits a multi-byte character or makes a new one out  *)
(* of parts, in the buffer or on the way through the kill ring.              *)
CharsStayWhole ==
  LET Known(text) == \A i \in 1 .. Len(text) : Chars(text[i]) \subseteq KnownChars
  IN  /\ Known(lines)
      /\ \A k \in 1 .. Len(kill_ring) : Known(kill_ring[k])

-----------------------------------------------------------------------------
(* The cursor's place in the text.                                           *)

TextBefore == Before(lines, row, ClampCol(lines, row, col))
TextAfter  == After(lines, row, ClampCol(lines, row, col))

Inserting ==
  \/ \E ch \in KeyBytes : SelfInsert(ch)
  \/ InsertTab \/ Enter \/ OpenLine \/ editor_yank

(* A command that inserts at the cursor leaves the cursor before the same    *)
(* text: what follows it does not change, over any number of lines.          *)
InsertKeepsTail == [][Inserting /\ CursorInLine => TextAfter' = TextAfter]_vars

(* A command that deletes forward (C-d, C-k, M-d) leaves what precedes the   *)
(* cursor as it was.                                                         *)
DeleteKeepsHead ==
  [][(DeleteForward \/ KillLine \/ editor_kill_word_forward) /\ CursorInLine
       => TextBefore' = TextBefore]_vars

(* Killing the previous word (M-Backspace) leaves what follows the cursor as *)
(* it was, also when it joins the line to the one above.  (From inside a     *)
(* character the kill ends where the character begins.)                      *)
KillBackKeepsTail ==
  [][editor_kill_word_backward /\ CursorInLine /\ CursorOnBoundary
       => TextAfter' = TextAfter]_vars

(* README: "Backspace: delete backward".  The code moves the cursor to the   *)
(* end of the line that results from joining two lines.                      *)
BackspaceKeepsTail == [][Backspace /\ CursorInLine => TextAfter' = TextAfter]_vars

-----------------------------------------------------------------------------
(* Words.                                                                    *)

IsWord(r, i) == i \in 1 .. Len(lines[r + 1]) /\ lines[r + 1][i] \in WordByte

WordStartAt(r, c) == IsWord(r, c + 1) /\ ~IsWord(r, c)

(* Positions strictly between two positions of the text.                     *)
Between(row1, col1, row2, col2) ==
  {p \in UNION {{<<r, c>> : c \in 0 .. Len(lines[r + 1])} : r \in row1 .. row2} :
     /\ pos_compare(row1, col1, p[1], p[2]) < 0
     /\ pos_compare(p[1], p[2], row2, col2) < 0}

(* M-b never jumps over the beginning of a word, on its own line or above.   *)
PrevWordSkipsNone ==
  [][frame_move_prev_word =>
       ~ \E p \in Between(row', col', row, col) : WordStartAt(p[1], p[2])]_vars

=============================================================================
