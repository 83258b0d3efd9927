------------------------------ MODULE Viewport ------------------------------
(***************************************************************************)
(* The part of the text on the screen, and the mouse: editor_scroll and the *)
(* parse in editor_refresh_screen (src/src/render.c), handle_mouse_event    *)
(* (src/src/input.c) and what opening a file from the finder does to the    *)
(* frame, on top of the editing commands.                                   *)
(*                                                                         *)
(* A mouse report is one action here; Session has its bytes.  Any number of *)
(* keys may come before the screen is drawn again: drawn says that none has *)
(* come since.                                                              *)
(***************************************************************************)
EXTENDS Editing

CONSTANTS TABSTOP,      \* 8
          ScreenSizes   \* the sizes of the window, [rows, cols]

ASSUME ViewportConstants ==
  /\ TABSTOP \in Nat \ {0}
  /\ ScreenSizes \subseteq [rows : Nat \ {0}, cols : Nat \ {0}]

VARIABLES row_offset, col_offset,   \* the first row and byte on the screen
          screen,                   \* screen_rows and screen_cols
          syntax_enabled,
          tree,                     \* ts_tree: "none", of the text, or "stale"
          drawn

offsetVars == <<row_offset, col_offset>>
viewVars   == <<offsetVars, screen, syntax_enabled, tree, drawn>>
allVars    == <<vars, viewVars>>

TextRows == IF screen.rows > 1 THEN screen.rows - 1 ELSE 0

ViewInit ==
  /\ Init
  /\ row_offset = 0 /\ col_offset = 0
  /\ screen \in ScreenSizes
  /\ syntax_enabled \in BOOLEAN
  /\ tree = IF syntax_enabled THEN "text" ELSE "none"
  /\ drawn = TRUE

-----------------------------------------------------------------------------
(* Visible columns: a tab reaches to the next multiple of TABSTOP, any other *)
(* byte takes one column.                                                    *)

utf8_byte_to_vis_col(line, c0) ==
  LET vis[c \in 0 .. Len(line)] ==
        IF c = 0 THEN 0
        ELSE vis[c - 1] + IF line[c] = Tab THEN TABSTOP - (vis[c - 1] % TABSTOP)
                                           ELSE 1
  IN  vis[Min({c0, Len(line)})]

(* The walk stops before a tab that would cross the column.                  *)
utf8_vis_to_byte_col(line, vis_col) ==
  Max({c \in 0 .. Len(line) : utf8_byte_to_vis_col(line, c) <= vis_col})

-----------------------------------------------------------------------------
(* editor_scroll.                                                            *)

(* The row offset that shows the cursor's row, without empty rows at the     *)
(* bottom while there are lines above.                                       *)
ScrolledRow(first, text_rows) ==
  LET up   == IF row < first THEN row ELSE first
      down == IF text_rows > 0 /\ row >= up + text_rows THEN row - text_rows + 1
                                                       ELSE up
  IN  IF down + text_rows <= Len(lines) THEN down
      ELSE IF Len(lines) > text_rows THEN Len(lines) - text_rows ELSE 0

(* Variant: scrolling to the right stops one column short.                   *)
ScrolledColLate(first, cols) ==
  LET frame_vis  == utf8_byte_to_vis_col(CurLine, col)
      offset_vis == utf8_byte_to_vis_col(CurLine, first)
  IN  utf8_clamp_col(CurLine,
        IF frame_vis < offset_vis THEN utf8_vis_to_byte_col(CurLine, frame_vis)
        ELSE IF frame_vis > offset_vis + cols
          THEN utf8_vis_to_byte_col(CurLine, frame_vis - cols + 1)
        ELSE first)

ScrolledCol(first, cols) ==
  LET frame_vis  == utf8_byte_to_vis_col(CurLine, col)
      offset_vis == utf8_byte_to_vis_col(CurLine, first)
  IN  utf8_clamp_col(CurLine,
        IF frame_vis < offset_vis THEN utf8_vis_to_byte_col(CurLine, frame_vis)
        ELSE IF frame_vis >= offset_vis + cols
          THEN utf8_vis_to_byte_col(CurLine, frame_vis - cols + 1)
        ELSE first)

(* The window's size is read, the view follows the cursor, and a tree that   *)
(* is out of date is made again.                                             *)
Refresh ==
  /\ screen' \in ScreenSizes
  /\ row_offset' = ScrolledRow(row_offset,
                               IF screen'.rows > 1 THEN screen'.rows - 1 ELSE 0)
  /\ col_offset' = ScrolledCol(col_offset, screen'.cols)
  /\ IF syntax_enabled /\ (syntax_dirty \/ tree = "none")
       THEN tree' = "text" /\ syntax_dirty' = FALSE
       ELSE UNCHANGED <<tree, syntax_dirty>>
  /\ drawn' = TRUE
  /\ UNCHANGED <<ringVars, lines, frameVars, mark, yank, last_was_kill,
                 last_was_yank, esc_state, dirty, syntax_enabled>>

-----------------------------------------------------------------------------
(* The mouse.                                                                *)

(* The line of a row that is never past the end, and the byte of column x.   *)
PointedRow(y) == Min({row_offset + y - 1, Len(lines) - 1})
PointedCol(x) == col_offset + x - 1

MoveFrame(r, c) == row' = r /\ col' = utf8_clamp_col(lines[r + 1], c)

(* A report, whose ESC has run the epilogue.  Without text rows it is        *)
(* ignored.                                                                  *)
Mouse ==
  /\ esc_state = "ESC_NONE"
  /\ Done(FALSE, FALSE)
  /\ drawn' = FALSE
  /\ UNCHANGED <<ringVars, lines, yank, flagVars, screen, syntax_enabled, tree>>

(* The column is not clamped: the cursor may be left inside a character or   *)
(* past its line.                                                            *)
WheelUp ==
  /\ Mouse /\ TextRows > 0
  /\ IF row_offset > 0
       THEN row_offset' = row_offset - 1 /\ row' = Max({row - 1, 0})
       ELSE UNCHANGED <<row_offset, row>>
  /\ UNCHANGED <<col, col_offset, mark>>

(* Variant: only the view moves.                                             *)
WheelDownView ==
  /\ Mouse /\ TextRows > 0
  /\ row_offset' = IF row_offset + 1 < Len(lines) THEN row_offset + 1
                                                  ELSE row_offset
  /\ UNCHANGED <<frameVars, col_offset, mark>>

(* Variant: the cursor's row is not kept in the text.                        *)
WheelDownPast ==
  /\ Mouse /\ TextRows > 0
  /\ IF row_offset + 1 < Len(lines)
       THEN row_offset' = row_offset + 1 /\ row' = row + 1
       ELSE UNCHANGED <<row_offset, row>>
  /\ UNCHANGED <<col, col_offset, mark>>

WheelDown ==
  /\ Mouse /\ TextRows > 0
  /\ IF row_offset + 1 < Len(lines)
       THEN row_offset' = row_offset + 1 /\ row' = Min({row + 1, Len(lines) - 1})
       ELSE UNCHANGED <<row_offset, row>>
  /\ UNCHANGED <<col, col_offset, mark>>

(* The mark takes the column that was pointed at, the cursor one in the line.*)
Press(x, y) ==
  /\ Mouse
  /\ mark' = [active |-> TRUE, row |-> PointedRow(y), col |-> PointedCol(x)]
  /\ MoveFrame(PointedRow(y), PointedCol(x))
  /\ UNCHANGED offsetVars

(* A release where the button was pressed removes the mark.                  *)
Release(x, y) ==
  /\ Mouse
  /\ mark' = IF mark.row = PointedRow(y) /\ mark.col = PointedCol(x)
               THEN [mark EXCEPT !.active = FALSE] ELSE mark
  /\ MoveFrame(PointedRow(y), PointedCol(x))
  /\ UNCHANGED offsetVars

Drag(x, y) ==
  /\ Mouse
  /\ mark' = IF mark.active THEN mark
             ELSE [active |-> TRUE, row |-> row, col |-> col]
  /\ MoveFrame(PointedRow(y), PointedCol(x))
  /\ UNCHANGED offsetVars

MouseEvent ==
  \/ WheelUp \/ WheelDown
  \/ \E x \in 1 .. screen.cols, y \in 1 .. TextRows :
       Press(x, y) \/ Release(x, y) \/ Drag(x, y)

-----------------------------------------------------------------------------
(* Opening a file from the finder leaves the mark, the yank positions and    *)
(* the kill ring of the text before.  If the file cannot be read after all   *)
(* that text stays, but the frame goes to its beginning, it looks unmodified *)
(* and highlighting follows its name, which save as may have changed.        *)

FrameToStart ==
  /\ esc_state = "ESC_NONE"
  /\ Done(FALSE, FALSE)
  /\ row' = 0 /\ col' = 0
  /\ row_offset' = 0 /\ col_offset' = 0
  /\ dirty' = FALSE
  /\ drawn' = FALSE
  /\ UNCHANGED <<ringVars, mark, yank, screen>>

(* Variant: the new text is taken to have been parsed.                       *)
OpenFileParsed ==
  /\ FrameToStart
  /\ lines' \in InitTexts
  /\ syntax_enabled' \in BOOLEAN
  /\ syntax_dirty' = FALSE
  /\ tree' = tree

OpenFile ==
  /\ FrameToStart
  /\ lines' \in InitTexts
  /\ syntax_enabled' \in BOOLEAN
  /\ syntax_dirty' = syntax_enabled'
  /\ tree' = "none"

OpenFileFails ==
  /\ FrameToStart
  /\ syntax_enabled' \in BOOLEAN
  /\ syntax_dirty' = syntax_enabled'
  /\ UNCHANGED <<lines, tree>>

-----------------------------------------------------------------------------

(* An editing key; a tree of another text is out of date.                    *)
Edited ==
  /\ Next
  /\ tree' = IF lines' = lines \/ tree = "none" THEN tree ELSE "stale"
  /\ drawn' = FALSE
  /\ UNCHANGED <<offsetVars, screen, syntax_enabled>>

ViewNext == Edited \/ MouseEvent \/ OpenFile \/ OpenFileFails \/ Refresh

ViewSpec == ViewInit /\ [][ViewNext]_allVars

-----------------------------------------------------------------------------
(* Properties.                                                               *)

(* Neither scrolling nor a report of the mouse outside the text makes a row, *)
(* column or offset negative, and the cursor's row stays one of the text's.  *)
ViewTypeOK ==
  /\ TypeOK
  /\ row_offset \in Nat /\ col_offset \in Nat
  /\ screen \in ScreenSizes
  /\ syntax_enabled \in BOOLEAN
  /\ tree \in {"none", "text", "stale"}
  /\ drawn \in BOOLEAN

CursorCol ==
  utf8_byte_to_vis_col(CurLine, col) - utf8_byte_to_vis_col(CurLine, col_offset) + 1

(* The columns that the first character on the screen takes.                 *)
FirstWidth ==
  IF col_offset >= Len(CurLine) THEN 1
  ELSE utf8_byte_to_vis_col(CurLine, utf8_next_boundary(CurLine, col_offset))
         - utf8_byte_to_vis_col(CurLine, col_offset)

(* When the screen has been drawn the cursor's row is one of its text rows,  *)
(* no row is wasted, and its column is on the screen, or beyond it by less   *)
(* than the width of the tab or character at the left edge, which            *)
(* editor_scroll never cuts in two.                                          *)
CursorOnScreen ==
  drawn =>
    /\ TextRows > 0 => row_offset <= row /\ row < row_offset + TextRows
    /\ row_offset > 0 => row_offset + TextRows <= Len(lines)
    /\ 1 <= CursorCol /\ CursorCol < screen.cols + FirstWidth

(* README: "Scroll wheel: scroll buffer".  Where the text goes on below, the *)
(* next drawing keeps what the wheel scrolled: the cursor moves along.       *)
WheelScrolls ==
  [][drawn /\ WheelDown /\ row_offset + TextRows < Len(lines) =>
       ScrolledRow(row_offset, TextRows)' = row_offset + 1]_allVars

(* The tree used to highlight the drawn text is the tree of that text.       *)
TreeIsOfText == drawn /\ syntax_enabled => tree = "text"

(* selection_range_for_row, with its ends cut off at the end of the line as  *)
(* the drawing does: the part of a row that is shown as selected.            *)
ShownSelected(r) ==
  LET swap  == pos_compare(mark.row, mark.col, row, col) > 0
      first == IF swap THEN <<row, col>> ELSE <<mark.row, mark.col>>
      last  == IF swap THEN <<mark.row, mark.col>> ELSE <<row, col>>
      line  == LineAt(lines, r)
      from  == IF r = first[1] THEN Min({first[2], Len(line)}) ELSE 0
      to    == IF r = last[1] THEN Min({last[2], Len(line)}) ELSE Len(line)
  IN  IF mark.active /\ first[1] <= r /\ r <= last[1]
        THEN SubSeq(line, from + 1, to) ELSE << >>

(* What is shown as selected is what M-w copies and C-w kills, row by row,   *)
(* whatever has happened to the text since the mark was set.                 *)
SelectionIsRegion ==
  /\ \A r \in 0 .. (Len(lines) - 1) :
       ShownSelected(r) # << >> =>
         /\ HasRegion
         /\ ShownSelected(r) = editor_copy_region_text[r - Region.start_row + 1]
  /\ HasRegion =>
       \A i \in DOMAIN editor_copy_region_text :
         editor_copy_region_text[i] = ShownSelected(Region.start_row + i - 1)

=============================================================================
