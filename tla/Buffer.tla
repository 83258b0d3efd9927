------------------------------- MODULE Buffer -------------------------------
(***************************************************************************)
(* The text operations of src/src/buffer.c, as functions from a buffer's    *)
(* lines to its lines.                                                      *)
(*                                                                         *)
(* A Text is a non-empty sequence of lines.  The same representation serves *)
(* for the pieces of text that commands kill, copy and yank: the newlines   *)
(* of such a piece are the boundaries between its lines, so <<<< >>>> is    *)
(* the empty string and <<<< >>, << >>>> a single newline.  Rows and        *)
(* columns count from 0, as in the C code.                                  *)
(***************************************************************************)
EXTENDS Utf8

CONSTANTS Space,          \* ' '
          Tab,            \* '\t'
          C_MODE, MAKEFILE_MODE

ASSUME BlankBytes == Space \in SpaceByte /\ Tab \in SpaceByte

Text == Seq(Line) \ {<< >>}

EmptyText == << << >> >>
Newline   == << << >>, << >> >>

(* Concatenation of texts: the last line of s continues as the first of t.   *)
Join(s, t) ==
  SubSeq(s, 1, Len(s) - 1) \o << s[Len(s)] \o t[1] >> \o SubSeq(t, 2, Len(t))

Before(lines, row, col) ==
  SubSeq(lines, 1, row) \o << SubSeq(lines[row + 1], 1, col) >>

After(lines, row, col) ==
  << SubSeq(lines[row + 1], col + 1, Len(lines[row + 1])) >>
    \o SubSeq(lines, row + 2, Len(lines))

InsertText(lines, row, col, text) ==
  Join(Join(Before(lines, row, col), text), After(lines, row, col))

DeleteBetween(lines, row1, col1, row2, col2) ==
  Join(Before(lines, row1, col1), After(lines, row2, col2))

-----------------------------------------------------------------------------

LineAt(lines, row) == IF row < Len(lines) THEN lines[row + 1] ELSE << >>

line_length(lines, row) == Len(LineAt(lines, row))

ClampCol(lines, row, col) ==
  IF col > line_length(lines, row) THEN line_length(lines, row) ELSE col

pos_compare(row_a, col_a, row_b, col_b) ==
  IF row_a < row_b \/ (row_a = row_b /\ col_a < col_b) THEN -1
  ELSE IF row_a = row_b /\ col_a = col_b THEN 0 ELSE 1

buffer_insert_char(lines, row, col, ch) ==
  IF row >= Len(lines) THEN lines
  ELSE InsertText(lines, row, ClampCol(lines, row, col), << <<ch>> >>)

buffer_insert_newline(lines, row, col) ==
  IF row >= Len(lines) THEN lines
  ELSE InsertText(lines, row, ClampCol(lines, row, col), Newline)

buffer_insert_tab(lines, row, col, mode) ==
  IF mode = MAKEFILE_MODE
    THEN buffer_insert_char(lines, row, col, Tab)
    ELSE buffer_insert_char(buffer_insert_char(lines, row, col, Space),
                            row, col + 1, Space)

(* At column 0 the line is joined to the one above; elsewhere the character  *)
(* before col goes.                                                          *)
buffer_delete_char(lines, row, col) ==
  LET c == ClampCol(lines, row, col)
  IN  IF row >= Len(lines) \/ (col = 0 /\ row = 0) THEN lines
      ELSE IF col = 0
        THEN DeleteBetween(lines, row - 1, line_length(lines, row - 1), row, 0)
        ELSE DeleteBetween(lines, row,
                           utf8_prev_boundary(lines[row + 1], c), row, c)

(* Variant: one byte goes, not one character.                                *)
DeleteForwardByte(lines, row, col) ==
  IF col < line_length(lines, row)
    THEN DeleteBetween(lines, row, col, row, col + 1)
    ELSE lines

buffer_delete_forward(lines, row, col) ==
  LET c == ClampCol(lines, row, col)
  IN  IF row >= Len(lines) THEN lines
      ELSE IF c < line_length(lines, row)
        THEN DeleteBetween(lines, row, c,
                           row, utf8_next_boundary(lines[row + 1], c))
      ELSE IF row + 1 < Len(lines)
        THEN DeleteBetween(lines, row, c, row + 1, 0)
      ELSE lines

buffer_delete_range(lines, row, start, end) ==
  LET s == ClampCol(lines, row, start)
      e == ClampCol(lines, row, end)
  IN  IF row >= Len(lines) \/ e <= s THEN lines
      ELSE DeleteBetween(lines, row, s, row, e)

(* Variant: an end on the last line is taken for one past it.                *)
DeleteRegionNotLast(lines, row1, col1, row2, col2) ==
  IF row1 + 1 >= Len(lines) \/ row2 + 1 >= Len(lines) \/ row1 = row2 THEN lines
  ELSE DeleteBetween(lines, row1, ClampCol(lines, row1, col1),
                     row2, ClampCol(lines, row2, col2))

(* Nothing is deleted when either end is past the last line.                 *)
buffer_delete_region(lines, row1, col1, row2, col2) ==
  LET swap == pos_compare(row1, col1, row2, col2) > 0
      sr == IF swap THEN row2 ELSE row1
      sc == IF swap THEN col2 ELSE col1
      er == IF swap THEN row1 ELSE row2
      ec == IF swap THEN col1 ELSE col2
  IN  IF row1 >= Len(lines) \/ row2 >= Len(lines) THEN lines
      ELSE IF sr = er THEN buffer_delete_range(lines, sr, sc, ec)
      ELSE DeleteBetween(lines, sr, ClampCol(lines, sr, sc),
                         er, ClampCol(lines, er, ec))

=============================================================================
