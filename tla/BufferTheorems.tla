--------------------------- MODULE BufferTheorems ---------------------------
(***************************************************************************)
(* Facts about the operators of Buffer, for every text.                     *)
(***************************************************************************)
EXTENDS Buffer, Utf8Theorems

(* The elements of a text are its lines, of which there is at least one.     *)
LEMMA TextLines ==
  ASSUME NEW s \in Text
  PROVE  /\ s \in Seq(Line)
         /\ Len(s) \in Nat \ {0}
         /\ \A i \in 1 .. Len(s) : s[i] \in Line
BY EmptySeq, ElementOfSeq DEF Text

LEMMA TextFromLines ==
  ASSUME NEW s \in Seq(Line), Len(s) > 0
  PROVE  s \in Text
BY DEF Text

(* The first lines and the last lines of a text, and lines put together.     *)
LEMMA FirstLines ==
  ASSUME NEW s \in Text, NEW n \in 0 .. Len(s)
  PROVE  SubSeq(s, 1, n) \in Seq(Line) /\ Len(SubSeq(s, 1, n)) = n
<1>1. \A k \in 1 .. n : s[k] \in Line
  BY TextLines
<1> QED BY <1>1, SubSeqProperties

LEMMA LastLines ==
  ASSUME NEW s \in Text, NEW n \in 0 .. Len(s), NEW m \in Nat, m = n + 1
  PROVE  /\ SubSeq(s, m, Len(s)) \in Seq(Line)
         /\ Len(SubSeq(s, m, Len(s))) = Len(s) - n
<1>1. \A k \in m .. Len(s) : s[k] \in Line
  BY TextLines
<1>2. Len(s) \in Nat
  BY TextLines
<1> QED BY <1>1, <1>2, SubSeqProperties

LEMMA LinesConcat ==
  ASSUME NEW s \in Seq(Line), NEW t \in Seq(Line)
  PROVE  s \o t \in Seq(Line) /\ Len(s \o t) = Len(s) + Len(t)
BY ConcatProperties

LEMMA OneLineText ==
  ASSUME NEW line \in Line
  PROVE  << line >> \in Text /\ Len(<< line >>) = 1
BY DEF Text

(* Joining two texts removes one boundary between lines.                     *)
LEMMA JoinType ==
  ASSUME NEW s \in Text, NEW t \in Text
  PROVE  /\ Join(s, t) \in Text
         /\ Len(Join(s, t)) = Len(s) + Len(t) - 1
<1> /\ s \in Seq(Line) /\ Len(s) \in Nat \ {0}
    /\ t \in Seq(Line) /\ Len(t) \in Nat \ {0}
    /\ \A i \in 1 .. Len(s) : s[i] \in Line
    /\ \A i \in 1 .. Len(t) : t[i] \in Line
  BY TextLines
<1> DEFINE pre  == SubSeq(s, 1, Len(s) - 1)
           mid  == << s[Len(s)] \o t[1] >>
           post == SubSeq(t, 2, Len(t))
<1>1. pre \in Seq(Line) /\ Len(pre) = Len(s) - 1
  <2> DEFINE n == Len(s) - 1
  <2>1. n \in 0 .. Len(s)
    OBVIOUS
  <2> HIDE DEF n
  <2>2. SubSeq(s, 1, n) \in Seq(Line) /\ Len(SubSeq(s, 1, n)) = n
    BY <2>1, FirstLines
  <2> QED BY <2>2 DEF n
<1>2. mid \in Seq(Line) /\ Len(mid) = 1
  BY LineConcat
<1>3. post \in Seq(Line) /\ Len(post) = Len(t) - 1
  <2>1. 1 \in 0 .. Len(t) /\ 2 \in Nat /\ 2 = 1 + 1
    OBVIOUS
  <2> QED BY <2>1, LastLines
<1>4. Join(s, t) = (pre \o mid) \o post
  BY DEF Join
<1> HIDE DEF pre, mid, post
<1>5. pre \o mid \in Seq(Line) /\ Len(pre \o mid) = Len(pre) + Len(mid)
  BY <1>1, <1>2, LinesConcat
<1>6. /\ Join(s, t) \in Seq(Line)
      /\ Len(Join(s, t)) = Len(pre \o mid) + Len(post)
  BY <1>3, <1>4, <1>5, LinesConcat
<1>7. Len(Join(s, t)) = Len(s) + Len(t) - 1
  BY <1>1, <1>2, <1>3, <1>5, <1>6
<1>8. Join(s, t) \in Text
  <2> DEFINE joined == Join(s, t)
  <2>1. joined \in Seq(Line) /\ Len(joined) > 0
    BY <1>6, <1>7
  <2> HIDE DEF joined
  <2>2. joined \in Text
    BY <2>1, TextFromLines
  <2> QED BY <2>2 DEF joined
<1> QED BY <1>7, <1>8

(* What precedes and what follows a position are texts.                      *)
LEMMA BeforeType ==
  ASSUME NEW lines \in Text, NEW row \in 0 .. (Len(lines) - 1),
         NEW col \in 0 .. Len(lines[row + 1])
  PROVE  /\ Before(lines, row, col) \in Text
         /\ Len(Before(lines, row, col)) = row + 1
<1> /\ lines \in Seq(Line) /\ Len(lines) \in Nat \ {0}
    /\ \A i \in 1 .. Len(lines) : lines[i] \in Line
  BY TextLines
<1> DEFINE above == SubSeq(lines, 1, row)
           part  == << SubSeq(lines[row + 1], 1, col) >>
<1>1. above \in Seq(Line) /\ Len(above) = row
  BY FirstLines
<1>2. part \in Seq(Line) /\ Len(part) = 1
  <2>1. lines[row + 1] \in Line
    OBVIOUS
  <2>2. SubSeq(lines[row + 1], 1, col) \in Line
    BY <2>1, LinePart
  <2> QED BY <2>2
<1>3. Before(lines, row, col) = above \o part
  BY DEF Before
<1> HIDE DEF above, part
<1>4. /\ Before(lines, row, col) \in Seq(Line)
      /\ Len(Before(lines, row, col)) = row + 1
  BY <1>1, <1>2, <1>3, LinesConcat
<1> QED BY <1>4, TextFromLines

LEMMA AfterType ==
  ASSUME NEW lines \in Text, NEW row \in 0 .. (Len(lines) - 1),
         NEW col \in 0 .. Len(lines[row + 1])
  PROVE  /\ After(lines, row, col) \in Text
         /\ Len(After(lines, row, col)) = Len(lines) - row
<1> /\ lines \in Seq(Line) /\ Len(lines) \in Nat \ {0}
    /\ \A i \in 1 .. Len(lines) : lines[i] \in Line
  BY TextLines
<1> DEFINE part  == << SubSeq(lines[row + 1], col + 1, Len(lines[row + 1])) >>
           below == SubSeq(lines, row + 2, Len(lines))
<1>1. below \in Seq(Line) /\ Len(below) = Len(lines) - (row + 1)
  BY LastLines
<1>2. part \in Seq(Line) /\ Len(part) = 1
  <2>1. lines[row + 1] \in Line /\ Len(lines[row + 1]) \in Nat
    BY DEF Line
  <2>2. SubSeq(lines[row + 1], col + 1, Len(lines[row + 1])) \in Line
    BY <2>1, LinePart
  <2> QED BY <2>2
<1>3. After(lines, row, col) = part \o below
  BY DEF After
<1> HIDE DEF part, below
<1>4. /\ After(lines, row, col) \in Seq(Line)
      /\ Len(After(lines, row, col)) = Len(part) + Len(below)
  BY <1>1, <1>2, <1>3, LinesConcat
<1>5. Len(After(lines, row, col)) = Len(lines) - row
  BY <1>1, <1>2, <1>4
<1> QED BY <1>4, <1>5, TextFromLines

(* Inserting a text adds its line boundaries; deleting what lies between two *)
(* positions removes the boundaries between them.                            *)
LEMMA InsertTextType ==
  ASSUME NEW lines \in Text, NEW row \in 0 .. (Len(lines) - 1),
         NEW col \in 0 .. Len(lines[row + 1]), NEW text \in Text
  PROVE  /\ InsertText(lines, row, col, text) \in Text
         /\ Len(InsertText(lines, row, col, text)) = Len(lines) + Len(text) - 1
<1> DEFINE head == Before(lines, row, col)
           tail == After(lines, row, col)
<1>1. head \in Text /\ Len(head) = row + 1
  BY BeforeType
<1>2. tail \in Text /\ Len(tail) = Len(lines) - row
  BY AfterType
<1>3. Len(lines) \in Nat /\ Len(text) \in Nat
  BY TextLines
<1>4. InsertText(lines, row, col, text) = Join(Join(head, text), tail)
  BY DEF InsertText
<1> HIDE DEF head, tail
<1>5. /\ Join(head, text) \in Text
      /\ Len(Join(head, text)) = Len(head) + Len(text) - 1
  BY <1>1, JoinType
<1>6. /\ InsertText(lines, row, col, text) \in Text
      /\ Len(InsertText(lines, row, col, text))
           = Len(Join(head, text)) + Len(tail) - 1
  BY <1>2, <1>4, <1>5, JoinType
<1> QED BY <1>1, <1>2, <1>3, <1>5, <1>6

LEMMA DeleteBetweenType ==
  ASSUME NEW lines \in Text,
         NEW row1 \in 0 .. (Len(lines) - 1), NEW col1 \in 0 .. Len(lines[row1 + 1]),
         NEW row2 \in 0 .. (Len(lines) - 1), NEW col2 \in 0 .. Len(lines[row2 + 1])
  PROVE  /\ DeleteBetween(lines, row1, col1, row2, col2) \in Text
         /\ Len(DeleteBetween(lines, row1, col1, row2, col2))
              = Len(lines) - (row2 - row1)
<1>1. /\ Before(lines, row1, col1) \in Text
      /\ Len(Before(lines, row1, col1)) = row1 + 1
  BY BeforeType
<1>2. /\ After(lines, row2, col2) \in Text
      /\ Len(After(lines, row2, col2)) = Len(lines) - row2
  BY AfterType
<1>3. Len(lines) \in Nat
  BY TextLines
<1> QED BY <1>1, <1>2, <1>3, JoinType DEF DeleteBetween

(* Small texts.                                                              *)
LEMMA SmallTexts ==
  /\ Newline \in Text /\ Len(Newline) = 2
  /\ \A ch \in Byte : << <<ch>> >> \in Text /\ Len(<< <<ch>> >>) = 1
<1>1. << >> \in Line /\ \A ch \in Byte : <<ch>> \in Line
  BY DEF Line
<1> QED BY <1>1 DEF Newline, Text

(* The line at a row, absent rows being empty, and a clamped column.         *)
LEMMA LineAtType ==
  ASSUME NEW lines \in Text, NEW row \in Nat
  PROVE  /\ LineAt(lines, row) \in Line
         /\ line_length(lines, row) \in Nat
         /\ row < Len(lines) => LineAt(lines, row) = lines[row + 1]
         /\ \A col \in Nat : ClampCol(lines, row, col) \in 0 .. line_length(lines, row)
<1>1. LineAt(lines, row) \in Line
  BY TextLines DEF LineAt, Line
<1>2. line_length(lines, row) \in Nat
  BY <1>1 DEF line_length, Line
<1> QED BY <1>1, <1>2 DEF LineAt, ClampCol

LEMMA RowType ==
  ASSUME NEW lines \in Text, NEW row \in 0 .. (Len(lines) - 1)
  PROVE  /\ Len(lines) \in Nat /\ row \in Nat /\ row < Len(lines)
         /\ lines[row + 1] \in Line
         /\ Len(lines[row + 1]) \in Nat
         /\ line_length(lines, row) = Len(lines[row + 1])
         /\ \A col \in Nat : ClampCol(lines, row, col) \in 0 .. Len(lines[row + 1])
<1>1. Len(lines) \in Nat
  BY TextLines
<1>2. row \in Nat /\ row < Len(lines)
  BY <1>1
<1>3. LineAt(lines, row) = lines[row + 1] /\ lines[row + 1] \in Line
  BY <1>2, LineAtType
<1>4. line_length(lines, row) = Len(lines[row + 1])
  BY <1>3 DEF line_length
<1> QED BY <1>1, <1>2, <1>3, <1>4, LineAtType

-----------------------------------------------------------------------------
(* The operations of the buffer, on a row that exists.                       *)

LEMMA InsertCharType ==
  ASSUME NEW lines \in Text, NEW row \in 0 .. (Len(lines) - 1), NEW col \in Nat,
         NEW ch \in Byte
  PROVE  /\ buffer_insert_char(lines, row, col, ch) \in Text
         /\ Len(buffer_insert_char(lines, row, col, ch)) = Len(lines)
<1> DEFINE c    == ClampCol(lines, row, col)
           text == << <<ch>> >>
<1>1. c \in 0 .. Len(lines[row + 1]) /\ Len(lines) \in Nat
  BY RowType
<1>2. text \in Text /\ Len(text) = 1
  BY SmallTexts
<1>3. buffer_insert_char(lines, row, col, ch) = InsertText(lines, row, c, text)
  BY RowType DEF buffer_insert_char
<1> HIDE DEF c, text
<1>4. /\ InsertText(lines, row, c, text) \in Text
      /\ Len(InsertText(lines, row, c, text)) = Len(lines) + Len(text) - 1
  BY <1>1, <1>2, InsertTextType
<1> QED BY <1>1, <1>2, <1>3, <1>4

LEMMA InsertNewlineType ==
  ASSUME NEW lines \in Text, NEW row \in 0 .. (Len(lines) - 1), NEW col \in Nat
  PROVE  /\ buffer_insert_newline(lines, row, col) \in Text
         /\ Len(buffer_insert_newline(lines, row, col)) = Len(lines) + 1
<1> DEFINE c == ClampCol(lines, row, col)
<1>1. c \in 0 .. Len(lines[row + 1]) /\ Len(lines) \in Nat
  BY RowType
<1>2. buffer_insert_newline(lines, row, col) = InsertText(lines, row, c, Newline)
  BY RowType DEF buffer_insert_newline
<1> HIDE DEF c
<1>3. Newline \in Text /\ Len(Newline) = 2
  BY SmallTexts
<1>4. /\ InsertText(lines, row, c, Newline) \in Text
      /\ Len(InsertText(lines, row, c, Newline)) = Len(lines) + Len(Newline) - 1
  BY <1>1, <1>3, InsertTextType
<1> QED BY <1>1, <1>2, <1>3, <1>4

LEMMA InsertTabType ==
  ASSUME NEW lines \in Text, NEW row \in 0 .. (Len(lines) - 1), NEW col \in Nat,
         NEW mode
  PROVE  /\ buffer_insert_tab(lines, row, col, mode) \in Text
         /\ Len(buffer_insert_tab(lines, row, col, mode)) = Len(lines)
<1>1. Space \in Byte /\ Tab \in Byte
  BY ByteClasses, BlankBytes
<1>2. CASE mode = MAKEFILE_MODE
  BY <1>1, <1>2, InsertCharType DEF buffer_insert_tab
<1>3. CASE mode # MAKEFILE_MODE
  <2> DEFINE one == buffer_insert_char(lines, row, col, Space)
  <2>1. one \in Text /\ Len(one) = Len(lines)
    BY <1>1, InsertCharType
  <2>2. buffer_insert_tab(lines, row, col, mode)
          = buffer_insert_char(one, row, col + 1, Space)
    BY <1>3 DEF buffer_insert_tab
  <2> HIDE DEF one
  <2>3. row \in 0 .. (Len(one) - 1) /\ col + 1 \in Nat
    BY <2>1
  <2> QED BY <1>1, <2>1, <2>2, <2>3, InsertCharType
<1> QED BY <1>2, <1>3

LEMMA DeleteCharType ==
  ASSUME NEW lines \in Text, NEW row \in 0 .. (Len(lines) - 1), NEW col \in Nat
  PROVE  /\ buffer_delete_char(lines, row, col) \in Text
         /\ Len(buffer_delete_char(lines, row, col))
              = IF col = 0 /\ row > 0 THEN Len(lines) - 1 ELSE Len(lines)
<1> DEFINE c == ClampCol(lines, row, col)
           p == utf8_prev_boundary(lines[row + 1], c)
<1>1. c \in 0 .. Len(lines[row + 1]) /\ Len(lines) \in Nat /\ row < Len(lines)
  BY RowType
<1>2. CASE col = 0 /\ row = 0
  BY <1>2 DEF buffer_delete_char
<1>3. CASE col = 0 /\ row > 0
  <2> DEFINE up == row - 1
             end == line_length(lines, up)
  <2>1. up \in 0 .. (Len(lines) - 1)
    BY <1>1, <1>3
  <2>2. end = Len(lines[up + 1]) /\ end \in Nat
    <3> HIDE DEF up
    <3> QED BY <2>1, RowType
  <2>3. 0 \in 0 .. Len(lines[row + 1])
    BY RowType
  <2>4. buffer_delete_char(lines, row, col) = DeleteBetween(lines, up, end, row, 0)
    BY <1>1, <1>3 DEF buffer_delete_char
  <2>5. row - up = 1
    OBVIOUS
  <2> HIDE DEF up, end
  <2>6. end \in 0 .. Len(lines[up + 1])
    BY <2>2
  <2>7. /\ DeleteBetween(lines, up, end, row, 0) \in Text
        /\ Len(DeleteBetween(lines, up, end, row, 0)) = Len(lines) - (row - up)
    BY <2>1, <2>3, <2>6, DeleteBetweenType
  <2> QED BY <1>1, <1>3, <2>4, <2>5, <2>7
<1>4. CASE col # 0
  <2>1. p \in 0 .. c
    BY <1>1, PrevBoundaryLeft
  <2>2. p \in 0 .. Len(lines[row + 1])
    <3> HIDE DEF c, p
    <3>1. Len(lines[row + 1]) \in Nat
      BY RowType
    <3> QED BY <1>1, <2>1, <3>1
  <2>3. buffer_delete_char(lines, row, col) = DeleteBetween(lines, row, p, row, c)
    BY <1>1, <1>4 DEF buffer_delete_char
  <2> HIDE DEF p, c
  <2> QED BY <1>1, <1>4, <2>2, <2>3, DeleteBetweenType
<1> QED BY <1>2, <1>3, <1>4

LEMMA DeleteForwardType ==
  ASSUME NEW lines \in Text, NEW row \in 0 .. (Len(lines) - 1), NEW col \in Nat
  PROVE  /\ buffer_delete_forward(lines, row, col) \in Text
         /\ Len(buffer_delete_forward(lines, row, col)) \in
              {Len(lines), Len(lines) - 1}
         /\ row < Len(buffer_delete_forward(lines, row, col))
<1> DEFINE c == ClampCol(lines, row, col)
           n == utf8_next_boundary(lines[row + 1], c)
<1>0. /\ lines[row + 1] \in Line /\ Len(lines[row + 1]) \in Nat
      /\ Len(lines) \in Nat /\ row < Len(lines)
      /\ \A k \in Nat : ClampCol(lines, row, k) \in 0 .. Len(lines[row + 1])
  BY RowType
<1>1. c \in 0 .. Len(lines[row + 1]) /\ Len(lines) \in Nat /\ row < Len(lines)
  BY <1>0
<1>2. CASE c < line_length(lines, row)
  <2>1. n \in 0 .. Len(lines[row + 1])
    <3> HIDE DEF c
    <3>1. c \in Nat
      BY <1>0, <1>1
    <3> QED BY <1>0, <3>1, NextBoundaryInLine
  <2>2. buffer_delete_forward(lines, row, col) = DeleteBetween(lines, row, c, row, n)
    BY <1>2 DEF buffer_delete_forward
  <2> HIDE DEF c, n
  <2> QED BY <1>1, <2>1, <2>2, DeleteBetweenType
<1>3. CASE ~(c < line_length(lines, row)) /\ row + 1 < Len(lines)
  <2> DEFINE down == row + 1
  <2>1. down \in 0 .. (Len(lines) - 1) /\ down - row = 1
    BY <1>3
  <2>2. buffer_delete_forward(lines, row, col) = DeleteBetween(lines, row, c, down, 0)
    BY <1>1, <1>3 DEF buffer_delete_forward
  <2> HIDE DEF c, down
  <2>3. 0 \in 0 .. Len(lines[down + 1])
    <3>1. Len(lines[down + 1]) \in Nat
      BY <2>1, RowType
    <3> QED BY <3>1
  <2> DEFINE after == DeleteBetween(lines, row, c, down, 0)
  <2>4. after \in Text /\ Len(after) = Len(lines) - (down - row)
    BY <1>1, <2>1, <2>3, DeleteBetweenType
  <2> HIDE DEF after
  <2>5. Len(after) = Len(lines) - 1 /\ row < Len(after)
    BY <1>1, <1>3, <2>1, <2>4
  <2> QED BY <2>2, <2>4, <2>5 DEF after
<1>4. CASE ~(c < line_length(lines, row)) /\ ~(row + 1 < Len(lines))
  BY <1>1, <1>4 DEF buffer_delete_forward
<1> QED BY <1>2, <1>3, <1>4

LEMMA DeleteRangeType ==
  ASSUME NEW lines \in Text, NEW row \in 0 .. (Len(lines) - 1),
         NEW start \in Nat, NEW end \in Nat
  PROVE  /\ buffer_delete_range(lines, row, start, end) \in Text
         /\ Len(buffer_delete_range(lines, row, start, end)) = Len(lines)
<1> DEFINE s == ClampCol(lines, row, start)
           e == ClampCol(lines, row, end)
<1>1. /\ s \in 0 .. Len(lines[row + 1])
      /\ e \in 0 .. Len(lines[row + 1])
      /\ Len(lines) \in Nat
  BY RowType
<1>2. \/ buffer_delete_range(lines, row, start, end) = lines
      \/ buffer_delete_range(lines, row, start, end)
           = DeleteBetween(lines, row, s, row, e)
  BY DEF buffer_delete_range
<1> HIDE DEF s, e
<1> DEFINE after == DeleteBetween(lines, row, s, row, e)
<1>3. after \in Text /\ Len(after) = Len(lines) - (row - row)
  BY <1>1, DeleteBetweenType
<1> HIDE DEF after
<1>4. Len(lines) \in Nat /\ Len(lines) - (row - row) = Len(lines)
  BY RowType
<1> QED BY <1>2, <1>3, <1>4 DEF after

(* A region given by its first and its last position.                        *)
LEMMA DeleteRegionType ==
  ASSUME NEW lines \in Text,
         NEW row1 \in Nat, NEW col1 \in Nat, NEW row2 \in Nat, NEW col2 \in Nat,
         pos_compare(row1, col1, row2, col2) <= 0
  PROVE  /\ row1 <= row2
         /\ buffer_delete_region(lines, row1, col1, row2, col2) \in Text
         /\ row2 < Len(lines) =>
              Len(buffer_delete_region(lines, row1, col1, row2, col2))
                = Len(lines) - (row2 - row1)
         /\ row2 >= Len(lines) =>
              buffer_delete_region(lines, row1, col1, row2, col2) = lines
<1> DEFINE new == buffer_delete_region(lines, row1, col1, row2, col2)
           c1 == ClampCol(lines, row1, col1)
           c2 == ClampCol(lines, row2, col2)
<1>1. row1 <= row2
  BY DEF pos_compare
<1>0. (pos_compare(row1, col1, row2, col2) > 0) = FALSE
  BY DEF pos_compare
<1>2. Len(lines) \in Nat
  BY TextLines
<1>3. CASE row2 >= Len(lines)
  BY <1>1, <1>3 DEF buffer_delete_region
<1>4. CASE row2 < Len(lines) /\ row1 = row2
  <2>1. new = buffer_delete_range(lines, row1, col1, col2)
    BY <1>0, <1>2, <1>4 DEF buffer_delete_region
  <2>2. row1 \in 0 .. (Len(lines) - 1)
    BY <1>2, <1>4
  <2>3. new \in Text /\ Len(new) = Len(lines)
    BY <2>1, <2>2, DeleteRangeType
  <2> QED BY <1>1, <1>2, <1>4, <2>3
<1>5. CASE row2 < Len(lines) /\ row1 < row2
  <2>1. new = DeleteBetween(lines, row1, c1, row2, c2)
    BY <1>0, <1>2, <1>5 DEF buffer_delete_region
  <2>2. row1 \in 0 .. (Len(lines) - 1) /\ row2 \in 0 .. (Len(lines) - 1)
    BY <1>2, <1>5
  <2>3. c1 \in 0 .. Len(lines[row1 + 1]) /\ c2 \in 0 .. Len(lines[row2 + 1])
    BY <2>2, RowType
  <2> HIDE DEF c1, c2
  <2>4. new \in Text /\ Len(new) = Len(lines) - (row2 - row1)
    BY <2>1, <2>2, <2>3, DeleteBetweenType
  <2> QED BY <1>1, <1>2, <1>5, <2>4
<1> QED BY <1>1, <1>2, <1>3, <1>4, <1>5

-----------------------------------------------------------------------------
(* The lines of a text cut at a position, and of two texts joined: Join,     *)
(* Before and After as an algebra, from which follows what an insertion or a *)
(* deletion leaves on either side of it.                                     *)

LEMMA LinesConcatElements ==
  ASSUME NEW s \in Seq(Line), NEW t \in Seq(Line)
  PROVE  /\ s \o t \in Seq(Line) /\ Len(s \o t) = Len(s) + Len(t)
         /\ \A i \in 1 .. Len(s) : (s \o t)[i] = s[i]
         /\ \A i \in 1 .. Len(t) : (s \o t)[Len(s) + i] = t[i]
BY ConcatProperties

LEMMA FirstLinesElements ==
  ASSUME NEW s \in Text, NEW n \in 0 .. Len(s)
  PROVE  \A k \in 1 .. n : SubSeq(s, 1, n)[k] = s[k]
<1>1. \A k \in 1 .. n : s[k] \in Line
  BY TextLines
<1>2. n \in Int /\ \A k \in 1 .. (n - 1 + 1) : k \in 1 .. n /\ 1 + k - 1 = k
  BY TextLines
<1>3. \A k \in 1 .. (n - 1 + 1) : SubSeq(s, 1, n)[k] = s[1 + k - 1]
  BY <1>1, <1>2, SubSeqProperties
<1> QED BY <1>2, <1>3

LEMMA LastLinesElements ==
  ASSUME NEW s \in Text, NEW n \in 0 .. Len(s), NEW m \in Nat, m = n + 1
  PROVE  \A k \in 1 .. (Len(s) - n) : SubSeq(s, m, Len(s))[k] = s[n + k]
<1> Len(s) \in Nat
  BY TextLines
<1>1. \A k \in m .. Len(s) : s[k] \in Line
  BY TextLines
<1>2. \A k \in 1 .. (Len(s) - m + 1) : SubSeq(s, m, Len(s))[k] = s[m + k - 1]
  BY <1>1, SubSeqProperties
<1>3. Len(s) - m + 1 = Len(s) - n /\ \A k \in 1 .. (Len(s) - n) : m + k - 1 = n + k
  OBVIOUS
<1> QED BY <1>2, <1>3

(* The lines of a joined text.                                               *)
LEMMA JoinLines ==
  ASSUME NEW s \in Text, NEW t \in Text
  PROVE  /\ \A i \in 1 .. (Len(s) - 1) : Join(s, t)[i] = s[i]
         /\ Join(s, t)[Len(s)] = s[Len(s)] \o t[1]
         /\ \A i \in 2 .. Len(t) : Join(s, t)[Len(s) + i - 1] = t[i]
<1> /\ s \in Seq(Line) /\ Len(s) \in Nat \ {0}
    /\ t \in Seq(Line) /\ Len(t) \in Nat \ {0}
    /\ \A i \in 1 .. Len(s) : s[i] \in Line
    /\ \A i \in 1 .. Len(t) : t[i] \in Line
  BY TextLines
<1> DEFINE n    == Len(s) - 1
           pre  == SubSeq(s, 1, n)
           line == s[Len(s)] \o t[1]
           mid  == << line >>
           post == SubSeq(t, 2, Len(t))
<1>0. n \in 0 .. Len(s) /\ Len(s) = n + 1
  OBVIOUS
<1>1. /\ pre \in Seq(Line) /\ Len(pre) = n
      /\ \A k \in 1 .. n : pre[k] = s[k]
  <2> HIDE DEF n
  <2> QED BY <1>0, FirstLines, FirstLinesElements
<1>2. mid \in Seq(Line) /\ Len(mid) = 1 /\ mid[1] = line
  <2>1. line \in Line
    BY LineConcat
  <2> HIDE DEF line
  <2> QED BY <2>1
<1>3. /\ post \in Seq(Line) /\ Len(post) = Len(t) - 1
      /\ \A k \in 1 .. (Len(t) - 1) : post[k] = t[1 + k]
  <2>1. 1 \in 0 .. Len(t) /\ 2 \in Nat /\ 2 = 1 + 1
    OBVIOUS
  <2> QED BY <2>1, LastLines, LastLinesElements
<1>4. Join(s, t) = (pre \o mid) \o post
  BY DEF Join
<1> HIDE DEF n, pre, mid, post, line
<1> DEFINE two == pre \o mid
<1>5. /\ two \in Seq(Line) /\ Len(two) = Len(pre) + Len(mid)
      /\ \A i \in 1 .. Len(pre) : two[i] = pre[i]
      /\ \A i \in 1 .. Len(mid) : two[Len(pre) + i] = mid[i]
  BY <1>1, <1>2, LinesConcatElements
<1>6. Len(two) = Len(s) /\ two[Len(s)] = line /\ \A i \in 1 .. n : two[i] = s[i]
  <2>1. 1 \in 1 .. Len(mid) /\ Len(pre) + 1 = Len(s)
    BY <1>0, <1>1, <1>2
  <2>2. two[Len(s)] = mid[1]
    BY <1>5, <2>1
  <2> QED BY <1>0, <1>1, <1>2, <1>5, <2>2
<1> HIDE DEF two
<1>7. /\ \A i \in 1 .. Len(two) : (two \o post)[i] = two[i]
      /\ \A i \in 1 .. Len(post) : (two \o post)[Len(two) + i] = post[i]
  BY <1>3, <1>5, LinesConcatElements
<1>8. \A i \in 1 .. (Len(s) - 1) : Join(s, t)[i] = s[i]
  <2>1. \A i \in 1 .. (Len(s) - 1) : i \in 1 .. n /\ i \in 1 .. Len(two)
    BY <1>0, <1>6
  <2> QED BY <1>4, <1>6, <1>7, <2>1 DEF two
<1>9. Join(s, t)[Len(s)] = line
  BY <1>4, <1>6, <1>7 DEF two
<1>10. ASSUME NEW i \in 2 .. Len(t) PROVE Join(s, t)[Len(s) + i - 1] = t[i]
  <2>1. i - 1 \in 1 .. Len(post) /\ Len(two) + (i - 1) = Len(s) + i - 1
        /\ 1 + (i - 1) = i
    BY <1>3, <1>6
  <2>2. (two \o post)[Len(two) + (i - 1)] = post[i - 1]
    BY <1>7, <2>1
  <2>3. post[i - 1] = t[1 + (i - 1)]
    BY <1>3, <2>1
  <2> QED BY <1>4, <2>1, <2>2, <2>3 DEF two
<1> QED BY <1>8, <1>9, <1>10 DEF line

LEMMA BeforeLines ==
  ASSUME NEW lines \in Text, NEW row \in 0 .. (Len(lines) - 1),
         NEW col \in 0 .. Len(lines[row + 1])
  PROVE  /\ \A i \in 1 .. row : Before(lines, row, col)[i] = lines[i]
         /\ Before(lines, row, col)[row + 1] = SubSeq(lines[row + 1], 1, col)
<1> /\ lines \in Seq(Line) /\ Len(lines) \in Nat \ {0}
    /\ \A i \in 1 .. Len(lines) : lines[i] \in Line
  BY TextLines
<1> DEFINE above == SubSeq(lines, 1, row)
           line  == SubSeq(lines[row + 1], 1, col)
           part  == << line >>
<1>1. above \in Seq(Line) /\ Len(above) = row /\ \A k \in 1 .. row : above[k] = lines[k]
  BY FirstLines, FirstLinesElements
<1>2. part \in Seq(Line) /\ Len(part) = 1 /\ part[1] = line
  <2>1. lines[row + 1] \in Line
    OBVIOUS
  <2>2. line \in Line
    BY <2>1, LinePart
  <2> QED BY <2>2
<1>3. Before(lines, row, col) = above \o part
  BY DEF Before
<1> HIDE DEF above, part, line
<1>4. /\ \A i \in 1 .. Len(above) : (above \o part)[i] = above[i]
      /\ \A i \in 1 .. Len(part) : (above \o part)[Len(above) + i] = part[i]
  BY <1>1, <1>2, LinesConcatElements
<1>5. 1 \in 1 .. Len(part)
  BY <1>2
<1>6. (above \o part)[row + 1] = part[1]
  BY <1>1, <1>4, <1>5
<1> QED BY <1>1, <1>2, <1>3, <1>4, <1>6 DEF line

LEMMA AfterLines ==
  ASSUME NEW lines \in Text, NEW row \in 0 .. (Len(lines) - 1),
         NEW col \in 0 .. Len(lines[row + 1])
  PROVE  /\ After(lines, row, col)[1]
              = SubSeq(lines[row + 1], col + 1, Len(lines[row + 1]))
         /\ \A i \in 2 .. (Len(lines) - row) :
              After(lines, row, col)[i] = lines[row + i]
<1> /\ lines \in Seq(Line) /\ Len(lines) \in Nat \ {0}
    /\ \A i \in 1 .. Len(lines) : lines[i] \in Line
  BY TextLines
<1> DEFINE line  == SubSeq(lines[row + 1], col + 1, Len(lines[row + 1]))
           part  == << line >>
           below == SubSeq(lines, row + 2, Len(lines))
<1>1. /\ below \in Seq(Line)
      /\ \A k \in 1 .. (Len(lines) - (row + 1)) : below[k] = lines[(row + 1) + k]
      /\ Len(below) = Len(lines) - (row + 1)
  BY LastLines, LastLinesElements
<1>2. part \in Seq(Line) /\ Len(part) = 1 /\ part[1] = line
  <2>1. lines[row + 1] \in Line /\ Len(lines[row + 1]) \in Nat
    BY DEF Line
  <2>2. line \in Line
    BY <2>1, LinePart
  <2> QED BY <2>2
<1>3. After(lines, row, col) = part \o below
  BY DEF After
<1> HIDE DEF part, below, line
<1>4. /\ \A i \in 1 .. Len(part) : (part \o below)[i] = part[i]
      /\ \A i \in 1 .. Len(below) : (part \o below)[Len(part) + i] = below[i]
  BY <1>1, <1>2, LinesConcatElements
<1>5. (part \o below)[1] = line
  <2>1. 1 \in 1 .. Len(part)
    BY <1>2
  <2> QED BY <1>2, <1>4, <2>1
<1>6. ASSUME NEW i \in 2 .. (Len(lines) - row)
      PROVE  (part \o below)[i] = lines[row + i]
  <2>1. /\ i - 1 \in 1 .. Len(below) /\ Len(part) + (i - 1) = i
        /\ i - 1 \in 1 .. (Len(lines) - (row + 1))
        /\ (row + 1) + (i - 1) = row + i
    BY <1>1, <1>2
  <2>2. (part \o below)[Len(part) + (i - 1)] = below[i - 1]
    BY <1>4, <2>1
  <2>3. below[i - 1] = lines[(row + 1) + (i - 1)]
    BY <1>1, <2>1
  <2> QED BY <2>1, <2>2, <2>3
<1> QED BY <1>3, <1>5, <1>6 DEF line

LEMMA TextEqual ==
  ASSUME NEW s \in Text, NEW t \in Text, Len(s) = Len(t),
         \A i \in 1 .. Len(s) : s[i] = t[i]
  PROVE  s = t
BY SeqEqual DEF Text

(* A position of a text: a row of it and a column of that row's line.        *)
Position(lines, row, col) ==
  row \in 0 .. (Len(lines) - 1) /\ col \in 0 .. Len(lines[row + 1])

(* The last position of a text.                                              *)
EndRow(s) == Len(s) - 1
EndCol(s) == Len(s[Len(s)])

LEMMA EndType ==
  ASSUME NEW s \in Text
  PROVE  /\ EndRow(s) \in Nat /\ EndRow(s) + 1 = Len(s)
         /\ EndCol(s) \in Nat
         /\ Position(s, EndRow(s), EndCol(s))
<1>1. Len(s) \in Nat \ {0} /\ s[Len(s)] \in Line
  BY TextLines
<1>2. Len(s[Len(s)]) \in Nat
  BY <1>1 DEF Line
<1>3. (Len(s) - 1) + 1 = Len(s)
  BY <1>1
<1> QED BY <1>1, <1>2, <1>3 DEF EndRow, EndCol, Position

(* Cutting a text at a position and joining the parts gives the text.        *)
LEMMA TextCut ==
  ASSUME NEW lines \in Text, NEW row, NEW col, Position(lines, row, col)
  PROVE  Join(Before(lines, row, col), After(lines, row, col)) = lines
<1> /\ lines \in Seq(Line) /\ Len(lines) \in Nat \ {0}
    /\ \A i \in 1 .. Len(lines) : lines[i] \in Line
  BY TextLines
<1>0. row \in 0 .. (Len(lines) - 1) /\ col \in 0 .. Len(lines[row + 1])
  BY DEF Position
<1> DEFINE b == Before(lines, row, col)
           a == After(lines, row, col)
           line == lines[row + 1]
<1>1. b \in Text /\ Len(b) = row + 1
  BY <1>0, BeforeType
<1>2. /\ \A i \in 1 .. row : b[i] = lines[i]
      /\ b[row + 1] = SubSeq(line, 1, col)
  BY <1>0, BeforeLines
<1>3. a \in Text /\ Len(a) = Len(lines) - row
  BY <1>0, AfterType
<1>4. /\ a[1] = SubSeq(line, col + 1, Len(line))
      /\ \A i \in 2 .. (Len(lines) - row) : a[i] = lines[row + i]
  BY <1>0, AfterLines
<1>5. line \in Line /\ col \in 0 .. Len(line)
  BY <1>0
<1> HIDE DEF a, b
<1>6. b[row + 1] \o a[1] = line
  <2> HIDE DEF line
  <2>1. SubSeq(line, 1, col) \o SubSeq(line, col + 1, Len(line)) = line
    BY <1>5, LineCut
  <2> QED BY <1>2, <1>4, <2>1
<1> DEFINE j == Join(b, a)
<1>7. j \in Text /\ Len(j) = Len(b) + Len(a) - 1
  BY <1>1, <1>3, JoinType
<1>8. /\ \A i \in 1 .. (Len(b) - 1) : j[i] = b[i]
      /\ j[Len(b)] = b[Len(b)] \o a[1]
      /\ \A i \in 2 .. Len(a) : j[Len(b) + i - 1] = a[i]
  BY <1>1, <1>3, JoinLines
<1> HIDE DEF j
<1>9. Len(j) = Len(lines)
  BY <1>0, <1>1, <1>3, <1>7
<1>10. ASSUME NEW i \in 1 .. Len(lines) PROVE j[i] = lines[i]
  <2>1. CASE i \in 1 .. row
    BY <1>0, <1>1, <1>2, <1>8, <2>1
  <2>2. CASE i = row + 1
    BY <1>1, <1>6, <1>8, <2>2
  <2>3. CASE i > row + 1
    <3> DEFINE k == i - row
    <3>1. k \in 2 .. Len(a) /\ Len(b) + k - 1 = i /\ row + k = i
          /\ k \in 2 .. (Len(lines) - row)
      BY <1>0, <1>1, <1>3, <2>3
    <3> HIDE DEF k
    <3>2. j[Len(b) + k - 1] = a[k] /\ a[k] = lines[row + k]
      BY <1>4, <1>8, <3>1
    <3> QED BY <3>1, <3>2
  <2>4. i \in 1 .. row \/ i = row + 1 \/ i > row + 1
    BY <1>0
  <2> QED BY <2>1, <2>2, <2>3, <2>4
<1>11. j = lines
  BY <1>7, <1>9, <1>10, TextEqual
<1> QED BY <1>11 DEF j, a, b

(* In a joined text, the end of the first part is a position that separates  *)
(* the parts.                                                                *)
LEMMA SeamPosition ==
  ASSUME NEW s \in Text, NEW t \in Text
  PROVE  /\ Position(Join(s, t), EndRow(s), EndCol(s))
         /\ Join(s, t)[EndRow(s) + 1] = s[Len(s)] \o t[1]
<1>1. /\ Len(s) \in Nat \ {0} /\ s[Len(s)] \in Line
      /\ Len(t) \in Nat \ {0} /\ t[1] \in Line
  BY TextLines
<1>2. Len(Join(s, t)) = Len(s) + Len(t) - 1
  BY JoinType
<1>3. EndRow(s) + 1 = Len(s) /\ EndRow(s) \in 0 .. (Len(Join(s, t)) - 1)
  BY <1>1, <1>2 DEF EndRow
<1>4. Join(s, t)[Len(s)] = s[Len(s)] \o t[1]
  BY JoinLines
<1>5. Len(s[Len(s)]) \in 0 .. Len(s[Len(s)] \o t[1])
  <2> DEFINE head == s[Len(s)]
             tail == t[1]
  <2>1. head \in Line /\ tail \in Line
    BY <1>1
  <2> HIDE DEF head, tail
  <2>2. Len(head) \in Nat /\ Len(tail) \in Nat /\ Len(head \o tail) = Len(head) + Len(tail)
    BY <2>1, LineConcatProperties
  <2>3. Len(head) \in 0 .. Len(head \o tail)
    BY <2>2
  <2> QED BY <2>3 DEF head, tail
<1>6. Join(s, t)[EndRow(s) + 1] = s[Len(s)] \o t[1]
  BY <1>3, <1>4
<1>8. EndCol(s) \in 0 .. Len(Join(s, t)[EndRow(s) + 1])
  BY <1>5, <1>6 DEF EndCol
<1> QED BY <1>3, <1>6, <1>8 DEF Position

LEMMA TextUncut ==
  ASSUME NEW s \in Text, NEW t \in Text
  PROVE  /\ Before(Join(s, t), EndRow(s), EndCol(s)) = s
         /\ After(Join(s, t), EndRow(s), EndCol(s)) = t
<1> DEFINE j == Join(s, t)
           r == EndRow(s)
           c == EndCol(s)
<1>1. /\ s \in Seq(Line) /\ Len(s) \in Nat \ {0} /\ s[Len(s)] \in Line
      /\ t \in Seq(Line) /\ Len(t) \in Nat \ {0} /\ t[1] \in Line
  BY TextLines
<1>2. j \in Text /\ Len(j) = Len(s) + Len(t) - 1
  BY JoinType
<1>3. /\ \A i \in 1 .. (Len(s) - 1) : j[i] = s[i]
      /\ j[Len(s)] = s[Len(s)] \o t[1]
      /\ \A i \in 2 .. Len(t) : j[Len(s) + i - 1] = t[i]
  BY JoinLines
<1>4. Position(j, r, c)
  BY SeamPosition
<1>5. r = Len(s) - 1 /\ r + 1 = Len(s) /\ c = Len(s[Len(s)])
  BY <1>1 DEF EndRow, EndCol
<1>6. r \in 0 .. (Len(j) - 1) /\ c \in 0 .. Len(j[r + 1])
  BY <1>4 DEF Position
<1>7. /\ SubSeq(j[r + 1], 1, c) = s[Len(s)]
      /\ SubSeq(j[r + 1], c + 1, Len(j[r + 1])) = t[1]
  <2> DEFINE head == s[Len(s)]
             tail == t[1]
  <2>1. /\ SubSeq(head \o tail, 1, Len(head)) = head
        /\ SubSeq(head \o tail, Len(head) + 1, Len(head \o tail)) = tail
    BY <1>1, LineUncut
  <2>2. j[r + 1] = head \o tail /\ c = Len(head)
    BY <1>3, <1>5
  <2> HIDE DEF j, r, c, head, tail
  <2>3. /\ SubSeq(j[r + 1], 1, c) = head
        /\ SubSeq(j[r + 1], c + 1, Len(j[r + 1])) = tail
    BY <2>1, <2>2
  <2> QED BY <2>3 DEF head, tail
<1> HIDE DEF j, r, c
<1>8. Before(j, r, c) = s
  <2> DEFINE b == Before(j, r, c)
  <2>1. b \in Text /\ Len(b) = Len(s)
    BY <1>2, <1>5, <1>6, BeforeType
  <2>2. /\ \A i \in 1 .. r : b[i] = j[i]
        /\ b[r + 1] = SubSeq(j[r + 1], 1, c)
    BY <1>2, <1>6, BeforeLines
  <2> HIDE DEF b
  <2>3. ASSUME NEW i \in 1 .. Len(s) PROVE b[i] = s[i]
    <3>1. i \in 1 .. (Len(s) - 1) \/ i = Len(s)
      BY <1>1
    <3>2. CASE i \in 1 .. (Len(s) - 1)
      BY <1>3, <1>5, <2>2, <3>2
    <3>3. CASE i = Len(s)
      BY <1>5, <1>7, <2>2, <3>3
    <3> QED BY <3>1, <3>2, <3>3
  <2>4. b = s
    BY <2>1, <2>3, TextEqual
  <2> QED BY <2>4 DEF b
<1>9. After(j, r, c) = t
  <2> DEFINE a == After(j, r, c)
  <2>1. a \in Text /\ Len(a) = Len(j) - r
    BY <1>2, <1>6, AfterType
  <2>2. Len(j) - r = Len(t)
    BY <1>1, <1>2, <1>5
  <2>3. /\ a[1] = SubSeq(j[r + 1], c + 1, Len(j[r + 1]))
        /\ \A i \in 2 .. (Len(j) - r) : a[i] = j[r + i]
    BY <1>2, <1>6, AfterLines
  <2> HIDE DEF a
  <2>4. ASSUME NEW i \in 1 .. Len(t) PROVE a[i] = t[i]
    <3>1. i = 1 \/ i \in 2 .. Len(t)
      BY <1>1
    <3>2. CASE i = 1
      BY <1>7, <2>3, <3>2
    <3>3. CASE i \in 2 .. Len(t)
      <4>1. r + i = Len(s) + i - 1
        BY <1>1, <1>5
      <4>2. j[Len(s) + i - 1] = t[i]
        BY <1>3, <3>3
      <4>3. a[i] = j[r + i]
        BY <2>2, <2>3, <3>3
      <4> QED BY <4>1, <4>2, <4>3
    <3> QED BY <3>1, <3>2, <3>3
  <2>5. a = t
    BY <2>1, <2>2, <2>4, TextEqual
  <2> QED BY <2>5 DEF a
<1> QED BY <1>8, <1>9 DEF j, r, c

LEMMA JoinAssociative ==
  ASSUME NEW s \in Text, NEW t \in Text, NEW u \in Text
  PROVE  Join(Join(s, t), u) = Join(s, Join(t, u))
<1> /\ Len(s) \in Nat \ {0} /\ Len(t) \in Nat \ {0} /\ Len(u) \in Nat \ {0}
    /\ s[Len(s)] \in Line /\ t[1] \in Line /\ t[Len(t)] \in Line /\ u[1] \in Line
  BY TextLines
<1> DEFINE st == Join(s, t)
           tu == Join(t, u)
           x == Join(st, u)
           y == Join(s, tu)
<1>1. st \in Text /\ Len(st) = Len(s) + Len(t) - 1
  BY JoinType
<1>2. tu \in Text /\ Len(tu) = Len(t) + Len(u) - 1
  BY JoinType
<1>3. /\ \A i \in 1 .. (Len(s) - 1) : st[i] = s[i]
      /\ st[Len(s)] = s[Len(s)] \o t[1]
      /\ \A i \in 2 .. Len(t) : st[Len(s) + i - 1] = t[i]
  BY JoinLines
<1>4. /\ \A i \in 1 .. (Len(t) - 1) : tu[i] = t[i]
      /\ tu[Len(t)] = t[Len(t)] \o u[1]
      /\ \A i \in 2 .. Len(u) : tu[Len(t) + i - 1] = u[i]
  BY JoinLines
<1> HIDE DEF st, tu
<1>5. x \in Text /\ Len(x) = Len(st) + Len(u) - 1
  BY <1>1, JoinType
<1>6. y \in Text /\ Len(y) = Len(s) + Len(tu) - 1
  BY <1>2, JoinType
<1>7. /\ \A i \in 1 .. (Len(st) - 1) : x[i] = st[i]
      /\ x[Len(st)] = st[Len(st)] \o u[1]
      /\ \A i \in 2 .. Len(u) : x[Len(st) + i - 1] = u[i]
  BY <1>1, JoinLines
<1>8. /\ \A i \in 1 .. (Len(s) - 1) : y[i] = s[i]
      /\ y[Len(s)] = s[Len(s)] \o tu[1]
      /\ \A i \in 2 .. Len(tu) : y[Len(s) + i - 1] = tu[i]
  BY <1>2, JoinLines
<1> HIDE DEF x, y
<1>9. Len(x) = Len(y)
  BY <1>1, <1>2, <1>5, <1>6
<1>10. ASSUME NEW i \in 1 .. Len(x) PROVE x[i] = y[i]
  <2>1. CASE i < Len(s)
    <3>1. i \in 1 .. (Len(s) - 1) /\ i \in 1 .. (Len(st) - 1)
      BY <1>1, <2>1
    <3> QED BY <1>3, <1>7, <1>8, <3>1
  <2>2. CASE i = Len(s) /\ Len(t) = 1
    <3>1. Len(st) = Len(s) /\ Len(t) = 1
      BY <1>1, <2>2
    <3>2. x[i] = (s[Len(s)] \o t[1]) \o u[1]
      BY <1>3, <1>7, <2>2, <3>1
    <3>3. y[i] = s[Len(s)] \o (t[1] \o u[1])
      BY <1>4, <1>8, <2>2, <3>1
    <3> QED BY <3>2, <3>3, LineConcatAssoc
  <2>3. CASE i = Len(s) /\ Len(t) > 1
    <3>1. i \in 1 .. (Len(st) - 1) /\ 1 \in 1 .. (Len(t) - 1)
      BY <1>1, <2>3
    <3> QED BY <1>3, <1>4, <1>7, <1>8, <2>3, <3>1
  <2>4. CASE Len(s) < i /\ i < Len(st)
    <3> DEFINE k == i - Len(s) + 1
    <3>1. /\ k \in 2 .. Len(t) /\ Len(s) + k - 1 = i /\ k \in 1 .. (Len(t) - 1)
          /\ k \in 2 .. Len(tu) /\ i \in 1 .. (Len(st) - 1)
      BY <1>1, <1>2, <2>4
    <3> HIDE DEF k
    <3>2. x[i] = st[Len(s) + k - 1] /\ st[Len(s) + k - 1] = t[k]
      BY <1>3, <1>7, <3>1
    <3>3. y[Len(s) + k - 1] = tu[k] /\ tu[k] = t[k]
      BY <1>4, <1>8, <3>1
    <3> QED BY <3>1, <3>2, <3>3
  <2>5. CASE Len(s) < i /\ i = Len(st)
    <3>1. /\ Len(t) \in 2 .. Len(t) /\ Len(t) \in 2 .. Len(tu)
          /\ i = Len(s) + Len(t) - 1
      BY <1>1, <1>2, <2>5
    <3>4. st[Len(s) + Len(t) - 1] = t[Len(t)]
      BY <1>3, <3>1
    <3>2. x[i] = t[Len(t)] \o u[1]
      BY <1>7, <2>5, <3>1, <3>4
    <3>3. y[i] = tu[Len(t)]
      BY <1>8, <3>1
    <3> QED BY <1>4, <3>2, <3>3
  <2>6. CASE i > Len(st)
    <3> DEFINE k == i - Len(st) + 1
               m == Len(t) + k - 1
    <3>1. /\ k \in 2 .. Len(u) /\ Len(st) + k - 1 = i
          /\ m \in 2 .. Len(tu) /\ Len(s) + m - 1 = i
      BY <1>1, <1>2, <1>5, <2>6
    <3>2. x[Len(st) + k - 1] = u[k]
      BY <1>7, <3>1
    <3>3. y[Len(s) + m - 1] = tu[m]
      BY <1>8, <3>1
    <3>4. tu[Len(t) + k - 1] = u[k]
      BY <1>4, <3>1
    <3> QED BY <3>1, <3>2, <3>3, <3>4
  <2>7. i < Len(s) \/ i = Len(s) \/ Len(s) < i
    BY <1>5
  <2>8. i < Len(st) \/ i = Len(st) \/ i > Len(st)
    BY <1>1, <1>5
  <2>9. Len(t) = 1 \/ Len(t) > 1
    <3> DEFINE m == Len(t)
    <3>1. m \in Nat /\ m # 0
      OBVIOUS
    <3> HIDE DEF m
    <3>2. m = 1 \/ m > 1
      BY <3>1
    <3> QED BY <3>2 DEF m
  <2> QED BY <2>1, <2>2, <2>3, <2>4, <2>5, <2>6, <2>7, <2>8, <2>9
<1>11. x = y
  BY <1>5, <1>6, <1>9, <1>10, TextEqual
<1> QED BY <1>11 DEF x, y, st, tu

LEMMA BeforeEnd ==
  ASSUME NEW lines \in Text, NEW row, NEW col, Position(lines, row, col)
  PROVE  /\ Before(lines, row, col) \in Text
         /\ Len(Before(lines, row, col)) = row + 1
         /\ EndRow(Before(lines, row, col)) = row
         /\ EndCol(Before(lines, row, col)) = col
         /\ After(lines, row, col) \in Text
         /\ Len(After(lines, row, col)) = Len(lines) - row
<1>0. /\ row \in 0 .. (Len(lines) - 1) /\ col \in 0 .. Len(lines[row + 1])
      /\ Len(lines) \in Nat /\ lines[row + 1] \in Line
  BY RowType DEF Position
<1> DEFINE b == Before(lines, row, col)
<1>1. b \in Text /\ Len(b) = row + 1
  BY <1>0, BeforeType
<1>2. b[row + 1] = SubSeq(lines[row + 1], 1, col)
  BY <1>0, BeforeLines
<1>3. Len(SubSeq(lines[row + 1], 1, col)) = col
  <2> DEFINE line == lines[row + 1]
  <2>1. line \in Line /\ col \in 0 .. Len(line)
    BY <1>0
  <2> HIDE DEF line
  <2>2. Len(SubSeq(line, 1, col)) = col
    BY <2>1, FirstBytes
  <2> QED BY <2>2 DEF line
<1> HIDE DEF b
<1>4. EndRow(b) = row /\ EndCol(b) = col
  BY <1>0, <1>1, <1>2, <1>3 DEF EndRow, EndCol
<1>5. /\ After(lines, row, col) \in Text
      /\ Len(After(lines, row, col)) = Len(lines) - row
  BY <1>0, AfterType
<1> QED BY <1>1, <1>4, <1>5 DEF b

(* Inserting a text splits the result at two positions: where it was         *)
(* inserted, and where it ends.                                              *)
LEMMA InsertPlaces ==
  ASSUME NEW lines \in Text, NEW row, NEW col, Position(lines, row, col),
         NEW text \in Text
  PROVE  LET new  == InsertText(lines, row, col, text)
             head == Join(Before(lines, row, col), text)
         IN  /\ new \in Text /\ head \in Text
             /\ Position(new, row, col)
             /\ Before(new, row, col) = Before(lines, row, col)
             /\ Position(new, EndRow(head), EndCol(head))
             /\ Before(new, EndRow(head), EndCol(head)) = head
             /\ After(new, EndRow(head), EndCol(head)) = After(lines, row, col)
             /\ Position(head, row, col)
             /\ After(head, row, col) = text
             /\ EndRow(head) = row + Len(text) - 1
             /\ Len(text) = 1 => EndCol(head) = col + Len(text[1])
             /\ Len(text) # 1 => EndCol(head) = Len(text[Len(text)])
<1> DEFINE b == Before(lines, row, col)
           a == After(lines, row, col)
           head == Join(b, text)
           new == InsertText(lines, row, col, text)
           rest == Join(text, a)
<1>1. b \in Text /\ a \in Text /\ Len(b) = row + 1 /\ EndRow(b) = row /\ EndCol(b) = col
  BY BeforeEnd
<1>2. new = Join(head, a)
  BY DEF InsertText
<1> HIDE DEF b, a, new
<1>3. head \in Text /\ rest \in Text /\ Len(head) = Len(b) + Len(text) - 1
  BY <1>1, JoinType
<1>4. new = Join(b, rest)
  BY <1>1, <1>2, JoinAssociative
<1>5. /\ Position(new, row, col)
      /\ Before(new, row, col) = b
  BY <1>1, <1>3, <1>4, SeamPosition, TextUncut
<1>6. Position(head, row, col) /\ After(head, row, col) = text
  BY <1>1, SeamPosition, TextUncut
<1>7. /\ Position(new, EndRow(head), EndCol(head))
      /\ Before(new, EndRow(head), EndCol(head)) = head
      /\ After(new, EndRow(head), EndCol(head)) = a
  <2> HIDE DEF head
  <2> QED BY <1>1, <1>2, <1>3, SeamPosition, TextUncut
<1>8. new \in Text
  <2> HIDE DEF head
  <2> QED BY <1>1, <1>2, <1>3, JoinType
<1>9. EndRow(head) = row + Len(text) - 1
  <2>1. row \in Nat /\ Len(text) \in Nat
    BY TextLines DEF Position
  <2> HIDE DEF head
  <2> QED BY <1>1, <1>3, <2>1 DEF EndRow
<1>10. /\ Len(text) = 1 => EndCol(head) = col + Len(text[1])
       /\ Len(text) # 1 => EndCol(head) = Len(text[Len(text)])
  <2> DEFINE n == Len(b)
  <2>1. /\ n \in Nat \ {0} /\ b[n] \in Line /\ Len(b[n]) = col
        /\ Len(text) \in Nat \ {0} /\ text[1] \in Line
    BY <1>1, TextLines DEF EndCol
  <2>2. /\ head[n] = b[n] \o text[1]
        /\ \A i \in 2 .. Len(text) : head[n + i - 1] = text[i]
    BY <1>1, JoinLines
  <2>3. Len(b[n] \o text[1]) = Len(b[n]) + Len(text[1])
    BY <2>1, LineConcatProperties
  <2>4. EndCol(head) = Len(head[n + Len(text) - 1])
    BY <1>3 DEF EndCol
  <2> HIDE DEF head, n
  <2>5. CASE Len(text) = 1
    <3>1. n + Len(text) - 1 = n
      BY <2>1, <2>5
    <3>2. EndCol(head) = Len(head[n]) /\ head[n] = b[n] \o text[1]
      BY <2>2, <2>4, <3>1
    <3>3. EndCol(head) = col + Len(text[1])
      BY <2>1, <2>3, <3>2
    <3> QED BY <2>5, <3>3, Zenon
  <2>6. CASE Len(text) # 1
    <3>0. Len(text) \in Nat /\ Len(text) # 0
      BY <2>1
    <3> DEFINE m == Len(text)
    <3> HIDE DEF m
    <3>2. m \in Nat /\ m # 0 /\ m # 1
      BY <2>6, <3>0 DEF m
    <3>3. m \in 2 .. m
      BY <3>2
    <3>1. Len(text) \in 2 .. Len(text)
      BY <3>3 DEF m
    <3> QED BY <2>2, <2>4, <2>6, <3>1
  <2> QED BY <2>5, <2>6
<1> QED BY <1>1, <1>3, <1>5, <1>6, <1>7, <1>8, <1>9, <1>10 DEF b, a, new

LEMMA DeletePlaces ==
  ASSUME NEW lines \in Text, NEW row1, NEW col1, NEW row2, NEW col2,
         Position(lines, row1, col1), Position(lines, row2, col2)
  PROVE  LET new == DeleteBetween(lines, row1, col1, row2, col2)
         IN  /\ new \in Text
             /\ Position(new, row1, col1)
             /\ Before(new, row1, col1) = Before(lines, row1, col1)
             /\ After(new, row1, col1) = After(lines, row2, col2)
<1> DEFINE b == Before(lines, row1, col1)
           a == After(lines, row2, col2)
           new == Join(b, a)
<1>1. b \in Text /\ a \in Text /\ EndRow(b) = row1 /\ EndCol(b) = col1
  BY BeforeEnd
<1> HIDE DEF b, a
<1>2. /\ new \in Text
      /\ Position(new, row1, col1)
      /\ Before(new, row1, col1) = b
      /\ After(new, row1, col1) = a
  BY <1>1, JoinType, SeamPosition, TextUncut
<1> QED BY <1>2 DEF b, a, DeleteBetween

(* What lies between two positions.                                          *)
Piece(lines, row1, col1, row2, col2) ==
  After(Before(lines, row2, col2), row1, col1)

NotAfter(row1, col1, row2, col2) ==
  row1 < row2 \/ (row1 = row2 /\ col1 <= col2)

LEMMA BeforeBefore ==
  ASSUME NEW lines \in Text, NEW row1, NEW col1, NEW row2, NEW col2,
         Position(lines, row1, col1), Position(lines, row2, col2),
         NotAfter(row1, col1, row2, col2)
  PROVE  LET head == Before(lines, row2, col2)
         IN  /\ Position(head, row1, col1)
             /\ Before(head, row1, col1) = Before(lines, row1, col1)
             /\ head[row1 + 1] = IF row1 = row2 THEN SubSeq(lines[row1 + 1], 1, col2)
                                                ELSE lines[row1 + 1]
<1> DEFINE head == Before(lines, row2, col2)
           b == Before(lines, row1, col1)
           bb == Before(head, row1, col1)
           line == lines[row1 + 1]
           part == head[row1 + 1]
<1>0. /\ Len(lines) \in Nat
      /\ row1 \in 0 .. (Len(lines) - 1) /\ col1 \in 0 .. Len(line)
      /\ row2 \in 0 .. (Len(lines) - 1) /\ col2 \in 0 .. Len(lines[row2 + 1])
      /\ line \in Line /\ Len(line) \in Nat
  BY RowType DEF Position
<1>1. head \in Text /\ Len(head) = row2 + 1
  BY BeforeEnd
<1>2. /\ \A i \in 1 .. row2 : head[i] = lines[i]
      /\ head[row2 + 1] = SubSeq(lines[row2 + 1], 1, col2)
  BY <1>0, BeforeLines
<1>3. b \in Text /\ Len(b) = row1 + 1
  BY BeforeEnd
<1>4. /\ \A i \in 1 .. row1 : b[i] = lines[i]
      /\ b[row1 + 1] = SubSeq(line, 1, col1)
  BY <1>0, BeforeLines
<1>5. row1 <= row2
  BY <1>0 DEF NotAfter
<1>6. /\ col1 \in 0 .. Len(part)
      /\ SubSeq(part, 1, col1) = SubSeq(line, 1, col1)
      /\ part = IF row1 = row2 THEN SubSeq(line, 1, col2) ELSE line
  <2>1. CASE row1 < row2
    <3>1. row1 + 1 \in 1 .. row2 /\ row1 # row2
      BY <1>0, <2>1
    <3>2. part = line
      BY <1>2, <3>1
    <3> QED BY <1>0, <3>1, <3>2
  <2>2. CASE row1 = row2
    <3>1. part = SubSeq(line, 1, col2) /\ col2 \in 0 .. Len(line) /\ col1 <= col2
      BY <1>0, <1>2, <2>2 DEF NotAfter
    <3> HIDE DEF part, line
    <3>2. part \in Line /\ Len(part) = col2 /\ \A k \in 1 .. col2 : part[k] = line[k]
      BY <1>0, <3>1, FirstBytes
    <3>3. col1 \in 0 .. Len(part) /\ col1 \in 0 .. Len(line)
      BY <1>0, <3>1, <3>2
    <3> DEFINE x == SubSeq(part, 1, col1)
               y == SubSeq(line, 1, col1)
    <3>4. x \in Line /\ Len(x) = col1 /\ \A k \in 1 .. col1 : x[k] = part[k]
      BY <3>2, <3>3, FirstBytes
    <3>5. y \in Line /\ Len(y) = col1 /\ \A k \in 1 .. col1 : y[k] = line[k]
      BY <1>0, <3>3, FirstBytes
    <3> HIDE DEF x, y
    <3>6. \A k \in 1 .. col1 : k \in 1 .. col2
      BY <1>0, <3>1, <3>2, <3>3
    <3>7. x = y
      BY <3>2, <3>4, <3>5, <3>6, LineEqual
    <3> QED BY <2>2, <3>1, <3>3, <3>7 DEF x, y
  <2> QED BY <1>0, <1>5, <2>1, <2>2
<1>7. Position(head, row1, col1)
  <2>1. row1 \in 0 .. (Len(head) - 1)
    BY <1>0, <1>1, <1>5
  <2> QED BY <1>6, <2>1 DEF Position
<1>8. row1 \in 0 .. (Len(head) - 1) /\ col1 \in 0 .. Len(head[row1 + 1])
  BY <1>7 DEF Position
<1> HIDE DEF head, b, line
<1>9. bb \in Text /\ Len(bb) = row1 + 1
  BY <1>1, <1>8, BeforeType
<1>10. /\ \A i \in 1 .. row1 : bb[i] = head[i]
       /\ bb[row1 + 1] = SubSeq(part, 1, col1)
  BY <1>1, <1>8, BeforeLines
<1> HIDE DEF bb, part
<1>11. ASSUME NEW i \in 1 .. Len(bb) PROVE bb[i] = b[i]
  <2>1. CASE i \in 1 .. row1
    <3>1. i \in 1 .. row2
      BY <1>0, <1>5, <2>1
    <3> QED BY <1>2, <1>4, <1>10, <2>1, <3>1
  <2>2. CASE i = row1 + 1
    BY <1>4, <1>6, <1>10, <2>2
  <2>3. i \in 1 .. row1 \/ i = row1 + 1
    BY <1>0, <1>9
  <2> QED BY <2>1, <2>2, <2>3
<1>12. bb = b
  BY <1>3, <1>9, <1>11, TextEqual
<1> QED BY <1>6, <1>7, <1>12 DEF bb, b, head, part, line

(* Deleting what lies between two positions and inserting it again.          *)
LEMMA DeleteUndone ==
  ASSUME NEW lines \in Text, NEW row1, NEW col1, NEW row2, NEW col2,
         Position(lines, row1, col1), Position(lines, row2, col2),
         NotAfter(row1, col1, row2, col2)
  PROVE  LET piece == Piece(lines, row1, col1, row2, col2)
             new   == DeleteBetween(lines, row1, col1, row2, col2)
         IN  /\ piece \in Text
             /\ Join(Before(lines, row1, col1), piece) = Before(lines, row2, col2)
             /\ InsertText(new, row1, col1, piece) = lines
<1> DEFINE b == Before(lines, row1, col1)
           a == After(lines, row2, col2)
           head == Before(lines, row2, col2)
           piece == Piece(lines, row1, col1, row2, col2)
           new == DeleteBetween(lines, row1, col1, row2, col2)
<1>1. head \in Text
  BY BeforeEnd
<1>2. Position(head, row1, col1) /\ Before(head, row1, col1) = b
  BY BeforeBefore
<1>3. piece = After(head, row1, col1)
  BY DEF Piece
<1>4. Join(head, a) = lines
  BY TextCut
<1>5. Before(new, row1, col1) = b /\ After(new, row1, col1) = a
  BY DeletePlaces
<1> HIDE DEF b, a, head, piece, new
<1>6. piece \in Text /\ Join(b, piece) = head
  BY <1>1, <1>2, <1>3, BeforeEnd, TextCut
<1>7. InsertText(new, row1, col1, piece) = Join(Join(b, piece), a)
  BY <1>5 DEF InsertText
<1> QED BY <1>4, <1>6, <1>7 DEF b, head, piece, new

(* A text put together of two can be inserted in two pieces, the last first. *)
LEMMA InsertJoined ==
  ASSUME NEW lines \in Text, NEW row, NEW col, Position(lines, row, col),
         NEW s \in Text, NEW t \in Text
  PROVE  InsertText(lines, row, col, Join(s, t))
           = InsertText(InsertText(lines, row, col, t), row, col, s)
<1> DEFINE b == Before(lines, row, col)
           a == After(lines, row, col)
           new == InsertText(lines, row, col, t)
           rest == Join(t, a)
<1>1. b \in Text /\ a \in Text /\ EndRow(b) = row /\ EndCol(b) = col
  BY BeforeEnd
<1>2. new = Join(Join(b, t), a)
  BY DEF InsertText
<1>3. InsertText(lines, row, col, Join(s, t)) = Join(Join(b, Join(s, t)), a)
  BY DEF InsertText
<1>4. InsertText(new, row, col, s)
        = Join(Join(Before(new, row, col), s), After(new, row, col))
  BY DEF InsertText
<1> HIDE DEF b, a, new
<1>5. rest \in Text /\ new = Join(b, rest)
  BY <1>1, <1>2, JoinType, JoinAssociative
<1>6. Join(b, s) \in Text /\ Join(s, t) \in Text
  BY <1>1, JoinType
<1>7. Join(Join(b, Join(s, t)), a) = Join(Join(b, s), rest)
  <2>1. Join(b, Join(s, t)) = Join(Join(b, s), t)
    BY <1>1, JoinAssociative
  <2>2. Join(Join(Join(b, s), t), a) = Join(Join(b, s), Join(t, a))
    BY <1>1, <1>6, JoinAssociative
  <2> QED BY <2>1, <2>2
<1> HIDE DEF rest
<1>8. Before(new, row, col) = b /\ After(new, row, col) = rest
  BY <1>1, <1>5, TextUncut
<1> QED BY <1>3, <1>4, <1>7, <1>8 DEF new

(* The lines of the text between two positions.                              *)
LEMMA PieceLines ==
  ASSUME NEW lines \in Text, NEW row1, NEW col1, NEW row2, NEW col2,
         Position(lines, row1, col1), Position(lines, row2, col2),
         NotAfter(row1, col1, row2, col2)
  PROVE  LET piece == Piece(lines, row1, col1, row2, col2)
         IN  /\ piece \in Text /\ Len(piece) = row2 - row1 + 1
             /\ row1 = row2 => piece[1] = SubSeq(lines[row1 + 1], col1 + 1, col2)
             /\ row1 < row2 =>
                  /\ piece[1] = SubSeq(lines[row1 + 1], col1 + 1,
                                       Len(lines[row1 + 1]))
                  /\ \A i \in 2 .. (row2 - row1) : piece[i] = lines[row1 + i]
                  /\ piece[row2 - row1 + 1] = SubSeq(lines[row2 + 1], 1, col2)
<1> DEFINE head == Before(lines, row2, col2)
           piece == After(head, row1, col1)
           line == lines[row1 + 1]
           part == head[row1 + 1]
<1>0. /\ Len(lines) \in Nat
      /\ row1 \in 0 .. (Len(lines) - 1) /\ col1 \in 0 .. Len(line)
      /\ row2 \in 0 .. (Len(lines) - 1) /\ col2 \in 0 .. Len(lines[row2 + 1])
      /\ line \in Line /\ Len(line) \in Nat
  BY RowType DEF Position
<1>1. head \in Text /\ Len(head) = row2 + 1
  BY BeforeEnd
<1>2. /\ \A i \in 1 .. row2 : head[i] = lines[i]
      /\ head[row2 + 1] = SubSeq(lines[row2 + 1], 1, col2)
  BY <1>0, BeforeLines
<1>3. /\ Position(head, row1, col1)
      /\ part = IF row1 = row2 THEN SubSeq(line, 1, col2) ELSE line
  BY BeforeBefore
<1>4. row1 \in 0 .. (Len(head) - 1) /\ col1 \in 0 .. Len(head[row1 + 1])
  BY <1>3 DEF Position
<1> HIDE DEF head
<1>5. piece \in Text /\ Len(piece) = Len(head) - row1
  BY <1>1, <1>4, AfterType
<1>6. /\ piece[1] = SubSeq(part, col1 + 1, Len(part))
      /\ \A i \in 2 .. (Len(head) - row1) : piece[i] = head[row1 + i]
  BY <1>1, <1>4, AfterLines
<1> HIDE DEF piece
<1>7. Len(piece) = row2 - row1 + 1
  BY <1>0, <1>1, <1>5
<1>8. ASSUME row1 = row2
      PROVE  piece[1] = SubSeq(line, col1 + 1, col2)
  <2>1. part = SubSeq(line, 1, col2) /\ col2 \in 0 .. Len(line) /\ col1 <= col2
    BY <1>0, <1>3, <1>8 DEF NotAfter
  <2> HIDE DEF part, line
  <2>2. part \in Line /\ Len(part) = col2 /\ \A k \in 1 .. col2 : part[k] = line[k]
    BY <1>0, <2>1, FirstBytes
  <2> DEFINE x == SubSeq(part, col1 + 1, col2)
             y == SubSeq(line, col1 + 1, col2)
             m == col1 + 1
  <2>3. /\ col1 \in Nat /\ col2 \in Nat /\ m \in Int /\ m = col1 + 1
        /\ col2 \in 0 .. Len(part)
    BY <1>0, <2>1, <2>2
  <2>4. /\ x \in Line /\ Len(x) = col2 - col1
        /\ \A k \in 1 .. (col2 - col1) : x[k] = part[col1 + k]
    <3> HIDE DEF m
    <3>1. /\ SubSeq(part, m, col2) \in Line /\ Len(SubSeq(part, m, col2)) = col2 - col1
          /\ \A k \in 1 .. (col2 - col1) : SubSeq(part, m, col2)[k] = part[col1 + k]
      BY <2>1, <2>2, <2>3, PieceOfLine
    <3> QED BY <3>1 DEF m
  <2>5. /\ y \in Line /\ Len(y) = col2 - col1
        /\ \A k \in 1 .. (col2 - col1) : y[k] = line[col1 + k]
    <3> HIDE DEF m
    <3>1. /\ SubSeq(line, m, col2) \in Line /\ Len(SubSeq(line, m, col2)) = col2 - col1
          /\ \A k \in 1 .. (col2 - col1) : SubSeq(line, m, col2)[k] = line[col1 + k]
      BY <1>0, <2>1, <2>3, PieceOfLine
    <3> QED BY <3>1 DEF m
  <2>6. \A k \in 1 .. (col2 - col1) : col1 + k \in 1 .. col2
    BY <2>3
  <2> HIDE DEF x, y
  <2>7. x = y
    BY <2>2, <2>4, <2>5, <2>6, LineEqual
  <2> QED BY <1>6, <2>2, <2>7 DEF x, y
<1>9. ASSUME row1 < row2
      PROVE  /\ piece[1] = SubSeq(line, col1 + 1, Len(line))
             /\ \A i \in 2 .. (row2 - row1) : piece[i] = lines[row1 + i]
             /\ piece[row2 - row1 + 1] = SubSeq(lines[row2 + 1], 1, col2)
  <2>1. part = line
    BY <1>0, <1>3, <1>9
  <2>2. /\ row2 - row1 + 1 \in 2 .. (Len(head) - row1)
        /\ row1 + (row2 - row1 + 1) = row2 + 1
    BY <1>0, <1>1, <1>9
  <2>3. \A i \in 2 .. (row2 - row1) :
          i \in 2 .. (Len(head) - row1) /\ row1 + i \in 1 .. row2
    BY <1>0, <1>1, <1>9
  <2> HIDE DEF part, line
  <2> QED BY <1>2, <1>6, <2>1, <2>2, <2>3
<1> QED BY <1>5, <1>7, <1>8, <1>9 DEF Piece, piece, head

-----------------------------------------------------------------------------
(* Places, characters and words of a text.                                   *)

(* A column of a row of the text is not moved by clamping it.                *)
LEMMA ClampPlace ==
  ASSUME NEW lines \in Text, NEW row, NEW col, Position(lines, row, col)
  PROVE  /\ ClampCol(lines, row, col) = col
         /\ row \in 0 .. (Len(lines) - 1) /\ row < Len(lines)
         /\ row \in Nat /\ col \in Nat /\ lines[row + 1] \in Line
         /\ line_length(lines, row) = Len(lines[row + 1])
         /\ col \in 0 .. Len(lines[row + 1])
<1>1. row \in 0 .. (Len(lines) - 1) /\ col \in 0 .. Len(lines[row + 1])
  BY DEF Position
<1>2. /\ line_length(lines, row) = Len(lines[row + 1]) /\ Len(lines[row + 1]) \in Nat
      /\ lines[row + 1] \in Line /\ row < Len(lines) /\ row \in Nat
  BY <1>1, RowType
<1> QED BY <1>1, <1>2 DEF ClampCol

LEMMA ClampIsPlace ==
  ASSUME NEW lines \in Text, NEW row \in 0 .. (Len(lines) - 1), NEW col \in Nat
  PROVE  Position(lines, row, ClampCol(lines, row, col))
BY RowType DEF Position

(* Where an inserted text ends: what follows it, and what lies between the   *)
(* place of the insertion and its end.                                       *)
InsertEndCol(col, text) ==
  IF Len(text) = 1 THEN col + Len(text[Len(text)]) ELSE Len(text[Len(text)])

LEMMA InsertEnd ==
  ASSUME NEW lines \in Text, NEW row, NEW col, Position(lines, row, col),
         NEW text \in Text
  PROVE  LET new     == InsertText(lines, row, col, text)
             end_row == row + Len(text) - 1
             end_col == InsertEndCol(col, text)
         IN  /\ new \in Text
             /\ Position(new, row, col)
             /\ Position(new, end_row, end_col)
             /\ NotAfter(row, col, end_row, end_col)
             /\ Before(new, row, col) = Before(lines, row, col)
             /\ Before(new, end_row, end_col) = Join(Before(lines, row, col), text)
             /\ After(new, end_row, end_col) = After(lines, row, col)
             /\ Piece(new, row, col, end_row, end_col) = text
<1> DEFINE new     == InsertText(lines, row, col, text)
           end_row == row + Len(text) - 1
           end_col == InsertEndCol(col, text)
           head    == Join(Before(lines, row, col), text)
<1>1. EndRow(head) = end_row
  BY InsertPlaces
<1>2. EndCol(head) = end_col
  <2>1. /\ Len(text) = 1 => EndCol(head) = col + Len(text[1])
        /\ Len(text) # 1 => EndCol(head) = Len(text[Len(text)])
    BY InsertPlaces
  <2> HIDE DEF head
  <2>2. CASE Len(text) = 1
    <3>1. EndCol(head) = col + Len(text[1]) /\ InsertEndCol(col, text) = col + Len(text[1])
      BY <2>1, <2>2 DEF InsertEndCol
    <3> QED BY <3>1
  <2>3. CASE Len(text) # 1
    BY <2>1, <2>3 DEF InsertEndCol
  <2> QED BY <2>2, <2>3
<1>3. /\ new \in Text
      /\ Position(new, row, col) /\ Before(new, row, col) = Before(lines, row, col)
      /\ Position(new, EndRow(head), EndCol(head))
      /\ Before(new, EndRow(head), EndCol(head)) = head
      /\ After(new, EndRow(head), EndCol(head)) = After(lines, row, col)
      /\ After(head, row, col) = text
  BY InsertPlaces
<1>4. NotAfter(row, col, end_row, end_col)
  <2>1. /\ row \in Nat /\ col \in Nat /\ Len(text) \in Nat /\ Len(text) # 0
        /\ text[Len(text)] \in Line
    BY ClampPlace, TextLines
  <2>2. Len(text[Len(text)]) \in Nat
    BY <2>1 DEF Line
  <2>3. CASE Len(text) = 1
    <3>1. end_row = row /\ end_col = col + Len(text[Len(text)])
      BY <2>1, <2>3 DEF InsertEndCol
    <3> HIDE DEF end_row, end_col
    <3>2. end_row = row /\ col <= end_col
      BY <2>1, <2>2, <3>1
    <3> QED BY <3>2 DEF NotAfter
  <2>4. CASE Len(text) # 1
    <3> DEFINE m == Len(text)
    <3>0. m \in Nat /\ m # 0 /\ m # 1
      BY <2>1, <2>4
    <3> HIDE DEF m
    <3>2. row < row + m - 1
      BY <2>1, <3>0
    <3>1. row < end_row
      BY <3>2 DEF m
    <3> QED BY <3>1 DEF NotAfter
  <2> QED BY <2>3, <2>4
<1> HIDE DEF new, end_row, end_col, head
<1>5. Piece(new, row, col, end_row, end_col) = text
  BY <1>1, <1>2, <1>3 DEF Piece
<1> QED BY <1>1, <1>2, <1>3, <1>4, <1>5 DEF new, end_row, end_col, head

(* What lies between two columns of one line.                                *)
LEMMA PieceOfRow ==
  ASSUME NEW lines \in Text, NEW row, NEW start, NEW end,
         Position(lines, row, start), Position(lines, row, end), start <= end
  PROVE  /\ NotAfter(row, start, row, end)
         /\ Piece(lines, row, start, row, end) \in Text
         /\ Piece(lines, row, start, row, end)
              = << SubSeq(lines[row + 1], start + 1, end) >>
<1> DEFINE piece == Piece(lines, row, start, row, end)
           data  == SubSeq(lines[row + 1], start + 1, end)
<1>1. NotAfter(row, start, row, end)
  BY DEF NotAfter
<1>2. /\ piece \in Text /\ Len(piece) = row - row + 1
      /\ row = row => piece[1] = data
  BY <1>1, PieceLines
<1> HIDE DEF piece, data
<1>3. row - row + 1 = 1
  BY ClampPlace
<1>4. data \in Line
  BY <1>2, <1>3, TextLines
<1>5. << data >> \in Text /\ Len(<< data >>) = 1 /\ << data >>[1] = data
  BY <1>4, OneLineText
<1>6. piece = << data >>
  <2> DEFINE one == << data >>
  <2>1. one \in Text /\ Len(one) = 1 /\ one[1] = data
    BY <1>5
  <2> HIDE DEF one
  <2>2. Len(piece) = Len(one) /\ \A i \in 1 .. Len(piece) : piece[i] = one[i]
    BY <1>2, <1>3, <2>1
  <2>3. piece = one
    BY <1>2, <2>1, <2>2, TextEqual
  <2> QED BY <2>3 DEF one
<1> QED BY <1>1, <1>2, <1>6 DEF piece, data

(* The first and the last line of what lies between two rows.                *)
LEMMA PieceOfRows ==
  ASSUME NEW lines \in Text, NEW row1, NEW col1, NEW row2, NEW col2,
         Position(lines, row1, col1), Position(lines, row2, col2),
         NotAfter(row1, col1, row2, col2), row1 < row2
  PROVE  LET piece == Piece(lines, row1, col1, row2, col2)
         IN  /\ piece \in Text /\ Len(piece) = row2 - row1 + 1
             /\ piece[1] = SubSeq(lines[row1 + 1], col1 + 1,
                                  Len(lines[row1 + 1]))
             /\ piece[row2 - row1 + 1] = SubSeq(lines[row2 + 1], 1, col2)
<1> DEFINE piece == Piece(lines, row1, col1, row2, col2)
<1>1. piece \in Text /\ Len(piece) = row2 - row1 + 1
  BY PieceLines
<1>2. row1 < row2 =>
        /\ piece[1] = SubSeq(lines[row1 + 1], col1 + 1, Len(lines[row1 + 1]))
        /\ \A i \in 2 .. (row2 - row1) : piece[i] = lines[row1 + i]
        /\ piece[row2 - row1 + 1] = SubSeq(lines[row2 + 1], 1, col2)
  BY PieceLines
<1> QED BY <1>1, <1>2

(* The end of a line and the empty line below it.                            *)
EmptyBelow(L, r, d) ==
  r \in Nat /\ d = r + 1 /\ d < Len(L) /\ L[d + 1] = << >>

LEMMA PieceOfEmptyLine ==
  ASSUME NEW lines \in Text, NEW row, NEW down, EmptyBelow(lines, row, down)
  PROVE  LET col == Len(lines[row + 1])
         IN  /\ Position(lines, row, col) /\ Position(lines, down, 0)
             /\ NotAfter(row, col, down, 0)
             /\ Piece(lines, row, col, down, 0) = Newline
<1> DEFINE line == lines[row + 1]
           next == lines[down + 1]
           col == Len(line)
           piece == Piece(lines, row, col, down, 0)
<1>0. row \in Nat /\ down = row + 1 /\ down < Len(lines) /\ next = << >>
  BY DEF EmptyBelow
<1>1. /\ row \in 0 .. (Len(lines) - 1) /\ down \in 0 .. (Len(lines) - 1)
      /\ line \in Line /\ next \in Line
  <2>1. Len(lines) \in Nat
    BY TextLines
  <2>2. row \in 0 .. (Len(lines) - 1) /\ down \in 0 .. (Len(lines) - 1)
    BY <1>0, <2>1
  <2> QED BY <2>2, RowType
<1>2. col \in 0 .. Len(line) /\ 0 \in 0 .. Len(next)
  BY <1>1 DEF Line
<1>3. Position(lines, row, col) /\ Position(lines, down, 0)
  BY <1>1, <1>2 DEF Position
<1>4. row < down /\ NotAfter(row, col, down, 0)
  BY <1>0 DEF NotAfter
<1>5. /\ piece \in Text /\ Len(piece) = down - row + 1
      /\ piece[1] = SubSeq(line, col + 1, col)
      /\ piece[down - row + 1] = SubSeq(next, 1, 0)
  <2> DEFINE c == col
             z == 0
  <2>1. /\ Position(lines, row, c) /\ Position(lines, down, z)
        /\ NotAfter(row, c, down, z) /\ row < down
    BY <1>3, <1>4
  <2> HIDE DEF c, z
  <2> DEFINE p == Piece(lines, row, c, down, z)
  <2>2. p \in Text /\ Len(p) = down - row + 1
    BY <2>1, PieceOfRows
  <2>3. p[1] = SubSeq(lines[row + 1], c + 1, Len(lines[row + 1]))
    BY <2>1, PieceOfRows
  <2>4. p[down - row + 1] = SubSeq(lines[down + 1], 1, z)
    BY <2>1, PieceOfRows
  <2> QED BY <2>2, <2>3, <2>4 DEF c, z
<1>6. SubSeq(line, col + 1, col) = << >> /\ SubSeq(next, 1, 0) = << >>
  <2>1. col \in Int /\ col + 1 \in Int /\ col < col + 1
    BY <1>2
  <2> HIDE DEF col
  <2> QED BY <2>1, SubSeqEmpty
<1> HIDE DEF line, next, col, piece
<1>7. down - row + 1 = 2
  BY <1>0
<1>8. piece = Newline
  <2>1. Newline \in Text /\ Len(Newline) = 2 /\ Newline[1] = << >> /\ Newline[2] = << >>
    BY SmallTexts DEF Newline
  <2>2. Len(piece) = Len(Newline) /\ \A i \in 1 .. Len(piece) : piece[i] = Newline[i]
    <3>1. Len(piece) = 2 /\ piece[1] = << >> /\ piece[2] = << >>
      BY <1>5, <1>6, <1>7
    <3>2. \A i \in 1 .. 2 : i = 1 \/ i = 2
      OBVIOUS
    <3> QED BY <2>1, <3>1, <3>2
  <2> QED BY <1>5, <2>1, <2>2, TextEqual
<1> QED BY <1>3, <1>4, <1>8 DEF piece, col, line

(* A line is all of itself.                                                  *)
LEMMA WholeLine ==
  ASSUME NEW line \in Line
  PROVE  SubSeq(line, 0 + 1, Len(line)) = line
<1>1. Len(line) \in 0 .. Len(line) /\ 0 + 1 = 1
  BY DEF Line
<1> DEFINE x == SubSeq(line, 1, Len(line))
<1>2. x \in Line /\ Len(x) = Len(line) /\ \A k \in 1 .. Len(line) : x[k] = line[k]
  BY <1>1, FirstBytes
<1> HIDE DEF x
<1>3. x = line
  BY <1>2, LineEqual
<1> QED BY <1>1, <1>3 DEF x

(* A column that is not inside a character of the line.                      *)
Stands(line, c) == c = 0 \/ c = Len(line) \/ line[c + 1] \notin Cont

OnChar(L, r, c) == Position(L, r, c) /\ Stands(L[r + 1], c)

LEMMA ClampStands ==
  ASSUME NEW line \in Line, NEW c \in Nat
  PROVE  Stands(line, utf8_clamp_col(line, c))
<1> DEFINE k == IF c > Len(line) THEN Len(line) ELSE c
<1>0. k \in 0 .. Len(line) /\ Len(line) \in Nat
  BY DEF Line
<1>1. utf8_clamp_col(line, c)
        = IF 0 < k /\ k < Len(line) /\ line[k + 1] \in Cont
            THEN utf8_prev_boundary(line, k) ELSE k
  BY DEF utf8_clamp_col
<1> HIDE DEF k
<1>2. CASE 0 < k /\ k < Len(line) /\ line[k + 1] \in Cont
  BY <1>0, <1>1, <1>2, PrevBoundaryStands DEF Stands
<1>3. CASE ~(0 < k /\ k < Len(line) /\ line[k + 1] \in Cont)
  BY <1>0, <1>1, <1>3 DEF Stands
<1> QED BY <1>2, <1>3

(* A line that does not begin inside a character, and has the characters of  *)
(* a set only.                                                               *)
Begun(line) == line = << >> \/ line[1] \notin Cont

Whole(line, K) == Begun(line) /\ Chars(line) \subseteq K

WholeText(L, K) == \A i \in 1 .. Len(L) : Whole(L[i], K)

LEMMA CharsWithin ==
  ASSUME NEW line \in Line, NEW K,
         \A c \in 0 .. Len(line), n \in 0 .. Len(line) :
           IsChar(line, c, n) => SubSeq(line, c + 1, n) \in K
  PROVE  Chars(line) \subseteq K
BY DEF Chars

LEMMA CharIsIn ==
  ASSUME NEW line \in Line, NEW K, Chars(line) \subseteq K,
         NEW c \in 0 .. Len(line), NEW n \in 0 .. Len(line), IsChar(line, c, n)
  PROVE  SubSeq(line, c + 1, n) \in K
<1> DEFINE P == {q \in (0 .. Len(line)) \X (0 .. Len(line)) : IsChar(line, q[1], q[2])}
<1>1. <<c, n>> \in P /\ <<c, n>>[1] = c /\ <<c, n>>[2] = n
  OBVIOUS
<1>2. \A p \in P : SubSeq(line, p[1] + 1, p[2]) \in K
  BY DEF Chars
<1> HIDE DEF P
<1> QED BY <1>1, <1>2

(* A part of a line between two characters.                                  *)
LEMMA PartWhole ==
  ASSUME NEW line \in Line, NEW K, Whole(line, K),
         NEW i \in Nat, NEW j \in 0 .. Len(line), i <= j,
         Stands(line, i), Stands(line, j), NEW m \in Int, m = i + 1
  PROVE  Whole(SubSeq(line, m, j), K)
<1> DEFINE p == SubSeq(line, m, j)
<1>1. /\ p \in Line /\ Len(p) = j - i /\ Len(line) \in Nat /\ j \in Nat
      /\ \A k \in 1 .. (j - i) : p[k] = line[i + k]
  BY PieceOfLine DEF Line
<1> HIDE DEF p
<1>2. Begun(p)
  <2>1. CASE i = j
    <3>1. p \in Seq(Byte) /\ Len(p) = 0
      BY <1>1, <2>1 DEF Line
    <3> QED BY <3>1, EmptySeq DEF Begun
  <2>2. CASE i # j
    <3>1. 1 \in 1 .. (j - i) /\ i < Len(line)
      BY <1>1, <2>2
    <3>2. p[1] = line[i + 1]
      BY <1>1, <3>1
    <3>3. line # << >>
      BY <1>1, <3>1
    <3>4. line[i + 1] \notin Cont
      BY <3>1, <3>3 DEF Stands, Whole, Begun
    <3> QED BY <3>2, <3>4 DEF Begun
  <2> QED BY <2>1, <2>2
<1>3. ASSUME NEW c \in 0 .. Len(p), NEW n \in 0 .. Len(p), IsChar(p, c, n)
      PROVE  SubSeq(p, c + 1, n) \in K
  <2> DEFINE d == i + c
             e == i + n
  <2>1. /\ c \in Nat /\ n \in Nat /\ c < n /\ n <= j - i
        /\ d \in 0 .. Len(line) /\ e \in 0 .. Len(line) /\ d < e /\ e <= j
    BY <1>1, <1>3 DEF IsChar
  <2>2. d = 0 \/ line[d + 1] \notin Cont
    <3>1. CASE c = 0
      <4>1. d = i /\ i < Len(line)
        BY <1>1, <2>1, <3>1
      <4> QED BY <4>1 DEF Stands
    <3>2. CASE c # 0
      <4>1. p[c + 1] \notin Cont
        BY <1>3, <3>2 DEF IsChar
      <4>2. c + 1 \in 1 .. (j - i) /\ i + (c + 1) = d + 1
        BY <1>1, <2>1
      <4> QED BY <1>1, <4>1, <4>2
    <3> QED BY <3>1, <3>2
  <2>3. ASSUME NEW k \in (d + 2) .. e PROVE line[k] \in Cont
    <3> DEFINE h == k - i
    <3>1. h \in (c + 2) .. n /\ h \in 1 .. (j - i) /\ i + h = k
      BY <1>1, <2>1
    <3>2. p[h] \in Cont
      BY <1>3, <3>1 DEF IsChar
    <3> HIDE DEF h
    <3> QED BY <1>1, <3>1, <3>2
  <2>4. e = Len(line) \/ line[e + 1] \notin Cont
    <3>1. CASE n = Len(p)
      <4>1. e = j /\ e # 0
        BY <1>1, <2>1, <3>1
      <4> QED BY <4>1 DEF Stands
    <3>2. CASE n # Len(p)
      <4>1. p[n + 1] \notin Cont
        BY <1>3, <3>2 DEF IsChar
      <4>2. n + 1 \in 1 .. (j - i) /\ i + (n + 1) = e + 1
        BY <1>1, <2>1, <3>2
      <4> QED BY <1>1, <4>1, <4>2
    <3> QED BY <3>1, <3>2
  <2>5. IsChar(line, d, e)
    BY <2>1, <2>2, <2>3, <2>4 DEF IsChar
  <2>6. SubSeq(line, d + 1, e) \in K
    BY <2>1, <2>5, CharIsIn DEF Whole
  <2>7. SubSeq(p, c + 1, n) = SubSeq(line, d + 1, e)
    <3> DEFINE x == SubSeq(p, c + 1, n)
               y == SubSeq(line, d + 1, e)
               c1 == c + 1
               d1 == d + 1
    <3>1. /\ x \in Line /\ Len(x) = n - c
          /\ \A k \in 1 .. (n - c) : x[k] = p[c + k]
      <4>1. c \in Nat /\ n \in 0 .. Len(p) /\ c <= n /\ c1 \in Int /\ c1 = c + 1
        BY <2>1
      <4> QED BY <1>1, <4>1, PieceOfLine
    <3>2. /\ y \in Line /\ Len(y) = e - d
          /\ \A k \in 1 .. (e - d) : y[k] = line[d + k]
      <4>1. d \in Nat /\ e \in 0 .. Len(line) /\ d <= e /\ d1 \in Int /\ d1 = d + 1
        BY <2>1
      <4> HIDE DEF d, e
      <4> QED BY <1>1, <4>1, PieceOfLine
    <3> HIDE DEF x, y
    <3>3. e - d = n - c
      BY <2>1
    <3>4. ASSUME NEW k \in 1 .. Len(x) PROVE x[k] = y[k]
      <4>1. k \in 1 .. (n - c) /\ c + k \in 1 .. (j - i) /\ i + (c + k) = d + k
        BY <1>1, <2>1, <3>1
      <4>2. p[c + k] = line[i + (c + k)]
        BY <1>1, <4>1
      <4> QED BY <3>1, <3>2, <3>3, <4>1, <4>2
    <3>5. x = y
      BY <3>1, <3>2, <3>3, <3>4, LineEqual
    <3> QED BY <3>5 DEF x, y
  <2> QED BY <2>6, <2>7
<1>4. Chars(p) \subseteq K
  BY <1>1, <1>3, CharsWithin
<1> QED BY <1>2, <1>4 DEF Whole, p

(* Two lines put together, where the second does not continue a character of *)
(* the first.                                                                *)
LEMMA ConcatWhole ==
  ASSUME NEW K, NEW s \in Line, NEW t \in Line, Whole(s, K), Whole(t, K)
  PROVE  Whole(s \o t, K)
<1> DEFINE st == s \o t
           m  == Len(s)
<1>1. /\ st \in Line /\ m \in Nat /\ Len(t) \in Nat /\ Len(st) = m + Len(t)
      /\ \A i \in 1 .. m : st[i] = s[i]
      /\ \A i \in 1 .. Len(t) : st[m + i] = t[i]
  BY LineConcatProperties
<1> HIDE DEF st
<1>2. Begun(st)
  <2>1. CASE s = << >>
    <3>1. m = 0
      BY <2>1
    <3>2. CASE t = << >>
      <4>1. st \in Seq(Byte) /\ Len(st) = 0
        BY <1>1, <3>1, <3>2 DEF Line
      <4> QED BY <4>1, EmptySeq DEF Begun
    <3>3. CASE t # << >>
      <4>1. Len(t) # 0
        BY <3>3, EmptySeq DEF Line
      <4>2. 1 \in 1 .. Len(t) /\ m + 1 = 1
        BY <1>1, <3>1, <4>1
      <4>3. st[1] = t[1] /\ t[1] \notin Cont
        BY <1>1, <3>3, <4>2 DEF Whole, Begun
      <4> QED BY <4>3 DEF Begun
    <3> QED BY <3>2, <3>3
  <2>2. CASE s # << >>
    <3>1. m # 0
      BY <2>2, EmptySeq DEF Line
    <3>2. 1 \in 1 .. m
      BY <1>1, <3>1
    <3>3. st[1] = s[1] /\ s[1] \notin Cont
      BY <1>1, <2>2, <3>2 DEF Whole, Begun
    <3> QED BY <3>3 DEF Begun
  <2> QED BY <2>1, <2>2
<1>3. ASSUME NEW c \in 0 .. Len(st), NEW n \in 0 .. Len(st), IsChar(st, c, n)
      PROVE  SubSeq(st, c + 1, n) \in K
  <2> HIDE DEF m
  <2> DEFINE c1 == c + 1
             x  == SubSeq(st, c1, n)
  <2>1. c \in Nat /\ n \in Nat /\ c < n /\ n <= m + Len(t)
    BY <1>1, <1>3 DEF IsChar
  <2>2. x \in Line /\ Len(x) = n - c /\ \A k \in 1 .. (n - c) : x[k] = st[c + k]
    <3>1. c \in Nat /\ n \in 0 .. Len(st) /\ c <= n /\ c1 \in Int /\ c1 = c + 1
      BY <2>1
    <3> QED BY <1>1, <3>1, PieceOfLine
  <2> HIDE DEF x
  <2>3. CASE n <= m
    <3> DEFINE y == SubSeq(s, c1, n)
    <3>1. c \in 0 .. m /\ n \in 0 .. m
      BY <1>1, <2>1, <2>3
    <3>2. IsChar(s, c, n)
      <4>1. c = 0 \/ s[c + 1] \notin Cont
        <5>1. c + 1 \in 1 .. m
          BY <1>1, <2>1, <2>3
        <5> QED BY <1>1, <1>3, <5>1 DEF IsChar
      <4>2. ASSUME NEW k \in (c + 2) .. n PROVE s[k] \in Cont
        <5>1. k \in 1 .. m
          BY <1>1, <2>1, <2>3
        <5> QED BY <1>1, <1>3, <5>1 DEF IsChar
      <4>3. n = m \/ s[n + 1] \notin Cont
        <5> SUFFICES ASSUME n # m PROVE s[n + 1] \notin Cont
          OBVIOUS
        <5>1. n + 1 \in 1 .. m /\ n # Len(st)
          BY <1>1, <2>1, <2>3
        <5> QED BY <1>1, <1>3, <5>1 DEF IsChar
      <4> QED BY <2>1, <4>1, <4>2, <4>3 DEF IsChar, m
    <3>3. y \in K
      BY <3>1, <3>2, CharIsIn DEF Whole, m
    <3>4. y \in Line /\ Len(y) = n - c /\ \A k \in 1 .. (n - c) : y[k] = s[c + k]
      <4>1. c \in Nat /\ n \in 0 .. Len(s) /\ c <= n /\ c1 \in Int /\ c1 = c + 1
        BY <2>1, <3>1 DEF m
      <4> QED BY <4>1, PieceOfLine
    <3> HIDE DEF y
    <3>5. ASSUME NEW k \in 1 .. Len(x) PROVE x[k] = y[k]
      <4>1. k \in 1 .. (n - c) /\ c + k \in 1 .. m
        BY <1>1, <2>1, <2>2, <3>1
      <4> QED BY <1>1, <2>2, <3>4, <4>1
    <3>6. x = y
      BY <2>2, <3>4, <3>5, LineEqual
    <3> QED BY <3>3, <3>6 DEF x
  <2>4. CASE m <= c
    <3> DEFINE d == c - m
               e == n - m
               d1 == d + 1
               y == SubSeq(t, d1, e)
    <3>1. /\ d \in 0 .. Len(t) /\ e \in 0 .. Len(t) /\ d < e
          /\ m + d = c /\ m + e = n /\ d \in Nat /\ d <= e /\ e - d = n - c
      BY <1>1, <2>1, <2>4
    <3> HIDE DEF d, e
    <3>2. IsChar(t, d, e)
      <4>1. d = 0 \/ t[d + 1] \notin Cont
        <5> SUFFICES ASSUME d # 0 PROVE t[d + 1] \notin Cont
          OBVIOUS
        <5>1. d + 1 \in 1 .. Len(t) /\ m + (d + 1) = c + 1 /\ c # 0
          BY <1>1, <3>1
        <5>2. st[c + 1] \notin Cont
          BY <1>3, <5>1 DEF IsChar
        <5> QED BY <1>1, <5>1, <5>2
      <4>2. ASSUME NEW k \in (d + 2) .. e PROVE t[k] \in Cont
        <5>1. k \in 1 .. Len(t) /\ m + k \in (c + 2) .. n
          BY <1>1, <3>1
        <5>2. st[m + k] \in Cont
          BY <1>3, <5>1 DEF IsChar
        <5> QED BY <1>1, <5>1, <5>2
      <4>3. e = Len(t) \/ t[e + 1] \notin Cont
        <5> SUFFICES ASSUME e # Len(t) PROVE t[e + 1] \notin Cont
          OBVIOUS
        <5>1. e + 1 \in 1 .. Len(t) /\ m + (e + 1) = n + 1 /\ n # Len(st)
          BY <1>1, <3>1
        <5>2. st[n + 1] \notin Cont
          BY <1>3, <5>1 DEF IsChar
        <5> QED BY <1>1, <5>1, <5>2
      <4> QED BY <3>1, <4>1, <4>2, <4>3 DEF IsChar
    <3>3. y \in K
      BY <3>1, <3>2, CharIsIn DEF Whole
    <3>4. y \in Line /\ Len(y) = e - d /\ \A k \in 1 .. (e - d) : y[k] = t[d + k]
      <4>1. d1 \in Int /\ d1 = d + 1
        BY <3>1
      <4> QED BY <3>1, <4>1, PieceOfLine
    <3> HIDE DEF y
    <3>5. ASSUME NEW k \in 1 .. Len(x) PROVE x[k] = y[k]
      <4>1. k \in 1 .. (n - c) /\ d + k \in 1 .. Len(t) /\ m + (d + k) = c + k
        BY <1>1, <2>1, <2>2, <3>1
      <4>2. st[m + (d + k)] = t[d + k]
        BY <1>1, <4>1
      <4> QED BY <2>2, <3>1, <3>4, <4>1, <4>2
    <3>6. x = y
      BY <2>2, <3>1, <3>4, <3>5, LineEqual
    <3> QED BY <3>3, <3>6 DEF x
  <2>5. CASE c < m /\ m < n
    <3>1. m + 1 \in (c + 2) .. n /\ 1 \in 1 .. Len(t)
      BY <1>1, <2>1, <2>5
    <3>2. st[m + 1] \in Cont /\ st[m + 1] = t[1]
      BY <1>1, <1>3, <3>1 DEF IsChar
    <3>3. t # << >>
      BY <3>1
    <3> QED BY <3>2, <3>3 DEF Whole, Begun
  <2> QED BY <1>1, <2>1, <2>3, <2>4, <2>5
<1>4. Chars(st) \subseteq K
  BY <1>1, <1>3, CharsWithin
<1> QED BY <1>2, <1>4 DEF Whole, st

LEMMA JoinWhole ==
  ASSUME NEW K, NEW s \in Text, NEW t \in Text, WholeText(s, K), WholeText(t, K)
  PROVE  Join(s, t) \in Text /\ WholeText(Join(s, t), K)
<1> DEFINE st == Join(s, t)
<1>1. /\ st \in Text /\ Len(st) = Len(s) + Len(t) - 1
      /\ \A i \in 1 .. (Len(s) - 1) : st[i] = s[i]
      /\ st[Len(s)] = s[Len(s)] \o t[1]
      /\ \A i \in 2 .. Len(t) : st[Len(s) + i - 1] = t[i]
  BY JoinType, JoinLines
<1>2. /\ Len(s) \in Nat \ {0} /\ \A i \in 1 .. Len(s) : s[i] \in Line
      /\ Len(t) \in Nat \ {0} /\ \A i \in 1 .. Len(t) : t[i] \in Line
  BY TextLines
<1> HIDE DEF st
<1>3. ASSUME NEW i \in 1 .. Len(st) PROVE Whole(st[i], K)
  <2>1. CASE i \in 1 .. (Len(s) - 1)
    <3>1. i \in 1 .. Len(s)
      BY <1>2, <2>1
    <3> QED BY <1>1, <2>1, <3>1 DEF WholeText
  <2>2. CASE i = Len(s)
    <3>1. Len(s) \in 1 .. Len(s) /\ 1 \in 1 .. Len(t)
      BY <1>2
    <3>2. /\ s[Len(s)] \in Line /\ t[1] \in Line
          /\ Whole(s[Len(s)], K) /\ Whole(t[1], K)
      BY <1>2, <3>1 DEF WholeText
    <3>3. Whole(s[Len(s)] \o t[1], K)
      BY <3>2, ConcatWhole
    <3> QED BY <1>1, <2>2, <3>3
  <2>3. CASE i > Len(s)
    <3> DEFINE k == i - Len(s) + 1
    <3>1. k \in 2 .. Len(t) /\ k \in 1 .. Len(t) /\ Len(s) + k - 1 = i
      BY <1>1, <1>2, <2>3
    <3> HIDE DEF k
    <3>2. st[i] = t[k]
      BY <1>1, <3>1
    <3> QED BY <3>1, <3>2 DEF WholeText
  <2> QED BY <1>1, <1>2, <2>1, <2>2, <2>3
<1> QED BY <1>1, <1>3 DEF WholeText, st

LEMMA BeforeWhole ==
  ASSUME NEW K, NEW L \in Text, WholeText(L, K), NEW r, NEW c, OnChar(L, r, c)
  PROVE  Before(L, r, c) \in Text /\ WholeText(Before(L, r, c), K)
<1> DEFINE b == Before(L, r, c)
<1>1. /\ r \in 0 .. (Len(L) - 1) /\ c \in 0 .. Len(L[r + 1]) /\ Stands(L[r + 1], c)
  BY DEF OnChar, Position
<1>2. Len(L) \in Nat /\ L[r + 1] \in Line /\ Len(L[r + 1]) \in Nat /\ r \in Nat
  BY <1>1, RowType
<1>3. /\ b \in Text /\ Len(b) = r + 1
      /\ \A i \in 1 .. r : b[i] = L[i]
      /\ b[r + 1] = SubSeq(L[r + 1], 1, c)
  BY <1>1, BeforeType, BeforeLines
<1> HIDE DEF b
<1>4. r + 1 \in 1 .. Len(L)
  BY <1>1, <1>2
<1>5. Whole(SubSeq(L[r + 1], 1, c), K)
  <2>1. Whole(L[r + 1], K)
    BY <1>4 DEF WholeText
  <2>2. 0 \in Nat /\ 0 <= c /\ 1 \in Int /\ 1 = 0 + 1 /\ Stands(L[r + 1], 0)
    BY <1>1, <1>2 DEF Stands
  <2> QED BY <1>1, <1>2, <2>1, <2>2, PartWhole
<1>6. ASSUME NEW i \in 1 .. Len(b) PROVE Whole(b[i], K)
  <2>1. i \in 1 .. r \/ i = r + 1
    BY <1>2, <1>3
  <2>2. CASE i \in 1 .. r
    <3>1. i \in 1 .. Len(L)
      BY <1>1, <1>2, <2>2
    <3> QED BY <1>3, <2>2, <3>1 DEF WholeText
  <2>3. CASE i = r + 1
    BY <1>3, <1>5, <2>3
  <2> QED BY <2>1, <2>2, <2>3
<1> QED BY <1>3, <1>6 DEF WholeText, b

LEMMA AfterWhole ==
  ASSUME NEW K, NEW L \in Text, WholeText(L, K), NEW r, NEW c, OnChar(L, r, c)
  PROVE  After(L, r, c) \in Text /\ WholeText(After(L, r, c), K)
<1> DEFINE a == After(L, r, c)
           m == c + 1
<1>1. /\ r \in 0 .. (Len(L) - 1) /\ c \in 0 .. Len(L[r + 1]) /\ Stands(L[r + 1], c)
  BY DEF OnChar, Position
<1>2. Len(L) \in Nat /\ L[r + 1] \in Line /\ Len(L[r + 1]) \in Nat /\ r \in Nat
  BY <1>1, RowType
<1>3. /\ a \in Text /\ Len(a) = Len(L) - r
      /\ a[1] = SubSeq(L[r + 1], m, Len(L[r + 1]))
      /\ \A i \in 2 .. (Len(L) - r) : a[i] = L[r + i]
  BY <1>1, AfterType, AfterLines
<1> HIDE DEF a
<1>4. r + 1 \in 1 .. Len(L)
  BY <1>1, <1>2
<1>5. Whole(SubSeq(L[r + 1], m, Len(L[r + 1])), K)
  <2>1. Whole(L[r + 1], K)
    BY <1>4 DEF WholeText
  <2>2. /\ c \in Nat /\ c <= Len(L[r + 1]) /\ m \in Int /\ m = c + 1
        /\ Len(L[r + 1]) \in 0 .. Len(L[r + 1])
    BY <1>1, <1>2
  <2>3. Stands(L[r + 1], Len(L[r + 1]))
    BY DEF Stands
  <2> HIDE DEF m
  <2> QED BY <1>1, <1>2, <2>1, <2>2, <2>3, PartWhole
<1>6. ASSUME NEW i \in 1 .. Len(a) PROVE Whole(a[i], K)
  <2>1. i = 1 \/ i \in 2 .. (Len(L) - r)
    BY <1>2, <1>3
  <2>2. CASE i \in 2 .. (Len(L) - r)
    <3>1. r + i \in 1 .. Len(L)
      BY <1>1, <1>2, <2>2
    <3> QED BY <1>3, <2>2, <3>1 DEF WholeText
  <2>3. CASE i = 1
    BY <1>3, <1>5, <2>3
  <2> QED BY <2>1, <2>2, <2>3
<1> QED BY <1>3, <1>6 DEF WholeText, a

(* What stands before whole characters stands at one.                        *)
LEMMA StandsBefore ==
  ASSUME NEW L \in Text, NEW r, NEW c, Position(L, r, c), Begun(After(L, r, c)[1])
  PROVE  OnChar(L, r, c)
<1> DEFINE line == L[r + 1]
           m    == c + 1
           part == SubSeq(line, m, Len(line))
<1>1. /\ r \in 0 .. (Len(L) - 1) /\ c \in 0 .. Len(line)
  BY DEF Position
<1>2. line \in Line /\ Len(line) \in Nat
  BY <1>1, RowType
<1>3. After(L, r, c)[1] = part
  BY <1>1, AfterLines
<1> HIDE DEF line
<1>4. Len(part) = Len(line) - c /\ \A k \in 1 .. (Len(line) - c) : part[k] = line[c + k]
  <2>1. /\ c \in Nat /\ Len(line) \in 0 .. Len(line) /\ c <= Len(line)
        /\ m \in Int /\ m = c + 1
    BY <1>1, <1>2
  <2> QED BY <1>2, <2>1, PieceOfLine
<1>5. Begun(part)
  BY <1>3
<1> HIDE DEF part
<1>6. Stands(line, c)
  <2> SUFFICES ASSUME c # Len(line) PROVE line[c + 1] \notin Cont
    BY DEF Stands
  <2>1. 1 \in 1 .. (Len(line) - c)
    BY <1>1, <1>2
  <2>2. part[1] = line[c + 1] /\ part # << >>
    BY <1>4, <2>1
  <2> QED BY <1>5, <2>2 DEF Begun
<1> QED BY <1>6 DEF OnChar, line

LEMMA InsertWhole ==
  ASSUME NEW K, NEW L \in Text, WholeText(L, K), NEW r, NEW c, OnChar(L, r, c),
         NEW text \in Text, WholeText(text, K)
  PROVE  LET new     == InsertText(L, r, c, text)
             end_row == r + Len(text) - 1
             end_col == InsertEndCol(c, text)
         IN  /\ new \in Text /\ WholeText(new, K)
             /\ OnChar(new, end_row, end_col)
<1> DEFINE b == Before(L, r, c)
           a == After(L, r, c)
           new     == InsertText(L, r, c, text)
           end_row == r + Len(text) - 1
           end_col == InsertEndCol(c, text)
<1>1. /\ b \in Text /\ WholeText(b, K) /\ a \in Text /\ WholeText(a, K)
  BY BeforeWhole, AfterWhole
<1>2. /\ new \in Text /\ Position(new, end_row, end_col)
      /\ After(new, end_row, end_col) = a
  BY InsertEnd DEF OnChar
<1>3. WholeText(new, K)
  <2>1. new = Join(Join(b, text), a)
    BY DEF InsertText
  <2> HIDE DEF b, a, new
  <2>2. Join(b, text) \in Text /\ WholeText(Join(b, text), K)
    BY <1>1, JoinWhole
  <2> QED BY <1>1, <2>1, <2>2, JoinWhole
<1>4. Begun(a[1])
  <2> HIDE DEF a
  <2>1. 1 \in 1 .. Len(a)
    BY <1>1, TextLines
  <2> QED BY <1>1, <2>1 DEF WholeText, Whole
<1> HIDE DEF new, end_row, end_col, a
<1>5. OnChar(new, end_row, end_col)
  BY <1>2, <1>4, StandsBefore
<1> QED BY <1>2, <1>3, <1>5 DEF new, end_row, end_col

LEMMA DeleteWhole ==
  ASSUME NEW K, NEW L \in Text, WholeText(L, K),
         NEW r1, NEW c1, NEW r2, NEW c2, OnChar(L, r1, c1), OnChar(L, r2, c2)
  PROVE  LET new == DeleteBetween(L, r1, c1, r2, c2)
         IN  new \in Text /\ WholeText(new, K) /\ OnChar(new, r1, c1)
<1> DEFINE b == Before(L, r1, c1)
           a == After(L, r2, c2)
           new == DeleteBetween(L, r1, c1, r2, c2)
<1>1. /\ b \in Text /\ WholeText(b, K) /\ a \in Text /\ WholeText(a, K)
  BY BeforeWhole, AfterWhole
<1>2. new \in Text /\ Position(new, r1, c1) /\ After(new, r1, c1) = a
  BY DeletePlaces DEF OnChar
<1>3. new = Join(b, a)
  BY DEF DeleteBetween
<1> HIDE DEF b, a, new
<1>4. WholeText(new, K)
  BY <1>1, <1>3, JoinWhole
<1>5. Begun(a[1])
  <2>1. 1 \in 1 .. Len(a)
    BY <1>1, TextLines
  <2> QED BY <1>1, <2>1 DEF WholeText, Whole
<1>6. OnChar(new, r1, c1)
  BY <1>2, <1>5, StandsBefore
<1> QED BY <1>2, <1>4, <1>6 DEF new

LEMMA PieceWhole ==
  ASSUME NEW K, NEW L \in Text, WholeText(L, K),
         NEW r1, NEW c1, NEW r2, NEW c2, OnChar(L, r1, c1), OnChar(L, r2, c2),
         NotAfter(r1, c1, r2, c2)
  PROVE  WholeText(Piece(L, r1, c1, r2, c2), K)
<1> DEFINE head == Before(L, r2, c2)
<1>1. head \in Text /\ WholeText(head, K)
  BY BeforeWhole
<1>2. Position(L, r1, c1) /\ Position(L, r2, c2) /\ Stands(L[r1 + 1], c1)
  BY DEF OnChar
<1>3. Position(head, r1, c1)
  BY <1>2, BeforeBefore
<1>4. Stands(head[r1 + 1], c1)
  <2>1. /\ r2 \in 0 .. (Len(L) - 1) /\ c2 \in 0 .. Len(L[r2 + 1]) /\ Len(L) \in Nat
        /\ r1 \in 0 .. (Len(L) - 1) /\ r1 \in Nat /\ r2 \in Nat
        /\ L[r2 + 1] \in Line /\ c1 \in Nat /\ c2 \in Nat
    BY <1>2, ClampPlace, TextLines
  <2>2. /\ \A i \in 1 .. r2 : head[i] = L[i]
        /\ head[r2 + 1] = SubSeq(L[r2 + 1], 1, c2)
    BY <2>1, BeforeLines
  <2> HIDE DEF head
  <2>3. CASE r1 < r2
    <3>1. r1 + 1 \in 1 .. r2
      BY <2>1, <2>3
    <3> QED BY <1>2, <2>2, <3>1
  <2>4. CASE r1 = r2 /\ c1 <= c2
    <3> DEFINE p == SubSeq(L[r2 + 1], 1, c2)
    <3>1. Len(p) = c2 /\ \A k \in 1 .. c2 : p[k] = L[r2 + 1][k]
      BY <2>1, FirstBytes
    <3> HIDE DEF p
    <3>2. Stands(p, c1)
      <4>1. CASE c1 = c2
        BY <3>1, <4>1 DEF Stands
      <4>2. CASE c1 # c2
        <5>1. c1 + 1 \in 1 .. c2 /\ c1 # Len(L[r1 + 1])
          BY <2>1, <2>4, <4>2
        <5>2. p[c1 + 1] = L[r1 + 1][c1 + 1]
          BY <2>4, <3>1, <5>1
        <5> QED BY <1>2, <5>1, <5>2 DEF Stands
      <4> QED BY <4>1, <4>2
    <3> QED BY <2>2, <2>4, <3>2 DEF p
  <2> QED BY <2>3, <2>4 DEF NotAfter
<1> HIDE DEF head
<1>5. OnChar(head, r1, c1)
  BY <1>3, <1>4 DEF OnChar
<1> QED BY <1>1, <1>5, AfterWhole DEF Piece, head

LEMMA OneCharWhole ==
  ASSUME NEW K, NEW ch \in Byte, ch \notin Cont, << ch >> \in K
  PROVE  << <<ch>> >> \in Text /\ WholeText(<< <<ch>> >>, K)
<1> DEFINE line == << ch >>
<1>1. line \in Line /\ Len(line) = 1 /\ line[1] = ch /\ line # << >>
  BY DEF Line
<1>2. line \in K
  OBVIOUS
<1> HIDE DEF line
<1>3. ASSUME NEW c \in 0 .. Len(line), NEW n \in 0 .. Len(line), IsChar(line, c, n)
      PROVE  SubSeq(line, c + 1, n) \in K
  <2>1. c < n
    BY <1>3 DEF IsChar
  <2>2. c + 1 = 1 /\ n = Len(line)
    BY <1>1, <2>1
  <2>3. SubSeq(line, 1, Len(line)) = line
    BY <1>1, WholeLine
  <2> QED BY <1>2, <2>2, <2>3
<1>4. Chars(line) \subseteq K
  BY <1>1, <1>3, CharsWithin
<1>5. Whole(line, K)
  BY <1>1, <1>4 DEF Whole, Begun
<1>6. << line >> \in Text /\ Len(<< line >>) = 1 /\ << line >>[1] = line
  BY <1>1, OneLineText
<1>7. WholeText(<< line >>, K)
  <2> DEFINE T == << line >>
  <2>1. Len(T) = 1 /\ T[1] = line
    BY <1>6
  <2> HIDE DEF T
  <2>2. WholeText(T, K)
    BY <1>5, <2>1 DEF WholeText
  <2> QED BY <2>2 DEF T
<1> QED BY <1>6, <1>7 DEF line

LEMMA EmptyWhole ==
  ASSUME NEW K
  PROVE  Whole(<< >>, K)
<1> DEFINE line == << >>
<1>1. line \in Line /\ Len(line) = 0
  BY DEF Line
<1> HIDE DEF line
<1>2. \A c \in 0 .. Len(line), n \in 0 .. Len(line) : ~IsChar(line, c, n)
  BY <1>1 DEF IsChar
<1>3. Chars(line) \subseteq K
  BY <1>1, <1>2, CharsWithin
<1> QED BY <1>3 DEF line, Whole, Begun

LEMMA NewlineWhole ==
  ASSUME NEW K
  PROVE  Newline \in Text /\ WholeText(Newline, K) /\ Len(Newline) = 2
         /\ InsertEndCol(0, Newline) = 0
<1>1. Newline \in Text /\ Len(Newline) = 2
  BY SmallTexts
<1>2. Newline[1] = << >> /\ Newline[2] = << >>
  BY DEF Newline
<1> QED BY <1>1, <1>2, EmptyWhole DEF WholeText, InsertEndCol

LEMMA LineIsWhole ==
  ASSUME NEW line \in Line
  PROVE  Chars(line) \subseteq Line
<1>1. ASSUME NEW c \in 0 .. Len(line), NEW n \in 0 .. Len(line)
      PROVE  SubSeq(line, c + 1, n) \in Line
  <2>1. c + 1 \in Nat \ {0} /\ n \in Int /\ n <= Len(line)
    BY DEF Line
  <2> QED BY <2>1, LinePart
<1> QED BY <1>1, CharsWithin

(* Only a word byte is continued.                                            *)
LEMMA LeadIsWord ==
  ASSUME NEW line \in Line, NEW K, Chars(line) \subseteq K,
         \A s \in K : Len(s) > 1 => s[1] \in WordByte,
         NEW d \in 0 .. (Len(line) - 1),
         line[utf8_prev_boundary(line, d + 1) + 1] \notin WordByte
  PROVE  line[d + 1] \notin WordByte
<1> DEFINE n == d + 1
           p == utf8_prev_boundary(line, n)
           e == utf8_next_boundary(line, p)
           s == SubSeq(line, p + 1, e)
<1>0. Len(line) \in Nat /\ d \in Nat /\ n \in Nat \ {0} /\ d < Len(line)
  BY DEF Line
<1>1. /\ p \in 0 .. d /\ (p = 0 \/ line[p + 1] \notin Cont)
      /\ \A c \in 0 .. d : (c = 0 \/ line[c + 1] \notin Cont) => c <= p
  BY <1>0, PrevBoundaryMax DEF StopsLeft
<1>a. line[p + 1] \notin WordByte
  OBVIOUS
<1> HIDE DEF p
<1>2. CASE p = d
  BY <1>a, <1>2
<1>3. CASE p # d
  <2>1. p \in Nat /\ p < d /\ p < Len(line)
    BY <1>0, <1>1, <1>3
  <2>2. /\ e \in (p + 1) .. Len(line) /\ (e = Len(line) \/ line[e + 1] \notin Cont)
        /\ \A c \in (p + 1) .. (e - 1) : line[c + 1] \in Cont
    <3> DEFINE T == StopsRight(line, p) \ {p}
    <3>1. T \in SUBSET ((p + 1) .. Len(line)) /\ Len(line) \in T
      BY <1>0, <2>1 DEF StopsRight
    <3>2. e = Min(T)
      BY <2>1, <1>0 DEF utf8_next_boundary
    <3>3. Min(T) \in T /\ \A y \in T : Min(T) <= y
      <4>1. T \in SUBSET Nat /\ T # {}
        BY <2>1, <3>1
      <4> HIDE DEF T
      <4> QED BY <4>1, MinNat
    <3> HIDE DEF e
    <3>4. e \in T /\ \A y \in T : e <= y
      BY <3>2, <3>3
    <3>5. e \in (p + 1) .. Len(line) /\ (e = Len(line) \/ line[e + 1] \notin Cont)
      BY <3>1, <3>4 DEF StopsRight
    <3>6. ASSUME NEW c \in (p + 1) .. (e - 1) PROVE line[c + 1] \in Cont
      <4>1. SUFFICES ASSUME line[c + 1] \notin Cont PROVE FALSE
        OBVIOUS
      <4>2. c \in T
        BY <1>0, <2>1, <3>5, <4>1 DEF StopsRight
      <4> HIDE DEF T
      <4> QED BY <3>4, <3>5, <2>1, <4>2
    <3> QED BY <3>5, <3>6
  <2> HIDE DEF e
  <2>3. e > d
    <3>1. CASE e = Len(line)
      BY <1>0, <3>1
    <3>2. CASE e # Len(line)
      BY <1>0, <1>1, <2>1, <2>2, <3>2
    <3> QED BY <3>1, <3>2
  <2>4. IsChar(line, p, e)
    <3>1. p < e /\ p + 1 \in Int
      BY <2>1, <2>2
    <3>2. ASSUME NEW k \in (p + 2) .. e PROVE line[k] \in Cont
      <4> DEFINE c == k - 1
      <4>1. c \in (p + 1) .. (e - 1) /\ c + 1 = k
        BY <2>1, <2>2
      <4> HIDE DEF c
      <4> QED BY <2>2, <4>1
    <3> QED BY <1>1, <2>2, <3>1, <3>2 DEF IsChar
  <2>5. s \in K
    BY <1>0, <2>1, <2>2, <2>4, CharIsIn
  <2>6. Len(s) = e - p /\ s[1] = line[p + 1]
    <3> DEFINE m == p + 1
    <3>1. m \in Int /\ m = p + 1 /\ p <= e /\ e \in 0 .. Len(line)
      BY <1>0, <2>1, <2>2
    <3> HIDE DEF m
    <3>2. Len(SubSeq(line, m, e)) = e - p /\ \A k \in 1 .. (e - p) : SubSeq(line, m, e)[k] = line[p + k]
      BY <2>1, <3>1, PieceOfLine
    <3>3. 1 \in 1 .. (e - p)
      BY <2>1, <2>2
    <3> QED BY <3>2, <3>3 DEF m
  <2> HIDE DEF s
  <2>7. Len(s) > 1
    BY <2>1, <2>2, <2>3, <2>6, <1>0
  <2> QED BY <1>a, <2>5, <2>6, <2>7
<1> QED BY <1>2, <1>3

(* No word begins in the part of a line that M-b passes over.                *)
LEMMA PassedNoWord ==
  ASSUME NEW line \in Line, NEW K, Chars(line) \subseteq K,
         \A s \in K : Len(s) > 1 => s[1] \in WordByte,
         NEW from \in 0 .. Len(line), NEW mid, NEW end,
         mid = SkipLeft(line, from, Byte \ WordByte),
         end = SkipLeft(line, mid, WordByte),
         NEW d \in (end + 1) .. (from - 1)
  PROVE  line[d] \in WordByte \/ line[d + 1] \notin WordByte
<1>1. from \in Nat /\ mid \in 0 .. from /\ end \in 0 .. mid /\ Len(line) \in Nat
      /\ mid \in 0 .. Len(line)
  <2>1. from \in Nat /\ Len(line) \in Nat
    BY DEF Line
  <2>2. mid \in 0 .. from
    BY <2>1, SkipLeftBefore
  <2>3. mid \in Nat /\ mid \in 0 .. Len(line)
    BY <2>1, <2>2
  <2>4. end \in 0 .. mid
    BY <2>3, SkipLeftBefore
  <2> QED BY <2>1, <2>2, <2>3, <2>4
<1>2. CASE d >= mid
  <2> DEFINE p == utf8_prev_boundary(line, d + 1)
  <2>1. d \in mid .. (from - 1) /\ d \in 0 .. (Len(line) - 1)
    BY <1>1, <1>2
  <2>2. line[p + 1] \in Byte \ WordByte
    BY <2>1, SkipLeftChars
  <2>3. line[d + 1] \notin WordByte
    BY <2>1, <2>2, LeadIsWord
  <2> QED BY <2>3
<1>3. CASE d < mid
  <2> DEFINE e == d - 1
             n == e + 1
             p == utf8_prev_boundary(line, n)
  <2>1. e \in end .. (mid - 1) /\ n = d /\ e \in Nat /\ n \in Nat \ {0} /\ e < Len(line)
    BY <1>1, <1>3
  <2> HIDE DEF e
  <2>2. p \in 0 .. e /\ line[p + 1] \in WordByte
    BY <1>1, <2>1, SkipLeftChars
  <2>3. \A c \in StopsLeft(line, n) : c <= p
    BY <2>1, PrevBoundaryMax
  <2> HIDE DEF p
  <2>4. CASE p = e
    BY <2>1, <2>2, <2>4
  <2>5. CASE p # e
    <3>1. e \notin StopsLeft(line, n)
      BY <2>1, <2>2, <2>3, <2>5
    <3>2. line[e + 1] \in Cont
      BY <2>1, <3>1 DEF StopsLeft
    <3> QED BY <2>1, <3>2, ByteClasses
  <2> QED BY <2>4, <2>5
<1> QED BY <1>1, <1>2, <1>3

=============================================================================
