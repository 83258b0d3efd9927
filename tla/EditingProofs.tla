--------------------------- MODULE EditingProofs ----------------------------
(***************************************************************************)
(* For every ring size, text and set of keys: type correctness of Editing,  *)
(* by the inductive invariant IInv, that its kill ring implements the       *)
(* history of kills, and what its commands do to the text, the cursor and   *)
(* the ring, with the history of a run of kills in KillRun.                 *)
(***************************************************************************)
EXTENDS KillRun, BufferTheorems

-----------------------------------------------------------------------------
(* The kill ring.                                                            *)

(* A kill keeps the ring within its size and the index on one of its texts.  *)
LEMMA KillSetType ==
  ASSUME RingTypeOK, NEW data \in Text, NEW append \in BOOLEAN,
         editor_kill_set(data, append)
  PROVE  RingTypeOK'
<1> USE RingSize
<1>1. CASE data = EmptyText
  BY <1>1 DEF editor_kill_set, RingTypeOK, ringVars
<1>2. CASE data # EmptyText /\ append /\ kill_ring # << >>
  <2>1. /\ kill_ring \in Seq(Text)
        /\ kill_ring_index + 1 \in 1 .. Len(kill_ring)
    BY <1>2 DEF RingTypeOK
  <2> DEFINE new == Join(kill_ring[kill_ring_index + 1], data)
  <2>2. new \in Text
    BY <2>1, ElementOfSeq, JoinType
  <2>3. kill_ring' = [kill_ring EXCEPT ![kill_ring_index + 1] = new]
    BY <1>2 DEF editor_kill_set, ExtendKill
  <2> HIDE DEF new
  <2>4. kill_ring' \in Seq(Text) /\ Len(kill_ring') = Len(kill_ring)
    BY <2>1, <2>2, <2>3, ExceptSeq
  <2>5. UNCHANGED kill_ring_index
    BY <1>2 DEF editor_kill_set, ExtendKill
  <2>6. kill_ring' # << >>
    BY <1>2, <2>1, <2>4
  <2> QED BY <1>2, <2>1, <2>4, <2>5, <2>6 DEF RingTypeOK
<1>3. CASE data # EmptyText /\ ~(append /\ kill_ring # << >>)
  <2>1. PushKill(data)
    BY <1>3 DEF editor_kill_set
  <2>2. CASE Len(kill_ring) < KILL_RING_MAX
    <3>1. /\ kill_ring' = Append(kill_ring, data)
          /\ kill_ring_index' = Len(kill_ring)
      BY <2>1, <2>2 DEF PushKill
    <3>2. /\ kill_ring' \in Seq(Text)
          /\ Len(kill_ring') = Len(kill_ring) + 1
          /\ kill_ring' # << >>
      BY <3>1, AppendProperties DEF RingTypeOK
    <3>3. Len(kill_ring) \in Nat
      BY DEF RingTypeOK
    <3> QED BY <2>2, <3>1, <3>2, <3>3 DEF RingTypeOK
  <2>3. CASE ~(Len(kill_ring) < KILL_RING_MAX)
    <3>1. /\ kill_ring_index' = (kill_ring_index + 1) % KILL_RING_MAX
          /\ kill_ring' = [kill_ring EXCEPT ![kill_ring_index' + 1] = data]
      BY <2>1, <2>3 DEF PushKill
    <3>2. /\ kill_ring \in Seq(Text) /\ Len(kill_ring) = KILL_RING_MAX
          /\ kill_ring_index \in Nat
      BY <2>3 DEF RingTypeOK
    <3>3. PICK i \in 0 .. (KILL_RING_MAX - 1) : kill_ring_index' = i
      <4> DEFINE n == kill_ring_index + 1
      <4>1. n \in Int /\ KILL_RING_MAX \in Int /\ KILL_RING_MAX > 0
        BY <3>2
      <4> HIDE DEF n
      <4>2. n % KILL_RING_MAX \in 0 .. (KILL_RING_MAX - 1)
        BY <4>1
      <4> QED BY <3>1, <4>2 DEF n
    <3>4. i + 1 \in 1 .. Len(kill_ring) /\ i \in Nat /\ i < KILL_RING_MAX
      BY <3>2, <3>3
    <3>5. kill_ring' \in Seq(Text) /\ Len(kill_ring') = Len(kill_ring)
      BY <3>1, <3>2, <3>3, <3>4, ExceptSeq
    <3>6. kill_ring' # << >>
      BY <3>2, <3>5
    <3> QED BY <3>2, <3>3, <3>4, <3>5, <3>6 DEF RingTypeOK
  <2> QED BY <2>2, <2>3
<1> QED BY <1>1, <1>2, <1>3

LEMMA RingUnchanged ==
  ASSUME RingTypeOK, UNCHANGED ringVars
  PROVE  RingTypeOK'
BY DEF RingTypeOK, ringVars

(* What a command may do to the ring.                                        *)
RingStep ==
  \/ UNCHANGED ringVars
  \/ \E data \in Text, append \in BOOLEAN : editor_kill_set(data, append)

LEMMA RingStepType ==
  ASSUME RingTypeOK, RingStep
  PROVE  RingTypeOK'
BY RingUnchanged, KillSetType DEF RingStep

-----------------------------------------------------------------------------
(* The invariant, and what a step must establish for it.                     *)

(* ESC and [ run the epilogue of editor_process_key, which clears the flags: *)
(* an auxiliary fact, by which YankPop is shown well typed.                  *)
EscClearsFlags ==
  esc_state # "ESC_NONE" => ~last_was_kill /\ ~last_was_yank

IInv == TypeOK /\ EscClearsFlags

(* The frame is on a row of the text.                                        *)
Placed(L, r, c) ==
  /\ lines' = L /\ L \in Text
  /\ row' = r /\ r \in 0 .. (Len(L) - 1)
  /\ col' = c /\ c \in Nat

MarkType == [active : BOOLEAN, row : Nat, col : Nat]
YankType == [start_row : Nat, start_col : Nat, end_row : Nat, end_col : Nat]

(* A command that ends an escape sequence and has a well-typed effect.       *)
LEMMA CommandStep ==
  ASSUME NEW L, NEW r, NEW c, Placed(L, r, c),
         RingTypeOK', mark' \in MarkType, yank' \in YankType,
         dirty' \in BOOLEAN, syntax_dirty' \in BOOLEAN,
         NEW k \in BOOLEAN, NEW y \in BOOLEAN, Done(k, y)
  PROVE  IInv'
BY DEF Placed, Done, IInv, TypeOK, EscClearsFlags, EscStates, MarkType, YankType

LEMMA MotionStep ==
  ASSUME IInv, Motion,
         NEW r \in 0 .. (Len(lines) - 1), NEW c \in Nat, row' = r, col' = c
  PROVE  IInv'
<1>1. Placed(lines, r, c)
  BY DEF Motion, Placed, IInv, TypeOK
<1>2. RingTypeOK'
  BY RingUnchanged DEF Motion, IInv, TypeOK
<1>3. /\ mark' \in MarkType /\ yank' \in YankType
      /\ dirty' \in BOOLEAN /\ syntax_dirty' \in BOOLEAN
  BY DEF Motion, flagVars, IInv, TypeOK, MarkType, YankType
<1>4. Done(FALSE, FALSE)
  BY DEF Motion
<1> QED BY <1>1, <1>2, <1>3, <1>4, CommandStep

LEMMA EditStep ==
  ASSUME IInv, Edit, NEW L, NEW r, NEW c, Placed(L, r, c)
  PROVE  IInv'
<1>1. RingTypeOK'
  BY RingUnchanged DEF Edit, IInv, TypeOK
<1>2. /\ mark' \in MarkType /\ yank' \in YankType
      /\ dirty' \in BOOLEAN /\ syntax_dirty' \in BOOLEAN
  BY DEF Edit, SetDirty, IInv, TypeOK, MarkType, YankType
<1>3. Done(FALSE, FALSE)
  BY DEF Edit
<1> QED BY <1>1, <1>2, <1>3, CommandStep

(* A kill: it may change the ring, the text and the frame.                   *)
LEMMA KillStep ==
  ASSUME IInv, NEW L, NEW r, NEW c, Placed(L, r, c), RingTypeOK',
         SetDirty \/ UNCHANGED flagVars,
         Done(TRUE, FALSE), UNCHANGED <<mark, yank>>
  PROVE  IInv'
<1>1. /\ mark' \in MarkType /\ yank' \in YankType
      /\ dirty' \in BOOLEAN /\ syntax_dirty' \in BOOLEAN
  BY DEF flagVars, SetDirty, IInv, TypeOK, MarkType, YankType
<1> QED BY <1>1, CommandStep

(* The facts about the cursor's line that the steps start from.              *)
LEMMA CurLineType ==
  ASSUME IInv
  PROVE  /\ lines \in Text /\ Len(lines) \in Nat
         /\ row \in Nat /\ row < Len(lines) /\ row \in 0 .. (Len(lines) - 1)
         /\ col \in Nat
         /\ CurLine \in Line /\ Len(CurLine) \in Nat
         /\ RingTypeOK
<1>1. lines \in Text /\ row \in 0 .. (Len(lines) - 1) /\ col \in Nat /\ RingTypeOK
  BY DEF IInv, TypeOK
<1> QED BY <1>1, RowType DEF CurLine

-----------------------------------------------------------------------------
(* Motion.                                                                   *)

(* The bytes that frame_move_prev_char reads do not matter to its type.      *)
LEMMA MovePrevCharType ==
  ASSUME NEW L \in Text, row \in Nat, col \in Nat,
         NEW mem, Len(mem) \in Nat, col > 0 => Len(mem) > 0,
         row <= Len(L), col > 0 \/ row = 0 => row < Len(L),
         MovePrevCharIn(L, mem)
  PROVE  \E r \in 0 .. (Len(L) - 1), c \in Nat : row' = r /\ col' = c
<1>1. Len(L) \in Nat /\ \A i \in 1 .. Len(L) : L[i] \in Line /\ Len(L[i]) \in Nat
  BY TextLines DEF Line
<1>2. CASE col > 0
  <2>1. row' = row /\ row \in 0 .. (Len(L) - 1)
    BY <1>1, <1>2 DEF MovePrevCharIn
  <2>2. col' \in PrevBoundaryIn(mem, col)
    BY <1>2 DEF MovePrevCharIn
  <2>3. PrevBoundaryIn(mem, col) \subseteq Nat
    BY <1>2, PrevBoundaryLeft DEF PrevBoundaryIn
  <2> QED BY <2>1, <2>2, <2>3
<1>3. CASE col = 0 /\ row = 0
  BY <1>1, <1>3 DEF MovePrevCharIn, frameVars
<1>4. CASE col = 0 /\ row # 0
  <2>1. row' = row - 1 /\ col' = Len(L[row])
    BY <1>4 DEF MovePrevCharIn
  <2>2. row - 1 \in 0 .. (Len(L) - 1) /\ row \in 1 .. Len(L)
    BY <1>1, <1>4
  <2> QED BY <1>1, <2>1, <2>2
<1> QED BY <1>2, <1>3, <1>4

LEMMA PrevCharPreserves ==
  ASSUME IInv, frame_move_prev_char
  PROVE  IInv'
<1> DEFINE mem == Append(CurLine, NUL)
<1>1. Len(mem) = Len(CurLine) + 1
  BY CurLineType DEF Line
<1>2. Len(mem) \in Nat /\ Len(mem) > 0
  BY <1>1, CurLineType
<1>3. MovePrevCharIn(lines, mem)
  BY DEF frame_move_prev_char
<1> HIDE DEF mem
<1>4. \E r \in 0 .. (Len(lines) - 1), c \in Nat : row' = r /\ col' = c
  BY <1>2, <1>3, CurLineType, MovePrevCharType
<1> QED BY <1>4, MotionStep DEF frame_move_prev_char

LEMMA LineMotionPreserves ==
  ASSUME IInv,
         \/ frame_move_prev_line \/ frame_move_next_line
         \/ frame_move_line_start \/ frame_move_line_end
         \/ frame_move_next_char
  PROVE  IInv'
<1> USE CurLineType
<1>0. \A i \in 1 .. Len(lines) :
        \A c \in Nat : utf8_clamp_col(lines[i], c) \in Nat
  <2> SUFFICES ASSUME NEW i \in 1 .. Len(lines), NEW c \in Nat
               PROVE  utf8_clamp_col(lines[i], c) \in Nat
    OBVIOUS
  <2>1. lines[i] \in Line /\ Len(lines[i]) \in Nat
    BY TextLines DEF Line
  <2> QED BY <2>1, ClampInLine
<1>1. CASE frame_move_prev_line
  <2>1. CASE row = 0
    BY <1>1, <2>1, MotionStep DEF frame_move_prev_line, frameVars
  <2>2. CASE row # 0
    <3>1. row \in 1 .. Len(lines) /\ row - 1 \in 0 .. (Len(lines) - 1)
      BY <2>2
    <3>2. utf8_clamp_col(lines[row], col) \in Nat
      BY <1>0, <3>1
    <3> QED BY <1>1, <2>2, <3>1, <3>2, MotionStep DEF frame_move_prev_line
  <2> QED BY <2>1, <2>2
<1>2. CASE frame_move_next_line
  <2>1. CASE row + 1 >= Len(lines)
    BY <1>2, <2>1, MotionStep DEF frame_move_next_line, frameVars
  <2>2. CASE ~(row + 1 >= Len(lines))
    <3>1. row + 2 \in 1 .. Len(lines) /\ row + 1 \in 0 .. (Len(lines) - 1)
      BY <2>2
    <3>2. utf8_clamp_col(lines[row + 2], col) \in Nat
      BY <1>0, <3>1
    <3> QED BY <1>2, <2>2, <3>1, <3>2, MotionStep DEF frame_move_next_line
  <2> QED BY <2>1, <2>2
<1>3. CASE frame_move_line_start
  BY <1>3, MotionStep DEF frame_move_line_start
<1>4. CASE frame_move_line_end
  BY <1>4, MotionStep DEF frame_move_line_end
<1>5. CASE frame_move_next_char
  <2>1. CASE col < Len(CurLine)
    <3>1. utf8_next_boundary(CurLine, col) \in Nat
      BY NextBoundaryInLine
    <3> QED BY <1>5, <2>1, <3>1, MotionStep DEF frame_move_next_char
  <2>2. CASE ~(col < Len(CurLine)) /\ row + 1 >= Len(lines)
    BY <1>5, <2>2, MotionStep DEF frame_move_next_char, frameVars
  <2>3. CASE ~(col < Len(CurLine)) /\ ~(row + 1 >= Len(lines))
    <3>1. row + 1 \in 0 .. (Len(lines) - 1)
      BY <2>3
    <3> QED BY <1>5, <2>3, <3>1, MotionStep DEF frame_move_next_char
  <2> QED BY <2>1, <2>2, <2>3
<1> QED BY <1>1, <1>2, <1>3, <1>4, <1>5

(* The row M-f ends on is one of those from the cursor's to the last.        *)
LEMMA NextWordPreserves ==
  ASSUME IInv, frame_move_next_word
  PROVE  IInv'
<1> DEFINE At(r) == WordEnd(r, IF r = row THEN col ELSE 0)
           T == {r \in row .. (Len(lines) - 1) :
                   r + 1 = Len(lines) \/ At(r) < Len(lines[r + 1])}
<1>1. row' = Min(T) /\ col' = At(row')
  BY DEF frame_move_next_word
<1>2. T \in SUBSET Nat /\ Len(lines) - 1 \in T
  BY CurLineType
<1>3. Min(T) \in T
  <2> HIDE DEF T
  <2> QED BY <1>2, MinNat
<1>4. Min(T) \in 0 .. (Len(lines) - 1)
  BY <1>3, CurLineType
<1>5. \A r \in 0 .. (Len(lines) - 1), c \in Nat : WordEnd(r, c) \in Nat
  <2> SUFFICES ASSUME NEW r \in 0 .. (Len(lines) - 1), NEW c \in Nat
               PROVE  WordEnd(r, c) \in Nat
    OBVIOUS
  <2> DEFINE line == lines[r + 1]
             from == utf8_clamp_col(line, c)
             mid  == SkipRight(line, from, Byte \ WordByte)
  <2>1. line \in Line /\ Len(line) \in Nat
    BY CurLineType, RowType
  <2>2. WordEnd(r, c) = SkipRight(line, mid, WordByte)
    BY DEF WordEnd
  <2> HIDE DEF line
  <2>3. from \in 0 .. Len(line)
    BY <2>1, ClampInLine
  <2> HIDE DEF from
  <2>4. mid \in 0 .. Len(line)
    BY <2>1, <2>3, SkipRightInLine
  <2> HIDE DEF mid
  <2> QED BY <2>1, <2>2, <2>4, SkipRightInLine
<1>6. At(Min(T)) \in Nat
  BY <1>4, <1>5, CurLineType
<1>7. Motion
  BY DEF frame_move_next_word
<1> HIDE DEF T, At
<1> QED BY <1>1, <1>4, <1>6, <1>7, MotionStep

LEMMA PrevWordPreserves ==
  ASSUME IInv, frame_move_prev_word
  PROVE  IInv'
<1> DEFINE here  == utf8_clamp_col(CurLine, col)
           above == {r \in 0 .. (row - 1) : r = 0 \/ lines[r + 1] # << >>}
           start == IF here > 0 \/ row = 0 THEN row ELSE Max(above)
           line  == lines[start + 1]
           from  == IF start = row THEN here ELSE Len(line)
           mid   == SkipLeft(line, from, Byte \ WordByte)
<1>1. row' = start /\ col' = SkipLeft(line, mid, WordByte) /\ Motion
  BY DEF frame_move_prev_word
<1>2. here \in Nat
  BY CurLineType, ClampInLine
<1>3. row # 0 => Max(above) \in 0 .. (row - 1)
  <2> SUFFICES ASSUME row # 0 PROVE Max(above) \in 0 .. (row - 1)
    OBVIOUS
  <2>1. row - 1 \in Nat /\ above \in SUBSET (0 .. (row - 1)) /\ 0 \in above
    BY CurLineType
  <2> HIDE DEF above
  <2>2. Max(above) \in above
    BY <2>1, MaxBelow
  <2> QED BY <2>1, <2>2
<1>4. start \in 0 .. (Len(lines) - 1)
  <2> HIDE DEF here, above
  <2> QED BY <1>3, CurLineType
<1>5. Len(line) \in Nat
  <2> HIDE DEF start
  <2> QED BY <1>4, CurLineType, RowType
<1>6. from \in Nat
  <2> HIDE DEF here, start, line
  <2> QED BY <1>2, <1>5
<1>7. SkipLeft(line, mid, WordByte) \in Nat
  <2> HIDE DEF line, from
  <2>1. mid \in 0 .. from
    BY <1>6, SkipLeftBefore
  <2>2. mid \in Nat
    <3> HIDE DEF mid
    <3> QED BY <1>6, <2>1
  <2> HIDE DEF mid
  <2> QED BY <2>2, SkipLeftBefore
<1> HIDE DEF start, mid, line
<1> QED BY <1>1, <1>4, <1>7, MotionStep

-----------------------------------------------------------------------------
(* Insertion and deletion.                                                   *)

LEMMA InsertPreserves ==
  ASSUME IInv,
         \/ \E ch \in KeyBytes : SelfInsert(ch)
         \/ InsertTab \/ Enter \/ OpenLine
  PROVE  IInv'
<1> USE CurLineType
<1>1. CASE \E ch \in KeyBytes : SelfInsert(ch)
  <2>1. PICK ch \in KeyBytes : SelfInsert(ch)
    BY <1>1
  <2> DEFINE L == buffer_insert_char(lines, row, col, ch)
  <2>2. L \in Text /\ Len(L) = Len(lines)
    BY EditingConstants, InsertCharType
  <2>3. lines' = L /\ row' = row /\ col' = col + 1 /\ Edit
    BY <2>1 DEF SelfInsert
  <2> HIDE DEF L
  <2>4. Placed(L, row, col + 1)
    BY <2>2, <2>3 DEF Placed
  <2> QED BY <2>3, <2>4, EditStep
<1>2. CASE InsertTab
  <2> DEFINE L == buffer_insert_tab(lines, row, col, Mode)
             c == col + (IF Mode = MAKEFILE_MODE THEN 1 ELSE 2)
  <2>1. L \in Text /\ Len(L) = Len(lines)
    BY InsertTabType
  <2>2. lines' = L /\ row' = row /\ col' = c /\ Edit
    BY <1>2 DEF InsertTab
  <2> HIDE DEF L
  <2>3. Placed(L, row, c)
    BY <2>1, <2>2 DEF Placed
  <2> QED BY <2>2, <2>3, EditStep
<1>3. CASE Enter
  <2> DEFINE L == buffer_insert_newline(lines, row, col)
  <2>1. L \in Text /\ Len(L) = Len(lines) + 1
    BY InsertNewlineType
  <2>2. lines' = L /\ row' = row + 1 /\ col' = 0 /\ Edit
    BY <1>3 DEF Enter
  <2> HIDE DEF L
  <2>3. Placed(L, row + 1, 0)
    BY <2>1, <2>2 DEF Placed
  <2> QED BY <2>2, <2>3, EditStep
<1>4. CASE OpenLine
  <2> DEFINE L == buffer_insert_newline(lines, row, 0)
  <2>1. L \in Text /\ Len(L) = Len(lines) + 1
    BY InsertNewlineType
  <2>2. lines' = L /\ row' = row + 1 /\ col' = col /\ Edit
    BY <1>4 DEF OpenLine
  <2> HIDE DEF L
  <2>3. Placed(L, row + 1, col)
    BY <2>1, <2>2 DEF Placed
  <2> QED BY <2>2, <2>3, EditStep
<1> QED BY <1>1, <1>2, <1>3, <1>4

(* The memory of the line that Backspace walks on holds at least a NUL.      *)
LEMMA MemoryAfterDeleteType ==
  ASSUME NEW old \in Line, NEW new \in Line
  PROVE  /\ Len(MemoryAfterDelete(old, new)) \in Nat
         /\ Len(MemoryAfterDelete(old, new)) > 0
<1> DEFINE Mem  == Byte \cup {NUL}
           one  == Append(new, NUL)
           rest == SubSeq(Append(old, NUL), Len(new) + 2, Len(old) + 1)
<1>1. new \in Seq(Mem) /\ old \in Seq(Mem) /\ NUL \in Mem
  BY SeqMonotonic DEF Line
<1>2. MemoryAfterDelete(old, new) = one \o rest
  BY DEF MemoryAfterDelete
<1> HIDE DEF Mem
<1>3. one \in Seq(Mem) /\ Len(one) = Len(new) + 1 /\ Len(new) \in Nat
  BY <1>1, AppendProperties
<1>4. /\ Append(old, NUL) \in Seq(Mem) /\ Len(old) \in Nat
      /\ Len(Append(old, NUL)) = Len(old) + 1
  BY <1>1, AppendProperties
<1>5. \A i \in (Len(new) + 2) .. (Len(old) + 1) : Append(old, NUL)[i] \in Mem
  BY <1>3, <1>4, ElementOfSeq
<1>6. rest \in Seq(Mem) /\ Len(rest) \in Nat
  BY <1>3, <1>4, <1>5, SubSeqProperties
<1> HIDE DEF one, rest
<1>7. Len(one \o rest) = Len(one) + Len(rest)
  BY <1>3, <1>6, ConcatProperties
<1> QED BY <1>2, <1>3, <1>6, <1>7

LEMMA BackspacePreserves ==
  ASSUME IInv, Backspace
  PROVE  IInv'
<1> USE CurLineType
<1>1. /\ mark' \in MarkType /\ yank' \in YankType
      /\ dirty' \in BOOLEAN /\ syntax_dirty' \in BOOLEAN
  BY DEF Backspace, SetDirty, flagVars, IInv, TypeOK, MarkType, YankType
<1>2. RingTypeOK' /\ Done(FALSE, FALSE)
  BY RingUnchanged DEF Backspace
<1>3. CASE ~(col > 0 \/ row > 0)
  <2>1. Placed(lines, row, col)
    BY <1>3 DEF Backspace, Placed, frameVars
  <2> QED BY <1>1, <1>2, <2>1, CommandStep
<1>4. CASE col > 0 \/ row > 0
  <2> DEFINE L   == buffer_delete_char(lines, row, col)
             mem == IF col = 0 THEN << >>
                    ELSE MemoryAfterDelete(CurLine, L[row + 1])
  <2>1. /\ L \in Text
        /\ Len(L) = IF col = 0 /\ row > 0 THEN Len(lines) - 1 ELSE Len(lines)
    BY DeleteCharType
  <2>2. lines' = L /\ MovePrevCharIn(L, mem)
    BY <1>4 DEF Backspace
  <2>3. Len(mem) \in Nat /\ (col > 0 => Len(mem) > 0)
    <3>1. CASE col = 0
      BY <3>1
    <3>2. CASE col > 0
      <4> HIDE DEF L
      <4>1. row \in 0 .. (Len(L) - 1)
        BY <2>1, <3>2
      <4>2. L[row + 1] \in Line
        BY <2>1, <4>1, RowType
      <4>3. mem = MemoryAfterDelete(CurLine, L[row + 1])
        BY <3>2
      <4> QED BY <4>2, <4>3, MemoryAfterDeleteType
    <3> QED BY <3>1, <3>2
  <2> HIDE DEF L, mem
  <2>4. row <= Len(L) /\ (col > 0 \/ row = 0 => row < Len(L))
    BY <2>1
  <2>5. PICK r \in 0 .. (Len(L) - 1), c \in Nat : row' = r /\ col' = c
    BY <2>1, <2>2, <2>3, <2>4, MovePrevCharType
  <2>6. Placed(L, r, c)
    BY <2>1, <2>2, <2>5 DEF Placed
  <2> QED BY <1>1, <1>2, <2>6, CommandStep
<1> QED BY <1>3, <1>4

LEMMA DeleteForwardPreserves ==
  ASSUME IInv, DeleteForward
  PROVE  IInv'
<1> DEFINE L == buffer_delete_forward(lines, row, col)
<1>1. L \in Text /\ row < Len(L)
  BY CurLineType, DeleteForwardType
<1>2. Len(L) \in Nat
  BY <1>1, TextLines
<1>3. lines' = L /\ UNCHANGED frameVars /\ Edit
  BY DEF DeleteForward
<1> HIDE DEF L
<1>4. Placed(L, row, col)
  BY <1>1, <1>2, <1>3, CurLineType DEF Placed, frameVars
<1> QED BY <1>3, <1>4, EditStep

-----------------------------------------------------------------------------
(* Killing.                                                                  *)

LEMMA KillNewlineType ==
  ASSUME IInv, NEW r \in 0 .. (Len(lines) - 1), editor_kill_newline_and_next(r)
  PROVE  /\ RingStep
         /\ \E L \in Text : lines' = L /\ Len(L) \in Nat /\ r < Len(L)
<1> USE CurLineType
<1>1. CASE r + 1 >= Len(lines)
  BY <1>1 DEF editor_kill_newline_and_next, RingStep
<1>2. CASE ~(r + 1 >= Len(lines))
  <2> DEFINE down == r + 1
             data == << << >>, lines[r + 2] >>
             L    == DeleteBetween(lines, r, Len(lines[r + 1]), down, 0)
  <2>1. down \in 0 .. (Len(lines) - 1) /\ r + 2 \in 1 .. Len(lines)
    BY <1>2
  <2>2. data \in Text
    <3>1. lines[r + 2] \in Line /\ << >> \in Line
      BY <2>1, TextLines DEF Line
    <3> QED BY <3>1 DEF Text
  <2>3. /\ editor_kill_set(data, last_was_kill)
        /\ lines' = L
    BY <1>2 DEF editor_kill_newline_and_next
  <2>4. last_was_kill \in BOOLEAN
    BY DEF IInv, TypeOK
  <2>5. RingStep
    <3> HIDE DEF data
    <3> QED BY <2>2, <2>3, <2>4 DEF RingStep
  <2>6. Len(lines[r + 1]) \in 0 .. Len(lines[r + 1])
    <3>1. Len(lines[r + 1]) \in Nat
      BY RowType
    <3> QED BY <3>1
  <2>7. down - r = 1
    BY <2>1
  <2> HIDE DEF data
  <2>8. L \in Text /\ Len(L) = Len(lines) - (down - r)
    <3> HIDE DEF down
    <3>1. 0 \in 0 .. Len(lines[down + 1])
      BY <2>1, RowType
    <3> QED BY <2>1, <2>6, <3>1, DeleteBetweenType
  <2>9. Len(L) \in Nat /\ r < Len(L)
    <3> HIDE DEF L
    <3> QED BY <1>2, <2>7, <2>8
  <2> HIDE DEF L
  <2> QED BY <2>3, <2>5, <2>8, <2>9
<1> QED BY <1>1, <1>2

LEMMA KillRangeType ==
  ASSUME IInv, NEW start \in Nat, NEW end \in Nat, end <= Len(CurLine),
         KillRange(start, end)
  PROVE  /\ RingStep
         /\ \E L \in Text : lines' = L /\ Len(L) = Len(lines)
<1> USE CurLineType
<1>1. CASE ~(end > start)
  BY <1>1 DEF KillRange, RingStep
<1>2. CASE end > start
  <2> DEFINE data == << SubSeq(CurLine, start + 1, end) >>
             L    == buffer_delete_range(lines, row, start, end)
  <2>1. data \in Text
    <3>1. SubSeq(CurLine, start + 1, end) \in Line
      BY LinePart
    <3> QED BY <3>1, OneLineText
  <2>2. L \in Text /\ Len(L) = Len(lines)
    BY DeleteRangeType
  <2>3. editor_kill_set(data, last_was_kill) /\ lines' = L
    BY <1>2 DEF KillRange
  <2>4. last_was_kill \in BOOLEAN
    BY DEF IInv, TypeOK
  <2> HIDE DEF data, L
  <2> QED BY <2>1, <2>2, <2>3, <2>4 DEF RingStep
<1> QED BY <1>1, <1>2

LEMMA KillLinePreserves ==
  ASSUME IInv, KillLine
  PROVE  IInv' /\ RingStep
<1> USE CurLineType
<1>1. /\ Done(TRUE, FALSE) /\ UNCHANGED <<mark, yank>> /\ UNCHANGED frameVars
      /\ SetDirty \/ UNCHANGED flagVars
  BY DEF KillLine
<1>2. /\ RingStep
      /\ \E L \in Text : lines' = L /\ Len(L) \in Nat /\ row < Len(L)
  <2>1. CASE col < Len(CurLine)
    <3>1. KillRange(col, Len(CurLine))
      BY <2>1 DEF KillLine
    <3> QED BY <3>1, KillRangeType
  <2>2. CASE ~(col < Len(CurLine)) /\ row + 1 < Len(lines)
    <3>1. editor_kill_newline_and_next(row)
      BY <2>2 DEF KillLine
    <3> QED BY <3>1, KillNewlineType
  <2>3. CASE ~(col < Len(CurLine)) /\ ~(row + 1 < Len(lines))
    BY <2>3 DEF KillLine, RingStep
  <2> QED BY <2>1, <2>2, <2>3
<1>3. PICK L \in Text : lines' = L /\ Len(L) \in Nat /\ row < Len(L)
  BY <1>2
<1>4. Placed(L, row, col)
  BY <1>1, <1>3 DEF Placed, frameVars
<1>5. RingTypeOK'
  BY <1>2, RingStepType
<1> QED BY <1>1, <1>2, <1>4, <1>5, KillStep

LEMMA KillWordForwardPreserves ==
  ASSUME IInv, editor_kill_word_forward
  PROVE  IInv' /\ RingStep
<1> USE CurLineType
<1>1. /\ Done(TRUE, FALSE) /\ UNCHANGED <<mark, yank>> /\ UNCHANGED frameVars
      /\ SetDirty
  BY DEF editor_kill_word_forward
<1>2. /\ RingStep
      /\ \E L \in Text : lines' = L /\ Len(L) \in Nat /\ row < Len(L)
  <2>1. CASE col >= Len(CurLine)
    <3>1. editor_kill_newline_and_next(row)
      BY <2>1 DEF editor_kill_word_forward
    <3> QED BY <3>1, KillNewlineType
  <2>2. CASE ~(col >= Len(CurLine))
    <3> DEFINE mid == SkipRight(CurLine, col, SpaceByte)
               end == SkipRight(CurLine, mid, WordByte)
    <3>1. KillRange(col, end)
      BY <2>2 DEF editor_kill_word_forward
    <3>2. mid \in 0 .. Len(CurLine)
      <4>1. col \in 0 .. Len(CurLine)
        BY <2>2
      <4>2. mid \in col .. Len(CurLine)
        BY <4>1, SkipRightInLine
      <4> HIDE DEF mid
      <4> QED BY <4>1, <4>2
    <3> HIDE DEF mid
    <3>3. end \in mid .. Len(CurLine)
      BY <3>2, SkipRightInLine
    <3> HIDE DEF end
    <3>4. end \in Nat /\ end <= Len(CurLine)
      BY <3>2, <3>3
    <3> QED BY <3>1, <3>4, KillRangeType
  <2> QED BY <2>1, <2>2
<1>3. PICK L \in Text : lines' = L /\ Len(L) \in Nat /\ row < Len(L)
  BY <1>2
<1>4. Placed(L, row, col)
  BY <1>1, <1>3 DEF Placed, frameVars
<1>5. RingTypeOK'
  BY <1>2, RingStepType
<1> QED BY <1>1, <1>2, <1>4, <1>5, KillStep

LEMMA KillWordBackwardPreserves ==
  ASSUME IInv, editor_kill_word_backward
  PROVE  IInv' /\ RingStep
<1> USE CurLineType
<1>1. Done(TRUE, FALSE) /\ UNCHANGED <<mark, yank>> /\ SetDirty
  BY DEF editor_kill_word_backward
<1>2. CASE col = 0 /\ row = 0
  <2>1. UNCHANGED <<lines, ringVars, frameVars>>
    BY <1>2 DEF editor_kill_word_backward
  <2>2. Placed(lines, row, col) /\ RingTypeOK' /\ RingStep
    BY <2>1, RingUnchanged DEF Placed, frameVars, RingStep
  <2> QED BY <1>1, <2>2, KillStep
<1>3. CASE col = 0 /\ row # 0
  <2> DEFINE up == row - 1
  <2>1. /\ row' = up /\ col' = Len(lines[row])
        /\ editor_kill_newline_and_next(up)
    BY <1>3 DEF editor_kill_word_backward
  <2>2. up \in 0 .. (Len(lines) - 1) /\ row \in 1 .. Len(lines)
    BY <1>3
  <2>3. Len(lines[row]) \in Nat
    BY <2>2, TextLines DEF Line
  <2> HIDE DEF up
  <2>4. RingTypeOK' /\ RingStep
    BY <2>1, <2>2, KillNewlineType, RingStepType
  <2>5. PICK L \in Text : lines' = L /\ Len(L) \in Nat /\ up < Len(L)
    BY <2>1, <2>2, KillNewlineType
  <2>6. Placed(L, up, Len(lines[row]))
    BY <2>1, <2>2, <2>3, <2>5 DEF Placed
  <2> QED BY <1>1, <2>4, <2>6, KillStep
<1>4. CASE col # 0
  <2> DEFINE end   == utf8_clamp_col(CurLine, col)
             mid   == SkipLeft(CurLine, end, SpaceByte)
             start == SkipLeft(CurLine, mid, WordByte)
             c     == IF end > start THEN start ELSE col
  <2>1. KillRange(start, end) /\ row' = row /\ col' = c
    BY <1>4 DEF editor_kill_word_backward
  <2>2. end \in 0 .. Len(CurLine) /\ end \in Nat
    BY ClampInLine
  <2> HIDE DEF end
  <2>3. mid \in 0 .. end
    BY <2>2, SkipLeftBefore
  <2> HIDE DEF mid
  <2>4. start \in 0 .. mid
    BY <2>2, <2>3, SkipLeftBefore
  <2> HIDE DEF start
  <2>5. start \in Nat /\ end <= Len(CurLine) /\ c \in Nat
    BY <2>2, <2>3, <2>4
  <2>6. RingTypeOK' /\ RingStep
    BY <2>1, <2>2, <2>5, KillRangeType, RingStepType
  <2>7. PICK L \in Text : lines' = L /\ Len(L) = Len(lines)
    BY <2>1, <2>2, <2>5, KillRangeType
  <2>8. Placed(L, row, c)
    BY <2>1, <2>5, <2>7 DEF Placed
  <2> QED BY <1>1, <2>6, <2>8, KillStep
<1> QED BY <1>2, <1>3, <1>4

-----------------------------------------------------------------------------
(* The region.                                                               *)

(* The ends of the region are in order, and one of them is the cursor.       *)
LEMMA RegionType ==
  ASSUME IInv
  PROVE  /\ Region.start_row \in Nat /\ Region.start_col \in Nat
         /\ Region.end_row \in Nat /\ Region.end_col \in Nat
         /\ pos_compare(Region.start_row, Region.start_col,
                        Region.end_row, Region.end_col) <= 0
         /\ Region.start_row <= row
<1> USE CurLineType
<1>1. mark.row \in Nat /\ mark.col \in Nat
  BY DEF IInv, TypeOK
<1>2. CASE MarkFirst
  <2>1. pos_compare(mark.row, mark.col, row, col) <= 0
    BY <1>2 DEF MarkFirst
  <2>2. mark.row <= row
    BY <1>1, <2>1 DEF pos_compare
  <2> QED BY <1>1, <1>2, <2>1, <2>2 DEF Region
<1>3. CASE ~MarkFirst
  <2>1. ~(pos_compare(mark.row, mark.col, row, col) <= 0)
    BY <1>3 DEF MarkFirst
  <2>2. pos_compare(row, col, mark.row, mark.col) <= 0
    BY <1>1, <2>1 DEF pos_compare
  <2> QED BY <1>1, <1>3, <2>2 DEF Region
<1> QED BY <1>2, <1>3

LEMMA CopyRegionType ==
  ASSUME IInv
  PROVE  editor_copy_region_text \in Text
<1> DEFINE reg == Region
           From(r) == IF r = reg.start_row THEN ClampCol(lines, r, reg.start_col)
                                           ELSE 0
           To(r) == IF r = reg.end_row THEN ClampCol(lines, r, reg.end_col)
                                       ELSE line_length(lines, r)
           n == reg.end_row - reg.start_row + 1
           part(i) == SubSeq(LineAt(lines, reg.start_row + i - 1),
                             From(reg.start_row + i - 1) + 1,
                             To(reg.start_row + i - 1))
<1>1. editor_copy_region_text = [i \in 1 .. n |-> part(i)]
  BY DEF editor_copy_region_text
<1>2. /\ reg.start_row \in Nat /\ reg.start_col \in Nat
      /\ reg.end_row \in Nat /\ reg.end_col \in Nat
      /\ pos_compare(reg.start_row, reg.start_col, reg.end_row, reg.end_col) <= 0
  BY RegionType
<1> HIDE DEF reg
<1>3. n \in Nat /\ n > 0
  <2>1. reg.start_row <= reg.end_row
    BY <1>2 DEF pos_compare
  <2> QED BY <1>2, <2>1
<1>4. \A i \in 1 .. n : part(i) \in Line
  <2> SUFFICES ASSUME NEW i \in 1 .. n PROVE part(i) \in Line
    OBVIOUS
  <2> DEFINE r == reg.start_row + i - 1
  <2>1. r \in Nat
    BY <1>2, <1>3
  <2> HIDE DEF r
  <2>2. LineAt(lines, r) \in Line /\ line_length(lines, r) \in Nat
    BY <2>1, CurLineType, LineAtType
  <2>3. /\ ClampCol(lines, r, reg.start_col) \in 0 .. line_length(lines, r)
        /\ ClampCol(lines, r, reg.end_col) \in 0 .. line_length(lines, r)
    BY <1>2, <2>1, CurLineType, LineAtType
  <2>4. From(r) \in Nat /\ To(r) \in Nat /\ To(r) <= line_length(lines, r)
    BY <2>2, <2>3
  <2> HIDE DEF From, To
  <2>5. SubSeq(LineAt(lines, r), From(r) + 1, To(r)) \in Line
    BY <2>2, <2>4, LinePart DEF line_length
  <2> QED BY <2>5 DEF r
<1> HIDE DEF n, part
<1>5. [i \in 1 .. n |-> part(i)] \in Seq(Line)
  BY <1>3, <1>4, IsASeq
<1>6. Len([i \in 1 .. n |-> part(i)]) = n
  BY <1>3
<1> QED BY <1>1, <1>3, <1>5, <1>6, TextFromLines

LEMMA KillRegionPreserves ==
  ASSUME IInv, editor_kill_region
  PROVE  IInv' /\ RingStep
<1> USE CurLineType
<1>1. mark \in MarkType /\ yank' \in YankType
  BY DEF editor_kill_region, IInv, TypeOK, MarkType, YankType
<1>2. CASE ~CanCopy
  <2>1. /\ Done(FALSE, FALSE)
        /\ UNCHANGED <<ringVars, lines, frameVars, flagVars, mark>>
    BY <1>2 DEF editor_kill_region
  <2>2. RingTypeOK' /\ RingStep /\ Placed(lines, row, col)
    BY <2>1, RingUnchanged DEF Placed, frameVars, RingStep
  <2>3. mark' \in MarkType /\ dirty' \in BOOLEAN /\ syntax_dirty' \in BOOLEAN
    BY <1>1, <2>1 DEF flagVars, IInv, TypeOK
  <2> QED BY <1>1, <2>1, <2>2, <2>3, CommandStep
<1>3. CASE CanCopy
  <2> DEFINE sr == Region.start_row
             sc == Region.start_col
             er == Region.end_row
             ec == Region.end_col
             L  == buffer_delete_region(lines, sr, sc, er, ec)
  <2>1. /\ editor_kill_set(editor_copy_region_text, last_was_kill)
        /\ lines' = L /\ row' = sr /\ col' = sc
        /\ SetDirty /\ Done(TRUE, FALSE)
        /\ mark' = [mark EXCEPT !.active = FALSE]
    BY <1>3 DEF editor_kill_region
  <2>2. last_was_kill \in BOOLEAN
    BY DEF IInv, TypeOK
  <2>3. RingTypeOK' /\ RingStep
    BY <2>1, <2>2, CopyRegionType, KillSetType DEF RingStep
  <2>4. /\ sr \in Nat /\ sc \in Nat /\ er \in Nat /\ ec \in Nat /\ sr <= row
        /\ pos_compare(sr, sc, er, ec) <= 0
    BY RegionType
  <2> HIDE DEF sr, sc, er, ec
  <2>5. /\ sr <= er /\ L \in Text
        /\ er < Len(lines) => Len(L) = Len(lines) - (er - sr)
        /\ er >= Len(lines) => L = lines
    BY <2>4, DeleteRegionType
  <2> HIDE DEF L
  <2>6. Len(L) \in Nat /\ sr < Len(L)
    BY <2>4, <2>5
  <2>7. Placed(L, sr, sc)
    BY <2>1, <2>4, <2>5, <2>6 DEF Placed
  <2>8. mark' \in MarkType /\ dirty' \in BOOLEAN /\ syntax_dirty' \in BOOLEAN
    BY <1>1, <2>1 DEF MarkType, SetDirty
  <2> QED BY <1>1, <2>1, <2>3, <2>7, <2>8, CommandStep
<1> QED BY <1>2, <1>3

LEMMA CopyRegionPreserves ==
  ASSUME IInv, editor_copy_region
  PROVE  IInv' /\ RingStep
<1> USE CurLineType
<1>1. /\ Done(FALSE, FALSE)
      /\ UNCHANGED <<lines, frameVars, yank, flagVars>>
  BY DEF editor_copy_region
<1>2. /\ mark' \in MarkType /\ yank' \in YankType
      /\ dirty' \in BOOLEAN /\ syntax_dirty' \in BOOLEAN
  BY DEF editor_copy_region, flagVars, IInv, TypeOK, MarkType, YankType
<1>3. RingTypeOK' /\ RingStep
  <2>1. CASE CanCopy
    <3>1. editor_kill_set(editor_copy_region_text, FALSE)
      BY <2>1 DEF editor_copy_region
    <3> QED BY <3>1, CopyRegionType, KillSetType DEF RingStep
  <2>2. CASE ~CanCopy
    BY <2>2, RingUnchanged DEF editor_copy_region, RingStep
  <2> QED BY <2>1, <2>2
<1>4. Placed(lines, row, col)
  BY <1>1 DEF Placed, frameVars
<1> QED BY <1>1, <1>2, <1>3, <1>4, CommandStep

-----------------------------------------------------------------------------
(* Yanking.                                                                  *)

LEMMA YankPreserves ==
  ASSUME IInv, editor_yank
  PROVE  IInv'
<1> USE CurLineType
<1>1. RingTypeOK' /\ mark' \in MarkType
  BY RingUnchanged DEF editor_yank, IInv, TypeOK, MarkType
<1>2. CASE kill_ring = << >>
  <2>1. Done(FALSE, FALSE) /\ UNCHANGED <<lines, frameVars, yank, flagVars>>
    BY <1>2 DEF editor_yank
  <2>2. Placed(lines, row, col)
    BY <2>1 DEF Placed, frameVars
  <2>3. yank' \in YankType /\ dirty' \in BOOLEAN /\ syntax_dirty' \in BOOLEAN
    BY <2>1 DEF flagVars, IInv, TypeOK, YankType
  <2> QED BY <1>1, <2>1, <2>2, <2>3, CommandStep
<1>3. CASE kill_ring # << >>
  <2> DEFINE text == CurrentKill
             last == text[Len(text)]
             er == row + Len(text) - 1
             ec == IF Len(text) = 1 THEN col + Len(last) ELSE Len(last)
             c  == ClampCol(lines, row, col)
             L  == InsertText(lines, row, c, text)
  <2>1. /\ lines' = L /\ row' = er /\ col' = ec
        /\ yank' = [start_row |-> row, start_col |-> col,
                    end_row |-> er, end_col |-> ec]
        /\ SetDirty /\ Done(FALSE, TRUE)
    BY <1>3 DEF editor_yank, editor_yank_from
  <2>2. text \in Text
    <3>1. kill_ring \in Seq(Text) /\ kill_ring_index + 1 \in 1 .. Len(kill_ring)
      BY <1>3 DEF RingTypeOK
    <3> QED BY <3>1, ElementOfSeq DEF CurrentKill
  <2> HIDE DEF text
  <2>3. Len(text) \in Nat \ {0} /\ Len(last) \in Nat
    BY <2>2, TextLines DEF Line
  <2>4. c \in 0 .. Len(lines[row + 1])
    BY RowType
  <2> HIDE DEF c, last
  <2>5. L \in Text /\ Len(L) = Len(lines) + Len(text) - 1
    BY <2>2, <2>4, InsertTextType
  <2>6. er \in Nat /\ ec \in Nat /\ er \in 0 .. (Len(L) - 1)
    <3> HIDE DEF L
    <3> QED BY <2>3, <2>5
  <2> HIDE DEF L, er, ec
  <2>7. Placed(L, er, ec)
    BY <2>1, <2>5, <2>6 DEF Placed
  <2>8. yank' \in YankType /\ dirty' \in BOOLEAN /\ syntax_dirty' \in BOOLEAN
    BY <2>1, <2>6 DEF YankType, SetDirty
  <2> QED BY <1>1, <2>1, <2>7, <2>8, CommandStep
<1> QED BY <1>2, <1>3

(* M-y finds last_was_yank false, because its ESC has cleared it.            *)
LEMMA YankPopPreserves ==
  ASSUME IInv, YankPop
  PROVE  IInv'
<1>1. ~last_was_yank
  BY DEF YankPop, Meta, IInv, EscClearsFlags
<1>2. /\ Done(FALSE, FALSE)
      /\ UNCHANGED <<ringVars, lines, frameVars, yank, flagVars, mark>>
  BY <1>1 DEF YankPop
<1>3. RingTypeOK' /\ Placed(lines, row, col)
  BY <1>2, RingUnchanged, CurLineType DEF Placed, frameVars
<1>4. /\ mark' \in MarkType /\ yank' \in YankType
      /\ dirty' \in BOOLEAN /\ syntax_dirty' \in BOOLEAN
  BY <1>2 DEF flagVars, IInv, TypeOK, MarkType, YankType
<1> QED BY <1>2, <1>3, <1>4, CommandStep

-----------------------------------------------------------------------------
(* The remaining keys.                                                       *)

LEMMA EscapePreserves ==
  ASSUME IInv, Escape \/ BeginCsi
  PROVE  IInv'
<1>1. RingTypeOK'
  BY RingUnchanged DEF Escape, BeginCsi, IInv, TypeOK
<1> QED
  BY <1>1 DEF Escape, BeginCsi, frameVars, flagVars, IInv, TypeOK,
              EscClearsFlags, EscStates

LEMMA MarkPreserves ==
  ASSUME IInv, SetMark \/ CtrlG
  PROVE  IInv'
<1> USE CurLineType
<1>1. /\ Done(FALSE, FALSE)
      /\ UNCHANGED <<ringVars, lines, frameVars, yank, flagVars>>
  BY DEF SetMark, CtrlG
<1>2. RingTypeOK' /\ Placed(lines, row, col)
  BY <1>1, RingUnchanged DEF Placed, frameVars
<1>3. mark' \in MarkType
  <2>1. mark \in MarkType
    BY DEF IInv, TypeOK, MarkType
  <2>2. CASE CtrlG
    BY <2>1, <2>2 DEF CtrlG, MarkType
  <2>3. CASE SetMark
    BY <2>1, <2>3 DEF SetMark, MarkType
  <2> QED BY <2>2, <2>3
<1>4. yank' \in YankType /\ dirty' \in BOOLEAN /\ syntax_dirty' \in BOOLEAN
  BY <1>1 DEF flagVars, IInv, TypeOK, YankType
<1> QED BY <1>1, <1>2, <1>3, <1>4, CommandStep

-----------------------------------------------------------------------------
(* The theorems.                                                             *)

LEMMA InitInvariant == Init => IInv
<1> SUFFICES ASSUME Init PROVE IInv
  OBVIOUS
<1>1. lines \in Text /\ row = 0
  BY EditingConstants DEF Init
<1>2. row \in 0 .. (Len(lines) - 1)
  BY <1>1, TextLines
<1>3. RingTypeOK
  BY RingSize, EmptySeq DEF Init, RingInit, RingTypeOK
<1> QED BY <1>1, <1>2, <1>3 DEF Init, IInv, TypeOK, EscClearsFlags, EscStates

LEMMA NextInvariant == IInv /\ [Next]_vars => IInv'
<1> SUFFICES ASSUME IInv, [Next]_vars PROVE IInv'
  OBVIOUS
<1>1. CASE UNCHANGED vars
  BY <1>1 DEF vars, IInv, TypeOK, EscClearsFlags, RingTypeOK
<1>2. CASE Escape \/ BeginCsi
  BY <1>2, EscapePreserves
<1>3. CASE CtrlG \/ SetMark
  BY <1>3, MarkPreserves
<1>4. CASE \/ frame_move_prev_line \/ frame_move_next_line
           \/ frame_move_line_start \/ frame_move_line_end
           \/ frame_move_next_char
  BY <1>4, LineMotionPreserves
<1>5. CASE frame_move_prev_char
  BY <1>5, PrevCharPreserves
<1>6. CASE frame_move_next_word
  BY <1>6, NextWordPreserves
<1>7. CASE frame_move_prev_word
  BY <1>7, PrevWordPreserves
<1>8. CASE (\E ch \in KeyBytes : SelfInsert(ch)) \/ InsertTab \/ Enter \/ OpenLine
  BY <1>8, InsertPreserves
<1>9. CASE Backspace
  BY <1>9, BackspacePreserves
<1>10. CASE DeleteForward
  BY <1>10, DeleteForwardPreserves
<1>11. CASE KillLine
  BY <1>11, KillLinePreserves
<1>12. CASE editor_kill_word_forward
  BY <1>12, KillWordForwardPreserves
<1>13. CASE editor_kill_word_backward
  BY <1>13, KillWordBackwardPreserves
<1>14. CASE editor_kill_region
  BY <1>14, KillRegionPreserves
<1>15. CASE editor_copy_region
  BY <1>15, CopyRegionPreserves
<1>16. CASE editor_yank
  BY <1>16, YankPreserves
<1>17. CASE YankPop
  BY <1>17, YankPopPreserves
<1> QED
  BY <1>1, <1>2, <1>3, <1>4, <1>5, <1>6, <1>7, <1>8, <1>9, <1>10, <1>11,
     <1>12, <1>13, <1>14, <1>15, <1>16, <1>17 DEF Next, ControlKey, TextKey

LEMMA Invariance == Spec => []IInv
BY InitInvariant, NextInvariant, PTL DEF Spec

(* The text always has a line, the cursor is always on one of them (C-w with *)
(* a mark on a row that has gone included), and the ring index on a kill.    *)
THEOREM TypeCorrect == Spec => []TypeOK
<1>1. IInv => TypeOK
  BY DEF IInv
<1> QED BY <1>1, Invariance, PTL

(* A step marks the buffer, or leaves text and marks as they are.            *)
LEMMA StepMarks ==
  ASSUME Next
  PROVE  SetDirty \/ UNCHANGED <<lines, dirty, syntax_dirty>>
<1>1. CASE \/ \E ch \in KeyBytes : SelfInsert(ch)
           \/ InsertTab \/ Enter \/ OpenLine \/ DeleteForward
  <2>1. CASE \E ch \in KeyBytes : SelfInsert(ch)
    BY <2>1 DEF SelfInsert, Edit
  <2>2. CASE InsertTab \/ Enter \/ OpenLine \/ DeleteForward
    <3>1. Edit
      BY <2>2 DEF InsertTab, Enter, OpenLine, DeleteForward
    <3> QED BY <3>1 DEF Edit
  <2> QED BY <1>1, <2>1, <2>2
<1>2. CASE Backspace
  BY <1>2 DEF Backspace, flagVars
<1>3. CASE KillLine
  BY <1>3 DEF KillLine, flagVars
<1>4. CASE editor_kill_word_forward \/ editor_kill_word_backward
  BY <1>4 DEF editor_kill_word_forward, editor_kill_word_backward, flagVars
<1>5. CASE editor_kill_region
  BY <1>5 DEF editor_kill_region, flagVars
<1>6. CASE editor_yank
  BY <1>6 DEF editor_yank, editor_yank_from, flagVars
<1>7. CASE YankPop
  BY <1>7 DEF YankPop, editor_yank_from, flagVars
<1>8. CASE \/ Escape \/ BeginCsi \/ CtrlG \/ SetMark \/ editor_copy_region
           \/ frame_move_prev_line \/ frame_move_next_line
           \/ frame_move_line_start \/ frame_move_line_end
           \/ frame_move_next_char \/ frame_move_prev_char
           \/ frame_move_next_word \/ frame_move_prev_word
  BY <1>8 DEF Escape, BeginCsi, CtrlG, SetMark, editor_copy_region,
       frame_move_prev_line, frame_move_next_line, frame_move_line_start,
       frame_move_line_end, frame_move_next_char, frame_move_prev_char,
       frame_move_next_word, frame_move_prev_word, Motion, flagVars
<1> QED BY <1>1, <1>2, <1>3, <1>4, <1>5, <1>6, <1>7, <1>8
   DEF Next, ControlKey, TextKey

(* No command changes the text without marking it modified and its syntax    *)
(* tree stale, so neither "Saved" text nor an old parse is shown for it.     *)
THEOREM EditsMarked == Spec => EditMarksDirty
<1>1. [Next]_vars => [lines' # lines => dirty' /\ syntax_dirty']_vars
  BY StepMarks DEF SetDirty
<1> QED BY <1>1, PTL DEF Spec, EditMarksDirty

-----------------------------------------------------------------------------
(* The ring implements the history of kills.                                 *)

LEMMA StepRing ==
  ASSUME IInv, Next
  PROVE  RingStep
<1>1. CASE Escape \/ BeginCsi
  BY <1>1 DEF Escape, BeginCsi, RingStep
<1>2. CASE CtrlG \/ SetMark
  BY <1>2 DEF CtrlG, SetMark, RingStep
<1>3. CASE \/ frame_move_prev_line \/ frame_move_next_line
           \/ frame_move_line_start \/ frame_move_line_end
           \/ frame_move_next_char \/ frame_move_prev_char
           \/ frame_move_next_word \/ frame_move_prev_word
  <2>1. Motion
    BY <1>3 DEF frame_move_prev_line, frame_move_next_line,
                frame_move_line_start, frame_move_line_end,
                frame_move_next_char, frame_move_prev_char,
                frame_move_next_word, frame_move_prev_word
  <2> QED BY <2>1 DEF Motion, RingStep
<1>4. CASE \/ \E ch \in KeyBytes : SelfInsert(ch)
           \/ InsertTab \/ Enter \/ OpenLine \/ DeleteForward
  <2>1. CASE \E ch \in KeyBytes : SelfInsert(ch)
    BY <2>1 DEF SelfInsert, Edit, RingStep
  <2>2. CASE InsertTab \/ Enter \/ OpenLine \/ DeleteForward
    <3>1. Edit
      BY <2>2 DEF InsertTab, Enter, OpenLine, DeleteForward
    <3> QED BY <3>1 DEF Edit, RingStep
  <2> QED BY <1>4, <2>1, <2>2
<1>5. CASE Backspace
  BY <1>5 DEF Backspace, RingStep
<1>6. CASE KillLine
  BY <1>6, KillLinePreserves
<1>7. CASE editor_kill_word_forward
  BY <1>7, KillWordForwardPreserves
<1>8. CASE editor_kill_word_backward
  BY <1>8, KillWordBackwardPreserves
<1>9. CASE editor_kill_region
  BY <1>9, KillRegionPreserves
<1>10. CASE editor_copy_region
  BY <1>10, CopyRegionPreserves
<1>11. CASE editor_yank
  BY <1>11 DEF editor_yank, RingStep
<1>12. CASE YankPop
  <2>1. ~last_was_yank
    BY <1>12 DEF YankPop, Meta, IInv, EscClearsFlags
  <2> QED BY <1>12, <2>1 DEF YankPop, RingStep
<1> QED
  BY <1>1, <1>2, <1>3, <1>4, <1>5, <1>6, <1>7, <1>8, <1>9, <1>10, <1>11,
     <1>12 DEF Next, ControlKey, TextKey

(* While slots are free the current kill is the last one.                    *)
FreshIsLast ==
  Len(kill_ring) < KILL_RING_MAX /\ kill_ring # << >> =>
    kill_ring_index = Len(kill_ring) - 1

LEMMA Wrapped ==
  ASSUME NEW n \in Nat \ {0}, NEW x \in Int, 0 - n <= x, x <= n
  PROVE  x % n = IF x = n \/ x = 0 - n THEN 0 ELSE IF x >= 0 THEN x ELSE x + n
OBVIOUS

NewestFirst(ring, k) ==
  [i \in 1 .. Len(ring) |-> ring[((k - (i - 1)) % Len(ring)) + 1]]

(* The slot of the i-th newest of n kills, the newest being in slot k + 1.   *)
Slot(n, k, i) == IF i <= k + 1 THEN k + 2 - i ELSE k + 2 - i + n

LEMMA NewestFirstIs ==
  ASSUME NEW S, NEW ring \in Seq(S), NEW k \in Nat, k < Len(ring)
  PROVE  /\ Len(NewestFirst(ring, k)) = Len(ring)
         /\ \A i \in 1 .. Len(ring) :
              NewestFirst(ring, k)[i] = ring[Slot(Len(ring), k, i)]
<1> DEFINE n == Len(ring)
<1>1. n \in Nat \ {0} /\ k < n
  OBVIOUS
<1> HIDE DEF n
<1>2. \A i \in 1 .. n : ((k - (i - 1)) % n) + 1 = Slot(n, k, i)
  <2> TAKE i \in 1 .. n
  <2> DEFINE x == k - (i - 1)
  <2>1. x \in Int /\ 0 - n <= x /\ x <= n /\ ~(x = n \/ x = 0 - n)
    BY <1>1
  <2> HIDE DEF x
  <2>2. x % n = IF x >= 0 THEN x ELSE x + n
    BY <1>1, <2>1, Wrapped
  <2>3. (x % n) + 1 = Slot(n, k, i)
    BY <1>1, <2>2 DEF x, Slot
  <2> QED BY <2>3 DEF x
<1>3. NewestFirst(ring, k) = [i \in 1 .. n |-> ring[((k - (i - 1)) % n) + 1]]
  BY DEF NewestFirst, n
<1>4. Len(NewestFirst(ring, k)) = n
  BY <1>1, <1>3
<1>5. \A i \in 1 .. n : NewestFirst(ring, k)[i] = ring[Slot(n, k, i)]
  BY <1>2, <1>3
<1> QED BY <1>4, <1>5 DEF n

(* A new slot, a slot used again, and a slot whose kill grows.               *)
LEMMA AppendedNewest ==
  ASSUME NEW S, NEW ring \in Seq(S), NEW data \in S, NEW k \in Nat,
         ring # << >> => k = Len(ring) - 1
  PROVE  LET new == Append(ring, data)
         IN  \A i \in 2 .. Len(new) :
               NewestFirst(new, Len(ring))[i] = NewestFirst(ring, k)[i - 1]
<1> DEFINE new == Append(ring, data)
           n == Len(ring)
<1>1. /\ n \in Nat /\ new \in Seq(S) /\ Len(new) = n + 1
      /\ \A j \in 1 .. n : new[j] = ring[j]
  BY AppendProperties
<1> HIDE DEF new
<1> SUFFICES ASSUME NEW i \in 2 .. Len(new)
             PROVE  NewestFirst(new, n)[i] = NewestFirst(ring, k)[i - 1]
  BY DEF new
<1>2. i \in Int /\ 2 <= i /\ i <= n + 1 /\ n > 0
  BY <1>1
<1>3. NewestFirst(new, n)[i] = new[Slot(n + 1, n, i)]
  <2>1. i \in 1 .. Len(new) /\ n < Len(new)
    BY <1>1, <1>2
  <2> QED BY <1>1, <2>1, NewestFirstIs
<1>4. k = n - 1
  BY <1>2
<1>5. NewestFirst(ring, k)[i - 1] = ring[Slot(n, k, i - 1)]
  <2>1. i - 1 \in 1 .. Len(ring) /\ k < Len(ring)
    BY <1>2, <1>4
  <2> QED BY <2>1, NewestFirstIs
<1> HIDE DEF n
<1>6. Slot(n + 1, n, i) = n + 2 - i /\ Slot(n, k, i - 1) = n + 2 - i
  BY <1>1, <1>2, <1>4 DEF Slot
<1>7. n + 2 - i \in 1 .. n
  BY <1>1, <1>2
<1> QED BY <1>1, <1>3, <1>5, <1>6, <1>7

LEMMA ReplacedNewest ==
  ASSUME NEW S, NEW ring \in Seq(S), NEW new \in Seq(S), Len(new) = Len(ring),
         NEW k \in Nat, k < Len(ring), NEW to \in Nat, to < Len(ring),
         k + 1 < Len(ring) => to = k + 1, ~(k + 1 < Len(ring)) => to = 0,
         \A j \in 1 .. Len(ring) : j # to + 1 => new[j] = ring[j]
  PROVE  \A i \in 2 .. Len(new) :
           NewestFirst(new, to)[i] = NewestFirst(ring, k)[i - 1]
<1> DEFINE n == Len(ring)
<1>1. n \in Nat \ {0} /\ k < n /\ to < n /\ Len(new) = n
  OBVIOUS
<1>2. /\ \A i \in 1 .. Len(new) : NewestFirst(new, to)[i]
                                    = new[Slot(Len(new), to, i)]
      /\ \A i \in 1 .. n : NewestFirst(ring, k)[i] = ring[Slot(n, k, i)]
  BY NewestFirstIs
<1>3. \A j \in 1 .. n : j # to + 1 => new[j] = ring[j]
  OBVIOUS
<1>4. (k + 1 < n => to = k + 1) /\ (~(k + 1 < n) => to = 0)
  OBVIOUS
<1> HIDE DEF n
<1>5. ASSUME NEW i \in 2 .. Len(new)
      PROVE  NewestFirst(new, to)[i] = NewestFirst(ring, k)[i - 1]
  <2>1. i \in 1 .. n /\ i - 1 \in 1 .. n /\ 2 <= i
    BY <1>1, <1>5
  <2>2. Slot(n, to, i) = Slot(n, k, i - 1)
    BY <1>1, <1>4, <2>1 DEF Slot
  <2>3. Slot(n, to, i) \in 1 .. n /\ Slot(n, to, i) # to + 1
    BY <1>1, <2>1 DEF Slot
  <2>4. NewestFirst(new, to)[i] = new[Slot(n, to, i)]
    BY <1>1, <1>2, <2>1
  <2>5. NewestFirst(ring, k)[i - 1] = ring[Slot(n, k, i - 1)]
    BY <1>2, <2>1
  <2> QED BY <1>3, <2>2, <2>3, <2>4, <2>5
<1> QED BY <1>5

LEMMA GrownNewest ==
  ASSUME NEW S, NEW ring \in Seq(S), NEW new \in Seq(S), Len(new) = Len(ring),
         NEW k \in Nat, k < Len(ring),
         \A j \in 1 .. Len(ring) : j # k + 1 => new[j] = ring[j]
  PROVE  /\ NewestFirst(new, k)[1] = new[k + 1]
         /\ NewestFirst(ring, k)[1] = ring[k + 1]
         /\ \A i \in 2 .. Len(new) :
              NewestFirst(new, k)[i] = NewestFirst(ring, k)[i]
<1> DEFINE n == Len(ring)
<1>1. n \in Nat \ {0} /\ k < n /\ Len(new) = n
  OBVIOUS
<1>2. /\ \A i \in 1 .. Len(new) : NewestFirst(new, k)[i]
                                    = new[Slot(Len(new), k, i)]
      /\ \A i \in 1 .. n : NewestFirst(ring, k)[i] = ring[Slot(n, k, i)]
  BY NewestFirstIs
<1>3. \A j \in 1 .. n : j # k + 1 => new[j] = ring[j]
  OBVIOUS
<1> HIDE DEF n
<1>4. NewestFirst(new, k)[1] = new[k + 1] /\ NewestFirst(ring, k)[1] = ring[k + 1]
  <2>1. 1 \in 1 .. n /\ Slot(n, k, 1) = k + 1
    BY <1>1 DEF Slot
  <2> QED BY <1>1, <1>2, <2>1
<1>5. ASSUME NEW i \in 2 .. Len(new)
      PROVE  NewestFirst(new, k)[i] = NewestFirst(ring, k)[i]
  <2>1. i \in 1 .. n /\ 2 <= i
    BY <1>1, <1>5
  <2>2. Slot(n, k, i) \in 1 .. n /\ Slot(n, k, i) # k + 1
    BY <1>1, <2>1 DEF Slot
  <2> QED BY <1>1, <1>2, <1>3, <2>1, <2>2
<1> QED BY <1>4, <1>5

(* A text put behind another continues it.                                   *)
LEMMA JoinContinues ==
  ASSUME NEW s \in Text, NEW t \in Text
  PROVE  History!Continues(Join(s, t), s)
<1> DEFINE n    == Len(s)
           pre  == SubSeq(s, 1, n - 1)
           last == s[n] \o t[1]
           mid  == << last >>
           post == SubSeq(t, 2, Len(t))
           all  == (pre \o mid) \o post
<1>1. /\ s \in Seq(Line) /\ n \in Nat \ {0} /\ Len(t) \in Nat \ {0}
      /\ s[n] \in Line /\ t[1] \in Line
      /\ \A i \in 1 .. n : s[i] \in Line
      /\ \A i \in 1 .. Len(t) : t[i] \in Line
  BY TextLines
<1>2. /\ pre \in Seq(Line) /\ Len(pre) = n - 1
      /\ \A i \in 1 .. (n - 1) : pre[i] = s[i]
  <2> DEFINE m == n - 1
  <2>1. m \in Nat /\ m \in Int /\ 1 \in Int
    BY <1>1
  <2>2. \A i \in 1 .. m : s[i] \in Line
    BY <1>1
  <2> HIDE DEF m, n
  <2>3. /\ SubSeq(s, 1, m) \in Seq(Line)
        /\ Len(SubSeq(s, 1, m)) = IF 1 <= m THEN m - 1 + 1 ELSE 0
        /\ \A i \in 1 .. m - 1 + 1 : SubSeq(s, 1, m)[i] = s[1 + i - 1]
    BY <2>1, <2>2, SubSeqProperties
  <2>4. /\ SubSeq(s, 1, m) \in Seq(Line) /\ Len(SubSeq(s, 1, m)) = m
        /\ \A i \in 1 .. m : SubSeq(s, 1, m)[i] = s[i]
    BY <2>1, <2>3
  <2> QED BY <2>4 DEF m
<1>3. last \in Line /\ mid \in Seq(Line) /\ Len(mid) = 1 /\ mid[1] = last
  <2>1. last \in Line
    BY <1>1, LineConcat
  <2> HIDE DEF last
  <2> QED BY <2>1
<1>4. post \in Seq(Line) /\ Len(post) \in Nat
  <2>1. \A i \in 2 .. Len(t) : t[i] \in Line
    BY <1>1
  <2>2. 2 \in Int /\ Len(t) \in Int
    BY <1>1
  <2>3. SubSeq(t, 2, Len(t)) \in Seq(Line)
    BY <2>1, <2>2, SubSeqProperties
  <2> QED BY <2>3
<1>5. Join(s, t) = all
  BY DEF Join
<1>6. Len(last) >= Len(s[n]) /\ SubSeq(last, 1, Len(s[n])) = s[n]
  <2> DEFINE a == s[n]
             b == t[1]
  <2>1. /\ a \in Seq(Byte) /\ Len(a) \in Nat
        /\ b \in Seq(Byte) /\ Len(b) \in Nat
    BY <1>1 DEF Line
  <2> HIDE DEF a, b
  <2>2. /\ a \o b \in Seq(Byte) /\ Len(a \o b) = Len(a) + Len(b)
        /\ \A i \in 1 .. Len(a) + Len(b) :
             (a \o b)[i] = IF i <= Len(a) THEN a[i] ELSE b[i - Len(a)]
    BY <2>1, ConcatProperties
  <2> DEFINE c == a \o b
             m == Len(a)
  <2>3. /\ m \in Int /\ 1 \in Int
        /\ \A i \in 1 .. m : c[i] \in Byte /\ c[i] = a[i]
    BY <2>1, <2>2
  <2> HIDE DEF c, m
  <2>4. /\ SubSeq(c, 1, m) \in Seq(Byte)
        /\ Len(SubSeq(c, 1, m)) = IF 1 <= m THEN m - 1 + 1 ELSE 0
        /\ \A i \in 1 .. m - 1 + 1 : SubSeq(c, 1, m)[i] = c[1 + i - 1]
    BY <2>3, SubSeqProperties
  <2>5. Len(SubSeq(c, 1, m)) = m /\ \A i \in 1 .. m : SubSeq(c, 1, m)[i] = a[i]
    BY <2>1, <2>3, <2>4 DEF m
  <2>6. SubSeq(c, 1, m) = a
    BY <2>1, <2>4, <2>5, SeqEqual DEF m
  <2>7. SubSeq(a \o b, 1, Len(a)) = a /\ Len(a \o b) >= Len(a)
    BY <2>1, <2>2, <2>6 DEF c, m
  <2> QED BY <2>7 DEF a, b
<1> HIDE DEF n, pre, last, mid, post, all
<1> DEFINE pm == pre \o mid
<1>7. /\ pm \in Seq(Line) /\ Len(pm) = n
      /\ \A i \in 1 .. (n - 1) : pm[i] = s[i]
      /\ pm[n] = last
  <2>1. /\ pre \o mid \in Seq(Line) /\ Len(pre \o mid) = Len(pre) + Len(mid)
        /\ \A i \in 1 .. Len(pre) + Len(mid) :
             (pre \o mid)[i] = IF i <= Len(pre) THEN pre[i] ELSE mid[i - Len(pre)]
    BY <1>2, <1>3, ConcatProperties
  <2> QED BY <1>1, <1>2, <1>3, <2>1
<1> HIDE DEF pm
<1>8. /\ Len(all) >= n
      /\ \A i \in 1 .. (n - 1) : all[i] = s[i]
      /\ all[n] = last
  <2>1. /\ Len(pm \o post) = Len(pm) + Len(post)
        /\ \A i \in 1 .. Len(pm) + Len(post) :
             (pm \o post)[i] = IF i <= Len(pm) THEN pm[i] ELSE post[i - Len(pm)]
    BY <1>4, <1>7, ConcatProperties
  <2>2. all = pm \o post
    BY DEF all, pm
  <2> QED BY <1>1, <1>4, <1>7, <2>1, <2>2
<1> QED BY <1>5, <1>6, <1>8 DEF History!Continues, n

KInv == IInv /\ FreshIsLast

LEMMA NewestIs ==
  /\ KillsNewestFirst = NewestFirst(kill_ring, kill_ring_index)
  /\ KillsNewestFirst' = NewestFirst(kill_ring', kill_ring_index')
BY DEF KillsNewestFirst, NewestFirst

LEMMA KillRecorded ==
  ASSUME KInv, NEW data \in Text, data # EmptyText, PushKill(data)
  PROVE  FreshIsLast' /\ History!Record
<1> USE RingSize
<1> DEFINE n == Len(kill_ring)
           k == kill_ring_index
           old == NewestFirst(kill_ring, k)
           new == NewestFirst(kill_ring', kill_ring_index')
<1>1. /\ kill_ring \in Seq(Text) /\ n \in Nat /\ n <= KILL_RING_MAX /\ k \in Nat
      /\ kill_ring # << >> => k < n
      /\ n < KILL_RING_MAX /\ kill_ring # << >> => k = n - 1
  BY DEF KInv, IInv, TypeOK, RingTypeOK, FreshIsLast
<1>2. Len(old) = n
  <2>1. CASE kill_ring = << >>
    BY <2>1 DEF NewestFirst
  <2>2. CASE kill_ring # << >>
    BY <1>1, <2>2, NewestFirstIs
  <2> QED BY <2>1, <2>2
<1>3. CASE n < KILL_RING_MAX
  <2> DEFINE ring == Append(kill_ring, data)
  <2>1. kill_ring' = ring /\ kill_ring_index' = n
    BY <1>3 DEF PushKill
  <2>2. ring \in Seq(Text) /\ Len(ring) = n + 1
    BY <1>1, AppendProperties
  <2>3. \A i \in 2 .. Len(ring) : NewestFirst(ring, n)[i] = old[i - 1]
    BY <1>1, <1>3, AppendedNewest
  <2> HIDE DEF ring
  <2>4. Len(NewestFirst(ring, n)) = n + 1
    BY <1>1, <2>2, NewestFirstIs
  <2>5. new = NewestFirst(ring, n)
    BY <2>1
  <2> HIDE DEF old, new
  <2>6. /\ Len(new) = IF Len(old) < KILL_RING_MAX
                        THEN Len(old) + 1 ELSE KILL_RING_MAX
        /\ \A i \in 2 .. Len(new) : new[i] = old[i - 1]
    BY <1>2, <1>3, <2>2, <2>3, <2>4, <2>5
  <2>7. History!Record
    BY <2>6, NewestIs DEF History!Record, old, new
  <2>8. FreshIsLast'
    BY <1>1, <2>1, <2>2 DEF FreshIsLast
  <2> QED BY <2>7, <2>8
<1>4. CASE ~(n < KILL_RING_MAX)
  <2> DEFINE to   == kill_ring_index'
             ring == kill_ring'
  <2>1. n = KILL_RING_MAX /\ kill_ring # << >> /\ k < Len(kill_ring)
    BY <1>1, <1>4
  <2>2. /\ to = (k + 1) % Len(kill_ring)
        /\ ring = [kill_ring EXCEPT ![to + 1] = data]
    BY <1>4, <2>1 DEF PushKill
  <2>3. /\ to \in Nat /\ to < Len(kill_ring)
        /\ k + 1 < Len(kill_ring) => to = k + 1
        /\ ~(k + 1 < Len(kill_ring)) => to = 0
    <3> DEFINE x == k + 1
    <3>1. /\ n \in Nat \ {0} /\ x \in Int /\ 0 - n <= x /\ x <= n
          /\ x # 0 /\ x # 0 - n /\ 0 <= x /\ k < n
      BY <1>1, <2>1
    <3>2. x % n = IF x = n \/ x = 0 - n THEN 0 ELSE IF x >= 0 THEN x ELSE x + n
      <4> HIDE DEF x, n
      <4> QED BY <3>1, Wrapped
    <3> QED BY <2>2, <3>1, <3>2
  <2>4. /\ ring \in Seq(Text) /\ Len(ring) = Len(kill_ring)
        /\ \A j \in 1 .. Len(kill_ring) : j # to + 1 => ring[j] = kill_ring[j]
    <3> HIDE DEF to
    <3>1. Len(kill_ring) \in Nat /\ to \in Nat /\ to < Len(kill_ring)
      BY <1>1, <2>3
    <3>2. to + 1 \in 1 .. Len(kill_ring)
      BY <3>1
    <3> QED BY <1>1, <2>2, <3>2, ExceptSeq
  <2>5. \A i \in 2 .. Len(ring) : new[i] = old[i - 1]
    <3> HIDE DEF to, ring
    <3>1. kill_ring \in Seq(Text) /\ k \in Nat /\ k < Len(kill_ring)
      BY <1>1, <2>1
    <3>2. /\ ring \in Seq(Text) /\ Len(ring) = Len(kill_ring)
          /\ \A j \in 1 .. Len(kill_ring) : j # to + 1 => ring[j] = kill_ring[j]
      BY <2>4
    <3> HIDE DEF n, k
    <3>3. \A i \in 2 .. Len(ring) :
            NewestFirst(ring, to)[i] = NewestFirst(kill_ring, k)[i - 1]
      BY <2>3, <3>1, <3>2, ReplacedNewest
    <3> QED BY <3>3 DEF to, ring, k
  <2>6. Len(new) = n
    <3> HIDE DEF to, ring
    <3>1. Len(NewestFirst(ring, to)) = n
      BY <2>3, <2>4, NewestFirstIs
    <3> QED BY <3>1 DEF to, ring
  <2> HIDE DEF old, new
  <2>7. /\ Len(new) = IF Len(old) < KILL_RING_MAX
                        THEN Len(old) + 1 ELSE KILL_RING_MAX
        /\ \A i \in 2 .. Len(new) : new[i] = old[i - 1]
    BY <1>2, <1>4, <2>1, <2>4, <2>5, <2>6
  <2>8. History!Record
    BY <2>7, NewestIs DEF History!Record, old, new
  <2>9. FreshIsLast'
    BY <1>4, <2>4 DEF FreshIsLast
  <2> QED BY <2>8, <2>9
<1> QED BY <1>3, <1>4

LEMMA KillContinued ==
  ASSUME KInv, NEW data \in Text, kill_ring # << >>, ExtendKill(data)
  PROVE  FreshIsLast' /\ History!Continue
<1> DEFINE k == kill_ring_index
           cur == kill_ring[k + 1]
           grown == Join(cur, data)
           ring == kill_ring'
           old == NewestFirst(kill_ring, k)
           new == NewestFirst(ring, k)
<1>1. kill_ring \in Seq(Text) /\ k \in Nat /\ k < Len(kill_ring)
  BY DEF KInv, IInv, TypeOK, RingTypeOK
<1>2. cur \in Text
  <2>1. k + 1 \in 1 .. Len(kill_ring)
    BY <1>1
  <2> QED BY <1>1, <2>1, ElementOfSeq
<1>3. ring = [kill_ring EXCEPT ![k + 1] = grown] /\ kill_ring_index' = k
  BY DEF ExtendKill
<1> HIDE DEF cur
<1>4. grown \in Text /\ History!Continues(grown, cur)
  BY <1>2, JoinType, JoinContinues
<1> HIDE DEF grown
<1>5. /\ ring \in Seq(Text) /\ Len(ring) = Len(kill_ring)
      /\ ring[k + 1] = grown
      /\ \A j \in 1 .. Len(kill_ring) : j # k + 1 => ring[j] = kill_ring[j]
  <2>1. k + 1 \in 1 .. Len(kill_ring)
    BY <1>1
  <2> QED BY <1>1, <1>3, <1>4, <2>1, ExceptSeq
<1> HIDE DEF ring
<1>6. /\ new[1] = grown /\ old[1] = cur
      /\ \A i \in 2 .. Len(ring) : new[i] = old[i]
  BY <1>1, <1>5, GrownNewest DEF cur
<1>7. Len(new) = Len(kill_ring) /\ Len(old) = Len(kill_ring)
  BY <1>1, <1>5, NewestFirstIs
<1>8. old # << >>
  BY <1>1, <1>7
<1>9. KillsNewestFirst = old /\ KillsNewestFirst' = new
  BY <1>3, NewestIs DEF ring
<1> HIDE DEF old, new
<1>10. History!Continue
  <2>1. /\ old # << >>
        /\ Len(new) = Len(old)
        /\ \A i \in 2 .. Len(old) : new[i] = old[i]
        /\ History!Continues(new[1], old[1])
    BY <1>4, <1>5, <1>6, <1>7, <1>8
  <2> QED BY <1>9, <2>1 DEF History!Continue
<1>11. FreshIsLast'
  BY <1>1, <1>3, <1>5 DEF KInv, FreshIsLast, ring
<1> QED BY <1>10, <1>11

LEMMA StepKills == KInv /\ [Next]_vars => KInv' /\ [History!Next]_KillsNewestFirst
<1> SUFFICES ASSUME KInv, [Next]_vars
             PROVE  KInv' /\ [History!Next]_KillsNewestFirst
  OBVIOUS
<1>1. IInv'
  BY NextInvariant DEF KInv
<1>2. CASE UNCHANGED ringVars
  <2>1. FreshIsLast' /\ KillsNewestFirst' = KillsNewestFirst
    BY <1>2 DEF KInv, FreshIsLast, KillsNewestFirst, ringVars
  <2> QED BY <1>1, <2>1 DEF KInv
<1>3. CASE ~UNCHANGED ringVars
  <2>1. RingStep
    BY <1>3, StepRing DEF KInv, vars, ringVars
  <2>2. PICK data \in Text, append \in BOOLEAN : editor_kill_set(data, append)
    BY <1>3, <2>1 DEF RingStep
  <2>3. /\ data # EmptyText
        /\ PushKill(data) \/ (kill_ring # << >> /\ ExtendKill(data))
    BY <1>3, <2>2 DEF editor_kill_set
  <2>4. FreshIsLast' /\ (History!Record \/ History!Continue)
    BY <2>3, KillRecorded, KillContinued
  <2> QED BY <1>1, <2>4 DEF KInv, History!Next
<1> QED BY <1>2, <1>3

(* The ring of the code, whatever is killed, copied, yanked and edited and   *)
(* however often it wraps around, is the history of kills: a kill is added   *)
(* to the newest or becomes the newest, and no other changes its place.      *)
THEOREM KillsAlwaysKept == Spec => KillsKept
<1>1. Init => KInv /\ History!Init
  <2> SUFFICES ASSUME Init PROVE KInv /\ History!Init
    OBVIOUS
  <2>1. kill_ring = << >>
    BY DEF Init, RingInit
  <2>2. KillsNewestFirst = << >>
    BY <2>1 DEF KillsNewestFirst
  <2> QED BY <2>1, <2>2, InitInvariant DEF KInv, FreshIsLast, History!Init
<1>2. KInv /\ [Next]_vars => KInv' /\ [History!Next]_KillsNewestFirst
  BY StepKills
<1> QED BY <1>1, <1>2, PTL DEF Spec, KillsKept, History!Spec

-----------------------------------------------------------------------------
(* Insertions leave what follows the cursor as it was.                       *)

(* Where the cursor stands when it is within its line.                       *)
LEMMA CursorPlace ==
  ASSUME IInv
  PROVE  /\ CursorInLine => Position(lines, row, col)
         /\ Position(lines, row, col) => CursorInLine
         /\ Position(lines, row, ClampCol(lines, row, col))
<1> /\ lines \in Text /\ row \in 0 .. (Len(lines) - 1) /\ col \in Nat
    /\ Len(CurLine) \in Nat
  BY CurLineType
<1>1. Position(lines, row, col) <=> CursorInLine
  BY DEF CursorInLine, CurLine, Position
<1>2. Position(lines, row, ClampCol(lines, row, col))
  BY ClampIsPlace
<1> QED BY <1>1, <1>2

LEMMA CurrentKillType ==
  ASSUME RingTypeOK, kill_ring # << >>
  PROVE  CurrentKill \in Text
<1>1. kill_ring \in Seq(Text) /\ kill_ring_index + 1 \in 1 .. Len(kill_ring)
  BY DEF RingTypeOK
<1> QED BY <1>1, ElementOfSeq DEF CurrentKill

(* A step that leaves the frame on a place of the text it leaves.            *)
LEMMA FrameOnPlace ==
  ASSUME NEW L \in Text, NEW r, NEW c, Position(L, r, c),
         lines' = L, row' = r, col' = c
  PROVE  CursorInLine' /\ TextAfter' = After(L, r, c) /\ TextBefore' = Before(L, r, c)
BY ClampPlace DEF CursorInLine, CurLine, TextAfter, TextBefore

LEMMA FrameHere ==
  ASSUME IInv, CursorInLine
  PROVE  /\ Position(lines, row, col)
         /\ TextAfter = After(lines, row, col) /\ TextBefore = Before(lines, row, col)
<1>1. lines \in Text /\ Position(lines, row, col)
  BY CursorPlace, CurLineType
<1> QED BY <1>1, ClampPlace DEF TextAfter, TextBefore

(* What an insertion at the cursor does when it leaves the cursor at the end *)
(* of the inserted text.                                                     *)
LEMMA InsertStep ==
  ASSUME IInv, CursorInLine, NEW text \in Text,
         lines' = InsertText(lines, row, col, text),
         row' = row + Len(text) - 1, col' = InsertEndCol(col, text)
  PROVE  CursorInLine' /\ TextAfter' = TextAfter
<1>1. /\ lines \in Text /\ Position(lines, row, col) /\ TextAfter = After(lines, row, col)
  BY FrameHere, CurLineType
<1> DEFINE L == InsertText(lines, row, col, text)
           r == row + Len(text) - 1
           c == InsertEndCol(col, text)
<1>2. L \in Text /\ Position(L, r, c) /\ After(L, r, c) = After(lines, row, col)
  BY <1>1, InsertEnd
<1> HIDE DEF L, r, c
<1>3. lines' = L /\ row' = r /\ col' = c
  BY DEF L, r, c
<1> QED BY <1>1, <1>2, <1>3, FrameOnPlace

(* One character typed at a place.                                           *)
LEMMA CharAtPlace ==
  ASSUME NEW L \in Text, NEW r, NEW c, Position(L, r, c), NEW ch \in Byte
  PROVE  LET new == buffer_insert_char(L, r, c, ch)
         IN  new \in Text /\ Position(new, r, c + 1) /\ After(new, r, c + 1) = After(L, r, c)
<1> DEFINE text == << <<ch>> >>
           new == InsertText(L, r, c, text)
<1>1. buffer_insert_char(L, r, c, ch) = new
  <2>1. r < Len(L) /\ ClampCol(L, r, c) = c /\ ~(r >= Len(L))
    BY ClampPlace, TextLines
  <2> QED BY <2>1 DEF buffer_insert_char
<1>2. text \in Text /\ Len(text) = 1 /\ Len(text[1]) = 1
  BY SmallTexts
<1>3. c \in Nat /\ r \in Nat
  BY ClampPlace
<1> HIDE DEF text
<1>4. InsertEndCol(c, text) = c + 1 /\ r + Len(text) - 1 = r
  BY <1>2, <1>3 DEF InsertEndCol
<1>5. /\ new \in Text
      /\ Position(new, r + Len(text) - 1, InsertEndCol(c, text))
      /\ After(new, r + Len(text) - 1, InsertEndCol(c, text)) = After(L, r, c)
  BY <1>2, InsertEnd, ZenonT(20)
<1> HIDE DEF new
<1> QED BY <1>1, <1>4, <1>5

LEMMA TypedKeepsTail ==
  ASSUME IInv, CursorInLine, (\E ch \in KeyBytes : SelfInsert(ch)) \/ InsertTab
  PROVE  CursorInLine' /\ TextAfter' = TextAfter
<1>1. /\ lines \in Text /\ Position(lines, row, col) /\ TextAfter = After(lines, row, col)
  BY FrameHere, CurLineType
<1>2. CASE \E ch \in KeyBytes : SelfInsert(ch)
  <2>1. PICK ch \in KeyBytes : SelfInsert(ch)
    BY <1>2
  <2> DEFINE L == buffer_insert_char(lines, row, col, ch)
             c == col + 1
  <2>2. L \in Text /\ Position(L, row, c) /\ After(L, row, c) = After(lines, row, col)
    BY <1>1, EditingConstants, CharAtPlace
  <2>3. lines' = L /\ row' = row /\ col' = c
    BY <2>1 DEF SelfInsert
  <2> HIDE DEF L, c
  <2> QED BY <1>1, <2>2, <2>3, FrameOnPlace
<1>3. CASE InsertTab
  <2>0. Space \in Byte /\ Tab \in Byte
    BY ByteClasses, BlankBytes
  <2>1. CASE Mode = MAKEFILE_MODE
    <3> DEFINE L == buffer_insert_char(lines, row, col, Tab)
               c == col + 1
    <3>1. L \in Text /\ Position(L, row, c) /\ After(L, row, c) = After(lines, row, col)
      BY <1>1, <2>0, CharAtPlace
    <3>2. lines' = L /\ row' = row /\ col' = c
      BY <1>3, <2>1 DEF InsertTab, buffer_insert_tab
    <3> HIDE DEF L, c
    <3> QED BY <1>1, <3>1, <3>2, FrameOnPlace
  <2>2. CASE Mode # MAKEFILE_MODE
    <3> DEFINE M == buffer_insert_char(lines, row, col, Space)
               b == col + 1
               L == buffer_insert_char(M, row, b, Space)
               c == b + 1
    <3>1. M \in Text /\ Position(M, row, b) /\ After(M, row, b) = After(lines, row, col)
      BY <1>1, <2>0, CharAtPlace
    <3>2. L = buffer_insert_tab(lines, row, col, Mode)
      BY <2>2 DEF buffer_insert_tab
    <3>3. c = col + 2
      BY CurLineType
    <3> HIDE DEF M, b
    <3>4. L \in Text /\ Position(L, row, c) /\ After(L, row, c) = After(M, row, b)
      BY <2>0, <3>1, CharAtPlace
    <3>5. lines' = L /\ row' = row /\ col' = c
      BY <1>3, <2>2, <3>2, <3>3 DEF InsertTab
    <3> HIDE DEF L, c
    <3> QED BY <1>1, <3>1, <3>4, <3>5, FrameOnPlace
  <2> QED BY <2>1, <2>2
<1> QED BY <1>2, <1>3

LEMMA EnterKeepsTail ==
  ASSUME IInv, CursorInLine, Enter
  PROVE  CursorInLine' /\ TextAfter' = TextAfter
<1>1. /\ lines \in Text /\ Position(lines, row, col)
  BY FrameHere, CurLineType
<1>2. row \in Nat /\ row < Len(lines) /\ ~(row >= Len(lines)) /\ ClampCol(lines, row, col) = col
  BY <1>1, CurLineType, ClampPlace
<1>3. Newline \in Text /\ Len(Newline) = 2 /\ Newline[2] = << >>
  BY SmallTexts DEF Newline
<1>4. /\ lines' = InsertText(lines, row, col, Newline)
      /\ row' = row + 1 /\ col' = 0
  BY <1>2 DEF Enter, buffer_insert_newline
<1>5. row + Len(Newline) - 1 = row + 1 /\ InsertEndCol(col, Newline) = 0
  BY <1>2, <1>3 DEF InsertEndCol
<1> QED BY <1>3, <1>4, <1>5, InsertStep

(* What follows the beginning of a line determines what follows any of its   *)
(* columns.                                                                  *)
LEMMA AfterColumn ==
  ASSUME NEW s \in Text, NEW r, NEW t \in Text, NEW q, NEW c,
         Position(s, r, 0), Position(t, q, c), After(s, r, 0) = After(t, q, 0)
  PROVE  Position(s, r, c) /\ After(s, r, c) = After(t, q, c)
<1>0. /\ Len(s) \in Nat /\ r \in 0 .. (Len(s) - 1) /\ s[r + 1] \in Line
      /\ Len(t) \in Nat /\ q \in 0 .. (Len(t) - 1) /\ t[q + 1] \in Line
      /\ c \in 0 .. Len(t[q + 1]) /\ 0 \in 0 .. Len(s[r + 1]) /\ 0 \in 0 .. Len(t[q + 1])
  BY ClampPlace, TextLines, SMTT(30) DEF Line
<1>1. Len(s) - r = Len(t) - q
  <2>1. Len(After(s, r, 0)) = Len(s) - r /\ Len(After(t, q, 0)) = Len(t) - q
    BY <1>0, AfterType
  <2> QED BY <2>1
<1>2. /\ After(s, r, 0)[1] = SubSeq(s[r + 1], 0 + 1, Len(s[r + 1]))
      /\ After(t, q, 0)[1] = SubSeq(t[q + 1], 0 + 1, Len(t[q + 1]))
      /\ \A i \in 2 .. (Len(s) - r) : After(s, r, 0)[i] = s[r + i]
      /\ \A i \in 2 .. (Len(t) - q) : After(t, q, 0)[i] = t[q + i]
  BY <1>0, AfterLines
<1>3. s[r + 1] = t[q + 1]
  BY <1>0, <1>2, WholeLine
<1>4. Position(s, r, c)
  BY <1>0, <1>3 DEF Position
<1>5. c \in 0 .. Len(s[r + 1])
  BY <1>4 DEF Position
<1> DEFINE x == After(s, r, c)
           y == After(t, q, c)
<1>6. x \in Text /\ y \in Text /\ Len(x) = Len(s) - r /\ Len(y) = Len(t) - q
  BY <1>0, <1>5, AfterType
<1>7. /\ x[1] = SubSeq(s[r + 1], c + 1, Len(s[r + 1]))
      /\ y[1] = SubSeq(t[q + 1], c + 1, Len(t[q + 1]))
      /\ \A i \in 2 .. (Len(s) - r) : x[i] = s[r + i]
      /\ \A i \in 2 .. (Len(t) - q) : y[i] = t[q + i]
  BY <1>0, <1>5, AfterLines
<1> HIDE DEF x, y
<1>8. ASSUME NEW i \in 1 .. Len(x) PROVE x[i] = y[i]
  <2>1. CASE i = 1
    BY <1>3, <1>7, <2>1
  <2>2. CASE i # 1
    <3>1. i \in 2 .. (Len(s) - r) /\ i \in 2 .. (Len(t) - q)
      BY <1>0, <1>1, <1>6, <2>2
    <3> QED BY <1>1, <1>2, <1>7, <3>1
  <2> QED BY <2>1, <2>2
<1>9. x = y
  BY <1>1, <1>6, <1>8, TextEqual
<1> QED BY <1>4, <1>9 DEF x, y

LEMMA OpenKeepsTail ==
  ASSUME IInv, CursorInLine, OpenLine
  PROVE  CursorInLine' /\ TextAfter' = TextAfter
<1>1. /\ lines \in Text /\ Position(lines, row, col) /\ TextAfter = After(lines, row, col)
  BY FrameHere, CurLineType
<1>2. /\ row \in Nat /\ row < Len(lines) /\ ~(row >= Len(lines))
      /\ row \in 0 .. (Len(lines) - 1) /\ Len(lines[row + 1]) \in Nat
  BY CurLineType, RowType
<1>3. Position(lines, row, 0)
  BY <1>2 DEF Position
<1>4. ClampCol(lines, row, 0) = 0
  BY <1>1, <1>3, ClampPlace
<1>5. Newline \in Text /\ Len(Newline) = 2 /\ Newline[2] = << >>
  BY SmallTexts DEF Newline
<1> DEFINE L == InsertText(lines, row, 0, Newline)
           r == row + 1
<1>6. lines' = L /\ row' = r /\ col' = col
  BY <1>2, <1>4 DEF OpenLine, buffer_insert_newline
<1>7. row + Len(Newline) - 1 = r /\ InsertEndCol(0, Newline) = 0
  BY <1>2, <1>5 DEF InsertEndCol
<1>8. /\ L \in Text
      /\ Position(L, row + Len(Newline) - 1, InsertEndCol(0, Newline))
      /\ After(L, row + Len(Newline) - 1, InsertEndCol(0, Newline)) = After(lines, row, 0)
  BY <1>1, <1>3, <1>5, InsertEnd, ZenonT(20)
<1> HIDE DEF L, r
<1>9. Position(L, r, col) /\ After(L, r, col) = After(lines, row, col)
  BY <1>1, <1>7, <1>8, AfterColumn
<1> QED BY <1>1, <1>6, <1>8, <1>9, FrameOnPlace

LEMMA YankKeepsTail ==
  ASSUME IInv, CursorInLine, editor_yank
  PROVE  CursorInLine' /\ TextAfter' = TextAfter
<1>1. CASE kill_ring = << >>
  <2>1. UNCHANGED <<lines, frameVars>>
    BY <1>1 DEF editor_yank
  <2> QED BY <2>1 DEF frameVars, CursorInLine, CurLine, TextAfter
<1>2. CASE kill_ring # << >>
  <2> DEFINE text == CurrentKill
  <2>1. text \in Text
    BY <1>2, CurLineType, CurrentKillType
  <2>2. ClampCol(lines, row, col) = col
    BY FrameHere, CurLineType, ClampPlace
  <2>3. /\ lines' = InsertText(lines, row, col, text)
        /\ row' = row + Len(text) - 1 /\ col' = InsertEndCol(col, text)
    BY <1>2, <2>2 DEF editor_yank, editor_yank_from, InsertEndCol
  <2> HIDE DEF text
  <2> QED BY <2>1, <2>3, InsertStep
<1> QED BY <1>1, <1>2

(* Inserting leaves the cursor in its line and before the same text.         *)
LEMMA InsertingKeepsTail ==
  ASSUME IInv, CursorInLine, Inserting
  PROVE  CursorInLine' /\ TextAfter' = TextAfter
BY TypedKeepsTail, EnterKeepsTail, OpenKeepsTail, YankKeepsTail DEF Inserting

(* Typing, Tab, Enter, C-o and C-y leave the cursor before the text it was   *)
(* before: the insertion of input.c's handlers and the frame's move agree,   *)
(* over any number of lines.                                                 *)
THEOREM InsertionsKeepTail == Spec => InsertKeepsTail
<1>1. IInv /\ [Next]_vars
        => [Inserting /\ CursorInLine => TextAfter' = TextAfter]_vars
  BY InsertingKeepsTail
<1> QED BY <1>1, Invariance, PTL DEF Spec, InsertKeepsTail

-----------------------------------------------------------------------------
(* Deletions forward leave what precedes the cursor as it was.               *)

LEMMA LineStart ==
  ASSUME NEW L \in Text, NEW r \in 0 .. (Len(L) - 1)
  PROVE  Position(L, r, 0) /\ 0 \in 0 .. Len(L[r + 1])
<1>1. Len(L[r + 1]) \in Nat
  BY RowType
<1> QED BY <1>1 DEF Position

(* A deletion that begins at the cursor, which does not move.                *)
LEMMA DeleteAtCursor ==
  ASSUME IInv, CursorInLine, NEW r, NEW c, Position(lines, r, c),
         lines' = DeleteBetween(lines, row, col, r, c), UNCHANGED frameVars
  PROVE  CursorInLine' /\ TextBefore' = TextBefore
<1>1. lines \in Text /\ Position(lines, row, col) /\ TextBefore = Before(lines, row, col)
  BY FrameHere, CurLineType
<1> DEFINE L == DeleteBetween(lines, row, col, r, c)
<1>2. L \in Text /\ Position(L, row, col) /\ Before(L, row, col) = Before(lines, row, col)
  BY <1>1, DeletePlaces
<1>3. lines' = L /\ row' = row /\ col' = col
  BY DEF frameVars
<1> HIDE DEF L
<1> QED BY <1>1, <1>2, <1>3, FrameOnPlace

LEMMA NothingDeleted ==
  ASSUME CursorInLine, UNCHANGED <<lines, frameVars>>
  PROVE  CursorInLine' /\ TextBefore' = TextBefore
BY DEF frameVars, CursorInLine, CurLine, TextBefore

(* A kill of a part of the cursor's line.                                    *)
LEMMA KillRangeIs ==
  ASSUME IInv, NEW start \in Nat, NEW end \in Nat, end <= Len(CurLine),
         end > start, KillRange(start, end)
  PROVE  /\ Position(lines, row, start) /\ Position(lines, row, end)
         /\ lines' = DeleteBetween(lines, row, start, row, end)
         /\ editor_kill_set(Piece(lines, row, start, row, end), last_was_kill)
         /\ Piece(lines, row, start, row, end) # EmptyText
         /\ Piece(lines, row, start, row, end) \in Text
<1> USE CurLineType
<1>1. Position(lines, row, start) /\ Position(lines, row, end)
  BY DEF Position, CurLine
<1>2. /\ ClampCol(lines, row, start) = start /\ ClampCol(lines, row, end) = end
      /\ ~(row >= Len(lines)) /\ ~(end <= start)
  BY <1>1, ClampPlace
<1>3. lines' = DeleteBetween(lines, row, start, row, end)
  BY <1>2 DEF KillRange, buffer_delete_range
<1> DEFINE data == SubSeq(CurLine, start + 1, end)
           piece == Piece(lines, row, start, row, end)
<1>4. editor_kill_set(<< data >>, last_was_kill)
  BY DEF KillRange
<1>5. piece \in Text /\ piece = << data >>
  <2>1. start <= end /\ lines \in Text
    OBVIOUS
  <2> QED BY <1>1, <2>1, PieceOfRow DEF CurLine
<1>6. Len(data) > 0
  <2>1. \A k \in (start + 1) .. end : CurLine[k] \in Byte
    BY DEF Line
  <2> QED BY <2>1, SubSeqProperties
<1> HIDE DEF data, piece
<1>7. piece # EmptyText
  BY <1>5, <1>6 DEF EmptyText
<1> QED BY <1>1, <1>3, <1>4, <1>5, <1>7 DEF piece

(* A kill of the newline that ends row r.                                    *)
LEMMA KillNewlineIs ==
  ASSUME IInv, NEW r \in 0 .. (Len(lines) - 1), editor_kill_newline_and_next(r)
  PROVE  \/ r + 1 >= Len(lines) /\ UNCHANGED <<lines, ringVars>>
         \/ /\ Position(lines, r, Len(lines[r + 1]))
            /\ Position(lines, r + 1, 0)
            /\ lines' = DeleteBetween(lines, r, Len(lines[r + 1]), r + 1, 0)
            /\ Len(lines') = Len(lines) - 1
<1> USE CurLineType
<1>1. CASE r + 1 >= Len(lines)
  BY <1>1 DEF editor_kill_newline_and_next
<1>2. CASE ~(r + 1 >= Len(lines))
  <2> DEFINE down == r + 1
             c    == Len(lines[r + 1])
             L    == DeleteBetween(lines, r, c, down, 0)
  <2>1. down \in 0 .. (Len(lines) - 1) /\ down - r = 1
    BY <1>2
  <2>2. lines' = L
    BY <1>2 DEF editor_kill_newline_and_next
  <2>3. c \in 0 .. Len(lines[r + 1]) /\ Position(lines, r, c)
    <3>1. Len(lines[r + 1]) \in Nat
      BY RowType
    <3> QED BY <3>1 DEF Position
  <2> HIDE DEF down, c
  <2>4. 0 \in 0 .. Len(lines[down + 1]) /\ Position(lines, down, 0)
    BY <2>1, LineStart
  <2>5. Len(L) = Len(lines) - (down - r)
    BY <2>1, <2>3, <2>4, DeleteBetweenType
  <2> HIDE DEF L
  <2>6. Len(lines') = Len(lines) - 1
    BY <2>1, <2>2, <2>5
  <2> QED BY <2>2, <2>3, <2>4, <2>6 DEF L, c, down
<1> QED BY <1>1, <1>2

(* What M-d kills ends within the line.                                      *)
WordForwardEnd ==
  SkipRight(CurLine, SkipRight(CurLine, col, SpaceByte), WordByte)

LEMMA WordForwardEndType ==
  ASSUME IInv, col < Len(CurLine)
  PROVE  WordForwardEnd \in col .. Len(CurLine) /\ WordForwardEnd \in Nat
<1> DEFINE mid == SkipRight(CurLine, col, SpaceByte)
           end == SkipRight(CurLine, mid, WordByte)
<1>1. col \in 0 .. Len(CurLine) /\ CurLine \in Line /\ Len(CurLine) \in Nat
  BY CurLineType
<1>2. mid \in col .. Len(CurLine)
  BY <1>1, SkipRightInLine
<1> HIDE DEF mid
<1>3. mid \in 0 .. Len(CurLine)
  BY <1>1, <1>2
<1>4. end \in mid .. Len(CurLine)
  BY <1>1, <1>3, SkipRightInLine
<1> HIDE DEF end
<1>5. end \in col .. Len(CurLine) /\ end \in Nat
  BY <1>1, <1>2, <1>4
<1> QED BY <1>5 DEF WordForwardEnd, end, mid

LEMMA KillRangeKeepsHead ==
  ASSUME IInv, CursorInLine, NEW end \in Nat, end <= Len(CurLine),
         KillRange(col, end), UNCHANGED frameVars
  PROVE  CursorInLine' /\ TextBefore' = TextBefore
<1>1. CASE end > col
  BY <1>1, CurLineType, KillRangeIs, DeleteAtCursor
<1>2. CASE ~(end > col)
  <2>1. UNCHANGED <<lines, frameVars>>
    BY <1>2 DEF KillRange
  <2> QED BY <2>1, NothingDeleted
<1> QED BY <1>1, <1>2

LEMMA KillNewlineKeepsHead ==
  ASSUME IInv, CursorInLine, col >= Len(CurLine),
         editor_kill_newline_and_next(row), UNCHANGED frameVars
  PROVE  CursorInLine' /\ TextBefore' = TextBefore
<1>1. col = Len(lines[row + 1])
  BY CurLineType DEF CursorInLine, CurLine
<1>2. \/ UNCHANGED lines
      \/ /\ Position(lines, row + 1, 0)
         /\ lines' = DeleteBetween(lines, row, col, row + 1, 0)
  BY <1>1, CurLineType, KillNewlineIs
<1> QED BY <1>2, NothingDeleted, DeleteAtCursor

LEMMA KillLineKeepsHead ==
  ASSUME IInv, CursorInLine, KillLine
  PROVE  CursorInLine' /\ TextBefore' = TextBefore
<1>1. UNCHANGED frameVars
  BY DEF KillLine
<1>2. CASE col < Len(CurLine)
  <2>1. KillRange(col, Len(CurLine))
    BY <1>2 DEF KillLine
  <2> QED BY <1>1, <2>1, CurLineType, KillRangeKeepsHead
<1>3. CASE ~(col < Len(CurLine)) /\ row + 1 < Len(lines)
  <2>1. editor_kill_newline_and_next(row) /\ col >= Len(CurLine)
    BY <1>3, CurLineType DEF KillLine
  <2> QED BY <1>1, <2>1, KillNewlineKeepsHead
<1>4. CASE ~(col < Len(CurLine)) /\ ~(row + 1 < Len(lines))
  <2>1. UNCHANGED <<lines, frameVars>>
    BY <1>4 DEF KillLine
  <2> QED BY <2>1, NothingDeleted
<1> QED BY <1>2, <1>3, <1>4

LEMMA KillWordForwardKeepsHead ==
  ASSUME IInv, CursorInLine, editor_kill_word_forward
  PROVE  CursorInLine' /\ TextBefore' = TextBefore
<1>1. UNCHANGED frameVars
  BY DEF editor_kill_word_forward
<1>2. CASE col < Len(CurLine)
  <2>1. KillRange(col, WordForwardEnd)
    BY <1>2, CurLineType DEF editor_kill_word_forward, WordForwardEnd
  <2>2. WordForwardEnd \in Nat /\ WordForwardEnd <= Len(CurLine)
    BY <1>2, WordForwardEndType, CurLineType
  <2> QED BY <1>1, <2>1, <2>2, KillRangeKeepsHead
<1>3. CASE col >= Len(CurLine)
  <2>1. editor_kill_newline_and_next(row)
    BY <1>3 DEF editor_kill_word_forward
  <2> QED BY <1>1, <1>3, <2>1, KillNewlineKeepsHead
<1> QED BY <1>2, <1>3, CurLineType

LEMMA DeleteForwardKeepsHead ==
  ASSUME IInv, CursorInLine, DeleteForward
  PROVE  CursorInLine' /\ TextBefore' = TextBefore
<1> DEFINE line == lines[row + 1]
           n == utf8_next_boundary(line, col)
<1>1. /\ lines \in Text /\ Position(lines, row, col) /\ line \in Line
      /\ col \in Nat /\ Len(line) \in Nat /\ Len(lines) \in Nat
      /\ row \in 0 .. (Len(lines) - 1) /\ row < Len(lines)
      /\ line_length(lines, row) = Len(line) /\ ClampCol(lines, row, col) = col
  BY FrameHere, CurLineType, ClampPlace DEF CurLine
<1>2. lines' = buffer_delete_forward(lines, row, col) /\ UNCHANGED frameVars
  BY DEF DeleteForward
<1>3. CASE col < Len(line)
  <2>1. n \in 0 .. Len(line)
    BY <1>1, NextBoundaryInLine
  <2>2. Position(lines, row, n)
    BY <1>1, <2>1 DEF Position
  <2>3. lines' = DeleteBetween(lines, row, col, row, n)
    BY <1>1, <1>2, <1>3 DEF buffer_delete_forward
  <2> HIDE DEF n
  <2> QED BY <1>2, <2>2, <2>3, DeleteAtCursor
<1>4. CASE ~(col < Len(line)) /\ row + 1 < Len(lines)
  <2> DEFINE down == row + 1
  <2>1. down \in 0 .. (Len(lines) - 1)
    BY <1>1, <1>4
  <2>2. lines' = DeleteBetween(lines, row, col, down, 0)
    BY <1>1, <1>2, <1>4 DEF buffer_delete_forward
  <2> HIDE DEF down
  <2>3. Position(lines, down, 0)
    BY <1>1, <2>1, LineStart
  <2> QED BY <1>2, <2>2, <2>3, DeleteAtCursor
<1>5. CASE ~(col < Len(line)) /\ ~(row + 1 < Len(lines))
  <2>1. lines' = lines
    BY <1>1, <1>2, <1>5 DEF buffer_delete_forward
  <2> QED BY <1>2, <2>1, NothingDeleted
<1> QED BY <1>3, <1>4, <1>5

(* C-d, C-k and M-d leave what precedes the cursor as it was, whether they   *)
(* delete within the line or join it with the next.                          *)
THEOREM DeletionsKeepHead == Spec => DeleteKeepsHead
<1>1. IInv /\ [Next]_vars
        => [(DeleteForward \/ KillLine \/ editor_kill_word_forward) /\ CursorInLine
              => TextBefore' = TextBefore]_vars
  BY DeleteForwardKeepsHead, KillLineKeepsHead, KillWordForwardKeepsHead
<1> QED BY <1>1, Invariance, PTL DEF Spec, DeleteKeepsHead

-----------------------------------------------------------------------------
(* Where the other commands leave the cursor.                                *)

(* Where the cursor is after a command, when it does not depend on where it  *)
(* was before.                                                               *)
LEMMA FrameOnChar ==
  ASSUME NEW L \in Text, NEW r, NEW c, OnChar(L, r, c),
         lines' = L, row' = r, col' = c
  PROVE  CursorInLine' /\ CursorOnBoundary'
<1>1. Position(L, r, c) /\ Stands(L[r + 1], c)
  BY DEF OnChar
<1>2. CursorInLine'
  BY <1>1, FrameOnPlace
<1> QED BY <1>1, <1>2 DEF CursorOnBoundary, CurLine, Stands

(* What a command that does not depend on the region does to the cursor.     *)
Settles ==
  \/ UNCHANGED <<lines, frameVars>>
  \/ CursorInLine' /\ CursorOnBoundary'

LEMMA LineMotionSettles ==
  ASSUME IInv,
         \/ frame_move_prev_line \/ frame_move_next_line
         \/ frame_move_line_start \/ frame_move_line_end
  PROVE  Settles
<1> USE CurLineType DEF Settles
<1>0. lines' = lines
  BY DEF frame_move_prev_line, frame_move_next_line, frame_move_line_start,
         frame_move_line_end, Motion
<1>1. ASSUME NEW r \in 0 .. (Len(lines) - 1),
             row' = r, col' = utf8_clamp_col(lines[r + 1], col)
      PROVE  Settles
  <2> DEFINE c == utf8_clamp_col(lines[r + 1], col)
  <2>1. lines[r + 1] \in Line
    BY RowType
  <2>2. OnChar(lines, r, c)
    BY <2>1, ClampInLine, ClampStands DEF OnChar, Position
  <2> HIDE DEF c
  <2>3. row' = r /\ col' = c
    BY <1>1 DEF c
  <2> QED BY <1>0, <2>2, <2>3, FrameOnChar
<1>2. CASE frame_move_prev_line
  <2>1. CASE row = 0
    BY <1>0, <1>2, <2>1 DEF frame_move_prev_line
  <2>2. CASE row # 0
    <3> DEFINE up == row - 1
    <3>1. up \in 0 .. (Len(lines) - 1) /\ up + 1 = row
      BY <2>2
    <3>2. row' = up /\ col' = utf8_clamp_col(lines[row], col)
      BY <1>2, <2>2 DEF frame_move_prev_line
    <3> HIDE DEF up
    <3> QED BY <1>1, <3>1, <3>2
  <2> QED BY <2>1, <2>2
<1>3. CASE frame_move_next_line
  <2>1. CASE row + 1 >= Len(lines)
    BY <1>0, <1>3, <2>1 DEF frame_move_next_line
  <2>2. CASE ~(row + 1 >= Len(lines))
    <3> DEFINE down == row + 1
    <3>1. down \in 0 .. (Len(lines) - 1) /\ down + 1 = row + 2
      BY <2>2
    <3>2. row' = down /\ col' = utf8_clamp_col(lines[row + 2], col)
      BY <1>3, <2>2 DEF frame_move_next_line
    <3> HIDE DEF down
    <3> QED BY <1>1, <3>1, <3>2
  <2> QED BY <2>1, <2>2
<1>4. CASE frame_move_line_start
  <2>1. OnChar(lines, row, 0)
    BY LineStart DEF OnChar, Stands
  <2>2. row' = row /\ col' = 0
    BY <1>4 DEF frame_move_line_start
  <2> QED BY <1>0, <2>1, <2>2, FrameOnChar
<1>5. CASE frame_move_line_end
  <2>1. OnChar(lines, row, Len(CurLine))
    BY DEF OnChar, Position, Stands, CurLine
  <2>2. row' = row /\ col' = Len(CurLine)
    BY <1>5 DEF frame_move_line_end
  <2> QED BY <1>0, <2>1, <2>2, FrameOnChar
<1> QED BY <1>2, <1>3, <1>4, <1>5

LEMMA NextCharSettles ==
  ASSUME IInv, frame_move_next_char
  PROVE  Settles
<1> USE CurLineType DEF Settles
<1>0. lines' = lines
  BY DEF frame_move_next_char, Motion
<1>1. CASE col < Len(CurLine)
  <2> DEFINE c == utf8_next_boundary(CurLine, col)
  <2>1. col \in 0 .. Len(CurLine)
    BY <1>1
  <2>2. c \in 0 .. Len(CurLine) /\ Stands(CurLine, c)
    BY <2>1, NextBoundaryInLine, NextBoundaryStands DEF Stands
  <2>3. row' = row /\ col' = c
    BY <1>1 DEF frame_move_next_char
  <2> HIDE DEF c
  <2>4. OnChar(lines, row, c)
    BY <2>2 DEF OnChar, Position, CurLine
  <2> QED BY <1>0, <2>3, <2>4, FrameOnChar
<1>2. CASE ~(col < Len(CurLine)) /\ row + 1 >= Len(lines)
  BY <1>0, <1>2 DEF frame_move_next_char
<1>3. CASE ~(col < Len(CurLine)) /\ ~(row + 1 >= Len(lines))
  <2> DEFINE down == row + 1
  <2>1. down \in 0 .. (Len(lines) - 1)
    BY <1>3
  <2>2. row' = down /\ col' = 0
    BY <1>3 DEF frame_move_next_char
  <2> HIDE DEF down
  <2>3. OnChar(lines, down, 0)
    BY <2>1, LineStart DEF OnChar, Stands
  <2> QED BY <1>0, <2>2, <2>3, FrameOnChar
<1> QED BY <1>1, <1>2, <1>3

LEMMA NextWordSettles ==
  ASSUME IInv, frame_move_next_word
  PROVE  Settles
<1> USE CurLineType
<1> DEFINE At(r) == WordEnd(r, IF r = row THEN col ELSE 0)
           T == {r \in row .. (Len(lines) - 1) :
                   r + 1 = Len(lines) \/ At(r) < Len(lines[r + 1])}
<1>1. row' = Min(T) /\ col' = At(row') /\ lines' = lines
  BY DEF frame_move_next_word, Motion
<1>2. T \in SUBSET Nat /\ Len(lines) - 1 \in T
  OBVIOUS
<1>3. Min(T) \in T
  <2> HIDE DEF T
  <2> QED BY <1>2, MinNat
<1>4. Min(T) \in 0 .. (Len(lines) - 1)
  BY <1>3
<1>5. ASSUME NEW r \in 0 .. (Len(lines) - 1), NEW c \in Nat
      PROVE  OnChar(lines, r, WordEnd(r, c))
  <2> DEFINE line == lines[r + 1]
             from == utf8_clamp_col(line, c)
             mid  == SkipRight(line, from, Byte \ WordByte)
             end  == SkipRight(line, mid, WordByte)
  <2>1. line \in Line /\ Len(line) \in Nat
    BY RowType
  <2>2. WordEnd(r, c) = end
    BY DEF WordEnd
  <2> HIDE DEF line
  <2>3. from \in 0 .. Len(line) /\ Stands(line, from)
    BY <2>1, ClampInLine, ClampStands
  <2> HIDE DEF from
  <2>4. mid \in 0 .. Len(line) /\ Stands(line, mid)
    <3>1. mid \in from .. Len(line)
      BY <2>1, <2>3, SkipRightInLine
    <3>2. mid = from \/ mid = Len(line) \/ line[mid + 1] \notin Cont
      BY <2>1, <2>3, SkipRightStands
    <3> HIDE DEF mid
    <3> QED BY <2>1, <2>3, <3>1, <3>2 DEF Stands
  <2> HIDE DEF mid
  <2>5. end \in 0 .. Len(line) /\ Stands(line, end)
    <3>1. end \in mid .. Len(line)
      BY <2>1, <2>4, SkipRightInLine
    <3>2. end = mid \/ end = Len(line) \/ line[end + 1] \notin Cont
      BY <2>1, <2>4, SkipRightStands
    <3> HIDE DEF end
    <3> QED BY <2>1, <2>4, <3>1, <3>2 DEF Stands
  <2> HIDE DEF end
  <2> QED BY <2>2, <2>5 DEF OnChar, Position, line
<1>6. OnChar(lines, Min(T), At(Min(T)))
  BY <1>4, <1>5
<1> HIDE DEF T, At
<1>7. row' = Min(T) /\ col' = At(Min(T))
  BY <1>1
<1> QED BY <1>1, <1>6, <1>7, FrameOnChar DEF Settles

LEMMA PrevWordSettles ==
  ASSUME IInv, frame_move_prev_word
  PROVE  Settles
<1> USE CurLineType
<1> DEFINE here  == utf8_clamp_col(CurLine, col)
           above == {r \in 0 .. (row - 1) : r = 0 \/ lines[r + 1] # << >>}
           start == IF here > 0 \/ row = 0 THEN row ELSE Max(above)
           line  == lines[start + 1]
           from  == IF start = row THEN here ELSE Len(line)
           mid   == SkipLeft(line, from, Byte \ WordByte)
           end   == SkipLeft(line, mid, WordByte)
<1>1. row' = start /\ col' = end /\ lines' = lines
  BY DEF frame_move_prev_word, Motion
<1>2. here \in 0 .. Len(CurLine) /\ Stands(CurLine, here)
  BY ClampInLine, ClampStands
<1>3. row # 0 => Max(above) \in 0 .. (row - 1)
  <2> SUFFICES ASSUME row # 0 PROVE Max(above) \in 0 .. (row - 1)
    OBVIOUS
  <2>1. row - 1 \in Nat /\ above \in SUBSET (0 .. (row - 1)) /\ 0 \in above
    OBVIOUS
  <2> HIDE DEF above
  <2>2. Max(above) \in above
    BY <2>1, MaxBelow
  <2> QED BY <2>1, <2>2
<1>4. start \in 0 .. (Len(lines) - 1)
  <2> HIDE DEF here, above
  <2> QED BY <1>3
<1>5. line \in Line /\ Len(line) \in Nat
  <2> HIDE DEF start
  <2> QED BY <1>4, RowType
<1>6. from \in 0 .. Len(line) /\ Stands(line, from)
  <2> HIDE DEF here, start
  <2>1. CASE start = row
    BY <1>2, <2>1 DEF CurLine
  <2>2. CASE start # row
    BY <1>5, <2>2 DEF Stands
  <2> QED BY <2>1, <2>2
<1> HIDE DEF line, from
<1>7. mid \in 0 .. Len(line) /\ Stands(line, mid)
  <2>1. mid \in 0 .. from
    BY <1>5, <1>6, SkipLeftBefore
  <2>2. mid = from \/ mid = 0 \/ line[mid + 1] \notin Cont
    BY <1>5, <1>6, SkipLeftStands
  <2> HIDE DEF mid
  <2> QED BY <1>5, <1>6, <2>1, <2>2 DEF Stands
<1> HIDE DEF mid
<1>8. end \in 0 .. Len(line) /\ Stands(line, end)
  <2>1. end \in 0 .. mid
    BY <1>5, <1>7, SkipLeftBefore
  <2>2. end = mid \/ end = 0 \/ line[end + 1] \notin Cont
    BY <1>5, <1>7, SkipLeftStands
  <2> HIDE DEF end
  <2> QED BY <1>5, <1>7, <2>1, <2>2 DEF Stands
<1> HIDE DEF end, start
<1>9. OnChar(lines, start, end)
  BY <1>4, <1>8 DEF OnChar, Position, line
<1> QED BY <1>1, <1>9, FrameOnChar DEF Settles

LEMMA PrevCharSettles ==
  ASSUME IInv, CursorInLine, frame_move_prev_char
  PROVE  Settles
<1> USE CurLineType
<1> DEFINE mem == Append(CurLine, NUL)
<1>0. lines' = lines /\ MovePrevCharIn(lines, mem)
  BY DEF frame_move_prev_char, Motion
<1>1. CASE col = 0 /\ row = 0
  BY <1>0, <1>1 DEF MovePrevCharIn, Settles
<1>2. CASE col = 0 /\ row # 0
  <2> DEFINE up == row - 1
             c  == Len(lines[row])
  <2>1. up \in 0 .. (Len(lines) - 1) /\ up + 1 = row
    BY <1>2
  <2>2. row' = up /\ col' = c
    BY <1>0, <1>2 DEF MovePrevCharIn
  <2> HIDE DEF up
  <2>3. lines[row] \in Line /\ Len(lines[row]) \in Nat
    BY <2>1, RowType
  <2>4. OnChar(lines, up, c)
    BY <2>1, <2>3 DEF OnChar, Position, Stands
  <2> HIDE DEF c
  <2> QED BY <1>0, <2>2, <2>4, FrameOnChar DEF Settles
<1>3. CASE col # 0
  <2> DEFINE c == utf8_prev_boundary(mem, col)
  <2>1. col \in Nat \ {0} /\ col <= Len(CurLine)
    BY <1>3 DEF CursorInLine
  <2>2. Len(mem) = Len(CurLine) + 1 /\ \A i \in 1 .. Len(CurLine) : mem[i] = CurLine[i]
    <3>1. CurLine \in Seq(Byte \cup {NUL}) /\ NUL \in Byte \cup {NUL}
      BY SeqMonotonic DEF Line
    <3> QED BY <3>1, AppendProperties
  <2>3. row' = row /\ col' = c
    <3> HIDE DEF mem
    <3>1. PrevBoundaryIn(mem, col) = {c} /\ col > 0
      BY <2>1, <2>2 DEF PrevBoundaryIn
    <3> QED BY <1>0, <3>1 DEF MovePrevCharIn
  <2>4. c \in 0 .. (col - 1) /\ (c = 0 \/ mem[c + 1] \notin Cont)
    BY <2>1, PrevBoundaryIsStop
  <2> HIDE DEF c, mem
  <2>5. c \in 0 .. Len(CurLine) /\ Stands(CurLine, c)
    <3>1. c \in 0 .. Len(CurLine) /\ c + 1 \in 1 .. Len(CurLine)
      BY <2>1, <2>4
    <3> QED BY <2>2, <2>4, <3>1 DEF Stands
  <2>6. OnChar(lines, row, c)
    BY <2>5 DEF OnChar, Position, CurLine
  <2> QED BY <1>0, <2>3, <2>6, FrameOnChar DEF Settles
<1> QED BY <1>1, <1>2, <1>3

(* The bytes Backspace walks over: the new line, its NUL, and what is left   *)
(* of the old line.                                                          *)
LEMMA MemoryAfterDeleteIs ==
  ASSUME NEW old \in Line, NEW new \in Line, Len(new) <= Len(old)
  PROVE  LET mem == MemoryAfterDelete(old, new)
         IN  /\ Len(mem) = Len(old) + 1
             /\ \A i \in 1 .. Len(new) : mem[i] = new[i]
             /\ \A i \in (Len(new) + 2) .. Len(old) : mem[i] = old[i]
<1> DEFINE Mem  == Byte \cup {NUL}
           whole == Append(old, NUL)
           one  == Append(new, NUL)
           m    == Len(new) + 2
           k    == Len(old) + 1
           rest == SubSeq(whole, m, k)
           mem  == one \o rest
<1>1. new \in Seq(Mem) /\ old \in Seq(Mem) /\ NUL \in Mem
  BY SeqMonotonic DEF Line
<1>2. Len(new) \in Nat /\ Len(old) \in Nat
  BY DEF Line
<1> HIDE DEF Mem
<1>3. /\ one \in Seq(Mem) /\ Len(one) = Len(new) + 1
      /\ \A i \in 1 .. Len(new) : one[i] = new[i]
  BY <1>1, AppendProperties
<1>4. /\ whole \in Seq(Mem) /\ Len(whole) = Len(old) + 1
      /\ \A i \in 1 .. Len(old) : whole[i] = old[i]
  BY <1>1, AppendProperties
<1>5. MemoryAfterDelete(old, new) = mem
  BY DEF MemoryAfterDelete
<1>6. m \in Int /\ k \in Int /\ m = Len(new) + 2 /\ k = Len(old) + 1
  BY <1>2
<1> HIDE DEF whole, one, m, k
<1>7. \A i \in m .. k : whole[i] \in Mem
  BY <1>2, <1>4, <1>6, ElementOfSeq
<1>8. /\ rest \in Seq(Mem)
      /\ Len(rest) = IF m <= k THEN k - m + 1 ELSE 0
      /\ \A i \in 1 .. (k - m + 1) : rest[i] = whole[m + i - 1]
  BY <1>6, <1>7, SubSeqProperties
<1> HIDE DEF rest
<1>9. Len(rest) = Len(old) - Len(new)
  BY <1>2, <1>6, <1>8
<1>10. /\ Len(mem) = Len(one) + Len(rest)
       /\ \A i \in 1 .. Len(one) : mem[i] = one[i]
       /\ \A i \in 1 .. Len(rest) : mem[Len(one) + i] = rest[i]
  <2>1. one \in Seq(Mem) /\ rest \in Seq(Mem)
    BY <1>3, <1>8
  <2> QED BY <2>1, ConcatProperties
<1> HIDE DEF mem
<1>11. Len(mem) = Len(old) + 1
  BY <1>2, <1>3, <1>9, <1>10
<1>12. \A i \in 1 .. Len(new) : mem[i] = new[i]
  BY <1>2, <1>3, <1>10
<1>13. ASSUME NEW i \in (Len(new) + 2) .. Len(old) PROVE mem[i] = old[i]
  <2> DEFINE j == i - Len(one)
  <2>1. /\ j \in 1 .. Len(rest) /\ Len(one) + j = i /\ m + j - 1 = i
        /\ j \in 1 .. (k - m + 1)
    BY <1>2, <1>3, <1>6, <1>9
  <2>2. i \in 1 .. Len(old)
    BY <1>2
  <2> HIDE DEF j
  <2>3. mem[i] = rest[j] /\ rest[j] = whole[i]
    BY <1>8, <1>10, <2>1
  <2> QED BY <1>4, <2>2, <2>3
<1> QED BY <1>5, <1>11, <1>12, <1>13

(* The line that is left when the character before column c goes.            *)
LEMMA CharDeleted ==
  ASSUME NEW L \in Text, NEW r, NEW c, Position(L, r, c), c > 0
  PROVE  LET new  == buffer_delete_char(L, r, c)
             p    == utf8_prev_boundary(L[r + 1], c)
         IN  /\ new = DeleteBetween(L, r, p, r, c)
             /\ new \in Text /\ Position(new, r, p) /\ Position(L, r, p) /\ p < c
             /\ Len(new[r + 1]) = Len(L[r + 1]) - (c - p)
             /\ \A k \in (p + 2) .. c : L[r + 1][k] \in Cont
             /\ p = 0 \/ L[r + 1][p + 1] \notin Cont
             /\ After(new, r, p) = After(L, r, c)
<1> DEFINE line == L[r + 1]
           p == utf8_prev_boundary(line, c)
           new == DeleteBetween(L, r, p, r, c)
<1>1. /\ r \in 0 .. (Len(L) - 1) /\ r < Len(L) /\ ~(r >= Len(L)) /\ c # 0
      /\ line \in Line /\ Len(line) \in Nat /\ c \in 0 .. Len(line) /\ c \in Nat \ {0}
      /\ ClampCol(L, r, c) = c
  <2>1. Len(line) \in Nat
    BY ClampPlace DEF Line
  <2> QED BY <2>1, ClampPlace, TextLines
<1>2. buffer_delete_char(L, r, c) = new
  BY <1>1 DEF buffer_delete_char
<1>3. p \in 0 .. (c - 1) /\ (p = 0 \/ line[p + 1] \notin Cont)
  BY <1>1, PrevBoundaryIsStop
<1>4. \A k \in (p + 2) .. c : line[k] \in Cont
  <2> DEFINE T == StopsLeft(line, c)
  <2>1. T \in SUBSET (0 .. (c - 1)) /\ 0 \in T
    BY <1>1 DEF StopsLeft
  <2>2. p = Max(T)
    BY <1>1 DEF utf8_prev_boundary
  <2>3. \A y \in T : p >= y
    <3> HIDE DEF T
    <3>1. c - 1 \in Nat
      BY <1>1
    <3> QED BY <2>1, <2>2, <3>1, MaxBelow
  <2> HIDE DEF p
  <2> SUFFICES ASSUME NEW k \in (p + 2) .. c, line[k] \notin Cont PROVE FALSE
    OBVIOUS
  <2> DEFINE y == k - 1
  <2>4. y \in 0 .. (c - 1) /\ y + 1 = k /\ y > p
    BY <1>1, <1>3
  <2>5. y \in T
    BY <2>4 DEF StopsLeft
  <2> QED BY <1>1, <1>3, <2>3, <2>4, <2>5
<1> HIDE DEF p
<1>5. Position(L, r, p)
  BY <1>1, <1>3 DEF Position
<1>6. /\ new \in Text /\ Position(new, r, p) /\ After(new, r, p) = After(L, r, c)
  BY <1>5, DeletePlaces
<1> HIDE DEF new
<1>7. Len(new[r + 1]) = Len(line) - (c - p)
  <2> DEFINE nl == new[r + 1]
             c1 == c + 1
             p1 == p + 1
  <2>1. /\ nl \in Line /\ p \in 0 .. Len(nl) /\ Len(nl) \in Nat
        /\ r \in 0 .. (Len(new) - 1)
    <3>1. nl \in Line /\ p \in 0 .. Len(nl) /\ r \in 0 .. (Len(new) - 1)
      BY <1>6, ClampPlace
    <3> QED BY <3>1 DEF Line
  <2>2. SubSeq(nl, p1, Len(nl)) = SubSeq(line, c1, Len(line))
    <3>1. After(new, r, p)[1] = SubSeq(nl, p + 1, Len(nl))
      BY <1>6, <2>1, AfterLines
    <3>2. After(L, r, c)[1] = SubSeq(line, c + 1, Len(line))
      BY <1>1, AfterLines
    <3> QED BY <1>6, <3>1, <3>2
  <2> HIDE DEF nl, line
  <2>3. /\ p \in Nat /\ p1 \in Int /\ p1 = p + 1 /\ Len(nl) \in 0 .. Len(nl) /\ p <= Len(nl)
        /\ c \in Nat /\ c1 \in Int /\ c1 = c + 1 /\ Len(line) \in 0 .. Len(line) /\ c <= Len(line)
    BY <1>1, <1>3, <2>1
  <2> HIDE DEF c1, p1
  <2>4. Len(SubSeq(nl, p1, Len(nl))) = Len(nl) - p
    BY <2>1, <2>3, PieceOfLine
  <2>5. Len(SubSeq(line, c1, Len(line))) = Len(line) - c
    BY <1>1, <2>3, PieceOfLine
  <2>6. Len(nl) - p = Len(line) - c
    BY <2>2, <2>4, <2>5
  <2>7. Len(nl) \in Nat /\ Len(line) \in Nat /\ p \in Nat /\ c \in Nat
    BY <1>1, <2>1, <2>3
  <2>8. Len(nl) = Len(line) - (c - p)
    BY <2>6, <2>7
  <2> QED BY <2>8 DEF nl
<1>8. p < c
  BY <1>1, <1>3
<1> QED BY <1>2, <1>3, <1>4, <1>5, <1>6, <1>7, <1>8 DEF p, new, line

LEMMA BackspaceSettles ==
  ASSUME IInv, CursorInLine, Backspace
  PROVE  Settles
<1> USE CurLineType
<1>1. CASE ~(col > 0 \/ row > 0)
  BY <1>1 DEF Backspace, Settles
<1>2. CASE col > 0
  <2> DEFINE L   == buffer_delete_char(lines, row, col)
             p   == utf8_prev_boundary(CurLine, col)
             new == L[row + 1]
             mem == MemoryAfterDelete(CurLine, new)
             c   == utf8_prev_boundary(mem, col)
  <2>1. lines' = L /\ MovePrevCharIn(L, mem)
    BY <1>2 DEF Backspace
  <2>2. Position(lines, row, col) /\ col \in Nat \ {0} /\ col <= Len(CurLine)
    BY <1>2, CursorPlace DEF CursorInLine
  <2>3. /\ L \in Text /\ Position(L, row, p) /\ p < col
        /\ Len(new) = Len(CurLine) - (col - p)
        /\ \A k \in (p + 2) .. col : CurLine[k] \in Cont
    BY <1>2, <2>2, CharDeleted DEF CurLine
  <2> HIDE DEF L, p
  <2>4. p \in Nat /\ new \in Line /\ Len(new) \in Nat /\ p <= Len(new)
    <3>1. p \in Nat /\ new \in Line /\ p \in 0 .. Len(new)
      BY <2>3, ClampPlace
    <3> QED BY <3>1 DEF Line
  <2> HIDE DEF new
  <2>5. Len(new) <= Len(CurLine)
    BY <2>2, <2>3, <2>4
  <2>6. /\ Len(mem) = Len(CurLine) + 1
        /\ \A i \in 1 .. Len(new) : mem[i] = new[i]
        /\ \A i \in (Len(new) + 2) .. Len(CurLine) : mem[i] = CurLine[i]
    BY <2>4, <2>5, MemoryAfterDeleteIs
  <2> HIDE DEF mem
  <2>7. row' = row /\ col' = c
    <3>1. PrevBoundaryIn(mem, col) = {c}
      BY <2>2, <2>6 DEF PrevBoundaryIn
    <3> QED BY <1>2, <2>1, <3>1 DEF MovePrevCharIn
  <2>8. c \in 0 .. (col - 1) /\ (c = 0 \/ mem[c + 1] \notin Cont)
    BY <2>2, PrevBoundaryIsStop
  <2> HIDE DEF c
  <2>9. c <= Len(new)
    <3> SUFFICES ASSUME c > Len(new) PROVE FALSE
      BY <2>4, <2>8
    <3>1. /\ c + 1 \in (Len(new) + 2) .. Len(CurLine) /\ c + 1 \in (p + 2) .. col
          /\ c # 0
      BY <2>2, <2>4, <2>8
    <3> QED BY <2>3, <2>6, <2>8, <3>1
  <2>10. Stands(new, c)
    <3>1. c = Len(new) \/ c + 1 \in 1 .. Len(new)
      BY <2>4, <2>8, <2>9
    <3> QED BY <2>6, <2>8, <3>1 DEF Stands
  <2>11. row \in 0 .. (Len(L) - 1)
    BY <2>3, ClampPlace
  <2>12. OnChar(L, row, c)
    BY <2>4, <2>8, <2>9, <2>10, <2>11 DEF OnChar, Position, new
  <2> QED BY <2>1, <2>3, <2>7, <2>12, FrameOnChar DEF Settles
<1>3. CASE col = 0 /\ row > 0
  <2> DEFINE L  == buffer_delete_char(lines, row, col)
             up == row - 1
             c  == Len(L[row])
  <2>1. lines' = L /\ row' = up /\ col' = c
    BY <1>3 DEF Backspace, MovePrevCharIn
  <2>2. L \in Text /\ Len(L) = Len(lines) - 1
    BY <1>3, DeleteCharType
  <2> HIDE DEF L
  <2>3. up \in 0 .. (Len(L) - 1) /\ up + 1 = row
    BY <1>3, <2>2
  <2> HIDE DEF up
  <2>4. Len(L[row]) \in Nat
    BY <2>2, <2>3, RowType
  <2>5. OnChar(L, up, c)
    BY <2>3, <2>4 DEF OnChar, Position, Stands
  <2> HIDE DEF c
  <2> QED BY <2>1, <2>2, <2>5, FrameOnChar DEF Settles
<1> QED BY <1>1, <1>2, <1>3

-----------------------------------------------------------------------------
(* Killing the previous word leaves what follows the cursor as it was.       *)

(* A deletion that leaves the cursor where it begins.                        *)
LEMMA DeleteToCursor ==
  ASSUME IInv, NEW r1, NEW c1, NEW r2, NEW c2,
         Position(lines, r1, c1), Position(lines, r2, c2),
         lines' = DeleteBetween(lines, r1, c1, r2, c2), row' = r1, col' = c1
  PROVE  /\ CursorInLine' /\ TextAfter' = After(lines, r2, c2)
         /\ ClampCol(lines', row', col') = c1
<1> DEFINE L == DeleteBetween(lines, r1, c1, r2, c2)
<1>1. L \in Text /\ Position(L, r1, c1) /\ After(L, r1, c1) = After(lines, r2, c2)
  BY CurLineType, DeletePlaces
<1> HIDE DEF L
<1>2. lines' = L
  BY DEF L
<1>3. CursorInLine' /\ TextAfter' = After(L, r1, c1)
  BY <1>1, <1>2, FrameOnPlace
<1>4. ClampCol(L, r1, c1) = c1
  BY <1>1, ClampPlace
<1> QED BY <1>1, <1>2, <1>3, <1>4

LEMMA KillWordBackwardIs ==
  ASSUME IInv, editor_kill_word_backward
  PROVE  \/ UNCHANGED <<lines, frameVars, ringVars>>
         \/ /\ col = 0 /\ row > 0
            /\ row' = row - 1 /\ col' = Len(lines[row])
            /\ Position(lines, row - 1, Len(lines[row])) /\ Position(lines, row, 0)
            /\ lines' = DeleteBetween(lines, row - 1, Len(lines[row]), row, 0)
            /\ Len(lines') = Len(lines) - 1
            /\ editor_kill_newline_and_next(row - 1)
         \/ /\ col # 0
            /\ \E start \in Nat :
                 LET end == utf8_clamp_col(CurLine, col)
                 IN  /\ start < end /\ Stands(CurLine, start)
                     /\ end <= Len(CurLine) /\ end \in Nat
                     /\ KillRange(start, end)
                     /\ row' = row /\ col' = start
<1> USE CurLineType
<1>1. CASE col = 0 /\ row = 0
  BY <1>1 DEF editor_kill_word_backward
<1>2. CASE col = 0 /\ row # 0
  <2> DEFINE up == row - 1
  <2>1. /\ row' = up /\ col' = Len(lines[row])
        /\ editor_kill_newline_and_next(up)
    BY <1>2 DEF editor_kill_word_backward
  <2>2. /\ up \in 0 .. (Len(lines) - 1) /\ up + 1 = row /\ row > 0
        /\ ~(up + 1 >= Len(lines))
    BY <1>2
  <2> HIDE DEF up
  <2>3. /\ Position(lines, up, Len(lines[up + 1]))
        /\ Position(lines, up + 1, 0)
        /\ lines' = DeleteBetween(lines, up, Len(lines[up + 1]), up + 1, 0)
        /\ Len(lines') = Len(lines) - 1
    BY <2>1, <2>2, KillNewlineIs
  <2> QED BY <1>2, <2>1, <2>2, <2>3 DEF up
<1>3. CASE col # 0
  <2> DEFINE end   == utf8_clamp_col(CurLine, col)
             mid   == SkipLeft(CurLine, end, SpaceByte)
             start == SkipLeft(CurLine, mid, WordByte)
  <2>1. /\ KillRange(start, end) /\ row' = row
        /\ col' = IF end > start THEN start ELSE col
    BY <1>3 DEF editor_kill_word_backward
  <2>2. end \in 0 .. Len(CurLine) /\ end \in Nat /\ Stands(CurLine, end)
    BY ClampInLine, ClampStands
  <2> HIDE DEF end
  <2>3. mid \in 0 .. Len(CurLine) /\ Stands(CurLine, mid)
    <3>1. mid \in 0 .. end
      BY <2>2, SkipLeftBefore
    <3>2. mid = end \/ mid = 0 \/ CurLine[mid + 1] \notin Cont
      BY <2>2, SkipLeftStands
    <3> HIDE DEF mid
    <3> QED BY <2>2, <3>1, <3>2 DEF Stands
  <2> HIDE DEF mid
  <2>4. start \in Nat /\ Stands(CurLine, start)
    <3>1. start \in 0 .. mid
      BY <2>3, SkipLeftBefore
    <3>2. start = mid \/ start = 0 \/ CurLine[start + 1] \notin Cont
      BY <2>3, SkipLeftStands
    <3> HIDE DEF start
    <3> QED BY <2>3, <3>1, <3>2 DEF Stands
  <2> HIDE DEF start
  <2>5. CASE end > start
    <3>1. start < end /\ end <= Len(CurLine) /\ row' = row /\ col' = start
      BY <2>1, <2>2, <2>4, <2>5
    <3> QED BY <1>3, <2>1, <2>2, <2>4, <3>1 DEF end
  <2>6. CASE ~(end > start)
    <3>1. UNCHANGED <<lines, ringVars>>
      BY <2>1, <2>6 DEF KillRange
    <3> QED BY <2>1, <2>6, <3>1 DEF frameVars
  <2> QED BY <2>5, <2>6
<1> QED BY <1>1, <1>2, <1>3

LEMMA KillBackPlaces ==
  ASSUME IInv, editor_kill_word_backward
  PROVE  /\ CursorInLine => CursorInLine'
         /\ CursorInLine /\ CursorOnBoundary => TextAfter' = TextAfter
<1> USE CurLineType
<1>1. CASE UNCHANGED <<lines, frameVars>>
  BY <1>1 DEF frameVars, CursorInLine, CurLine, TextAfter
<1>2. CASE /\ col = 0 /\ row > 0
           /\ row' = row - 1 /\ col' = Len(lines[row])
           /\ Position(lines, row - 1, Len(lines[row])) /\ Position(lines, row, 0)
           /\ lines' = DeleteBetween(lines, row - 1, Len(lines[row]), row, 0)
  <2>1. CursorInLine' /\ TextAfter' = After(lines, row, 0)
    BY <1>2, DeleteToCursor
  <2>2. TextAfter = After(lines, row, 0)
    BY <1>2, ClampPlace DEF TextAfter
  <2> QED BY <2>1, <2>2
<1>3. CASE \E start \in Nat :
             LET end == utf8_clamp_col(CurLine, col)
             IN  /\ start < end /\ end <= Len(CurLine) /\ end \in Nat
                 /\ KillRange(start, end) /\ row' = row /\ col' = start
  <2> DEFINE end == utf8_clamp_col(CurLine, col)
  <2>1. PICK start \in Nat :
             /\ start < end /\ end <= Len(CurLine) /\ end \in Nat
             /\ KillRange(start, end) /\ row' = row /\ col' = start
    BY <1>3
  <2>2. ASSUME CursorInLine, CursorOnBoundary PROVE end = col
    BY <2>2 DEF CursorInLine, CursorOnBoundary, utf8_clamp_col
  <2> HIDE DEF end
  <2>3. /\ Position(lines, row, start) /\ Position(lines, row, end)
        /\ lines' = DeleteBetween(lines, row, start, row, end)
    BY <2>1, KillRangeIs
  <2>4. CursorInLine' /\ TextAfter' = After(lines, row, end)
    BY <2>1, <2>3, DeleteToCursor
  <2>5. ASSUME CursorInLine, CursorOnBoundary
        PROVE  TextAfter' = TextAfter
    BY <2>2, <2>4, <2>5, FrameHere
  <2> QED BY <2>4, <2>5
<1> QED BY <1>1, <1>2, <1>3, KillWordBackwardIs

(* M-Backspace leaves what follows the cursor as it was.                     *)
THEOREM KillsBackKeepTail == Spec => KillBackKeepsTail
<1>1. IInv /\ [Next]_vars
        => [editor_kill_word_backward /\ CursorInLine /\ CursorOnBoundary
              => TextAfter' = TextAfter]_vars
  BY KillBackPlaces
<1> QED BY <1>1, Invariance, PTL DEF Spec, KillBackKeepsTail

-----------------------------------------------------------------------------
(* The region: what is copied, what is cut, and pasting it again.            *)

(* The ends of the region, clamped to the text, and the text between them.   *)
RegionStart == ClampCol(lines, Region.start_row, Region.start_col)
RegionEnd   == ClampCol(lines, Region.end_row, Region.end_col)
RegionPiece == Piece(lines, Region.start_row, RegionStart, Region.end_row, RegionEnd)

LEMMA RegionPlaces ==
  ASSUME IInv, Region.end_row < Len(lines)
  PROVE  /\ Position(lines, Region.start_row, RegionStart)
         /\ Position(lines, Region.end_row, RegionEnd)
         /\ NotAfter(Region.start_row, RegionStart, Region.end_row, RegionEnd)
<1> USE CurLineType
<1> DEFINE sr == Region.start_row
           sc == Region.start_col
           er == Region.end_row
           ec == Region.end_col
           s  == ClampCol(lines, sr, sc)
           e  == ClampCol(lines, er, ec)
<1>1. /\ sr \in Nat /\ sc \in Nat /\ er \in Nat /\ ec \in Nat
      /\ pos_compare(sr, sc, er, ec) <= 0 /\ sr <= row
  BY RegionType
<1> HIDE DEF sr, sc, er, ec
<1>2. sr \in 0 .. (Len(lines) - 1) /\ er \in 0 .. (Len(lines) - 1)
  BY <1>1 DEF er
<1>3. Position(lines, sr, s) /\ Position(lines, er, e)
  BY <1>1, <1>2, ClampIsPlace
<1>4. NotAfter(sr, s, er, e)
  <2>1. CASE sr = er
    <3>1. sc <= ec
      BY <1>1, <2>1 DEF pos_compare
    <3>2. line_length(lines, sr) \in Nat
      BY <1>2, RowType
    <3>3. s <= e
      BY <1>1, <2>1, <3>1, <3>2 DEF ClampCol
    <3> QED BY <2>1, <3>3 DEF NotAfter
  <2>2. CASE sr # er
    BY <1>1, <2>2 DEF pos_compare, NotAfter
  <2> QED BY <2>1, <2>2
<1> QED BY <1>3, <1>4 DEF RegionStart, RegionEnd, sr, sc, er, ec

(* What editor_copy_region_text copies is exactly what lies between the ends *)
(* of the region.                                                            *)
LEMMA CopyIsPiece ==
  ASSUME IInv, Region.end_row < Len(lines)
  PROVE  editor_copy_region_text = RegionPiece
<1> USE CurLineType
<1> DEFINE sr == Region.start_row
           er == Region.end_row
           s  == RegionStart
           e  == RegionEnd
           n  == er - sr + 1
           From(r) == IF r = sr THEN s ELSE 0
           To(r) == IF r = er THEN e ELSE line_length(lines, r)
           part(i) == SubSeq(LineAt(lines, sr + i - 1), From(sr + i - 1) + 1,
                             To(sr + i - 1))
           copy == editor_copy_region_text
           piece == RegionPiece
<1>1. copy \in Text
  BY CopyRegionType
<1>2. copy = [i \in 1 .. n |-> part(i)]
  BY DEF editor_copy_region_text, RegionStart, RegionEnd
<1>3. /\ sr \in Nat /\ er \in Nat /\ sr \in 0 .. (Len(lines) - 1) /\ er < Len(lines)
      /\ Position(lines, sr, s) /\ Position(lines, er, e)
      /\ NotAfter(sr, s, er, e) /\ sr <= er
  <2>1. sr \in Nat /\ er \in Nat /\ sr <= row
    BY RegionType
  <2>2. /\ Position(lines, sr, s) /\ Position(lines, er, e)
        /\ NotAfter(sr, s, er, e)
    BY RegionPlaces
  <2>3. sr <= er
    BY <2>1, <2>2 DEF NotAfter
  <2>4. sr \in 0 .. (Len(lines) - 1)
    BY <2>1
  <2> QED BY <2>1, <2>2, <2>3, <2>4
<1>4. /\ piece \in Text /\ Len(piece) = er - sr + 1
      /\ sr = er => piece[1] = SubSeq(lines[sr + 1], s + 1, e)
      /\ sr < er =>
           /\ piece[1] = SubSeq(lines[sr + 1], s + 1, Len(lines[sr + 1]))
           /\ \A i \in 2 .. (er - sr) : piece[i] = lines[sr + i]
           /\ piece[er - sr + 1] = SubSeq(lines[er + 1], 1, e)
  <2>1. piece = Piece(lines, sr, s, er, e) /\ lines \in Text
    BY DEF RegionPiece
  <2> HIDE DEF sr, er, s, e, piece
  <2> HIDE CurLineType
  <2>2. /\ Position(lines, sr, s) /\ Position(lines, er, e)
        /\ NotAfter(sr, s, er, e) /\ lines \in Text
    BY <1>3, <2>1
  <2>3. piece \in Text /\ Len(piece) = er - sr + 1
    BY <2>1, <2>2, PieceLines
  <2>4. sr = er => piece[1] = SubSeq(lines[sr + 1], s + 1, e)
    BY <2>1, <2>2, PieceLines
  <2>5. sr < er =>
           /\ piece[1] = SubSeq(lines[sr + 1], s + 1, Len(lines[sr + 1]))
           /\ \A i \in 2 .. (er - sr) : piece[i] = lines[sr + i]
           /\ piece[er - sr + 1] = SubSeq(lines[er + 1], 1, e)
    BY <2>1, <2>2, PieceLines
  <2> QED BY <2>3, <2>4, <2>5
<1> HIDE DEF sr, er, s, e, copy, piece
<1>5. Len(copy) = n /\ \A i \in 1 .. n : copy[i] = part(i)
  <2>1. n \in Nat
    BY <1>3
  <2> HIDE DEF n, part
  <2> QED BY <1>2, <2>1
<1>6. \A r \in 0 .. (Len(lines) - 1) :
        /\ LineAt(lines, r) = lines[r + 1] /\ line_length(lines, r) = Len(lines[r + 1])
        /\ lines[r + 1] \in Line /\ Len(lines[r + 1]) \in Nat
  BY RowType DEF LineAt
<1> HIDE DEF part, From, To
<1>7. ASSUME NEW i \in 1 .. Len(piece)
      PROVE  piece[i] = copy[i]
  <2> DEFINE r == sr + i - 1
             line == lines[r + 1]
  <2>1. /\ i \in 1 .. n /\ r \in 0 .. (Len(lines) - 1) /\ r + 1 = sr + i
    BY <1>3, <1>4
  <2>2. copy[i] = SubSeq(LineAt(lines, r), From(r) + 1, To(r))
    BY <1>5, <2>1 DEF part
  <2> HIDE DEF r
  <2>3. /\ copy[i] = SubSeq(line, From(r) + 1, To(r))
        /\ line \in Line /\ Len(line) \in Nat /\ line_length(lines, r) = Len(line)
    BY <1>6, <2>1, <2>2
  <2>4. CASE sr = er
    <3>1. i = 1 /\ r = sr /\ r = er
      BY <1>3, <1>4, <2>1, <2>4 DEF r
    <3>2. From(r) = s /\ To(r) = e
      BY <3>1 DEF From, To
    <3> QED BY <1>4, <2>3, <2>4, <3>1, <3>2
  <2>5. CASE sr # er /\ i = 1
    <3>1. sr < er /\ r = sr /\ r # er
      BY <1>3, <2>5 DEF r
    <3>2. From(r) = s /\ To(r) = Len(line)
      BY <2>3, <3>1 DEF From, To
    <3> QED BY <1>4, <2>3, <2>5, <3>1, <3>2
  <2>6. CASE sr # er /\ i \in 2 .. (er - sr)
    <3>1. sr < er /\ r # sr /\ r # er
      BY <1>3, <2>6 DEF r
    <3>2. From(r) = 0 /\ To(r) = Len(line)
      BY <2>3, <3>1 DEF From, To
    <3>3. piece[i] = line
      BY <1>4, <2>1, <2>6, <3>1
    <3> HIDE DEF line
    <3>4. SubSeq(line, 0 + 1, Len(line)) = line
      BY <2>3, WholeLine
    <3> QED BY <2>3, <3>2, <3>3, <3>4
  <2>7. CASE sr # er /\ i = er - sr + 1
    <3>1. sr < er /\ r # sr /\ r = er
      BY <1>3, <2>7 DEF r
    <3>2. From(r) = 0 /\ To(r) = e
      BY <3>1 DEF From, To
    <3>3. piece[i] = SubSeq(line, 1, e) /\ 0 + 1 = 1
      BY <1>4, <2>7, <3>1
    <3> QED BY <2>3, <3>2, <3>3
  <2>8. sr = er \/ i = 1 \/ i \in 2 .. (er - sr) \/ i = er - sr + 1
    BY <1>3, <1>4
  <2> QED BY <2>4, <2>5, <2>6, <2>7, <2>8
<1>8. Len(piece) = Len(copy)
  BY <1>4, <1>5
<1>9. piece = copy
  BY <1>1, <1>4, <1>7, <1>8, TextEqual
<1> QED BY <1>9 DEF piece, copy

(* A C-w with both ends in the text takes exactly the text between them.     *)
LEMMA KillRegionIs ==
  ASSUME IInv, editor_kill_region, CanCopy, Region.end_row < Len(lines)
  PROVE  /\ lines' = DeleteBetween(lines, Region.start_row, RegionStart,
                                   Region.end_row, RegionEnd)
         /\ editor_kill_set(RegionPiece, last_was_kill)
         /\ RegionPiece # EmptyText /\ RegionPiece \in Text
         /\ row' = Region.start_row /\ col' = Region.start_col
         /\ Region.start_row = Region.end_row => RegionStart < RegionEnd
<1> USE CurLineType
<1> DEFINE sr == Region.start_row
           sc == Region.start_col
           er == Region.end_row
           ec == Region.end_col
           s  == ClampCol(lines, sr, sc)
           e  == ClampCol(lines, er, ec)
<1>1. /\ editor_kill_set(editor_copy_region_text, last_was_kill)
      /\ lines' = buffer_delete_region(lines, sr, sc, er, ec)
      /\ row' = sr /\ col' = sc
  BY DEF editor_kill_region
<1>2. editor_copy_region_text = RegionPiece /\ RegionPiece \in Text
  BY CopyIsPiece, CopyRegionType
<1>3. editor_copy_region_text # EmptyText
  BY DEF CanCopy
<1>4. /\ sr \in Nat /\ sc \in Nat /\ er \in Nat /\ ec \in Nat
      /\ pos_compare(sr, sc, er, ec) <= 0 /\ sr <= row
      /\ (pos_compare(sr, sc, er, ec) > 0) = FALSE
  <2>1. /\ sr \in Nat /\ sc \in Nat /\ er \in Nat /\ ec \in Nat
        /\ pos_compare(sr, sc, er, ec) <= 0 /\ sr <= row
    BY RegionType
  <2> HIDE DEF sr, sc, er, ec
  <2> QED BY <2>1 DEF pos_compare
<1>5. /\ Position(lines, sr, s) /\ Position(lines, er, e)
      /\ NotAfter(sr, s, er, e)
  BY RegionPlaces DEF RegionStart, RegionEnd
<1>6. RegionPiece = Piece(lines, sr, s, er, e)
  BY DEF RegionPiece, RegionStart, RegionEnd
<1>7. er < Len(lines)
  OBVIOUS
<1> HIDE DEF sr, sc, er, ec
<1>8. s \in Nat /\ e \in Nat
  BY <1>5, ClampPlace
<1>9. sr = er => s < e
  <2> SUFFICES ASSUME sr = er, ~(s < e) PROVE FALSE
    OBVIOUS
  <2> HIDE DEF s, e
  <2>1. s = e
    BY <1>4, <1>5, <1>8 DEF NotAfter
  <2>2. RegionPiece = << SubSeq(lines[sr + 1], s + 1, e) >>
    BY <1>5, <1>6, <1>8, <2>1, PieceOfRow
  <2>3. SubSeq(lines[sr + 1], s + 1, e) = << >>
    <3>1. \A k \in (s + 1) .. e : lines[sr + 1][k] \in Byte
      BY <1>8, <2>1
    <3>2. Len(SubSeq(lines[sr + 1], s + 1, e)) = 0 /\ SubSeq(lines[sr + 1], s + 1, e) \in Seq(Byte)
      BY <1>8, <2>1, <3>1, SubSeqProperties
    <3> QED BY <3>2, EmptySeq
  <2> QED BY <1>2, <1>3, <2>2, <2>3 DEF EmptyText
<1>10. lines' = DeleteBetween(lines, sr, s, er, e)
  <2>1. ~(sr >= Len(lines)) /\ ~(er >= Len(lines))
    BY <1>4, <1>7
  <2>2. CASE sr = er
    <3>1. lines' = buffer_delete_range(lines, sr, sc, ec)
      BY <1>1, <1>4, <2>1, <2>2 DEF buffer_delete_region
    <3>2. ~(e <= s)
      BY <1>8, <1>9, <2>2
    <3> QED BY <2>1, <2>2, <3>1, <3>2 DEF buffer_delete_range
  <2>3. CASE sr # er
    BY <1>1, <1>4, <2>1, <2>3 DEF buffer_delete_region
  <2> QED BY <2>2, <2>3
<1> QED BY <1>1, <1>2, <1>3, <1>9, <1>10 DEF sr, sc, er, ec, RegionStart, RegionEnd

(* A kill that is not continued is the one C-y pastes.                       *)
LEMMA PushedIsCurrent ==
  ASSUME RingTypeOK, NEW data \in Text, data # EmptyText,
         editor_kill_set(data, last_was_kill), ~last_was_kill
  PROVE  CurrentKill' = data
<1>1. PushKill(data)
  BY DEF editor_kill_set
<1>2. kill_ring \in Seq(Text) /\ Len(kill_ring) \in Nat /\ kill_ring_index \in Nat
  BY DEF RingTypeOK
<1>3. CASE Len(kill_ring) < KILL_RING_MAX
  <2>1. /\ kill_ring' = Append(kill_ring, data)
        /\ kill_ring_index' = Len(kill_ring)
    BY <1>1, <1>3 DEF PushKill
  <2> QED BY <1>2, <2>1, AppendProperties DEF CurrentKill
<1>4. CASE ~(Len(kill_ring) < KILL_RING_MAX)
  <2>1. /\ kill_ring_index' = (kill_ring_index + 1) % KILL_RING_MAX
        /\ kill_ring' = [kill_ring EXCEPT ![kill_ring_index' + 1] = data]
    BY <1>1, <1>4 DEF PushKill
  <2>2. Len(kill_ring) = KILL_RING_MAX /\ KILL_RING_MAX \in Nat \ {0}
    BY <1>2, <1>4, RingSize DEF RingTypeOK
  <2>3. kill_ring_index' + 1 \in 1 .. Len(kill_ring)
    BY <1>2, <2>1, <2>2
  <2>4. kill_ring_index' + 1 \in DOMAIN kill_ring
    BY <1>2, <2>3
  <2> QED BY <2>1, <2>4 DEF CurrentKill
<1> QED BY <1>3, <1>4

(* A kill that puts into the ring what it takes from between two positions   *)
(* of the text, and leaves the cursor there.                                 *)
KillBetween(r1, c1, r2, c2) ==
  /\ Position(lines, r1, c1) /\ Position(lines, r2, c2) /\ NotAfter(r1, c1, r2, c2)
  /\ lines' = DeleteBetween(lines, r1, c1, r2, c2) /\ row' = r1 /\ col' = c1
  /\ Piece(lines, r1, c1, r2, c2) # EmptyText
  /\ editor_kill_set(Piece(lines, r1, c1, r2, c2), last_was_kill)

ExactKill == \E r1, c1, r2, c2 : KillBetween(r1, c1, r2, c2)

LEMMA RingFilled ==
  ASSUME RingTypeOK, NEW data \in Text, data # EmptyText,
         editor_kill_set(data, last_was_kill)
  PROVE  kill_ring' # << >>
<1>1. kill_ring \in Seq(Text) /\ Len(kill_ring) \in Nat
  BY DEF RingTypeOK
<1>2. CASE PushKill(data) /\ Len(kill_ring) < KILL_RING_MAX
  <2>1. kill_ring' = Append(kill_ring, data)
    BY <1>2 DEF PushKill
  <2>2. Len(kill_ring') = Len(kill_ring) + 1
    BY <1>1, <2>1, AppendProperties
  <2> QED BY <1>1, <2>2
<1>3. ASSUME NEW k, NEW x, kill_ring' = [kill_ring EXCEPT ![k] = x],
             kill_ring # << >>
      PROVE  kill_ring' # << >>
  <2>1. DOMAIN kill_ring' = DOMAIN kill_ring /\ DOMAIN kill_ring = 1 .. Len(kill_ring)
    BY <1>1, <1>3
  <2>2. Len(kill_ring) > 0
    BY <1>1, <1>3, EmptySeq
  <2> QED BY <1>1, <2>1, <2>2
<1>4. CASE PushKill(data) /\ ~(Len(kill_ring) < KILL_RING_MAX)
  <2>1. kill_ring # << >>
    BY <1>1, <1>4, RingSize
  <2> QED BY <1>3, <1>4, <2>1 DEF PushKill
<1>5. CASE kill_ring # << >> /\ ExtendKill(data)
  BY <1>3, <1>5 DEF ExtendKill
<1> QED BY <1>2, <1>4, <1>5 DEF editor_kill_set

(* A first kill of this form is undone by a paste at the cursor.             *)
LEMMA KillUndone ==
  ASSUME IInv, ExactKill, ~last_was_kill
  PROVE  YankRestores
<1>0. PICK r1, c1, r2, c2 : KillBetween(r1, c1, r2, c2)
  BY DEF ExactKill
<1> DEFINE piece == Piece(lines, r1, c1, r2, c2)
           new   == DeleteBetween(lines, r1, c1, r2, c2)
<1>1. lines \in Text /\ RingTypeOK
  BY CurLineType
<1>2. piece \in Text /\ InsertText(new, r1, c1, piece) = lines
  BY <1>0, <1>1, DeleteUndone DEF KillBetween
<1>3. ClampCol(lines', row', col') = c1
  BY <1>0, DeleteToCursor DEF KillBetween
<1>4. CurrentKill' = piece
  BY <1>0, <1>1, <1>2, PushedIsCurrent DEF KillBetween
<1>5. lines' = new /\ row' = r1
  BY <1>0 DEF KillBetween
<1> HIDE DEF piece, new
<1> QED BY <1>2, <1>3, <1>4, <1>5 DEF YankRestores

-----------------------------------------------------------------------------
(* The mark, and the cursor after any command.                               *)

LEMMA MarkTyped ==
  ASSUME IInv
  PROVE  mark.active \in BOOLEAN /\ mark.row \in Nat /\ mark.col \in Nat
BY DEF IInv, TypeOK

(* M-y never gets past its guard, because the ESC it begins with has cleared *)
(* last_was_yank.                                                            *)
LEMMA YankPopIdle ==
  ASSUME IInv, YankPop
  PROVE  /\ UNCHANGED <<ringVars, lines, frameVars, yank, mark>>
         /\ ~last_was_yank /\ ~last_was_yank' /\ ~last_was_kill'
<1>1. ~last_was_yank
  BY DEF YankPop, Meta, IInv, EscClearsFlags
<1> QED BY <1>1 DEF YankPop, Done

LEMMA RegionInText ==
  ASSUME IInv, MarkInText, MarkFirst \/ CursorInLine
  PROVE  Region.end_row < Len(lines) /\ RegionStart = Region.start_col
<1> USE CurLineType
<1>1. mark.row \in 0 .. (Len(lines) - 1) /\ mark.row < Len(lines) /\ mark.col \in Nat
  BY MarkTyped DEF MarkInText
<1>2. ClampCol(lines, mark.row, mark.col) = mark.col
  <2> DEFINE n == line_length(lines, mark.row)
             c == mark.col
  <2>1. n \in Nat /\ c \in Nat /\ c <= n
    <3>1. mark.row \in Nat
      BY MarkTyped
    <3> QED BY <1>1, <3>1, LineAtType DEF MarkInText
  <2>2. ClampCol(lines, mark.row, mark.col) = IF c > n THEN n ELSE c
    BY DEF ClampCol
  <2> HIDE DEF n, c
  <2>3. (IF c > n THEN n ELSE c) = c
    BY <2>1
  <2> QED BY <2>2, <2>3 DEF c
<1>3. ASSUME CursorInLine PROVE ClampCol(lines, row, col) = col
  BY <1>3, FrameHere, ClampPlace
<1>4. CASE MarkFirst
  BY <1>1, <1>2, <1>4 DEF Region, RegionStart
<1>5. CASE ~MarkFirst
  BY <1>1, <1>3, <1>5 DEF Region, RegionStart
<1> QED BY <1>4, <1>5

LEMMA KillRegionCursor ==
  ASSUME IInv, CursorInLine, mark.active => MarkInText, editor_kill_region
  PROVE  CursorInLine'
<1>1. CASE CanCopy
  <2>1. Region.end_row < Len(lines) /\ RegionStart = Region.start_col
    BY <1>1, RegionInText DEF CanCopy, HasRegion
  <2>2. /\ lines' = DeleteBetween(lines, Region.start_row, RegionStart,
                                   Region.end_row, RegionEnd)
        /\ row' = Region.start_row /\ col' = RegionStart
    BY <1>1, <2>1, KillRegionIs
  <2>3. /\ Position(lines, Region.start_row, RegionStart)
        /\ Position(lines, Region.end_row, RegionEnd)
    BY <2>1, RegionPlaces
  <2> QED BY <2>2, <2>3, DeleteToCursor
<1>2. CASE ~CanCopy
  <2>1. UNCHANGED <<lines, frameVars>>
    BY <1>2 DEF editor_kill_region
  <2> QED BY <2>1 DEF frameVars, CursorInLine, CurLine
<1> QED BY <1>1, <1>2

(* Every command but C-w keeps the cursor in its line.                       *)
LEMMA CursorStays ==
  ASSUME IInv, CursorInLine, Next, editor_kill_region /\ mark.active => MarkInText
  PROVE  CursorInLine'
<1>1. CASE Settles
  BY <1>1 DEF Settles, frameVars, CursorInLine, CurLine
<1>2. CASE Escape \/ BeginCsi \/ CtrlG \/ SetMark \/ editor_copy_region \/ YankPop
  <2>1. UNCHANGED <<lines, frameVars>>
    BY <1>2, YankPopIdle DEF Escape, BeginCsi, CtrlG, SetMark, editor_copy_region
  <2> QED BY <1>1, <2>1 DEF Settles
<1>3. CASE \/ frame_move_prev_line \/ frame_move_next_line
           \/ frame_move_prev_char \/ frame_move_next_char
           \/ frame_move_line_start \/ frame_move_line_end
           \/ frame_move_next_word \/ frame_move_prev_word \/ Backspace
  BY <1>1, <1>3, LineMotionSettles, PrevCharSettles, NextCharSettles,
     NextWordSettles, PrevWordSettles, BackspaceSettles
<1>4. CASE Inserting
  BY <1>4, InsertingKeepsTail
<1>5. CASE DeleteForward \/ KillLine \/ editor_kill_word_forward
  BY <1>5, DeleteForwardKeepsHead, KillLineKeepsHead, KillWordForwardKeepsHead
<1>6. CASE editor_kill_word_backward
  BY <1>6, KillBackPlaces
<1>7. CASE editor_kill_region
  BY <1>7, KillRegionCursor
<1> QED BY <1>2, <1>3, <1>4, <1>5, <1>6, <1>7
        DEF Next, ControlKey, TextKey, Inserting

(* The text between two positions, spelled out.                              *)
PieceSpelled(L, r1, c1, r2, c2) ==
  IF r1 = r2
    THEN << SubSeq(L[r1 + 1], c1 + 1, c2) >>
    ELSE << SubSeq(L[r1 + 1], c1 + 1, Len(L[r1 + 1])) >>
           \o SubSeq(L, r1 + 2, r2)
           \o << SubSeq(L[r2 + 1], 1, c2) >>

LEMMA BetweenIsPiece ==
  ASSUME NEW r1, NEW c1, NEW r2, NEW c2, NEW L \in Text,
         Position(L, r1, c1), Position(L, r2, c2), NotAfter(r1, c1, r2, c2)
  PROVE  Piece(L, r1, c1, r2, c2) = PieceSpelled(L, r1, c1, r2, c2)
<1> USE DEF PieceSpelled
<1> DEFINE piece == Piece(L, r1, c1, r2, c2)
           text  == << SubSeq(L[r1 + 1], c1 + 1, Len(L[r1 + 1])) >>
                      \o SubSeq(L, r1 + 2, r2)
                      \o << SubSeq(L[r2 + 1], 1, c2) >>
<1>1. /\ piece \in Text /\ Len(piece) = r2 - r1 + 1
      /\ r1 = r2 => piece[1] = SubSeq(L[r1 + 1], c1 + 1, c2)
      /\ r1 < r2 =>
           /\ piece[1] = SubSeq(L[r1 + 1], c1 + 1, Len(L[r1 + 1]))
           /\ \A i \in 2 .. (r2 - r1) : piece[i] = L[r1 + i]
           /\ piece[r2 - r1 + 1] = SubSeq(L[r2 + 1], 1, c2)
  BY PieceLines
<1>2. /\ r1 \in 0 .. (Len(L) - 1) /\ c1 \in 0 .. Len(L[r1 + 1])
      /\ r2 \in 0 .. (Len(L) - 1) /\ c2 \in 0 .. Len(L[r2 + 1])
      /\ L[r1 + 1] \in Line /\ L[r2 + 1] \in Line /\ Len(L) \in Nat
      /\ Len(L[r1 + 1]) \in Nat /\ Len(L[r2 + 1]) \in Nat
  BY RowType DEF Position
<1>3. CASE r1 = r2
  <2>1. c1 <= c2
    BY <1>2, <1>3 DEF NotAfter
  <2> QED BY <1>3, <2>1, PieceOfRow
<1>4. CASE r1 # r2
  <2> DEFINE first == << SubSeq(L[r1 + 1], c1 + 1, Len(L[r1 + 1])) >>
             m     == r1 + 2
             mid   == SubSeq(L, m, r2)
             last  == << SubSeq(L[r2 + 1], 1, c2) >>
  <2>0. r1 < r2
    BY <1>2, <1>4 DEF NotAfter
  <2>1. text = first \o mid \o last
    OBVIOUS
  <2>2. /\ first \in Seq(Line) /\ Len(first) = 1
        /\ first[1] = SubSeq(L[r1 + 1], c1 + 1, Len(L[r1 + 1]))
    <3> DEFINE x == SubSeq(L[r1 + 1], c1 + 1, Len(L[r1 + 1]))
    <3>1. x \in Line
      BY <1>2, LinePart
    <3> HIDE DEF x
    <3>2. << x >> \in Seq(Line) /\ Len(<< x >>) = 1 /\ << x >>[1] = x
      BY <3>1
    <3> QED BY <3>2 DEF x
  <2>3. /\ last \in Seq(Line) /\ Len(last) = 1
        /\ last[1] = SubSeq(L[r2 + 1], 1, c2)
    <3> DEFINE x == SubSeq(L[r2 + 1], 1, c2)
    <3>1. x \in Line
      BY <1>2, LinePart
    <3> HIDE DEF x
    <3>2. << x >> \in Seq(Line) /\ Len(<< x >>) = 1 /\ << x >>[1] = x
      BY <3>1
    <3> QED BY <3>2 DEF x
  <2>4. m \in Int /\ m = r1 + 2 /\ r2 \in Int /\ r2 - m + 1 = r2 - r1 - 1
    BY <1>2
  <2> HIDE DEF m
  <2>5. \A k \in m .. r2 : L[k] \in Line
    BY <1>2, <2>4, TextLines
  <2>6. /\ mid \in Seq(Line) /\ Len(mid) = r2 - r1 - 1
        /\ \A k \in 1 .. (r2 - r1 - 1) : mid[k] = L[r1 + 1 + k]
    <3>1. /\ mid \in Seq(Line) /\ Len(mid) = IF m <= r2 THEN r2 - m + 1 ELSE 0
          /\ \A k \in 1 .. (r2 - m + 1) : mid[k] = L[m + k - 1]
      BY <2>4, <2>5, SubSeqProperties
    <3>2. \A k \in 1 .. (r2 - r1 - 1) : m + k - 1 = r1 + 1 + k
      BY <1>2, <2>4
    <3>3. Len(mid) = r2 - r1 - 1
      BY <1>2, <2>0, <2>4, <3>1
    <3> QED BY <2>4, <3>1, <3>2, <3>3
  <2> HIDE DEF first, mid, last
  <2>7. /\ first \o mid \in Seq(Line) /\ Len(first \o mid) = 1 + (r2 - r1 - 1)
        /\ (first \o mid)[1] = first[1]
        /\ \A k \in 1 .. (r2 - r1 - 1) : (first \o mid)[1 + k] = mid[k]
    <3>1. Len(first) = 1 /\ 1 \in 1 .. Len(first) /\ r2 - r1 - 1 = Len(mid)
      BY <2>2, <2>6
    <3>2. /\ first \o mid \in Seq(Line) /\ Len(first \o mid) = Len(first) + Len(mid)
          /\ \A i \in 1 .. Len(first) : (first \o mid)[i] = first[i]
          /\ \A i \in 1 .. Len(mid) : (first \o mid)[Len(first) + i] = mid[i]
      BY <2>2, <2>6, LinesConcatElements
    <3> QED BY <3>1, <3>2
  <2> DEFINE head == first \o mid
  <2>8. /\ head \in Seq(Line) /\ Len(head) = r2 - r1 /\ head[1] = first[1]
        /\ \A i \in 2 .. (r2 - r1) : head[i] = L[r1 + i]
    <3>1. Len(head) = r2 - r1
      BY <1>2, <2>7
    <3>2. ASSUME NEW i \in 2 .. (r2 - r1) PROVE head[i] = L[r1 + i]
      <4> DEFINE k == i - 1
      <4>1. k \in 1 .. (r2 - r1 - 1) /\ 1 + k = i /\ r1 + 1 + k = r1 + i
        BY <1>2
      <4> HIDE DEF k
      <4> QED BY <2>6, <2>7, <4>1
    <3> QED BY <2>7, <3>1, <3>2
  <2> HIDE DEF head
  <2>9. /\ head \o last \in Seq(Line) /\ Len(head \o last) = Len(head) + 1
        /\ \A i \in 1 .. Len(head) : (head \o last)[i] = head[i]
        /\ (head \o last)[Len(head) + 1] = last[1]
    <3>1. Len(last) = 1 /\ 1 \in 1 .. Len(last)
      BY <2>3
    <3>2. /\ head \o last \in Seq(Line) /\ Len(head \o last) = Len(head) + Len(last)
          /\ \A i \in 1 .. Len(head) : (head \o last)[i] = head[i]
          /\ \A i \in 1 .. Len(last) : (head \o last)[Len(head) + i] = last[i]
      BY <2>3, <2>8, LinesConcatElements
    <3> QED BY <3>1, <3>2
  <2>10. text = head \o last
    BY <2>1 DEF head
  <2> HIDE DEF text, piece
  <2>11. text \in Text /\ Len(text) = r2 - r1 + 1
    <3>1. Len(text) = r2 - r1 + 1 /\ Len(text) > 0
      BY <1>2, <2>0, <2>8, <2>9, <2>10
    <3> QED BY <2>9, <2>10, <3>1, TextFromLines
  <2>12. ASSUME NEW i \in 1 .. Len(piece) PROVE piece[i] = text[i]
    <3>1. i = 1 \/ i \in 2 .. (r2 - r1) \/ i = r2 - r1 + 1
      BY <1>1, <1>2
    <3>2. CASE i = 1
      <4>1. 1 \in 1 .. Len(head)
        BY <1>2, <2>0, <2>8
      <4> QED BY <1>1, <2>0, <2>2, <2>8, <2>9, <2>10, <3>2, <4>1
    <3>3. CASE i \in 2 .. (r2 - r1)
      <4>1. i \in 1 .. Len(head)
        BY <1>2, <2>8, <3>3
      <4> QED BY <1>1, <2>0, <2>8, <2>9, <2>10, <3>3, <4>1
    <3>4. CASE i = r2 - r1 + 1
      <4>1. piece[i] = SubSeq(L[r2 + 1], 1, c2)
        BY <1>1, <2>0, <3>4
      <4>2. i = Len(head) + 1
        BY <2>8, <3>4
      <4> QED BY <2>3, <2>9, <2>10, <4>1, <4>2
    <3> QED BY <3>1, <3>2, <3>3, <3>4
  <2> QED
    <3>1. piece = text
      BY <1>1, <2>11, <2>12, TextEqual
    <3> QED BY <1>4, <3>1 DEF text, piece
<1> QED BY <1>3, <1>4

-----------------------------------------------------------------------------
(* The cursor stays in its line, and a yank is recorded where it is.         *)

(* C-w finds the mark in the text: no edit has moved a line away under it.   *)
RegionsInText == [][editor_kill_region /\ mark.active => MarkInText]_vars

(* The cursor stays within its line, provided that no C-w is given a mark    *)
(* that edits have left behind, off the end of its line or of the text: that *)
(* command leaves the cursor at the mark's column.                           *)
THEOREM CursorStaysInLine ==
  Spec /\ RegionsInText => []CursorInLine
<1>1. Init => CursorInLine
  <2> SUFFICES ASSUME Init PROVE CursorInLine
    OBVIOUS
  <2>1. IInv /\ col = 0
    BY InitInvariant DEF Init
  <2> QED BY <2>1, CurLineType DEF CursorInLine
<1>2. IInv /\ CursorInLine /\ [Next]_vars /\ [editor_kill_region /\ mark.active => MarkInText]_vars
        => CursorInLine'
  <2> SUFFICES ASSUME IInv, CursorInLine, [Next]_vars,
                      [editor_kill_region /\ mark.active => MarkInText]_vars
               PROVE  CursorInLine'
    OBVIOUS
  <2>1. CASE UNCHANGED vars
    BY <2>1 DEF vars, CursorInLine, CurLine
  <2>2. CASE Next /\ (editor_kill_region /\ mark.active => MarkInText)
    BY <2>2, CursorStays
  <2> QED BY <2>1, <2>2
<1> QED BY <1>1, <1>2, Invariance, PTL DEF Spec, RegionsInText

LEMMA YankSpansStep ==
  ASSUME IInv, CursorInLine, editor_yank
  PROVE  YankSpansPaste'
<1>1. CASE kill_ring = << >>
  <2>1. ~last_was_yank'
    BY <1>1 DEF editor_yank, Done
  <2> QED BY <2>1 DEF YankSpansPaste
<1>2. CASE kill_ring # << >>
  <2> DEFINE text == CurrentKill
             L    == InsertText(lines, row, col, text)
             r    == row + Len(text) - 1
             c    == InsertEndCol(col, text)
  <2>1. text \in Text /\ lines \in Text
    BY <1>2, CurLineType, CurrentKillType
  <2>2. ClampCol(lines, row, col) = col /\ Position(lines, row, col)
    BY FrameHere, CurLineType, ClampPlace
  <2>3. lines' = L /\ yank' = [start_row |-> row, start_col |-> col,
                               end_row |-> r, end_col |-> c]
    BY <1>2, <2>2 DEF editor_yank, editor_yank_from, InsertEndCol
  <2>4. CurrentKill' = text
    BY DEF editor_yank, ringVars, CurrentKill
  <2> HIDE DEF text
  <2>5. /\ L \in Text /\ Position(L, row, col) /\ Position(L, r, c)
        /\ NotAfter(row, col, r, c) /\ Piece(L, row, col, r, c) = text
    BY <2>1, <2>2, InsertEnd
  <2>6. /\ yank'.start_row = row /\ yank'.start_col = col
        /\ yank'.end_row = r /\ yank'.end_col = c
    BY <2>3
  <2> HIDE DEF L, r, c
  <2>7. PieceSpelled(L, row, col, r, c) = text
    BY <2>5, BetweenIsPiece
  <2>8. TextBetween(yank.start_row, yank.start_col, yank.end_row, yank.end_col)'
          = PieceSpelled(lines', yank'.start_row, yank'.start_col,
                         yank'.end_row, yank'.end_col)
    BY DEF TextBetween, PieceSpelled
  <2>9. TextBetween(yank.start_row, yank.start_col, yank.end_row, yank.end_col)'
          = CurrentKill'
    BY <2>3, <2>4, <2>6, <2>7, <2>8
  <2> QED BY <2>9 DEF YankSpansPaste
<1> QED BY <1>1, <1>2

(* No other command claims to have yanked.                                   *)
LEMMA OthersYankNothing ==
  ASSUME IInv, Next, ~editor_yank
  PROVE  ~last_was_yank'
<1>1. CASE \/ Escape \/ BeginCsi \/ CtrlG \/ SetMark \/ editor_copy_region
           \/ editor_kill_region \/ KillLine \/ Backspace
           \/ editor_kill_word_forward \/ editor_kill_word_backward
  BY <1>1 DEF Escape, BeginCsi, CtrlG, SetMark, editor_copy_region,
     editor_kill_region, KillLine, Backspace, editor_kill_word_forward,
     editor_kill_word_backward, Done
<1>2. CASE \/ frame_move_prev_line \/ frame_move_next_line
           \/ frame_move_prev_char \/ frame_move_next_char
           \/ frame_move_line_start \/ frame_move_line_end
           \/ frame_move_next_word \/ frame_move_prev_word
  BY <1>2 DEF frame_move_prev_line, frame_move_next_line, frame_move_prev_char,
     frame_move_next_char, frame_move_line_start, frame_move_line_end,
     frame_move_next_word, frame_move_prev_word, Motion, Done
<1>3. CASE InsertTab \/ OpenLine \/ Enter \/ DeleteForward
  BY <1>3 DEF InsertTab, OpenLine, Enter, DeleteForward, Edit, Done
<1>4. CASE \E ch \in KeyBytes : SelfInsert(ch)
  BY <1>4 DEF SelfInsert, Edit, Done
<1>5. CASE YankPop
  BY <1>5, YankPopIdle
<1> QED BY <1>1, <1>2, <1>3, <1>4, <1>5 DEF Next, ControlKey, TextKey

(* After C-y the recorded ends of the yank delimit exactly what it pasted,   *)
(* over any number of lines: this is the region M-y is meant to replace.     *)
THEOREM YankSpans ==
  Spec /\ RegionsInText => []YankSpansPaste
<1>1. Init => YankSpansPaste
  BY DEF Init, YankSpansPaste
<1>2. IInv /\ CursorInLine /\ YankSpansPaste /\ [Next]_vars => YankSpansPaste'
  <2> SUFFICES ASSUME IInv, CursorInLine, YankSpansPaste, [Next]_vars
               PROVE  YankSpansPaste'
    OBVIOUS
  <2>1. CASE UNCHANGED vars
    BY <2>1 DEF vars, YankSpansPaste, TextBetween, CurrentKill
  <2>2. CASE editor_yank
    BY <2>2, YankSpansStep
  <2>3. CASE Next /\ ~editor_yank
    BY <2>3, OthersYankNothing DEF YankSpansPaste
  <2> QED BY <2>1, <2>2, <2>3
<1> QED BY <1>1, <1>2, CursorStaysInLine, Invariance, PTL DEF Spec

-----------------------------------------------------------------------------
(* C-y undoes a kill within a line.                                          *)

(* Only C-k, M-d, M-Backspace and C-w kill.                                  *)
LEMMA OthersKillNothing ==
  ASSUME IInv, Next, last_was_kill'
  PROVE  \/ KillLine \/ editor_kill_word_forward
         \/ editor_kill_word_backward \/ editor_kill_region
<1>1. ASSUME \/ Escape \/ BeginCsi \/ CtrlG \/ SetMark \/ editor_copy_region
             \/ Backspace \/ editor_yank
      PROVE  FALSE
  BY <1>1 DEF Escape, BeginCsi, CtrlG, SetMark, editor_copy_region,
     Backspace, editor_yank, Done
<1>2. ASSUME \/ frame_move_prev_line \/ frame_move_next_line
             \/ frame_move_prev_char \/ frame_move_next_char
             \/ frame_move_line_start \/ frame_move_line_end
             \/ frame_move_next_word \/ frame_move_prev_word
      PROVE  FALSE
  BY <1>2 DEF frame_move_prev_line, frame_move_next_line, frame_move_prev_char,
     frame_move_next_char, frame_move_line_start, frame_move_line_end,
     frame_move_next_word, frame_move_prev_word, Motion, Done
<1>3. ASSUME InsertTab \/ OpenLine \/ Enter \/ DeleteForward
      PROVE  FALSE
  BY <1>3 DEF InsertTab, OpenLine, Enter, DeleteForward, Edit, Done
<1>4. ASSUME \E ch \in KeyBytes : SelfInsert(ch)
      PROVE  FALSE
  BY <1>4 DEF SelfInsert, Edit, Done
<1>5. ASSUME YankPop
      PROVE  FALSE
  BY <1>5, YankPopIdle
<1> QED BY <1>1, <1>2, <1>3, <1>4, <1>5 DEF Next, ControlKey, TextKey

LEMMA LineRangeExact ==
  ASSUME IInv, lines' # lines, NEW start \in Nat, NEW end \in Nat, end <= Len(CurLine),
         KillRange(start, end), end > start => row' = row /\ col' = start
  PROVE  ExactKill
<1>1. end > start
  BY DEF KillRange
<1>2. /\ Position(lines, row, start) /\ Position(lines, row, end)
      /\ lines' = DeleteBetween(lines, row, start, row, end)
      /\ editor_kill_set(Piece(lines, row, start, row, end), last_was_kill)
      /\ Piece(lines, row, start, row, end) # EmptyText
  BY <1>1, KillRangeIs
<1>3. NotAfter(row, start, row, end)
  BY <1>1 DEF NotAfter
<1>4. row' = row /\ col' = start
  BY <1>1
<1>5. KillBetween(row, start, row, end)
  BY <1>2, <1>3, <1>4 DEF KillBetween
<1> QED BY <1>5 DEF ExactKill

(* A kill that takes a newline leaves fewer lines.                           *)
LEMMA NewlineShortens ==
  ASSUME IInv, NEW r \in 0 .. (Len(lines) - 1), editor_kill_newline_and_next(r),
         lines' # lines
  PROVE  Len(lines') # Len(lines)
BY CurLineType, KillNewlineIs

LEMMA LineKillsExact ==
  ASSUME IInv, lines' # lines, Len(lines') = Len(lines),
         KillLine \/ editor_kill_word_forward \/ editor_kill_word_backward
  PROVE  ExactKill
<1> USE CurLineType
<1>1. CASE KillLine
  <2>1. col < Len(CurLine)
    BY <1>1, NewlineShortens DEF KillLine
  <2>2. KillRange(col, Len(CurLine)) /\ row' = row /\ col' = col
    BY <1>1, <2>1 DEF KillLine, frameVars
  <2> QED BY <2>2, LineRangeExact
<1>2. CASE editor_kill_word_forward
  <2>1. ~(col >= Len(CurLine))
    BY <1>2, NewlineShortens DEF editor_kill_word_forward
  <2>2. KillRange(col, WordForwardEnd) /\ row' = row /\ col' = col
    BY <1>2, <2>1 DEF editor_kill_word_forward, frameVars, WordForwardEnd
  <2>3. col < Len(CurLine)
    BY <2>1
  <2>4. WordForwardEnd \in Nat /\ WordForwardEnd <= Len(CurLine)
    BY <2>3, WordForwardEndType
  <2> QED BY <2>2, <2>4, LineRangeExact
<1>3. CASE editor_kill_word_backward
  <2> DEFINE end == utf8_clamp_col(CurLine, col)
  <2>1. PICK start \in Nat : /\ start < end /\ end <= Len(CurLine) /\ end \in Nat
                             /\ KillRange(start, end)
                             /\ row' = row /\ col' = start
    BY <1>3, KillWordBackwardIs
  <2> HIDE DEF end
  <2> QED BY <2>1, LineRangeExact
<1> QED BY <1>1, <1>2, <1>3

(* How many lines C-w leaves.                                                *)
LEMMA RegionShortens ==
  ASSUME IInv, editor_kill_region, lines' # lines, Len(lines') = Len(lines)
  PROVE  /\ CanCopy /\ Region.end_row < Len(lines)
         /\ Region.start_row = Region.end_row
<1> USE CurLineType
<1>1. lines' # lines
  OBVIOUS
<1>2. CanCopy /\ lines' = buffer_delete_region(lines,
                            Region.start_row, Region.start_col,
                            Region.end_row, Region.end_col)
  BY <1>1 DEF editor_kill_region
<1>3. Region.start_row \in Nat /\ Region.end_row \in Nat /\ Region.start_row <= row
  BY RegionType
<1>4. Region.end_row < Len(lines)
  <2> DEFINE sr == Region.start_row
             er == Region.end_row
  <2>1. ~(sr >= Len(lines) \/ er >= Len(lines))
    BY <1>1, <1>2 DEF buffer_delete_region
  <2> HIDE DEF er, sr
  <2> QED BY <1>3, <2>1 DEF er, sr
<1>5. Region.start_row = Region.end_row
  <2> DEFINE sr == Region.start_row
             er == Region.end_row
             s  == RegionStart
             e  == RegionEnd
             L  == DeleteBetween(lines, sr, s, er, e)
  <2>1. /\ Position(lines, sr, s) /\ Position(lines, er, e)
        /\ NotAfter(sr, s, er, e)
    BY <1>4, RegionPlaces
  <2>2. lines' = L
    BY <1>2, <1>4, KillRegionIs
  <2>3. sr \in Nat /\ er \in Nat
    BY <1>3
  <2> HIDE DEF sr, er, s, e
  <2>4. sr <= er
    BY <2>1, <2>3 DEF NotAfter
  <2>5. /\ sr \in 0 .. (Len(lines) - 1) /\ s \in 0 .. Len(lines[sr + 1])
        /\ er \in 0 .. (Len(lines) - 1) /\ e \in 0 .. Len(lines[er + 1])
    BY <2>1 DEF Position
  <2>6. Len(L) = Len(lines) - (er - sr)
    BY <2>4, <2>5, DeleteBetweenType
  <2> HIDE DEF L
  <2>7. sr = er
    BY <2>2, <2>3, <2>6
  <2> QED BY <2>7 DEF sr, er
<1> QED BY <1>2, <1>4, <1>5

(* A C-w from a position of the text is of this form.                        *)
LEMMA RegionExact ==
  ASSUME IInv, editor_kill_region, CanCopy, Region.end_row < Len(lines),
         RegionStart = Region.start_col
  PROVE  ExactKill
<1> DEFINE sr == Region.start_row
           er == Region.end_row
           s  == RegionStart
           e  == RegionEnd
<1>1. /\ lines' = DeleteBetween(lines, sr, s, er, e)
      /\ editor_kill_set(RegionPiece, last_was_kill) /\ RegionPiece # EmptyText
      /\ row' = sr /\ col' = s
  BY KillRegionIs
<1>2. /\ Position(lines, sr, s) /\ Position(lines, er, e)
      /\ NotAfter(sr, s, er, e)
  BY RegionPlaces
<1>3. RegionPiece = Piece(lines, sr, s, er, e)
  BY DEF RegionPiece
<1> HIDE DEF sr, er, s, e
<1>4. KillBetween(sr, s, er, e)
  BY <1>1, <1>2, <1>3 DEF KillBetween
<1> QED BY <1>4 DEF ExactKill

LEMMA RegionKillInLine ==
  ASSUME IInv, editor_kill_region, lines' # lines, Len(lines') = Len(lines)
  PROVE  ExactKill
<1>1. /\ CanCopy /\ Region.end_row < Len(lines)
      /\ Region.start_row = Region.end_row
  BY RegionShortens
<1>2. RegionStart < RegionEnd
  BY <1>1, KillRegionIs
<1>3. RegionStart = Region.start_col
  <2> DEFINE n == line_length(lines, Region.start_row)
             s == Region.start_col
             e == Region.end_col
  <2>1. s \in Nat /\ e \in Nat /\ Region.start_row \in Nat
    BY RegionType
  <2>2. n \in Nat
    BY <2>1, CurLineType, LineAtType
  <2>3. /\ RegionStart = IF s > n THEN n ELSE s
        /\ RegionEnd = IF e > n THEN n ELSE e
    BY <1>1 DEF RegionStart, RegionEnd, ClampCol
  <2> HIDE DEF n, s, e
  <2>4. RegionStart = s
    BY <1>2, <2>1, <2>2, <2>3
  <2> QED BY <2>4 DEF s
<1> QED BY <1>1, <1>3, RegionExact

(* C-k, M-d, M-Backspace and C-w within a line put into the ring exactly the *)
(* text they take from it, and leave the cursor where C-y puts it back,      *)
(* wherever the mark and the cursor were.                                    *)
THEOREM LineKillsAreUndone == Spec => LineKillUndone
<1>1. IInv /\ [Next]_vars
        => [FirstKill /\ Len(lines') = Len(lines) => YankRestores]_vars
  <2> SUFFICES ASSUME IInv, Next, FirstKill, Len(lines') = Len(lines)
               PROVE  YankRestores
    OBVIOUS
  <2>1. last_was_kill' /\ lines' # lines /\ ~last_was_kill
    BY DEF FirstKill
  <2>2. ExactKill
    BY <2>1, OthersKillNothing, LineKillsExact, RegionKillInLine
  <2> QED BY <2>1, <2>2, KillUndone
<1> QED BY <1>1, Invariance, PTL DEF Spec, LineKillUndone

-----------------------------------------------------------------------------
(* C-y undoes a kill of the region.                                          *)

(* While the cursor is off its line the mark is not on a row below: only a   *)
(* C-w that used the mark up put the cursor there, and the mark set since is *)
(* at or above every row the cursor can go to without coming back into line. *)
MarkNotBelow == mark.active /\ ~CursorInLine => mark.row <= row

LEMMA MarkStays ==
  ASSUME IInv, Next, ~SetMark, mark'.active
  PROVE  /\ mark' = mark
         /\ editor_kill_region => UNCHANGED <<lines, frameVars>>
<1>0. mark.active \in BOOLEAN /\ (mark' = [mark EXCEPT !.active = FALSE] => ~mark'.active)
  BY MarkTyped DEF IInv, TypeOK
<1>1. CASE \/ Escape \/ BeginCsi \/ CtrlG \/ editor_copy_region
           \/ editor_kill_region \/ KillLine \/ Backspace \/ editor_yank
           \/ editor_kill_word_forward \/ editor_kill_word_backward
  <2>1. mark' = mark
    BY <1>0, <1>1 DEF Escape, BeginCsi, CtrlG, editor_copy_region,
       editor_kill_region, KillLine, Backspace, editor_yank,
       editor_kill_word_forward, editor_kill_word_backward
  <2>2. editor_kill_region => UNCHANGED <<lines, frameVars>>
    BY <1>0 DEF editor_kill_region
  <2> QED BY <2>1, <2>2
<1>2. CASE \/ frame_move_prev_line \/ frame_move_next_line
           \/ frame_move_prev_char \/ frame_move_next_char
           \/ frame_move_line_start \/ frame_move_line_end
           \/ frame_move_next_word \/ frame_move_prev_word
  <2>1. Motion
    BY <1>2 DEF frame_move_prev_line, frame_move_next_line, frame_move_prev_char,
       frame_move_next_char, frame_move_line_start, frame_move_line_end,
       frame_move_next_word, frame_move_prev_word
  <2>2. editor_kill_region => UNCHANGED <<lines, frameVars>>
    BY <1>0 DEF editor_kill_region
  <2> QED BY <2>1, <2>2 DEF Motion
<1>3. CASE \/ InsertTab \/ OpenLine \/ Enter \/ DeleteForward
           \/ \E ch \in KeyBytes : SelfInsert(ch)
  <2>1. Edit
    BY <1>3 DEF InsertTab, OpenLine, Enter, DeleteForward, SelfInsert
  <2>2. editor_kill_region => UNCHANGED <<lines, frameVars>>
    BY <1>0 DEF editor_kill_region
  <2> QED BY <2>1, <2>2 DEF Edit
<1>4. CASE YankPop
  <2>1. editor_kill_region => UNCHANGED <<lines, frameVars>>
    BY <1>0 DEF editor_kill_region
  <2> QED BY <1>4, <2>1, YankPopIdle
<1> QED BY <1>1, <1>2, <1>3, <1>4 DEF Next, ControlKey, TextKey

(* From off its line a command brings the cursor back into one, or leaves it *)
(* on no earlier row.                                                        *)
LEMMA OffLineStays ==
  ASSUME IInv, ~CursorInLine, Next, ~SetMark, ~editor_kill_region
  PROVE  CursorInLine' \/ row' >= row
<1> USE CurLineType
<1>0. col > 0 /\ col # 0 /\ ~(col < Len(CurLine)) /\ col >= Len(CurLine)
  BY DEF CursorInLine
<1>1. CASE Settles
  <2>1. CASE UNCHANGED <<lines, frameVars>>
    BY <2>1 DEF frameVars
  <2> QED BY <1>1, <2>1 DEF Settles
<1>2. CASE Escape \/ BeginCsi \/ CtrlG \/ editor_copy_region \/ YankPop
  <2>1. UNCHANGED <<lines, frameVars>>
    BY <1>2, YankPopIdle DEF Escape, BeginCsi, CtrlG, editor_copy_region
  <2> QED BY <1>1, <2>1 DEF Settles
<1>3. CASE \/ frame_move_prev_line \/ frame_move_next_line
           \/ frame_move_next_char
           \/ frame_move_line_start \/ frame_move_line_end
           \/ frame_move_next_word \/ frame_move_prev_word
  BY <1>1, <1>3, LineMotionSettles, NextCharSettles, NextWordSettles, PrevWordSettles
<1>4. CASE frame_move_prev_char \/ Backspace
  <2>1. row' = row
    BY <1>0, <1>4 DEF frame_move_prev_char, Backspace, MovePrevCharIn
  <2> QED BY <2>1
<1>5. CASE \/ KillLine \/ DeleteForward \/ editor_kill_word_forward
           \/ editor_kill_word_backward
  <2>1. row' = row
    BY <1>0, <1>5 DEF KillLine, DeleteForward, editor_kill_word_forward,
       editor_kill_word_backward, frameVars
  <2> QED BY <2>1
<1>6. CASE \/ InsertTab \/ OpenLine \/ Enter \/ \E ch \in KeyBytes : SelfInsert(ch)
  <2>1. row' = row \/ row' = row + 1
    BY <1>6 DEF InsertTab, OpenLine, Enter, SelfInsert
  <2> QED BY <2>1
<1>7. CASE editor_yank
  <2>1. CASE kill_ring = << >>
    <3>1. row' = row
      BY <1>7, <2>1 DEF editor_yank, frameVars
    <3> QED BY <3>1
  <2>2. CASE kill_ring # << >>
    <3> DEFINE n == Len(CurrentKill)
    <3>1. CurrentKill \in Text
      BY <2>2, CurrentKillType
    <3>2. n \in Nat \ {0}
      BY <3>1, TextLines
    <3>3. row' = row + n - 1
      BY <1>7, <2>2 DEF editor_yank, editor_yank_from
    <3> HIDE DEF n
    <3> QED BY <3>2, <3>3
  <2> QED BY <2>1, <2>2
<1> QED BY <1>2, <1>3, <1>4, <1>5, <1>6, <1>7 DEF Next, ControlKey, TextKey

LEMMA MarkNotBelowStep ==
  ASSUME IInv, MarkNotBelow, [Next]_vars
  PROVE  MarkNotBelow'
<1> USE CurLineType
<1> SUFFICES ASSUME mark'.active, ~CursorInLine'
             PROVE  mark'.row <= row'
  BY DEF MarkNotBelow
<1>1. CASE UNCHANGED vars
  BY <1>1 DEF vars, MarkNotBelow, CursorInLine, CurLine
<1>2. CASE SetMark
  <2>1. mark'.row = row /\ row' = row
    BY <1>2, MarkTyped DEF SetMark, frameVars, IInv, TypeOK
  <2> QED BY <2>1
<1>3. CASE Next /\ editor_kill_region /\ ~SetMark
  <2>1. mark' = mark /\ UNCHANGED <<lines, frameVars>>
    BY <1>3, MarkStays
  <2> QED BY <2>1 DEF frameVars, MarkNotBelow, CursorInLine, CurLine
<1>4. CASE Next /\ ~editor_kill_region /\ ~SetMark
  <2>1. mark' = mark
    BY <1>4, MarkStays
  <2>2. ~CursorInLine
    BY <1>4, CursorStays
  <2>3. row' >= row
    BY <1>4, <2>2, OffLineStays
  <2>4. mark.row <= row /\ mark.row \in Nat /\ row' \in Nat
    BY <2>1, <2>2, MarkTyped, NextInvariant DEF MarkNotBelow, IInv, TypeOK
  <2> QED BY <2>1, <2>3, <2>4
<1> QED BY <1>1, <1>2, <1>3, <1>4

(* A C-w whose mark is in the text: from the mark's end, and from the        *)
(* cursor's, the kill begins where C-y pastes it back.                       *)
LEMMA RegionKilledExact ==
  ASSUME IInv, MarkNotBelow, Next, mark.active, ~mark'.active, last_was_kill', MarkInText
  PROVE  ExactKill
<1> USE CurLineType
<1>1. editor_kill_region
  BY OthersKillNothing DEF KillLine, editor_kill_word_forward,
     editor_kill_word_backward
<1>2. CanCopy
  BY <1>1 DEF editor_kill_region, Done
<1>3. MarkFirst \/ CursorInLine
  <2> SUFFICES ASSUME ~CursorInLine, ~MarkFirst PROVE FALSE
    OBVIOUS
  <2>1. /\ mark.row \in Nat /\ mark.col \in Nat /\ mark.row <= row
        /\ col > Len(CurLine) /\ mark.active
    BY MarkTyped DEF MarkNotBelow, CursorInLine
  <2>2. mark.row = row /\ mark.col > col
    BY <2>1 DEF MarkFirst, pos_compare
  <2>3. mark.col <= Len(CurLine)
    <3>1. line_length(lines, row) = Len(CurLine)
      BY RowType DEF CurLine
    <3> QED BY <2>2, <3>1 DEF MarkInText
  <2> QED BY <2>1, <2>2, <2>3
<1>4. Region.end_row < Len(lines) /\ RegionStart = Region.start_col
  BY <1>3, RegionInText
<1> QED BY <1>1, <1>2, <1>4, RegionExact

(* C-w of a region of any number of lines, with the cursor at either end, is *)
(* undone by C-y as long as edits have not left the mark outside the text.   *)
THEOREM RegionKillsAreUndone == Spec => RegionKillUndone
<1>1. Init => MarkNotBelow
  BY DEF Init, MarkNotBelow
<1>2. IInv /\ MarkNotBelow /\ [Next]_vars => MarkNotBelow'
  BY MarkNotBelowStep
<1>3. IInv /\ MarkNotBelow /\ [Next]_vars
        => [RegionKilled /\ MarkInText => YankRestores]_vars
  BY RegionKilledExact, KillUndone DEF RegionKilled
<1> QED BY <1>1, <1>2, <1>3, Invariance, PTL DEF Spec, RegionKillUndone

-----------------------------------------------------------------------------
(* C-y undoes a run of kills.                                                *)

LEMMA ExtendedIsCurrent ==
  ASSUME RingTypeOK, kill_ring # << >>, NEW data \in Text, data # EmptyText,
         editor_kill_set(data, last_was_kill), last_was_kill
  PROVE  CurrentKill' = Join(CurrentKill, data)
<1>1. ExtendKill(data)
  BY DEF editor_kill_set
<1>2. kill_ring \in Seq(Text) /\ kill_ring_index + 1 \in 1 .. Len(kill_ring)
  BY DEF RingTypeOK
<1>3. kill_ring_index + 1 \in DOMAIN kill_ring
  BY <1>2
<1> QED BY <1>1, <1>3 DEF ExtendKill, CurrentKill

Pasted == InsertText(lines, row, ClampCol(lines, row, col), CurrentKill)

LEMMA ExactKillCursor ==
  ASSUME IInv, ExactKill
  PROVE  CursorInLine' /\ kill_ring' # << >>
<1>1. PICK r1, c1, r2, c2 : KillBetween(r1, c1, r2, c2)
  BY DEF ExactKill
<1>2. lines \in Text /\ RingTypeOK
  BY CurLineType
<1>3. Piece(lines, r1, c1, r2, c2) \in Text
  BY <1>1, <1>2, DeleteUndone DEF KillBetween
<1>4. CursorInLine'
  BY <1>1, DeleteToCursor DEF KillBetween
<1>5. kill_ring' # << >>
  BY <1>1, <1>2, <1>3, RingFilled DEF KillBetween
<1> QED BY <1>4, <1>5

(* A kill that continues another and begins at the cursor: what a paste      *)
(* would give does not change.                                               *)
LEMMA KillAdded ==
  ASSUME IInv, ExactKill, last_was_kill, kill_ring # << >>,
         CursorInLine, UNCHANGED frameVars
  PROVE  Pasted' = Pasted
<1>0. PICK r1, c1, r2, c2 : KillBetween(r1, c1, r2, c2)
  BY DEF ExactKill
<1> DEFINE piece == Piece(lines, r1, c1, r2, c2)
           new   == DeleteBetween(lines, r1, c1, r2, c2)
           old   == CurrentKill
<1>1. lines \in Text /\ RingTypeOK
  BY CurLineType
<1>2. piece \in Text /\ InsertText(new, r1, c1, piece) = lines
  BY <1>0, <1>1, DeleteUndone DEF KillBetween
<1>3. new \in Text /\ Position(new, r1, c1)
  BY <1>0, <1>1, DeletePlaces DEF KillBetween
<1>4. row = r1 /\ col = c1 /\ row' = r1 /\ col' = c1 /\ lines' = new
  BY <1>0 DEF KillBetween, frameVars
<1>5. ClampCol(lines', row', col') = c1
  BY <1>0, DeleteToCursor DEF KillBetween
<1>6. ClampCol(lines, row, col) = c1
  BY <1>4, FrameHere, ClampPlace, <1>1
<1>7. old \in Text
  BY <1>1, CurrentKillType
<1>8. CurrentKill' = Join(old, piece)
  BY <1>0, <1>1, <1>2, ExtendedIsCurrent DEF KillBetween
<1>9. Pasted = InsertText(lines, r1, c1, old)
  BY <1>4, <1>6 DEF Pasted
<1>10. Pasted' = InsertText(new, r1, c1, Join(old, piece))
  BY <1>4, <1>5, <1>8 DEF Pasted
<1> HIDE DEF piece, new, old
<1>11. InsertText(new, r1, c1, Join(old, piece))
         = InsertText(InsertText(new, r1, c1, piece), r1, c1, old)
  BY <1>2, <1>3, <1>7, InsertJoined
<1> QED BY <1>2, <1>9, <1>10, <1>11

LEMMA EmptyLineExact ==
  ASSUME IInv, KillsEmptyLine
  PROVE  ExactKill
<1> USE CurLineType
<1> DEFINE down == row + 1
<1>1. /\ col = Len(CurLine) /\ ~(col < Len(CurLine)) /\ col >= Len(CurLine)
      /\ down < Len(lines) /\ lines[row + 2] = << >>
  BY DEF KillsEmptyLine
<1>2. editor_kill_newline_and_next(row) /\ UNCHANGED frameVars
  BY <1>1 DEF KillsEmptyLine, KillLine, editor_kill_word_forward
<1>3. /\ editor_kill_set(<< << >>, << >> >>, last_was_kill)
      /\ lines' = DeleteBetween(lines, row, col, row + 1, 0)
  BY <1>1, <1>2 DEF editor_kill_newline_and_next, CurLine
<1>4. row \in Nat /\ row + 2 = down + 1 /\ lines \in Text
  OBVIOUS
<1>5. row' = row /\ col' = col
  BY <1>2 DEF frameVars
<1>6. down = row + 1
  OBVIOUS
<1> HIDE DEF down
<1>7. /\ Position(lines, row, col) /\ Position(lines, down, 0)
      /\ NotAfter(row, col, down, 0) /\ Piece(lines, row, col, down, 0) = Newline
  <2>1. col = Len(lines[row + 1])
    BY <1>1 DEF CurLine
  <2>2. lines[down + 1] = << >>
    BY <1>1, <1>4
  <2>3. EmptyBelow(lines, row, down)
    BY <1>1, <1>4, <1>6, <2>2 DEF EmptyBelow
  <2> QED BY <1>4, <2>1, <2>3, PieceOfEmptyLine
<1>8. Newline # EmptyText /\ Newline = << << >>, << >> >>
  BY DEF Newline, EmptyText
<1>9. KillBetween(row, col, down, 0)
  BY <1>3, <1>5, <1>6, <1>7, <1>8 DEF KillBetween
<1> QED BY <1>9 DEF ExactKill

LEMMA TakingIsExact ==
  ASSUME IInv, MarkNotBelow, Next, TakesWhatGoes
  PROVE  ExactKill
<1>1. last_was_kill' /\ lines' # lines
  BY DEF TakesWhatGoes
<1>2. CASE Len(lines') = Len(lines)
  BY <1>1, <1>2, OthersKillNothing, LineKillsExact, RegionKillInLine
<1>3. CASE mark.active /\ ~mark'.active /\ MarkInText
  BY <1>1, <1>3, RegionKilledExact
<1>4. CASE KillsEmptyLine
  BY <1>4, EmptyLineExact
<1> QED BY <1>2, <1>3, <1>4 DEF TakesWhatGoes

RunInv ==
  run_whole => last_was_kill /\ kill_ring # << >> /\ CursorInLine /\ Pasted = run_text

LEMMA RunStep ==
  ASSUME IInv, MarkNotBelow, RunInv, [RunNext]_<<vars, runVars>>
  PROVE  RunInv'
<1>1. CASE UNCHANGED <<vars, runVars>>
  BY <1>1 DEF vars, runVars, RunInv, CursorInLine, CurLine, Pasted, CurrentKill
<1>2. CASE RunNext
  <2> SUFFICES ASSUME run_whole'
               PROVE  /\ last_was_kill' /\ kill_ring' # << >> /\ CursorInLine'
                      /\ Pasted' = run_text'
    BY DEF RunInv
  <2>1. Next
    BY <1>2 DEF RunNext
  <2>2. CASE ~last_was_kill
    <3>1. TakesWhatGoes /\ run_text' = lines
      BY <1>2, <2>2 DEF RunNext
    <3>2. last_was_kill' /\ ExactKill
      BY <2>1, <3>1, TakingIsExact DEF TakesWhatGoes
    <3>3. YankRestores /\ CursorInLine' /\ kill_ring' # << >>
      BY <2>2, <3>2, KillUndone, ExactKillCursor
    <3> QED BY <3>1, <3>2, <3>3 DEF YankRestores, Pasted
  <2>3. CASE last_was_kill
    <3>1. run_whole /\ GoesOn /\ run_text' = run_text
      BY <1>2, <2>3 DEF RunNext
    <3>2. kill_ring # << >> /\ CursorInLine /\ Pasted = run_text
      BY <3>1 DEF RunInv
    <3>3. CASE TakesWhatGoes /\ UNCHANGED frameVars
      <4>1. last_was_kill' /\ ExactKill
        BY <2>1, <3>3, TakingIsExact DEF TakesWhatGoes
      <4>2. CursorInLine' /\ kill_ring' # << >> /\ Pasted' = Pasted
        BY <2>3, <3>2, <3>3, <4>1, ExactKillCursor, KillAdded
      <4> QED BY <3>1, <3>2, <4>1, <4>2
    <3>4. CASE last_was_kill' /\ UNCHANGED <<lines, frameVars, ringVars>>
      BY <3>1, <3>2, <3>4 DEF frameVars, ringVars, CursorInLine, CurLine, Pasted,
         CurrentKill
    <3> QED BY <3>1, <3>3, <3>4 DEF GoesOn
  <2> QED BY <2>2, <2>3
<1> QED BY <1>1, <1>2

(* However many kills follow one another, by C-k and C-w and over any number *)
(* of lines, one C-y puts back all that they took, in its order, if each     *)
(* took what it deleted from behind the cursor.                              *)
THEOREM RunsAreUndone == RunSpec => []RunUndone
<1>1. RunInit => IInv /\ MarkNotBelow /\ RunInv
  BY InitInvariant DEF RunInit, Init, MarkNotBelow, RunInv
<1>2. [RunNext]_<<vars, runVars>> => [Next]_vars
  BY DEF RunNext
<1>3. IInv /\ [RunNext]_<<vars, runVars>> => IInv'
  BY <1>2, NextInvariant
<1>4. IInv /\ MarkNotBelow /\ [RunNext]_<<vars, runVars>> => MarkNotBelow'
  BY <1>2, MarkNotBelowStep
<1>5. IInv /\ MarkNotBelow /\ RunInv /\ [RunNext]_<<vars, runVars>> => RunInv'
  BY RunStep
<1>6. RunInv => RunUndone
  BY DEF RunInv, RunUndone, Pasted
<1> QED BY <1>1, <1>3, <1>4, <1>5, <1>6, PTL DEF RunSpec

-----------------------------------------------------------------------------
(* Whole characters, in the buffer, in the ring and at the cursor.           *)

RingWhole(K) == \A k \in 1 .. Len(kill_ring) : WholeText(kill_ring[k], K)

(* The cursor stands on a character, and the buffer and the ring hold whole  *)
(* characters, of a set K.                                                   *)
CharInv(K) ==
  /\ CursorInLine /\ CursorOnBoundary
  /\ WholeText(lines, K) /\ RingWhole(K)

LEMMA RingStaysWhole ==
  ASSUME RingTypeOK, NEW K, RingWhole(K), NEW data \in Text, WholeText(data, K),
         NEW append, editor_kill_set(data, append)
  PROVE  RingWhole(K)'
<1>0. /\ kill_ring \in Seq(Text) /\ Len(kill_ring) \in Nat /\ kill_ring_index \in Nat
      /\ \A k \in 1 .. Len(kill_ring) : kill_ring[k] \in Text
  BY ElementOfSeq DEF RingTypeOK
<1>1. CASE data = EmptyText
  BY <1>1 DEF editor_kill_set, ringVars, RingWhole
<1>2. CASE data # EmptyText /\ append /\ kill_ring # << >>
  <2> DEFINE k0 == kill_ring_index + 1
             x  == Join(kill_ring[k0], data)
  <2>1. kill_ring' = [kill_ring EXCEPT ![k0] = x]
    BY <1>2 DEF editor_kill_set, ExtendKill
  <2>2. k0 \in 1 .. Len(kill_ring)
    BY <1>0, <1>2 DEF RingTypeOK
  <2>3. WholeText(x, K)
    BY <1>0, <2>2, JoinWhole DEF RingWhole
  <2> HIDE DEF k0, x
  <2> QED BY <1>0, <2>1, <2>2, <2>3, ExceptSeq DEF RingWhole
<1>3. CASE data # EmptyText /\ ~(append /\ kill_ring # << >>)
  <2>1. PushKill(data)
    BY <1>3 DEF editor_kill_set
  <2>2. CASE Len(kill_ring) < KILL_RING_MAX
    <3>1. kill_ring' = Append(kill_ring, data)
      BY <2>1, <2>2 DEF PushKill
    <3>2. /\ Len(kill_ring') = Len(kill_ring) + 1
          /\ \A k \in 1 .. Len(kill_ring) : kill_ring'[k] = kill_ring[k]
          /\ kill_ring'[Len(kill_ring) + 1] = data
      BY <1>0, <3>1, AppendProperties
    <3> QED BY <1>0, <3>2 DEF RingWhole
  <2>3. CASE ~(Len(kill_ring) < KILL_RING_MAX)
    <3>1. PICK k0 : kill_ring' = [kill_ring EXCEPT ![k0] = data]
      BY <2>1, <2>3 DEF PushKill
    <3>2. Len(kill_ring') = Len(kill_ring)
      BY <1>0, <3>1
    <3>3. \A k \in 1 .. Len(kill_ring) : kill_ring'[k] = IF k = k0 THEN data ELSE kill_ring[k]
      BY <1>0, <3>1
    <3> QED BY <3>2, <3>3 DEF RingWhole
  <2> QED BY <2>2, <2>3
<1> QED BY <1>1, <1>2, <1>3

(* A command that leaves the cursor on a place of a whole text.              *)
LEMMA CharsPlaced ==
  ASSUME NEW K, NEW L \in Text, NEW r, NEW c, OnChar(L, r, c), WholeText(L, K),
         lines' = L, row' = r, col' = c
  PROVE  CursorInLine' /\ CursorOnBoundary' /\ WholeText(lines, K)'
BY FrameOnChar

(* The cursor of the invariant.                                              *)
LEMMA CursorOnChar ==
  ASSUME IInv, NEW K, CharInv(K)
  PROVE  OnChar(lines, row, col) /\ OnChar(lines, row, 0) /\ Position(lines, row, col)
<1>1. Position(lines, row, col) /\ Position(lines, row, 0)
  BY FrameHere, CurLineType, LineStart DEF CharInv
<1>2. Stands(CurLine, col) /\ Stands(CurLine, 0)
  BY CurLineType DEF CharInv, CursorOnBoundary, CursorInLine, Stands
<1> QED BY <1>1, <1>2 DEF OnChar, CurLine

-----------------------------------------------------------------------------
(* Insertions of whole characters.                                           *)

LEMMA CharInsertedWhole ==
  ASSUME NEW K, NEW L \in Text, WholeText(L, K), NEW r, NEW c, OnChar(L, r, c),
         NEW ch \in Byte, ch \notin Cont, << ch >> \in K
  PROVE  LET new == buffer_insert_char(L, r, c, ch)
         IN  new \in Text /\ WholeText(new, K) /\ OnChar(new, r, c + 1)
<1> DEFINE text == << <<ch>> >>
           new == InsertText(L, r, c, text)
<1>1. Position(L, r, c)
  BY DEF OnChar
<1>2. buffer_insert_char(L, r, c, ch) = new
  <2>1. r < Len(L) /\ ClampCol(L, r, c) = c /\ ~(r >= Len(L))
    BY <1>1, ClampPlace, TextLines
  <2> QED BY <2>1 DEF buffer_insert_char
<1>3. text \in Text /\ Len(text) = 1 /\ Len(text[1]) = 1 /\ WholeText(text, K)
  BY SmallTexts, OneCharWhole
<1>4. c \in Nat /\ r \in Nat
  BY <1>1, ClampPlace
<1> HIDE DEF text
<1>5. InsertEndCol(c, text) = c + 1 /\ r + Len(text) - 1 = r
  BY <1>3, <1>4 DEF InsertEndCol
<1>6. /\ new \in Text /\ WholeText(new, K)
      /\ OnChar(new, r + Len(text) - 1, InsertEndCol(c, text))
  BY <1>3, InsertWhole
<1> HIDE DEF new
<1> QED BY <1>2, <1>5, <1>6

(* A continuation byte that follows another byte begins no line; what        *)
(* characters it makes is left open.                                         *)
LEMMA ContinuedWhole ==
  ASSUME NEW K, Line \subseteq K, NEW L \in Text, WholeText(L, K),
         NEW r, NEW c, OnChar(L, r, c), c > 0, NEW ch \in Byte
  PROVE  LET new == buffer_insert_char(L, r, c, ch)
         IN  new \in Text /\ WholeText(new, K)
<1> DEFINE text == << <<ch>> >>
           one  == << ch >>
           b    == Before(L, r, c)
           a    == After(L, r, c)
           head == Join(b, text)
           new  == InsertText(L, r, c, text)
<1>0. \A line \in Line : Begun(line) => Whole(line, K)
  <2> SUFFICES ASSUME NEW line \in Line PROVE Chars(line) \subseteq K
    BY DEF Whole
  <2>1. \A x \in 0 .. Len(line), n \in 0 .. Len(line) : SubSeq(line, x + 1, n) \in Line
    <3> SUFFICES ASSUME NEW x \in 0 .. Len(line), NEW n \in 0 .. Len(line)
                 PROVE  SubSeq(line, x + 1, n) \in Line
      OBVIOUS
    <3>1. Len(line) \in Nat
      BY DEF Line
    <3>2. x + 1 \in Nat \ {0} /\ n \in Int /\ n <= Len(line)
      BY <3>1
    <3> QED BY <3>2, LinePart
  <2> QED BY <2>1, CharsWithin
<1>1. Position(L, r, c)
  BY DEF OnChar
<1>2. /\ r \in 0 .. (Len(L) - 1) /\ c \in 0 .. Len(L[r + 1])
      /\ L[r + 1] \in Line /\ c \in Nat /\ r \in Nat
  BY <1>1, ClampPlace
<1>3. buffer_insert_char(L, r, c, ch) = new
  <2>1. r < Len(L) /\ ClampCol(L, r, c) = c /\ ~(r >= Len(L))
    BY <1>1, ClampPlace, TextLines
  <2> QED BY <2>1 DEF buffer_insert_char
<1>4. /\ b \in Text /\ WholeText(b, K) /\ a \in Text /\ WholeText(a, K)
      /\ Len(b) = r + 1 /\ b[r + 1] = SubSeq(L[r + 1], 1, c)
  BY <1>2, BeforeWhole, AfterWhole, BeforeType, BeforeLines
<1>5. text \in Text /\ Len(text) = 1 /\ text[1] = one /\ one \in Line
  BY SmallTexts DEF Line
<1>6. SubSeq(L[r + 1], 1, c) \in Line /\ Len(SubSeq(L[r + 1], 1, c)) = c
  BY <1>2, FirstBytes
<1>7. new = Join(head, a)
  BY DEF InsertText
<1> HIDE DEF b, a, text, one, new
<1>8. /\ head \in Text /\ Len(head) = r + 1
      /\ \A i \in 1 .. r : head[i] = b[i]
      /\ head[r + 1] = b[r + 1] \o one
  <2>1. Len(b) + Len(text) - 1 = r + 1 /\ Len(b) - 1 = r /\ Len(b) = r + 1
    BY <1>2, <1>4, <1>5
  <2>2. /\ head \in Text /\ Len(head) = Len(b) + Len(text) - 1
        /\ \A i \in 1 .. (Len(b) - 1) : head[i] = b[i]
        /\ head[Len(b)] = b[Len(b)] \o text[1]
    BY <1>4, <1>5, JoinType, JoinLines
  <2> QED BY <1>5, <2>1, <2>2
<1> HIDE DEF head
<1>9. Whole(b[r + 1] \o one, K)
  <2> DEFINE s == b[r + 1]
             st == s \o one
  <2>1. s \in Line /\ Len(s) > 0 /\ Len(s) \in Nat
    BY <1>2, <1>4, <1>6
  <2>2. Begun(s)
    <3>1. r + 1 \in 1 .. Len(b)
      BY <1>2, <1>4
    <3> QED BY <1>4, <3>1 DEF WholeText, Whole
  <2> HIDE DEF s
  <2>3. st \in Line /\ \A i \in 1 .. Len(s) : st[i] = s[i]
    BY <1>5, <2>1, LineConcatProperties
  <2>4. 1 \in 1 .. Len(s) /\ s # << >>
    BY <2>1
  <2>5. st[1] \notin Cont
    BY <2>2, <2>3, <2>4 DEF Begun
  <2> HIDE DEF st
  <2>6. Whole(st, K)
    BY <1>0, <2>3, <2>5 DEF Begun
  <2> QED BY <2>6 DEF st, s
<1>10. WholeText(head, K)
  <2> SUFFICES ASSUME NEW i \in 1 .. Len(head) PROVE Whole(head[i], K)
    BY DEF WholeText
  <2>1. CASE i = r + 1
    BY <1>8, <1>9, <2>1
  <2>2. CASE i # r + 1
    <3>1. i \in 1 .. r /\ i \in 1 .. Len(b)
      BY <1>2, <1>4, <1>8, <2>2
    <3> QED BY <1>4, <1>8, <3>1 DEF WholeText
  <2> QED BY <2>1, <2>2
<1>11. new \in Text /\ WholeText(new, K)
  BY <1>4, <1>7, <1>8, <1>10, JoinWhole
<1> QED BY <1>3, <1>11

(* A byte that may be typed when the characters of K are to be kept: one     *)
(* that is a character of K, or, where K has them all, one that continues    *)
(* what stands before it.                                                    *)
TypedFits(K, ch) ==
  \/ ch \notin Cont /\ << ch >> \in K
  \/ col > 0 /\ Line \subseteq K

LEMMA InsertingWhole ==
  ASSUME IInv, NEW K, CharInv(K), << Space >> \in K, << Tab >> \in K,
         \A ch \in KeyBytes : SelfInsert(ch) => TypedFits(K, ch), Inserting
  PROVE  WholeText(lines, K)'
<1> USE CurLineType
<1>1. /\ WholeText(lines, K) /\ OnChar(lines, row, col) /\ OnChar(lines, row, 0)
      /\ Position(lines, row, col) /\ RingWhole(K)
  BY CursorOnChar DEF CharInv
<1>2. /\ ClampCol(lines, row, col) = col /\ ClampCol(lines, row, 0) = 0
      /\ ~(row >= Len(lines))
  BY <1>1, ClampPlace DEF OnChar
<1>3. ASSUME NEW ch \in KeyBytes, SelfInsert(ch) PROVE WholeText(lines, K)'
  <2>1. lines' = buffer_insert_char(lines, row, col, ch) /\ ch \in Byte
    BY <1>3, EditingConstants DEF SelfInsert
  <2>2. TypedFits(K, ch)
    BY <1>3
  <2>3. CASE ch \notin Cont /\ << ch >> \in K
    BY <1>1, <2>1, <2>3, CharInsertedWhole
  <2>4. CASE col > 0 /\ Line \subseteq K
    BY <1>1, <2>1, <2>4, ContinuedWhole
  <2> QED BY <2>2, <2>3, <2>4 DEF TypedFits
<1>4. CASE InsertTab
  <2>0. /\ Space \in Byte /\ Tab \in Byte /\ Space \notin Cont /\ Tab \notin Cont
    BY ByteClasses, BlankBytes
  <2>1. lines' = buffer_insert_tab(lines, row, col, Mode)
    BY <1>4 DEF InsertTab
  <2>2. CASE Mode = MAKEFILE_MODE
    BY <1>1, <2>0, <2>1, <2>2, CharInsertedWhole DEF buffer_insert_tab
  <2>3. CASE Mode # MAKEFILE_MODE
    <3> DEFINE M == buffer_insert_char(lines, row, col, Space)
               d == col + 1
    <3>1. M \in Text /\ WholeText(M, K) /\ OnChar(M, row, d)
      BY <1>1, <2>0, CharInsertedWhole
    <3>2. lines' = buffer_insert_char(M, row, d, Space)
      BY <2>1, <2>3 DEF buffer_insert_tab
    <3> HIDE DEF M, d
    <3> QED BY <2>0, <3>1, <3>2, CharInsertedWhole
  <2> QED BY <2>2, <2>3
<1>5. CASE Enter
  <2>1. lines' = InsertText(lines, row, col, Newline)
    BY <1>2, <1>5 DEF Enter, buffer_insert_newline
  <2> QED BY <1>1, <2>1, NewlineWhole, InsertWhole
<1>6. CASE OpenLine
  <2>1. lines' = InsertText(lines, row, 0, Newline)
    BY <1>2, <1>6 DEF OpenLine, buffer_insert_newline
  <2> QED BY <1>1, <2>1, NewlineWhole, InsertWhole
<1>7. CASE editor_yank
  <2>1. CASE kill_ring = << >>
    BY <1>1, <1>7, <2>1 DEF editor_yank
  <2>2. CASE kill_ring # << >>
    <3>1. lines' = InsertText(lines, row, col, CurrentKill)
      BY <1>2, <1>7, <2>2 DEF editor_yank, editor_yank_from
    <3>2. CurrentKill \in Text
      BY <2>2, CurrentKillType
    <3>3. WholeText(CurrentKill, K)
      <4>1. kill_ring_index + 1 \in 1 .. Len(kill_ring)
        BY <2>2 DEF RingTypeOK
      <4> QED BY <1>1, <4>1 DEF RingWhole, CurrentKill
    <3> QED BY <1>1, <3>1, <3>2, <3>3, InsertWhole
  <2> QED BY <2>1, <2>2
<1> QED BY <1>3, <1>4, <1>5, <1>6, <1>7 DEF Inserting

-----------------------------------------------------------------------------
(* Deletions and kills of whole characters.                                  *)

LEMMA CharsUnmoved ==
  ASSUME NEW K, CharInv(K), UNCHANGED <<lines, frameVars, ringVars>>
  PROVE  CharInv(K)'
BY DEF frameVars, ringVars, CharInv, CursorInLine, CursorOnBoundary, CurLine, RingWhole

LEMMA DeletingWhole ==
  ASSUME IInv, NEW K, CharInv(K), NEW r1, NEW c1, NEW r2, NEW c2,
         OnChar(lines, r1, c1), OnChar(lines, r2, c2),
         lines' = DeleteBetween(lines, r1, c1, r2, c2), row' = r1, col' = c1
  PROVE  CursorInLine' /\ CursorOnBoundary' /\ WholeText(lines, K)'
<1> DEFINE L == DeleteBetween(lines, r1, c1, r2, c2)
<1>1. lines \in Text /\ WholeText(lines, K)
  BY CurLineType DEF CharInv
<1>2. L \in Text /\ WholeText(L, K) /\ OnChar(L, r1, c1)
  BY <1>1, DeleteWhole
<1>3. lines' = L
  OBVIOUS
<1> HIDE DEF L
<1> QED BY <1>2, <1>3, CharsPlaced

(* A kill of the text between two characters.                                *)
LEMMA KillingWhole ==
  ASSUME IInv, NEW K, CharInv(K), NEW r1, NEW c1, NEW r2, NEW c2,
         OnChar(lines, r1, c1), OnChar(lines, r2, c2), NotAfter(r1, c1, r2, c2),
         lines' = DeleteBetween(lines, r1, c1, r2, c2), row' = r1, col' = c1,
         editor_kill_set(Piece(lines, r1, c1, r2, c2), last_was_kill)
  PROVE  CharInv(K)'
<1> DEFINE piece == Piece(lines, r1, c1, r2, c2)
<1>1. CursorInLine' /\ CursorOnBoundary' /\ WholeText(lines, K)'
  BY DeletingWhole
<1>2. lines \in Text /\ WholeText(lines, K) /\ RingTypeOK /\ RingWhole(K)
  BY CurLineType DEF CharInv
<1>3. piece \in Text /\ WholeText(piece, K)
  BY <1>2, PieceWhole, PieceLines DEF OnChar
<1> HIDE DEF piece
<1>4. RingWhole(K)'
  BY <1>2, <1>3, RingStaysWhole DEF piece
<1> QED BY <1>1, <1>4 DEF CharInv

LEMMA KillRangeWhole ==
  ASSUME IInv, NEW K, CharInv(K), NEW start \in Nat, NEW end \in Nat,
         end <= Len(CurLine), Stands(CurLine, start), Stands(CurLine, end),
         KillRange(start, end), row' = row,
         end > start => col' = start, ~(end > start) => col' = col
  PROVE  CharInv(K)'
<1>1. CASE end > start
  <2>1. /\ Position(lines, row, start) /\ Position(lines, row, end)
        /\ lines' = DeleteBetween(lines, row, start, row, end)
        /\ editor_kill_set(Piece(lines, row, start, row, end), last_was_kill)
    BY <1>1, KillRangeIs
  <2>2. OnChar(lines, row, start) /\ OnChar(lines, row, end)
    BY <2>1 DEF OnChar, CurLine
  <2>3. NotAfter(row, start, row, end)
    BY <1>1 DEF NotAfter
  <2> QED BY <1>1, <2>1, <2>2, <2>3, KillingWhole
<1>2. CASE ~(end > start)
  <2>1. UNCHANGED <<lines, frameVars, ringVars>>
    BY <1>2 DEF KillRange, frameVars
  <2> QED BY <2>1, CharsUnmoved
<1> QED BY <1>1, <1>2

LEMMA KillNewlineWhole ==
  ASSUME IInv, NEW K, CharInv(K), NEW r \in 0 .. (Len(lines) - 1),
         editor_kill_newline_and_next(r), r + 1 < Len(lines),
         row' = r, col' = Len(lines[r + 1])
  PROVE  CharInv(K)'
<1> USE CurLineType
<1> DEFINE c    == Len(lines[r + 1])
           down == r + 1
           data == << << >>, lines[r + 2] >>
<1>1. /\ Position(lines, r, c) /\ Position(lines, down, 0)
      /\ lines' = DeleteBetween(lines, r, c, down, 0)
  BY KillNewlineIs
<1>2. editor_kill_set(data, last_was_kill)
  BY DEF editor_kill_newline_and_next
<1>3. OnChar(lines, r, c) /\ OnChar(lines, down, 0)
  BY <1>1 DEF OnChar, Stands
<1>4. data \in Text /\ WholeText(data, K)
  <2> DEFINE line == lines[r + 2]
  <2>1. r + 2 \in 1 .. Len(lines)
    OBVIOUS
  <2>2. line \in Line /\ Whole(line, K) /\ << >> \in Line
    BY <2>1, TextLines DEF CharInv, WholeText, Line
  <2> HIDE DEF line
  <2>3. data \in Text
    BY <2>2 DEF Text, line
  <2>4. Len(data) = 2 /\ data[1] = << >> /\ data[2] = line
    BY DEF line
  <2> HIDE DEF data
  <2>5. WholeText(data, K)
    BY <2>2, <2>4, EmptyWhole DEF WholeText
  <2> QED BY <2>3, <2>5
<1> HIDE DEF c, down, data
<1>5. CursorInLine' /\ CursorOnBoundary' /\ WholeText(lines, K)'
  BY <1>1, <1>3, DeletingWhole DEF c
<1>6. RingWhole(K)'
  BY <1>2, <1>4, RingStaysWhole DEF CharInv
<1> QED BY <1>5, <1>6 DEF CharInv

LEMMA KillLineWhole ==
  ASSUME IInv, NEW K, CharInv(K), KillLine
  PROVE  CharInv(K)'
<1> USE CurLineType
<1>1. row' = row /\ col' = col /\ Stands(CurLine, col) /\ Stands(CurLine, Len(CurLine))
  BY CursorOnChar DEF KillLine, frameVars, OnChar, CurLine, Stands
<1>2. CASE col < Len(CurLine)
  <2>1. KillRange(col, Len(CurLine))
    BY <1>2 DEF KillLine
  <2> QED BY <1>1, <2>1, KillRangeWhole
<1>3. CASE ~(col < Len(CurLine)) /\ row + 1 < Len(lines)
  <2>1. editor_kill_newline_and_next(row)
    BY <1>3 DEF KillLine
  <2>2. col = Len(lines[row + 1])
    BY <1>3 DEF CharInv, CursorInLine, CurLine
  <2> QED BY <1>1, <1>3, <2>1, <2>2, KillNewlineWhole
<1>4. CASE ~(col < Len(CurLine)) /\ ~(row + 1 < Len(lines))
  <2>1. UNCHANGED <<lines, frameVars, ringVars>>
    BY <1>4 DEF KillLine
  <2> QED BY <2>1, CharsUnmoved
<1> QED BY <1>2, <1>3, <1>4

LEMMA KillWordForwardWhole ==
  ASSUME IInv, NEW K, CharInv(K), editor_kill_word_forward
  PROVE  CharInv(K)'
<1> USE CurLineType
<1>1. row' = row /\ col' = col /\ Stands(CurLine, col)
  BY CursorOnChar DEF editor_kill_word_forward, frameVars, OnChar, CurLine
<1>2. CASE col < Len(CurLine)
  <2> DEFINE mid == SkipRight(CurLine, col, SpaceByte)
             end == SkipRight(CurLine, mid, WordByte)
  <2>1. KillRange(col, end)
    BY <1>2 DEF editor_kill_word_forward
  <2>2. col \in 0 .. Len(CurLine)
    BY <1>2
  <2>3. /\ mid \in col .. Len(CurLine)
        /\ mid = col \/ mid = Len(CurLine) \/ CurLine[mid + 1] \notin Cont
    BY <2>2, SkipRightInLine, SkipRightStands
  <2> HIDE DEF mid
  <2>4. mid \in 0 .. Len(CurLine) /\ Stands(CurLine, mid)
    BY <1>1, <2>2, <2>3 DEF Stands
  <2>5. /\ end \in mid .. Len(CurLine)
        /\ end = mid \/ end = Len(CurLine) \/ CurLine[end + 1] \notin Cont
    BY <2>4, SkipRightInLine, SkipRightStands
  <2> HIDE DEF end
  <2>6. end \in Nat /\ end <= Len(CurLine) /\ Stands(CurLine, end)
    BY <2>4, <2>5 DEF Stands
  <2> QED BY <1>1, <2>1, <2>6, KillRangeWhole
<1>3. CASE ~(col < Len(CurLine)) /\ row + 1 < Len(lines)
  <2>1. editor_kill_newline_and_next(row)
    BY <1>3 DEF editor_kill_word_forward
  <2>2. col = Len(lines[row + 1])
    BY <1>3 DEF CharInv, CursorInLine, CurLine
  <2> QED BY <1>1, <1>3, <2>1, <2>2, KillNewlineWhole
<1>4. CASE ~(col < Len(CurLine)) /\ ~(row + 1 < Len(lines))
  <2>1. UNCHANGED <<lines, frameVars, ringVars>>
    BY <1>4 DEF editor_kill_word_forward, editor_kill_newline_and_next
  <2> QED BY <2>1, CharsUnmoved
<1> QED BY <1>2, <1>3, <1>4

LEMMA KillWordBackwardWhole ==
  ASSUME IInv, NEW K, CharInv(K), editor_kill_word_backward
  PROVE  CharInv(K)'
<1> USE CurLineType
<1>1. CASE UNCHANGED <<lines, frameVars, ringVars>>
  BY <1>1, CharsUnmoved
<1>2. CASE /\ row > 0 /\ row' = row - 1 /\ col' = Len(lines[row])
           /\ editor_kill_newline_and_next(row - 1)
  <2> DEFINE up == row - 1
  <2>1. /\ up \in 0 .. (Len(lines) - 1) /\ up + 1 = row /\ up + 1 < Len(lines)
        /\ row' = up /\ editor_kill_newline_and_next(up)
    BY <1>2
  <2> HIDE DEF up
  <2>2. col' = Len(lines[up + 1])
    BY <1>2, <2>1
  <2> QED BY <2>1, <2>2, KillNewlineWhole
<1>3. CASE \E start \in Nat :
             LET end == utf8_clamp_col(CurLine, col)
             IN  /\ start < end /\ Stands(CurLine, start)
                 /\ end <= Len(CurLine) /\ end \in Nat
                 /\ KillRange(start, end) /\ row' = row /\ col' = start
  <2> DEFINE end == utf8_clamp_col(CurLine, col)
  <2>1. PICK start \in Nat :
          /\ start < end /\ Stands(CurLine, start)
          /\ end <= Len(CurLine) /\ end \in Nat
          /\ KillRange(start, end) /\ row' = row /\ col' = start
    BY <1>3
  <2>2. Stands(CurLine, end)
    BY ClampStands
  <2> HIDE DEF end
  <2> QED BY <2>1, <2>2, KillRangeWhole
<1> QED BY <1>1, <1>2, <1>3, KillWordBackwardIs

LEMMA DeleteForwardWhole ==
  ASSUME IInv, NEW K, CharInv(K), DeleteForward
  PROVE  CharInv(K)'
<1> DEFINE line == lines[row + 1]
           n == utf8_next_boundary(line, col)
<1>1. /\ lines \in Text /\ Position(lines, row, col) /\ line \in Line
      /\ OnChar(lines, row, col)
      /\ col \in Nat /\ Len(line) \in Nat /\ Len(lines) \in Nat
      /\ row \in 0 .. (Len(lines) - 1) /\ row < Len(lines)
      /\ line_length(lines, row) = Len(line) /\ ClampCol(lines, row, col) = col
      /\ col \in 0 .. Len(line)
  BY CursorOnChar, CurLineType, ClampPlace DEF CurLine
<1>2. /\ lines' = buffer_delete_forward(lines, row, col) /\ row' = row /\ col' = col
      /\ UNCHANGED <<frameVars, ringVars>>
  BY DEF DeleteForward, Edit, frameVars
<1>3. CASE col < Len(line)
  <2>1. n \in 0 .. Len(line) /\ (n = Len(line) \/ line[n + 1] \notin Cont)
    BY <1>1, NextBoundaryInLine, NextBoundaryStands
  <2>2. lines' = DeleteBetween(lines, row, col, row, n)
    BY <1>1, <1>2, <1>3 DEF buffer_delete_forward
  <2> HIDE DEF n
  <2>3. OnChar(lines, row, n)
    BY <1>1, <2>1 DEF OnChar, Position, Stands
  <2>4. CursorInLine' /\ CursorOnBoundary' /\ WholeText(lines, K)'
    BY <1>1, <1>2, <2>2, <2>3, DeletingWhole
  <2> QED BY <1>2, <2>4 DEF CharInv, ringVars, RingWhole
<1>4. CASE ~(col < Len(line)) /\ row + 1 < Len(lines)
  <2> DEFINE down == row + 1
  <2>1. down \in 0 .. (Len(lines) - 1)
    BY <1>1, <1>4
  <2>2. lines' = DeleteBetween(lines, row, col, down, 0)
    BY <1>1, <1>2, <1>4 DEF buffer_delete_forward
  <2> HIDE DEF down
  <2>3. OnChar(lines, down, 0)
    BY <1>1, <2>1, LineStart DEF OnChar, Stands
  <2>4. CursorInLine' /\ CursorOnBoundary' /\ WholeText(lines, K)'
    BY <1>1, <1>2, <2>2, <2>3, DeletingWhole
  <2> QED BY <1>2, <2>4 DEF CharInv, ringVars, RingWhole
<1>5. CASE ~(col < Len(line)) /\ ~(row + 1 < Len(lines))
  <2>1. lines' = lines
    BY <1>1, <1>2, <1>5 DEF buffer_delete_forward
  <2> QED BY <1>2, <2>1, CharsUnmoved
<1> QED BY <1>3, <1>4, <1>5

LEMMA BackspaceWhole ==
  ASSUME IInv, NEW K, CharInv(K), Backspace
  PROVE  CharInv(K)'
<1> USE CurLineType
<1>0. UNCHANGED ringVars /\ Position(lines, row, col) /\ OnChar(lines, row, col)
  BY CursorOnChar DEF Backspace
<1>1. CASE ~(col > 0 \/ row > 0)
  <2>1. UNCHANGED <<lines, frameVars>>
    BY <1>1 DEF Backspace
  <2> QED BY <1>0, <2>1, CharsUnmoved
<1>2. CASE col > 0 \/ row > 0
  <2> DEFINE L == buffer_delete_char(lines, row, col)
  <2>1. lines' = L
    BY <1>2 DEF Backspace
  <2>2. WholeText(L, K)
    <3>1. CASE col > 0
      <4> DEFINE p == utf8_prev_boundary(lines[row + 1], col)
      <4>1. L = DeleteBetween(lines, row, p, row, col) /\ Position(lines, row, p)
        BY <1>0, <3>1, CharDeleted
      <4>2. p = 0 \/ lines[row + 1][p + 1] \notin Cont
        BY <1>0, ClampPlace, PrevBoundaryStands
      <4> HIDE DEF p
      <4>3. OnChar(lines, row, p)
        BY <4>1, <4>2 DEF OnChar, Stands
      <4> QED BY <1>0, <4>1, <4>3, DeleteWhole DEF CharInv
    <3>2. CASE ~(col > 0)
      <4> DEFINE up == row - 1
                 c  == line_length(lines, up)
      <4>1. L = DeleteBetween(lines, up, c, row, 0) /\ col = 0
        BY <1>2, <3>2 DEF buffer_delete_char
      <4>2. up \in 0 .. (Len(lines) - 1)
        BY <1>2, <3>2
      <4> HIDE DEF up
      <4>3. c = Len(lines[up + 1]) /\ Len(lines[up + 1]) \in Nat
        BY <4>2, RowType
      <4> HIDE DEF c
      <4>4. OnChar(lines, up, c)
        BY <4>2, <4>3 DEF OnChar, Position, Stands
      <4> QED BY <1>0, <4>1, <4>4, DeleteWhole DEF CharInv
    <3> QED BY <3>1, <3>2
  <2> HIDE DEF L
  <2>3. CursorInLine' /\ CursorOnBoundary'
    <3>1. CASE Settles
      BY <3>1 DEF Settles, CharInv, frameVars, CursorInLine, CursorOnBoundary, CurLine
    <3> QED BY <3>1, BackspaceSettles DEF CharInv
  <2> QED BY <1>0, <2>1, <2>2, <2>3 DEF CharInv, ringVars, RingWhole
<1> QED BY <1>1, <1>2

-----------------------------------------------------------------------------
(* Regions of whole characters, and any command.                             *)

(* The ends of a region whose mark stands on a character.                    *)
LEMMA RegionOnChars ==
  ASSUME IInv, NEW K, CharInv(K), MarkOnChar
  PROVE  /\ Region.end_row < Len(lines) /\ RegionStart = Region.start_col
         /\ OnChar(lines, Region.start_row, RegionStart)
         /\ OnChar(lines, Region.end_row, RegionEnd)
<1> USE CurLineType
<1>1. /\ MarkInText /\ CursorInLine /\ OnChar(lines, row, col)
      /\ Position(lines, row, col)
  BY CursorOnChar DEF CharInv, MarkOnChar
<1>2. Region.end_row < Len(lines) /\ RegionStart = Region.start_col
  BY <1>1, RegionInText
<1>3. OnChar(lines, mark.row, mark.col)
  <2>1. /\ mark.row \in 0 .. (Len(lines) - 1) /\ mark.row < Len(lines)
        /\ mark.row \in Nat /\ mark.col \in Nat
    BY <1>1, MarkTyped DEF MarkInText
  <2>2. /\ LineAt(lines, mark.row) = lines[mark.row + 1]
        /\ line_length(lines, mark.row) = Len(lines[mark.row + 1])
        /\ Len(lines[mark.row + 1]) \in Nat
    BY <2>1, LineAtType, RowType
  <2>3. mark.col \in 0 .. Len(lines[mark.row + 1])
    BY <1>1, <2>1, <2>2 DEF MarkInText
  <2>4. Stands(lines[mark.row + 1], mark.col)
    BY <2>2, <2>3 DEF MarkOnChar, Stands
  <2> QED BY <2>1, <2>3, <2>4 DEF OnChar, Position
<1>4. /\ ClampCol(lines, mark.row, mark.col) = mark.col
      /\ ClampCol(lines, row, col) = col
  BY <1>1, <1>3, ClampPlace DEF OnChar
<1>5. CASE MarkFirst
  BY <1>1, <1>2, <1>3, <1>4, <1>5 DEF Region, RegionStart, RegionEnd
<1>6. CASE ~MarkFirst
  BY <1>1, <1>2, <1>3, <1>4, <1>6 DEF Region, RegionStart, RegionEnd
<1> QED BY <1>2, <1>5, <1>6

LEMMA KillRegionWhole ==
  ASSUME IInv, NEW K, CharInv(K), mark.active => MarkOnChar, editor_kill_region
  PROVE  CharInv(K)'
<1>1. CASE CanCopy
  <2> DEFINE sr == Region.start_row
             er == Region.end_row
             s  == RegionStart
             e  == RegionEnd
  <2>1. /\ Region.end_row < Len(lines) /\ RegionStart = Region.start_col
        /\ OnChar(lines, sr, s) /\ OnChar(lines, er, e)
    BY <1>1, RegionOnChars DEF CanCopy, HasRegion
  <2>2. /\ lines' = DeleteBetween(lines, sr, s, er, e)
        /\ editor_kill_set(RegionPiece, last_was_kill)
        /\ row' = sr /\ col' = s
    BY <1>1, <2>1, KillRegionIs
  <2>3. NotAfter(sr, s, er, e) /\ RegionPiece = Piece(lines, sr, s, er, e)
    BY <2>1, RegionPlaces DEF RegionPiece
  <2> HIDE DEF sr, er, s, e
  <2> QED BY <2>1, <2>2, <2>3, KillingWhole
<1>2. CASE ~CanCopy
  <2>1. UNCHANGED <<lines, frameVars, ringVars>>
    BY <1>2 DEF editor_kill_region
  <2> QED BY <2>1, CharsUnmoved
<1> QED BY <1>1, <1>2

LEMMA CopyRegionWhole ==
  ASSUME IInv, NEW K, CharInv(K), mark.active => MarkOnChar, editor_copy_region
  PROVE  CharInv(K)'
<1>1. CASE CanCopy
  <2>1. /\ Region.end_row < Len(lines)
        /\ OnChar(lines, Region.start_row, RegionStart)
        /\ OnChar(lines, Region.end_row, RegionEnd)
    BY <1>1, RegionOnChars DEF CanCopy, HasRegion
  <2>2. NotAfter(Region.start_row, RegionStart, Region.end_row, RegionEnd)
    BY <2>1, RegionPlaces
  <2>3. lines \in Text /\ WholeText(lines, K) /\ RingTypeOK
    BY CurLineType DEF CharInv
  <2>4. WholeText(RegionPiece, K)
    BY <2>1, <2>2, <2>3, PieceWhole DEF RegionPiece
  <2>5. editor_copy_region_text = RegionPiece /\ RegionPiece \in Text
    BY <2>1, CopyIsPiece, CopyRegionType
  <2>6. editor_kill_set(RegionPiece, FALSE)
    BY <1>1, <2>5 DEF editor_copy_region
  <2>7. RingWhole(K)'
    BY <2>3, <2>4, <2>5, <2>6, RingStaysWhole DEF CharInv
  <2>8. UNCHANGED <<lines, frameVars>>
    BY DEF editor_copy_region
  <2> QED BY <2>7, <2>8 DEF frameVars, CharInv, CursorInLine, CursorOnBoundary, CurLine
<1>2. CASE ~CanCopy
  <2>1. UNCHANGED <<lines, frameVars, ringVars>>
    BY <1>2 DEF editor_copy_region
  <2> QED BY <2>1, CharsUnmoved
<1> QED BY <1>1, <1>2

(* An insertion leaves the cursor before the same whole characters.          *)
LEMMA InsertionWhole ==
  ASSUME IInv, IInv', NEW K, CharInv(K), << Space >> \in K, << Tab >> \in K,
         \A ch \in KeyBytes : SelfInsert(ch) => TypedFits(K, ch), Inserting
  PROVE  CharInv(K)'
<1>1. CursorInLine' /\ TextAfter' = TextAfter
  BY InsertingKeepsTail DEF CharInv
<1>2. WholeText(lines, K)'
  BY InsertingWhole
<1>3. UNCHANGED ringVars
  BY DEF Inserting, SelfInsert, InsertTab, Enter, OpenLine, editor_yank, Edit
<1>4. Begun(TextAfter[1])
  <2> DEFINE a == After(lines, row, col)
  <2>1. TextAfter = a
    BY FrameHere DEF CharInv
  <2>2. a \in Text /\ WholeText(a, K)
    BY CursorOnChar, CurLineType, AfterWhole DEF CharInv
  <2> HIDE DEF a
  <2>3. 1 \in 1 .. Len(a)
    BY <2>2, TextLines
  <2> QED BY <2>1, <2>2, <2>3 DEF WholeText, Whole
<1>5. CursorOnBoundary'
  <2> DEFINE L == lines'
             r == row'
             c == col'
  <2>1. L \in Text /\ r \in 0 .. (Len(L) - 1) /\ c \in Nat /\ c <= Len(L[r + 1])
    BY <1>1 DEF IInv, TypeOK, CursorInLine, CurLine
  <2>2. TextAfter' = After(L, r, ClampCol(L, r, c))
    BY DEF TextAfter
  <2>3. Begun(TextAfter'[1])
    BY <1>1, <1>4
  <2> HIDE DEF L, r, c
  <2>4. Position(L, r, c) /\ Len(L[r + 1]) \in Nat
    BY <2>1, RowType DEF Position
  <2>5. ClampCol(L, r, c) = c
    BY <2>1, <2>4, ClampPlace
  <2>6. OnChar(L, r, c)
    BY <2>1, <2>2, <2>3, <2>4, <2>5, StandsBefore
  <2>7. 0 < c /\ c < Len(L[r + 1]) => L[r + 1][c + 1] \notin Cont
    BY <2>6 DEF OnChar, Stands
  <2> QED BY <2>7 DEF CursorOnBoundary, CurLine, L, r, c
<1> QED BY <1>1, <1>2, <1>3, <1>5 DEF CharInv, ringVars, RingWhole

RegionCommand == editor_kill_region \/ editor_copy_region

LEMMA CharStep ==
  ASSUME IInv, NEW K, CharInv(K), << Space >> \in K, << Tab >> \in K, Next,
         \A ch \in KeyBytes : SelfInsert(ch) => TypedFits(K, ch),
         RegionCommand /\ mark.active => MarkOnChar
  PROVE  CharInv(K)'
<1>1. ASSUME Settles, UNCHANGED <<lines, ringVars>> PROVE CharInv(K)'
  BY <1>1 DEF Settles, CharInv, frameVars, ringVars, CursorInLine, CursorOnBoundary,
     CurLine, RingWhole
<1>2. CASE Escape \/ BeginCsi \/ CtrlG \/ SetMark \/ YankPop
  <2>1. UNCHANGED <<lines, frameVars, ringVars>>
    BY <1>2, YankPopIdle DEF Escape, BeginCsi, CtrlG, SetMark
  <2> QED BY <2>1, CharsUnmoved
<1>3. CASE \/ frame_move_prev_line \/ frame_move_next_line
           \/ frame_move_prev_char \/ frame_move_next_char
           \/ frame_move_line_start \/ frame_move_line_end
           \/ frame_move_next_word \/ frame_move_prev_word
  <2>1. Motion
    BY <1>3 DEF frame_move_prev_line, frame_move_next_line, frame_move_prev_char,
       frame_move_next_char, frame_move_line_start, frame_move_line_end,
       frame_move_next_word, frame_move_prev_word
  <2>2. UNCHANGED <<lines, ringVars>>
    BY <2>1 DEF Motion
  <2>3. CursorInLine
    BY DEF CharInv
  <2>4. Settles
    BY <1>3, <2>3, LineMotionSettles, PrevCharSettles, NextCharSettles,
       NextWordSettles, PrevWordSettles
  <2> QED BY <1>1, <2>2, <2>4
<1>4. CASE Inserting
  BY <1>4, NextInvariant, InsertionWhole
<1>5. CASE \/ DeleteForward \/ KillLine \/ editor_kill_word_forward
           \/ editor_kill_word_backward \/ Backspace
  BY <1>5, DeleteForwardWhole, KillLineWhole, KillWordForwardWhole,
     KillWordBackwardWhole, BackspaceWhole
<1>6. CASE editor_kill_region
  BY <1>6, KillRegionWhole DEF RegionCommand
<1>7. CASE editor_copy_region
  BY <1>7, CopyRegionWhole DEF RegionCommand
<1> QED BY <1>2, <1>3, <1>4, <1>5, <1>6, <1>7
        DEF Next, ControlKey, TextKey, Inserting

-----------------------------------------------------------------------------
(* No character is split.                                                    *)

(* The texts a file holds at first begin no line inside a character.         *)
FilesBegun == \A T \in InitTexts : \A i \in 1 .. Len(T) : Begun(T[i])

(* A region command finds the mark where an earlier edit has not moved the   *)
(* text away under it.                                                       *)
RegionsOnChars == [][RegionCommand /\ mark.active => MarkOnChar]_vars

(* A continuation byte is typed after the byte that it continues.            *)
BytesContinue == [][\A ch \in KeyBytes \cap Cont : SelfInsert(ch) => col > 0]_vars

LEMMA CharInit ==
  ASSUME Init, NEW K, \A i \in 1 .. Len(lines) : Whole(lines[i], K)
  PROVE  CharInv(K)
<1>1. IInv /\ col = 0 /\ row = 0 /\ kill_ring = << >>
  BY InitInvariant DEF Init, RingInit
<1>2. CursorInLine /\ CursorOnBoundary
  BY <1>1, CurLineType DEF CursorInLine, CursorOnBoundary
<1> QED BY <1>1, <1>2 DEF CharInv, WholeText, RingWhole

LEMMA CharNext ==
  ASSUME IInv, NEW K, CharInv(K), << Space >> \in K, << Tab >> \in K, [Next]_vars,
         \A ch \in KeyBytes : SelfInsert(ch) => TypedFits(K, ch),
         [RegionCommand /\ mark.active => MarkOnChar]_vars
  PROVE  CharInv(K)'
<1>1. CASE UNCHANGED vars
  <2>1. UNCHANGED <<lines, frameVars, ringVars>>
    BY <1>1 DEF vars, frameVars, ringVars
  <2> QED BY <2>1, CharsUnmoved
<1>2. CASE Next /\ ~UNCHANGED vars
  BY <1>2, CharStep
<1> QED BY <1>1, <1>2

(* In a buffer whose lines hold whole characters no command leaves the       *)
(* cursor inside one.  Only C-w and M-w on a mark that an earlier edit left  *)
(* inside a character, or past the end, and a continuation byte typed at the *)
(* beginning of a line are excepted.                                         *)
THEOREM CursorStaysOnChar ==
  ASSUME FilesBegun
  PROVE  Spec /\ RegionsOnChars /\ BytesContinue => []CursorOnBoundary
<1> DEFINE K == Line
           Continues == \A ch \in KeyBytes \cap Cont : SelfInsert(ch) => col > 0
           OnMark == RegionCommand /\ mark.active => MarkOnChar
<1>0. << Space >> \in K /\ << Tab >> \in K
  BY ByteClasses, BlankBytes DEF Line
<1>1. Init => CharInv(K)
  <2> SUFFICES ASSUME Init PROVE CharInv(K)
    OBVIOUS
  <2>1. lines \in InitTexts /\ lines \in Text
    BY InitInvariant DEF Init, IInv, TypeOK
  <2>2. ASSUME NEW i \in 1 .. Len(lines) PROVE Whole(lines[i], K)
    <3>1. lines[i] \in Line
      BY <2>1, TextLines
    <3> QED BY <2>1, <3>1, LineIsWhole DEF Whole, FilesBegun
  <2> HIDE DEF K
  <2> QED BY <2>2, CharInit
<1>2. IInv /\ CharInv(K) /\ [Next]_vars /\ [OnMark]_vars /\ [Continues]_vars => CharInv(K)'
  <2> SUFFICES ASSUME IInv, CharInv(K), [Next]_vars, [OnMark]_vars, [Continues]_vars
               PROVE  CharInv(K)'
    OBVIOUS
  <2>1. CASE UNCHANGED vars
    <3>1. UNCHANGED <<lines, frameVars, ringVars>>
      BY <2>1 DEF vars, frameVars, ringVars
    <3> HIDE DEF K
    <3> QED BY <3>1, CharsUnmoved
  <2>2. CASE ~UNCHANGED vars
    <3>1. ASSUME NEW ch \in KeyBytes, SelfInsert(ch) PROVE TypedFits(K, ch)
      <4>1. ch \in Byte
        BY EditingConstants
      <4>2. << ch >> \in K
        BY <4>1 DEF Line
      <4>3. CASE ch \notin Cont
        BY <4>2, <4>3 DEF TypedFits
      <4>4. CASE ch \in Cont
        <5>1. col > 0
          BY <2>2, <3>1, <4>4
        <5> QED BY <5>1 DEF TypedFits
      <4> QED BY <4>3, <4>4
    <3> HIDE DEF K
    <3> QED BY <1>0, <3>1, CharNext
  <2> QED BY <2>1, <2>2
<1>3. CharInv(K) => CursorOnBoundary
  BY DEF CharInv
<1> HIDE DEF K
<1> QED BY <1>1, <1>2, <1>3, Invariance, PTL DEF Spec, RegionsOnChars, BytesContinue

LEMMA CharsAlwaysKnown ==
  ASSUME FilesBegun, KeyBytes \cap Cont = {}
  PROVE  Spec /\ RegionsOnChars => []CharInv(KnownChars)
<1> DEFINE K == KnownChars
           OnMark == RegionCommand /\ mark.active => MarkOnChar
<1>0. << Space >> \in K /\ << Tab >> \in K /\ \A ch \in KeyBytes : << ch >> \in K
  <2> DEFINE typed == KeyBytes \cup {Space, Tab}
  <2>1. \A ch \in typed : << ch >> \in {<< c >> : c \in typed}
    OBVIOUS
  <2>2. {<< ch >> : ch \in typed} \subseteq K
    BY DEF KnownChars
  <2>3. Space \in typed /\ Tab \in typed /\ KeyBytes \subseteq typed
    OBVIOUS
  <2> HIDE DEF K, typed
  <2> QED BY <2>1, <2>2, <2>3, Zenon
<1>1. Init => CharInv(K)
  <2> SUFFICES ASSUME Init PROVE CharInv(K)
    OBVIOUS
  <2>1. lines \in InitTexts
    BY DEF Init
  <2>2. ASSUME NEW i \in 1 .. Len(lines) PROVE Whole(lines[i], K)
    <3>1. lines[i] \in UNION {{T[j] : j \in 1 .. Len(T)} : T \in InitTexts}
      BY <2>1
    <3>2. Chars(lines[i]) \subseteq K
      BY <3>1 DEF KnownChars
    <3> QED BY <2>1, <3>2 DEF Whole, FilesBegun
  <2> HIDE DEF K
  <2> QED BY <2>2, CharInit
<1>2. IInv /\ CharInv(K) /\ [Next]_vars /\ [OnMark]_vars => CharInv(K)'
  <2> SUFFICES ASSUME IInv, CharInv(K), [Next]_vars, [OnMark]_vars
               PROVE  CharInv(K)'
    OBVIOUS
  <2>1. ASSUME NEW ch \in KeyBytes PROVE TypedFits(K, ch)
    BY <1>0 DEF TypedFits
  <2> HIDE DEF K
  <2> QED BY <1>0, <2>1, CharNext
<1> HIDE DEF K
<1>3. Spec /\ RegionsOnChars => []CharInv(K)
  BY <1>1, <1>2, Invariance, PTL DEF Spec, RegionsOnChars
<1> QED BY <1>3 DEF K

(* Whatever is typed, deleted, killed, copied and pasted, every character of *)
(* the buffer and of the kill ring is one the file had or one that was       *)
(* typed: none is cut, and no two parts are joined into a new one.           *)
THEOREM CharsAlwaysWhole ==
  ASSUME FilesBegun, KeyBytes \cap Cont = {}
  PROVE  Spec /\ RegionsOnChars => []CharsStayWhole
<1>1. CharInv(KnownChars) => CharsStayWhole
  BY DEF CharInv, WholeText, RingWhole, Whole, CharsStayWhole
<1> QED BY <1>1, CharsAlwaysKnown, PTL

-----------------------------------------------------------------------------
(* M-b and the words it passes.                                              *)

(* The columns of a line where a word begins.                                *)
LEMMA WordStartIs ==
  ASSUME IInv, NEW r \in 0 .. (Len(lines) - 1), NEW c \in 0 .. Len(lines[r + 1]),
         c > 0, WordStartAt(r, c)
  PROVE  c < Len(lines[r + 1]) /\ lines[r + 1][c + 1] \in WordByte
         /\ lines[r + 1][c] \notin WordByte
<1>1. Len(lines[r + 1]) \in Nat
  BY CurLineType, RowType
<1> QED BY <1>1 DEF WordStartAt, IsWord

LEMMA PrevWordPassesNone ==
  ASSUME IInv, NEW K, CharInv(K), \A s \in K : Len(s) > 1 => s[1] \in WordByte,
         frame_move_prev_word, NEW p \in Between(row', col', row, col)
  PROVE  ~WordStartAt(p[1], p[2])
<1> USE CurLineType
<1> DEFINE here  == utf8_clamp_col(CurLine, col)
           above == {r \in 0 .. (row - 1) : r = 0 \/ lines[r + 1] # << >>}
           start == IF here > 0 \/ row = 0 THEN row ELSE Max(above)
           line  == lines[start + 1]
           from  == IF start = row THEN here ELSE Len(line)
           mid   == SkipLeft(line, from, Byte \ WordByte)
           end   == SkipLeft(line, mid, WordByte)
           pr == p[1]
           pc == p[2]
<1>1. row' = start /\ col' = end /\ lines' = lines
  BY DEF frame_move_prev_word, Motion
<1>2. here = col
  BY DEF CharInv, CursorInLine, CursorOnBoundary, utf8_clamp_col
<1>3. row # 0 => /\ Max(above) \in 0 .. (row - 1)
                 /\ \A r \in (Max(above) + 1) .. (row - 1) : lines[r + 1] = << >>
  <2> SUFFICES ASSUME row # 0
               PROVE  /\ Max(above) \in 0 .. (row - 1)
                      /\ \A r \in (Max(above) + 1) .. (row - 1) : lines[r + 1] = << >>
    OBVIOUS
  <2>1. row - 1 \in Nat /\ above \in SUBSET (0 .. (row - 1)) /\ 0 \in above
    OBVIOUS
  <2>2. Max(above) \in above /\ \A y \in above : Max(above) >= y
    <3> HIDE DEF above
    <3> QED BY <2>1, MaxBelow
  <2> DEFINE m == Max(above)
  <2> HIDE DEF m
  <2>3. m \in above /\ \A y \in above : m >= y
    BY <2>2 DEF m
  <2>4. m \in 0 .. (row - 1)
    BY <2>1, <2>3
  <2>5. ASSUME NEW r \in (m + 1) .. (row - 1) PROVE lines[r + 1] = << >>
    <3>1. r \in 0 .. (row - 1) /\ r # 0 /\ ~(m >= r)
      BY <2>4
    <3> QED BY <2>3, <3>1
  <2> HIDE DEF above
  <2> QED BY <2>4, <2>5 DEF m
<1>4. /\ start \in 0 .. row /\ start \in 0 .. (Len(lines) - 1)
      /\ start # row => col = 0 /\ \A r \in (start + 1) .. (row - 1) : lines[r + 1] = << >>
  <2> HIDE DEF here, above
  <2> QED BY <1>2, <1>3
<1>5. line \in Line /\ Len(line) \in Nat /\ Chars(line) \subseteq K
  <2> HIDE DEF start
  <2>1. lines \in Text /\ start \in 0 .. (Len(lines) - 1)
    BY <1>4
  <2>2. line \in Line /\ Len(line) \in Nat
    BY <2>1, RowType
  <2>3. start + 1 \in 1 .. Len(lines)
    BY <2>1
  <2>4. Whole(line, K)
    BY <2>3 DEF CharInv, WholeText
  <2> QED BY <2>2, <2>4 DEF Whole
<1>6. from \in 0 .. Len(line) /\ (start = row => from = col)
  <2> HIDE DEF here, start
  <2>1. CASE start = row
    BY <1>2, <1>5, <2>1 DEF CharInv, CursorInLine, CurLine
  <2>2. CASE start # row
    BY <1>5, <2>2
  <2> QED BY <2>1, <2>2
<1>7. end \in Nat
  <2> HIDE DEF from, line
  <2>1. from \in Nat
    BY <1>5, <1>6
  <2>2. mid \in 0 .. from
    BY <2>1, SkipLeftBefore
  <2>3. mid \in Nat
    BY <2>1, <2>2
  <2> HIDE DEF mid
  <2>4. end \in 0 .. mid
    BY <2>3, SkipLeftBefore
  <2> QED BY <2>3, <2>4
<1>8. /\ pr \in start .. row /\ pc \in 0 .. Len(lines[pr + 1])
      /\ pos_compare(start, end, pr, pc) < 0 /\ pos_compare(pr, pc, row, col) < 0
  <2> HIDE DEF start, end, pr, pc
  <2>1. /\ p \in UNION {{<<r, c>> : c \in 0 .. Len(lines[r + 1])} : r \in start .. row}
        /\ pos_compare(start, end, p[1], p[2]) < 0
        /\ pos_compare(p[1], p[2], row, col) < 0
    BY <1>1 DEF Between
  <2> DEFINE Cols(r) == {<<r, c>> : c \in 0 .. Len(lines[r + 1])}
  <2>a. p \in UNION {Cols(r) : r \in start .. row}
    BY <2>1
  <2>b. PICK r \in start .. row : p \in Cols(r)
    <3> HIDE DEF Cols
    <3> QED BY <2>a
  <2>2. PICK c \in 0 .. Len(lines[r + 1]) : p = <<r, c>>
    BY <2>b
  <2>3. pr = r /\ pc = c
    BY <2>2 DEF pr, pc
  <2> QED BY <2>1, <2>2, <2>3 DEF pr, pc
<1> HIDE DEF pr, pc
<1> SUFFICES ASSUME WordStartAt(pr, pc) PROVE FALSE
  BY DEF pr, pc
<1>9. pr \in 0 .. (Len(lines) - 1) /\ pr \in Int /\ Len(lines[pr + 1]) \in Nat /\ pc \in Nat
  <2> HIDE DEF start
  <2>1. pr \in 0 .. (Len(lines) - 1) /\ pr \in Int /\ lines \in Text
    BY <1>4, <1>8
  <2>2. Len(lines[pr + 1]) \in Nat
    BY <2>1, RowType
  <2> QED BY <1>8, <2>1, <2>2
<1>10. CASE pr = start
  <2> HIDE DEF start, from, line, end
  <2>1. pc > end
    BY <1>4, <1>7, <1>8, <1>9, <1>10 DEF pos_compare
  <2>2. pc < Len(line) /\ line[pc + 1] \in WordByte /\ line[pc] \notin WordByte
    BY <1>7, <1>8, <1>9, <1>10, <2>1, WordStartIs DEF line
  <2>3. pc < from
    <3>1. CASE start = row
      BY <1>4, <1>6, <1>8, <1>9, <1>10, <3>1 DEF pos_compare
    <3>2. CASE start # row
      BY <2>2, <3>2 DEF from
    <3> QED BY <3>1, <3>2
  <2>4. pc \in (end + 1) .. (from - 1)
    BY <1>5, <1>6, <1>7, <1>9, <2>1, <2>3
  <2> HIDE DEF mid
  <2>5. mid = SkipLeft(line, from, Byte \ WordByte) /\ end = SkipLeft(line, mid, WordByte)
    BY DEF mid, end
  <2> QED BY <1>5, <1>6, <2>2, <2>4, <2>5, PassedNoWord
<1>11. CASE pr # start
  <2> HIDE DEF start, end
  <2>1. start # row
    BY <1>4, <1>8, <1>11
  <2>2. pr # row
    BY <1>4, <1>8, <1>9, <2>1 DEF pos_compare
  <2>3. pr \in (start + 1) .. (row - 1)
    BY <1>4, <1>8, <1>9, <1>11, <2>2
  <2>4. lines[pr + 1] = << >>
    BY <1>4, <2>1, <2>3
  <2>5. Len(lines[pr + 1]) = 0
    BY <2>4
  <2> QED BY <1>8, <2>5 DEF WordStartAt, IsWord
<1> QED BY <1>10, <1>11

(* Every byte of a character of more than one belongs to a word, as each     *)
(* byte from 128 on does: none of the buffer's characters begins otherwise.  *)
LeadsAreWords == \A ch \in KnownChars : Len(ch) > 1 => ch[1] \in WordByte

(* M-b never jumps over the beginning of a word, on its own line or on the   *)
(* rows above that it passes.                                                *)
THEOREM NoWordSkipped ==
  ASSUME FilesBegun, KeyBytes \cap Cont = {}, LeadsAreWords
  PROVE  Spec /\ RegionsOnChars => PrevWordSkipsNone
<1>1. IInv /\ CharInv(KnownChars) /\ [Next]_vars
        => [frame_move_prev_word =>
              ~ \E p \in Between(row', col', row, col) : WordStartAt(p[1], p[2])]_vars
  BY PrevWordPassesNone DEF LeadsAreWords
<1> QED BY <1>1, CharsAlwaysKnown, Invariance, PTL DEF Spec, PrevWordSkipsNone

=============================================================================
