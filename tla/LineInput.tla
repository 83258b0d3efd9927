----------------------------- MODULE LineInput -----------------------------
(***************************************************************************)
(* The one-line input fields of VED: the save-as prompt (prompt_* in        *)
(* src/src/input.c) and the finder's query (finder_query_* in               *)
(* src/src/finder.c).  The two are written twice and do the same, so both   *)
(* are values [buf, col] of the operators below: the bytes of the line and  *)
(* the cursor's column in it.                                               *)
(***************************************************************************)
EXTENDS Utf8

CONSTANT CAP    \* sizeof(prompt_buf) and sizeof(finder.query)

ASSUME CapPositive == CAP \in Nat \ {0}

(* There is room for the terminating NUL, and the cursor is in the line.     *)
InputLine ==
  {line \in [buf : Line, col : Nat] :
     Len(line.buf) < CAP /\ line.col <= Len(line.buf)}

EmptyInput == [buf |-> << >>, col |-> 0]

move_start(line) == [line EXCEPT !.col = 0]
move_end(line)   == [line EXCEPT !.col = Len(line.buf)]

(* Variant: the cursor moves by one byte.                                    *)
MovePrevByte(line) ==
  [line EXCEPT !.col = IF line.col = 0 THEN 0 ELSE line.col - 1]

move_prev_char(line) ==
  [line EXCEPT !.col = utf8_prev_boundary(line.buf, line.col)]
move_next_char(line) ==
  [line EXCEPT !.col = utf8_next_boundary(line.buf, line.col)]

move_prev_word(line) ==
  [line EXCEPT !.col = SkipLeft(line.buf,
                                SkipLeft(line.buf, line.col, Byte \ WordByte),
                                WordByte)]
move_next_word(line) ==
  [line EXCEPT !.col = SkipRight(line.buf,
                                 SkipRight(line.buf, line.col, Byte \ WordByte),
                                 WordByte)]

delete_range(line, start, end) ==
  IF end <= start \/ end > Len(line.buf) THEN line
  ELSE [buf |-> SubSeq(line.buf, 1, start)
                  \o SubSeq(line.buf, end + 1, Len(line.buf)),
        col |-> start]

delete_backward(line) ==
  delete_range(line, utf8_prev_boundary(line.buf, line.col), line.col)

delete_forward(line) ==
  delete_range(line, line.col, utf8_next_boundary(line.buf, line.col))

(* White space and then a word: other bytes stop it.                         *)
delete_prev_word(line) ==
  delete_range(line,
               SkipLeft(line.buf, SkipLeft(line.buf, line.col, SpaceByte),
                        WordByte),
               line.col)

delete_next_word(line) ==
  delete_range(line, line.col,
               SkipRight(line.buf, SkipRight(line.buf, line.col, SpaceByte),
                         WordByte))

kill_to_end(line) == delete_range(line, line.col, Len(line.buf))

(* Variant: no room is left for the NUL.                                     *)
InsertNoNul(line, byte) ==
  IF Len(line.buf) >= CAP THEN line
  ELSE [buf |-> SubSeq(line.buf, 1, line.col) \o <<byte>>
                  \o SubSeq(line.buf, line.col + 1, Len(line.buf)),
        col |-> line.col + 1]

(* A byte for which there is no room is dropped.                             *)
insert(line, byte) ==
  IF Len(line.buf) + 1 >= CAP THEN line
  ELSE [buf |-> SubSeq(line.buf, 1, line.col) \o <<byte>>
                  \o SubSeq(line.buf, line.col + 1, Len(line.buf)),
        col |-> line.col + 1]

=============================================================================
