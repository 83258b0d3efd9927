-------------------------------- MODULE Utf8 --------------------------------
(***************************************************************************)
(* The byte-level cursor arithmetic of src/src/utf8.c and the byte classes  *)
(* that the word commands of src/src/input.c test.                          *)
(*                                                                         *)
(* A line is a sequence of bytes.  Columns are the 0-based byte offsets of  *)
(* the C code: column c stands before line[c + 1].  Bytes are abstracted to *)
(* the classes the code distinguishes: continuation bytes, word bytes       *)
(* (which include every byte >= 128), white space, and the rest.            *)
(***************************************************************************)
EXTENDS Integers, Sequences, FiniteSetsExt

CONSTANTS Byte,       \* the bytes a line may hold (never NUL, never newline)
          Cont,       \* continuation bytes, 10xxxxxx
          WordByte,   \* bytes for which is_word_char holds
          SpaceByte,  \* ASCII bytes for which isspace holds
          NUL         \* the terminator of a C string

ASSUME ByteClasses ==
  /\ WordByte \subseteq Byte
  /\ SpaceByte \subseteq Byte
  /\ WordByte \cap SpaceByte = {}
  /\ Cont \subseteq WordByte
  /\ NUL \notin Byte

(* The text of a line, without newline and NUL.                              *)
Line == Seq(Byte)

(* The columns a walk from col to the right stops at: col itself, then every *)
(* column that is not inside a character.                                    *)
StopsRight(line, col) ==
  {col} \cup {c \in (col + 1) .. Len(line) :
                 c = Len(line) \/ line[c + 1] \notin Cont}

(* The columns a walk to the left from col can stop at, col excluded.        *)
StopsLeft(line, col) ==
  {c \in 0 .. (col - 1) : c = 0 \/ line[c + 1] \notin Cont}

utf8_next_boundary(line, col) ==
  IF col >= Len(line) THEN Len(line)
                      ELSE Min(StopsRight(line, col) \ {col})

(* Variant: the walk takes one byte too many.                                *)
PrevBoundaryTooFar(line, col) ==
  IF col <= 1 THEN 0 ELSE Max(StopsLeft(line, col - 1))

utf8_prev_boundary(line, col) ==
  IF col = 0 THEN 0 ELSE Max(StopsLeft(line, col))

(* Variant: the column is not moved out of a character.                      *)
ClampLengthOnly(line, col) == IF col > Len(line) THEN Len(line) ELSE col

utf8_clamp_col(line, col) ==
  LET c == IF col > Len(line) THEN Len(line) ELSE col
  IN  IF 0 < c /\ c < Len(line) /\ line[c + 1] \in Cont
        THEN utf8_prev_boundary(line, c)
        ELSE c

(* utf8_prev_boundary when col may lie beyond the string: mem is the part of *)
(* the allocation whose contents are known, and its last byte is a NUL.      *)
(* Bytes past it are whatever the heap holds, so a walk that starts there    *)
(* ends on any column from that NUL on.                                      *)
PrevBoundaryIn(mem, col) ==
  IF col <= Len(mem) THEN {utf8_prev_boundary(mem, col)}
                     ELSE (Len(mem) - 1) .. (col - 1)

(* The loop "while (col < len && line[col] is in skip) col = next boundary". *)
SkipRight(line, col, skip) ==
  IF col >= Len(line) THEN col
  ELSE Min({c \in StopsRight(line, col) :
               c = Len(line) \/ line[c + 1] \notin skip})

(* The loop "while (col > 0 && the character before col is in skip)          *)
(* col = previous boundary": the character is tested by its first byte.      *)
SkipLeft(line, col, skip) ==
  Max({c \in {col} \cup StopsLeft(line, col) :
          c = 0 \/ line[utf8_prev_boundary(line, c) + 1] \notin skip})

-----------------------------------------------------------------------------
(* The characters of a line: a first byte, or whatever byte the line begins  *)
(* with, and the continuation bytes that follow it.                          *)

IsChar(line, c, n) ==
  /\ c < n
  /\ c = 0 \/ line[c + 1] \notin Cont
  /\ \A k \in (c + 2) .. n : line[k] \in Cont
  /\ n = Len(line) \/ line[n + 1] \notin Cont

Chars(line) ==
  {SubSeq(line, p[1] + 1, p[2]) :
     p \in {q \in (0 .. Len(line)) \X (0 .. Len(line)) : IsChar(line, q[1], q[2])}}

=============================================================================
