------------------------------- MODULE Storage -------------------------------
(***************************************************************************)
(* The bytes of a file: what buffer_load_file makes of them and what        *)
(* buffer_write_file writes (src/src/buffer.c).  A file is a sequence of    *)
(* bytes, newlines and NULs; the lines of a text hold neither of the last   *)
(* two.                                                                     *)
(***************************************************************************)
EXTENDS Utf8, SequencesExt

CONSTANTS CR, LF,   \* carriage return and newline
          Absent    \* there is no such file

ASSUME StorageConstants ==
  /\ CR \in Byte
  /\ LF \notin Byte \cup {NUL}
  /\ Absent \notin Seq(Byte \cup {LF, NUL})

Bytes == Seq(Byte \cup {LF, NUL})

(* The places of a file behind which a line begins, and the end of its k-th  *)
(* line: the next newline, or the end of the file.                           *)
Newlines(file) == {i \in DOMAIN file : file[i] = LF}

LineEnds(file) ==
  LET end[k \in 0 .. Len(file)] ==
        IF k = 0 THEN 0
        ELSE Min({Len(file)} \cup {i \in Newlines(file) : i > end[k - 1]})
  IN  end

(* The lines that getline returns: each but the last ends with its newline.  *)
getline(file) ==
  [k \in 1 .. Cardinality(Newlines(file) \cup {Len(file)}) |->
     SubSeq(file, LineEnds(file)[k - 1] + 1, LineEnds(file)[k])]

(* The loop that removes newlines and carriage returns from the end.         *)
StripEnd(s) ==
  SubSeq(s, 1, Max({0} \cup {i \in DOMAIN s : s[i] \notin {LF, CR}}))

(* strdup: the bytes before the first NUL.                                   *)
strdup(s) == SubSeq(s, 1, Min({Len(s)} \cup {i - 1 : i \in {j \in DOMAIN s : s[j] = NUL}}))

(* Variant: the last newline begins one more line.                           *)
LoadWithLastLine(file) ==
  IF file \in {Absent, << >>} THEN << << >> >>
  ELSE LET got == getline(file)
       IN  [k \in DOMAIN got |-> strdup(StripEnd(got[k]))]
             \o (IF file[Len(file)] = LF THEN << << >> >> ELSE << >>)

(* The text that reading a file gives.  A file that cannot be opened leaves  *)
(* the empty text of a new buffer.                                           *)
buffer_load_file(file) ==
  IF file \in {Absent, << >>} THEN << << >> >>
  ELSE LET got == getline(file)
       IN  [k \in DOMAIN got |-> strdup(StripEnd(got[k]))]

(* What buffer_write_file writes when nothing fails.                         *)
FileBytes(lines) == FlattenSeq([k \in DOMAIN lines |-> Append(lines[k], LF)])

(* The end of the write call that begins after the first sent bytes: the     *)
(* newlines are written on their own.                                        *)
WriteEnd(bytes, sent) ==
  IF bytes[sent + 1] = LF THEN sent + 1
  ELSE Min({Len(bytes)} \cup {i - 1 : i \in {j \in (sent + 1) .. Len(bytes) :
                                               bytes[j] = LF}})

=============================================================================
