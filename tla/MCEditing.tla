------------------------------ MODULE MCEditing ------------------------------
(***************************************************************************)
(* Bounded instances of Editing for TLC.                                    *)
(***************************************************************************)
EXTENDS Editing

CONSTANTS MaxLines,  \* lines in the buffer, and in an entry of the kill ring
          MaxLen,    \* bytes in a line, of the buffer or of an entry
          MaxCol,    \* the cursor's column
          a, b,      \* ASCII word bytes
          sp, tab,   \* white space
          pt,        \* punctuation
          ld, ct,    \* first and continuation byte of a two-byte character
          StartTexts \* which of the sets of initial texts is used

Fits(text) ==
  Len(text) <= MaxLines /\ \A i \in 1 .. Len(text) : Len(text[i]) <= MaxLen

InBounds ==
  /\ Fits(lines)
  /\ col <= MaxCol
  /\ \A i \in 1 .. Len(kill_ring) : Fits(kill_ring[i])

MCSpec == Init /\ [][Next /\ InBounds']_vars

(* The texts a file may hold at first, by the question a run asks.           *)
Texts ==
  CASE StartTexts = "kill"  -> {<< <<a, b>> >>, << <<a, sp>>, <<pt>> >>}
    [] StartTexts = "utf8"  -> {<< <<ld, ct, a>>, <<ld, ct>> >>,
                                << <<a, pt, a>> >>}
    [] StartTexts = "runs"  -> {<< <<a, b>>, << >>, <<sp, a>> >>}
    [] StartTexts = "place" -> {<< <<a, sp>>, <<pt, b>> >>, << <<a>>, <<b, pt>> >>}

=============================================================================
