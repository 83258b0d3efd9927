----------------------------- MODULE SavePromise -----------------------------
(***************************************************************************)
(* What ved promises about the file of the text it edits, over any number   *)
(* of processes one after the other: opening reads it, a save replaces it   *)
(* as a whole, and a save that fails, or a process that ends, leaves the    *)
(* file as it was or with the beginning of the text, and nothing else.      *)
(***************************************************************************)
EXTENDS Storage

VARIABLES up,      \* a process has opened the file
          lines, dirty, file

vars == <<up, lines, dirty, file>>

CutShort == {file} \cup Prefixes(FileBytes(lines))

Start ==
  /\ up = FALSE
  /\ dirty = FALSE
  /\ lines = << << >> >>

Open ==
  /\ ~up /\ up' = TRUE
  /\ lines' = buffer_load_file(file)
  /\ dirty' = FALSE
  /\ UNCHANGED file

Edit ==
  /\ up
  /\ lines' \in Seq(Seq(Byte)) \ {<< >>}
  /\ dirty' = TRUE
  /\ UNCHANGED <<up, file>>

Save ==
  /\ up
  /\ file' = FileBytes(lines)
  /\ dirty' = FALSE
  /\ UNCHANGED <<up, lines>>

SaveFails ==
  /\ up
  /\ file' \in CutShort
  /\ UNCHANGED <<up, lines, dirty>>

End ==
  /\ up /\ up' = FALSE
  /\ file' \in CutShort
  /\ UNCHANGED <<lines, dirty>>

Next == Open \/ Edit \/ Save \/ SaveFails \/ End

Promise == Start /\ [][Next]_vars

=============================================================================
