----------------------------- MODULE MCSession -----------------------------
(***************************************************************************)
(* Session with keys of several bytes that arrive whole, as a terminal      *)
(* sends them, and a record of the one that is being sent.                  *)
(***************************************************************************)
EXTENDS Session, SequencesExt

VARIABLE sent   \* the bytes of such a key that have been handled

(* The bytes of an arrow key, and of one with modifiers, ESC [ 1 ; 5 A: "1"  *)
(* stands for each of its three parameter bytes.                             *)
Arrows == {<<"ESC", "[", "A">>, <<"ESC", "[", "1", "1", "1", "A">>}

(* M-p, which opens the finder, is the other key that begins with ESC.       *)
LongKeys == Arrows \cup {<<"ESC", "p">>}

Sent(byte) ==
  IF sent \notin LongKeys \cup {<< >>} THEN Append(sent, byte)
  ELSE IF byte = "ESC" THEN << byte >> ELSE << >>

KeysInit == Init /\ sent = << >>

KeysNext ==
  \/ (Start \/ EndOfBatch \/ Crash) /\ sent' = << >>
  \/ \E byte \in Keys :
       /\ \E key \in LongKeys : IsPrefix(Sent(byte), key)
       /\ editor_process_key(byte)
       /\ sent' = Sent(byte)

KeysSpec == KeysInit /\ [][KeysNext]_<<vars, sent>>

(* The step is a byte of an arrow key after its ESC.                         *)
ArrowByte ==
  Len(sent') > 1 /\ \E arrow \in Arrows : IsPrefix(sent', arrow)

(* README: "Arrow keys: move cursor (or navigate finder list)".  The finder  *)
(* ignores ESC and takes the rest of the sequence as its query.              *)
ArrowsNavigateFinder ==
  [][ArrowByte /\ finder_active => query_len' = query_len]_<<vars, sent>>

(* README: "Arrow keys: move cursor (or navigate finder list)".  esc_len is  *)
(* not reset when a sequence begins, so the parameters of several arrow keys *)
(* fill esc_buf, though those of one always fit; the rest of the key that    *)
(* finds it full is typed into the text.                                     *)
ArrowsTypeNothing ==
  [][ArrowByte /\ ~finder_active => text' = text]_<<vars, sent>>

=============================================================================
