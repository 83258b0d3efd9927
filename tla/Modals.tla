------------------------------- MODULE Modals -------------------------------
(***************************************************************************)
(* The save-as prompt of src/src/input.c, with the finder that M-p opens    *)
(* above it: who gets a byte, and what it does to the line in front.        *)
(*                                                                         *)
(* The terminal sends the bytes of a character one after the other; typing  *)
(* holds those that are still to come.  Keys that belong to neither prompt  *)
(* nor finder are the business of Editing, ISearch and Session.             *)
(***************************************************************************)
EXTENDS Finder

CONSTANTS Characters,   \* the characters the user types, each its bytes
          InitFiles     \* the files on disk when the editor starts

ASSUME ModalsConstants ==
  /\ Characters \subseteq Seq(Byte) \ {<< >>}
  /\ \A c \in Characters :
       /\ c[1] \notin Cont
       /\ \A i \in 2 .. Len(c) : c[i] \in Cont
  /\ InitFiles \subseteq Files /\ IsFiniteSet(InitFiles)

VARIABLES prompt_active,
          prompt,          \* prompt_buf, prompt_len and prompt_col
          meta,            \* esc_state = ESC_SEEN
          typing

promptVars == <<prompt_active, prompt>>
vars == <<finderVars, screen_rows, file_path, present, promptVars, meta, typing>>

Init ==
  /\ FinderInit
  /\ present = InitFiles
  /\ file_path = NoFile
  /\ prompt_active = FALSE
  /\ prompt = EmptyInput
  /\ meta = FALSE
  /\ typing = << >>

-----------------------------------------------------------------------------
(* Keys of the prompt.                                                       *)

(* The files a typed name can stand for, there or new: it spells a path from *)
(* the root or from the editor's directory, whose last name is its end.      *)
Named(buf) ==
  {path \in {Append(dir, SubSeq(buf, k, Len(buf))) : dir \in Dirs, k \in DOMAIN buf} :
     /\ path \notin Dirs
     /\ Last(path) \in Name
     /\ IF BeginsWith(buf, Slash) THEN <<Slash>> \o Spell(path) = buf
        ELSE /\ IsPrefix(Cwd, path)
             /\ Spell(SubSeq(path, Len(Cwd) + 1, Len(path))) = buf}

(* Enter in the prompt: an empty name or a write that fails leaves all as it *)
(* is.  The buffer's file is named as it was typed.                          *)
PromptEnter ==
  /\ prompt_active' = FALSE
  /\ prompt' = [prompt EXCEPT !.col = 0]
  /\ \/ /\ prompt.buf # << >>
        /\ \E path \in Named(prompt.buf) :
             /\ present' = present \cup {path}
             /\ file_path' = [path |-> path,
                              absolute |-> BeginsWith(prompt.buf, Slash)]
     \/ UNCHANGED <<present, file_path>>

(* The prompt after one of its keys.                                         *)
PromptLine(key) ==
  CASE key = "C-a" -> move_start(prompt)
    [] key = "C-e" -> move_end(prompt)
    [] key = "C-b" -> move_prev_char(prompt)
    [] key = "C-f" -> move_next_char(prompt)
    [] key = "C-d" -> delete_forward(prompt)
    [] key = "C-w" -> delete_prev_word(prompt)
    [] key = "C-k" -> kill_to_end(prompt)
    [] key \in {"Backspace", "C-h"} -> delete_backward(prompt)
    [] key \in Byte -> insert(prompt, key)
    [] OTHER -> prompt

(* The prompt after ESC and key; the first byte of any character is taken.   *)
MetaLine(key) ==
  CASE key = "a" -> move_start(prompt)
    [] key = "e" -> move_end(prompt)
    [] key = "b" -> move_prev_word(prompt)
    [] key = "f" -> move_next_word(prompt)
    [] key = "d" -> delete_next_word(prompt)
    [] key = "Backspace" -> delete_prev_word(prompt)
    [] OTHER -> prompt

-----------------------------------------------------------------------------
(* editor_process_key, in its order: the key after ESC, the finder, ESC,     *)
(* C-g, the prompt.                                                          *)

Escape ==
  /\ ~meta /\ ~finder_active
  /\ meta' = TRUE
  /\ UNCHANGED <<finderVars, screen_rows, file_path, present, promptVars>>

(* M-p, with or without a prompt.                                            *)
MetaP ==
  /\ meta /\ meta' = FALSE
  /\ finder_open
  /\ UNCHANGED <<screen_rows, file_path, present, promptVars>>

MetaKey(key) ==
  /\ meta /\ meta' = FALSE
  /\ key # "p" /\ prompt_active
  /\ prompt' = MetaLine(key)
  /\ UNCHANGED <<finderVars, screen_rows, file_path, present, prompt_active>>

(* Without a prompt another key after ESC is a command of Editing, or none.  *)
MetaElsewhere ==
  /\ meta /\ ~prompt_active
  /\ meta' = FALSE
  /\ UNCHANGED <<finderVars, screen_rows, file_path, present, promptVars>>

FinderKey(key) ==
  /\ ~meta /\ finder_active
  /\ finder_handle_key(key)
  /\ UNCHANGED <<screen_rows, present, promptVars, meta>>

(* Variant: the finder's keys also reach the prompt below it.                *)
PromptKeyAlways(key) ==
  /\ ~meta /\ prompt_active
  /\ IF key = "Enter" THEN PromptEnter
     ELSE /\ IF key = "C-g" THEN prompt_active' = FALSE /\ prompt' = EmptyInput
             ELSE prompt' = PromptLine(key) /\ UNCHANGED prompt_active
          /\ UNCHANGED <<present, file_path>>
  /\ UNCHANGED <<finderVars, screen_rows, meta>>

PromptKey(key) ==
  /\ ~meta /\ ~finder_active /\ prompt_active
  /\ IF key = "Enter" THEN PromptEnter
     ELSE /\ IF key = "C-g" THEN prompt_active' = FALSE /\ prompt' = EmptyInput
             ELSE prompt' = PromptLine(key) /\ UNCHANGED prompt_active
          /\ UNCHANGED <<present, file_path>>
  /\ UNCHANGED <<finderVars, screen_rows, meta>>

(* C-x C-s: the prompt opens empty if no file is associated; otherwise the   *)
(* file is written, or cannot be.                                            *)
Save ==
  /\ ~meta /\ ~finder_active /\ ~prompt_active
  /\ IF file_path = NoFile
       THEN prompt_active' = TRUE /\ prompt' = EmptyInput /\ UNCHANGED present
       ELSE /\ \/ present' = present \cup {file_path.path}
               \/ UNCHANGED present
            /\ UNCHANGED promptVars
  /\ UNCHANGED <<finderVars, screen_rows, file_path, meta>>

-----------------------------------------------------------------------------

(* A key of one byte, or the first byte of a character; the rest follows.    *)
PressKey(key) == MetaKey(key) \/ FinderKey(key) \/ PromptKey(key)

Controls == {"C-g", "Enter", "Backspace", "C-h", "C-p", "C-n", "C-a", "C-e",
             "C-b", "C-f", "C-d", "C-w", "C-k"}
MetaLetters == {"a", "e", "b", "f", "d"}

ASSUME ControlsAreNoText == Controls \cap Byte = {}

Press ==
  /\ typing = << >>
  /\ \/ \E key \in Controls \cup (IF meta THEN MetaLetters ELSE {}) :
          PressKey(key) /\ UNCHANGED typing
     \/ \E c \in Characters : PressKey(c[1]) /\ typing' = Tail(c)
     \/ (Escape \/ MetaP \/ MetaElsewhere \/ Save) /\ UNCHANGED typing

RestOfCharacter ==
  /\ typing # << >>
  /\ PressKey(typing[1])
  /\ typing' = Tail(typing)

(* The window's size is read after each batch of keys; the finder is not     *)
(* told.                                                                     *)
Resize ==
  /\ screen_rows' \in ScreenRows
  /\ UNCHANGED <<finderVars, file_path, present, promptVars, meta, typing>>

(* Another program removes a file.                                           *)
FileRemoved ==
  /\ \E path \in present : present' = present \ {path}
  /\ UNCHANGED <<finderVars, screen_rows, file_path, promptVars, meta, typing>>

Next == Press \/ RestOfCharacter \/ Resize \/ FileRemoved

Spec == Init /\ [][Next]_vars

-----------------------------------------------------------------------------
(* Properties.                                                               *)

(* Neither line outgrows its buffer, its cursor stands in it, and selection  *)
(* and scroll are those of the list of matches.                              *)
TypeOK ==
  /\ FinderTypeOK
  /\ present \subseteq Files /\ IsFiniteSet(present)
  /\ file_path = NoFile \/ file_path.path \in Files
  /\ prompt_active \in BOOLEAN
  /\ prompt \in InputLine
  /\ meta \in BOOLEAN
  /\ typing = << >> \/ finder_active \/ prompt_active

(* The query's cursor never stands inside a character, nor behind the line,  *)
(* while no character is half typed: a full line drops the end of one, and   *)
(* deletions take whole characters.  (The prompt's can: ESC eats the first   *)
(* byte of the character that follows it, and the others are inserted.)      *)
QueryOnBoundary ==
  finder_active /\ typing = << >> =>
    \/ query.col = Len(query.buf)
    \/ query.buf[query.col + 1] \notin Cont

(* A key edits one line, the finder's if it is open, and on one side of the  *)
(* cursor only: what follows an insertion, Backspace or M-Backspace and what *)
(* precedes C-d, C-k or M-d is as it was, and a motion changes no byte.      *)
Local(before, after) ==
  \/ /\ SubSeq(after.buf, 1, after.col) = SubSeq(before.buf, 1, before.col)
     /\ IsSuffix(SubSeq(after.buf, after.col + 1, Len(after.buf)),
                 SubSeq(before.buf, before.col + 1, Len(before.buf)))
  \/ /\ SubSeq(after.buf, after.col + 1, Len(after.buf))
          = SubSeq(before.buf, before.col + 1, Len(before.buf))
     /\ \/ IsPrefix(SubSeq(after.buf, 1, after.col),
                    SubSeq(before.buf, 1, before.col))
        \/ IsPrefix(SubSeq(before.buf, 1, before.col),
                    SubSeq(after.buf, 1, after.col))
  \/ after.buf = before.buf

EditIsLocal ==
  [][/\ finder_active => /\ prompt' = prompt
                         /\ finder_active' => Local(query, query')
     /\ ~finder_active /\ prompt_active /\ prompt_active' =>
          Local(prompt, prompt')
     /\ prompt' # prompt => ~finder_active]_vars

=============================================================================
