------------------------------ MODULE MCYankPop ------------------------------
(***************************************************************************)
(* Editing with a record of the last keys, to say what M-y does when it is  *)
(* pressed right after C-y.                                                 *)
(***************************************************************************)
EXTENDS MCEditing

VARIABLE pressed   \* "C-y", "C-y ESC" or "other": what the last keys were

RotateInit == Init /\ pressed = "other"

RotateNext ==
  /\ Next /\ InBounds'
  /\ pressed' = CASE editor_yank -> "C-y"
                  [] Escape /\ pressed = "C-y" -> "C-y ESC"
                  [] OTHER -> "other"

RotateSpec == RotateInit /\ [][RotateNext]_<<vars, pressed>>

(* README: "M-y: rotate kill ring after C-y".  The ESC that begins M-y       *)
(* clears last_was_yank, so y finds nothing to do.                           *)
RotatesAfterYank ==
  [][pressed = "C-y ESC" /\ YankPop /\ Len(kill_ring) > 1
       => kill_ring_index' # kill_ring_index]_<<vars, pressed>>

=============================================================================
