------------------------------ MODULE KillRing ------------------------------
(***************************************************************************)
(* The kill ring of src/src/input.c: at most KILL_RING_MAX killed texts in  *)
(* kill_ring[0 .. kill_ring_len - 1], here the sequence kill_ring whose     *)
(* length is kill_ring_len, and the index of the text a yank pastes.        *)
(*                                                                         *)
(* This component has no next-state relation of its own: its operations     *)
(* are called by the commands of module Editing.                            *)
(***************************************************************************)
EXTENDS Buffer

CONSTANT KILL_RING_MAX

ASSUME RingSize == KILL_RING_MAX \in Nat \ {0}

VARIABLES kill_ring, kill_ring_index

ringVars == <<kill_ring, kill_ring_index>>

RingInit == kill_ring = << >> /\ kill_ring_index = 0

RingTypeOK ==
  /\ kill_ring \in Seq(Text)
  /\ Len(kill_ring) <= KILL_RING_MAX
  /\ kill_ring_index \in Nat
  /\ kill_ring # << >> => kill_ring_index < Len(kill_ring)
  /\ kill_ring = << >> => kill_ring_index = 0

CurrentKill == kill_ring[kill_ring_index + 1]

(* Variant: with a full ring, the current slot is overwritten.               *)
PushOverCurrent(data) ==
  IF Len(kill_ring) < KILL_RING_MAX
    THEN /\ kill_ring' = Append(kill_ring, data)
         /\ kill_ring_index' = Len(kill_ring)
    ELSE /\ kill_ring' = [kill_ring EXCEPT ![kill_ring_index + 1] = data]
         /\ UNCHANGED kill_ring_index

(* A fresh kill takes the next free slot, or once every slot is used, the    *)
(* slot after the current one.                                               *)
PushKill(data) ==
  IF Len(kill_ring) < KILL_RING_MAX
    THEN /\ kill_ring' = Append(kill_ring, data)
         /\ kill_ring_index' = Len(kill_ring)
    ELSE /\ kill_ring_index' = (kill_ring_index + 1) % KILL_RING_MAX
         /\ kill_ring' = [kill_ring EXCEPT ![kill_ring_index' + 1] = data]

(* Variant: the text is put in front of the entry.                           *)
ExtendKillInFront(data) ==
  /\ kill_ring' = [kill_ring EXCEPT ![kill_ring_index + 1] = Join(data, @)]
  /\ UNCHANGED kill_ring_index

ExtendKill(data) ==
  /\ kill_ring' = [kill_ring EXCEPT ![kill_ring_index + 1] = Join(@, data)]
  /\ UNCHANGED kill_ring_index

editor_kill_set(data, append) ==
  IF data = EmptyText THEN UNCHANGED ringVars
  ELSE IF append /\ kill_ring # << >> THEN ExtendKill(data)
  ELSE PushKill(data)

(* The rotation of M-y: one slot back, from the first to the last.           *)
RotateKill ==
  /\ kill_ring_index' = IF kill_ring_index = 0 THEN Len(kill_ring) - 1
                                               ELSE kill_ring_index - 1
  /\ UNCHANGED kill_ring

=============================================================================
