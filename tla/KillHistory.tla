---------------------------- MODULE KillHistory -----------------------------
(***************************************************************************)
(* What the kill ring promises its user, abstractly: the last Kept kills,    *)
(* newest first.  A kill is either recorded as a new first entry, the       *)
(* oldest being forgotten when Kept are kept, or it continues the first      *)
(* entry.  No other entry ever changes, and a yank pastes the first one.    *)
(***************************************************************************)
EXTENDS Integers, Sequences

CONSTANT Kept

VARIABLE kills

(* Text s continues text t: t's lines, the last one possibly longer, then    *)
(* possibly more lines.                                                      *)
Continues(s, t) ==
  /\ Len(s) >= Len(t)
  /\ \A i \in 1 .. (Len(t) - 1) : s[i] = t[i]
  /\ Len(s[Len(t)]) >= Len(t[Len(t)])
  /\ SubSeq(s[Len(t)], 1, Len(t[Len(t)])) = t[Len(t)]

Init == kills = << >>

Record ==
  /\ Len(kills') = IF Len(kills) < Kept THEN Len(kills) + 1 ELSE Kept
  /\ \A i \in 2 .. Len(kills') : kills'[i] = kills[i - 1]

Continue ==
  /\ kills # << >>
  /\ Len(kills') = Len(kills)
  /\ \A i \in 2 .. Len(kills) : kills'[i] = kills[i]
  /\ Continues(kills'[1], kills[1])

Next == Record \/ Continue

Spec == Init /\ [][Next]_kills

=============================================================================
