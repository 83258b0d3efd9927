------------------------------ MODULE MCISearch ------------------------------
(***************************************************************************)
(* Bounded instances of ISearch for TLC.                                    *)
(***************************************************************************)
EXTENDS ISearch, MCEditing

CONSTANT A   \* the upper case of a

(* tolower on the bytes of the model.                                        *)
Lower == [x \in Byte |-> IF x = A THEN a ELSE x]

SearchTexts == {<< <<b, A>>, <<a, a>> >>, << <<a, a>> >>}

MCSearchSpec == SearchInit /\ [][SearchNext /\ InBounds']_allVars

=============================================================================
