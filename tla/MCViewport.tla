----------------------------- MODULE MCViewport -----------------------------
(***************************************************************************)
(* A bounded instance of Viewport.                                          *)
(***************************************************************************)
EXTENDS Viewport, MCEditing

ViewTexts == {<< <<a, tab, a>>, <<ld, ct>>, << >> >>, << <<a>> >>}

Screens == {[rows |-> 1, cols |-> 2], [rows |-> 3, cols |-> 2]}

MCViewSpec == ViewInit /\ [][ViewNext /\ InBounds']_allVars

=============================================================================
