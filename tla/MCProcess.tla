------------------------------ MODULE MCProcess ------------------------------
(***************************************************************************)
(* A bounded instance of Process.                                           *)
(***************************************************************************)
EXTENDS Process

CONSTANTS a, cr, lf

(* No file, an empty one, no last newline, CR LF, and bytes cut at a NUL,    *)
(* once behind a carriage return.                                            *)
MCFiles == {Absent, << >>, <<a>>, <<a, cr, lf, cr, lf>>, <<a, NUL, a, lf, lf>>,
            <<a, cr, NUL, lf>>}

(* An empty last line, a carriage return at the end of a line and in one.    *)
MCTexts == {<< <<a>>, << >> >>, << <<a, cr>>, <<cr, a>> >>, << << >> >>}

=============================================================================
