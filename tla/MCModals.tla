------------------------------ MODULE MCModals ------------------------------
(***************************************************************************)
(* A bounded instance of Modals: the project /p with a nested one in /p/s.  *)
(***************************************************************************)
EXTENDS Modals

CONSTANTS ld, ct,       \* first and continuation byte of a two-byte character
          MaxBelow      \* bytes in the prompt while the finder is open

MCFold == [x \in Byte |-> IF x = "A" THEN "a" ELSE x]

MCCharacters == {<<"a">>, <<"/">>, <<" ">>, <<ld, ct>>}

p == <<"p">>
s == <<"s">>
a == <<"a">>
o == <<"o">>
A == <<"A">>
f == <<"f">>
AB == <<"a", "b">>
BB == <<"b", "b">>
DotGit == <<".", "g">>
DotIgnore == <<".", "i">>
Long == [i \in 1 .. 12 |-> IF i = 12 THEN "a" ELSE "b"]

MCDirs == {<< >>, <<p>>, <<p, s>>, <<p, a>>, <<p, o>>}
MCGitDirs == {<<p>>, <<p, s>>}
MCCwd == <<p>>

MCIgnoreLines ==
  (<< >> :> << >>)
  @@ (<<p>> :> << <<"*", "b", " ">>, <<"#", "a">>, << >>, <<"!", "a", "b">>,
                  <<"/", "f">>, <<"o", "/">> >>)
  @@ (<<p, s>> :> << <<"f">> >>)
  @@ (<<p, a>> :> << <<"A">> >>)
  @@ (<<p, o>> :> << >>)

(* Ignored are bb and f at the top, all of o, s/f and a/A.                   *)
MCInitFiles ==
  {<<p, DotIgnore>>, <<p, AB>>, <<p, BB>>, <<p, f>>, <<p, Long>>, <<p, o, A>>,
   <<p, s, DotIgnore>>, <<p, s, A>>, <<p, s, f>>,
   <<p, a, DotIgnore>>, <<p, a, A>>, <<p, a, f>>}

(* One file is removed or one is created, and three files are opened: of the *)
(* outer project, of the nested one, and one that a line of the prompt names.*)
InBounds ==
  /\ \/ present = MCInitFiles
     \/ present = MCInitFiles \ {<<p, AB>>}
     \/ present = MCInitFiles \cup {<<p, <<"a", "a">> >>}
  /\ file_path = NoFile \/ file_path.path \in {<<p, AB>>, <<p, s, A>>, <<p, <<"a", "a">> >>}
  /\ prompt_active => \/ Len(prompt.buf) <= MaxBelow
                      \/ query.buf = << >> /\ present = MCInitFiles
  /\ ~prompt_active => prompt.buf \in {<< >>, <<"a", "a">>}
  /\ Len(query.buf) > 1 => present = MCInitFiles

MCSpec == Init /\ [][Next /\ InBounds']_vars

=============================================================================
