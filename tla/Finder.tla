------------------------------- MODULE Finder -------------------------------
(***************************************************************************)
(* The fuzzy file finder of src/src/finder.c: the query, the list of the    *)
(* project's files, those that match it, and the part of them on screen.    *)
(***************************************************************************)
EXTENDS LineInput, Project

CONSTANTS Fold,              \* tolower, as a function on bytes
          WordBreaks,        \* the bytes after which a word of a path begins
          MIN_ROWS, FINDER_MAX_ROWS,   \* 3 and 8
          SCREEN_MARGIN,     \* 4: rows of the screen the list leaves free
          ScreenRows,        \* the heights of the window
          Cwd,               \* where the editor was started
          NoFile             \* no file is associated with the buffer

ASSUME FinderConstants ==
  /\ Fold \in [Byte -> Byte]
  /\ WordBreaks \subseteq Byte
  /\ \A x \in WordBreaks : \A y \in Byte : Fold[x] = Fold[y] => x = y
  /\ MIN_ROWS \in Nat \ {0} /\ FINDER_MAX_ROWS \in Nat
  /\ MIN_ROWS <= FINDER_MAX_ROWS
  /\ SCREEN_MARGIN \in Nat
  /\ ScreenRows \subseteq Nat \ {0}
  /\ Cwd \in Dirs

VARIABLES finder_active,
          query,               \* finder.query, query_len and query_col
          project_root,        \* << >> before the first opening, else <<root>>
          files,               \* the paths of the last scan
          matches,             \* indices of files, best first
          selection, scroll,   \* counted from 0, into matches
          screen_rows,
          file_path,           \* of the buffer: NoFile or a path and its form
          present              \* the files on disk

listVars   == <<matches, selection, scroll>>
finderVars == <<finder_active, query, project_root, files, listVars>>

FinderInit ==
  /\ finder_active = FALSE
  /\ query = EmptyInput
  /\ project_root = << >>
  /\ files = << >>
  /\ matches = << >>
  /\ selection = 0 /\ scroll = 0
  /\ screen_rows \in ScreenRows

-----------------------------------------------------------------------------
(* Scores.                                                                   *)

(* The bonus of the byte of text at position t that continues a match which  *)
(* has seen streak bytes in a row.                                           *)
Bonus(text, t, streak) ==
  10 + (IF streak > 0 THEN 6 ELSE 0)
     + (IF t = 1 \/ text[t - 1] \in WordBreaks THEN 4 ELSE 0)

(* The loop of fuzzy_score, after each byte of text: each byte of the pattern *)
(* takes the first one of the text that is left.                             *)
match_run(pattern, text) ==
  LET run[t \in 0 .. Len(text)] ==
        IF t = 0 THEN [p |-> 0, streak |-> 0, score |-> 0]
        ELSE LET r == run[t - 1]
             IN  IF r.p = Len(pattern) THEN r
                 ELSE IF Fold[pattern[r.p + 1]] = Fold[text[t]]
                   THEN [p |-> r.p + 1, streak |-> r.streak + 1,
                         score |-> r.score + Bonus(text, t, r.streak)]
                   ELSE [r EXCEPT !.streak = 0]
  IN  run

(* Variant: long paths cost nothing.                                         *)
ScoreAnyLength(pattern, text) ==
  LET end == match_run(pattern, text)[Len(text)]
  IN  IF pattern = << >> THEN 0
      ELSE IF end.p < Len(pattern) THEN -1 ELSE end.score

fuzzy_score(pattern, text) ==
  LET end == match_run(pattern, text)[Len(text)]
  IN  IF pattern = << >> THEN 0
      ELSE IF end.p < Len(pattern) THEN -1
      ELSE end.score - (Len(text) - Len(pattern))

(* The files of a score of at least 0, by score, and then in their order:    *)
(* before each of them come those that match_compare puts there.             *)
MatchesOf(pattern, list) ==
  LET score  == [i \in DOMAIN list |-> fuzzy_score(pattern, Spell(list[i]))]
      listed == {i \in DOMAIN list : score[i] >= 0}
      match_compare(i, j) ==
        score[i] > score[j] \/ (score[i] = score[j] /\ i < j)
  IN  [m \in 1 .. Cardinality(listed) |->
         CHOOSE i \in listed :
           Cardinality({j \in listed : match_compare(j, i)}) = m - 1]

finder_update_matches(pattern, list) ==
  /\ matches' = MatchesOf(pattern, list)
  /\ selection' = 0
  /\ scroll' = 0

-----------------------------------------------------------------------------
(* The list on screen.                                                       *)

finder_list_rows ==
  LET rows == screen_rows - SCREEN_MARGIN
  IN  IF rows < MIN_ROWS THEN MIN_ROWS
      ELSE IF rows > FINDER_MAX_ROWS THEN FINDER_MAX_ROWS ELSE rows

(* Variant: the last row is one lower than it is.                            *)
AdjustScrollLate(sel) ==
  scroll' = IF sel < scroll THEN sel
            ELSE IF sel > scroll + finder_list_rows THEN sel - finder_list_rows
            ELSE scroll

finder_adjust_scroll(sel) ==
  scroll' = IF sel < scroll THEN sel
            ELSE IF sel >= scroll + finder_list_rows
              THEN sel - finder_list_rows + 1
            ELSE scroll

finder_move_selection(delta) ==
  IF matches = << >> THEN UNCHANGED listVars
  ELSE LET sel == Max({0, Min({selection + delta, Len(matches) - 1})})
       IN  /\ selection' = sel
           /\ finder_adjust_scroll(sel)
           /\ UNCHANGED matches

SelectionVisible ==
  matches # << >> =>
    /\ selection \in 0 .. (Len(matches) - 1)
    /\ scroll <= selection /\ selection < scroll + finder_list_rows

-----------------------------------------------------------------------------
(* Opening and closing.                                                      *)

(* A path that is not absolute stays so when the file is opened: the finder  *)
(* then starts from the directory of the editor, not from that of the file.  *)
StartDir ==
  IF file_path # NoFile /\ file_path.absolute THEN Front(file_path.path) ELSE Cwd

(* The files are scanned again only for another root, or if there are none.  *)
OpenInProject ==
  LET root == find_project_root(StartDir)
      list == IF project_root = <<root>> /\ files # << >>
                THEN files ELSE scan_project(root, present)
  IN  /\ project_root' = <<root>>
      /\ files' = list
      /\ finder_active' = TRUE
      /\ query' = EmptyInput
      /\ finder_update_matches(<< >>, list)

finder_open ==
  IF HasProjectRoot(StartDir) THEN OpenInProject ELSE UNCHANGED finderVars

(* access and fopen may fail: the buffer then keeps its file.                *)
finder_open_file ==
  IF matches = << >> THEN UNCHANGED file_path
  ELSE LET path == project_root[1] \o files[matches[selection + 1]]
       IN  \/ path \in present /\ file_path' = [path |-> path, absolute |-> TRUE]
           \/ UNCHANGED file_path

-----------------------------------------------------------------------------
(* Keys.  Those that are not here do nothing while the finder is open.       *)

FinderClose(key) ==
  /\ key \in {"C-g", "Enter"}
  /\ finder_active' = FALSE
  /\ IF key = "Enter" THEN finder_open_file ELSE UNCHANGED file_path
  /\ UNCHANGED <<query, project_root, files, listVars>>

FinderSelect(key) ==
  /\ key \in {"C-p", "C-n"}
  /\ finder_move_selection(IF key = "C-p" THEN -1 ELSE 1)
  /\ UNCHANGED <<finder_active, query, project_root, files, file_path>>

QueryMove(key) ==
  /\ key \in {"C-a", "C-e", "C-b", "C-f"}
  /\ query' = CASE key = "C-a" -> move_start(query)
                [] key = "C-e" -> move_end(query)
                [] key = "C-b" -> move_prev_char(query)
                [] key = "C-f" -> move_next_char(query)
  /\ UNCHANGED <<finder_active, project_root, files, listVars, file_path>>

(* The query after an editing key or a text byte.                            *)
EditedQuery(key) ==
  CASE key \in {"Backspace", "C-h"} -> delete_backward(query)
    [] key = "C-d" -> delete_forward(query)
    [] key = "C-w" -> delete_prev_word(query)
    [] key = "C-k" -> kill_to_end(query)
    [] OTHER -> insert(query, key)

(* Variant: deleting does not bring the matches up to date.                  *)
QueryEditStale(key) ==
  /\ key \in {"Backspace", "C-h", "C-d", "C-w", "C-k"} \cup Byte
  /\ query' = EditedQuery(key)
  /\ IF Len(query'.buf) <= Len(query.buf) THEN UNCHANGED listVars
     ELSE finder_update_matches(query'.buf, files)
  /\ UNCHANGED <<finder_active, project_root, files, file_path>>

(* Where there is nothing to delete or no room, the list stays as it is.     *)
QueryEdit(key) ==
  /\ key \in {"Backspace", "C-h", "C-d", "C-w", "C-k"} \cup Byte
  /\ query' = EditedQuery(key)
  /\ IF query'.buf = query.buf THEN UNCHANGED listVars
     ELSE finder_update_matches(query'.buf, files)
  /\ UNCHANGED <<finder_active, project_root, files, file_path>>

finder_handle_key(key) ==
  FinderClose(key) \/ FinderSelect(key) \/ QueryMove(key) \/ QueryEdit(key)

-----------------------------------------------------------------------------
(* Properties.                                                               *)

FinderTypeOK ==
  /\ finder_active \in BOOLEAN
  /\ query \in InputLine
  /\ files \in Seq(Path)
  /\ project_root \in Seq(GitDirs) /\ Len(project_root) <= 1
  /\ matches \in Seq(DOMAIN files)
  /\ selection \in Nat /\ scroll \in 0 .. selection
  /\ matches = << >> \/ selection < Len(matches)
  /\ screen_rows \in ScreenRows

(* text holds the bytes of pattern in order, ignoring case.                  *)
Subsequence(pattern, text) ==
  \E at \in [1 .. Len(pattern) -> 1 .. Len(text)] :
    \A i \in 1 .. Len(pattern) :
      /\ Fold[pattern[i]] = Fold[text[at[i]]]
      /\ i > 1 => at[i - 1] < at[i]

(* finder_update_matches, after any edit of the query: what is listed holds  *)
(* the query's bytes in order, is listed once, and what holds them is listed *)
(* unless it is more than eleven times as long as the query, which is when   *)
(* its score can be negative.                                                *)
MatchesRight ==
  finder_active =>
    /\ \A i, j \in DOMAIN matches : matches[i] = matches[j] => i = j
    /\ \A i \in DOMAIN files :
         LET text == Spell(files[i])
             listed == \E m \in DOMAIN matches : matches[m] = i
         IN  /\ listed => Subsequence(query.buf, text)
             /\ /\ Subsequence(query.buf, text)
                /\ \/ query.buf = << >>
                   \/ Len(text) <= 11 * Len(query.buf)
                => listed

Begins(pattern, text) ==
  /\ Len(pattern) <= Len(text)
  /\ \A i \in DOMAIN pattern : Fold[pattern[i]] = Fold[text[i]]

(* fuzzy_score and match_compare: a path that begins with the query comes    *)
(* before every longer one, whatever words begin in it.                      *)
PrefixFirst ==
  finder_active /\ query.buf # << >> =>
    \A i, j \in DOMAIN matches :
      LET one == Spell(files[matches[i]])
          other == Spell(files[matches[j]])
      IN  Begins(query.buf, one) /\ Len(one) < Len(other) => i < j

(* What git would not ignore: neither the file nor a directory that holds it *)
(* is git's own, or ignored by a rule of a directory above.                  *)
Offered(root, rel) ==
  \A n \in 1 .. Len(rel) :
    LET upto  == SubSeq(rel, 1, n)
        rules == FlattenSeq([k \in 1 .. n |->
                   load_gitignore(root, SubSeq(rel, 1, k - 1), present)])
    IN  rel[n] # Git /\ ~is_ignored(rules, upto, root \o upto \in Dirs)

(* A scan lists each file of the project once, but for the ignored ones: the *)
(* rules of a directory do not reach its siblings (scan_project_dir).        *)
ListingRight ==
  [][files' # files \/ (finder_active' /\ project_root' # project_root) =>
       LET root == project_root'[1]
       IN  /\ Range(files') =
                {rel \in {SubSeq(path, Len(root) + 1, Len(path)) :
                            path \in {p \in present : IsPrefix(root, p)}} :
                   Offered(root, rel)}
           /\ IsInjective(files')]_<<finder_active, files, project_root, present>>

(* After a key that moves the selection, edits the query or opens the finder *)
(* the selected row is one of those drawn (finder_adjust_scroll).            *)
SelectionShown ==
  [][selection' # selection \/ query'.buf # query.buf
     \/ (finder_active' /\ ~finder_active)
       => SelectionVisible']_<<finder_active, query, selection, scroll>>

=============================================================================
