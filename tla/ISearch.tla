------------------------------- MODULE ISearch -------------------------------
(***************************************************************************)
(* Incremental search (isearch_* in src/src/input.c) on top of the editing  *)
(* commands.  While a search is active, text, Backspace, Enter, C-g, C-s    *)
(* and C-r belong to it; every other key ends the search where it stands    *)
(* and is then handled as usual.                                            *)
(***************************************************************************)
EXTENDS Editing

CONSTANTS Fold,       \* tolower, as a function on bytes
          QUERY_MAX   \* sizeof(isearch_query) - 1

ASSUME SearchConstants ==
  /\ Fold \in [Byte -> Byte]
  /\ QUERY_MAX \in Nat

VARIABLES isearch_active, isearch_forward, isearch_has_match,
          isearch_query,
          isearch_origin     \* isearch_origin_row, isearch_origin_col

searchVars == <<isearch_active, isearch_forward, isearch_has_match,
                isearch_query, isearch_origin>>
allVars == <<vars, searchVars>>

SearchInit ==
  /\ Init
  /\ isearch_active = FALSE
  /\ isearch_forward = TRUE
  /\ isearch_has_match = FALSE
  /\ isearch_query = << >>
  /\ isearch_origin = [row |-> 0, col |-> 0]

(* A search leaves the text and everything but the frame alone.              *)
SearchKey(key) ==
  /\ Plain(key)
  /\ Done(FALSE, FALSE)
  /\ UNCHANGED <<ringVars, lines, mark, yank, flagVars>>

-----------------------------------------------------------------------------
(* Where a query matches: line_search_forward and line_search_backward look  *)
(* for the first and the last of these columns in a range.                   *)

MatchesAt(query, r, c) ==
  /\ c + Len(query) <= Len(lines[r + 1])
  /\ \A i \in 1 .. Len(query) : Fold[lines[r + 1][c + i]] = Fold[query[i]]

MatchCols(query, r) ==
  {c \in 0 .. Len(lines[r + 1]) : MatchesAt(query, r, c)}

(* Variant: on its first row the search takes matches before the start.      *)
ColsFromRowStart(query, r, r0, c0) == MatchCols(query, r)

(* The columns that search_forward_from considers on row r.                  *)
ColsFrom(query, r, r0, c0) ==
  {c \in MatchCols(query, r) : r = r0 => c >= ClampCol(lines, r, c0)}

(* Those of search_backward_from: on its first row a match must end at or    *)
(* before the starting column.                                               *)
ColsUpTo(query, r, r0, c0) ==
  {c \in MatchCols(query, r) :
     r = r0 => c + Len(query) <= ClampCol(lines, r, c0)}

(* The frame goes to the nearest match, or stays when there is none.         *)
search_forward_from(query, r0, c0) ==
  LET rows == {r \in r0 .. (Len(lines) - 1) : ColsFrom(query, r, r0, c0) # {}}
  IN  IF rows = {} THEN isearch_has_match' = FALSE /\ UNCHANGED frameVars
      ELSE /\ isearch_has_match' = TRUE
           /\ row' = Min(rows)
           /\ col' = Min(ColsFrom(query, Min(rows), r0, c0))

search_backward_from(query, r0, c0) ==
  LET rows == {r \in 0 .. r0 : ColsUpTo(query, r, r0, c0) # {}}
  IN  IF rows = {} THEN isearch_has_match' = FALSE /\ UNCHANGED frameVars
      ELSE /\ isearch_has_match' = TRUE
           /\ row' = Max(rows)
           /\ col' = Max(ColsUpTo(query, Max(rows), r0, c0))

ToOrigin == row' = isearch_origin.row /\ col' = isearch_origin.col

(* Variant: a repeated search starts at the match itself.                    *)
FindFromMatch(query, forward, repeat) ==
  IF query = << >> THEN ToOrigin /\ isearch_has_match' = FALSE
  ELSE IF repeat /\ isearch_has_match
    THEN IF forward THEN search_forward_from(query, row, col)
                    ELSE search_backward_from(query, row, col)
    ELSE IF forward
      THEN search_forward_from(query, isearch_origin.row, isearch_origin.col)
      ELSE search_backward_from(query, isearch_origin.row, isearch_origin.col)

(* A repeated search starts one character past the current match, forward,   *)
(* or before it, backward; any other from where the search began.            *)
isearch_find(query, forward, repeat) ==
  IF query = << >> THEN ToOrigin /\ isearch_has_match' = FALSE
  ELSE IF repeat /\ isearch_has_match
    THEN IF forward
      THEN search_forward_from(query, row, utf8_next_boundary(CurLine, col))
      ELSE search_backward_from(query, row, utf8_prev_boundary(CurLine, col))
    ELSE IF forward
      THEN search_forward_from(query, isearch_origin.row, isearch_origin.col)
      ELSE search_backward_from(query, isearch_origin.row, isearch_origin.col)

-----------------------------------------------------------------------------

BeginWith(key, forward) ==
  /\ ~isearch_active
  /\ SearchKey(key)
  /\ isearch_active' = TRUE
  /\ isearch_forward' = forward
  /\ isearch_has_match' = FALSE
  /\ isearch_query' = << >>
  /\ isearch_origin' = [row |-> row, col |-> col]
  /\ UNCHANGED frameVars

isearch_begin == BeginWith("C-s", TRUE) \/ BeginWith("C-r", FALSE)

RepeatWith(key, forward) ==
  /\ isearch_active
  /\ SearchKey(key)
  /\ isearch_forward' = forward
  /\ isearch_find(isearch_query, forward, TRUE)
  /\ UNCHANGED <<isearch_active, isearch_query, isearch_origin>>

RepeatForward  == RepeatWith("C-s", TRUE)
RepeatBackward == RepeatWith("C-r", FALSE)

SetQuery(query) ==
  /\ isearch_query' = query
  /\ isearch_find(query, isearch_forward, FALSE)
  /\ UNCHANGED <<isearch_active, isearch_forward, isearch_origin>>

(* Variant: the bound is one too high.                                       *)
ExtendOnePast(ch) ==
  /\ isearch_active
  /\ SearchKey("char")
  /\ IF Len(isearch_query) <= QUERY_MAX
       THEN SetQuery(Append(isearch_query, ch))
       ELSE UNCHANGED <<searchVars, frameVars>>

(* A byte that does not fit is swallowed.                                    *)
ExtendQuery(ch) ==
  /\ isearch_active
  /\ SearchKey("char")
  /\ IF Len(isearch_query) < QUERY_MAX
       THEN SetQuery(Append(isearch_query, ch))
       ELSE UNCHANGED <<searchVars, frameVars>>

(* Variant: the search goes on from the match, not from the origin.          *)
BackspaceStays ==
  /\ isearch_active
  /\ SearchKey("Backspace")
  /\ IF isearch_query = << >> THEN UNCHANGED searchVars
     ELSE /\ isearch_query' = SubSeq(isearch_query, 1,
                                utf8_prev_boundary(isearch_query, Len(isearch_query)))
          /\ UNCHANGED <<isearch_active, isearch_forward, isearch_has_match,
                         isearch_origin>>
  /\ UNCHANGED frameVars

isearch_backspace ==
  /\ isearch_active
  /\ SearchKey("Backspace")
  /\ IF isearch_query = << >> THEN UNCHANGED <<searchVars, frameVars>>
     ELSE SetQuery(SubSeq(isearch_query, 1,
                     utf8_prev_boundary(isearch_query, Len(isearch_query))))

(* isearch_finish; without an active search there is nothing to reset.       *)
isearch_finish ==
  /\ isearch_active' = FALSE
  /\ isearch_has_match' = FALSE
  /\ isearch_query' = << >>
  /\ UNCHANGED <<isearch_forward, isearch_origin>>

Cancel ==
  /\ isearch_active
  /\ SearchKey("C-g")
  /\ ToOrigin
  /\ isearch_finish

Accept ==
  /\ isearch_active
  /\ SearchKey("Enter")
  /\ UNCHANGED frameVars
  /\ isearch_finish

(* Variant: a key that ends the search leaves it active.                     *)
OtherKeyKeepsSearch ==
  /\ ControlKey \/ (~isearch_active /\ TextKey)
  /\ UNCHANGED searchVars

OtherKey ==
  /\ ControlKey \/ (~isearch_active /\ TextKey)
  /\ isearch_finish

SearchNext ==
  \/ isearch_begin \/ RepeatForward \/ RepeatBackward
  \/ (\E ch \in KeyBytes : ExtendQuery(ch)) \/ isearch_backspace
  \/ Cancel \/ Accept
  \/ OtherKey

SearchSpec == SearchInit /\ [][SearchNext]_allVars

-----------------------------------------------------------------------------
(* Safety.                                                                   *)

(* The query fits isearch_query, and the place a search returns to is one of *)
(* rows and columns, on top of what Editing keeps.                           *)
SearchTypeOK ==
  /\ TypeOK
  /\ isearch_active \in BOOLEAN
  /\ isearch_forward \in BOOLEAN
  /\ isearch_has_match \in BOOLEAN
  /\ isearch_query \in Seq(Byte)
  /\ Len(isearch_query) <= QUERY_MAX
  /\ isearch_origin \in [row : Nat, col : Nat]

(* While a search is active the position it returns to exists, no escape     *)
(* sequence is in progress, and a kill or a yank before the search cannot be *)
(* continued after it.                                                       *)
SearchIsolated ==
  isearch_active =>
    /\ isearch_origin.row < Len(lines)
    /\ esc_state = "ESC_NONE"
    /\ ~last_was_kill /\ ~last_was_yank

(* isearch_has_match says that the cursor stands on a match of the query.    *)
MatchAtCursor ==
  isearch_has_match => isearch_query # << >> /\ MatchesAt(isearch_query, row, col)

Positions == UNION {{<<r, c>> : c \in 0 .. Len(lines[r + 1])} : r \in 0 .. (Len(lines) - 1)}

MatchPositions(query) == {p \in Positions : MatchesAt(query, p[1], p[2])}

PosBefore(p, q) == pos_compare(p[1], p[2], q[1], q[2]) < 0

Here   == <<row, col>>
Origin == <<isearch_origin.row, isearch_origin.col>>

(* After any change of the query, a forward search stands on the first match *)
(* at or after the position where it began, and fails only if there is none. *)
ForwardFindsFirst ==
  [][isearch_active /\ isearch_forward /\ isearch_query' # isearch_query
       /\ isearch_query' # << >> =>
       LET ahead == {p \in MatchPositions(isearch_query') : ~PosBefore(p, Origin)}
       IN  /\ isearch_has_match' = (ahead # {})
           /\ isearch_has_match' =>
                Here' \in ahead /\ \A p \in ahead : ~PosBefore(p, Here')]_allVars

(* C-s on a match goes to the next one, skipping none, and fails only on the *)
(* last one: repeated, it visits every match after the first.                *)
RepeatVisitsAll ==
  [][RepeatForward /\ isearch_has_match =>
       LET ahead == {p \in MatchPositions(isearch_query) : PosBefore(Here, p)}
       IN  /\ isearch_has_match' = (ahead # {})
           /\ isearch_has_match' =>
                Here' \in ahead /\ \A p \in ahead : ~PosBefore(p, Here')]_allVars

=============================================================================
