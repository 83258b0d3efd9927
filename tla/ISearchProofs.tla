--------------------------- MODULE ISearchProofs ----------------------------
(***************************************************************************)
(* A search never leaves the text, is never continued by an editing key,    *)
(* and stands on a match whenever it says so, for every text and query.     *)
(***************************************************************************)
EXTENDS ISearch, EditingProofs

SearchVarsType ==
  /\ isearch_active \in BOOLEAN
  /\ isearch_forward \in BOOLEAN
  /\ isearch_has_match \in BOOLEAN
  /\ isearch_query \in Seq(Byte)
  /\ Len(isearch_query) <= QUERY_MAX
  /\ isearch_origin \in [row : Nat, col : Nat]

SearchInv == IInv /\ SearchVarsType /\ SearchIsolated /\ MatchAtCursor

LEMMA SearchText ==
  ASSUME IInv
  PROVE  /\ Len(lines) \in Nat \ {0}
         /\ row \in 0 .. (Len(lines) - 1) /\ col \in Nat
         /\ \A r \in 0 .. (Len(lines) - 1) :
              lines[r + 1] \in Line /\ Len(lines[r + 1]) \in Nat
<1>1. lines \in Text /\ row \in 0 .. (Len(lines) - 1) /\ col \in Nat
  BY DEF IInv, TypeOK
<1>2. Len(lines) \in Nat \ {0} /\ \A i \in 1 .. Len(lines) : lines[i] \in Line
  BY <1>1, TextLines
<1>3. ASSUME NEW r \in 0 .. (Len(lines) - 1)
      PROVE  lines[r + 1] \in Line /\ Len(lines[r + 1]) \in Nat
  <2>1. lines[r + 1] \in Line
    BY <1>2
  <2> QED BY <2>1 DEF Line
<1> QED BY <1>1, <1>2, <1>3

-----------------------------------------------------------------------------
(* What looking for a query does to the frame.                               *)

(* The frame is in the text, on a match if there is said to be one.          *)
Landed(query) ==
  /\ row' \in 0 .. (Len(lines) - 1) /\ col' \in Nat
  /\ isearch_has_match' \in BOOLEAN
  /\ isearch_has_match' => query # << >> /\ MatchesAt(query, row', col')

LEMMA ForwardLands ==
  ASSUME IInv, NEW query, query # << >>, NEW r0 \in Nat, NEW c0,
         search_forward_from(query, r0, c0)
  PROVE  Landed(query)
<1> DEFINE rows == {r \in r0 .. (Len(lines) - 1) : ColsFrom(query, r, r0, c0) # {}}
<1>1. CASE rows = {}
  BY <1>1, SearchText DEF search_forward_from, frameVars, Landed
<1>2. CASE rows # {}
  <2> DEFINE r == Min(rows)
             cols == ColsFrom(query, r, r0, c0)
             c == Min(cols)
  <2>1. isearch_has_match' = TRUE /\ row' = r /\ col' = c
    BY <1>2 DEF search_forward_from
  <2>2. r \in rows
    <3>1. rows \in SUBSET Nat
      BY SearchText
    <3> HIDE DEF rows
    <3> QED BY <1>2, <3>1, MinNat
  <2>3. r \in 0 .. (Len(lines) - 1) /\ cols # {}
    <3> HIDE DEF r
    <3> QED BY <2>2, SearchText
  <2> HIDE DEF r
  <2>4. cols \in SUBSET (0 .. Len(lines[r + 1])) /\ \A x \in cols : MatchesAt(query, r, x)
    BY DEF ColsFrom, MatchCols
  <2>5. c \in cols
    <3>1. cols \in SUBSET Nat
      BY <2>3, <2>4, SearchText
    <3> HIDE DEF cols
    <3> QED BY <2>3, <3>1, MinNat
  <2> HIDE DEF cols, c
  <2>6. c \in Nat /\ MatchesAt(query, r, c)
    BY <2>3, <2>4, <2>5, SearchText
  <2> QED BY <2>1, <2>3, <2>6 DEF Landed
<1> QED BY <1>1, <1>2

LEMMA BackwardLands ==
  ASSUME IInv, NEW query, query # << >>, NEW r0 \in 0 .. (Len(lines) - 1), NEW c0,
         search_backward_from(query, r0, c0)
  PROVE  Landed(query)
<1> DEFINE rows == {r \in 0 .. r0 : ColsUpTo(query, r, r0, c0) # {}}
<1>1. CASE rows = {}
  BY <1>1, SearchText DEF search_backward_from, frameVars, Landed
<1>2. CASE rows # {}
  <2> DEFINE r == Max(rows)
             cols == ColsUpTo(query, r, r0, c0)
             c == Max(cols)
  <2>1. isearch_has_match' = TRUE /\ row' = r /\ col' = c
    BY <1>2 DEF search_backward_from
  <2>2. r \in rows
    <3>1. rows \in SUBSET (0 .. r0) /\ r0 \in Nat
      BY SearchText
    <3> HIDE DEF rows
    <3> QED BY <1>2, <3>1, MaxBelow
  <2>3. r \in 0 .. (Len(lines) - 1) /\ cols # {}
    <3> HIDE DEF r
    <3> QED BY <2>2, SearchText
  <2> HIDE DEF r
  <2>4. cols \in SUBSET (0 .. Len(lines[r + 1])) /\ \A x \in cols : MatchesAt(query, r, x)
    BY DEF ColsUpTo, MatchCols
  <2>5. c \in cols
    <3>1. Len(lines[r + 1]) \in Nat
      BY <2>3, SearchText
    <3> HIDE DEF cols
    <3> QED BY <2>3, <2>4, <3>1, MaxBelow
  <2> HIDE DEF cols, c
  <2>6. c \in Nat /\ MatchesAt(query, r, c)
    BY <2>3, <2>4, <2>5, SearchText
  <2> QED BY <2>1, <2>3, <2>6 DEF Landed
<1> QED BY <1>1, <1>2

LEMMA FindLands ==
  ASSUME SearchInv, isearch_active, NEW query, NEW forward \in BOOLEAN,
         NEW repeat \in BOOLEAN, isearch_find(query, forward, repeat)
  PROVE  Landed(query)
<1>1. /\ IInv /\ row \in 0 .. (Len(lines) - 1) /\ Len(lines) \in Nat
      /\ isearch_origin.row \in Nat /\ isearch_origin.col \in Nat
      /\ isearch_origin.row < Len(lines)
  BY SearchText DEF SearchInv, SearchVarsType, SearchIsolated
<1>2. CASE query = << >>
  <2>1. /\ row' = isearch_origin.row /\ col' = isearch_origin.col
        /\ isearch_has_match' = FALSE
    BY <1>2 DEF isearch_find, ToOrigin
  <2>2. isearch_has_match' \in BOOLEAN
    BY <2>1
  <2>3. ~isearch_has_match'
    BY <2>1
  <2>4. row' \in 0 .. (Len(lines) - 1) /\ col' \in Nat
    BY <1>1, <2>1
  <2> QED BY <2>2, <2>3, <2>4 DEF Landed
<1>3. CASE query # << >>
  <2>1. \/ \E c : search_forward_from(query, row, c)
        \/ \E c : search_backward_from(query, row, c)
        \/ \E c : search_forward_from(query, isearch_origin.row, c)
        \/ \E c : search_backward_from(query, isearch_origin.row, c)
    BY <1>3 DEF isearch_find
  <2>2. isearch_origin.row \in 0 .. (Len(lines) - 1)
    BY <1>1
  <2> QED BY <1>1, <1>3, <2>1, <2>2, ForwardLands, BackwardLands
<1> QED BY <1>2, <1>3

-----------------------------------------------------------------------------
(* One lemma per group of keys.                                              *)

(* A key of the search that moves the frame, perhaps, within the text.       *)
LEMMA SearchKeyStep ==
  ASSUME IInv, NEW key, SearchKey(key),
         row' \in 0 .. (Len(lines) - 1), col' \in Nat
  PROVE  IInv' /\ lines' = lines /\ esc_state' = "ESC_NONE"
         /\ last_was_kill' = FALSE /\ last_was_yank' = FALSE
<1>1. Motion
  BY DEF SearchKey, Motion
<1>2. IInv'
  BY <1>1, MotionStep
<1> QED BY <1>2 DEF SearchKey, Done

LEMMA LandedStep ==
  ASSUME SearchInv, isearch_active, NEW key, SearchKey(key),
         NEW query \in Seq(Byte), Len(query) <= QUERY_MAX, Landed(query),
         isearch_query' = query, isearch_forward' \in BOOLEAN,
         UNCHANGED <<isearch_active, isearch_origin>>
  PROVE  SearchInv'
<1>1. IInv' /\ lines' = lines /\ esc_state' = "ESC_NONE"
      /\ last_was_kill' = FALSE /\ last_was_yank' = FALSE
  BY SearchKeyStep DEF SearchInv, Landed
<1>2. SearchVarsType'
  BY DEF SearchInv, SearchVarsType, Landed
<1>3. SearchIsolated'
  BY <1>1 DEF SearchInv, SearchIsolated
<1>4. MatchAtCursor'
  BY <1>1 DEF MatchAtCursor, Landed, MatchesAt
<1> QED BY <1>1, <1>2, <1>3, <1>4 DEF SearchInv

(* A key that changes nothing of the search but, perhaps, ends it.           *)
LEMMA SameStep ==
  ASSUME SearchInv, isearch_active, NEW key, SearchKey(key),
         UNCHANGED <<searchVars, frameVars>>
  PROVE  SearchInv'
<1>1. row' = row /\ col' = col /\ row \in 0 .. (Len(lines) - 1) /\ col \in Nat
  BY SearchText DEF SearchInv, frameVars
<1>2. IInv' /\ lines' = lines /\ esc_state' = "ESC_NONE"
      /\ last_was_kill' = FALSE /\ last_was_yank' = FALSE
  BY <1>1, SearchKeyStep DEF SearchInv
<1>3. UNCHANGED <<isearch_active, isearch_forward, isearch_has_match,
                  isearch_query, isearch_origin>>
  BY DEF searchVars
<1>4. SearchVarsType' /\ SearchIsolated'
  BY <1>2, <1>3 DEF SearchInv, SearchVarsType, SearchIsolated
<1>5. MatchAtCursor'
  BY <1>1, <1>2, <1>3 DEF SearchInv, MatchAtCursor, MatchesAt
<1> QED BY <1>2, <1>4, <1>5 DEF SearchInv

LEMMA BeginSearch ==
  ASSUME SearchInv, isearch_begin
  PROVE  SearchInv'
<1>1. PICK key \in {"C-s", "C-r"}, forward \in BOOLEAN : BeginWith(key, forward)
  BY DEF isearch_begin
<1>2. row' = row /\ col' = col /\ row \in 0 .. (Len(lines) - 1) /\ col \in Nat
      /\ Len(lines) \in Nat
  BY <1>1, SearchText DEF SearchInv, BeginWith, frameVars
<1>3. IInv' /\ lines' = lines /\ esc_state' = "ESC_NONE"
      /\ last_was_kill' = FALSE /\ last_was_yank' = FALSE
  BY <1>1, <1>2, SearchKeyStep DEF SearchInv, BeginWith
<1>4. /\ isearch_active' = TRUE /\ isearch_forward' = forward
      /\ isearch_has_match' = FALSE /\ isearch_query' = << >>
      /\ isearch_origin' = [row |-> row, col |-> col]
  BY <1>1 DEF BeginWith
<1>5. SearchVarsType'
  <2>1. isearch_query' \in Seq(Byte) /\ Len(isearch_query') = 0
    <3>1. << >> \in Seq(Byte) /\ Len(<< >>) = 0
      BY EmptySeq
    <3> QED BY <1>4, <3>1
  <2>2. Len(isearch_query') <= QUERY_MAX
    BY <2>1, SearchConstants
  <2>3. isearch_forward' \in BOOLEAN /\ isearch_origin' \in [row : Nat, col : Nat]
    BY <1>2, <1>4
  <2>4. isearch_active' \in BOOLEAN /\ isearch_has_match' \in BOOLEAN
    BY <1>4
  <2> QED BY <2>1, <2>2, <2>3, <2>4 DEF SearchVarsType
<1>6. SearchIsolated' /\ MatchAtCursor'
  BY <1>2, <1>3, <1>4 DEF SearchIsolated, MatchAtCursor
<1> QED BY <1>3, <1>5, <1>6 DEF SearchInv

LEMMA RepeatSearch ==
  ASSUME SearchInv, RepeatForward \/ RepeatBackward
  PROVE  SearchInv'
<1>1. PICK key \in {"C-s", "C-r"}, forward \in BOOLEAN : RepeatWith(key, forward)
  BY DEF RepeatForward, RepeatBackward
<1>2. /\ isearch_active /\ SearchKey(key)
      /\ isearch_forward' = forward
      /\ isearch_find(isearch_query, forward, TRUE)
      /\ UNCHANGED <<isearch_active, isearch_query, isearch_origin>>
  BY <1>1 DEF RepeatWith
<1>3. Landed(isearch_query)
  BY <1>2, FindLands
<1>4. isearch_query \in Seq(Byte) /\ Len(isearch_query) <= QUERY_MAX
  BY DEF SearchInv, SearchVarsType
<1> QED BY <1>2, <1>3, <1>4, LandedStep

LEMMA QuerySearch ==
  ASSUME SearchInv, NEW key, SearchKey(key), isearch_active,
         NEW query \in Seq(Byte), Len(query) <= QUERY_MAX, SetQuery(query)
  PROVE  SearchInv'
<1>1. isearch_forward \in BOOLEAN
  BY DEF SearchInv, SearchVarsType
<1>2. Landed(query)
  BY <1>1, FindLands DEF SetQuery
<1>3. /\ isearch_query' = query /\ isearch_forward' \in BOOLEAN
      /\ UNCHANGED <<isearch_active, isearch_origin>>
  BY <1>1 DEF SetQuery
<1> QED BY <1>2, <1>3, LandedStep

LEMMA ExtendSearch ==
  ASSUME SearchInv, NEW ch \in KeyBytes, ExtendQuery(ch)
  PROVE  SearchInv'
<1>1. isearch_query \in Seq(Byte) /\ Len(isearch_query) \in Nat /\ QUERY_MAX \in Nat
      /\ ch \in Byte
  BY SearchConstants, EditingConstants DEF SearchInv, SearchVarsType
<1>2. CASE Len(isearch_query) < QUERY_MAX
  <2> DEFINE q == Append(isearch_query, ch)
  <2>1. q \in Seq(Byte) /\ Len(q) <= QUERY_MAX
    BY <1>1, <1>2, AppendProperties
  <2>2. SetQuery(q) /\ isearch_active /\ SearchKey("char")
    BY <1>2 DEF ExtendQuery
  <2> HIDE DEF q
  <2> QED BY <2>1, <2>2, QuerySearch
<1>3. CASE ~(Len(isearch_query) < QUERY_MAX)
  BY <1>3, SameStep DEF ExtendQuery
<1> QED BY <1>2, <1>3

LEMMA ShortenSearch ==
  ASSUME SearchInv, isearch_backspace
  PROVE  SearchInv'
<1>1. isearch_query \in Seq(Byte) /\ Len(isearch_query) \in Nat
      /\ Len(isearch_query) <= QUERY_MAX /\ QUERY_MAX \in Nat
  BY SearchConstants DEF SearchInv, SearchVarsType
<1>2. CASE isearch_query = << >>
  BY <1>2, SameStep DEF isearch_backspace
<1>3. CASE isearch_query # << >>
  <2> DEFINE n == utf8_prev_boundary(isearch_query, Len(isearch_query))
             q == SubSeq(isearch_query, 1, n)
  <2>1. n \in 0 .. Len(isearch_query)
    BY <1>1, PrevBoundaryLeft
  <2>2. SetQuery(q) /\ isearch_active /\ SearchKey("Backspace")
    BY <1>3 DEF isearch_backspace
  <2> HIDE DEF n
  <2>3. q \in Seq(Byte) /\ Len(q) = n
    <3>1. \A k \in 1 .. n : isearch_query[k] \in Byte
      BY <1>1, <2>1
    <3>2. n \in Int /\ n >= 0
      BY <2>1
    <3> QED BY <3>1, <3>2, SubSeqProperties
  <2> HIDE DEF q
  <2> QED BY <1>1, <2>1, <2>2, <2>3, QuerySearch
<1> QED BY <1>2, <1>3

LEMMA FinishSearch ==
  ASSUME SearchVarsType, isearch_finish, IInv'
  PROVE  SearchInv'
<1>1. isearch_query' \in Seq(Byte) /\ Len(isearch_query') = 0
  BY EmptySeq DEF isearch_finish
<1>2. SearchVarsType'
  <2>1. /\ isearch_active' = FALSE /\ isearch_has_match' = FALSE
        /\ isearch_forward' = isearch_forward /\ isearch_origin' = isearch_origin
    BY DEF isearch_finish
  <2>2. Len(isearch_query') <= QUERY_MAX
    BY <1>1, SearchConstants
  <2>3. isearch_forward' \in BOOLEAN /\ isearch_origin' \in [row : Nat, col : Nat]
    BY <2>1 DEF SearchVarsType
  <2>4. isearch_active' \in BOOLEAN /\ isearch_has_match' \in BOOLEAN
    BY <2>1
  <2> QED BY <1>1, <2>2, <2>3, <2>4 DEF SearchVarsType
<1> QED BY <1>2 DEF SearchInv, SearchIsolated, MatchAtCursor, isearch_finish

LEMMA EndSearch ==
  ASSUME SearchInv, Cancel \/ Accept
  PROVE  SearchInv'
<1>1. CASE Cancel
  <2>1. /\ row' \in 0 .. (Len(lines) - 1) /\ col' \in Nat
        /\ SearchKey("C-g") /\ isearch_finish
    BY <1>1, SearchText
       DEF Cancel, ToOrigin, SearchInv, SearchVarsType, SearchIsolated
  <2>2. IInv'
    BY <2>1, SearchKeyStep DEF SearchInv
  <2> QED BY <2>1, <2>2, FinishSearch DEF SearchInv
<1>2. CASE Accept
  <2>1. /\ row' \in 0 .. (Len(lines) - 1) /\ col' \in Nat
        /\ SearchKey("Enter") /\ isearch_finish
    BY <1>2, SearchText DEF Accept, frameVars, SearchInv
  <2>2. IInv'
    BY <2>1, SearchKeyStep DEF SearchInv
  <2> QED BY <2>1, <2>2, FinishSearch DEF SearchInv
<1> QED BY <1>1, <1>2

LEMMA OtherKeyEnds ==
  ASSUME SearchInv, OtherKey
  PROVE  SearchInv'
<1>1. Next
  BY DEF OtherKey, Next
<1>2. IInv'
  BY <1>1, NextInvariant DEF SearchInv
<1> QED BY <1>2, FinishSearch DEF SearchInv, OtherKey

-----------------------------------------------------------------------------
(* The theorems.                                                             *)

LEMMA SearchInitInvariant == SearchInit => SearchInv
<1> SUFFICES ASSUME SearchInit PROVE SearchInv
  OBVIOUS
<1>1. IInv
  BY InitInvariant DEF SearchInit
<1>2. isearch_query \in Seq(Byte) /\ Len(isearch_query) = 0
  BY EmptySeq DEF SearchInit
<1>3. SearchVarsType
  <2>1. /\ isearch_active = FALSE /\ isearch_forward = TRUE
        /\ isearch_has_match = FALSE /\ isearch_origin = [row |-> 0, col |-> 0]
    BY DEF SearchInit
  <2>2. Len(isearch_query) <= QUERY_MAX
    BY <1>2, SearchConstants
  <2>3. isearch_forward \in BOOLEAN /\ isearch_origin \in [row : Nat, col : Nat]
    BY <2>1
  <2>4. isearch_active \in BOOLEAN /\ isearch_has_match \in BOOLEAN
    BY <2>1
  <2> QED BY <1>2, <2>2, <2>3, <2>4 DEF SearchVarsType
<1> QED BY <1>1, <1>3 DEF SearchInit, SearchInv, SearchIsolated, MatchAtCursor

LEMMA SearchStepInvariant == SearchInv /\ [SearchNext]_allVars => SearchInv'
<1> SUFFICES ASSUME SearchInv, [SearchNext]_allVars PROVE SearchInv'
  OBVIOUS
<1>1. CASE UNCHANGED allVars
  <2>1. UNCHANGED vars /\ UNCHANGED searchVars
    BY <1>1 DEF allVars
  <2>2. IInv'
    BY <2>1, NextInvariant DEF SearchInv
  <2>3. UNCHANGED <<lines, row, col, esc_state, last_was_kill, last_was_yank,
                    isearch_active, isearch_forward, isearch_has_match,
                    isearch_query, isearch_origin>>
    BY <2>1 DEF vars, searchVars
  <2> QED BY <2>2, <2>3 DEF SearchInv, SearchVarsType, SearchIsolated,
             MatchAtCursor, MatchesAt
<1>2. CASE isearch_begin
  BY <1>2, BeginSearch
<1>3. CASE RepeatForward \/ RepeatBackward
  BY <1>3, RepeatSearch
<1>4. CASE \E ch \in KeyBytes : ExtendQuery(ch)
  BY <1>4, ExtendSearch
<1>5. CASE isearch_backspace
  BY <1>5, ShortenSearch
<1>6. CASE Cancel \/ Accept
  BY <1>6, EndSearch
<1>7. CASE OtherKey
  BY <1>7, OtherKeyEnds
<1> QED BY <1>1, <1>2, <1>3, <1>4, <1>5, <1>6, <1>7 DEF SearchNext

LEMMA SearchInvariance == SearchSpec => []SearchInv
BY SearchInitInvariant, SearchStepInvariant, PTL DEF SearchSpec

(* The frame that a search moves stays in the text, and the query fits.      *)
THEOREM SearchTypeCorrect == SearchSpec => []SearchTypeOK
<1>1. SearchInv => SearchTypeOK
  BY DEF SearchInv, SearchVarsType, IInv, SearchTypeOK
<1> QED BY <1>1, SearchInvariance, PTL

(* The position C-g returns to exists, and a search meets neither a half     *)
(* escape sequence nor a run of kills or yanks.                              *)
THEOREM SearchAlwaysIsolated == SearchSpec => []SearchIsolated
<1>1. SearchInv => SearchIsolated
  BY DEF SearchInv
<1> QED BY <1>1, SearchInvariance, PTL

(* Whatever is typed, erased, repeated or reversed, a search that says it    *)
(* has a match stands on one.                                                *)
THEOREM MatchAlwaysAtCursor == SearchSpec => []MatchAtCursor
<1>1. SearchInv => MatchAtCursor
  BY DEF SearchInv
<1> QED BY <1>1, SearchInvariance, PTL

-----------------------------------------------------------------------------
(* The first match, and the next.                                            *)

(* The matches from a column of a row on.                                    *)
MatchesFrom(query, r0, c0) ==
  {p \in MatchPositions(query) : p[1] > r0 \/ (p[1] = r0 /\ p[2] >= c0)}

(* Of a set of positions, the first.                                         *)
FirstOf(p, S) == p \in S /\ \A q \in S : ~PosBefore(q, p)

LEMMA PositionIs ==
  ASSUME IInv
  PROVE  /\ \A r \in 0 .. (Len(lines) - 1) : \A c \in 0 .. Len(lines[r + 1]) :
              <<r, c>> \in Positions
         /\ \A p \in Positions :
              /\ p = <<p[1], p[2]>>
              /\ p[1] \in 0 .. (Len(lines) - 1) /\ p[2] \in 0 .. Len(lines[p[1] + 1])
<1> DEFINE Cols(r) == {<<r, c>> : c \in 0 .. Len(lines[r + 1])}
           rows == 0 .. (Len(lines) - 1)
<1>1. Positions = UNION {Cols(r) : r \in rows}
  BY DEF Positions
<1>2. ASSUME NEW r \in rows, NEW c \in 0 .. Len(lines[r + 1])
      PROVE  <<r, c>> \in Positions
  <2>1. <<r, c>> \in Cols(r)
    OBVIOUS
  <2> HIDE DEF Cols
  <2> QED BY <1>1, <2>1
<1>3. ASSUME NEW p \in Positions
      PROVE  p = <<p[1], p[2]>> /\ p[1] \in rows /\ p[2] \in 0 .. Len(lines[p[1] + 1])
  <2>1. PICK r \in rows : p \in Cols(r)
    <3> HIDE DEF Cols
    <3> QED BY <1>1
  <2>2. PICK c \in 0 .. Len(lines[r + 1]) : p = <<r, c>>
    BY <2>1
  <2> QED BY <2>2
<1> QED BY <1>2, <1>3

(* A search forward from a place goes to the first match there or after, and *)
(* fails only when there is none.                                            *)
LEMMA ForwardFinds ==
  ASSUME IInv, NEW query, NEW r0 \in 0 .. (Len(lines) - 1), NEW c0,
         ClampCol(lines, r0, c0) \in Nat,
         search_forward_from(query, r0, c0)
  PROVE  LET ahead == MatchesFrom(query, r0, ClampCol(lines, r0, c0))
         IN  /\ isearch_has_match' = (ahead # {})
             /\ isearch_has_match' => FirstOf(Here', ahead)
<1> DEFINE c1 == ClampCol(lines, r0, c0)
           ahead == MatchesFrom(query, r0, c1)
           Cols(r) == ColsFrom(query, r, r0, c0)
           rows == {r \in r0 .. (Len(lines) - 1) : Cols(r) # {}}
<1>0. Len(lines) \in Nat /\ r0 \in Nat
      /\ \A r \in 0 .. (Len(lines) - 1) : Len(lines[r + 1]) \in Nat
  BY SearchText
<1>1. \A r \in r0 .. (Len(lines) - 1) : \A c \in Cols(r) : <<r, c>> \in ahead
  <2> SUFFICES ASSUME NEW r \in r0 .. (Len(lines) - 1), NEW c \in Cols(r)
               PROVE  <<r, c>> \in ahead
    OBVIOUS
  <2>1. /\ c \in 0 .. Len(lines[r + 1]) /\ MatchesAt(query, r, c)
        /\ r = r0 => c >= c1
    BY DEF ColsFrom, MatchCols
  <2>2. r \in 0 .. (Len(lines) - 1) /\ r >= r0
    BY <1>0
  <2>3. <<r, c>> \in Positions /\ <<r, c>>[1] = r /\ <<r, c>>[2] = c
    BY <2>1, <2>2, PositionIs
  <2>4. <<r, c>> \in MatchPositions(query)
    BY <2>1, <2>3 DEF MatchPositions
  <2>5. r > r0 \/ (r = r0 /\ c >= c1)
    BY <1>0, <2>1, <2>2
  <2> HIDE DEF c1
  <2> QED BY <2>3, <2>4, <2>5 DEF MatchesFrom
<1>2. ASSUME NEW p \in ahead
      PROVE  p[1] \in rows /\ p[2] \in Cols(p[1]) /\ p[1] \in Nat /\ p[2] \in Nat
  <2>1. /\ p \in Positions /\ MatchesAt(query, p[1], p[2])
        /\ p[1] > r0 \/ (p[1] = r0 /\ p[2] >= c1)
    BY DEF MatchesFrom, MatchPositions
  <2>2. p[1] \in 0 .. (Len(lines) - 1) /\ p[2] \in 0 .. Len(lines[p[1] + 1])
    BY <2>1, PositionIs
  <2>3. p[1] \in r0 .. (Len(lines) - 1) /\ p[2] \in Nat /\ p[1] \in Nat
    BY <1>0, <2>1, <2>2
  <2>4. p[2] \in Cols(p[1])
    BY <1>0, <2>1, <2>2 DEF ColsFrom, MatchCols
  <2> HIDE DEF Cols
  <2> QED BY <2>3, <2>4
<1>3. \A r \in 0 .. (Len(lines) - 1) : Cols(r) \in SUBSET Nat
  BY <1>0 DEF ColsFrom, MatchCols
<1>4. /\ rows = {} => isearch_has_match' = FALSE
      /\ rows # {} => /\ isearch_has_match' = TRUE
                      /\ row' = Min(rows) /\ col' = Min(Cols(Min(rows)))
  BY DEF search_forward_from
<1> HIDE DEF ahead, Cols, c1
<1>5. CASE rows = {}
  <2>1. ahead = {}
    BY <1>2, <1>5
  <2> QED BY <1>4, <1>5, <2>1 DEF ahead, c1
<1>6. CASE rows # {}
  <2> DEFINE r == Min(rows)
             c == Min(Cols(r))
  <2>1. r \in rows /\ \A y \in rows : r <= y
    <3>1. rows \in SUBSET Nat
      BY <1>0
    <3> HIDE DEF rows
    <3> QED BY <1>6, <3>1, MinNat
  <2>2. row' = r /\ col' = c /\ isearch_has_match' = TRUE
    BY <1>4, <1>6
  <2> HIDE DEF r
  <2>3. r \in r0 .. (Len(lines) - 1) /\ Cols(r) # {} /\ r \in 0 .. (Len(lines) - 1) /\ r \in Nat
    BY <1>0, <2>1
  <2>4. c \in Cols(r) /\ \A y \in Cols(r) : c <= y
    <3> Cols(r) \in SUBSET Nat
      BY <1>3, <2>3
    <3> QED BY <2>3, MinNat
  <2> HIDE DEF c
  <2>5. <<r, c>> \in ahead /\ c \in Nat
    BY <1>1, <1>3, <2>3, <2>4
  <2>6. ASSUME NEW q \in ahead PROVE ~PosBefore(q, <<r, c>>)
    <3>1. q[1] \in Nat /\ q[2] \in Nat /\ r <= q[1] /\ (q[1] = r => c <= q[2])
      BY <1>2, <2>1, <2>4
    <3>2. <<r, c>>[1] = r /\ <<r, c>>[2] = c
      OBVIOUS
    <3> QED BY <2>3, <2>5, <3>1, <3>2 DEF PosBefore, pos_compare
  <2>7. Here' = <<r, c>>
    BY <2>2 DEF Here
  <2>8. FirstOf(Here', ahead) /\ ahead # {}
    BY <2>5, <2>6, <2>7 DEF FirstOf
  <2> QED BY <2>2, <2>8 DEF ahead, c1
<1> QED BY <1>5, <1>6

(* From a column past the end of its line the search goes on as from the     *)
(* column itself: no match begins there.                                     *)
LEMMA FromColumn ==
  ASSUME IInv, NEW query \in Seq(Byte), query # << >>,
         NEW r0 \in 0 .. (Len(lines) - 1), NEW c0 \in Nat
  PROVE  /\ MatchesFrom(query, r0, ClampCol(lines, r0, c0))
              = {p \in MatchPositions(query) : ~PosBefore(p, <<r0, c0>>)}
         /\ ClampCol(lines, r0, c0) \in Nat
<1> DEFINE c1 == ClampCol(lines, r0, c0)
<1>0. Len(lines) \in Nat /\ r0 \in Nat /\ Len(lines[r0 + 1]) \in Nat
      /\ line_length(lines, r0) = Len(lines[r0 + 1])
      /\ Len(query) \in Nat /\ Len(query) > 0
  <2>1. lines \in Text
    BY DEF IInv, TypeOK
  <2>2. Len(query) \in Nat /\ Len(query) > 0
    BY EmptySeq
  <2> QED BY <2>1, <2>2, RowType
<1>1. c1 \in Nat /\ (c1 = c0 \/ (c1 = Len(lines[r0 + 1]) /\ c0 > c1))
  BY <1>0 DEF ClampCol
<1> HIDE DEF c1
<1>2. ASSUME NEW p \in MatchPositions(query)
      PROVE  (p[1] > r0 \/ (p[1] = r0 /\ p[2] >= c1)) <=> ~PosBefore(p, <<r0, c0>>)
  <2>1. p \in Positions /\ MatchesAt(query, p[1], p[2])
    BY DEF MatchPositions
  <2>2. p[1] \in 0 .. (Len(lines) - 1) /\ p[2] \in 0 .. Len(lines[p[1] + 1])
    BY <2>1, PositionIs
  <2>3. p[2] + Len(query) <= Len(lines[p[1] + 1])
    BY <2>1 DEF MatchesAt
  <2>4. p[1] \in Nat /\ p[2] \in Nat
    BY <2>2, SearchText
  <2>5. p[1] = r0 => p[2] < Len(lines[r0 + 1])
    BY <1>0, <2>3, <2>4
  <2>6. <<r0, c0>>[1] = r0 /\ <<r0, c0>>[2] = c0
    OBVIOUS
  <2>7. p[1] = r0 => (p[2] >= c1 <=> p[2] >= c0)
    BY <1>0, <1>1, <2>4, <2>5
  <2> QED BY <1>0, <2>4, <2>6, <2>7 DEF PosBefore, pos_compare
<1> QED BY <1>1, <1>2 DEF MatchesFrom, c1

LEMMA QueryFindsFirst ==
  ASSUME SearchInv, [SearchNext]_allVars, isearch_active, isearch_forward,
         isearch_query' # isearch_query, isearch_query' # << >>
  PROVE  LET ahead == {p \in MatchPositions(isearch_query') : ~PosBefore(p, Origin)}
         IN  /\ isearch_has_match' = (ahead # {})
             /\ isearch_has_match' => FirstOf(Here', ahead)
<1>1. SetQuery(isearch_query')
  <2>1. CASE UNCHANGED allVars
    BY <2>1 DEF allVars, searchVars
  <2>2. CASE isearch_begin
    BY <2>2 DEF isearch_begin, BeginWith
  <2>3. CASE RepeatForward \/ RepeatBackward
    BY <2>3 DEF RepeatForward, RepeatBackward, RepeatWith
  <2>4. CASE \E ch \in KeyBytes : ExtendQuery(ch)
    BY <2>4 DEF ExtendQuery, SetQuery, searchVars
  <2>5. CASE isearch_backspace
    BY <2>5 DEF isearch_backspace, SetQuery, searchVars
  <2>6. CASE Cancel \/ Accept \/ OtherKey
    BY <2>6 DEF Cancel, Accept, OtherKey, isearch_finish
  <2> QED BY <2>1, <2>2, <2>3, <2>4, <2>5, <2>6 DEF SearchNext
<1> DEFINE query == isearch_query'
           r0 == isearch_origin.row
           c0 == isearch_origin.col
<1>2. search_forward_from(query, r0, c0)
  BY <1>1 DEF SetQuery, isearch_find
<1>3. /\ IInv /\ r0 \in 0 .. (Len(lines) - 1) /\ c0 \in Nat /\ query \in Seq(Byte)
      /\ query # << >> /\ Origin = <<r0, c0>>
  <2>1. SearchInv'
    BY SearchStepInvariant
  <2> QED BY <2>1, SearchText DEF SearchInv, SearchVarsType, SearchIsolated, Origin
<1> HIDE DEF query, r0, c0
<1>4. /\ MatchesFrom(query, r0, ClampCol(lines, r0, c0))
           = {p \in MatchPositions(query) : ~PosBefore(p, Origin)}
      /\ ClampCol(lines, r0, c0) \in Nat
  BY <1>3, FromColumn
<1>5. LET ahead == MatchesFrom(query, r0, ClampCol(lines, r0, c0))
      IN  /\ isearch_has_match' = (ahead # {})
          /\ isearch_has_match' => FirstOf(Here', ahead)
  BY <1>2, <1>3, <1>4, ForwardFinds
<1> QED BY <1>4, <1>5 DEF query

(* After each byte typed or erased a forward search stands on the first      *)
(* match at or after the place where it began, and says there is none only   *)
(* when there is none.                                                       *)
THEOREM ForwardAlwaysFindsFirst == SearchSpec => ForwardFindsFirst
<1>1. SearchInv /\ [SearchNext]_allVars =>
        [isearch_active /\ isearch_forward /\ isearch_query' # isearch_query
           /\ isearch_query' # << >> =>
           LET ahead == {p \in MatchPositions(isearch_query') : ~PosBefore(p, Origin)}
           IN  /\ isearch_has_match' = (ahead # {})
               /\ isearch_has_match' =>
                    Here' \in ahead /\ \A p \in ahead : ~PosBefore(p, Here')]_allVars
  BY QueryFindsFirst DEF FirstOf
<1> QED BY <1>1, SearchInvariance, PTL DEF SearchSpec, ForwardFindsFirst

(* Folding case does not touch the bytes of a multi-byte character.          *)
FoldKeepsChars == \A byte \in Byte : byte \in Cont <=> Fold[byte] \in Cont

(* A continuation byte is typed after the byte that it continues.            *)
QueriesContinue ==
  [][\A ch \in KeyBytes \cap Cont : ExtendQuery(ch) => isearch_query # << >>]_allVars

QueryBegun == isearch_query # << >> => isearch_query[1] \notin Cont

LEMMA QueryBegunStep ==
  ASSUME SearchInv, QueryBegun, SearchNext,
         \A ch \in KeyBytes \cap Cont : ExtendQuery(ch) => isearch_query # << >>
  PROVE  QueryBegun'
<1>0. isearch_query \in Seq(Byte) /\ Len(isearch_query) \in Nat
  BY DEF SearchInv, SearchVarsType
<1>1. CASE isearch_begin
  BY <1>1 DEF isearch_begin, BeginWith, QueryBegun
<1>2. CASE RepeatForward \/ RepeatBackward
  BY <1>2 DEF RepeatForward, RepeatBackward, RepeatWith, QueryBegun
<1>3. CASE \E ch \in KeyBytes : ExtendQuery(ch)
  <2>1. PICK ch \in KeyBytes : ExtendQuery(ch)
    BY <1>3
  <2>2. CASE isearch_query' = isearch_query
    BY <2>2 DEF QueryBegun
  <2>3. CASE isearch_query' # isearch_query
    <3>1. isearch_query' = Append(isearch_query, ch)
      BY <2>1, <2>3 DEF ExtendQuery, SetQuery, searchVars
    <3>2. ch \in Byte
      BY EditingConstants
    <3>3. CASE isearch_query = << >>
      <4>1. ch \notin Cont
        BY <2>1, <3>3
      <4>2. isearch_query'[1] = ch
        BY <3>1, <3>3
      <4> QED BY <4>1, <4>2 DEF QueryBegun
    <3>4. CASE isearch_query # << >>
      <4>1. isearch_query'[1] = isearch_query[1]
        BY <1>0, <3>1, <3>2, <3>4
      <4> QED BY <3>4, <4>1 DEF QueryBegun
    <3> QED BY <3>3, <3>4
  <2> QED BY <2>2, <2>3
<1>4. CASE isearch_backspace
  <2>1. CASE isearch_query' = isearch_query
    BY <2>1 DEF QueryBegun
  <2>2. CASE isearch_query' # isearch_query
    <3> DEFINE n == utf8_prev_boundary(isearch_query, Len(isearch_query))
    <3>1. isearch_query' = SubSeq(isearch_query, 1, n) /\ isearch_query # << >>
      BY <1>4, <2>2 DEF isearch_backspace, SetQuery, searchVars
    <3>2. n \in 0 .. Len(isearch_query)
      BY <1>0, PrevBoundaryLeft
    <3> HIDE DEF n
    <3>3. CASE n = 0
      <4>1. isearch_query' = << >>
        BY <1>0, <3>1, <3>3
      <4> QED BY <4>1 DEF QueryBegun
    <3>4. CASE n # 0
      <4>1. isearch_query'[1] = isearch_query[1]
        BY <1>0, <3>1, <3>2, <3>4
      <4> QED BY <3>1, <4>1 DEF QueryBegun
    <3> QED BY <3>3, <3>4
  <2> QED BY <2>1, <2>2
<1>5. CASE Cancel \/ Accept \/ OtherKey
  BY <1>5 DEF Cancel, Accept, OtherKey, isearch_finish, QueryBegun
<1> QED BY <1>1, <1>2, <1>3, <1>4, <1>5 DEF SearchNext

LEMMA RepeatFindsNext ==
  ASSUME SearchInv, QueryBegun, FoldKeepsChars, RepeatForward, isearch_has_match
  PROVE  LET ahead == {p \in MatchPositions(isearch_query) : PosBefore(Here, p)}
         IN  /\ isearch_has_match' = (ahead # {})
             /\ isearch_has_match' => FirstOf(Here', ahead)
<1> DEFINE query == isearch_query
           nb == utf8_next_boundary(CurLine, col)
<1>1. /\ IInv /\ query \in Seq(Byte) /\ query # << >> /\ MatchesAt(query, row, col)
      /\ query[1] \notin Cont
  BY DEF SearchInv, SearchVarsType, MatchAtCursor, QueryBegun
<1>2. search_forward_from(query, row, nb)
  BY <1>1 DEF RepeatForward, RepeatWith, isearch_find
<1> HIDE DEF query
<1>3. Len(query) \in Nat /\ Len(query) > 0 /\ 1 \in 1 .. Len(query)
  BY <1>1, EmptySeq
<1>4. /\ row \in 0 .. (Len(lines) - 1) /\ row \in Nat /\ col \in Nat
      /\ CurLine \in Line /\ Len(CurLine) \in Nat /\ lines \in Text
  BY <1>1, CurLineType
<1>5. col < Len(CurLine) /\ CurLine = lines[row + 1]
  BY <1>1, <1>3, <1>4 DEF MatchesAt, CurLine
<1>6. nb \in (col + 1) .. Len(CurLine) /\ nb \in Nat
  <2>1. nb \in 0 .. Len(CurLine) /\ col < nb
    BY <1>4, <1>5, NextBoundaryInLine
  <2> HIDE DEF nb
  <2> QED BY <1>4, <2>1
<1>7. \A d \in (col + 1) .. (nb - 1) : CurLine[d + 1] \in Cont
  BY <1>4, <1>5, InsideChar
<1> HIDE DEF nb
<1>8. ClampCol(lines, row, nb) = nb
  <2>1. line_length(lines, row) = Len(CurLine)
    BY <1>4, <1>5, RowType
  <2> QED BY <1>4, <1>6, <2>1 DEF ClampCol
<1>9. ASSUME NEW p \in MatchPositions(query)
      PROVE  (p[1] > row \/ (p[1] = row /\ p[2] >= nb)) <=> PosBefore(Here, p)
  <2>1. p \in Positions /\ MatchesAt(query, p[1], p[2])
    BY DEF MatchPositions
  <2>2. p[1] \in Nat /\ p[2] \in Nat
    <3>1. p[1] \in 0 .. (Len(lines) - 1) /\ p[2] \in 0 .. Len(lines[p[1] + 1])
      BY <1>1, <2>1, PositionIs
    <3> QED BY <1>1, <3>1, SearchText
  <2>3. p[1] = row /\ p[2] > col => p[2] >= nb
    <3> SUFFICES ASSUME p[1] = row, p[2] > col, p[2] < nb PROVE FALSE
      BY <1>6, <2>2
    <3> DEFINE d == p[2]
    <3>1. d \in (col + 1) .. (nb - 1) /\ d + 1 \in 1 .. Len(CurLine)
      BY <1>4, <1>6, <2>2
    <3>2. CurLine[d + 1] \in Cont /\ CurLine[d + 1] \in Byte
      BY <1>4, <1>7, <3>1 DEF Line
    <3>3. Fold[CurLine[d + 1]] = Fold[query[1]]
      BY <1>3, <1>5, <2>1 DEF MatchesAt
    <3>4. query[1] \in Byte
      BY <1>1, <1>3
    <3> HIDE DEF d
    <3> QED BY <1>1, <3>2, <3>3, <3>4 DEF FoldKeepsChars
  <2>4. Here[1] = row /\ Here[2] = col
    BY DEF Here
  <2> QED BY <1>4, <1>6, <2>2, <2>3, <2>4 DEF PosBefore, pos_compare
<1>10. MatchesFrom(query, row, ClampCol(lines, row, nb))
         = {p \in MatchPositions(query) : PosBefore(Here, p)}
  BY <1>8, <1>9 DEF MatchesFrom
<1>11. LET ahead == MatchesFrom(query, row, ClampCol(lines, row, nb))
       IN  /\ isearch_has_match' = (ahead # {})
           /\ isearch_has_match' => FirstOf(Here', ahead)
  BY <1>1, <1>2, <1>4, <1>6, <1>8, ForwardFinds
<1> QED BY <1>10, <1>11 DEF query

(* C-s repeated visits every match after the first, in order, skipping none, *)
(* and says that the search fails only after the last.                       *)
THEOREM RepeatAlwaysVisitsAll ==
  ASSUME FoldKeepsChars
  PROVE  SearchSpec /\ QueriesContinue => RepeatVisitsAll
<1> DEFINE Continues ==
      \A ch \in KeyBytes \cap Cont : ExtendQuery(ch) => isearch_query # << >>
<1>1. SearchInit => QueryBegun
  BY DEF SearchInit, QueryBegun
<1>2. SearchInv /\ QueryBegun /\ [SearchNext]_allVars /\ [Continues]_allVars => QueryBegun'
  <2> SUFFICES ASSUME SearchInv, QueryBegun, [SearchNext]_allVars, [Continues]_allVars
               PROVE  QueryBegun'
    OBVIOUS
  <2>1. CASE UNCHANGED allVars
    BY <2>1 DEF allVars, searchVars, QueryBegun
  <2>2. CASE SearchNext /\ Continues
    BY <2>2, QueryBegunStep
  <2> QED BY <2>1, <2>2
<1>3. SearchInv /\ QueryBegun /\ [SearchNext]_allVars =>
        [RepeatForward /\ isearch_has_match =>
           LET ahead == {p \in MatchPositions(isearch_query) : PosBefore(Here, p)}
           IN  /\ isearch_has_match' = (ahead # {})
               /\ isearch_has_match' =>
                    Here' \in ahead /\ \A p \in ahead : ~PosBefore(p, Here')]_allVars
  BY RepeatFindsNext DEF FirstOf
<1> QED BY <1>1, <1>2, <1>3, SearchInvariance, PTL
        DEF SearchSpec, QueriesContinue, RepeatVisitsAll

=============================================================================
