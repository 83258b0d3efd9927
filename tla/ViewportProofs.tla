--------------------------- MODULE ViewportProofs ---------------------------
(***************************************************************************)
(* The cursor is on the screen whenever it has been drawn, and the syntax   *)
(* tree is that of the text, for every text, window and width of a tab.     *)
(***************************************************************************)
EXTENDS Viewport, EditingProofs

-----------------------------------------------------------------------------
(* Visible columns.                                                          *)

(* The columns taken by the byte before column c, when it begins at v.       *)
Width(line, c, v) == IF line[c] = Tab THEN TABSTOP - (v % TABSTOP) ELSE 1

VisStep(line, f, c) == IF c = 0 THEN 0 ELSE f[c - 1] + Width(line, c, f[c - 1])

LEMMA WidthPositive ==
  ASSUME NEW line, NEW c, NEW v \in Nat
  PROVE  Width(line, c, v) \in Nat \ {0}
<1>1. TABSTOP \in Nat /\ TABSTOP > 0
  BY ViewportConstants
<1>2. v % TABSTOP \in 0 .. (TABSTOP - 1)
  BY <1>1
<1> DEFINE m == v % TABSTOP
<1>3. m \in 0 .. (TABSTOP - 1)
  BY <1>2
<1> HIDE DEF m
<1>4. TABSTOP - m \in Nat \ {0}
  BY <1>1, <1>3
<1> QED BY <1>4 DEF m, Width

(* The recursion over a line's columns has a solution.                       *)
LEMMA VisExists ==
  ASSUME NEW line \in Line
  PROVE  \E f \in [0 .. Len(line) -> Nat] :
           \A c \in 0 .. Len(line) : f[c] = VisStep(line, f, c)
<1> DEFINE Solved(n) == \E f \in [0 .. n -> Nat] :
                          \A c \in 0 .. n : f[c] = VisStep(line, f, c)
           T == {n \in Nat : Solved(n)}
<1>1. Solved(0)
  <2> DEFINE f == [c \in 0 .. 0 |-> 0]
  <2>1. f \in [0 .. 0 -> Nat] /\ \A c \in 0 .. 0 : f[c] = VisStep(line, f, c)
    BY DEF VisStep
  <2> QED BY <2>1
<1>2. ASSUME NEW n \in Nat, Solved(n)
      PROVE  Solved(n + 1)
  <2>1. PICK f \in [0 .. n -> Nat] : \A c \in 0 .. n : f[c] = VisStep(line, f, c)
    BY <1>2
  <2> DEFINE w == Width(line, n + 1, f[n])
             g == [c \in 0 .. (n + 1) |-> IF c <= n THEN f[c] ELSE f[n] + w]
  <2>2. w \in Nat
    BY WidthPositive
  <2> HIDE DEF w
  <2>3. g \in [0 .. (n + 1) -> Nat]
    BY <2>2
  <2>4. ASSUME NEW c \in 0 .. (n + 1)
        PROVE  g[c] = VisStep(line, g, c)
    <3>1. CASE c = 0
      BY <3>1, <2>1 DEF VisStep
    <3>2. CASE c # 0 /\ c <= n
      <4>1. g[c] = f[c] /\ g[c - 1] = f[c - 1]
        BY <3>2
      <4> QED BY <4>1, <3>2, <2>1 DEF VisStep
    <3>3. CASE c = n + 1
      <4>1. g[c] = f[n] + w /\ g[c - 1] = f[n] /\ c # 0
        BY <3>3
      <4> QED BY <4>1, <3>3 DEF VisStep, w
    <3> QED BY <3>1, <3>2, <3>3
  <2> HIDE DEF g
  <2> QED BY <2>3, <2>4
<1>3. \A n \in Nat : n \in T
  <2> HIDE DEF Solved
  <2>1. T \in SUBSET Nat /\ 0 \in T /\ \A n \in T : n + 1 \in T
    BY <1>1, <1>2
  <2> HIDE DEF T
  <2> QED BY <2>1, SetInduction
<1>4. Len(line) \in Nat
  BY DEF Line
<1>5. Solved(Len(line))
  <2> HIDE DEF Solved
  <2> QED BY <1>3, <1>4
<1> QED BY <1>5

(* Every column has a visible column, which the byte before it moves on.     *)
LEMMA VisColumns ==
  ASSUME NEW line \in Line
  PROVE  /\ utf8_byte_to_vis_col(line, 0) = 0
         /\ \A c \in 0 .. Len(line) : utf8_byte_to_vis_col(line, c) \in Nat
         /\ \A c \in 1 .. Len(line) :
              utf8_byte_to_vis_col(line, c)
                = utf8_byte_to_vis_col(line, c - 1)
                    + Width(line, c, utf8_byte_to_vis_col(line, c - 1))
         /\ \A c \in Nat : c > Len(line) =>
              utf8_byte_to_vis_col(line, c) = utf8_byte_to_vis_col(line, Len(line))
<1> DEFINE Def(f) == f = [c \in 0 .. Len(line) |->
                            IF c = 0 THEN 0
                            ELSE f[c - 1] + IF line[c] = Tab
                                              THEN TABSTOP - (f[c - 1] % TABSTOP)
                                              ELSE 1]
           vis == CHOOSE f : Def(f)
<1>0. Len(line) \in Nat
  BY DEF Line
<1>1. PICK g \in [0 .. Len(line) -> Nat] :
        \A c \in 0 .. Len(line) : g[c] = VisStep(line, g, c)
  BY VisExists
<1>2. Def(g)
  BY <1>1 DEF VisStep, Width
<1>3. Def(vis)
  <2> HIDE DEF Def
  <2> QED BY <1>2
<1>4. \A n : utf8_byte_to_vis_col(line, n) = vis[Min({n, Len(line)})]
  BY DEF utf8_byte_to_vis_col
<1>5. \A c \in 0 .. Len(line) : vis[c] = VisStep(line, vis, c)
  <2> HIDE DEF vis
  <2> QED BY <1>3 DEF VisStep, Width
<1> HIDE DEF vis
<1>6. \A c \in 0 .. Len(line) : vis[c] \in Nat
  <2> DEFINE S == {n \in Nat : n <= Len(line) => vis[n] \in Nat}
  <2>1. 0 \in S
    BY <1>0, <1>5 DEF VisStep
  <2>2. ASSUME NEW n \in S PROVE n + 1 \in S
    <3> SUFFICES ASSUME n + 1 <= Len(line) PROVE vis[n + 1] \in Nat
      OBVIOUS
    <3>1. vis[n] \in Nat
      BY <1>0
    <3>2. vis[n + 1] = vis[n] + Width(line, n + 1, vis[n])
      BY <1>0, <1>5 DEF VisStep
    <3> QED BY <3>1, <3>2, WidthPositive
  <2>3. S \in SUBSET Nat
    OBVIOUS
  <2> HIDE DEF S
  <2>4. \A n \in Nat : n \in S
    BY <2>1, <2>2, <2>3, SetInduction
  <2> QED BY <1>0, <2>4 DEF S
<1>7. ASSUME NEW c \in Nat
      PROVE  Min({c, Len(line)}) = IF c <= Len(line) THEN c ELSE Len(line)
  <2>1. {c, Len(line)} \in SUBSET Nat /\ {c, Len(line)} # {}
    BY <1>0
  <2>2. /\ Min({c, Len(line)}) \in {c, Len(line)}
        /\ \A y \in {c, Len(line)} : Min({c, Len(line)}) <= y
    BY <2>1, MinNat
  <2> QED BY <1>0, <2>2
<1>8. ASSUME NEW c \in 0 .. Len(line)
      PROVE  utf8_byte_to_vis_col(line, c) = vis[c]
  <2>1. utf8_byte_to_vis_col(line, c) = vis[Min({c, Len(line)})]
    BY <1>4
  <2> QED BY <1>0, <1>7, <2>1
<1>9. ASSUME NEW c \in Nat, c > Len(line)
      PROVE  utf8_byte_to_vis_col(line, c) = vis[Len(line)]
  <2>1. utf8_byte_to_vis_col(line, c) = vis[Min({c, Len(line)})]
    BY <1>4
  <2>2. Min({c, Len(line)}) = Len(line)
    BY <1>0, <1>7, <1>9
  <2> QED BY <2>1, <2>2
<1>10. Len(line) \in 0 .. Len(line) /\ 0 \in 0 .. Len(line)
  BY <1>0
<1>11. utf8_byte_to_vis_col(line, 0) = 0
  BY <1>5, <1>8, <1>10 DEF VisStep
<1>12. \A c \in 0 .. Len(line) : utf8_byte_to_vis_col(line, c) \in Nat
  BY <1>6, <1>8
<1>13. ASSUME NEW c \in 1 .. Len(line)
       PROVE  utf8_byte_to_vis_col(line, c)
                = utf8_byte_to_vis_col(line, c - 1)
                    + Width(line, c, utf8_byte_to_vis_col(line, c - 1))
  <2>1. c \in 0 .. Len(line) /\ c - 1 \in 0 .. Len(line) /\ c # 0
    BY <1>0
  <2>2. vis[c] = vis[c - 1] + Width(line, c, vis[c - 1])
    BY <1>5, <2>1 DEF VisStep
  <2> QED BY <1>8, <2>1, <2>2
<1>14. \A c \in Nat : c > Len(line) =>
         utf8_byte_to_vis_col(line, c) = utf8_byte_to_vis_col(line, Len(line))
  BY <1>8, <1>9, <1>10
<1> QED BY <1>11, <1>12, <1>13, <1>14

(* Further to the right on a line is further to the right on the screen.     *)
LEMMA VisIncreases ==
  ASSUME NEW line \in Line, NEW c \in 0 .. Len(line), NEW d \in 0 .. Len(line),
         c < d
  PROVE  utf8_byte_to_vis_col(line, c) < utf8_byte_to_vis_col(line, d)
<1> DEFINE V(x) == utf8_byte_to_vis_col(line, x)
           S == {n \in Nat : c + 1 + n <= Len(line) => V(c) < V(c + 1 + n)}
<1>0. Len(line) \in Nat
  BY DEF Line
<1>1. \A x \in 0 .. Len(line) : V(x) \in Nat
  BY VisColumns
<1>2. ASSUME NEW x \in 0 .. Len(line), x + 1 <= Len(line)
      PROVE  V(x) < V(x + 1)
  <2>1. x + 1 \in 1 .. Len(line) /\ (x + 1) - 1 = x
    BY <1>0, <1>2
  <2>2. V(x + 1) = V(x) + Width(line, x + 1, V(x))
    BY <2>1, VisColumns
  <2>3. V(x) \in Nat
    BY <1>1
  <2> HIDE DEF V
  <2>4. Width(line, x + 1, V(x)) \in Nat \ {0}
    BY <2>3, WidthPositive
  <2> QED BY <2>2, <2>3, <2>4
<1> HIDE DEF V
<1>3. 0 \in S
  BY <1>2
<1>4. ASSUME NEW n \in S PROVE n + 1 \in S
  <2> SUFFICES ASSUME c + 1 + (n + 1) <= Len(line)
               PROVE  V(c) < V(c + 1 + (n + 1))
    OBVIOUS
  <2>1. /\ c + 1 + n \in 0 .. Len(line)
        /\ c + 1 + (n + 1) = (c + 1 + n) + 1
        /\ c + 1 + (n + 1) \in 0 .. Len(line)
    BY <1>0
  <2>2. V(c) < V(c + 1 + n)
    BY <2>1
  <2>3. V(c + 1 + n) < V((c + 1 + n) + 1)
    BY <1>2, <2>1
  <2>4. /\ V(c) \in Nat /\ V(c + 1 + n) \in Nat
        /\ V((c + 1 + n) + 1) \in Nat
    BY <1>1, <2>1
  <2> QED BY <2>1, <2>2, <2>3, <2>4
<1>5. \A n \in Nat : n \in S
  <2>1. S \in SUBSET Nat
    OBVIOUS
  <2> HIDE DEF S
  <2> QED BY <1>3, <1>4, <2>1, SetInduction
<1>6. d - c - 1 \in Nat /\ c + 1 + (d - c - 1) = d
  BY <1>0
<1>7. d - c - 1 \in S
  BY <1>5, <1>6
<1>8. V(c) < V(d)
  BY <1>0, <1>6, <1>7
<1> QED BY <1>8 DEF V

LEMMA VisMonotone ==
  ASSUME NEW line \in Line, NEW c \in Nat, NEW d \in Nat, c <= d
  PROVE  /\ utf8_byte_to_vis_col(line, c) \in Nat
         /\ utf8_byte_to_vis_col(line, d) \in Nat
         /\ utf8_byte_to_vis_col(line, c) <= utf8_byte_to_vis_col(line, d)
<1> DEFINE V(x) == utf8_byte_to_vis_col(line, x)
<1>0. Len(line) \in Nat
  BY DEF Line
<1>1. /\ \A x \in 0 .. Len(line) : V(x) \in Nat
      /\ \A x \in Nat : x > Len(line) => V(x) = V(Len(line))
  BY VisColumns
<1>2. \A x \in 0 .. Len(line) : \A y \in 0 .. Len(line) : x < y => V(x) < V(y)
  BY VisIncreases
<1> SUFFICES V(c) \in Nat /\ V(d) \in Nat /\ V(c) <= V(d)
  OBVIOUS
<1> HIDE DEF V
<1>3. \A x \in Nat : V(x) \in Nat
  BY <1>0, <1>1
<1>4. CASE d <= Len(line)
  <2>1. CASE c = d
    BY <2>1, <1>3
  <2>2. CASE c < d
    <3>1. c \in 0 .. Len(line) /\ d \in 0 .. Len(line)
      BY <1>0, <1>4, <2>2
    <3>2. V(c) < V(d)
      BY <1>2, <2>2, <3>1
    <3> QED BY <1>3, <3>2
  <2> QED BY <2>1, <2>2
<1>5. CASE c <= Len(line) /\ d > Len(line)
  <2>1. V(d) = V(Len(line))
    BY <1>1, <1>5
  <2>2. V(c) <= V(Len(line))
    <3>1. CASE c = Len(line)
      BY <1>0, <1>3, <3>1
    <3>2. CASE c < Len(line)
      <4>1. c \in 0 .. Len(line) /\ Len(line) \in 0 .. Len(line)
        BY <1>0, <3>2
      <4>2. V(c) < V(Len(line))
        BY <1>2, <3>2, <4>1
      <4> QED BY <1>0, <1>3, <4>2
    <3> QED BY <1>0, <1>5, <3>1, <3>2
  <2> QED BY <1>3, <2>1, <2>2
<1>6. CASE c > Len(line)
  <2>1. V(c) = V(Len(line)) /\ V(d) = V(Len(line))
    BY <1>0, <1>1, <1>6
  <2> QED BY <1>0, <1>3, <2>1
<1> QED BY <1>0, <1>4, <1>5, <1>6

(* utf8_vis_to_byte_col is the last column that is not past the given one.   *)
LEMMA VisToByte ==
  ASSUME NEW line \in Line, NEW v \in Nat
  PROVE  LET b == utf8_vis_to_byte_col(line, v)
         IN  /\ b \in 0 .. Len(line)
             /\ utf8_byte_to_vis_col(line, b) <= v
             /\ b < Len(line) => v < utf8_byte_to_vis_col(line, b + 1)
<1> DEFINE V(x) == utf8_byte_to_vis_col(line, x)
           T == {c \in 0 .. Len(line) : V(c) <= v}
           b == Max(T)
<1>0. Len(line) \in Nat
  BY DEF Line
<1>1. V(0) = 0 /\ \A x \in 0 .. Len(line) : V(x) \in Nat
  BY VisColumns
<1> HIDE DEF V
<1>2. T \in SUBSET (0 .. Len(line)) /\ 0 \in T
  BY <1>0, <1>1
<1>3. b \in T /\ \A y \in T : b >= y
  <2> HIDE DEF T
  <2> QED BY <1>0, <1>2, MaxBelow
<1>4. utf8_vis_to_byte_col(line, v) = b
  BY DEF utf8_vis_to_byte_col, V
<1> HIDE DEF b
<1>5. b \in 0 .. Len(line) /\ V(b) <= v
  BY <1>3
<1>6. ASSUME b < Len(line) PROVE v < V(b + 1)
  <2>1. b + 1 \in 0 .. Len(line) /\ b + 1 \notin T
    <3>1. b \in Int /\ b + 1 \in 0 .. Len(line)
      BY <1>0, <1>5, <1>6
    <3>2. ~(b >= b + 1)
      BY <3>1
    <3> QED BY <1>3, <3>1, <3>2
  <2>2. ~(V(b + 1) <= v)
    BY <2>1
  <2> QED BY <1>1, <2>1, <2>2
<1>7. /\ b \in 0 .. Len(line)
      /\ V(b) <= v
      /\ b < Len(line) => v < V(b + 1)
  BY <1>5, <1>6
<1> QED BY <1>4, <1>7 DEF V

(* The character that begins at a clamped column holds the column.           *)
LEMMA ClampedCharacter ==
  ASSUME NEW line \in Line, NEW c \in 0 .. Len(line)
  PROVE  LET p == utf8_clamp_col(line, c)
         IN  p < Len(line) => c + 1 <= utf8_next_boundary(line, p)
<1> DEFINE p == utf8_clamp_col(line, c)
<1> SUFFICES ASSUME p < Len(line)
             PROVE  c + 1 <= utf8_next_boundary(line, p)
  OBVIOUS
<1>0. Len(line) \in Nat
  BY DEF Line
<1>1. p \in 0 .. Len(line) /\ p <= c
  BY ClampInLine
<1>2. CASE p = c
  <2>1. utf8_next_boundary(line, p) \in 0 .. Len(line) /\ p < utf8_next_boundary(line, p)
    <3> HIDE DEF p
    <3> QED BY <1>0, <1>1, NextBoundaryInLine
  <2> QED BY <1>2, <2>1
<1>3. CASE p # c
  <2>1. /\ 0 < c /\ c < Len(line) /\ line[c + 1] \in Cont
        /\ p = utf8_prev_boundary(line, c)
    BY <1>0, <1>3 DEF utf8_clamp_col
  <2> HIDE DEF p
  <2>2. p = Max(StopsLeft(line, c))
    BY <2>1 DEF utf8_prev_boundary
  <2> DEFINE L == StopsLeft(line, c)
             n == utf8_next_boundary(line, p)
             R == StopsRight(line, p) \ {p}
  <2>3. \A x \in L : p >= x
    <3>1. L \in SUBSET (0 .. c) /\ 0 \in L
      BY <2>1 DEF StopsLeft
    <3>2. p = Max(L) /\ c \in Nat
      BY <2>2, <1>0
    <3> HIDE DEF L
    <3> QED BY <3>1, <3>2, MaxBelow
  <2>4. n \in R
    <3>1. R \in SUBSET ((p + 1) .. Len(line)) /\ Len(line) \in R
      BY <1>0, <1>1, <2>1 DEF StopsRight
    <3>2. Min(R) \in R
      <4>1. R \in SUBSET Nat /\ R # {}
        BY <1>0, <1>1, <3>1
      <4> HIDE DEF R
      <4> QED BY <4>1, MinNat
    <3>3. n = Min(R)
      BY <1>0, <1>1, <2>1 DEF utf8_next_boundary
    <3> QED BY <3>2, <3>3
  <2>5. n \in (p + 1) .. Len(line) /\ (n = Len(line) \/ line[n + 1] \notin Cont)
    <3> HIDE DEF n
    <3> QED BY <1>0, <1>1, <2>4 DEF StopsRight
  <2> HIDE DEF n
  <2>6. CASE n <= c
    <3>1. n # c
      BY <1>0, <2>1, <2>5
    <3>2. n \in L
      BY <1>0, <1>1, <2>1, <2>5, <2>6, <3>1 DEF StopsLeft
    <3>3. p >= n
      BY <2>3, <3>2
    <3> QED BY <1>0, <1>1, <2>5, <3>3
  <2>7. CASE n > c
    BY <2>5, <2>7, <1>0, <1>1 DEF n
  <2> QED BY <2>5, <2>6, <2>7, <1>0, <1>1
<1> QED BY <1>2, <1>3

-----------------------------------------------------------------------------
(* editor_scroll.                                                            *)

(* The cursor's row is shown, and no row is wasted.                          *)
LEMMA RowScrolled ==
  ASSUME NEW first \in Nat, NEW n \in Nat, Len(lines) \in Nat,
         row \in 0 .. (Len(lines) - 1)
  PROVE  LET r == ScrolledRow(first, n)
         IN  /\ r \in Nat
             /\ n > 0 => r <= row /\ row < r + n
             /\ r > 0 => r + n <= Len(lines)
BY DEF ScrolledRow

(* The cursor's column is shown, or is in the first character shown.         *)
LEMMA ColScrolled ==
  ASSUME CurLine \in Line, col \in Nat, NEW first \in Nat, NEW cols \in Nat \ {0}
  PROVE  LET c == ScrolledCol(first, cols)
             V(x) == utf8_byte_to_vis_col(CurLine, x)
         IN  /\ c \in 0 .. Len(CurLine)
             /\ V(c) <= V(col)
             /\ c < Len(CurLine) => V(col) + 1 < cols + V(utf8_next_boundary(CurLine, c))
             /\ c = Len(CurLine) => V(col) < cols + V(c)
<1> DEFINE V(x) == utf8_byte_to_vis_col(CurLine, x)
           to == IF V(col) < V(first) THEN utf8_vis_to_byte_col(CurLine, V(col))
                 ELSE IF V(col) >= V(first) + cols
                   THEN utf8_vis_to_byte_col(CurLine, V(col) - cols + 1)
                 ELSE first
           c == utf8_clamp_col(CurLine, to)
           next == utf8_next_boundary(CurLine, c)
<1>0. Len(CurLine) \in Nat
  BY DEF Line
<1>1. ScrolledCol(first, cols) = c
  BY DEF ScrolledCol
<1>2. \A x \in Nat : V(x) \in Nat
  BY VisMonotone
<1>3. \A x \in Nat : \A y \in Nat : x <= y => V(x) <= V(y)
  BY VisMonotone
<1>4. \A x \in Nat : x > Len(CurLine) => V(x) = V(Len(CurLine))
  BY VisColumns
<1>5. ASSUME NEW v \in Nat
      PROVE  /\ utf8_vis_to_byte_col(CurLine, v) \in 0 .. Len(CurLine)
             /\ V(utf8_vis_to_byte_col(CurLine, v)) <= v
             /\ utf8_vis_to_byte_col(CurLine, v) < Len(CurLine) =>
                  v < V(utf8_vis_to_byte_col(CurLine, v) + 1)
  BY VisToByte
<1> HIDE DEF V
(* Before it is clamped, the column is not to the right of the cursor, and   *)
(* the cursor is less than a screen behind the byte that begins there.       *)
<1>6. /\ to \in Nat
      /\ V(to) <= V(col)
      /\ to < Len(CurLine) => V(col) + 1 < cols + V(to + 1)
      /\ to >= Len(CurLine) => V(col) < cols + V(to)
  <2>1. CASE V(col) < V(first)
    <3>1. to = utf8_vis_to_byte_col(CurLine, V(col)) /\ V(col) \in Nat
      BY <2>1, <1>2
    <3> HIDE DEF to
    <3>2. /\ to \in 0 .. Len(CurLine) /\ V(to) <= V(col)
          /\ to < Len(CurLine) => V(col) < V(to + 1)
      BY <3>1, <1>5
    <3>3. to \in Nat /\ to + 1 \in Nat /\ V(to) \in Nat /\ V(to + 1) \in Nat
      BY <1>0, <1>2, <3>2
    <3>4. CASE to >= Len(CurLine)
      <4>1. to = Len(CurLine) /\ (col <= to \/ V(col) = V(to))
        BY <1>0, <1>4, <3>2, <3>4
      <4>2. V(col) <= V(to)
        <5>1. CASE col <= to
          <6>1. to \in Nat
            BY <1>0, <4>1
          <6> QED BY <1>3, <5>1, <6>1
        <5>2. CASE V(col) = V(to)
          <6>1. V(to) \in Nat
            BY <1>0, <1>2, <4>1
          <6> QED BY <5>2, <6>1
        <5> QED BY <4>1, <5>1, <5>2
      <4> QED BY <3>1, <3>2, <3>3, <3>4, <4>1, <4>2
    <3>5. CASE to < Len(CurLine)
      BY <1>0, <3>1, <3>2, <3>3, <3>5
    <3> QED BY <1>0, <3>3, <3>4, <3>5
  <2>2. CASE V(col) >= V(first) + cols
    <3>0. V(col) \in Nat /\ V(first) \in Nat
      BY <1>2
    <3> DEFINE v == V(col) - cols + 1
    <3>1. ~(V(col) < V(first)) /\ v \in Nat /\ v <= V(col)
      BY <3>0, <2>2
    <3>2. to = utf8_vis_to_byte_col(CurLine, v)
      BY <2>2, <3>1
    <3> HIDE DEF to, v
    <3>3. /\ to \in 0 .. Len(CurLine) /\ V(to) <= v
          /\ to < Len(CurLine) => v < V(to + 1)
      BY <3>1, <3>2, <1>5
    <3>4. to \in Nat /\ to + 1 \in Nat /\ V(to) \in Nat /\ V(to + 1) \in Nat
      BY <1>0, <1>2, <3>3
    <3>5. CASE to >= Len(CurLine)
      <4>1. to = Len(CurLine) /\ (col <= to \/ V(col) = V(to))
        BY <1>0, <1>4, <3>3, <3>5
      <4>2. V(col) <= V(to)
        <5>1. CASE col <= to
          <6>1. to \in Nat
            BY <1>0, <4>1
          <6> QED BY <1>3, <5>1, <6>1
        <5>2. CASE V(col) = V(to)
          <6>1. V(to) \in Nat
            BY <1>0, <1>2, <4>1
          <6> QED BY <5>2, <6>1
        <5> QED BY <4>1, <5>1, <5>2
      <4> QED BY <3>0, <3>1, <3>3, <3>4, <3>5, <4>1, <4>2
    <3>6. CASE to < Len(CurLine)
      <4>1. V(col) + 1 < cols + V(to + 1)
        BY <3>0, <3>3, <3>4, <3>6 DEF v
      <4> QED BY <1>0, <3>0, <3>1, <3>3, <3>4, <3>6, <4>1
    <3> QED BY <1>0, <3>4, <3>5, <3>6
  <2>3. CASE ~(V(col) < V(first)) /\ ~(V(col) >= V(first) + cols)
    <3>1. to = first
      BY <2>3
    <3> HIDE DEF to
    <3>2. V(col) \in Nat /\ V(first) \in Nat
      BY <1>2
    <3>3. V(first) <= V(col) /\ V(col) < V(first) + cols
      BY <2>3, <3>2
    <3>4. to < Len(CurLine) => V(first) < V(first + 1)
      <4> SUFFICES ASSUME first < Len(CurLine) PROVE V(first) < V(first + 1)
        BY <3>1
      <4>1. first \in 0 .. Len(CurLine) /\ first + 1 \in 0 .. Len(CurLine)
        BY <1>0
      <4> QED BY <4>1, VisIncreases DEF V
    <3>5. first + 1 \in Nat /\ V(first + 1) \in Nat
      BY <1>2
    <3> QED BY <3>1, <3>2, <3>3, <3>4, <3>5
  <2>4. V(col) \in Nat /\ V(first) \in Nat
    BY <1>2
  <2> QED BY <2>1, <2>2, <2>3
<1> HIDE DEF to
<1>7. c \in 0 .. Len(CurLine) /\ c \in Nat /\ c <= to
  BY <1>6, ClampInLine
<1>8. V(c) <= V(col)
  BY <1>2, <1>3, <1>6, <1>7
<1>9. ASSUME c < Len(CurLine)
      PROVE  V(col) + 1 < cols + V(next)
  <2> DEFINE at == IF to > Len(CurLine) THEN Len(CurLine) ELSE to
  <2>1. at \in 0 .. Len(CurLine) /\ c = utf8_clamp_col(CurLine, at)
    BY <1>0, <1>6 DEF utf8_clamp_col
  <2>2. at + 1 <= next
    <3> HIDE DEF at
    <3> QED BY <1>9, <2>1, ClampedCharacter
  <2>3. next \in 0 .. Len(CurLine)
    <3> HIDE DEF c
    <3> QED BY <1>7, NextBoundaryInLine
  <2> HIDE DEF next, c
  <2>4. to < Len(CurLine) /\ at = to
    BY <1>0, <1>6, <2>2, <2>3
  <2>5. V(to + 1) <= V(next)
    BY <1>0, <1>3, <1>6, <2>2, <2>3, <2>4
  <2>6. V(to + 1) \in Nat /\ V(next) \in Nat /\ V(col) \in Nat
    <3>1. to + 1 \in Nat /\ next \in Nat
      BY <1>0, <1>6, <2>3
    <3> QED BY <1>2, <3>1
  <2> QED BY <1>6, <2>4, <2>5, <2>6
<1>10. ASSUME c = Len(CurLine)
       PROVE  V(col) < cols + V(c)
  <2>1. to >= Len(CurLine)
    BY <1>0, <1>6, <1>7, <1>10
  <2>2. V(to) = V(c)
    <3> HIDE DEF c
    <3> QED BY <1>0, <1>4, <1>6, <1>10, <2>1
  <2> QED BY <1>6, <2>1, <2>2
<1> HIDE DEF c
<1>11. /\ c \in 0 .. Len(CurLine)
       /\ V(c) <= V(col)
       /\ c < Len(CurLine) => V(col) + 1 < cols + V(utf8_next_boundary(CurLine, c))
       /\ c = Len(CurLine) => V(col) < cols + V(c)
  BY <1>7, <1>8, <1>9, <1>10
<1> QED BY <1>1, <1>11 DEF V

-----------------------------------------------------------------------------
(* The invariant.                                                            *)

ViewVarsType ==
  /\ row_offset \in Nat /\ col_offset \in Nat
  /\ screen \in ScreenSizes
  /\ syntax_enabled \in BOOLEAN
  /\ tree \in {"none", "text", "stale"}
  /\ drawn \in BOOLEAN

(* A tree of another text is one that the next drawing makes again.          *)
StaleIsMarked == syntax_enabled /\ tree = "stale" => syntax_dirty

ViewInv ==
  /\ IInv /\ ViewVarsType
  /\ StaleIsMarked /\ TreeIsOfText
  /\ CursorOnScreen

LEMMA MaxTwo ==
  ASSUME NEW i \in Int, NEW j \in Int
  PROVE  Max({i, j}) = IF i >= j THEN i ELSE j
<1> DEFINE m == IF i >= j THEN i ELSE j
<1>1. m \in {i, j} /\ \A y \in {i, j} : m >= y
  OBVIOUS
<1>2. \A x \in {i, j} : (\A y \in {i, j} : x >= y) => x = m
  OBVIOUS
<1> HIDE DEF m
<1>3. Max({i, j}) = m
  BY <1>1, <1>2 DEF Max
<1> QED BY <1>3 DEF m

LEMMA MinTwo ==
  ASSUME NEW i \in Nat, NEW j \in Nat
  PROVE  Min({i, j}) = IF i <= j THEN i ELSE j
<1>1. {i, j} \in SUBSET Nat /\ {i, j} # {}
  OBVIOUS
<1>2. Min({i, j}) \in {i, j} /\ \A y \in {i, j} : Min({i, j}) <= y
  BY <1>1, MinNat
<1> QED BY <1>2

LEMMA TextSize ==
  ASSUME IInv
  PROVE  /\ lines \in Text /\ Len(lines) \in Nat \ {0}
         /\ row \in 0 .. (Len(lines) - 1) /\ col \in Nat
         /\ CurLine \in Line
         /\ \A r \in 0 .. (Len(lines) - 1) : lines[r + 1] \in Line
<1>1. /\ lines \in Text /\ row \in 0 .. (Len(lines) - 1) /\ col \in Nat
  BY DEF IInv, TypeOK
<1>2. Len(lines) \in Nat \ {0} /\ \A i \in 1 .. Len(lines) : lines[i] \in Line
  BY <1>1, TextLines
<1>3. \A r \in 0 .. (Len(lines) - 1) : lines[r + 1] \in Line
  BY <1>2
<1> QED BY <1>1, <1>2, <1>3 DEF CurLine

LEMMA ViewInitInvariant == ViewInit => ViewInv
<1> SUFFICES ASSUME ViewInit PROVE ViewInv
  OBVIOUS
<1>1. IInv
  BY InitInvariant DEF ViewInit
<1>2. ViewVarsType /\ StaleIsMarked /\ TreeIsOfText
  BY DEF ViewInit, ViewVarsType, StaleIsMarked, TreeIsOfText
<1>3. CursorOnScreen
  <2>1. row = 0 /\ col = 0 /\ row_offset = 0 /\ col_offset = 0
    BY DEF ViewInit, Init
  <2>2. CursorCol = 1
    <3> DEFINE v == utf8_byte_to_vis_col(CurLine, 0)
    <3>1. v = 0
      BY <1>1, TextSize, VisColumns
    <3> HIDE DEF v
    <3>2. CursorCol = v - v + 1
      BY <2>1 DEF CursorCol, v
    <3> QED BY <3>1, <3>2
  <2>3. FirstWidth \in Nat \ {0}
    <3>1. CASE Len(CurLine) = 0
      BY <2>1, <3>1 DEF FirstWidth
    <3>2. CASE Len(CurLine) # 0
      <4> DEFINE n == utf8_next_boundary(CurLine, 0)
                 V(x) == utf8_byte_to_vis_col(CurLine, x)
      <4>0. CurLine \in Line /\ Len(CurLine) \in Nat
        BY <1>1, TextSize DEF Line
      <4>1. n \in 0 .. Len(CurLine) /\ 0 < n
        BY <3>2, <4>0, NextBoundaryInLine
      <4> HIDE DEF n
      <4>2. V(0) \in Nat /\ V(n) \in Nat /\ V(0) < V(n)
        <5>1. n \in Nat /\ 0 \in 0 .. Len(CurLine)
          BY <4>0, <4>1
        <5>2. V(0) < V(n)
          BY <4>0, <4>1, <5>1, VisIncreases
        <5>3. V(0) \in Nat /\ V(n) \in Nat
          BY <4>0, <5>1, VisMonotone
        <5> QED BY <5>2, <5>3
      <4> HIDE DEF V
      <4>3. FirstWidth = V(n) - V(0)
        BY <2>1, <3>2, <4>0 DEF FirstWidth, n, V
      <4> QED BY <4>2, <4>3
    <3> QED BY <3>1, <3>2
  <2>4. screen.cols \in Nat \ {0}
    BY ViewportConstants DEF ViewInit
  <2>5. TextRows > 0 => row_offset <= row /\ row < row_offset + TextRows
    BY <2>1, ViewportConstants DEF TextRows, ViewInit
  <2>6. ~(row_offset > 0)
    BY <2>1
  <2> QED BY <2>2, <2>3, <2>4, <2>5, <2>6 DEF CursorOnScreen
<1> QED BY <1>1, <1>2, <1>3 DEF ViewInv

(* An editing key.                                                           *)
LEMMA EditedView ==
  ASSUME ViewInv, Edited
  PROVE  ViewInv'
<1>1. IInv'
  BY NextInvariant DEF ViewInv, Edited
<1>2. ViewVarsType'
  BY DEF ViewInv, ViewVarsType, Edited, offsetVars
<1>3. StaleIsMarked'
  <2>1. SetDirty \/ UNCHANGED <<lines, dirty, syntax_dirty>>
    BY StepMarks DEF Edited
  <2>2. CASE SetDirty
    BY <2>2 DEF SetDirty, StaleIsMarked
  <2>3. CASE UNCHANGED <<lines, dirty, syntax_dirty>>
    BY <2>3 DEF ViewInv, StaleIsMarked, Edited
  <2> QED BY <2>1, <2>2, <2>3
<1>4. drawn' = FALSE
  BY DEF Edited
<1> QED BY <1>1, <1>2, <1>3, <1>4 DEF ViewInv, TreeIsOfText, CursorOnScreen

(* The mouse leaves the cursor on a row of the text.                         *)
LEMMA MousePlaced ==
  ASSUME ViewInv, Mouse, NEW r \in 0 .. (Len(lines) - 1), NEW c \in Nat,
         row' = r, col' = c, mark' \in MarkType,
         row_offset' \in Nat, col_offset' \in Nat
  PROVE  ViewInv'
<1>1. IInv
  BY DEF ViewInv
<1>2. Placed(lines, r, c)
  BY <1>1, TextSize DEF Placed, Mouse
<1>3. RingTypeOK'
  BY <1>1, RingUnchanged DEF Mouse, IInv, TypeOK
<1>4. yank' \in YankType /\ dirty' \in BOOLEAN /\ syntax_dirty' \in BOOLEAN
  BY <1>1 DEF Mouse, flagVars, IInv, TypeOK, YankType
<1>5. IInv'
  BY <1>2, <1>3, <1>4, CommandStep DEF Mouse
<1>6. ViewVarsType'
  BY DEF ViewInv, ViewVarsType, Mouse
<1>7. StaleIsMarked'
  BY DEF ViewInv, StaleIsMarked, Mouse, flagVars
<1>8. drawn' = FALSE
  BY DEF Mouse
<1> QED BY <1>5, <1>6, <1>7, <1>8 DEF ViewInv, TreeIsOfText, CursorOnScreen

LEMMA WheelView ==
  ASSUME ViewInv, WheelUp \/ WheelDown
  PROVE  ViewInv'
<1>1. /\ Len(lines) \in Nat \ {0} /\ row \in 0 .. (Len(lines) - 1) /\ col \in Nat
  BY TextSize DEF ViewInv
<1>2. row_offset \in Nat /\ col_offset \in Nat /\ mark \in MarkType
  BY DEF ViewInv, ViewVarsType, IInv, TypeOK, MarkType
<1>3. Mouse /\ col' = col /\ col_offset' = col_offset /\ mark' = mark
  BY DEF WheelUp, WheelDown
<1>4. row_offset' \in Nat /\ row' \in 0 .. (Len(lines) - 1)
  <2>1. CASE WheelUp
    <3>1. Max({row - 1, 0}) = IF row - 1 >= 0 THEN row - 1 ELSE 0
      BY <1>1, MaxTwo
    <3> QED BY <1>1, <1>2, <2>1, <3>1 DEF WheelUp
  <2>2. CASE WheelDown
    <3>1. Min({row + 1, Len(lines) - 1})
            = IF row + 1 <= Len(lines) - 1 THEN row + 1 ELSE Len(lines) - 1
      BY <1>1, MinTwo
    <3> QED BY <1>1, <1>2, <2>2, <3>1 DEF WheelDown
  <2> QED BY <2>1, <2>2
<1> QED BY <1>1, <1>2, <1>3, <1>4, MousePlaced

LEMMA ClickView ==
  ASSUME ViewInv, NEW x \in Nat \ {0}, NEW y \in Nat \ {0},
         Press(x, y) \/ Release(x, y) \/ Drag(x, y)
  PROVE  ViewInv'
<1>1. /\ Len(lines) \in Nat \ {0} /\ row \in 0 .. (Len(lines) - 1) /\ col \in Nat
      /\ \A r \in 0 .. (Len(lines) - 1) : lines[r + 1] \in Line
  BY TextSize DEF ViewInv
<1>2. row_offset \in Nat /\ col_offset \in Nat /\ mark \in MarkType
  BY DEF ViewInv, ViewVarsType, IInv, TypeOK, MarkType
<1>3. /\ Mouse /\ MoveFrame(PointedRow(y), PointedCol(x))
      /\ UNCHANGED offsetVars
  BY DEF Press, Release, Drag
<1> DEFINE r == PointedRow(y)
           c == PointedCol(x)
<1>4. r \in 0 .. (Len(lines) - 1)
  <2>1. row_offset + y - 1 \in Nat /\ Len(lines) - 1 \in Nat
    BY <1>1, <1>2
  <2> QED BY <2>1, MinTwo DEF PointedRow
<1>5. c \in Nat
  BY <1>2 DEF PointedCol
<1> HIDE DEF r, c
<1>6. mark' \in MarkType
  <2>1. CASE Press(x, y)
    BY <1>4, <1>5, <2>1 DEF Press, MarkType, r, c
  <2>2. CASE Release(x, y)
    BY <1>2, <2>2 DEF Release, MarkType
  <2>3. CASE Drag(x, y)
    BY <1>1, <1>2, <2>3 DEF Drag, MarkType
  <2> QED BY <2>1, <2>2, <2>3
<1>7. row' = r /\ col' = utf8_clamp_col(lines[r + 1], c)
  BY <1>3 DEF MoveFrame, r, c
<1>8. utf8_clamp_col(lines[r + 1], c) \in Nat
  BY <1>1, <1>4, <1>5, ClampInLine
<1>9. row_offset' \in Nat /\ col_offset' \in Nat
  BY <1>2, <1>3 DEF offsetVars
<1> QED BY <1>3, <1>4, <1>6, <1>7, <1>8, <1>9, MousePlaced

LEMMA OpenView ==
  ASSUME ViewInv, OpenFile \/ OpenFileFails
  PROVE  ViewInv'
<1>1. FrameToStart /\ syntax_enabled' \in BOOLEAN /\ syntax_dirty' = syntax_enabled'
  BY DEF OpenFile, OpenFileFails
<1>2. lines' \in Text /\ tree' \in {"none", "text", "stale"}
  BY EditingConstants DEF OpenFile, OpenFileFails, ViewInv, IInv, TypeOK,
     ViewVarsType
<1>3. Placed(lines', 0, 0)
  <2>1. 0 \in 0 .. (Len(lines') - 1)
    BY <1>2, TextLines
  <2> QED BY <1>1, <1>2, <2>1 DEF Placed, FrameToStart
<1>4. RingTypeOK'
  BY <1>1, RingUnchanged DEF FrameToStart, ViewInv, IInv, TypeOK
<1>5. mark' \in MarkType /\ yank' \in YankType /\ dirty' \in BOOLEAN
  BY <1>1 DEF FrameToStart, ViewInv, IInv, TypeOK, MarkType, YankType
<1>6. IInv'
  BY <1>1, <1>3, <1>4, <1>5, CommandStep DEF FrameToStart
<1>7. ViewVarsType' /\ StaleIsMarked' /\ drawn' = FALSE
  BY <1>1, <1>2 DEF FrameToStart, ViewInv, ViewVarsType, StaleIsMarked
<1> QED BY <1>6, <1>7 DEF ViewInv, TreeIsOfText, CursorOnScreen

LEMMA RefreshView ==
  ASSUME ViewInv, Refresh
  PROVE  ViewInv'
<1>0. /\ IInv /\ ViewVarsType
      /\ Len(lines) \in Nat /\ row \in 0 .. (Len(lines) - 1) /\ col \in Nat
      /\ CurLine \in Line /\ Len(CurLine) \in Nat
      /\ row_offset \in Nat /\ col_offset \in Nat
  BY TextSize DEF ViewInv, ViewVarsType, Line
<1>1. /\ UNCHANGED <<ringVars, lines, frameVars, mark, yank, last_was_kill,
                     last_was_yank, esc_state, dirty>>
      /\ syntax_dirty' \in BOOLEAN
  BY <1>0 DEF Refresh, IInv, TypeOK
<1>2. IInv'
  <2>1. RingTypeOK'
    BY <1>0, <1>1, RingUnchanged DEF IInv, TypeOK
  <2> QED BY <1>0, <1>1, <2>1 DEF IInv, TypeOK, EscClearsFlags, frameVars
<1>3. screen' \in ScreenSizes /\ screen'.rows \in Nat /\ screen'.cols \in Nat \ {0}
  BY ViewportConstants DEF Refresh
<1> DEFINE n == IF screen'.rows > 1 THEN screen'.rows - 1 ELSE 0
           cols == screen'.cols
           V(x) == utf8_byte_to_vis_col(CurLine, x)
           c == ScrolledCol(col_offset, cols)
<1>4. n \in Nat /\ cols \in Nat \ {0} /\ TextRows' = n
  BY <1>3 DEF TextRows
<1>5. row_offset' = ScrolledRow(row_offset, n) /\ col_offset' = c
  BY DEF Refresh
<1>6. /\ row_offset' \in Nat
      /\ n > 0 => row_offset' <= row /\ row < row_offset' + n
      /\ row_offset' > 0 => row_offset' + n <= Len(lines)
  <2> HIDE DEF n
  <2> QED BY <1>0, <1>4, <1>5, RowScrolled
<1>7. /\ c \in 0 .. Len(CurLine)
      /\ V(c) <= V(col)
      /\ c < Len(CurLine) => V(col) + 1 < cols + V(utf8_next_boundary(CurLine, c))
      /\ c = Len(CurLine) => V(col) < cols + V(c)
  <2> HIDE DEF cols
  <2> QED BY <1>0, <1>4, ColScrolled
<1>8. CurLine' = CurLine /\ row' = row /\ col' = col /\ lines' = lines
  BY <1>1 DEF CurLine, frameVars
<1> DEFINE next == utf8_next_boundary(CurLine, c)
<1>9. next \in Nat
  <2> HIDE DEF c
  <2> QED BY <1>0, <1>7, NextBoundaryInLine
<1>10. V(c) \in Nat /\ V(col) \in Nat /\ V(next) \in Nat
  <2>1. c \in Nat
    BY <1>0, <1>7
  <2> HIDE DEF c, next
  <2> QED BY <1>0, <1>9, <2>1, VisMonotone
<1>11. CursorCol' = V(col) - V(c) + 1
  BY <1>5, <1>8 DEF CursorCol
<1>12. FirstWidth' = IF c >= Len(CurLine) THEN 1 ELSE V(next) - V(c)
  BY <1>5, <1>8 DEF FirstWidth
<1>13. screen.cols' = cols
  OBVIOUS
<1> HIDE DEF c, next, V, cols, n
<1>14. 1 <= CursorCol' /\ CursorCol' < cols + FirstWidth'
  <2>1. CASE c < Len(CurLine)
    BY <1>0, <1>4, <1>7, <1>10, <1>11, <1>12, <2>1 DEF next
  <2>2. CASE c = Len(CurLine)
    BY <1>0, <1>4, <1>7, <1>10, <1>11, <1>12, <2>2
  <2> QED BY <1>0, <1>7, <2>1, <2>2
<1>15. CursorOnScreen'
  BY <1>4, <1>6, <1>8, <1>13, <1>14 DEF CursorOnScreen
<1>16. StaleIsMarked' /\ TreeIsOfText' /\ tree' \in {"none", "text", "stale"}
  BY <1>0 DEF Refresh, ViewInv, ViewVarsType, StaleIsMarked, TreeIsOfText
<1>17. ViewVarsType'
  BY <1>0, <1>3, <1>5, <1>6, <1>7, <1>16 DEF Refresh, ViewVarsType
<1> QED BY <1>2, <1>15, <1>16, <1>17 DEF ViewInv

LEMMA ViewInvariant == ViewInv /\ [ViewNext]_allVars => ViewInv'
<1> SUFFICES ASSUME ViewInv, [ViewNext]_allVars PROVE ViewInv'
  OBVIOUS
<1>1. CASE UNCHANGED allVars
  <2>1. UNCHANGED vars /\ UNCHANGED viewVars
    BY <1>1 DEF allVars
  <2>2. IInv'
    BY <2>1, NextInvariant DEF ViewInv
  <2>3. UNCHANGED <<lines, row, col, syntax_dirty, row_offset, col_offset, screen,
                    syntax_enabled, tree, drawn>>
    BY <2>1 DEF vars, viewVars, offsetVars
  <2>4. CursorOnScreen'
    BY <2>3 DEF ViewInv, CursorOnScreen, CursorCol, FirstWidth, TextRows, CurLine
  <2> QED BY <2>2, <2>3, <2>4 DEF ViewInv, ViewVarsType, StaleIsMarked, TreeIsOfText
<1>2. CASE Edited
  BY <1>2, EditedView
<1>3. CASE MouseEvent
  <2>1. CASE WheelUp \/ WheelDown
    BY <2>1, WheelView
  <2>2. ASSUME NEW x \in 1 .. screen.cols, NEW y \in 1 .. TextRows,
               Press(x, y) \/ Release(x, y) \/ Drag(x, y)
        PROVE  ViewInv'
    <3>1. screen.cols \in Nat /\ TextRows \in Nat
      BY ViewportConstants DEF ViewInv, ViewVarsType, TextRows
    <3>2. x \in Nat \ {0} /\ y \in Nat \ {0}
      BY <3>1
    <3> QED BY <2>2, <3>2, ClickView
  <2> QED BY <1>3, <2>1, <2>2 DEF MouseEvent
<1>4. CASE OpenFile \/ OpenFileFails
  BY <1>4, OpenView
<1>5. CASE Refresh
  BY <1>5, RefreshView
<1> QED BY <1>1, <1>2, <1>3, <1>4, <1>5 DEF ViewNext

LEMMA ViewInvariance == ViewSpec => []ViewInv
BY ViewInitInvariant, ViewInvariant, PTL DEF ViewSpec

(* The mouse and opening files keep the frame in the text too.               *)
THEOREM ViewTypeCorrect == ViewSpec => []ViewTypeOK
<1>1. ViewInv => ViewTypeOK
  BY DEF ViewInv, ViewVarsType, IInv, ViewTypeOK
<1> QED BY <1>1, ViewInvariance, PTL

(* After every drawing the cursor is on the screen, or in the character at   *)
(* its left edge, for any text, window and width of a tab.                   *)
THEOREM CursorAlwaysShown == ViewSpec => []CursorOnScreen
<1>1. ViewInv => CursorOnScreen
  BY DEF ViewInv
<1> QED BY <1>1, ViewInvariance, PTL

(* What is drawn is highlighted by the tree of the text drawn.               *)
THEOREM TreeMatchesText == ViewSpec => []TreeIsOfText
<1>1. ViewInv => TreeIsOfText
  BY DEF ViewInv
<1> QED BY <1>1, ViewInvariance, PTL

-----------------------------------------------------------------------------
(* The wheel, and the selection.                                             *)

(* Where the text goes on below, the view scrolls down by a row, and stays   *)
(* there when it is drawn, for any window and text.                          *)
THEOREM WheelAlwaysScrolls == ViewSpec => WheelScrolls
<1>1. ASSUME ViewInv, drawn, WheelDown, row_offset + TextRows < Len(lines)
      PROVE  ScrolledRow(row_offset, TextRows)' = row_offset + 1
  <2>1. /\ Len(lines) \in Nat \ {0} /\ row \in 0 .. (Len(lines) - 1)
        /\ row_offset \in Nat
    BY <1>1, TextSize DEF ViewInv, ViewVarsType
  <2>2. TextRows \in Nat /\ TextRows > 0
    BY <1>1, ViewportConstants DEF ViewInv, ViewVarsType, TextRows, WheelDown
  <2>3. row_offset <= row /\ row < row_offset + TextRows
    BY <1>1, <2>2 DEF ViewInv, CursorOnScreen
  <2>4. /\ row_offset' = row_offset + 1 /\ row' = Min({row + 1, Len(lines) - 1})
        /\ lines' = lines /\ screen' = screen
    BY <1>1, <2>1, <2>2 DEF WheelDown, Mouse
  <2>5. row' = row + 1
    <3>1. row + 1 \in Nat /\ Len(lines) - 1 \in Nat /\ row + 1 <= Len(lines) - 1
      BY <1>1, <2>1, <2>2, <2>3
    <3> QED BY <2>4, <3>1, MinTwo
  <2>6. TextRows' = TextRows
    BY <2>4 DEF TextRows
  <2> HIDE DEF TextRows
  <2> QED BY <1>1, <2>1, <2>2, <2>3, <2>4, <2>5, <2>6 DEF ScrolledRow
<1>2. ViewInv /\ [ViewNext]_allVars =>
        [drawn /\ WheelDown /\ row_offset + TextRows < Len(lines) =>
           ScrolledRow(row_offset, TextRows)' = row_offset + 1]_allVars
  BY <1>1
<1> QED BY <1>2, ViewInvariance, PTL DEF ViewSpec, WheelScrolls

(* The part of row r that is in the region, if the row is.                   *)
RegionPart(r) ==
  LET from == IF r = Region.start_row THEN ClampCol(lines, r, Region.start_col)
                                      ELSE 0
      to == IF r = Region.end_row THEN ClampCol(lines, r, Region.end_col)
                                  ELSE line_length(lines, r)
  IN  SubSeq(LineAt(lines, r), from + 1, to)

LEMMA ShownIsPart ==
  ASSUME IInv, NEW r \in Nat
  PROVE  ShownSelected(r) =
           IF mark.active /\ Region.start_row <= r /\ r <= Region.end_row
             THEN RegionPart(r) ELSE << >>
<1> DEFINE swap == pos_compare(mark.row, mark.col, row, col) > 0
           first == IF swap THEN <<row, col>> ELSE <<mark.row, mark.col>>
           last == IF swap THEN <<mark.row, mark.col>> ELSE <<row, col>>
<1>1. /\ first = <<Region.start_row, Region.start_col>>
      /\ last = <<Region.end_row, Region.end_col>>
  BY DEF Region, MarkFirst, pos_compare
<1>2. Region.start_col \in Nat /\ Region.end_col \in Nat
  BY RegionType
<1>3. LineAt(lines, r) \in Line /\ line_length(lines, r) = Len(LineAt(lines, r))
  BY TextSize, LineAtType DEF line_length
<1>4. Len(LineAt(lines, r)) \in Nat
  BY <1>3 DEF Line
<1>5. ASSUME NEW c \in Nat
      PROVE  Min({c, Len(LineAt(lines, r))}) = ClampCol(lines, r, c)
  <2>1. Min({c, Len(LineAt(lines, r))})
          = IF c <= Len(LineAt(lines, r)) THEN c ELSE Len(LineAt(lines, r))
    BY <1>4, MinTwo
  <2> QED BY <1>3, <1>4, <2>1 DEF ClampCol
<1>6. ShownSelected(r) =
        LET line == LineAt(lines, r)
            from == IF r = first[1] THEN Min({first[2], Len(line)}) ELSE 0
            to   == IF r = last[1] THEN Min({last[2], Len(line)}) ELSE Len(line)
        IN  IF mark.active /\ first[1] <= r /\ r <= last[1]
              THEN SubSeq(line, from + 1, to) ELSE << >>
  BY DEF ShownSelected
<1> HIDE DEF first, last
<1>7. /\ Min({Region.start_col, Len(LineAt(lines, r))})
           = ClampCol(lines, r, Region.start_col)
      /\ Min({Region.end_col, Len(LineAt(lines, r))})
           = ClampCol(lines, r, Region.end_col)
  BY <1>2, <1>5
<1> QED BY <1>1, <1>3, <1>6, <1>7 DEF RegionPart

LEMMA SelectionRight ==
  ASSUME IInv
  PROVE  SelectionIsRegion
<1> DEFINE reg == Region
           n == reg.end_row - reg.start_row + 1
<1>1. /\ reg.start_row \in Nat /\ reg.start_col \in Nat
      /\ reg.end_row \in Nat /\ reg.end_col \in Nat
      /\ pos_compare(reg.start_row, reg.start_col, reg.end_row, reg.end_col) <= 0
  BY RegionType
<1>2. reg.start_row <= reg.end_row
  <2> HIDE DEF reg
  <2> QED BY <1>1 DEF pos_compare
<1>3. editor_copy_region_text = [i \in 1 .. n |-> RegionPart(reg.start_row + i - 1)]
  BY DEF editor_copy_region_text, RegionPart
<1>4. ASSUME NEW r \in 0 .. (Len(lines) - 1), ShownSelected(r) # << >>
      PROVE  /\ HasRegion
             /\ ShownSelected(r) = editor_copy_region_text[r - reg.start_row + 1]
  <2>1. r \in Nat /\ r < Len(lines)
    BY TextSize
  <2>2. mark.active /\ reg.start_row <= r /\ r <= reg.end_row
        /\ ShownSelected(r) = RegionPart(r)
    BY <1>4, <2>1, ShownIsPart
  <2>3. HasRegion
    <3> SUFFICES ASSUME mark.row = row, mark.col = col PROVE FALSE
      BY <2>2 DEF HasRegion
    <3>1. /\ reg.start_row = row /\ reg.end_row = row
          /\ reg.start_col = col /\ reg.end_col = col
      BY DEF Region
    <3>2. r = row
      BY <1>1, <2>1, <2>2, <3>1
    <3> DEFINE c == ClampCol(lines, row, col)
    <3>3. c \in Nat
      <4>1. lines \in Text /\ row \in Nat /\ col \in Nat
        BY TextSize
      <4>2. line_length(lines, row) \in Nat /\ c \in 0 .. line_length(lines, row)
        BY <4>1, LineAtType
      <4> HIDE DEF c
      <4> QED BY <4>2
    <3>4. RegionPart(r) = SubSeq(LineAt(lines, row), c + 1, c)
      BY <3>1, <3>2 DEF RegionPart
    <3> HIDE DEF c
    <3>5. SubSeq(LineAt(lines, row), c + 1, c) = << >>
      BY <3>3, SubSeqEmpty
    <3> QED BY <1>4, <2>2, <3>4, <3>5
  <2>4. r - reg.start_row + 1 \in 1 .. n
        /\ reg.start_row + (r - reg.start_row + 1) - 1 = r
    <3> HIDE DEF reg
    <3> QED BY <1>1, <2>1, <2>2
  <2> HIDE DEF n, reg
  <2>5. editor_copy_region_text[r - reg.start_row + 1] = RegionPart(r)
    BY <1>3, <2>4
  <2> QED BY <2>2, <2>3, <2>5
<1>5. ASSUME HasRegion, NEW i \in DOMAIN editor_copy_region_text
      PROVE  editor_copy_region_text[i] = ShownSelected(reg.start_row + i - 1)
  <2>1. i \in 1 .. n
    BY <1>3
  <2>2. /\ reg.start_row + i - 1 \in Nat
        /\ reg.start_row <= reg.start_row + i - 1
        /\ reg.start_row + i - 1 <= reg.end_row
    <3> HIDE DEF reg
    <3> QED BY <1>1, <1>2, <2>1
  <2>3. ShownSelected(reg.start_row + i - 1) = RegionPart(reg.start_row + i - 1)
    BY <1>5, <2>2, ShownIsPart DEF HasRegion
  <2> QED BY <1>3, <2>1, <2>3
<1> QED BY <1>4, <1>5 DEF SelectionIsRegion

(* What is shown as selected is what a kill or a copy takes, for any mark    *)
(* that keys, the mouse or another file left behind.                         *)
THEOREM SelectionAlwaysRight == ViewSpec => []SelectionIsRegion
<1>1. ViewInv => SelectionIsRegion
  BY SelectionRight DEF ViewInv
<1> QED BY <1>1, ViewInvariance, PTL

=============================================================================
