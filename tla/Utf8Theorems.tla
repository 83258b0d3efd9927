--------------------------- MODULE Utf8Theorems ---------------------------
(***************************************************************************)
(* Facts about sets of numbers, recursion on numbers, flattened sequences   *)
(* and the operators of Utf8, for every line.                               *)
(***************************************************************************)
EXTENDS Utf8, SequencesExt, SequenceTheorems, WellFoundedInduction, TLAPS

(* A non-empty set of natural numbers has a least element, which Min picks.  *)
LEMMA MinNat ==
  ASSUME NEW T \in SUBSET Nat, T # {}
  PROVE  Min(T) \in T /\ \A y \in T : Min(T) <= y
<1> DEFINE R == OpToRel(<, Nat)
<1>1. PICK x \in T : \A y \in T : ~ (<<y, x>> \in R)
  <2>1. IsWellFoundedOn(R, Nat)
    BY NatLessThanWellFounded
  <2> HIDE DEF R
  <2> QED BY <2>1, WFMin
<1>2. \A y \in T : ~(y < x)
  BY <1>1 DEF OpToRel
<1>3. \A y \in T : x <= y
  BY <1>2
<1> QED BY <1>3 DEF Min

(* Induction, over a set of natural numbers.                                 *)
LEMMA SetInduction ==
  ASSUME NEW S \in SUBSET Nat, 0 \in S, \A n \in S : n + 1 \in S
  PROVE  \A n \in Nat : n \in S
<1> SUFFICES ASSUME Nat \ S # {} PROVE FALSE
  OBVIOUS
<1> DEFINE m == Min(Nat \ S)
<1>1. m \in Nat \ S /\ \A y \in Nat \ S : m <= y
  BY MinNat
<1> HIDE DEF m
<1>2. m - 1 \in Nat /\ m - 1 \in S
  BY <1>1
<1>3. (m - 1) + 1 = m
  BY <1>1
<1> QED BY <1>1, <1>2, <1>3

(* A non-empty set of natural numbers up to n has a greatest element, which  *)
(* Max picks.                                                                *)
LEMMA MaxBelow ==
  ASSUME NEW n \in Nat, NEW T \in SUBSET (0 .. n), T # {}
  PROVE  Max(T) \in T /\ \A y \in T : Max(T) >= y
<1> DEFINE D == {n - x : x \in T}
<1>1. D \in SUBSET Nat
  OBVIOUS
<1>0. D # {}
  <2>1. PICK x \in T : TRUE
    OBVIOUS
  <2>2. n - x \in D
    BY <2>1
  <2> QED BY <2>2
<1>2. Min(D) \in D /\ \A y \in D : Min(D) <= y
  <2> HIDE DEF D
  <2> QED BY <1>0, <1>1, MinNat
<1>3. PICK x \in T : Min(D) = n - x
  BY <1>2
<1>4. \A y \in T : x >= y
  BY <1>2, <1>3
<1> QED BY <1>4 DEF Max

-----------------------------------------------------------------------------
(* Columns.                                                                  *)

(* The next boundary is to the right, and within the line.                   *)
LEMMA NextBoundaryInLine ==
  ASSUME NEW line \in Line, NEW col \in Nat
  PROVE  /\ utf8_next_boundary(line, col) \in 0 .. Len(line)
         /\ col < Len(line) => col < utf8_next_boundary(line, col)
<1> Len(line) \in Nat
  BY DEF Line
<1>1. CASE col >= Len(line)
  BY <1>1 DEF utf8_next_boundary
<1>2. CASE col < Len(line)
  <2> DEFINE T == StopsRight(line, col) \ {col}
  <2>1. T \in SUBSET ((col + 1) .. Len(line)) /\ Len(line) \in T
    BY <1>2 DEF StopsRight
  <2>2. Min(T) \in T
    <3> HIDE DEF T
    <3> QED BY <2>1, MinNat
  <2> QED BY <1>2, <2>1, <2>2 DEF utf8_next_boundary
<1> QED BY <1>1, <1>2

(* The previous boundary is to the left, on whatever bytes the walk reads.   *)
LEMMA PrevBoundaryLeft ==
  ASSUME NEW line, NEW col \in Nat
  PROVE  /\ utf8_prev_boundary(line, col) \in 0 .. col
         /\ 0 < col => utf8_prev_boundary(line, col) < col
<1>1. CASE col = 0
  BY <1>1 DEF utf8_prev_boundary
<1>2. CASE 0 < col
  <2> DEFINE T == StopsLeft(line, col)
  <2>1. T \in SUBSET (0 .. (col - 1)) /\ 0 \in T
    BY <1>2 DEF StopsLeft
  <2>2. Max(T) \in T
    <3> HIDE DEF T
    <3>1. col - 1 \in Nat
      BY <1>2
    <3> QED BY <2>1, <3>1, MaxBelow
  <2> QED BY <1>2, <2>1, <2>2 DEF utf8_prev_boundary
<1> QED BY <1>1, <1>2

(* A clamped column is within the line and not to the right of the column.   *)
LEMMA ClampInLine ==
  ASSUME NEW line \in Line, NEW col \in Nat
  PROVE  /\ utf8_clamp_col(line, col) \in 0 .. Len(line)
         /\ utf8_clamp_col(line, col) \in Nat
         /\ utf8_clamp_col(line, col) <= col
<1> Len(line) \in Nat
  BY DEF Line
<1> DEFINE c == IF col > Len(line) THEN Len(line) ELSE col
<1>1. c \in 0 .. Len(line) /\ c <= col
  OBVIOUS
<1>2. utf8_prev_boundary(line, c) \in 0 .. c
  BY <1>1, PrevBoundaryLeft
<1> QED BY <1>1, <1>2 DEF utf8_clamp_col

(* Skipping to the right ends in the line, not to the left of the start.     *)
LEMMA SkipRightInLine ==
  ASSUME NEW line \in Line, NEW col \in 0 .. Len(line), NEW skip
  PROVE  SkipRight(line, col, skip) \in col .. Len(line)
<1> Len(line) \in Nat
  BY DEF Line
<1>1. CASE col >= Len(line)
  BY <1>1 DEF SkipRight
<1>2. CASE col < Len(line)
  <2> DEFINE T == {c \in StopsRight(line, col) :
                     c = Len(line) \/ line[c + 1] \notin skip}
  <2>1. T \in SUBSET (col .. Len(line)) /\ Len(line) \in T
    BY <1>2 DEF StopsRight
  <2>2. Min(T) \in T
    <3> HIDE DEF T
    <3> QED BY <2>1, MinNat
  <2> QED BY <1>2, <2>1, <2>2 DEF SkipRight
<1> QED BY <1>1, <1>2

(* Skipping to the left ends at or before the start.                         *)
LEMMA SkipLeftBefore ==
  ASSUME NEW line, NEW col \in Nat, NEW skip
  PROVE  SkipLeft(line, col, skip) \in 0 .. col
<1> DEFINE T == {c \in {col} \cup StopsLeft(line, col) :
                   c = 0 \/ line[utf8_prev_boundary(line, c) + 1] \notin skip}
<1>1. T \in SUBSET (0 .. col) /\ 0 \in T
  BY DEF StopsLeft
<1>2. Max(T) \in T
  <2> HIDE DEF T
  <2> QED BY <1>1, MaxBelow
<1> QED BY <1>1, <1>2 DEF SkipLeft

-----------------------------------------------------------------------------
(* Lines put together and taken apart.                                       *)

(* A piece of a line is a line.                                              *)
LEMMA LinePart ==
  ASSUME NEW line \in Line, NEW i \in Nat \ {0}, NEW j \in Int, j <= Len(line)
  PROVE  SubSeq(line, i, j) \in Line
<1>1. \A k \in i .. j : line[k] \in Byte
  BY DEF Line
<1> QED BY <1>1, SubSeqProperties DEF Line

LEMMA LineConcat ==
  ASSUME NEW s \in Line, NEW t \in Line
  PROVE  s \o t \in Line
BY ConcatProperties DEF Line

(* The length and the bytes of a piece of a line.                            *)
LEMMA PieceOfLine ==
  ASSUME NEW line \in Line, NEW i \in Nat, NEW j \in 0 .. Len(line), i <= j,
         NEW m \in Int, m = i + 1
  PROVE  /\ SubSeq(line, m, j) \in Line
         /\ Len(SubSeq(line, m, j)) = j - i
         /\ \A k \in 1 .. (j - i) : SubSeq(line, m, j)[k] = line[i + k]
<1> Len(line) \in Nat /\ line \in Seq(Byte)
  BY DEF Line
<1>1. \A k \in m .. j : line[k] \in Byte
  BY ElementOfSeq
<1>2. /\ SubSeq(line, m, j) \in Seq(Byte)
      /\ Len(SubSeq(line, m, j)) = IF m <= j THEN j - m + 1 ELSE 0
      /\ \A k \in 1 .. (j - m + 1) : SubSeq(line, m, j)[k] = line[m + k - 1]
  BY <1>1, SubSeqProperties
<1>3. j - m + 1 = j - i /\ \A k \in 1 .. (j - i) : m + k - 1 = i + k
  OBVIOUS
<1> QED BY <1>2, <1>3 DEF Line

LEMMA FirstBytes ==
  ASSUME NEW line \in Line, NEW j \in 0 .. Len(line)
  PROVE  /\ SubSeq(line, 1, j) \in Line
         /\ Len(SubSeq(line, 1, j)) = j
         /\ \A k \in 1 .. j : SubSeq(line, 1, j)[k] = line[k]
<1>1. j \in Nat /\ j - 0 = j /\ \A k \in 1 .. j : 0 + k = k
  BY DEF Line
<1>2. 0 \in Nat /\ 0 <= j /\ 1 \in Int /\ 1 = 0 + 1
  BY <1>1
<1> QED BY <1>1, <1>2, PieceOfLine

LEMMA LineConcatProperties ==
  ASSUME NEW s \in Line, NEW t \in Line
  PROVE  /\ s \o t \in Line
         /\ Len(s) \in Nat /\ Len(t) \in Nat
         /\ Len(s \o t) = Len(s) + Len(t)
         /\ \A i \in 1 .. Len(s) : (s \o t)[i] = s[i]
         /\ \A i \in 1 .. Len(t) : (s \o t)[Len(s) + i] = t[i]
BY ConcatProperties DEF Line

LEMMA LineEqual ==
  ASSUME NEW s \in Line, NEW t \in Line, Len(s) = Len(t),
         \A i \in 1 .. Len(s) : s[i] = t[i]
  PROVE  s = t
BY SeqEqual DEF Line

(* Cutting a line and putting it together again.                             *)
LEMMA LineCut ==
  ASSUME NEW line \in Line, NEW c \in 0 .. Len(line)
  PROVE  SubSeq(line, 1, c) \o SubSeq(line, c + 1, Len(line)) = line
<1> Len(line) \in Nat
  BY DEF Line
<1> DEFINE s == SubSeq(line, 1, c)
           t == SubSeq(line, c + 1, Len(line))
<1>1. /\ s \in Line /\ Len(s) = c
      /\ \A k \in 1 .. c : s[k] = line[k]
  BY FirstBytes
<1>2. /\ t \in Line /\ Len(t) = Len(line) - c
      /\ \A k \in 1 .. (Len(line) - c) : t[k] = line[c + k]
  BY PieceOfLine
<1> HIDE DEF s, t
<1>0. /\ s \o t \in Line
      /\ Len(s \o t) = Len(s) + Len(t)
      /\ \A i \in 1 .. Len(s) : (s \o t)[i] = s[i]
      /\ \A i \in 1 .. Len(t) : (s \o t)[Len(s) + i] = t[i]
  BY <1>1, <1>2, LineConcatProperties
<1>3. Len(s \o t) = Len(line)
  BY <1>0, <1>1, <1>2
<1>4. ASSUME NEW i \in 1 .. Len(line)
      PROVE  (s \o t)[i] = line[i]
  <2>1. CASE i <= c
    BY <1>0, <1>1, <2>1
  <2>2. CASE i > c
    <3>1. i - c \in 1 .. Len(t) /\ Len(s) + (i - c) = i
      BY <1>1, <1>2, <2>2
    <3>2. (s \o t)[Len(s) + (i - c)] = t[i - c] /\ t[i - c] = line[c + (i - c)]
      BY <1>0, <1>2, <3>1
    <3>3. c + (i - c) = i
      OBVIOUS
    <3> QED BY <3>1, <3>2, <3>3
  <2>3. i <= c \/ i > c
    OBVIOUS
  <2> QED BY <2>1, <2>2, <2>3
<1>5. s \o t = line
  BY <1>0, <1>3, <1>4, LineEqual
<1> QED BY <1>5 DEF s, t

LEMMA LineUncut ==
  ASSUME NEW s \in Line, NEW t \in Line
  PROVE  /\ SubSeq(s \o t, 1, Len(s)) = s
         /\ SubSeq(s \o t, Len(s) + 1, Len(s \o t)) = t
<1> DEFINE st == s \o t
<1>1. /\ st \in Line
      /\ Len(s) \in Nat /\ Len(t) \in Nat
      /\ Len(st) = Len(s) + Len(t)
      /\ \A i \in 1 .. Len(s) : st[i] = s[i]
      /\ \A i \in 1 .. Len(t) : st[Len(s) + i] = t[i]
  BY LineConcatProperties
<1> HIDE DEF st
<1>2. SubSeq(st, 1, Len(s)) = s
  <2> DEFINE p == SubSeq(st, 1, Len(s))
  <2>1. p \in Line /\ Len(p) = Len(s) /\ \A k \in 1 .. Len(s) : p[k] = st[k]
    BY <1>1, FirstBytes
  <2> HIDE DEF p
  <2>2. p = s
    BY <1>1, <2>1, LineEqual
  <2> QED BY <2>2 DEF p
<1>3. SubSeq(st, Len(s) + 1, Len(st)) = t
  <2> DEFINE p == SubSeq(st, Len(s) + 1, Len(st))
  <2>1. /\ p \in Line /\ Len(p) = Len(t)
        /\ \A k \in 1 .. Len(t) : p[k] = st[Len(s) + k]
    BY <1>1, PieceOfLine
  <2> HIDE DEF p
  <2>2. p = t
    BY <1>1, <2>1, LineEqual
  <2> QED BY <2>2 DEF p
<1> QED BY <1>2, <1>3 DEF st

LEMMA LineConcatAssoc ==
  ASSUME NEW s \in Line, NEW t \in Line, NEW u \in Line
  PROVE  (s \o t) \o u = s \o (t \o u)
BY ConcatAssociative DEF Line

-----------------------------------------------------------------------------
(* Where a walk that has moved ends: at an end of the line, or before the    *)
(* first byte of a character.                                                *)

LEMMA NextBoundaryStands ==
  ASSUME NEW line \in Line, NEW col \in 0 .. Len(line)
  PROVE  LET c == utf8_next_boundary(line, col)
         IN  c = Len(line) \/ line[c + 1] \notin Cont
<1> Len(line) \in Nat
  BY DEF Line
<1>1. CASE col >= Len(line)
  BY <1>1 DEF utf8_next_boundary
<1>2. CASE col < Len(line)
  <2> DEFINE T == StopsRight(line, col) \ {col}
  <2>1. T \in SUBSET Nat /\ Len(line) \in T
    BY <1>2 DEF StopsRight
  <2>2. Min(T) \in T
    <3> HIDE DEF T
    <3> QED BY <2>1, MinNat
  <2>3. utf8_next_boundary(line, col) = Min(T)
    BY <1>2 DEF utf8_next_boundary
  <2> QED BY <2>2, <2>3 DEF StopsRight
<1> QED BY <1>1, <1>2

LEMMA PrevBoundaryStands ==
  ASSUME NEW line \in Line, NEW col \in 0 .. Len(line)
  PROVE  LET c == utf8_prev_boundary(line, col)
         IN  c = 0 \/ line[c + 1] \notin Cont
<1>1. CASE col = 0
  BY <1>1 DEF utf8_prev_boundary
<1>2. CASE 0 < col
  <2> DEFINE T == StopsLeft(line, col)
  <2>1. T \in SUBSET (0 .. (col - 1)) /\ 0 \in T
    BY <1>2 DEF StopsLeft
  <2>2. Max(T) \in T
    <3>1. col - 1 \in Nat
      BY <1>2 DEF Line
    <3> HIDE DEF T
    <3> QED BY <2>1, <3>1, MaxBelow
  <2>3. utf8_prev_boundary(line, col) = Max(T)
    BY <1>2 DEF utf8_prev_boundary
  <2> QED BY <2>2, <2>3 DEF StopsLeft
<1> QED BY <1>1, <1>2

LEMMA SkipRightStands ==
  ASSUME NEW line \in Line, NEW col \in 0 .. Len(line), NEW skip
  PROVE  LET c == SkipRight(line, col, skip)
         IN  c = col \/ c = Len(line) \/ line[c + 1] \notin Cont
<1> Len(line) \in Nat
  BY DEF Line
<1>1. CASE col >= Len(line)
  BY <1>1 DEF SkipRight
<1>2. CASE col < Len(line)
  <2> DEFINE T == {c \in StopsRight(line, col) :
                     c = Len(line) \/ line[c + 1] \notin skip}
  <2>1. T \in SUBSET Nat /\ Len(line) \in T
    BY <1>2 DEF StopsRight
  <2>2. Min(T) \in T
    <3> HIDE DEF T
    <3> QED BY <2>1, MinNat
  <2>3. SkipRight(line, col, skip) = Min(T)
    BY <1>2 DEF SkipRight
  <2> QED BY <2>2, <2>3 DEF StopsRight
<1> QED BY <1>1, <1>2

LEMMA SkipLeftStands ==
  ASSUME NEW line \in Line, NEW col \in 0 .. Len(line), NEW skip
  PROVE  LET c == SkipLeft(line, col, skip)
         IN  c = col \/ c = 0 \/ line[c + 1] \notin Cont
<1> DEFINE T == {c \in {col} \cup StopsLeft(line, col) :
                   c = 0 \/ line[utf8_prev_boundary(line, c) + 1] \notin skip}
<1>1. T \in SUBSET (0 .. col) /\ 0 \in T
  BY DEF StopsLeft
<1>2. Max(T) \in T
  <2>1. col \in Nat
    BY DEF Line
  <2> HIDE DEF T
  <2> QED BY <1>1, <2>1, MaxBelow
<1>3. SkipLeft(line, col, skip) = Max(T)
  BY DEF SkipLeft
<1> QED BY <1>2, <1>3 DEF StopsLeft

-----------------------------------------------------------------------------
(* Walks to the left, character by character.                                *)

(* The walk of C-b and Backspace is over the bytes of mem.                   *)
LEMMA PrevBoundaryIsStop ==
  ASSUME NEW mem, NEW c \in Nat \ {0}
  PROVE  LET p == utf8_prev_boundary(mem, c)
         IN  /\ p \in 0 .. (c - 1)
             /\ p = 0 \/ mem[p + 1] \notin Cont
<1> DEFINE T == StopsLeft(mem, c)
<1>1. T \in SUBSET (0 .. (c - 1)) /\ 0 \in T
  BY DEF StopsLeft
<1>2. Max(T) \in T
  <2> HIDE DEF T
  <2>1. c - 1 \in Nat
    OBVIOUS
  <2> QED BY <1>1, <2>1, MaxBelow
<1>3. utf8_prev_boundary(mem, c) = Max(T)
  BY DEF utf8_prev_boundary
<1> QED BY <1>2, <1>3 DEF StopsLeft

(* The column before which a walk to the left from c stops first.            *)
LEMMA PrevBoundaryMax ==
  ASSUME NEW line, NEW c \in Nat \ {0}
  PROVE  /\ utf8_prev_boundary(line, c) \in StopsLeft(line, c)
         /\ \A e \in StopsLeft(line, c) : e <= utf8_prev_boundary(line, c)
<1> DEFINE T == StopsLeft(line, c)
<1>1. T \in SUBSET (0 .. (c - 1)) /\ 0 \in T
  BY DEF StopsLeft
<1>2. Max(T) \in T /\ \A y \in T : Max(T) >= y
  <2> HIDE DEF T
  <2>1. c - 1 \in Nat
    OBVIOUS
  <2> QED BY <1>1, <2>1, MaxBelow
<1>3. utf8_prev_boundary(line, c) = Max(T)
  BY DEF utf8_prev_boundary
<1>4. \A y \in T : y <= Max(T)
  BY <1>1, <1>2
<1> QED BY <1>2, <1>3, <1>4

(* A walk to the left passes over every byte that belongs to a character     *)
(* beginning with a byte it skips, and over no other byte.                   *)
LEMMA SkipLeftChars ==
  ASSUME NEW line \in Line, NEW col \in 0 .. Len(line), NEW skip,
         NEW d \in SkipLeft(line, col, skip) .. (col - 1)
  PROVE  LET p == utf8_prev_boundary(line, d + 1)
         IN  p \in 0 .. d /\ line[p + 1] \in skip
<1> DEFINE to == SkipLeft(line, col, skip)
           Stops == {col} \cup StopsLeft(line, col)
           Ends == {c \in Stops :
                      c = 0 \/ line[utf8_prev_boundary(line, c) + 1] \notin skip}
           Past == {c \in Stops : c > d}
           next == Min(Past)
           n == d + 1
           p == utf8_prev_boundary(line, n)
<1>0. col \in Nat /\ Len(line) \in Nat
  BY DEF Line
<1>1. to \in Ends /\ \A c \in Ends : c <= to
  <2>1. Ends \in SUBSET (0 .. col) /\ 0 \in Ends
    BY DEF StopsLeft
  <2>2. to = Max(Ends)
    BY DEF SkipLeft
  <2> HIDE DEF Ends, to
  <2>3. Max(Ends) \in Ends /\ \A y \in Ends : Max(Ends) >= y
    BY <1>0, <2>1, MaxBelow
  <2>4. \A y \in Ends : y <= Max(Ends)
    BY <2>1, <2>3
  <2> QED BY <2>2, <2>3, <2>4
<1>2. Stops \in SUBSET (0 .. col) /\ to \in 0 .. col
  <2>1. Stops \in SUBSET (0 .. col)
    BY <1>0 DEF StopsLeft
  <2> HIDE DEF Stops, to
  <2> QED BY <1>1, <2>1
<1>3. d \in Nat /\ to <= d /\ d < col /\ n \in Nat \ {0}
  <2> d \in to .. (col - 1)
    OBVIOUS
  <2> HIDE DEF to
  <2> QED BY <1>0, <1>2
<1>4. next \in Past /\ \A c \in Past : next <= c
  <2>1. Past \in SUBSET Nat /\ col \in Past
    <3>1. col \in Stops
      OBVIOUS
    <3>2. Stops \in SUBSET (0 .. col) /\ d < col
      BY <1>2, <1>3
    <3> HIDE DEF Stops
    <3>3. \A c \in Past : c \in Stops /\ c \in 0 .. col
      BY <3>2
    <3>4. Past \in SUBSET Nat
      BY <1>0, <3>3
    <3>5. col \in Past
      BY <3>1, <3>2
    <3> QED BY <3>4, <3>5
  <2> HIDE DEF Past
  <2> QED BY <2>1, MinNat
<1>5. /\ p \in 0 .. d /\ (p = 0 \/ line[p + 1] \notin Cont)
      /\ \A e \in 0 .. d : (e = 0 \/ line[e + 1] \notin Cont) => e <= p
  BY <1>3, PrevBoundaryMax DEF StopsLeft
<1> HIDE DEF p
<1>6. next \in Stops /\ next > d /\ next \in Nat \ {0} /\ next <= col
  <2> HIDE DEF next, Stops
  <2> QED BY <1>2, <1>3, <1>4
<1>7. \A e \in 0 .. (next - 1) : (e = 0 \/ line[e + 1] \notin Cont) => e <= d
  <2> SUFFICES ASSUME NEW e \in 0 .. (next - 1), e = 0 \/ line[e + 1] \notin Cont, e > d
               PROVE FALSE
    BY <1>3, <1>6
  <2>1. e \in StopsLeft(line, col)
    BY <1>0, <1>6 DEF StopsLeft
  <2>2. e \in Past
    BY <2>1
  <2> HIDE DEF Past, next
  <2> QED BY <1>4, <1>6, <2>2
<1>8. utf8_prev_boundary(line, next) = p
  <2> DEFINE q == utf8_prev_boundary(line, next)
  <2>0. next \in Nat \ {0}
    BY <1>6
  <2> HIDE DEF next
  <2>1. q \in StopsLeft(line, next) /\ \A e \in StopsLeft(line, next) : e <= q
    BY <2>0, PrevBoundaryMax
  <2>2. q \in 0 .. (next - 1) /\ (q = 0 \/ line[q + 1] \notin Cont)
    BY <2>1 DEF StopsLeft
  <2>3. p \in StopsLeft(line, next)
    BY <1>3, <1>5, <1>6, <2>0 DEF StopsLeft
  <2> HIDE DEF q
  <2>4. q \in 0 .. d /\ p <= q
    BY <1>3, <1>7, <2>0, <2>1, <2>2, <2>3
  <2>5. q <= p
    BY <1>5, <2>2, <2>4
  <2>6. q = p
    BY <1>5, <2>4, <2>5
  <2> QED BY <2>6 DEF q
<1>9. next \notin Ends
  <2> HIDE DEF Ends, next, to
  <2> QED BY <1>1, <1>2, <1>3, <1>6
<1>10. line[p + 1] \in skip
  <2> HIDE DEF next, Stops
  <2> QED BY <1>6, <1>8, <1>9
<1> QED BY <1>5, <1>10 DEF p

(* Between a column and the next boundary there are continuation bytes only. *)
LEMMA InsideChar ==
  ASSUME NEW line \in Line, NEW c \in 0 .. Len(line), c < Len(line),
         NEW d \in (c + 1) .. (utf8_next_boundary(line, c) - 1)
  PROVE  line[d + 1] \in Cont
<1> DEFINE T == StopsRight(line, c) \ {c}
           e == utf8_next_boundary(line, c)
<1>0. Len(line) \in Nat /\ c \in Nat
  BY DEF Line
<1>1. T \in SUBSET Nat /\ Len(line) \in T /\ T \in SUBSET (0 .. Len(line))
  BY <1>0 DEF StopsRight
<1>2. e = Min(T)
  BY <1>0 DEF utf8_next_boundary
<1>3. e \in T /\ \A y \in T : e <= y
  <2> HIDE DEF T
  <2> QED BY <1>1, <1>2, MinNat
<1> HIDE DEF e
<1>4. d \in (c + 1) .. (e - 1) /\ e \in 0 .. Len(line)
  BY <1>1, <1>3 DEF e
<1>5. d \notin T
  <2> HIDE DEF T
  <2> QED BY <1>0, <1>3, <1>4
<1> QED BY <1>0, <1>4, <1>5 DEF StopsRight

-----------------------------------------------------------------------------
(* Recursion on numbers, and sequences put one after the other.              *)

(* A function defined from 1 to n by its first value and by steps.           *)
IsSteps(f, S, n, first, step) ==
  /\ f \in [0 .. n -> S]
  /\ f[0] = first
  /\ \A i \in 1 .. n : f[i] = step[<<i, f[i - 1]>>]

LEMMA StepsExist ==
  ASSUME NEW S, NEW n \in Nat, NEW first \in S, NEW step \in [Nat \X S -> S]
  PROVE  \E f : IsSteps(f, S, n, first, step)
<1> DEFINE Solved(k) == \E f \in [0 .. k -> S] :
                          /\ f[0] = first
                          /\ \A i \in 1 .. k : f[i] = step[<<i, f[i - 1]>>]
           T == {k \in Nat : Solved(k)}
<1>1. Solved(0)
  <2> DEFINE f == [i \in 0 .. 0 |-> first]
  <2>1. f \in [0 .. 0 -> S] /\ f[0] = first
    OBVIOUS
  <2>2. \A i \in 1 .. 0 : f[i] = step[<<i, f[i - 1]>>]
    OBVIOUS
  <2> QED BY <2>1, <2>2
<1>2. ASSUME NEW k \in Nat, Solved(k)
      PROVE  Solved(k + 1)
  <2>1. PICK f \in [0 .. k -> S] :
          f[0] = first /\ \A i \in 1 .. k : f[i] = step[<<i, f[i - 1]>>]
    BY <1>2
  <2> DEFINE w == step[<<k + 1, f[k]>>]
             g == [i \in 0 .. (k + 1) |-> IF i <= k THEN f[i] ELSE w]
  <2>2. w \in S
    <3>1. <<k + 1, f[k]>> \in Nat \X S
      OBVIOUS
    <3> QED BY <3>1
  <2> HIDE DEF w
  <2>3. g \in [0 .. (k + 1) -> S] /\ g[0] = first
    BY <2>1, <2>2
  <2>4. ASSUME NEW i \in 1 .. (k + 1)
        PROVE  g[i] = step[<<i, g[i - 1]>>]
    <3>1. CASE i <= k
      <4>1. g[i] = f[i] /\ g[i - 1] = f[i - 1]
        BY <3>1
      <4> QED BY <4>1, <3>1, <2>1
    <3>2. CASE i = k + 1
      <4>1. g[i] = w /\ g[i - 1] = f[k]
        BY <3>2
      <4> QED BY <4>1, <3>2 DEF w
    <3> QED BY <3>1, <3>2
  <2> HIDE DEF g
  <2> QED BY <2>3, <2>4
<1>3. \A k \in Nat : k \in T
  <2> HIDE DEF Solved
  <2>1. T \in SUBSET Nat /\ 0 \in T /\ \A k \in T : k + 1 \in T
    BY <1>1, <1>2
  <2> HIDE DEF T
  <2> QED BY <2>1, SetInduction
<1>4. Solved(n)
  <2> HIDE DEF Solved
  <2> QED BY <1>3
<1> QED BY <1>4 DEF IsSteps

(* A sequence of sequences is flattened from the front.                      *)
LEMMA FlattenSteps ==
  ASSUME NEW S, NEW seqs \in Seq(Seq(S)), seqs # << >>
  PROVE  \E f : /\ FlattenSeq(seqs) = f[Len(seqs)]
                /\ \A i \in 1 .. Len(seqs) :
                     f[i] = IF i = 1 THEN seqs[i] ELSE f[i - 1] \o seqs[i]
<1> DEFINE n == Len(seqs)
           Def(f) == f = [i \in 1 .. Len(seqs) |->
                            IF i = 1 THEN seqs[i] ELSE f[i - 1] \o seqs[i]]
           flatten == CHOOSE f : Def(f)
<1>0. n \in Nat \ {0} /\ \A i \in 1 .. n : seqs[i] \in Seq(S)
  BY EmptySeq
<1>1. \E f : Def(f)
  <2> DEFINE step == [p \in Nat \X Seq(S) |->
                        IF p[1] = 1 THEN seqs[1]
                        ELSE IF p[1] \in 1 .. n THEN p[2] \o seqs[p[1]] ELSE p[2]]
  <2>1. step \in [Nat \X Seq(S) -> Seq(S)]
    <3> SUFFICES ASSUME NEW p \in Nat \X Seq(S)
                 PROVE  (IF p[1] = 1 THEN seqs[1]
                         ELSE IF p[1] \in 1 .. n THEN p[2] \o seqs[p[1]] ELSE p[2])
                           \in Seq(S)
      OBVIOUS
    <3>1. p[1] \in Nat /\ p[2] \in Seq(S)
      OBVIOUS
    <3> HIDE DEF n
    <3> QED BY <1>0, <3>1, ConcatProperties
  <2>2. \A i \in 1 .. n : \A s \in Seq(S) :
          step[<<i, s>>] = IF i = 1 THEN seqs[1] ELSE s \o seqs[i]
    <3> TAKE i \in 1 .. n
    <3> TAKE s \in Seq(S)
    <3>1. <<i, s>> \in Nat \X Seq(S)
      BY <1>0
    <3> QED BY <3>1
  <2> HIDE DEF step
  <2>3. << >> \in Seq(S)
    OBVIOUS
  <2>4. PICK g \in [0 .. n -> Seq(S)] :
          /\ g[0] = << >>
          /\ \A i \in 1 .. n : g[i] = step[<<i, g[i - 1]>>]
    <3> DEFINE SS == Seq(S)
               none == << >>
    <3>1. n \in Nat /\ step \in [Nat \X SS -> SS] /\ none \in SS
      BY <1>0, <2>1, <2>3
    <3> HIDE DEF n, SS, none
    <3>2. \E g : IsSteps(g, SS, n, none, step)
      BY <3>1, StepsExist
    <3> QED BY <3>2 DEF IsSteps, SS, none
  <2> DEFINE f == [i \in 1 .. n |-> g[i]]
  <2>5. \A i \in 1 .. n : f[i] = IF i = 1 THEN seqs[i] ELSE f[i - 1] \o seqs[i]
    <3> TAKE i \in 1 .. n
    <3>1. g[i - 1] \in Seq(S)
      <4>1. i - 1 \in 0 .. n
        BY <1>0
      <4> QED BY <2>4, <4>1
    <3>2. f[i] = IF i = 1 THEN seqs[1] ELSE g[i - 1] \o seqs[i]
      BY <2>2, <2>4, <3>1
    <3>3. i # 1 => f[i - 1] = g[i - 1]
      BY <1>0
    <3> QED BY <3>2, <3>3
  <2>6. Def(f)
    BY <2>5
  <2> QED BY <2>6
<1>2. Def(flatten)
  <2> HIDE DEF Def
  <2> QED BY <1>1
<1>3. FlattenSeq(seqs) = flatten[n]
  BY <1>0 DEF FlattenSeq
<1>4. \A i \in 1 .. n :
        flatten[i] = IF i = 1 THEN seqs[i] ELSE flatten[i - 1] \o seqs[i]
  <2> HIDE DEF flatten
  <2> QED BY <1>2
<1> HIDE DEF flatten
<1> QED BY <1>3, <1>4

(* The sequences are one after the other; p tells where each of them ends.   *)
Parted(seqs, p) ==
  /\ p \in [0 .. Len(seqs) -> Nat]
  /\ p[0] = 0 /\ p[Len(seqs)] = Len(FlattenSeq(seqs))
  /\ \A k \in 1 .. Len(seqs) : p[k] = p[k - 1] + Len(seqs[k])
  /\ \A k \in 1 .. Len(seqs) : p[k] <= p[Len(seqs)]
  /\ \A k \in 1 .. Len(seqs) : \A i \in 1 .. Len(seqs[k]) :
       FlattenSeq(seqs)[p[k - 1] + i] = seqs[k][i]

LEMMA FlattenParts ==
  ASSUME NEW S, NEW seqs \in Seq(Seq(S)), seqs # << >>
  PROVE  FlattenSeq(seqs) \in Seq(S) /\ \E p : Parted(seqs, p)
<1> DEFINE n == Len(seqs)
<1>0. n \in Nat \ {0} /\ \A i \in 1 .. n : seqs[i] \in Seq(S) /\ Len(seqs[i]) \in Nat
  BY EmptySeq
<1>1. PICK f : /\ FlattenSeq(seqs) = f[n]
               /\ \A i \in 1 .. n :
                    f[i] = IF i = 1 THEN seqs[i] ELSE f[i - 1] \o seqs[i]
  BY FlattenSteps
<1> DEFINE p == [k \in 0 .. n |-> IF k = 0 THEN 0 ELSE Len(f[k])]
           Fine(m) ==
             /\ f[m] \in Seq(S)
             /\ \A k \in 1 .. m : p[k] \in Nat /\ p[k] <= p[m]
             /\ \A k \in 1 .. m : p[k] = p[k - 1] + Len(seqs[k])
             /\ \A k \in 1 .. m : \A i \in 1 .. Len(seqs[k]) :
                  f[m][p[k - 1] + i] = seqs[k][i]
           T == {k \in Nat : k + 1 <= n => Fine(k + 1)}
<1>2. p[0] = 0 /\ \A k \in 1 .. n : p[k] = Len(f[k])
  BY <1>0
<1> HIDE DEF n, p
<1>3. Fine(1)
  <2>1. f[1] = seqs[1] /\ f[1] \in Seq(S) /\ Len(f[1]) \in Nat
    BY <1>0, <1>1
  <2>2. p[1] = Len(seqs[1]) /\ p[1] \in Nat /\ p[1] = p[0] + Len(seqs[1])
    BY <1>0, <1>2, <2>1
  <2>3. ASSUME NEW k \in 1 .. 1 PROVE k = 1 /\ k - 1 = 0
    OBVIOUS
  <2>4. \A i \in 1 .. Len(seqs[1]) : f[1][p[0] + i] = seqs[1][i]
    <3> TAKE i \in 1 .. Len(seqs[1])
    <3>1. p[0] + i = i
      BY <1>2
    <3>2. f[1][p[0] + i] = f[1][i]
      BY <3>1
    <3>3. f[1] = seqs[1]
      BY <2>1
    <3> QED BY <3>2, <3>3
  <2>5. \A k \in 1 .. 1 : p[k] \in Nat /\ p[k] <= p[1]
    BY <2>2, <2>3
  <2>6. \A k \in 1 .. 1 : p[k] = p[k - 1] + Len(seqs[k])
    BY <2>2, <2>3
  <2>7. \A k \in 1 .. 1 : \A i \in 1 .. Len(seqs[k]) :
          f[1][p[k - 1] + i] = seqs[k][i]
    <3> TAKE k \in 1 .. 1
    <3>1. k = 1 /\ k - 1 = 0
      BY <2>3
    <3> QED BY <2>4, <3>1
  <2> QED BY <2>1, <2>5, <2>6, <2>7
<1>4. ASSUME NEW m \in Nat \ {0}, m + 1 <= n, Fine(m)
      PROVE  Fine(m + 1)
  <2> DEFINE j == m + 1
             x == f[m]
             y == seqs[j]
  <2>1. j \in 1 .. n /\ j # 1 /\ j - 1 = m /\ m \in 1 .. n
    BY <1>0, <1>4
  <2>2. f[j] = x \o y /\ x \in Seq(S) /\ y \in Seq(S)
    BY <1>0, <1>1, <1>4, <2>1
  <2>3. p[m] = Len(x) /\ p[j] = Len(f[j])
    BY <1>2, <2>1
  <2>4. \A k \in 1 .. m : \A i \in 1 .. Len(seqs[k]) :
          /\ x[p[k - 1] + i] = seqs[k][i]
          /\ p[k] = p[k - 1] + Len(seqs[k]) /\ p[k] \in Nat /\ p[k] <= p[m]
    BY <1>4
  <2>5. \A k \in 1 .. m : p[k] = p[k - 1] + Len(seqs[k]) /\ p[k] \in Nat /\ p[k] <= p[m]
    BY <1>4
  <2>6. \A k \in 1 .. j : k \in 1 .. m \/ k = j
    BY <2>1
  <2> HIDE DEF j, x, y
  <2>7. /\ x \o y \in Seq(S)
        /\ Len(x) \in Nat /\ Len(y) \in Nat
        /\ Len(x \o y) = Len(x) + Len(y)
        /\ \A i \in 1 .. Len(x) : (x \o y)[i] = x[i]
        /\ \A i \in 1 .. Len(y) : (x \o y)[Len(x) + i] = y[i]
    BY <2>2, ConcatProperties
  <2>8. /\ p[j] = p[m] + Len(y) /\ p[j] \in Nat /\ p[m] <= p[j]
        /\ \A k \in 1 .. m : p[k] <= p[j]
    BY <2>2, <2>3, <2>5, <2>7
  <2>9. p[j] = p[j - 1] + Len(seqs[j])
    BY <2>1, <2>8 DEF y
  <2>10. ASSUME NEW k \in 1 .. j, NEW i \in 1 .. Len(seqs[k])
         PROVE  f[j][p[k - 1] + i] = seqs[k][i]
    <3>1. CASE k \in 1 .. m
      <4> DEFINE at == p[k - 1] + i
      <4>1. k \in 1 .. n /\ Len(seqs[k]) \in Nat
        BY <1>0, <2>1, <3>1
      <4>2. k = 1 \/ k - 1 \in 1 .. m
        BY <2>1, <3>1
      <4>3. p[k - 1] \in Nat
        BY <1>2, <2>5, <4>2
      <4>4. at \in 1 .. Len(x)
        <5> DEFINE b == p[k - 1]
                   l == Len(seqs[k])
        <5>1. b \in Nat /\ l \in Nat /\ i \in 1 .. l /\ b + l <= Len(x) /\ at = b + i
          BY <2>3, <2>5, <3>1, <4>1, <4>3
        <5> HIDE DEF b, l, at
        <5> QED BY <2>7, <5>1
      <4>5. x[at] = seqs[k][i]
        BY <2>4, <3>1
      <4> HIDE DEF at
      <4> QED BY <2>2, <2>7, <4>4, <4>5 DEF at
    <3>2. CASE k = j
      <4>1. p[k - 1] = Len(x) /\ i \in 1 .. Len(y) /\ seqs[k] = y
        BY <2>1, <2>3, <3>2 DEF y
      <4> QED BY <2>2, <2>7, <4>1
    <3> QED BY <2>6, <3>1, <3>2
  <2>11. \A k \in 1 .. j : /\ p[k] \in Nat /\ p[k] <= p[j]
                            /\ p[k] = p[k - 1] + Len(seqs[k])
    <3> TAKE k \in 1 .. j
    <3>1. CASE k \in 1 .. m
      BY <2>5, <2>8, <3>1
    <3>2. CASE k = j
      BY <2>8, <2>9, <3>2
    <3> QED BY <2>6, <3>1, <3>2
  <2>12. f[j] \in Seq(S)
    BY <2>2, <2>7
  <2>13. Fine(j)
    BY <2>10, <2>11, <2>12
  <2> QED BY <2>13 DEF j
<1>5. Fine(n)
  <2>1. T \in SUBSET Nat
    OBVIOUS
  <2>2. 0 \in T
    BY <1>3
  <2>3. ASSUME NEW k \in T PROVE k + 1 \in T
    <3> SUFFICES ASSUME (k + 1) + 1 <= n PROVE Fine((k + 1) + 1)
      OBVIOUS
    <3> HIDE DEF Fine
    <3>1. k + 1 \in Nat \ {0} /\ Fine(k + 1)
      BY <1>0
    <3> QED BY <1>4, <3>1
  <2>4. n - 1 \in Nat /\ (n - 1) + 1 = n
    BY <1>0
  <2>5. n - 1 \in T
    <3> HIDE DEF T
    <3> QED BY <2>1, <2>2, <2>3, <2>4, SetInduction
  <2> HIDE DEF Fine
  <2> QED BY <2>4, <2>5
<1>6. p \in [0 .. n -> Nat]
  <2>1. \A k \in 0 .. n : k = 0 \/ k \in 1 .. n
    BY <1>0
  <2>2. \A k \in 0 .. n : p[k] \in Nat
    BY <1>2, <1>5, <2>1
  <2> QED BY <2>2 DEF p
<1>7. p[n] = Len(FlattenSeq(seqs)) /\ FlattenSeq(seqs) \in Seq(S)
  BY <1>0, <1>1, <1>2, <1>5
<1>8. Parted(seqs, p)
  BY <1>1, <1>2, <1>5, <1>6, <1>7 DEF Parted, n
<1> QED BY <1>7, <1>8

(* They are no shorter together than the first.                              *)
LEMMA FlattenType ==
  ASSUME NEW S, NEW seqs \in Seq(Seq(S)), seqs # << >>
  PROVE  /\ FlattenSeq(seqs) \in Seq(S)
         /\ Len(FlattenSeq(seqs)) >= Len(seqs[1])
<1>1. Len(seqs) \in Nat \ {0} /\ Len(seqs[1]) \in Nat
  BY EmptySeq
<1>2. FlattenSeq(seqs) \in Seq(S)
  BY FlattenParts
<1>3. PICK p : Parted(seqs, p)
  BY FlattenParts
<1>4. p[1] = p[1 - 1] + Len(seqs[1]) /\ p[1] <= Len(FlattenSeq(seqs)) /\ p[0] = 0
  BY <1>1, <1>3 DEF Parted
<1>5. p[1] = Len(seqs[1])
  BY <1>1, <1>4
<1> QED BY <1>1, <1>2, <1>4, <1>5

=============================================================================
