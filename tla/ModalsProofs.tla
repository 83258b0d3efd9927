---------------------------- MODULE ModalsProofs ----------------------------
(***************************************************************************)
(* Theorems of Modals about the two input lines and the finder's list, for  *)
(* every capacity, every set of characters and every tree of files.         *)
(*                                                                         *)
(* The list of matches is right because greedy matching finds a             *)
(* subsequence if there is one (RunGreedy), and scores at least ten for     *)
(* each byte.  That the list is one of paths rests on scan_project, which   *)
(* is a recursion on the directories of a finite tree (ScanExists).         *)
(***************************************************************************)
EXTENDS Modals, Utf8Theorems, FiniteSetTheorems

(* A cursor at column c of buf stands at its end or before a character.      *)
Stands(buf, c) == c = Len(buf) \/ buf[c + 1] \notin Cont

(* The line begins with a character, or is empty, and the cursor stands.     *)
Whole(line) == Stands(line.buf, 0) /\ Stands(line.buf, line.col)

-----------------------------------------------------------------------------
(* Parts of lines.                                                           *)

(* The bytes of a part of a line.                                            *)
LEMMA PartOf ==
  ASSUME NEW s \in Line, NEW a \in Nat, NEW n \in Nat, a + n <= Len(s)
  PROVE  /\ SubSeq(s, a + 1, a + n) \in Line
         /\ Len(SubSeq(s, a + 1, a + n)) = n
         /\ \A k \in 1 .. n : SubSeq(s, a + 1, a + n)[k] = s[a + k]
<1>1. \A i \in (a + 1) .. (a + n) : s[i] \in Byte
  BY DEF Line
<1>2. a + 1 \in Int /\ a + n \in Int
  OBVIOUS
<1>3. /\ SubSeq(s, a + 1, a + n) \in Seq(Byte)
      /\ Len(SubSeq(s, a + 1, a + n))
           = IF a + 1 <= a + n THEN a + n - (a + 1) + 1 ELSE 0
      /\ \A i \in 1 .. a + n - (a + 1) + 1 :
           SubSeq(s, a + 1, a + n)[i] = s[a + 1 + i - 1]
  BY <1>1, <1>2, SubSeqProperties
<1> QED BY <1>3 DEF Line

(* The bytes of a beginning of a line.                                       *)
LEMMA BeginningOf ==
  ASSUME NEW s \in Line, NEW n \in Nat, n <= Len(s)
  PROVE  /\ SubSeq(s, 1, n) \in Line
         /\ Len(SubSeq(s, 1, n)) = n
         /\ \A k \in 1 .. n : SubSeq(s, 1, n)[k] = s[k]
<1>1. 0 \in Nat /\ 0 + n <= Len(s)
  OBVIOUS
<1>2. /\ SubSeq(s, 0 + 1, 0 + n) \in Line
      /\ Len(SubSeq(s, 0 + 1, 0 + n)) = n
      /\ \A k \in 1 .. n : SubSeq(s, 0 + 1, 0 + n)[k] = s[0 + k]
  BY <1>1, PartOf
<1> QED BY <1>2

(* Two lines, and two parts of lines, with the same bytes.                   *)
LEMMA SameBytes ==
  ASSUME NEW x \in Line, NEW y \in Line, Len(x) = Len(y),
         \A k \in 1 .. Len(x) : x[k] = y[k]
  PROVE  x = y
BY SeqEqual DEF Line

LEMMA PartsEqual ==
  ASSUME NEW s \in Line, NEW t \in Line, NEW a \in Nat, NEW b \in Nat,
         NEW n \in Nat, a + n <= Len(s), b + n <= Len(t),
         \A k \in 1 .. n : s[a + k] = t[b + k]
  PROVE  SubSeq(s, a + 1, a + n) = SubSeq(t, b + 1, b + n)
<1> DEFINE x == SubSeq(s, a + 1, a + n)
           y == SubSeq(t, b + 1, b + n)
<1>1. x \in Line /\ Len(x) = n /\ \A k \in 1 .. n : x[k] = s[a + k]
  BY PartOf
<1>2. y \in Line /\ Len(y) = n /\ \A k \in 1 .. n : y[k] = t[b + k]
  BY PartOf
<1> HIDE DEF x, y
<1>3. x = y
  <2>1. x \in Seq(Byte) /\ y \in Seq(Byte) /\ Len(x) = Len(y)
    BY <1>1, <1>2 DEF Line
  <2>2. \A k \in 1 .. Len(x) : x[k] = y[k]
    BY <1>1, <1>2
  <2> QED BY <2>1, <2>2, SeqEqual
<1> QED BY <1>3 DEF x, y

LEMMA PrefixIntro ==
  ASSUME NEW s \in Line, NEW t \in Line, Len(s) <= Len(t),
         \A k \in 1 .. Len(s) : s[k] = t[k]
  PROVE  IsPrefix(s, t)
<1>1. Len(s) \in Nat /\ Len(t) \in Nat
  BY DEF Line
<1>2. SubSeq(s, 0 + 1, 0 + Len(s)) = SubSeq(t, 0 + 1, 0 + Len(s))
  <2>1. 0 \in Nat /\ 0 + Len(s) <= Len(s) /\ 0 + Len(s) <= Len(t)
    BY <1>1
  <2>2. \A k \in 1 .. Len(s) : s[0 + k] = t[0 + k]
    BY <1>1
  <2> QED BY <1>1, <2>1, <2>2, PartsEqual
<1>3. 0 + 1 = 1 /\ 0 + Len(s) = Len(s)
  BY <1>1
<1> QED BY <1>2, <1>3 DEF IsPrefix

LEMMA ReverseLine ==
  ASSUME NEW s \in Line
  PROVE  /\ Reverse(s) \in Line
         /\ Len(Reverse(s)) = Len(s)
         /\ \A k \in 1 .. Len(s) : Reverse(s)[k] = s[(Len(s) - k) + 1]
<1>1. Len(s) \in Nat
  BY DEF Line
<1>2. \A k \in 1 .. Len(s) : s[(Len(s) - k) + 1] \in Byte
  <2> TAKE k \in 1 .. Len(s)
  <2>1. (Len(s) - k) + 1 \in 1 .. Len(s)
    BY <1>1
  <2> QED BY <2>1 DEF Line
<1>3. Reverse(s) \in [1 .. Len(s) -> Byte]
  BY <1>1, <1>2 DEF Reverse
<1>4. Reverse(s) \in Seq(Byte) /\ Len(Reverse(s)) = Len(s)
  BY <1>1, <1>3
<1> QED BY <1>4 DEF Reverse, Line

LEMMA SuffixIntro ==
  ASSUME NEW s \in Line, NEW t \in Line, Len(s) <= Len(t),
         \A k \in 1 .. Len(s) :
           s[(Len(s) - k) + 1] = t[(Len(t) - k) + 1]
  PROVE  IsSuffix(s, t)
<1>0. Len(s) \in Nat /\ Len(t) \in Nat
  BY DEF Line
<1>1. \A k \in 1 .. Len(s) : Reverse(s)[k] = Reverse(t)[k]
  <2> TAKE k \in 1 .. Len(s)
  <2>1. k \in 1 .. Len(t)
    BY <1>0
  <2>2. Reverse(s)[k] = s[(Len(s) - k) + 1]
    BY ReverseLine
  <2>3. Reverse(t)[k] = t[(Len(t) - k) + 1]
    BY <2>1, ReverseLine
  <2> QED BY <2>2, <2>3
<1>2. IsPrefix(Reverse(s), Reverse(t))
  <2> DEFINE x == Reverse(s)
             y == Reverse(t)
  <2>1. x \in Line /\ Len(x) = Len(s) /\ y \in Line /\ Len(y) = Len(t)
    BY ReverseLine
  <2>2. \A k \in 1 .. Len(x) : x[k] = y[k]
    BY <1>1, <2>1
  <2> HIDE DEF x, y
  <2>3. IsPrefix(x, y)
    BY <2>1, <2>2, PrefixIntro
  <2> QED BY <2>3 DEF x, y
<1> QED BY <1>2 DEF IsSuffix

-----------------------------------------------------------------------------
(* The operations of LineInput.                                              *)

LEMMA InputFields ==
  ASSUME NEW line \in InputLine
  PROVE  /\ line.buf \in Line /\ Len(line.buf) \in Nat
         /\ Len(line.buf) < CAP
         /\ line.col \in Nat /\ line.col \in 0 .. Len(line.buf)
         /\ line = [buf |-> line.buf, col |-> line.col]
BY DEF InputLine, Line

LEMMA InputIs ==
  ASSUME NEW buf \in Line, Len(buf) < CAP, NEW col \in 0 .. Len(buf)
  PROVE  [buf |-> buf, col |-> col] \in InputLine
BY DEF InputLine, Line

LEMMA EmptyInputLine == EmptyInput \in InputLine /\ Whole(EmptyInput)
<1>1. << >> \in Line /\ Len(<< >>) = 0
  BY EmptySeq DEF Line
<1>2. EmptyInput \in InputLine
  BY <1>1, CapPositive, InputIs DEF EmptyInput
<1> QED BY <1>1, <1>2 DEF EmptyInput, Whole, Stands

(* A motion to a place where the cursor may stand.                           *)
LEMMA MoveLine ==
  ASSUME NEW line \in InputLine, NEW c \in 0 .. Len(line.buf)
  PROVE  /\ [line EXCEPT !.col = c] \in InputLine
         /\ [line EXCEPT !.col = c].buf = line.buf
         /\ Whole(line) /\ Stands(line.buf, c) => Whole([line EXCEPT !.col = c])
<1>1. [line EXCEPT !.col = c] = [buf |-> line.buf, col |-> c]
  BY InputFields
<1>2. [buf |-> line.buf, col |-> c] \in InputLine
  BY InputFields, InputIs
<1> QED BY <1>1, <1>2 DEF Whole

(* What is left of the bytes before start and from end on.                   *)
LEMMA DeletedParts ==
  ASSUME NEW line \in InputLine, NEW start \in Nat, NEW end \in Nat,
         start < end, end <= Len(line.buf)
  PROVE  LET after == delete_range(line, start, end)
             len == Len(line.buf)
         IN  /\ after \in InputLine
             /\ after.col = start
             /\ Len(after.buf) = start + (len - end)
             /\ \A i \in 1 .. start : after.buf[i] = line.buf[i]
             /\ \A i \in 1 .. (len - end) :
                  after.buf[start + i] = line.buf[end + i]
<1> DEFINE b == line.buf
           l == SubSeq(b, 1, start)
           r == SubSeq(b, end + 1, Len(b))
<1>0. b \in Line /\ Len(b) \in Nat /\ Len(b) < CAP
  BY InputFields
<1>1. l \in Seq(Byte) /\ Len(l) = start /\ \A i \in 1 .. start : l[i] = b[i]
  BY <1>0, BeginningOf DEF Line
<1>2. /\ r \in Seq(Byte) /\ Len(r) = Len(b) - end
      /\ \A i \in 1 .. (Len(b) - end) : r[i] = b[end + i]
  <2>1. \A i \in (end + 1) .. Len(b) : b[i] \in Byte
    BY <1>0 DEF Line
  <2>2. end + 1 \in Int /\ Len(b) \in Int
    BY <1>0
  <2>3. /\ SubSeq(b, end + 1, Len(b)) \in Seq(Byte)
        /\ Len(SubSeq(b, end + 1, Len(b)))
             = IF end + 1 <= Len(b) THEN Len(b) - (end + 1) + 1 ELSE 0
        /\ \A i \in 1 .. Len(b) - (end + 1) + 1 :
             SubSeq(b, end + 1, Len(b))[i] = b[end + 1 + i - 1]
    <3> HIDE DEF b
    <3> QED BY <2>1, <2>2, SubSeqProperties, SMTT(30)
  <2>4. /\ Len(b) - (end + 1) + 1 = Len(b) - end
        /\ end + 1 <= Len(b) \/ Len(b) - end = 0
        /\ \A i \in 1 .. (Len(b) - end) : end + 1 + i - 1 = end + i
    BY <1>0
  <2> HIDE DEF b
  <2> QED BY <2>3, <2>4 DEF r
<1>3. delete_range(line, start, end) = [buf |-> l \o r, col |-> start]
  BY <1>0 DEF delete_range
<1> HIDE DEF l, r
<1>4. /\ l \o r \in Seq(Byte)
      /\ Len(l \o r) = start + (Len(b) - end)
      /\ \A i \in 1 .. start + (Len(b) - end) :
           (l \o r)[i] = IF i <= start THEN l[i] ELSE r[i - start]
  <2>1. l \in Seq(Byte) /\ r \in Seq(Byte)
    BY <1>1, <1>2
  <2>2. /\ l \o r \in Seq(Byte)
        /\ Len(l \o r) = Len(l) + Len(r)
        /\ \A i \in 1 .. Len(l) + Len(r) :
             (l \o r)[i] = IF i <= Len(l) THEN l[i] ELSE r[i - Len(l)]
    BY <2>1, ConcatProperties
  <2> QED BY <1>1, <1>2, <2>2
<1>5. [buf |-> l \o r, col |-> start] \in InputLine
  <2>1. l \o r \in Line
    BY <1>4 DEF Line
  <2>2. start \in 0 .. Len(l \o r) /\ Len(l \o r) < CAP
    BY <1>0, <1>4, CapPositive
  <2> QED BY <2>1, <2>2, InputIs
<1>6. \A i \in 1 .. start : (l \o r)[i] = b[i]
  BY <1>0, <1>1, <1>4
<1>7. \A i \in 1 .. (Len(b) - end) : (l \o r)[start + i] = b[end + i]
  <2> TAKE i \in 1 .. (Len(b) - end)
  <2> DEFINE k == start + i
  <2>1. k \in 1 .. start + (Len(b) - end) /\ ~(k <= start) /\ k - start = i
    BY <1>0
  <2> HIDE DEF k
  <2>2. (l \o r)[k] = r[i]
    BY <1>4, <2>1
  <2>3. r[i] = b[end + i]
    BY <1>2
  <2> QED BY <2>2, <2>3 DEF k
<1> DEFINE after == delete_range(line, start, end)
<1>8. after.buf = l \o r /\ after.col = start
  BY <1>3
<1>9. after \in InputLine
  BY <1>3, <1>5
<1> HIDE DEF after
<1>10. /\ after.col = start
       /\ Len(after.buf) = start + (Len(line.buf) - end)
       /\ \A i \in 1 .. start : after.buf[i] = line.buf[i]
       /\ \A i \in 1 .. (Len(line.buf) - end) :
            after.buf[start + i] = line.buf[end + i]
  BY <1>4, <1>6, <1>7, <1>8, Zenon
<1> QED BY <1>9, <1>10, Zenon DEF after

(* A deletion up to a place where the cursor may stand leaves the line whole.*)
LEMMA DeletedWhole ==
  ASSUME NEW line \in InputLine, NEW start \in Nat, NEW end \in Nat
  PROVE  /\ delete_range(line, start, end) \in InputLine
         /\ Whole(line) /\ Stands(line.buf, end)
              => Whole(delete_range(line, start, end))
<1>0. line.buf \in Line /\ Len(line.buf) \in Nat
  BY InputFields
<1>1. CASE end <= start \/ end > Len(line.buf)
  BY <1>1 DEF delete_range
<1>2. CASE start < end /\ end <= Len(line.buf)
  <2> DEFINE after == delete_range(line, start, end)
             len == Len(line.buf)
  <2>1. /\ after \in InputLine
        /\ after.col = start
        /\ Len(after.buf) = start + (len - end)
        /\ \A i \in 1 .. start : after.buf[i] = line.buf[i]
        /\ \A i \in 1 .. (len - end) :
             after.buf[start + i] = line.buf[end + i]
    BY <1>2, DeletedParts
  <2> HIDE DEF after
  <2>2. ASSUME Whole(line), Stands(line.buf, end)
        PROVE  Whole(after)
    <3>1. Stands(after.buf, start)
      <4>1. CASE end = len
        BY <1>2, <2>1, <4>1 DEF Stands
      <4>2. CASE end < len
        <5>1. after.buf[start + 1] = line.buf[end + 1]
          BY <1>0, <2>1, <4>2
        <5>2. line.buf[end + 1] \notin Cont
          BY <1>0, <2>2, <4>2 DEF Stands
        <5> QED BY <5>1, <5>2 DEF Stands
      <4> QED BY <1>0, <1>2, <4>1, <4>2
    <3>2. CASE start = 0
      BY <2>1, <3>1, <3>2 DEF Whole
    <3>3. CASE start > 0
      <4>1. after.buf[1] = line.buf[1]
        BY <2>1, <3>3
      <4>2. line.buf[0 + 1] \notin Cont
        BY <1>0, <1>2, <2>2 DEF Whole, Stands
      <4>3. Stands(after.buf, 0)
        BY <4>1, <4>2 DEF Stands
      <4> QED BY <2>1, <3>1, <4>3 DEF Whole
    <3> QED BY <3>2, <3>3
  <2> QED BY <2>1, <2>2 DEF after
<1> QED BY <1>0, <1>1, <1>2

(* A deletion that ends or begins at the cursor is local.                    *)
LEMMA DeletedLocal ==
  ASSUME NEW line \in InputLine, NEW start \in Nat, NEW end \in Nat,
         start = line.col \/ end = line.col
  PROVE  Local(line, delete_range(line, start, end))
<1>0. /\ line.buf \in Line /\ Len(line.buf) \in Nat
      /\ line.col \in Nat /\ line.col <= Len(line.buf)
  BY InputFields
<1>1. CASE end <= start \/ end > Len(line.buf)
  BY <1>1 DEF delete_range, Local
<1>2. CASE start < end /\ end <= Len(line.buf)
  <2> DEFINE after == delete_range(line, start, end)
             len == Len(line.buf)
             n == len - end
  <2>1. /\ after \in InputLine
        /\ after.col = start
        /\ Len(after.buf) = start + n
        /\ \A i \in 1 .. start : after.buf[i] = line.buf[i]
        /\ \A i \in 1 .. n : after.buf[start + i] = line.buf[end + i]
    BY <1>2, DeletedParts
  <2>2. after.buf \in Line
    BY <2>1, InputFields
  <2>3. n \in Nat /\ end + n = len
    BY <1>0, <1>2
  <2> HIDE DEF after, n
  <2>4. SubSeq(after.buf, start + 1, start + n)
          = SubSeq(line.buf, end + 1, end + n)
    <3>1. start + n <= Len(after.buf) /\ end + n <= Len(line.buf)
      BY <1>0, <2>1, <2>3
    <3>2. \A k \in 1 .. n : after.buf[start + k] = line.buf[end + k]
      BY <2>1
    <3> DEFINE u == after.buf
               v == line.buf
    <3>3. u \in Line /\ start + n <= Len(u) /\ v \in Line /\ end + n <= Len(v)
      BY <1>0, <2>2, <3>1
    <3>4. \A k \in 1 .. n : u[start + k] = v[end + k]
      BY <3>2
    <3> HIDE DEF u, v
    <3> DEFINE x == SubSeq(u, start + 1, start + n)
               y == SubSeq(v, end + 1, end + n)
    <3>5. x \in Line /\ Len(x) = n /\ \A k \in 1 .. n : x[k] = u[start + k]
      BY <2>3, <3>3, PartOf
    <3>6. y \in Line /\ Len(y) = n /\ \A k \in 1 .. n : y[k] = v[end + k]
      BY <2>3, <3>3, PartOf
    <3> HIDE DEF x, y
    <3>7. x = y
      BY <3>4, <3>5, <3>6, SameBytes
    <3> QED BY <3>7 DEF x, y, u, v
  <2>5. SubSeq(after.buf, 1, start) = SubSeq(line.buf, 1, start)
    <3>1. SubSeq(after.buf, 0 + 1, 0 + start) = SubSeq(line.buf, 0 + 1, 0 + start)
      <4>1. 0 + start <= Len(after.buf) /\ 0 + start <= Len(line.buf) /\ 0 \in Nat
        BY <1>0, <1>2, <2>1, <2>3
      <4>2. \A k \in 1 .. start : after.buf[0 + k] = line.buf[0 + k]
        BY <2>1
      <4> QED BY <1>0, <2>2, <4>1, <4>2, PartsEqual
    <3> QED BY <3>1
  <2>6. CASE end = line.col
    <3>1. SubSeq(after.buf, after.col + 1, Len(after.buf))
            = SubSeq(line.buf, line.col + 1, Len(line.buf))
      BY <2>1, <2>3, <2>4, <2>6
    <3>2. IsPrefix(SubSeq(after.buf, 1, after.col),
                   SubSeq(line.buf, 1, line.col))
      <4> DEFINE x == SubSeq(line.buf, 1, start)
                 y == SubSeq(line.buf, 1, end)
      <4>1. x \in Line /\ Len(x) = start
            /\ \A k \in 1 .. start : x[k] = line.buf[k]
        BY <1>0, <1>2, BeginningOf
      <4>2. y \in Line /\ Len(y) = end
            /\ \A k \in 1 .. end : y[k] = line.buf[k]
        BY <1>0, <1>2, BeginningOf
      <4>3. SubSeq(after.buf, 1, after.col) = x
        BY <2>1, <2>5
      <4>4. SubSeq(line.buf, 1, line.col) = y
        BY <2>6
      <4> HIDE DEF x, y
      <4>5. IsPrefix(x, y)
        <5>1. \A k \in 1 .. Len(x) : x[k] = y[k]
          BY <1>2, <4>1, <4>2
        <5> QED BY <1>2, <4>1, <4>2, <5>1, PrefixIntro
      <4> QED BY <4>3, <4>4, <4>5
    <3>3. Local(line, after)
      BY <3>1, <3>2, Zenon DEF Local
    <3> QED BY <3>3 DEF after
  <2>7. CASE start = line.col
    <3>1. SubSeq(after.buf, 1, after.col) = SubSeq(line.buf, 1, line.col)
      BY <2>1, <2>5, <2>7
    <3>2. IsSuffix(SubSeq(after.buf, after.col + 1, Len(after.buf)),
                   SubSeq(line.buf, line.col + 1, Len(line.buf)))
      <4> DEFINE x == SubSeq(line.buf, end + 1, end + n)
                 y == SubSeq(line.buf, start + 1, start + (len - start))
      <4>1. x \in Line /\ Len(x) = n
            /\ \A k \in 1 .. n : x[k] = line.buf[end + k]
        <5>1. end + n <= Len(line.buf)
          BY <1>0, <2>3
        <5> QED BY <1>0, <2>3, <5>1, PartOf
      <4>2. y \in Line /\ Len(y) = len - start
            /\ \A k \in 1 .. (len - start) : y[k] = line.buf[start + k]
        <5>1. len - start \in Nat /\ start + (len - start) <= Len(line.buf)
          BY <1>0, <1>2
        <5> QED BY <1>0, <5>1, PartOf
      <4>3. SubSeq(after.buf, after.col + 1, Len(after.buf)) = x
        BY <2>1, <2>4
      <4>4. SubSeq(line.buf, line.col + 1, Len(line.buf)) = y
        <5>1. start + (len - start) = Len(line.buf)
          BY <1>0
        <5> QED BY <2>7, <5>1
      <4> HIDE DEF x, y
      <4>5. IsSuffix(x, y)
        <5>1. \A k \in 1 .. Len(x) :
                x[(Len(x) - k) + 1] = y[(Len(y) - k) + 1]
          <6> TAKE k \in 1 .. Len(x)
          <6> DEFINE i == (Len(x) - k) + 1
                     j == (Len(y) - k) + 1
          <6>1. i \in 1 .. n /\ j \in 1 .. (len - start) /\ start + j = end + i
            BY <1>0, <1>2, <2>3, <4>1, <4>2 DEF n
          <6> HIDE DEF i, j
          <6>2. x[i] = line.buf[end + i] /\ y[j] = line.buf[start + j]
            BY <4>1, <4>2, <6>1
          <6>3. x[i] = y[j]
            BY <6>1, <6>2
          <6> QED BY <6>3 DEF i, j
        <5>2. Len(x) <= Len(y)
          BY <1>0, <1>2, <2>3, <4>1, <4>2
        <5> QED BY <4>1, <4>2, <5>1, <5>2, SuffixIntro
      <4> QED BY <4>3, <4>4, <4>5
    <3>3. Local(line, after)
      BY <3>1, <3>2, Zenon DEF Local
    <3> QED BY <3>3 DEF after
  <2> QED BY <2>6, <2>7
<1> QED BY <1>0, <1>1, <1>2

(* A byte put in where there is room.                                        *)
LEMMA InsertedParts ==
  ASSUME NEW line \in InputLine, NEW byte \in Byte, Len(line.buf) + 1 < CAP
  PROVE  LET after == insert(line, byte)
             len == Len(line.buf)
             col == line.col
         IN  /\ after \in InputLine
             /\ after.col = col + 1
             /\ Len(after.buf) = len + 1
             /\ \A i \in 1 .. col : after.buf[i] = line.buf[i]
             /\ after.buf[col + 1] = byte
             /\ \A i \in 1 .. (len - col) :
                  after.buf[(col + 1) + i] = line.buf[col + i]
<1> DEFINE b == line.buf
           len == Len(line.buf)
           col == line.col
           n == len - col
           l == SubSeq(b, 1, col)
           m == << byte >>
           r == SubSeq(b, col + 1, len)
<1>0. b \in Line /\ len \in Nat /\ col \in Nat /\ col <= len /\ len + 1 < CAP
      /\ CAP \in Nat
  BY InputFields, CapPositive
<1>1. l \in Seq(Byte) /\ Len(l) = col /\ \A i \in 1 .. col : l[i] = b[i]
  BY <1>0, BeginningOf DEF Line
<1>2. r \in Seq(Byte) /\ Len(r) = n /\ \A i \in 1 .. n : r[i] = b[col + i]
  <2>1. n \in Nat /\ col + n <= Len(b) /\ col + n = len
    BY <1>0
  <2>2. /\ SubSeq(b, col + 1, col + n) \in Line
        /\ Len(SubSeq(b, col + 1, col + n)) = n
        /\ \A k \in 1 .. n : SubSeq(b, col + 1, col + n)[k] = b[col + k]
    BY <1>0, <2>1, PartOf
  <2> QED BY <2>1, <2>2 DEF Line
<1>3. m \in Seq(Byte) /\ Len(m) = 1 /\ m[1] = byte
  OBVIOUS
<1>4. insert(line, byte) = [buf |-> l \o m \o r, col |-> col + 1]
  BY <1>0 DEF insert
<1>5. n \in Nat /\ len = col + n
  BY <1>0
<1> HIDE DEF b, len, col, n, l, m, r
<1> DEFINE lm == l \o m
<1>6. /\ lm \in Seq(Byte) /\ Len(lm) = col + 1
      /\ \A i \in 1 .. col : lm[i] = b[i]
      /\ lm[col + 1] = byte
  <2>1. /\ l \o m \in Seq(Byte)
        /\ Len(l \o m) = Len(l) + Len(m)
        /\ \A i \in 1 .. Len(l) + Len(m) :
             (l \o m)[i] = IF i <= Len(l) THEN l[i] ELSE m[i - Len(l)]
    BY <1>1, <1>3, ConcatProperties
  <2> QED BY <1>0, <1>1, <1>3, <2>1
<1> HIDE DEF lm
<1> DEFINE new == lm \o r
<1>7. /\ new \in Seq(Byte) /\ Len(new) = len + 1
      /\ \A i \in 1 .. col : new[i] = b[i]
      /\ new[col + 1] = byte
      /\ \A i \in 1 .. n : new[(col + 1) + i] = b[col + i]
  <2>1. /\ lm \o r \in Seq(Byte)
        /\ Len(lm \o r) = Len(lm) + Len(r)
        /\ \A i \in 1 .. Len(lm) + Len(r) :
             (lm \o r)[i] = IF i <= Len(lm) THEN lm[i] ELSE r[i - Len(lm)]
    BY <1>2, <1>6, ConcatProperties
  <2>2. \A i \in 1 .. col : (lm \o r)[i] = b[i]
    BY <1>0, <1>2, <1>5, <1>6, <2>1
  <2>3. (lm \o r)[col + 1] = byte
    BY <1>0, <1>2, <1>5, <1>6, <2>1
  <2>4. \A i \in 1 .. n : (lm \o r)[(col + 1) + i] = b[col + i]
    <3> TAKE i \in 1 .. n
    <3> DEFINE k == (col + 1) + i
    <3>1. k \in 1 .. (col + 1) + n /\ ~(k <= col + 1) /\ k - (col + 1) = i
      BY <1>0, <1>5
    <3> HIDE DEF k
    <3>2. (lm \o r)[k] = r[i]
      BY <1>2, <1>6, <2>1, <3>1
    <3>3. r[i] = b[col + i]
      BY <1>2
    <3> QED BY <3>2, <3>3 DEF k
  <2>5. Len(lm \o r) = len + 1
    BY <1>0, <1>2, <1>5, <1>6, <2>1
  <2> QED BY <2>1, <2>2, <2>3, <2>4, <2>5, Zenon DEF new
<1>8. [buf |-> new, col |-> col + 1] \in InputLine
  <2>1. new \in Line /\ Len(new) < CAP /\ col + 1 \in 0 .. Len(new)
    BY <1>0, <1>7 DEF Line
  <2> HIDE DEF new
  <2> QED BY <2>1, InputIs
<1> HIDE DEF new
<1> DEFINE after == insert(line, byte)
<1>9. after.buf = new /\ after.col = col + 1
  BY <1>4 DEF new, lm
<1>10. after \in InputLine
  BY <1>4, <1>8 DEF new, lm
<1> HIDE DEF after
<1>11. /\ after.col = col + 1
       /\ Len(after.buf) = len + 1
       /\ \A i \in 1 .. col : after.buf[i] = b[i]
       /\ after.buf[col + 1] = byte
       /\ \A i \in 1 .. n : after.buf[(col + 1) + i] = b[col + i]
  BY <1>7, <1>9, Zenon
<1> QED BY <1>10, <1>11, Zenon DEF after, b, len, col, n

(* An insertion is local, and leaves the line whole unless the first byte of *)
(* the line becomes one that continues a character.                          *)
LEMMA Inserted ==
  ASSUME NEW line \in InputLine, NEW byte \in Byte
  PROVE  LET after == insert(line, byte)
         IN  /\ after \in InputLine
             /\ Local(line, after)
             /\ after.col > 0 \/ Len(after.buf) + 1 >= CAP
             /\ /\ Whole(line)
                /\ byte \notin Cont \/ line.col > 0 \/ Len(line.buf) + 1 >= CAP
                => Whole(after)
<1>0. /\ line.buf \in Line /\ Len(line.buf) \in Nat
      /\ line.col \in Nat /\ line.col <= Len(line.buf) /\ CAP \in Nat
  BY InputFields, CapPositive
<1>1. CASE Len(line.buf) + 1 >= CAP
  BY <1>1 DEF insert, Local
<1>2. CASE Len(line.buf) + 1 < CAP
  <2> DEFINE after == insert(line, byte)
             len == Len(line.buf)
             col == line.col
             n == len - col
  <2>1. /\ after \in InputLine
        /\ after.col = col + 1
        /\ Len(after.buf) = len + 1
        /\ \A i \in 1 .. col : after.buf[i] = line.buf[i]
        /\ after.buf[col + 1] = byte
        /\ \A i \in 1 .. n : after.buf[(col + 1) + i] = line.buf[col + i]
    BY <1>2, InsertedParts
  <2>2. after.buf \in Line
    <3> HIDE DEF after
    <3> QED BY <2>1, InputFields
  <2>3. n \in Nat /\ col + n = len /\ (col + 1) + n = len + 1
    BY <1>0
  <2> HIDE DEF after, n
  <2>4. SubSeq(after.buf, after.col + 1, Len(after.buf))
          = SubSeq(line.buf, line.col + 1, Len(line.buf))
    <3>1. SubSeq(after.buf, (col + 1) + 1, (col + 1) + n)
            = SubSeq(line.buf, col + 1, col + n)
      <4> DEFINE u == after.buf
                 v == line.buf
                 d == col + 1
      <4>1. \A k \in 1 .. n : u[d + k] = v[col + k]
        BY <2>1
      <4>2. /\ u \in Line /\ v \in Line /\ n \in Nat
            /\ d \in Nat /\ d + n <= Len(u)
            /\ col \in Nat /\ col + n <= Len(v)
        BY <1>0, <2>1, <2>2, <2>3
      <4> HIDE DEF u, v, d, col
      <4> DEFINE x == SubSeq(u, d + 1, d + n)
                 y == SubSeq(v, col + 1, col + n)
      <4>3. x \in Line /\ Len(x) = n /\ \A k \in 1 .. n : x[k] = u[d + k]
        BY <4>2, PartOf
      <4>4. y \in Line /\ Len(y) = n /\ \A k \in 1 .. n : y[k] = v[col + k]
        BY <4>2, PartOf
      <4> HIDE DEF x, y
      <4>5. x = y
        BY <4>1, <4>3, <4>4, SameBytes
      <4> QED BY <4>5 DEF x, y, u, v, d, col
    <3> QED BY <2>1, <2>3, <3>1
  <2>5. IsPrefix(SubSeq(line.buf, 1, line.col), SubSeq(after.buf, 1, after.col))
    <3> DEFINE x == SubSeq(line.buf, 1, col)
               y == SubSeq(after.buf, 1, col + 1)
    <3>1. x \in Line /\ Len(x) = col
          /\ \A k \in 1 .. col : x[k] = line.buf[k]
      BY <1>0, BeginningOf
    <3>2. y \in Line /\ Len(y) = col + 1
          /\ \A k \in 1 .. (col + 1) : y[k] = after.buf[k]
      <4>1. col + 1 <= Len(after.buf) /\ col + 1 \in Nat
        BY <1>0, <2>1
      <4> QED BY <2>2, <4>1, BeginningOf
    <3>3. SubSeq(line.buf, 1, line.col) = x
          /\ SubSeq(after.buf, 1, after.col) = y
      BY <1>0, <2>1
    <3> HIDE DEF x, y
    <3>4. \A k \in 1 .. Len(x) : x[k] = y[k]
      BY <1>0, <2>1, <3>1, <3>2
    <3>5. Len(x) <= Len(y)
      BY <1>0, <3>1, <3>2
    <3>6. IsPrefix(x, y)
      BY <3>1, <3>2, <3>4, <3>5, PrefixIntro
    <3> QED BY <3>3, <3>6
  <2>6. Local(line, after)
    BY <2>4, <2>5, Zenon DEF Local
  <2>7. after.col > 0
    BY <1>0, <2>1
  <2>8. ASSUME Whole(line), byte \notin Cont \/ line.col > 0
        PROVE  Whole(after)
    <3>1. Stands(after.buf, col + 1)
      <4>1. CASE col = len
        BY <2>1, <4>1 DEF Stands
      <4>2. CASE col < len
        <5>1. after.buf[(col + 1) + 1] = line.buf[col + 1]
          BY <1>0, <2>1, <2>3, <4>2
        <5>2. line.buf[col + 1] \notin Cont
          BY <1>0, <2>8, <4>2 DEF Whole, Stands
        <5> QED BY <5>1, <5>2 DEF Stands
      <4> QED BY <1>0, <4>1, <4>2
    <3>2. Stands(after.buf, 0)
      <4>1. CASE col = 0
        BY <2>1, <2>8, <4>1 DEF Stands
      <4>2. CASE col > 0
        <5>1. after.buf[1] = line.buf[1]
          BY <1>0, <2>1, <4>2
        <5>2. line.buf[0 + 1] \notin Cont
          BY <1>0, <2>8, <4>2 DEF Whole, Stands
        <5> QED BY <5>1, <5>2 DEF Stands
      <4> QED BY <1>0, <4>1, <4>2
    <3> QED BY <2>1, <3>1, <3>2 DEF Whole
  <2> QED BY <1>0, <1>2, <2>1, <2>6, <2>7, <2>8 DEF after
<1> QED BY <1>0, <1>1, <1>2

(* What an editing key may make of a line.                                   *)
Fits(before, after) == after \in InputLine /\ Local(before, after)

Edited(before, after) == Fits(before, after) /\ (Whole(before) => Whole(after))

LEMMA Moved ==
  ASSUME NEW line \in InputLine, NEW c \in 0 .. Len(line.buf),
         Whole(line) => Stands(line.buf, c)
  PROVE  Edited(line, [line EXCEPT !.col = c])
<1> DEFINE after == [line EXCEPT !.col = c]
<1>1. /\ after \in InputLine
      /\ after.buf = line.buf
      /\ Whole(line) /\ Stands(line.buf, c) => Whole(after)
  BY MoveLine
<1> HIDE DEF after
<1>2. Edited(line, after)
  BY <1>1, Zenon DEF Edited, Fits, Local
<1> QED BY <1>2 DEF after

LEMMA Moves ==
  ASSUME NEW line \in InputLine
  PROVE  /\ Edited(line, move_start(line)) /\ Edited(line, move_end(line))
         /\ Edited(line, move_prev_char(line))
         /\ Edited(line, move_next_char(line))
         /\ Edited(line, move_prev_word(line))
         /\ Edited(line, move_next_word(line))
<1> DEFINE buf == line.buf
           col == line.col
           Place(c) == c \in 0 .. Len(buf)
                       /\ (Whole(line) => Stands(buf, c))
<1>0. buf \in Line /\ Len(buf) \in Nat /\ col \in 0 .. Len(buf) /\ col \in Nat
  BY InputFields
<1>1. Whole(line) => Stands(buf, 0) /\ Stands(buf, col)
  BY DEF Whole
<1>2. ASSUME NEW c, Place(c) PROVE Edited(line, [line EXCEPT !.col = c])
  BY <1>2, Moved
<1>3. Place(0) /\ Place(Len(buf))
  BY <1>0, <1>1 DEF Stands
<1>4. Place(utf8_prev_boundary(buf, col))
  <2> DEFINE c == utf8_prev_boundary(buf, col)
  <2>1. c \in 0 .. col /\ (c = 0 \/ buf[c + 1] \notin Cont)
    BY <1>0, PrevBoundaryLeft, PrevBoundaryStands
  <2> HIDE DEF c
  <2>2. Place(c)
    BY <1>0, <1>1, <2>1 DEF Stands
  <2> QED BY <2>2 DEF c
<1>5. Place(utf8_next_boundary(buf, col))
  <2> DEFINE c == utf8_next_boundary(buf, col)
  <2>1. c \in 0 .. Len(buf) /\ (c = Len(buf) \/ buf[c + 1] \notin Cont)
    BY <1>0, NextBoundaryInLine, NextBoundaryStands
  <2> HIDE DEF c
  <2>2. Place(c)
    BY <2>1 DEF Stands
  <2> QED BY <2>2 DEF c
<1>6. ASSUME NEW d, Place(d), NEW skip PROVE Place(SkipLeft(buf, d, skip))
  <2> DEFINE c == SkipLeft(buf, d, skip)
  <2>1. d \in Nat /\ d \in 0 .. Len(buf)
    BY <1>0, <1>6
  <2>2. c \in 0 .. d /\ (c = d \/ c = 0 \/ buf[c + 1] \notin Cont)
    BY <1>0, <2>1, SkipLeftBefore, SkipLeftStands
  <2> HIDE DEF c
  <2>3. Place(c)
    BY <1>0, <1>1, <1>6, <2>1, <2>2 DEF Stands
  <2> QED BY <2>3 DEF c
<1>7. ASSUME NEW d, Place(d), NEW skip PROVE Place(SkipRight(buf, d, skip))
  <2> DEFINE c == SkipRight(buf, d, skip)
  <2>1. d \in 0 .. Len(buf)
    BY <1>7
  <2>2. /\ c \in d .. Len(buf)
        /\ c = d \/ c = Len(buf) \/ buf[c + 1] \notin Cont
    BY <1>0, <2>1, SkipRightInLine, SkipRightStands
  <2> HIDE DEF c
  <2>3. Place(c)
    BY <1>0, <1>1, <1>7, <2>1, <2>2 DEF Stands
  <2> QED BY <2>3 DEF c
<1>8. Place(col)
  BY <1>0, <1>1
<1>9. /\ Place(SkipLeft(buf, SkipLeft(buf, col, Byte \ WordByte), WordByte))
      /\ Place(SkipRight(buf, SkipRight(buf, col, Byte \ WordByte), WordByte))
  <2> HIDE DEF Place
  <2> QED BY <1>6, <1>7, <1>8
<1> HIDE DEF Place
<1> QED BY <1>2, <1>3, <1>4, <1>5, <1>9
        DEF move_start, move_end, move_prev_char, move_next_char,
            move_prev_word, move_next_word

LEMMA Deleted ==
  ASSUME NEW line \in InputLine, NEW start \in Nat, NEW end \in Nat,
         start = line.col \/ end = line.col,
         Whole(line) => Stands(line.buf, end)
  PROVE  Edited(line, delete_range(line, start, end))
BY DeletedWhole, DeletedLocal DEF Edited, Fits

LEMMA Deletions ==
  ASSUME NEW line \in InputLine
  PROVE  /\ Edited(line, delete_backward(line))
         /\ Edited(line, delete_forward(line))
         /\ Edited(line, delete_prev_word(line))
         /\ Edited(line, delete_next_word(line))
         /\ Edited(line, kill_to_end(line))
<1> DEFINE buf == line.buf
           col == line.col
<1>0. buf \in Line /\ Len(buf) \in Nat /\ col \in 0 .. Len(buf) /\ col \in Nat
  BY InputFields
<1>1. Whole(line) => Stands(buf, col)
  BY DEF Whole
<1>2. ASSUME NEW c \in Nat PROVE Edited(line, delete_range(line, c, col))
  BY <1>0, <1>1, Deleted
<1>3. ASSUME NEW c \in Nat, Whole(line) => Stands(buf, c)
      PROVE  Edited(line, delete_range(line, col, c))
  BY <1>0, <1>3, Deleted
<1>4. Edited(line, delete_backward(line))
  <2>1. utf8_prev_boundary(buf, col) \in Nat
    BY <1>0, PrevBoundaryLeft
  <2> QED BY <1>2, <2>1 DEF delete_backward
<1>5. Edited(line, delete_forward(line))
  <2> DEFINE c == utf8_next_boundary(buf, col)
  <2>1. c \in Nat /\ (c = Len(buf) \/ buf[c + 1] \notin Cont)
    <3>1. c \in 0 .. Len(buf)
      BY <1>0, NextBoundaryInLine
    <3>2. c = Len(buf) \/ buf[c + 1] \notin Cont
      BY <1>0, NextBoundaryStands
    <3> HIDE DEF c
    <3> QED BY <1>0, <3>1, <3>2
  <2> HIDE DEF c
  <2>2. Edited(line, delete_range(line, col, c))
    BY <1>3, <2>1 DEF Stands
  <2> QED BY <2>2 DEF delete_forward, c
<1>6. Edited(line, delete_prev_word(line))
  <2> DEFINE d == SkipLeft(buf, col, SpaceByte)
             c == SkipLeft(buf, d, WordByte)
  <2>1. d \in Nat
    BY <1>0, SkipLeftBefore
  <2>2. c \in Nat
    <3> HIDE DEF d
    <3>1. c \in 0 .. d
      BY <2>1, SkipLeftBefore
    <3> QED BY <2>1, <3>1
  <2> QED BY <1>2, <2>2 DEF delete_prev_word
<1>7. Edited(line, delete_next_word(line))
  <2> DEFINE d == SkipRight(buf, col, SpaceByte)
             c == SkipRight(buf, d, WordByte)
  <2>1. /\ d \in 0 .. Len(buf)
        /\ d = col \/ d = Len(buf) \/ buf[d + 1] \notin Cont
    <3>1. d \in col .. Len(buf)
      BY <1>0, SkipRightInLine
    <3>2. d = col \/ d = Len(buf) \/ buf[d + 1] \notin Cont
      BY <1>0, SkipRightStands
    <3> HIDE DEF d
    <3> QED BY <1>0, <3>1, <3>2
  <2>2. /\ c \in Nat
        /\ c = d \/ c = Len(buf) \/ buf[c + 1] \notin Cont
    <3> HIDE DEF d
    <3>1. c \in d .. Len(buf)
      BY <1>0, <2>1, SkipRightInLine
    <3>2. c = d \/ c = Len(buf) \/ buf[c + 1] \notin Cont
      BY <1>0, <2>1, SkipRightStands
    <3> HIDE DEF c
    <3> QED BY <1>0, <2>1, <3>1, <3>2
  <2>3. c = SkipRight(buf, SkipRight(buf, col, SpaceByte), WordByte)
    OBVIOUS
  <2> HIDE DEF c, d
  <2>4. Whole(line) => Stands(buf, c)
    BY <1>1, <2>1, <2>2 DEF Stands
  <2> QED BY <1>3, <2>2, <2>3, <2>4 DEF delete_next_word
<1>8. Edited(line, kill_to_end(line))
  BY <1>0, <1>3 DEF kill_to_end, Stands
<1> QED BY <1>4, <1>5, <1>6, <1>7, <1>8

-----------------------------------------------------------------------------
(* Keys.                                                                     *)

LEMMA SameFits ==
  ASSUME NEW line \in InputLine
  PROVE  Edited(line, line)
BY DEF Edited, Fits, Local

LEMMA PromptLineFits ==
  ASSUME prompt \in InputLine, NEW key
  PROVE  Fits(prompt, PromptLine(key))
<1>1. /\ Fits(prompt, move_start(prompt)) /\ Fits(prompt, move_end(prompt))
      /\ Fits(prompt, move_prev_char(prompt)) /\ Fits(prompt, move_next_char(prompt))
  BY Moves DEF Edited
<1>2. /\ Fits(prompt, delete_forward(prompt)) /\ Fits(prompt, delete_backward(prompt))
      /\ Fits(prompt, delete_prev_word(prompt)) /\ Fits(prompt, kill_to_end(prompt))
  BY Deletions DEF Edited
<1>3. key \in Byte => Fits(prompt, insert(prompt, key))
  BY Inserted DEF Fits
<1>4. Fits(prompt, prompt)
  BY SameFits DEF Edited
<1> QED BY <1>1, <1>2, <1>3, <1>4 DEF PromptLine

LEMMA MetaLineFits ==
  ASSUME prompt \in InputLine, NEW key
  PROVE  Fits(prompt, MetaLine(key))
<1>1. /\ Fits(prompt, move_start(prompt)) /\ Fits(prompt, move_end(prompt))
      /\ Fits(prompt, move_prev_word(prompt)) /\ Fits(prompt, move_next_word(prompt))
  BY Moves DEF Edited
<1>2. Fits(prompt, delete_next_word(prompt)) /\ Fits(prompt, delete_prev_word(prompt))
  BY Deletions DEF Edited
<1>3. Fits(prompt, prompt)
  BY SameFits DEF Edited
<1> QED BY <1>1, <1>2, <1>3 DEF MetaLine

(* There is a byte before the query's cursor, or no room for another: the    *)
(* rest of a character cannot become the beginning of the line.              *)
NoRoomInFront(line) == line.col > 0 \/ Len(line.buf) + 1 >= CAP

(* A key of the finder leaves the query whole; a byte is put behind another. *)
LEMMA FinderKeyFits ==
  ASSUME query \in InputLine, Whole(query), NEW key,
         finder_handle_key(key),
         key \notin Cont \/ NoRoomInFront(query)
  PROVE  /\ Edited(query, query')
         /\ key \in Byte => NoRoomInFront(query')
<1>1. CASE FinderClose(key)
  <2>1. query' = query /\ key \notin Byte
    BY <1>1, ControlsAreNoText DEF FinderClose, Controls
  <2> QED BY <2>1, SameFits
<1>2. CASE FinderSelect(key)
  <2>1. query' = query /\ key \notin Byte
    BY <1>2, ControlsAreNoText DEF FinderSelect, Controls
  <2> QED BY <2>1, SameFits
<1>3. CASE QueryMove(key)
  <2>1. key \notin Byte
    BY <1>3, ControlsAreNoText DEF QueryMove, Controls
  <2>2. query' \in {move_start(query), move_end(query),
                    move_prev_char(query), move_next_char(query)}
    BY <1>3 DEF QueryMove
  <2> QED BY <2>1, <2>2, Moves
<1>4. CASE QueryEdit(key)
  <2>1. query' = EditedQuery(key)
    BY <1>4 DEF QueryEdit
  <2>2. CASE key \in Byte
    <3>1. key \notin Controls
      BY <2>2, ControlsAreNoText
    <3>2. query' = insert(query, key)
      BY <2>1, <3>1 DEF EditedQuery, Controls
    <3> DEFINE after == insert(query, key)
    <3>3. /\ after \in InputLine
          /\ Local(query, after)
          /\ after.col > 0 \/ Len(after.buf) + 1 >= CAP
          /\ /\ Whole(query)
             /\ key \notin Cont \/ query.col > 0 \/ Len(query.buf) + 1 >= CAP
             => Whole(after)
      BY <2>2, Inserted
    <3> HIDE DEF after
    <3>4. Edited(query, after) /\ NoRoomInFront(after)
      BY <3>3 DEF Edited, Fits, NoRoomInFront
    <3> QED BY <3>2, <3>4 DEF after
  <2>3. CASE key \notin Byte
    <3>1. query' \in {delete_backward(query), delete_forward(query),
                      delete_prev_word(query), kill_to_end(query)}
      BY <1>4, <2>1, <2>3 DEF QueryEdit, EditedQuery
    <3> QED BY <2>3, <3>1, Deletions
  <2> QED BY <2>2, <2>3
<1> QED BY <1>1, <1>2, <1>3, <1>4 DEF finder_handle_key

-----------------------------------------------------------------------------
(* The invariant.                                                            *)

LinesInv ==
  /\ query \in InputLine
  /\ prompt \in InputLine
  /\ Whole(query)
  /\ typing \in Seq(Cont)
  /\ typing # << >> /\ finder_active => NoRoomInFront(query)
  /\ ~(meta /\ finder_active)

(* What EditIsLocal says of a step.                                          *)
EditsOneLine ==
  /\ finder_active => /\ prompt' = prompt
                      /\ finder_active' => Local(query, query')
  /\ ~finder_active /\ prompt_active /\ prompt_active' => Local(prompt, prompt')
  /\ prompt' # prompt => ~finder_active

LEMMA InitLines == Init => LinesInv
<1>1. << >> \in Seq(Cont)
  BY EmptySeq
<1> QED BY <1>1, EmptyInputLine DEF Init, FinderInit, LinesInv

(* A step that leaves both lines and typing alone and opens nothing.         *)
LEMMA LinesUntouched ==
  ASSUME LinesInv, query' = query, prompt' = prompt, typing' = typing,
         finder_active' => finder_active,
         meta' => meta \/ ~finder_active
  PROVE  LinesInv' /\ EditsOneLine
<1>1. Local(query, query) /\ Local(prompt, prompt)
  BY DEF Local
<1>2. LinesInv'
  BY DEF LinesInv, Whole, Stands, NoRoomInFront
<1> QED BY <1>1, <1>2 DEF EditsOneLine

(* A key that reaches one of the lines; what is typed behind it may follow.  *)
LEMMA KeyOnLine ==
  ASSUME LinesInv, NEW key, PressKey(key),
         key \notin Cont \/ typing # << >>,
         typing' \in Seq(Cont),
         typing' # << >> => key \in Byte
  PROVE  LinesInv' /\ EditsOneLine
<1>1. CASE MetaKey(key)
  <2>1. ~finder_active /\ ~finder_active' /\ query' = query /\ ~meta'
    BY <1>1 DEF MetaKey, finderVars, LinesInv
  <2>2. prompt' \in InputLine /\ Local(prompt, prompt')
    BY <1>1, MetaLineFits DEF MetaKey, LinesInv, Fits
  <2>3. LinesInv'
    BY <2>1, <2>2 DEF LinesInv, Whole, Stands
  <2> QED BY <2>1, <2>2, <2>3 DEF EditsOneLine
<1>2. CASE FinderKey(key)
  <2>1. finder_active /\ prompt' = prompt /\ meta' = meta /\ ~meta
    BY <1>2 DEF FinderKey, promptVars
  <2>2. Edited(query, query') /\ (key \in Byte => NoRoomInFront(query'))
    <3>1. key \notin Cont \/ NoRoomInFront(query)
      BY <2>1 DEF LinesInv
    <3> QED BY <1>2, <3>1, FinderKeyFits DEF FinderKey, LinesInv
  <2>3. query' \in InputLine /\ Local(query, query') /\ Whole(query')
    BY <2>2 DEF Edited, Fits, LinesInv
  <2>4. (typing # << >> /\ finder_active => NoRoomInFront(query))'
    BY <2>2
  <2>5. (~(meta /\ finder_active))'
    BY <2>1
  <2>6. LinesInv'
    BY <2>1, <2>3, <2>4, <2>5 DEF LinesInv
  <2> QED BY <2>1, <2>3, <2>6 DEF EditsOneLine
<1>3. CASE PromptKey(key)
  <2>1. /\ ~finder_active /\ ~finder_active' /\ query' = query /\ ~meta
        /\ meta' = meta
    BY <1>3 DEF PromptKey, finderVars
  <2>2. prompt' \in InputLine /\ (prompt_active' => Local(prompt, prompt'))
    <3>1. CASE key = "Enter"
      <4>1. prompt' = move_start(prompt) /\ ~prompt_active'
        BY <1>3, <3>1 DEF PromptKey, PromptEnter, move_start
      <4>2. Edited(prompt, move_start(prompt))
        BY Moves DEF LinesInv
      <4> QED BY <4>1, <4>2 DEF Edited, Fits
    <3>2. CASE key = "C-g"
      BY <1>3, <3>2, EmptyInputLine DEF PromptKey
    <3>3. CASE key # "Enter" /\ key # "C-g"
      <4>1. prompt' = PromptLine(key)
        BY <1>3, <3>3 DEF PromptKey
      <4>2. Fits(prompt, PromptLine(key))
        BY PromptLineFits DEF LinesInv
      <4> QED BY <4>1, <4>2 DEF Fits
    <3> QED BY <3>1, <3>2, <3>3
  <2>3. LinesInv'
    BY <2>1, <2>2 DEF LinesInv, Whole, Stands
  <2> QED BY <2>1, <2>2, <2>3 DEF EditsOneLine
<1> QED BY <1>1, <1>2, <1>3 DEF PressKey

LEMMA StepLines == LinesInv /\ [Next]_vars => LinesInv' /\ EditsOneLine
<1> SUFFICES ASSUME LinesInv, [Next]_vars PROVE LinesInv' /\ EditsOneLine
  OBVIOUS
<1>1. CASE Press
  <2>1. typing = << >>
    BY <1>1 DEF Press
  <2>2. CASE \E key \in Controls \cup (IF meta THEN MetaLetters ELSE {}) :
               PressKey(key) /\ UNCHANGED typing
    <3>1. PICK key \in Controls \cup (IF meta THEN MetaLetters ELSE {}) :
            PressKey(key) /\ UNCHANGED typing
      BY <2>2
    <3>2. CASE key \in Controls
      <4>1. key \notin Cont
        BY <3>2, ByteClasses, ControlsAreNoText
      <4> QED BY <2>1, <3>1, <4>1, KeyOnLine DEF LinesInv
    <3>3. CASE meta
      <4>1. /\ ~finder_active /\ ~finder_active' /\ query' = query /\ ~meta'
            /\ prompt' = MetaLine(key)
        BY <3>1, <3>3 DEF PressKey, MetaKey, FinderKey, PromptKey, finderVars,
                          LinesInv
      <4>2. prompt' \in InputLine /\ Local(prompt, prompt')
        BY <4>1, MetaLineFits DEF LinesInv, Fits
      <4>3. LinesInv'
        BY <3>1, <4>1, <4>2 DEF LinesInv, Whole, Stands
      <4> QED BY <4>1, <4>2, <4>3 DEF EditsOneLine
    <3> QED BY <3>2, <3>3
  <2>3. CASE \E c \in Characters : PressKey(c[1]) /\ typing' = Tail(c)
    <3>1. PICK c \in Characters : PressKey(c[1]) /\ typing' = Tail(c)
      BY <2>3
    <3>2. c \in Seq(Byte) /\ c # << >> /\ c[1] \notin Cont
          /\ \A i \in 2 .. Len(c) : c[i] \in Cont
      BY ModalsConstants
    <3>3. c[1] \in Byte
      BY <3>2
    <3>4. Tail(c) \in Seq(Cont)
      <4>1. \A i \in 2 .. Len(c) : c[i] \in Cont
        BY <3>2
      <4>2. Tail(c) = SubSeq(c, 2, Len(c))
        BY <3>2, TailIsSubSeq
      <4>3. 2 \in Int /\ Len(c) \in Int
        BY <3>2
      <4>4. SubSeq(c, 2, Len(c)) \in Seq(Cont)
        BY <4>1, <4>3, SubSeqProperties
      <4> QED BY <4>2, <4>4
    <3> QED BY <3>1, <3>2, <3>3, <3>4, KeyOnLine
  <2>4. CASE Escape /\ UNCHANGED typing
    BY <2>4, LinesUntouched DEF Escape, finderVars, promptVars
  <2>5. CASE MetaP /\ UNCHANGED typing
    <3>1. ~finder_active /\ prompt' = prompt /\ meta /\ ~meta'
      BY <2>5 DEF MetaP, LinesInv, promptVars
    <3>2. CASE HasProjectRoot(StartDir)
      <4>1. query' = EmptyInput
        BY <2>5, <3>2 DEF MetaP, finder_open, OpenInProject
      <4>2. LinesInv'
        BY <2>1, <2>5, <3>1, <4>1, EmptyInputLine DEF LinesInv
      <4> QED BY <3>1, <4>2 DEF EditsOneLine, Local
    <3>3. CASE ~HasProjectRoot(StartDir)
      <4>1. query' = query /\ finder_active' = finder_active
        BY <2>5, <3>3 DEF MetaP, finder_open, finderVars
      <4> QED BY <2>5, <3>1, <4>1, LinesUntouched
    <3> QED BY <3>2, <3>3
  <2>6. CASE MetaElsewhere /\ UNCHANGED typing
    BY <2>6, LinesUntouched DEF MetaElsewhere, finderVars, promptVars
  <2>7. CASE Save /\ UNCHANGED typing
    <3>1. /\ query' = query /\ finder_active' = finder_active /\ meta' = meta
          /\ ~prompt_active /\ ~finder_active
      BY <2>7 DEF Save, finderVars
    <3>2. prompt' \in InputLine
      BY <2>7, EmptyInputLine DEF Save, promptVars, LinesInv
    <3>3. LinesInv'
      BY <2>7, <3>1, <3>2 DEF LinesInv, Whole, Stands
    <3> QED BY <3>1, <3>3 DEF EditsOneLine
  <2> QED BY <1>1, <2>2, <2>3, <2>4, <2>5, <2>6, <2>7 DEF Press
<1>2. CASE RestOfCharacter
  <2>1. typing # << >> /\ PressKey(typing[1]) /\ typing' = Tail(typing)
    BY <1>2 DEF RestOfCharacter
  <2>2. typing \in Seq(Cont)
    BY DEF LinesInv
  <2>3. typing[1] \in Cont /\ Tail(typing) \in Seq(Cont)
    BY <2>1, <2>2
  <2>4. typing[1] \in Byte
    BY <2>3, ByteClasses
  <2> QED BY <2>1, <2>3, <2>4, KeyOnLine
<1>3. CASE Resize
  BY <1>3, LinesUntouched DEF Resize, finderVars, promptVars
<1>4. CASE FileRemoved
  BY <1>4, LinesUntouched DEF FileRemoved, finderVars, promptVars
<1>5. CASE UNCHANGED vars
  BY <1>5, LinesUntouched DEF vars, finderVars, promptVars
<1> QED BY <1>1, <1>2, <1>3, <1>4, <1>5 DEF Next

-----------------------------------------------------------------------------
(* The elements of a finite set in an order.                                 *)

(* The elements of a finite set in the order R: the m-th is the one that has *)
(* m - 1 before it.                                                          *)
Ahead(S, R, i) == {j \in S : <<j, i>> \in R}
InOrder(S, R) ==
  [m \in 1 .. Cardinality(S) |->
     CHOOSE i \in S : Cardinality(Ahead(S, R, i)) = m - 1]

LEMMA OrderedSet ==
  ASSUME NEW S, IsFiniteSet(S), NEW R,
         \A i \in S : <<i, i>> \notin R,
         \A i, j \in S : i # j => <<i, j>> \in R \/ <<j, i>> \in R,
         \A i, j, k \in S : <<i, j>> \in R /\ <<j, k>> \in R => <<i, k>> \in R
  PROVE  /\ Cardinality(S) \in Nat
         /\ InOrder(S, R) \in [1 .. Cardinality(S) -> S]
         /\ \A i \in S : \E m \in 1 .. Cardinality(S) : InOrder(S, R)[m] = i
         /\ \A k, m \in 1 .. Cardinality(S) :
              k < m <=> <<InOrder(S, R)[k], InOrder(S, R)[m]>> \in R
<1> DEFINE n == Cardinality(S)
           rank == [i \in S |-> Cardinality(Ahead(S, R, i))]
<1>1. n \in Nat
  BY FS_CardinalityType
<1>2. ASSUME NEW i \in S PROVE IsFiniteSet(Ahead(S, R, i)) /\ rank[i] \in 0 .. (n - 1)
  <2> DEFINE B == Ahead(S, R, i)
  <2>1. B \in SUBSET S /\ B # S
    BY DEF Ahead
  <2> HIDE DEF B
  <2>2. IsFiniteSet(B) /\ Cardinality(B) <= n /\ Cardinality(B) # n
    BY <2>1, FS_Subset
  <2>3. Cardinality(B) \in Nat
    BY <2>2, FS_CardinalityType
  <2>4. rank[i] = Cardinality(B)
    BY DEF B
  <2> HIDE DEF rank, n
  <2> QED BY <1>1, <2>2, <2>3, <2>4 DEF B
<1>3. ASSUME NEW i \in S, NEW j \in S, <<i, j>> \in R
      PROVE  rank[i] < rank[j]
  <2> DEFINE B == Ahead(S, R, i)
             C == Ahead(S, R, j)
  <2>1. B \in SUBSET C
    BY <1>3 DEF Ahead
  <2>2. i \in C /\ i \notin B
    BY <1>3 DEF Ahead
  <2>3. IsFiniteSet(C) /\ IsFiniteSet(B)
    BY <1>2
  <2> HIDE DEF B, C
  <2>4. Cardinality(B) <= Cardinality(C) /\ Cardinality(B) # Cardinality(C)
    BY <2>1, <2>2, <2>3, FS_Subset
  <2>5. Cardinality(B) \in Nat /\ Cardinality(C) \in Nat
    BY <2>3, FS_CardinalityType
  <2>6. Cardinality(B) < Cardinality(C)
    BY <2>4, <2>5
  <2> QED BY <2>6 DEF B, C
<1> DEFINE T == 0 .. (n - 1)
<1>4. rank \in Injection(S, T)
  <2>1. rank \in [S -> T]
    BY <1>2
  <2>2. ASSUME NEW i \in S, NEW j \in S, rank[i] = rank[j] PROVE i = j
    <3> HIDE DEF rank
    <3>1. rank[i] \in Int /\ rank[j] \in Int
      BY <1>2
    <3>2. <<i, j>> \notin R /\ <<j, i>> \notin R
      BY <1>3, <2>2, <3>1
    <3> QED BY <3>2
  <2> HIDE DEF rank, T
  <2> QED BY <2>1, <2>2 DEF Injection, IsInjective
<1>5. IsFiniteSet(T) /\ Cardinality(T) = n
  <2> HIDE DEF n
  <2>1. IsFiniteSet(T)
    BY <1>1, FS_Interval
  <2>2. CASE n = 0
    <3>1. T = {}
      BY <2>2
    <3> QED BY <2>1, <2>2, <3>1, FS_EmptySet
  <2>3. CASE n # 0
    <3>1. Cardinality(T) = (n - 1) - 0 + 1
      BY <1>1, <2>3, FS_Interval
    <3> QED BY <1>1, <2>1, <3>1
  <2> QED BY <2>2, <2>3
<1>6. rank \in Surjection(S, T)
  <2> HIDE DEF rank, T
  <2> QED BY <1>4, <1>5, FS_Injection
<1>7. \A m \in T : \E i \in S : rank[i] = m
  <2> HIDE DEF rank, T
  <2> QED BY <1>6 DEF Surjection
<1> DEFINE seq == InOrder(S, R)
<1>8. ASSUME NEW m \in 1 .. n PROVE seq[m] \in S /\ rank[seq[m]] = m - 1
  <2>1. m - 1 \in T
    BY <1>1
  <2>2. \E i \in S : Cardinality(Ahead(S, R, i)) = m - 1
    BY <1>7, <2>1
  <2>3. seq[m] = CHOOSE i \in S : Cardinality(Ahead(S, R, i)) = m - 1
    BY DEF InOrder
  <2> HIDE DEF seq
  <2>4. seq[m] \in S /\ Cardinality(Ahead(S, R, seq[m])) = m - 1
    BY <2>2, <2>3
  <2> QED BY <2>4
<1>9. seq = [m \in 1 .. n |-> seq[m]]
  BY DEF InOrder
<1> HIDE DEF rank, seq
<1>10. seq \in [1 .. n -> S]
  BY <1>8, <1>9
<1>11. ASSUME NEW i \in S PROVE \E m \in 1 .. n : seq[m] = i
  <2>1. rank[i] + 1 \in 1 .. n /\ (rank[i] + 1) - 1 = rank[i]
    BY <1>1, <1>2
  <2>2. rank[seq[rank[i] + 1]] = rank[i] /\ seq[rank[i] + 1] \in S
    BY <1>8, <2>1
  <2>3. seq[rank[i] + 1] = i
    BY <1>4, <2>2 DEF Injection, IsInjective
  <2> QED BY <2>1, <2>3
<1>12. ASSUME NEW k \in 1 .. n, NEW m \in 1 .. n
       PROVE  k < m <=> <<seq[k], seq[m]>> \in R
  <2>1. /\ seq[k] \in S /\ seq[m] \in S
        /\ rank[seq[k]] = k - 1 /\ rank[seq[m]] = m - 1
    BY <1>8
  <2>2. <<seq[k], seq[m]>> \in R => k < m
    BY <1>1, <1>3, <2>1
  <2>3. ASSUME k < m PROVE <<seq[k], seq[m]>> \in R
    <3>1. seq[k] # seq[m]
      BY <1>1, <2>1, <2>3
    <3>2. <<seq[m], seq[k]>> \notin R
      BY <1>1, <1>3, <2>1, <2>3
    <3> QED BY <2>1, <3>1, <3>2
  <2> QED BY <2>2, <2>3
<1> QED BY <1>1, <1>10, <1>11, <1>12 DEF seq

-----------------------------------------------------------------------------
(* The greedy loop of fuzzy_score.                                           *)

(* A step of the loop of fuzzy_score.                                        *)
RunStep(pattern, text, t, r) ==
  IF r.p = Len(pattern) THEN r
  ELSE IF Fold[pattern[r.p + 1]] = Fold[text[t]]
    THEN [p |-> r.p + 1, streak |-> r.streak + 1,
          score |-> r.score + Bonus(text, t, r.streak)]
    ELSE [r EXCEPT !.streak = 0]

RunStates(pattern) == [p : 0 .. Len(pattern), streak : Nat, score : Nat]

NoneMatched == [p |-> 0, streak |-> 0, score |-> 0]

LEMMA BonusType ==
  ASSUME NEW text, NEW t \in Nat, NEW streak \in Nat
  PROVE  /\ Bonus(text, t, streak) \in Nat
         /\ Bonus(text, t, streak) >= 10
         /\ streak = 0 => Bonus(text, t, streak) <= 14
BY DEF Bonus

LEMMA RunStepType ==
  ASSUME NEW pattern \in Line, NEW text, NEW t \in Nat, NEW r \in RunStates(pattern)
  PROVE  /\ RunStep(pattern, text, t, r) \in RunStates(pattern)
         /\ r.p <= RunStep(pattern, text, t, r).p
<1>1. /\ Len(pattern) \in Nat /\ r.p \in 0 .. Len(pattern) /\ r.streak \in Nat
      /\ r.score \in Nat
  BY DEF RunStates, Line
<1>2. CASE r.p = Len(pattern)
  BY <1>1, <1>2 DEF RunStep
<1>3. CASE r.p # Len(pattern) /\ Fold[pattern[r.p + 1]] = Fold[text[t]]
  <2> DEFINE next == [p |-> r.p + 1, streak |-> r.streak + 1,
                      score |-> r.score + Bonus(text, t, r.streak)]
  <2>1. RunStep(pattern, text, t, r) = next
    BY <1>3 DEF RunStep
  <2>2. r.p + 1 \in 0 .. Len(pattern) /\ r.streak + 1 \in Nat
    BY <1>1, <1>3
  <2>3. r.score + Bonus(text, t, r.streak) \in Nat
    BY <1>1, BonusType
  <2>4. next \in RunStates(pattern) /\ next.p = r.p + 1
    BY <2>2, <2>3 DEF RunStates
  <2> HIDE DEF next
  <2> QED BY <1>1, <2>1, <2>4
<1>4. CASE r.p # Len(pattern) /\ Fold[pattern[r.p + 1]] # Fold[text[t]]
  <2>1. RunStep(pattern, text, t, r) = [r EXCEPT !.streak = 0]
    BY <1>4 DEF RunStep
  <2>2. [r EXCEPT !.streak = 0] \in RunStates(pattern)
        /\ [r EXCEPT !.streak = 0].p = r.p
    BY DEF RunStates
  <2> QED BY <1>1, <2>1, <2>2
<1> QED BY <1>2, <1>3, <1>4

(* The loop's states, byte by byte.                                          *)
LEMMA RunIs ==
  ASSUME NEW pattern \in Line, NEW text \in Line
  PROVE  /\ match_run(pattern, text) \in [0 .. Len(text) -> RunStates(pattern)]
         /\ match_run(pattern, text)[0] = NoneMatched
         /\ \A t \in 1 .. Len(text) :
              match_run(pattern, text)[t]
                = RunStep(pattern, text, t, match_run(pattern, text)[t - 1])
<1> DEFINE n == Len(text)
           S == RunStates(pattern)
           step == [x \in Nat \X S |-> RunStep(pattern, text, x[1], x[2])]
           Def(f) == f = [t \in 0 .. Len(text) |->
                            IF t = 0 THEN [p |-> 0, streak |-> 0, score |-> 0]
                            ELSE LET r == f[t - 1]
                                 IN  IF r.p = Len(pattern) THEN r
                                     ELSE IF Fold[pattern[r.p + 1]] = Fold[text[t]]
                                       THEN [p |-> r.p + 1, streak |-> r.streak + 1,
                                             score |-> r.score + Bonus(text, t, r.streak)]
                                       ELSE [r EXCEPT !.streak = 0]]
           Same(f) == f = [t \in 0 .. n |->
                             IF t = 0 THEN NoneMatched
                             ELSE RunStep(pattern, text, t, f[t - 1])]
           run == CHOOSE f : Def(f)
<1>0. n \in Nat /\ Len(pattern) \in Nat
  BY DEF Line
<1>1. match_run(pattern, text) = run
  BY DEF match_run
<1>2. \A f : Def(f) <=> Same(f)
  BY DEF RunStep, NoneMatched
<1>3. NoneMatched \in S
  BY <1>0 DEF NoneMatched, RunStates
<1>4. step \in [Nat \X S -> S]
  <2> SUFFICES ASSUME NEW x \in Nat \X S
               PROVE  RunStep(pattern, text, x[1], x[2]) \in S
    OBVIOUS
  <2>1. x[1] \in Nat /\ x[2] \in S
    OBVIOUS
  <2> QED BY <2>1, RunStepType
<1>5. \A t \in 1 .. n : \A r \in S : step[<<t, r>>] = RunStep(pattern, text, t, r)
  <2>1. \A x \in Nat \X S : step[x] = RunStep(pattern, text, x[1], x[2])
    OBVIOUS
  <2>2. ASSUME NEW t \in 1 .. n, NEW r \in S
        PROVE  step[<<t, r>>] = RunStep(pattern, text, t, r)
    <3>1. <<t, r>> \in Nat \X S
      BY <1>0
    <3>2. <<t, r>>[1] = t /\ <<t, r>>[2] = r
      OBVIOUS
    <3> HIDE DEF step, S
    <3>3. step[<<t, r>>] = RunStep(pattern, text, <<t, r>>[1], <<t, r>>[2])
      BY <2>1, <3>1, Zenon
    <3> QED BY <3>2, <3>3, Zenon
  <2> HIDE DEF step, S, n
  <2> QED BY <2>2
<1> HIDE DEF n, S, step, Def, run
<1>6. PICK g : IsSteps(g, S, n, NoneMatched, step)
  BY <1>0, <1>3, <1>4, StepsExist
<1>7. /\ g \in [0 .. n -> S] /\ g[0] = NoneMatched
      /\ \A t \in 1 .. n : g[t] = step[<<t, g[t - 1]>>]
  BY <1>6 DEF IsSteps
<1>8. \A t \in 1 .. n : g[t] = RunStep(pattern, text, t, g[t - 1])
  <2> TAKE t \in 1 .. n
  <2>1. t - 1 \in 0 .. n
    BY <1>0
  <2> QED BY <1>5, <1>7, <2>1
<1>9. \A t \in 0 .. n :
        g[t] = IF t = 0 THEN NoneMatched ELSE RunStep(pattern, text, t, g[t - 1])
  <2> TAKE t \in 0 .. n
  <2>1. t = 0 \/ t \in 1 .. n
    BY <1>0
  <2> QED BY <1>0, <1>7, <1>8, <2>1
<1>10. Same(g)
  BY <1>7, <1>9
<1> HIDE DEF Same
<1>11. Def(g)
  BY <1>2, <1>10
<1>12. Def(run)
  BY <1>11 DEF run
<1>13. Same(run)
  BY <1>2, <1>12
<1>14. \A t \in 0 .. n :
         run[t] = IF t = 0 THEN NoneMatched ELSE RunStep(pattern, text, t, run[t - 1])
  BY <1>13 DEF Same
<1>15. run = [t \in 0 .. n |-> run[t]]
  BY <1>13 DEF Same
<1>16. run[0] = NoneMatched
  BY <1>0, <1>14
<1>17. \A t \in 1 .. n : run[t] = RunStep(pattern, text, t, run[t - 1])
  BY <1>0, <1>14
<1>18. \A t \in 0 .. n : run[t] \in S
  <2> DEFINE T == {t \in Nat : t <= n => run[t] \in S}
  <2>1. 0 \in T
    BY <1>3, <1>16
  <2>2. ASSUME NEW t \in T PROVE t + 1 \in T
    <3> SUFFICES ASSUME t + 1 <= n PROVE run[t + 1] \in S
      OBVIOUS
    <3>1. t + 1 \in 1 .. n /\ (t + 1) - 1 = t /\ run[t] \in S
      BY <1>0
    <3>2. run[t + 1] = RunStep(pattern, text, t + 1, run[t])
      BY <1>17, <3>1
    <3> QED BY <3>1, <3>2, RunStepType DEF S
  <2>3. T \in SUBSET Nat
    OBVIOUS
  <2> HIDE DEF T
  <2>4. \A t \in Nat : t \in T
    BY <2>1, <2>2, <2>3, SetInduction
  <2> QED BY <1>0, <2>4 DEF T
<1>19. run \in [0 .. n -> S]
  BY <1>15, <1>18
<1> QED BY <1>1, <1>16, <1>17, <1>19 DEF n, S


(* Properties that hold of the loop at first and after each step hold of it. *)
LEMMA RunFields ==
  ASSUME NEW pattern \in Line, NEW text \in Line, NEW t \in 1 .. Len(text)
  PROVE  LET old == match_run(pattern, text)[t - 1]
             new == match_run(pattern, text)[t]
         IN  /\ old \in RunStates(pattern) /\ new \in RunStates(pattern)
             /\ old.p \in 0 .. Len(pattern) /\ old.streak \in Nat /\ old.score \in Nat
             /\ \/ old.p = Len(pattern) /\ new = old
                \/ /\ old.p < Len(pattern)
                   /\ Fold[pattern[old.p + 1]] = Fold[text[t]]
                   /\ new.p = old.p + 1 /\ new.streak = old.streak + 1
                   /\ new.score = old.score + Bonus(text, t, old.streak)
                \/ /\ old.p < Len(pattern)
                   /\ Fold[pattern[old.p + 1]] # Fold[text[t]]
                   /\ new.p = old.p /\ new.streak = 0 /\ new.score = old.score
<1> DEFINE run == match_run(pattern, text)
           old == run[t - 1]
           new == run[t]
<1>1. Len(text) \in Nat /\ Len(pattern) \in Nat
  BY DEF Line
<1>2. t - 1 \in 0 .. Len(text) /\ t \in 0 .. Len(text)
  BY <1>1
<1>3. /\ old \in RunStates(pattern) /\ new \in RunStates(pattern)
      /\ new = RunStep(pattern, text, t, old)
  BY <1>2, RunIs
<1> HIDE DEF old, new
<1>4. old.p \in 0 .. Len(pattern) /\ old.streak \in Nat /\ old.score \in Nat
  BY <1>3 DEF RunStates
<1>5. CASE old.p = Len(pattern)
  BY <1>3, <1>4, <1>5 DEF RunStep, old, new
<1>6. CASE old.p # Len(pattern) /\ Fold[pattern[old.p + 1]] = Fold[text[t]]
  <2>1. new = [p |-> old.p + 1, streak |-> old.streak + 1,
               score |-> old.score + Bonus(text, t, old.streak)]
    BY <1>3, <1>6 DEF RunStep
  <2>2. old.p < Len(pattern)
    BY <1>1, <1>4, <1>6
  <2>3. /\ new.p = old.p + 1 /\ new.streak = old.streak + 1
        /\ new.score = old.score + Bonus(text, t, old.streak)
    BY <2>1
  <2> QED BY <1>3, <1>4, <1>6, <2>2, <2>3 DEF old, new
<1>7. CASE old.p # Len(pattern) /\ Fold[pattern[old.p + 1]] # Fold[text[t]]
  <2>1. new = [old EXCEPT !.streak = 0]
    BY <1>3, <1>7 DEF RunStep
  <2>2. old.p < Len(pattern)
    BY <1>1, <1>4, <1>7
  <2>3. new.p = old.p /\ new.streak = 0 /\ new.score = old.score
    BY <1>3, <2>1 DEF RunStates
  <2> QED BY <1>3, <1>4, <1>7, <2>2, <2>3 DEF old, new
<1> QED BY <1>5, <1>6, <1>7

(* Each byte that is matched counts ten at least.                            *)
LEMMA RunScore ==
  ASSUME NEW pattern \in Line, NEW text \in Line, NEW t \in 0 .. Len(text)
  PROVE  match_run(pattern, text)[t].score >= 10 * match_run(pattern, text)[t].p
<1> DEFINE run == match_run(pattern, text)
           T == {k \in Nat : k <= Len(text) => run[k].score >= 10 * run[k].p}
<1>0. Len(text) \in Nat
  BY DEF Line
<1>1. 0 \in T
  <2>1. run[0] = NoneMatched
    BY RunIs
  <2> HIDE DEF run
  <2> QED BY <2>1 DEF NoneMatched
<1>2. ASSUME NEW k \in T PROVE k + 1 \in T
  <2> SUFFICES ASSUME k + 1 <= Len(text)
               PROVE  run[k + 1].score >= 10 * run[k + 1].p
    OBVIOUS
  <2> DEFINE j == k + 1
             old == run[j - 1]
             new == run[j]
  <2>1. j \in 1 .. Len(text) /\ j - 1 = k /\ j \in Nat
    BY <1>0
  <2>2. old.score >= 10 * old.p
    BY <2>1
  <2>3. /\ old.p \in 0 .. Len(pattern) /\ old.streak \in Nat /\ old.score \in Nat
        /\ \/ new = old
           \/ /\ new.p = old.p + 1
              /\ new.score = old.score + Bonus(text, j, old.streak)
           \/ new.p = old.p /\ new.score = old.score
    BY <2>1, RunFields
  <2>4. Bonus(text, j, old.streak) \in Nat /\ Bonus(text, j, old.streak) >= 10
    BY <2>1, <2>3, BonusType
  <2>5. old.p \in Nat
    BY <2>3
  <2> HIDE DEF old, new, j
  <2>6. new.score >= 10 * new.p
    <3> DEFINE b == Bonus(text, j, old.streak)
               x == old.p
               y == old.score
    <3>1. CASE new.p = x + 1 /\ new.score = y + b
      <4>1. x \in Nat /\ y \in Nat /\ b \in Nat /\ b >= 10 /\ y >= 10 * x
        BY <2>2, <2>3, <2>4, <2>5
      <4> HIDE DEF b, x, y
      <4> QED BY <3>1, <4>1
    <3>2. CASE new = old \/ (new.p = x /\ new.score = y)
      BY <2>2, <3>2
    <3> QED BY <2>3, <3>1, <3>2
  <2> QED BY <2>6 DEF j, new
<1>3. T \in SUBSET Nat
  OBVIOUS
<1>4. t \in Nat /\ t <= Len(text)
  BY <1>0
<1>5. t \in T
  <2> HIDE DEF T
  <2> QED BY <1>1, <1>2, <1>3, <1>4, SetInduction
<1> QED BY <1>4, <1>5

(* What has been matched after t bytes is found in order in those bytes.     *)
Found(pattern, text, n, t) ==
  \E at \in [1 .. n -> 1 .. t] :
    \A i \in 1 .. n : /\ Fold[pattern[i]] = Fold[text[at[i]]]
                      /\ i > 1 => at[i - 1] < at[i]

LEMMA FoundMore ==
  ASSUME NEW pattern, NEW text, NEW n \in Nat, NEW t \in Nat,
         Found(pattern, text, n, t)
  PROVE  /\ Found(pattern, text, n, t + 1)
         /\ Fold[pattern[n + 1]] = Fold[text[t + 1]] => Found(pattern, text, n + 1, t + 1)
<1>1. PICK at \in [1 .. n -> 1 .. t] :
        \A i \in 1 .. n : /\ Fold[pattern[i]] = Fold[text[at[i]]]
                          /\ i > 1 => at[i - 1] < at[i]
  BY DEF Found
<1>2. Found(pattern, text, n, t + 1)
  <2>1. at \in [1 .. n -> 1 .. (t + 1)]
    OBVIOUS
  <2> QED BY <1>1, <2>1 DEF Found
<1>3. ASSUME Fold[pattern[n + 1]] = Fold[text[t + 1]]
      PROVE  Found(pattern, text, n + 1, t + 1)
  <2> DEFINE to == [i \in 1 .. (n + 1) |-> IF i <= n THEN at[i] ELSE t + 1]
  <2>1. to \in [1 .. (n + 1) -> 1 .. (t + 1)]
    OBVIOUS
  <2>2. ASSUME NEW i \in 1 .. (n + 1)
        PROVE  /\ Fold[pattern[i]] = Fold[text[to[i]]]
               /\ i > 1 => to[i - 1] < to[i]
    <3>1. CASE i <= n
      <4>1. i \in 1 .. n /\ to[i] = at[i] /\ (i > 1 => to[i - 1] = at[i - 1])
        BY <3>1
      <4> QED BY <1>1, <4>1
    <3>2. CASE i = n + 1
      <4>1. to[i] = t + 1 /\ (i > 1 => i - 1 \in 1 .. n /\ to[i - 1] = at[i - 1])
        BY <3>2
      <4>2. i > 1 => at[i - 1] \in 1 .. t
        BY <4>1
      <4> QED BY <1>3, <3>2, <4>1, <4>2
    <3> QED BY <3>1, <3>2
  <2> HIDE DEF to
  <2> QED BY <2>1, <2>2 DEF Found
<1> QED BY <1>2, <1>3

LEMMA RunFound ==
  ASSUME NEW pattern \in Line, NEW text \in Line, NEW t \in 0 .. Len(text)
  PROVE  Found(pattern, text, match_run(pattern, text)[t].p, t)
<1> DEFINE run == match_run(pattern, text)
           T == {k \in Nat : k <= Len(text) => Found(pattern, text, run[k].p, k)}
<1>0. Len(text) \in Nat
  BY DEF Line
<1>1. 0 \in T
  <2>1. run[0].p = 0
    <3>1. run[0] = NoneMatched
      BY RunIs
    <3> HIDE DEF run
    <3> QED BY <3>1 DEF NoneMatched
  <2>2. Found(pattern, text, 0, 0)
    <3> DEFINE at == [i \in 1 .. 0 |-> i]
    <3>1. at \in [1 .. 0 -> 1 .. 0] /\ \A i \in 1 .. 0 : FALSE
      OBVIOUS
    <3> HIDE DEF at
    <3> QED BY <3>1 DEF Found
  <2> HIDE DEF run
  <2> QED BY <2>1, <2>2
<1>2. ASSUME NEW k \in T PROVE k + 1 \in T
  <2> SUFFICES ASSUME k + 1 <= Len(text)
               PROVE  Found(pattern, text, run[k + 1].p, k + 1)
    OBVIOUS
  <2> DEFINE j == k + 1
             old == run[j - 1]
             new == run[j]
  <2>1. j \in 1 .. Len(text) /\ j - 1 = k /\ j \in Nat /\ k \in Nat
    BY <1>0
  <2>2. Found(pattern, text, old.p, k)
    BY <2>1
  <2>3. /\ old.p \in 0 .. Len(pattern)
        /\ \/ new.p = old.p
           \/ Fold[pattern[old.p + 1]] = Fold[text[j]] /\ new.p = old.p + 1
    BY <2>1, RunFields
  <2>4. old.p \in Nat
    BY <2>3
  <2> HIDE DEF old, new
  <2>5. Found(pattern, text, new.p, j)
    BY <2>1, <2>2, <2>3, <2>4, FoundMore
  <2> QED BY <2>5 DEF new
<1>3. T \in SUBSET Nat
  OBVIOUS
<1>4. t \in Nat /\ t <= Len(text)
  BY <1>0
<1>5. t \in T
  <2> HIDE DEF T
  <2> QED BY <1>1, <1>2, <1>3, <1>4, SetInduction
<1> QED BY <1>4, <1>5

(* Taking the first byte that is left misses no match.                       *)
LEMMA RunGreedy ==
  ASSUME NEW pattern \in Line, NEW text \in Line,
         NEW at \in [1 .. Len(pattern) -> 1 .. Len(text)],
         \A i \in 1 .. Len(pattern) : /\ Fold[pattern[i]] = Fold[text[at[i]]]
                                      /\ i > 1 => at[i - 1] < at[i],
         NEW t \in 0 .. Len(text), NEW i \in 1 .. Len(pattern), at[i] <= t
  PROVE  match_run(pattern, text)[t].p >= i
<1> DEFINE run == match_run(pattern, text)
           Least(k) == \A m \in 1 .. Len(pattern) : at[m] <= k => run[k].p >= m
           T == {k \in Nat : k <= Len(text) => Least(k)}
<1>0. Len(text) \in Nat /\ Len(pattern) \in Nat
  BY DEF Line
<1>1. 0 \in T
  <2>1. \A m \in 1 .. Len(pattern) : ~(at[m] <= 0)
    BY <1>0
  <2> QED BY <2>1
<1>2. ASSUME NEW k \in T PROVE k + 1 \in T
  <2> SUFFICES ASSUME k + 1 <= Len(text) PROVE Least(k + 1)
    OBVIOUS
  <2> DEFINE j == k + 1
             old == run[j - 1]
             new == run[j]
  <2>1. j \in 1 .. Len(text) /\ j - 1 = k /\ j \in Nat /\ k \in Nat
    BY <1>0
  <2>2. \A m \in 1 .. Len(pattern) : at[m] <= k => old.p >= m
    BY <2>1
  <2>3. /\ old.p \in 0 .. Len(pattern)
        /\ \/ old.p = Len(pattern) /\ new = old
           \/ /\ Fold[pattern[old.p + 1]] = Fold[text[j]]
              /\ new.p = old.p + 1
           \/ /\ Fold[pattern[old.p + 1]] # Fold[text[j]]
              /\ new.p = old.p
    BY <2>1, RunFields
  <2> HIDE DEF old, new, j
  <2>4. ASSUME NEW m \in 1 .. Len(pattern), at[m] <= j PROVE new.p >= m
    <3>0. at[m] \in Nat /\ m \in Nat /\ new.p >= old.p /\ old.p \in Nat
      <4>1. at[m] \in 1 .. Len(text)
        OBVIOUS
      <4>2. at[m] \in Nat /\ m \in Nat
        BY <4>1
      <4>3. old.p \in Nat /\ (new.p = old.p \/ new.p = old.p + 1)
        BY <2>3
      <4>4. new.p >= old.p
        BY <4>3
      <4> QED BY <4>2, <4>3, <4>4
    <3>1. CASE old.p >= m
      <4>1. new.p \in Nat
        BY <2>3, <3>0
      <4> QED BY <3>0, <3>1, <4>1
    <3>2. CASE ~(old.p >= m)
      <4>1. ~(at[m] <= k)
        BY <2>2, <3>2
      <4>2. at[m] = j
        BY <2>1, <2>4, <3>0, <4>1 DEF j
      <4>3. m > 1 => old.p >= m - 1
        <5> SUFFICES ASSUME m > 1 PROVE old.p >= m - 1
          OBVIOUS
        <5>0. m - 1 \in 1 .. Len(pattern)
          BY <1>0
        <5>1. at[m - 1] \in Nat /\ at[m - 1] < at[m]
          BY <5>0
        <5>2. at[m - 1] <= k
          BY <2>1, <4>2, <5>1 DEF j
        <5> QED BY <2>2, <5>0, <5>2
      <4>4. old.p = m - 1
        BY <3>0, <3>2, <4>3
      <4>5. pattern[old.p + 1] = pattern[m] /\ old.p # Len(pattern) /\ old.p + 1 = m
        BY <1>0, <3>0, <4>4
      <4>6. Fold[pattern[m]] = Fold[text[j]]
        BY <4>2
      <4>7. new.p = m
        BY <2>3, <4>5, <4>6
      <4> QED BY <3>0, <4>7
    <3> QED BY <3>1, <3>2
  <2> QED BY <2>4 DEF new, j
<1>3. T \in SUBSET Nat
  OBVIOUS
<1>4. t \in Nat /\ t <= Len(text)
  BY <1>0
<1>5. t \in T
  <2> HIDE DEF T
  <2> QED BY <1>1, <1>2, <1>3, <1>4, SetInduction
<1> QED BY <1>4, <1>5

(* The spelling of a path is a line.                                         *)
LEMMA SpellType ==
  ASSUME NEW path \in Path
  PROVE  Spell(path) \in Line
<1>1. CASE path = << >>
  BY <1>1, EmptySeq DEF Spell, Line
<1>2. CASE path # << >>
  <2> DEFINE seqs == [i \in DOMAIN path |-> <<Slash>> \o path[i]]
             all == FlattenSeq(seqs)
  <2>1. path \in Seq(Name) /\ Len(path) \in Nat \ {0} /\ DOMAIN path = 1 .. Len(path)
    BY <1>2, EmptySeq DEF Path
  <2>2. ASSUME NEW i \in 1 .. Len(path) PROVE <<Slash>> \o path[i] \in Seq(Byte)
    <3>1. path[i] \in Seq(Byte)
      <4>1. path[i] \in Seq(Byte \ {Slash})
        BY <2>1 DEF Name
      <4> QED BY <4>1
    <3>2. <<Slash>> \in Seq(Byte)
      BY ProjectConstants
    <3> QED BY <3>1, <3>2, ConcatProperties
  <2>3. seqs \in Seq(Seq(Byte)) /\ seqs # << >> /\ seqs[1] = <<Slash>> \o path[1]
    <3>1. seqs \in [1 .. Len(path) -> Seq(Byte)]
      BY <2>1, <2>2
    <3>2. 1 \in 1 .. Len(path)
      BY <2>1
    <3>3. seqs # << >>
      <4>1. DOMAIN seqs # {}
        BY <2>1, <3>2
      <4> HIDE DEF seqs
      <4> QED BY <4>1
    <3> QED BY <2>1, <3>1, <3>2, <3>3, SeqDef
  <2>4. Spell(path) = Tail(all)
    BY <1>2 DEF Spell
  <2> HIDE DEF seqs, all
  <2>5. all \in Seq(Byte) /\ Len(all) >= Len(seqs[1])
    BY <2>3, FlattenType DEF all
  <2>6. Len(seqs[1]) > 0
    <3>1. 1 \in 1 .. Len(path)
      BY <2>1
    <3>2. path[1] \in Seq(Byte \ {Slash})
      BY <2>1, <3>1 DEF Name
    <3> QED BY <2>3, <3>2
  <2>7. all # << >>
    BY <2>3, <2>5, <2>6
  <2>8. Tail(all) \in Seq(Byte)
    BY <2>5, <2>7
  <2> QED BY <2>4, <2>8 DEF Line
<1> QED BY <1>1, <1>2

-----------------------------------------------------------------------------
(* The loop at its end, and the score.                                       *)

LEMMA ScoreType ==
  ASSUME NEW pattern \in Line, NEW text \in Line
  PROVE  fuzzy_score(pattern, text) \in Int
<1> DEFINE end == match_run(pattern, text)[Len(text)]
<1>1. Len(text) \in 0 .. Len(text) /\ Len(text) \in Nat /\ Len(pattern) \in Nat
  BY DEF Line
<1>2. end \in RunStates(pattern)
  BY <1>1, RunIs
<1> HIDE DEF end
<1>3. end.score \in Nat
  BY <1>2 DEF RunStates
<1> QED BY <1>1, <1>3 DEF fuzzy_score, end

(* A score of at least 0 means that the text holds the pattern.              *)
LEMMA ListedHolds ==
  ASSUME NEW pattern \in Line, NEW text \in Line, fuzzy_score(pattern, text) >= 0
  PROVE  Subsequence(pattern, text)
<1> DEFINE n == Len(pattern)
           end == match_run(pattern, text)[Len(text)]
<1>1. Len(text) \in 0 .. Len(text) /\ Len(text) \in Nat /\ n \in Nat
  BY DEF Line
<1>2. Found(pattern, text, end.p, Len(text))
  BY <1>1, RunFound
<1>3. CASE pattern = << >>
  <2>1. n = 0
    BY <1>3
  <2> DEFINE at == [i \in 1 .. 0 |-> i]
  <2>2. at \in [1 .. 0 -> 1 .. Len(text)] /\ 1 .. 0 = {}
    OBVIOUS
  <2> HIDE DEF at
  <2> QED BY <2>1, <2>2 DEF Subsequence
<1>4. CASE pattern # << >>
  <2>1. ~(end.p < n)
    BY <1>4 DEF fuzzy_score
  <2>2. end.p \in 0 .. n
    <3>1. end \in RunStates(pattern)
      BY <1>1, RunIs
    <3> QED BY <3>1 DEF RunStates
  <2> HIDE DEF end
  <2>3. end.p = n
    BY <1>1, <2>1, <2>2
  <2> QED BY <1>2, <2>3 DEF Found, Subsequence
<1> QED BY <1>3, <1>4

(* A text that holds the pattern is listed if it is not too long.            *)
LEMMA HoldsListed ==
  ASSUME NEW pattern \in Line, NEW text \in Line, Subsequence(pattern, text),
         pattern = << >> \/ Len(text) <= 11 * Len(pattern)
  PROVE  fuzzy_score(pattern, text) >= 0
<1> DEFINE n == Len(pattern)
           l == Len(text)
           end == match_run(pattern, text)[Len(text)]
<1>1. l \in 0 .. l /\ l \in Nat /\ n \in Nat /\ l = Len(text)
  BY DEF Line
<1>2. CASE pattern = << >>
  BY <1>2 DEF fuzzy_score
<1>3. CASE pattern # << >>
  <2>1. n \in 1 .. n /\ n > 0
    <3>1. n # 0
      BY <1>3, EmptySeq DEF Line
    <3> QED BY <1>1, <3>1
  <2>2. PICK at \in [1 .. Len(pattern) -> 1 .. Len(text)] :
          \A i \in 1 .. Len(pattern) : /\ Fold[pattern[i]] = Fold[text[at[i]]]
                                       /\ i > 1 => at[i - 1] < at[i]
    BY DEF Subsequence
  <2>3. at[n] <= l /\ at[n] \in 1 .. l
    BY <1>1, <2>1
  <2>4. end.p >= n
    BY <1>1, <2>1, <2>2, <2>3, RunGreedy
  <2>5. end \in RunStates(pattern) /\ end.score >= 10 * end.p
    BY <1>1, RunIs, RunScore
  <2> HIDE DEF end
  <2>6. end.p \in 0 .. n /\ end.score \in Nat
    BY <2>5 DEF RunStates
  <2>7. end.p = n
    BY <1>1, <2>4, <2>6
  <2>8. fuzzy_score(pattern, text) = end.score - (l - n)
    <3>1. ~(end.p < Len(pattern))
      BY <1>1, <2>7
    <3> QED BY <1>3, <3>1 DEF fuzzy_score, end
  <2>9. end.score >= 10 * n /\ l <= 11 * n
    BY <1>3, <2>5, <2>7
  <2> HIDE DEF n, l
  <2> QED BY <1>1, <2>6, <2>8, <2>9
<1> QED BY <1>2, <1>3

-----------------------------------------------------------------------------
(* A path that begins with the query.                                        *)

(* A byte that comes after a word break is a byte after one in any case.     *)
LEMMA BreakFolded ==
  ASSUME NEW x \in Byte, NEW y \in Byte, NEW z, Fold[x] = z, Fold[y] = z,
         x \in WordBreaks
  PROVE  y \in WordBreaks
BY FinderConstants

(* A path that begins with the pattern: the loop matches byte after byte,    *)
(* then stops.                                                               *)
LEMMA RunOfPrefix ==
  ASSUME NEW pattern \in Line, NEW text \in Line, Begins(pattern, text),
         NEW t \in 0 .. Len(pattern)
  PROVE  /\ match_run(pattern, text)[t].p = t
         /\ match_run(pattern, text)[t].streak = t
<1> DEFINE run == match_run(pattern, text)
           T == {k \in Nat : k <= Len(pattern) => run[k].p = k /\ run[k].streak = k}
<1>0. Len(text) \in Nat /\ Len(pattern) \in Nat /\ Len(pattern) <= Len(text)
  BY DEF Line, Begins
<1>1. 0 \in T
  <2>1. run[0] = NoneMatched
    BY RunIs
  <2> HIDE DEF run
  <2> QED BY <2>1 DEF NoneMatched
<1>2. ASSUME NEW k \in T PROVE k + 1 \in T
  <2> SUFFICES ASSUME k + 1 <= Len(pattern)
               PROVE  run[k + 1].p = k + 1 /\ run[k + 1].streak = k + 1
    OBVIOUS
  <2> DEFINE j == k + 1
             old == run[j - 1]
             new == run[j]
  <2>1. /\ j \in 1 .. Len(text) /\ j - 1 = k /\ j \in Nat /\ k \in Nat
        /\ j \in 1 .. Len(pattern)
    BY <1>0
  <2>2. old.p = k /\ old.streak = k
    BY <2>1
  <2>3. \/ old.p = Len(pattern) /\ new = old
        \/ /\ new.p = old.p + 1 /\ new.streak = old.streak + 1
        \/ Fold[pattern[old.p + 1]] # Fold[text[j]]
    BY <2>1, RunFields
  <2>4. Fold[pattern[j]] = Fold[text[j]]
    BY <2>1 DEF Begins
  <2>5. old.p + 1 = j /\ old.p # Len(pattern)
    BY <1>0, <2>1, <2>2
  <2> HIDE DEF old, new, run
  <2>6. new.p = old.p + 1 /\ new.streak = old.streak + 1
    <3> HIDE DEF j
    <3> QED BY <2>3, <2>4, <2>5
  <2> QED BY <2>2, <2>6 DEF new
<1>3. T \in SUBSET Nat
  OBVIOUS
<1>4. t \in Nat /\ t <= Len(pattern)
  BY <1>0
<1>5. t \in T
  <2> HIDE DEF T
  <2> QED BY <1>1, <1>2, <1>3, <1>4, SetInduction
<1> QED BY <1>4, <1>5

(* After the last byte of the pattern nothing changes.                       *)
LEMMA RunStops ==
  ASSUME NEW pattern \in Line, NEW text \in Line, NEW s \in 0 .. Len(text),
         match_run(pattern, text)[s].p = Len(pattern),
         NEW t \in s .. Len(text)
  PROVE  match_run(pattern, text)[t] = match_run(pattern, text)[s]
<1> DEFINE run == match_run(pattern, text)
           T == {k \in Nat : s + k <= Len(text) => run[s + k] = run[s]}
<1>0. Len(text) \in Nat /\ s \in Nat /\ t \in Nat /\ Len(pattern) \in Nat
  BY DEF Line
<1>1. 0 \in T
  BY <1>0
<1>2. ASSUME NEW k \in T PROVE k + 1 \in T
  <2> SUFFICES ASSUME s + (k + 1) <= Len(text) PROVE run[s + (k + 1)] = run[s]
    OBVIOUS
  <2> DEFINE j == s + (k + 1)
             old == run[j - 1]
             new == run[j]
  <2>1. j \in 1 .. Len(text) /\ j - 1 = s + k /\ k \in Nat
    BY <1>0
  <2>2. old = run[s]
    BY <1>0, <2>1
  <2>3. \/ new = old
        \/ old.p < Len(pattern)
    BY <2>1, RunFields
  <2>4. old.p = Len(pattern)
    BY <2>2
  <2> HIDE DEF old, new, j
  <2>5. new = old
    BY <1>0, <2>3, <2>4
  <2> QED BY <2>2, <2>5 DEF new, j
<1>3. T \in SUBSET Nat
  OBVIOUS
<1> DEFINE d == t - s
<1>4. d \in Nat /\ s + d = t
  BY <1>0
<1>5. d \in T
  <2> HIDE DEF T, d
  <2> QED BY <1>1, <1>2, <1>3, <1>4, SetInduction
<1>6. s + d <= Len(text) => run[s + d] = run[s]
  BY <1>5
<1> HIDE DEF d, run
<1>7. run[t] = run[s]
  BY <1>4, <1>6
<1> QED BY <1>7 DEF run

(* A streak ends in the byte of the pattern that was matched last.           *)
LEMMA StreakEnds ==
  ASSUME NEW pattern \in Line, NEW text \in Line, NEW t \in 0 .. Len(text)
  PROVE  LET r == match_run(pattern, text)[t]
         IN  /\ r.streak <= r.p
             /\ r.streak > 0 /\ r.p < Len(pattern) =>
                  t > 0 /\ r.p > 0 /\ Fold[text[t]] = Fold[pattern[r.p]]
<1> DEFINE run == match_run(pattern, text)
           Ends(k) == /\ run[k].streak <= run[k].p
                      /\ run[k].streak > 0 /\ run[k].p < Len(pattern) =>
                           k > 0 /\ run[k].p > 0 /\ Fold[text[k]] = Fold[pattern[run[k].p]]
           T == {k \in Nat : k <= Len(text) => Ends(k)}
<1>0. Len(text) \in Nat /\ Len(pattern) \in Nat
  BY DEF Line
<1>1. 0 \in T
  <2>1. run[0] = NoneMatched
    BY RunIs
  <2> HIDE DEF run
  <2> QED BY <2>1 DEF NoneMatched
<1>2. ASSUME NEW k \in T PROVE k + 1 \in T
  <2> SUFFICES ASSUME k + 1 <= Len(text) PROVE Ends(k + 1)
    OBVIOUS
  <2> DEFINE j == k + 1
             old == run[j - 1]
             new == run[j]
  <2>1. j \in 1 .. Len(text) /\ j - 1 = k /\ j \in Nat /\ j > 0
    BY <1>0
  <2>2. old.streak <= old.p
    BY <2>1
  <2>3. /\ old.p \in 0 .. Len(pattern) /\ old.streak \in Nat
        /\ \/ old.p = Len(pattern) /\ new = old
           \/ /\ Fold[pattern[old.p + 1]] = Fold[text[j]]
              /\ new.p = old.p + 1 /\ new.streak = old.streak + 1
           \/ new.p = old.p /\ new.streak = 0
    BY <2>1, RunFields
  <2> HIDE DEF old, new, run, j
  <2>4. CASE old.p = Len(pattern) /\ new = old
    <3>1. new.streak <= new.p /\ ~(new.p < Len(pattern))
      BY <1>0, <2>2, <2>4
    <3> QED BY <3>1 DEF new, j
  <2>5. CASE /\ Fold[pattern[old.p + 1]] = Fold[text[j]]
             /\ new.p = old.p + 1 /\ new.streak = old.streak + 1
    <3>1. new.streak <= new.p /\ new.p > 0
      BY <1>0, <2>2, <2>3, <2>5
    <3>2. Fold[text[j]] = Fold[pattern[new.p]]
      BY <2>5
    <3> QED BY <2>1, <3>1, <3>2 DEF new, j
  <2>6. CASE new.p = old.p /\ new.streak = 0
    <3>1. new.streak <= new.p /\ ~(new.streak > 0)
      BY <1>0, <2>3, <2>6
    <3> QED BY <3>1 DEF new, j
  <2> QED BY <2>3, <2>4, <2>5, <2>6
<1>3. T \in SUBSET Nat
  OBVIOUS
<1>4. t \in Nat /\ t <= Len(text)
  BY <1>0
<1>5. t \in T
  <2> HIDE DEF T
  <2> QED BY <1>1, <1>2, <1>3, <1>4, SetInduction
<1>6. Ends(t)
  BY <1>4, <1>5
<1> QED BY <1>6

(* The bonus of a byte of the prefix is the largest there is.                *)
LEMMA PrefixBonus ==
  ASSUME NEW pattern \in Line, NEW one \in Line, NEW other \in Line,
         Begins(pattern, one), NEW j \in 1 .. Len(other),
         NEW m \in 0 .. (Len(pattern) - 1), NEW streak \in 0 .. m,
         streak > 0 => j > 1 /\ Fold[other[j - 1]] = Fold[pattern[m]]
  PROVE  Bonus(other, j, streak) <= Bonus(one, m + 1, m)
<1>0. Len(pattern) \in Nat /\ Len(one) \in Nat /\ m \in Nat /\ Len(other) \in Nat
  BY DEF Line
<1>1. CASE m = 0
  <2>1. Bonus(one, m + 1, m) = 14 /\ streak = 0
    BY <1>1 DEF Bonus
  <2> QED BY <1>0, <2>1, BonusType
<1>2. CASE m > 0
  <2>1. Bonus(one, m + 1, m) = 16 + (IF one[m] \in WordBreaks THEN 4 ELSE 0)
    BY <1>0, <1>2 DEF Bonus
  <2>2. CASE streak = 0
    BY <1>0, <2>1, <2>2, BonusType
  <2>3. CASE streak > 0
    <3>1. j > 1 /\ Fold[other[j - 1]] = Fold[pattern[m]]
      BY <2>3
    <3>2. m \in DOMAIN pattern /\ m \in 1 .. Len(one) /\ j - 1 \in 1 .. Len(other)
      BY <1>0, <1>2, <3>1 DEF Begins, Line
    <3>3. Fold[pattern[m]] = Fold[one[m]] /\ one[m] \in Byte /\ other[j - 1] \in Byte
      BY <3>2 DEF Begins, Line
    <3>4. other[j - 1] \in WordBreaks => one[m] \in WordBreaks
      BY <3>1, <3>3, BreakFolded
    <3>5. Bonus(other, j, streak) = 16 + (IF other[j - 1] \in WordBreaks THEN 4 ELSE 0)
      BY <2>3, <3>1 DEF Bonus
    <3> QED BY <2>1, <3>4, <3>5
  <2> QED BY <2>2, <2>3
<1> QED BY <1>0, <1>1, <1>2

(* As many bytes of the pattern score no more anywhere than at the beginning.*)
LEMMA PrefixScoresMost ==
  ASSUME NEW pattern \in Line, NEW one \in Line, NEW other \in Line,
         Begins(pattern, one), NEW t \in 0 .. Len(other)
  PROVE  match_run(pattern, other)[t].score
           <= match_run(pattern, one)[match_run(pattern, other)[t].p].score
<1> DEFINE run == match_run(pattern, other)
           top == match_run(pattern, one)
           T == {k \in Nat : k <= Len(other) => run[k].score <= top[run[k].p].score}
<1>0. /\ Len(other) \in Nat /\ Len(pattern) \in Nat /\ Len(one) \in Nat
      /\ Len(pattern) <= Len(one)
  BY DEF Line, Begins
<1>1. 0 \in T
  <2>1. run[0] = NoneMatched /\ top[0] = NoneMatched
    BY RunIs
  <2> HIDE DEF run, top
  <2>2. run[0].p = 0 /\ run[0].score = 0
    BY <2>1 DEF NoneMatched
  <2> QED BY <2>1, <2>2
<1>2. ASSUME NEW k \in T PROVE k + 1 \in T
  <2> SUFFICES ASSUME k + 1 <= Len(other)
               PROVE  run[k + 1].score <= top[run[k + 1].p].score
    OBVIOUS
  <2> DEFINE j == k + 1
             old == run[j - 1]
             new == run[j]
             m == old.p
  <2>1. j \in 1 .. Len(other) /\ j - 1 = k /\ j - 1 \in 0 .. Len(other) /\ j \in Nat
    BY <1>0
  <2>2. old.score <= top[old.p].score
    BY <2>1
  <2>3. /\ m \in 0 .. Len(pattern) /\ old.streak \in Nat /\ old.score \in Nat
        /\ \/ new = old
           \/ /\ m < Len(pattern)
              /\ new.p = m + 1
              /\ new.score = old.score + Bonus(other, j, old.streak)
           \/ new.p = m /\ new.score = old.score
    BY <2>1, RunFields
  <2>4. CASE new = old \/ (new.p = m /\ new.score = old.score)
    BY <2>2, <2>4
  <2>5. CASE /\ m < Len(pattern)
             /\ new.p = m + 1
             /\ new.score = old.score + Bonus(other, j, old.streak)
    <3>1. old.streak <= m
          /\ (old.streak > 0 => j - 1 > 0 /\ Fold[other[j - 1]] = Fold[pattern[m]])
      BY <2>1, <2>5, StreakEnds
    <3> HIDE DEF old, new, m, j
    <3>2. /\ m \in 0 .. (Len(pattern) - 1) /\ old.streak \in 0 .. m
          /\ m + 1 \in 1 .. Len(one) /\ m + 1 \in 0 .. Len(pattern)
          /\ (m + 1) - 1 = m /\ m \in Nat /\ m \in 0 .. Len(pattern)
          /\ j - 1 > 0 => j > 1
      BY <1>0, <2>1, <2>3, <2>5, <3>1
    <3>3. Bonus(other, j, old.streak) <= Bonus(one, m + 1, m)
      BY <2>1, <3>1, <3>2, PrefixBonus
    <3>4. top[m].p = m /\ top[m].streak = m /\ top[m + 1].p = m + 1
      BY <3>2, RunOfPrefix
    <3>5. top[m + 1].score = top[m].score + Bonus(one, m + 1, m) /\ top[m].score \in Nat
      <4> DEFINE i == m + 1
                 before == top[i - 1]
      <4>1. i \in 1 .. Len(one)
        BY <3>2
      <4>2. /\ before.score \in Nat
            /\ \/ before.p = Len(pattern)
               \/ top[i].score = before.score + Bonus(one, i, before.streak)
               \/ top[i].p = before.p
        BY <4>1, RunFields
      <4>3. before = top[m] /\ i = m + 1
        BY <3>2
      <4> HIDE DEF before, i, top
      <4> QED BY <1>0, <3>2, <3>4, <4>2, <4>3
    <3>6. /\ Bonus(other, j, old.streak) \in Nat /\ Bonus(one, m + 1, m) \in Nat
      BY <2>1, <2>3, <3>2, BonusType
    <3>7. old.score <= top[m].score
      BY <2>2 DEF m
    <3>8. new.score <= top[m + 1].score
      <4> DEFINE x == Bonus(other, j, old.streak)
                 y == Bonus(one, m + 1, m)
      <4> HIDE DEF x, y
      <4>1. x \in Nat /\ y \in Nat /\ x <= y
        BY <3>3, <3>6 DEF x, y
      <4>2. new.score = old.score + x /\ top[m + 1].score = top[m].score + y
        BY <2>5, <3>5 DEF x, y
      <4> QED BY <2>3, <3>5, <3>7, <4>1, <4>2
    <3> QED BY <2>5, <3>8 DEF new, j
  <2> QED BY <2>3, <2>4, <2>5
<1>3. T \in SUBSET Nat
  OBVIOUS
<1>4. t \in Nat /\ t <= Len(other)
  BY <1>0
<1>5. t \in T
  <2> HIDE DEF T
  <2> QED BY <1>1, <1>2, <1>3, <1>4, SetInduction
<1> QED BY <1>4, <1>5

(* A path that begins with the pattern scores more than a longer one.        *)
LEMMA PrefixScoresMore ==
  ASSUME NEW pattern \in Line, NEW one \in Line, NEW other \in Line,
         pattern # << >>, Begins(pattern, one), Len(one) < Len(other),
         fuzzy_score(pattern, other) >= 0
  PROVE  fuzzy_score(pattern, one) > fuzzy_score(pattern, other)
<1> DEFINE n == Len(pattern)
           k == Len(one)
           l == Len(other)
           end == match_run(pattern, other)[Len(other)]
           last == match_run(pattern, one)[Len(one)]
           top == match_run(pattern, one)[Len(pattern)]
<1>1. /\ n \in Nat /\ k \in Nat /\ l \in Nat /\ n <= k
      /\ l \in 0 .. l /\ k \in n .. k /\ n \in 0 .. k /\ n \in 0 .. n
  BY DEF Line, Begins
<1>2. top.p = n
  BY <1>1, RunOfPrefix
<1>3. last = top
  BY <1>1, <1>2, RunStops
<1>4. ~(end.p < n)
  BY DEF fuzzy_score
<1>5. end \in RunStates(pattern) /\ top \in RunStates(pattern)
  BY <1>1, RunIs
<1>6. end.score <= match_run(pattern, one)[end.p].score
  BY <1>1, PrefixScoresMost
<1>7. fuzzy_score(pattern, other) = end.score - (l - n)
  BY <1>4 DEF fuzzy_score
<1>8. fuzzy_score(pattern, one) = last.score - (k - n)
  <2>1. ~(last.p < n)
    BY <1>1, <1>2, <1>3
  <2> QED BY <2>1 DEF fuzzy_score
<1>9. end.p = n
  <2> HIDE DEF end
  <2>1. end.p \in 0 .. n
    BY <1>5 DEF RunStates
  <2> QED BY <1>1, <1>4, <2>1
<1>10. end.score <= top.score
  BY <1>6, <1>9
<1>11. k < l
  OBVIOUS
<1> HIDE DEF end, last, top, n, k, l
<1>12. end.score \in Nat /\ top.score \in Nat
  BY <1>5 DEF RunStates
<1> QED BY <1>1, <1>3, <1>7, <1>8, <1>10, <1>11, <1>12

-----------------------------------------------------------------------------
(* The list of matches.                                                      *)

ScoreOf(pattern, list, i) == fuzzy_score(pattern, Spell(list[i]))
Listed(pattern, list) == {i \in DOMAIN list : ScoreOf(pattern, list, i) >= 0}

(* match_compare puts file i before file j.                                  *)
Better(pattern, list, i, j) ==
  \/ ScoreOf(pattern, list, i) > ScoreOf(pattern, list, j)
  \/ ScoreOf(pattern, list, i) = ScoreOf(pattern, list, j) /\ i < j

LEMMA ListedFiles ==
  ASSUME NEW list \in Seq(Path), NEW i \in DOMAIN list
  PROVE  i \in Nat /\ i \in 1 .. Len(list) /\ Spell(list[i]) \in Line
<1>1. DOMAIN list = 1 .. Len(list) /\ Len(list) \in Nat
  OBVIOUS
<1>2. list[i] \in Path
  OBVIOUS
<1> QED BY <1>1, <1>2, SpellType

(* Every file whose score is not negative is listed once, the better ones    *)
(* first.                                                                    *)
LEMMA MatchesFacts ==
  ASSUME NEW pattern \in Line, NEW list \in Seq(Path)
  PROVE  LET found == MatchesOf(pattern, list)
         IN  /\ found \in Seq(DOMAIN list)
             /\ \A m \in DOMAIN found : found[m] \in Listed(pattern, list)
             /\ \A i \in Listed(pattern, list) : \E m \in DOMAIN found : found[m] = i
             /\ \A k, m \in DOMAIN found :
                  k < m <=> Better(pattern, list, found[k], found[m])
<1> DEFINE S == Listed(pattern, list)
           R == {p \in S \X S : Better(pattern, list, p[1], p[2])}
           found == MatchesOf(pattern, list)
<1>1. IsFiniteSet(S)
  <2>1. IsFiniteSet(1 .. Len(list))
    BY FS_Interval
  <2>2. S \in SUBSET (1 .. Len(list))
    BY DEF Listed
  <2> QED BY <2>1, <2>2, FS_Subset
<1>2. \A i, j \in S : <<i, j>> \in R <=> Better(pattern, list, i, j)
  OBVIOUS
<1>3. ASSUME NEW i \in S
      PROVE  i \in Nat /\ i \in DOMAIN list /\ ScoreOf(pattern, list, i) \in Int
  <2>1. i \in DOMAIN list
    BY DEF Listed
  <2> QED BY <2>1, ListedFiles, ScoreType DEF ScoreOf
<1>4. found = InOrder(S, R)
  <2>1. \A i \in S : Ahead(S, R, i) = {j \in S : Better(pattern, list, j, i)}
    BY DEF Ahead
  <2>2. found = [m \in 1 .. Cardinality(S) |->
                   CHOOSE i \in S :
                     Cardinality({j \in S : Better(pattern, list, j, i)}) = m - 1]
    <3> DEFINE score == [i \in DOMAIN list |-> fuzzy_score(pattern, Spell(list[i]))]
               listed == {i \in DOMAIN list : score[i] >= 0}
               C(i, j) == score[i] > score[j] \/ (score[i] = score[j] /\ i < j)
    <3>1. \A i \in DOMAIN list : score[i] = ScoreOf(pattern, list, i)
      BY DEF ScoreOf
    <3>2. found = [m \in 1 .. Cardinality(listed) |->
                     CHOOSE i \in listed :
                       Cardinality({j \in listed : C(j, i)}) = m - 1]
      BY DEF MatchesOf
    <3> HIDE DEF score
    <3>3. listed = S
      BY <3>1 DEF Listed
    <3>4. \A i, j \in S : C(j, i) <=> Better(pattern, list, j, i)
      BY <3>1, <1>3 DEF Better
    <3>5. \A i \in S : {j \in S : C(j, i)} = {j \in S : Better(pattern, list, j, i)}
      BY <3>4
    <3> DEFINE P(i) == {j \in S : C(j, i)}
               Q(i) == {j \in S : Better(pattern, list, j, i)}
    <3>6. \A m : (CHOOSE i \in S : Cardinality(P(i)) = m - 1)
                   = (CHOOSE i \in S : Cardinality(Q(i)) = m - 1)
      <4>1. \A i \in S : P(i) = Q(i)
        BY <3>5
      <4> HIDE DEF P, Q, S
      <4> QED BY <4>1
    <3>7. found = [m \in 1 .. Cardinality(S) |->
                     CHOOSE i \in S : Cardinality(P(i)) = m - 1]
      BY <3>2, <3>3
    <3> HIDE DEF P, Q, S, found
    <3>8. found = [m \in 1 .. Cardinality(S) |->
                     CHOOSE i \in S : Cardinality(Q(i)) = m - 1]
      BY <3>6, <3>7
    <3> QED BY <3>8 DEF Q
  <2> DEFINE Q(i) == {j \in S : Better(pattern, list, j, i)}
             A(i) == Ahead(S, R, i)
  <2> HIDE DEF S, R, found
  <2>3. \A m : (CHOOSE i \in S : Cardinality(Q(i)) = m - 1)
                 = (CHOOSE i \in S : Cardinality(A(i)) = m - 1)
    <3>1. \A i \in S : Q(i) = A(i)
      BY <2>1
    <3> HIDE DEF Q, A
    <3> QED BY <3>1
  <2>4. found = [m \in 1 .. Cardinality(S) |->
                   CHOOSE i \in S : Cardinality(Q(i)) = m - 1]
    BY <2>2 DEF Q
  <2>5. found = [m \in 1 .. Cardinality(S) |->
                   CHOOSE i \in S : Cardinality(A(i)) = m - 1]
    <3> DEFINE G(m) == CHOOSE i \in S : Cardinality(Q(i)) = m - 1
               H(m) == CHOOSE i \in S : Cardinality(A(i)) = m - 1
    <3> HIDE DEF Q, A
    <3>1. found = [m \in 1 .. Cardinality(S) |-> G(m)] /\ \A m : G(m) = H(m)
      BY <2>3, <2>4
    <3> HIDE DEF G, H
    <3>2. found = [m \in 1 .. Cardinality(S) |-> H(m)]
      BY <3>1
    <3> QED BY <3>2 DEF H
  <2> HIDE DEF A
  <2> QED BY <2>5 DEF InOrder, A
<1>5. \A i \in S : <<i, i>> \notin R
  <2> TAKE i \in S
  <2> DEFINE x == ScoreOf(pattern, list, i)
  <2>1. i \in Nat /\ x \in Int
    BY <1>3
  <2> HIDE DEF x
  <2>2. ~(x > x) /\ ~(i < i)
    BY <2>1
  <2>3. ~Better(pattern, list, i, i)
    BY <2>2 DEF Better, x
  <2> QED BY <2>3
<1>6. \A i, j \in S : i # j => <<i, j>> \in R \/ <<j, i>> \in R
  <2> TAKE i, j \in S
  <2> DEFINE x == ScoreOf(pattern, list, i)
             y == ScoreOf(pattern, list, j)
  <2>1. i \in Nat /\ j \in Nat /\ x \in Int /\ y \in Int
    BY <1>3
  <2>2. i # j => Better(pattern, list, i, j) \/ Better(pattern, list, j, i)
    <3>1. i # j => (x > y \/ (x = y /\ i < j)) \/ (y > x \/ (y = x /\ j < i))
      <4> HIDE DEF x, y
      <4> QED BY <2>1
    <3> QED BY <3>1 DEF Better
  <2> QED BY <1>2, <2>2
<1>7. \A i, j, k \in S : <<i, j>> \in R /\ <<j, k>> \in R => <<i, k>> \in R
  <2> TAKE i, j, k \in S
  <2> DEFINE x == ScoreOf(pattern, list, i)
             y == ScoreOf(pattern, list, j)
             z == ScoreOf(pattern, list, k)
  <2>1. /\ i \in Nat /\ j \in Nat /\ k \in Nat
        /\ x \in Int /\ y \in Int /\ z \in Int
    BY <1>3
  <2>2. Better(pattern, list, i, j) /\ Better(pattern, list, j, k)
          => Better(pattern, list, i, k)
    <3>1. /\ x > y \/ (x = y /\ i < j)
          /\ y > z \/ (y = z /\ j < k)
          => x > z \/ (x = z /\ i < k)
      <4> HIDE DEF x, y, z
      <4> QED BY <2>1
    <3> QED BY <3>1 DEF Better
  <2> QED BY <1>2, <2>2
<1> HIDE DEF S, R, found
<1>8. /\ Cardinality(S) \in Nat
      /\ found \in [1 .. Cardinality(S) -> S]
      /\ \A i \in S : \E m \in 1 .. Cardinality(S) : found[m] = i
      /\ \A k, m \in 1 .. Cardinality(S) : k < m <=> <<found[k], found[m]>> \in R
  BY <1>1, <1>4, <1>5, <1>6, <1>7, OrderedSet
<1>9. DOMAIN found = 1 .. Cardinality(S) /\ \A m \in DOMAIN found : found[m] \in S
  BY <1>8
<1>10. found \in Seq(DOMAIN list)
  <2>1. \A m \in 1 .. Cardinality(S) : found[m] \in DOMAIN list
    BY <1>3, <1>8
  <2>2. found \in [1 .. Cardinality(S) -> DOMAIN list]
    BY <1>8, <2>1
  <2> QED BY <1>8, <2>2, SeqDef
<1>11. \A k, m \in DOMAIN found : k < m <=> Better(pattern, list, found[k], found[m])
  BY <1>2, <1>8, <1>9
<1> QED BY <1>8, <1>9, <1>10, <1>11 DEF S, found

(* What MatchesRight says of a list of matches.                              *)
LEMMA MatchesOfRight ==
  ASSUME NEW pattern \in Line, NEW list \in Seq(Path)
  PROVE  LET found == MatchesOf(pattern, list)
         IN  /\ \A i, j \in DOMAIN found : found[i] = found[j] => i = j
             /\ \A i \in DOMAIN list :
                  LET text == Spell(list[i])
                      listed == \E m \in DOMAIN found : found[m] = i
                  IN  /\ listed => Subsequence(pattern, text)
                      /\ /\ Subsequence(pattern, text)
                         /\ \/ pattern = << >>
                            \/ Len(text) <= 11 * Len(pattern)
                         => listed
<1> DEFINE found == MatchesOf(pattern, list)
<1>1. /\ found \in Seq(DOMAIN list)
      /\ \A m \in DOMAIN found : found[m] \in Listed(pattern, list)
      /\ \A i \in Listed(pattern, list) : \E m \in DOMAIN found : found[m] = i
      /\ \A k, m \in DOMAIN found :
           k < m <=> Better(pattern, list, found[k], found[m])
  BY MatchesFacts
<1> HIDE DEF found
<1>2. \A i, j \in DOMAIN found : found[i] = found[j] => i = j
  <2> TAKE i, j \in DOMAIN found
  <2> SUFFICES ASSUME found[i] = found[j] PROVE i = j
    OBVIOUS
  <2>1. i \in Nat /\ j \in Nat
    BY <1>1
  <2>2. i < j => i < i
    <3>1. i < j => Better(pattern, list, found[i], found[i])
      BY <1>1
    <3> QED BY <1>1, <3>1
  <2>3. j < i => i < i
    <3>1. j < i => Better(pattern, list, found[i], found[i])
      BY <1>1
    <3> QED BY <1>1, <3>1
  <2> QED BY <2>1, <2>2, <2>3
<1>3. ASSUME NEW i \in DOMAIN list
      PROVE  LET text == Spell(list[i])
                 listed == \E m \in DOMAIN found : found[m] = i
             IN  /\ listed => Subsequence(pattern, text)
                 /\ /\ Subsequence(pattern, text)
                    /\ \/ pattern = << >>
                       \/ Len(text) <= 11 * Len(pattern)
                    => listed
  <2> DEFINE text == Spell(list[i])
  <2>1. text \in Line
    BY ListedFiles
  <2> HIDE DEF text
  <2>2. i \in Listed(pattern, list) <=> fuzzy_score(pattern, text) >= 0
    BY DEF Listed, ScoreOf, text
  <2>3. (\E m \in DOMAIN found : found[m] = i) => Subsequence(pattern, text)
    BY <1>1, <2>1, <2>2, ListedHolds
  <2>4. Subsequence(pattern, text) /\ (pattern = << >> \/ Len(text) <= 11 * Len(pattern))
          => \E m \in DOMAIN found : found[m] = i
    BY <1>1, <2>1, <2>2, HoldsListed
  <2> QED BY <2>3, <2>4 DEF text
<1> QED BY <1>2, <1>3 DEF found

(* What PrefixFirst says of a list of matches.                               *)
LEMMA MatchesOfPrefixFirst ==
  ASSUME NEW pattern \in Line, pattern # << >>, NEW list \in Seq(Path)
  PROVE  LET found == MatchesOf(pattern, list)
         IN  \A i, j \in DOMAIN found :
               LET one == Spell(list[found[i]])
                   other == Spell(list[found[j]])
               IN  Begins(pattern, one) /\ Len(one) < Len(other) => i < j
<1> DEFINE found == MatchesOf(pattern, list)
<1>1. /\ found \in Seq(DOMAIN list)
      /\ \A m \in DOMAIN found : found[m] \in Listed(pattern, list)
      /\ \A k, m \in DOMAIN found :
           k < m <=> Better(pattern, list, found[k], found[m])
  BY MatchesFacts
<1> HIDE DEF found
<1>2. ASSUME NEW i \in DOMAIN found, NEW j \in DOMAIN found,
             Begins(pattern, Spell(list[found[i]])),
             Len(Spell(list[found[i]])) < Len(Spell(list[found[j]]))
      PROVE  i < j
  <2> DEFINE one == Spell(list[found[i]])
             other == Spell(list[found[j]])
  <2>1. found[i] \in DOMAIN list /\ found[j] \in DOMAIN list
    BY <1>1
  <2>2. one \in Line /\ other \in Line
    BY <2>1, ListedFiles
  <2>3. fuzzy_score(pattern, other) >= 0
    BY <1>1 DEF Listed, ScoreOf
  <2> HIDE DEF one, other
  <2>4. fuzzy_score(pattern, one) > fuzzy_score(pattern, other)
    BY <1>2, <2>2, <2>3, PrefixScoresMore DEF one, other
  <2>5. Better(pattern, list, found[i], found[j])
    BY <2>4 DEF Better, ScoreOf, one, other
  <2> QED BY <1>1, <2>5
<1> QED BY <1>2 DEF found

-----------------------------------------------------------------------------
(* Folds.                                                                    *)

(* A function defined by recursion on the subsets of a finite set.           *)
IsFold(iter, T, V, base, c, op) ==
  /\ iter \in [SUBSET T -> V]
  /\ iter = [s \in SUBSET T |->
               IF s = {} THEN base ELSE op[<<c[s], iter[s \ {c[s]}]>>]]

LEMMA SubsetRecursion ==
  ASSUME NEW T, IsFiniteSet(T), NEW V, NEW base \in V,
         NEW c, \A s \in (SUBSET T) \ {{}} : c[s] \in s,
         NEW op \in [T \X V -> V]
  PROVE  \E iter : IsFold(iter, T, V, base, c, op)
<1> DEFINE W == [SUBSET T -> V]
           Next1(w) == [s \in SUBSET T |->
                          IF s = {} THEN base ELSE op[<<c[s], w[s \ {c[s]}]>>]]
           step == [p \in Nat \X W |-> Next1(p[2])]
           first == [s \in SUBSET T |-> base]
           n == Cardinality(T)
           N == n + 1
<1>0. n \in Nat /\ N \in Nat /\ N = n + 1
  BY FS_CardinalityType
<1>1. ASSUME NEW w \in W PROVE Next1(w) \in W
  <2> SUFFICES ASSUME NEW s \in SUBSET T, s # {}
               PROVE  op[<<c[s], w[s \ {c[s]}]>>] \in V
    OBVIOUS
  <2>1. c[s] \in T /\ s \ {c[s]} \in SUBSET T
    OBVIOUS
  <2>2. <<c[s], w[s \ {c[s]}]>> \in T \X V
    BY <2>1
  <2> QED BY <2>2
<1>2. first \in W
  OBVIOUS
<1>3. step \in [Nat \X W -> W]
  <2> SUFFICES ASSUME NEW p \in Nat \X W PROVE Next1(p[2]) \in W
    OBVIOUS
  <2>1. p[2] \in W
    OBVIOUS
  <2> HIDE DEF W, Next1
  <2> QED BY <1>1, <2>1
<1>4. ASSUME NEW k \in Nat, NEW w \in W PROVE step[<<k, w>>] = Next1(w)
  <2>1. \A p \in Nat \X W : step[p] = Next1(p[2])
    OBVIOUS
  <2> HIDE DEF step, Next1, W
  <2>2. <<k, w>> \in Nat \X W /\ <<k, w>>[2] = w
    OBVIOUS
  <2> QED BY <2>1, <2>2
<1>5. PICK g : IsSteps(g, W, N, first, step)
  <2> HIDE DEF W, step, first, N
  <2> QED BY <1>0, <1>2, <1>3, StepsExist
<1>6. /\ g \in [0 .. N -> W]
      /\ \A k \in 0 .. n : g[k + 1] = Next1(g[k])
  <2> HIDE DEF W, step, first, N, n, Next1
  <2>1. g \in [0 .. N -> W] /\ \A i \in 1 .. N : g[i] = step[<<i, g[i - 1]>>]
    BY <1>5 DEF IsSteps
  <2>2. ASSUME NEW k \in 0 .. n PROVE g[k + 1] = Next1(g[k])
    <3>1. k + 1 \in 1 .. N /\ (k + 1) - 1 = k /\ k \in 0 .. N /\ k + 1 \in Nat
      BY <1>0
    <3>2. g[k] \in W
      BY <2>1, <3>1
    <3>3. g[k + 1] = step[<<k + 1, g[k]>>]
      BY <2>1, <3>1
    <3> QED BY <1>4, <3>1, <3>2, <3>3
  <2> QED BY <2>1, <2>2
<1>7. ASSUME NEW w, NEW s \in SUBSET T
      PROVE  Next1(w)[s] = IF s = {} THEN base ELSE op[<<c[s], w[s \ {c[s]}]>>]
  OBVIOUS
<1> DEFINE Same(k) == \A s \in SUBSET T : Cardinality(s) <= k => g[k + 1][s] = g[k][s]
           K == {k \in Nat : k <= n => Same(k)}
<1>8. \A s \in SUBSET T : IsFiniteSet(s) /\ Cardinality(s) \in Nat /\ Cardinality(s) <= n
  BY FS_Subset, FS_CardinalityType
<1> HIDE DEF W, Next1, first, step, n, N
<1>9. \A k \in 1 .. N : g[k][{}] = base
  <2> TAKE k \in 1 .. N
  <2>1. k - 1 \in 0 .. n /\ (k - 1) + 1 = k
    BY <1>0
  <2>2. g[k] = Next1(g[k - 1])
    BY <1>6, <2>1
  <2> QED BY <1>7, <2>2
<1>10. g[0][{}] = base
  <2>1. g[0] = first
    BY <1>5 DEF IsSteps
  <2> QED BY <2>1 DEF first
<1>11. 0 \in K
  <2> SUFFICES ASSUME NEW s \in SUBSET T, Cardinality(s) <= 0 PROVE g[0 + 1][s] = g[0][s]
    OBVIOUS
  <2>1. s = {}
    BY <1>8, FS_EmptySet
  <2>2. 0 + 1 \in 1 .. N
    BY <1>0
  <2> QED BY <1>9, <1>10, <2>1, <2>2
<1>12. ASSUME NEW k \in K PROVE k + 1 \in K
  <2> SUFFICES ASSUME k + 1 <= n, NEW s \in SUBSET T, Cardinality(s) <= k + 1
               PROVE  g[(k + 1) + 1][s] = g[k + 1][s]
    OBVIOUS
  <2>0. /\ k \in Nat /\ k + 1 \in 0 .. n /\ k \in 0 .. n
        /\ k + 1 \in 1 .. N /\ (k + 1) + 1 \in 1 .. N
    BY <1>0
  <2>1. CASE s = {}
    BY <1>9, <2>0, <2>1
  <2>2. CASE s # {}
    <3> DEFINE t == s \ {c[s]}
    <3>1. c[s] \in s /\ t \in SUBSET T
      BY <2>2
    <3>2. Cardinality(t) = Cardinality(s) - 1
      BY <1>8, <3>1, FS_RemoveElement
    <3>3. Cardinality(t) <= k
      BY <1>8, <2>0, <3>2
    <3>4. g[k + 1][t] = g[k][t]
      <4>1. Same(k)
        BY <2>0, <1>0
      <4> HIDE DEF t
      <4> QED BY <3>1, <3>3, <4>1
    <3>5. g[(k + 1) + 1][s] = op[<<c[s], g[k + 1][t]>>]
      <4> DEFINE later == g[k + 1]
      <4>1. g[(k + 1) + 1] = Next1(later)
        BY <1>6, <2>0
      <4> HIDE DEF later
      <4>2. Next1(later)[s] = op[<<c[s], later[t]>>]
        BY <1>7, <2>2
      <4> QED BY <4>1, <4>2 DEF later
    <3>6. g[k + 1][s] = op[<<c[s], g[k][t]>>]
      <4>1. g[k + 1] = Next1(g[k])
        BY <1>6, <2>0
      <4> QED BY <1>7, <2>2, <4>1
    <3> QED BY <3>4, <3>5, <3>6
  <2> QED BY <2>1, <2>2
<1>13. K \in SUBSET Nat
  OBVIOUS
<1>14. n \in K
  <2> HIDE DEF K
  <2> QED BY <1>0, <1>11, <1>12, <1>13, SetInduction
<1>15. Same(n)
  BY <1>0, <1>14
<1>16. g[n] \in W /\ g[n + 1] \in W /\ g[n + 1] = Next1(g[n])
  BY <1>0, <1>6
<1>17. g[n + 1] = g[n]
  <2>1. \A s \in SUBSET T : g[n + 1][s] = g[n][s]
    BY <1>8, <1>15
  <2> QED BY <1>16, <2>1 DEF W
<1>18. g[n] = Next1(g[n]) /\ g[n] \in [SUBSET T -> V]
  BY <1>16, <1>17 DEF W
<1> QED BY <1>18 DEF Next1, IsFold

(* The elements of a set, one after the other in some order.                 *)
Lists(names, set) ==
  /\ names \in Seq(set)
  /\ \A x \in set : \E i \in 1 .. Len(names) : names[i] = x
  /\ \A i, j \in 1 .. Len(names) : names[i] = names[j] => i = j

LEMMA ListsMore ==
  ASSUME NEW names, NEW set, NEW x, x \notin set, Lists(names, set)
  PROVE  Lists(Append(names, x), set \cup {x})
<1> DEFINE more == Append(names, x)
           n == Len(names)
<1>1. names \in Seq(set) /\ n \in Nat
  BY DEF Lists
<1>2. names \in Seq(set \cup {x}) /\ x \in set \cup {x}
  BY <1>1
<1>3. /\ more \in Seq(set \cup {x}) /\ Len(more) = n + 1
      /\ \A i \in 1 .. n : more[i] = names[i]
      /\ more[n + 1] = x
  BY <1>2, AppendProperties
<1>4. \A i \in 1 .. n : names[i] \in set
  BY <1>1
<1> HIDE DEF more
<1>5. \A y \in set \cup {x} : \E i \in 1 .. Len(more) : more[i] = y
  <2>1. ASSUME NEW y \in set PROVE \E i \in 1 .. Len(more) : more[i] = y
    <3>1. PICK i \in 1 .. n : names[i] = y
      BY DEF Lists
    <3> QED BY <1>1, <1>3, <3>1
  <2>2. n + 1 \in 1 .. Len(more)
    BY <1>1, <1>3
  <2> QED BY <1>3, <2>1, <2>2
<1>6. \A i, j \in 1 .. Len(more) : more[i] = more[j] => i = j
  <2> TAKE i, j \in 1 .. Len(more)
  <2>1. (i \in 1 .. n \/ i = n + 1) /\ (j \in 1 .. n \/ j = n + 1)
    BY <1>1, <1>3
  <2>2. CASE i \in 1 .. n /\ j \in 1 .. n
    BY <1>3, <2>2 DEF Lists
  <2>3. CASE i \in 1 .. n /\ j = n + 1
    BY <1>3, <1>4, <2>3
  <2>4. CASE i = n + 1 /\ j \in 1 .. n
    BY <1>3, <1>4, <2>4
  <2> QED BY <2>1, <2>2, <2>3, <2>4
<1> QED BY <1>3, <1>5, <1>6 DEF Lists, more

LEMMA SetListed ==
  ASSUME NEW T, IsFiniteSet(T)
  PROVE  Lists(FoldSet(LAMBDA name, names : Append(names, name), << >>, T), T)
<1> DEFINE Def(f) == f = [s \in SUBSET T |->
                            IF s = {} THEN << >>
                            ELSE Append(f[s \ {CHOOSE x \in s : TRUE}],
                                        CHOOSE x \in s : TRUE)]
           run == CHOOSE f : Def(f)
           c == [s \in SUBSET T |-> CHOOSE x \in s : TRUE]
           V == Seq(T)
           op == [p \in T \X V |-> Append(p[2], p[1])]
<1>1. FoldSet(LAMBDA name, names : Append(names, name), << >>, T) = run[T]
  BY DEF FoldSet, MapThenFoldSet
<1>2. \A s \in (SUBSET T) \ {{}} : c[s] \in s
  OBVIOUS
<1>3. op \in [T \X V -> V] /\ << >> \in V
  OBVIOUS
<1>4. \A x \in T : \A v \in V : op[<<x, v>>] = Append(v, x)
  OBVIOUS
<1>5. \E f : Def(f)
  <2> DEFINE base == << >>
  <2> HIDE DEF V, op, c, base
  <2>1. base \in V
    BY <1>3 DEF base
  <2>2. \E iter : IsFold(iter, T, V, base, c, op)
    BY <1>2, <1>3, <2>1, SubsetRecursion
  <2>3. PICK f \in [SUBSET T -> V] :
           f = [s \in SUBSET T |->
                     IF s = {} THEN base ELSE op[<<c[s], f[s \ {c[s]}]>>]]
    BY <2>2 DEF IsFold
  <2>4. ASSUME NEW s \in SUBSET T
        PROVE  f[s] = IF s = {} THEN << >>
                      ELSE Append(f[s \ {CHOOSE x \in s : TRUE}], CHOOSE x \in s : TRUE)
    <3>1. f[s] = IF s = {} THEN base ELSE op[<<c[s], f[s \ {c[s]}]>>]
      BY <2>3
    <3>2. CASE s = {}
      BY <3>1, <3>2 DEF base
    <3>3. CASE s # {}
      <4>1. c[s] \in T /\ f[s \ {c[s]}] \in V
        BY <1>2, <3>3
      <4>2. f[s] = Append(f[s \ {c[s]}], c[s])
        BY <1>4, <3>1, <3>3, <4>1
      <4> QED BY <3>3, <4>2 DEF c
    <3> QED BY <3>2, <3>3
  <2>5. f = [s \in SUBSET T |-> f[s]]
    OBVIOUS
  <2>6. Def(f)
    BY <2>4, <2>5
  <2> QED BY <2>6
<1>6. Def(run)
  <2> HIDE DEF Def
  <2> QED BY <1>5
<1> HIDE DEF run
<1>7. ASSUME NEW s \in SUBSET T
      PROVE  /\ s = {} => run[s] = << >>
             /\ s # {} => run[s] = Append(run[s \ {c[s]}], c[s])
  BY <1>6
<1> DEFINE K == {k \in Nat : \A s \in SUBSET T : Cardinality(s) = k => Lists(run[s], s)}
<1>8. \A s \in SUBSET T : IsFiniteSet(s) /\ Cardinality(s) \in Nat
  BY FS_Subset, FS_CardinalityType
<1> HIDE DEF c, op, V, Def
<1>9. 0 \in K
  <2>1. Lists(<< >>, {})
    BY DEF Lists
  <2>2. ASSUME NEW s \in SUBSET T, Cardinality(s) = 0 PROVE Lists(run[s], s)
    <3>1. s = {}
      BY <1>8, <2>2, FS_EmptySet
    <3> QED BY <1>7, <2>1, <3>1
  <2> QED BY <2>2
<1>10. ASSUME NEW k \in K PROVE k + 1 \in K
  <2> SUFFICES ASSUME NEW s \in SUBSET T, Cardinality(s) = k + 1 PROVE Lists(run[s], s)
    OBVIOUS
  <2>0. k \in Nat
    OBVIOUS
  <2>1. s # {}
    BY <2>0, FS_EmptySet
  <2> DEFINE x == c[s]
             t == s \ {x}
  <2>2. x \in s /\ t \in SUBSET T /\ x \notin t /\ s = t \cup {x}
    BY <1>2, <2>1
  <2>3. Cardinality(t) = k
    <3>1. Cardinality(t) = Cardinality(s) - 1
      BY <1>8, <2>2, FS_RemoveElement
    <3> QED BY <2>0, <3>1
  <2> HIDE DEF x
  <2>4. Lists(run[t], t)
    <3> HIDE DEF t
    <3> QED BY <2>2, <2>3
  <2>5. run[s] = Append(run[t], x)
    BY <1>7, <2>1 DEF x
  <2> HIDE DEF t
  <2>6. Lists(Append(run[t], x), t \cup {x})
    BY <2>2, <2>4, ListsMore
  <2> QED BY <2>2, <2>5, <2>6
<1>11. K \in SUBSET Nat
  OBVIOUS
<1>12. Cardinality(T) \in K
  <2> HIDE DEF K
  <2>1. Cardinality(T) \in Nat
    BY <1>8
  <2> QED BY <1>9, <1>10, <1>11, <2>1, SetInduction
<1>13. Lists(run[T], T)
  BY <1>12
<1> QED BY <1>1, <1>13

-----------------------------------------------------------------------------
(* The rules of a .gitignore.                                                *)

LEMMA TrimType ==
  ASSUME NEW line \in Line
  PROVE  trim_whitespace(line) \in Line
<1> DEFINE kept == {i \in 1 .. Len(line) : line[i] \notin {Space, Tab}}
<1>0. Len(line) \in Nat
  BY DEF Line
<1>1. CASE kept = {}
  BY <1>1, EmptySeq DEF trim_whitespace, Line
<1>2. CASE kept # {}
  <2> DEFINE n == Len(line)
  <2>1. kept \in SUBSET Nat /\ kept \in SUBSET (0 .. n) /\ kept \in SUBSET (1 .. n)
    BY <1>0
  <2>2. trim_whitespace(line) = SubSeq(line, Min(kept), Max(kept))
    BY <1>2 DEF trim_whitespace
  <2> HIDE DEF kept
  <2>3. Min(kept) \in kept
    BY <1>2, <2>1, MinNat
  <2>4. Max(kept) \in kept
    <3>1. n \in Nat
      BY <1>0
    <3> HIDE DEF n
    <3> QED BY <1>2, <2>1, <3>1, MaxBelow
  <2>5. Min(kept) \in Nat \ {0} /\ Max(kept) \in Int /\ Max(kept) <= Len(line)
    <3>1. Min(kept) \in 1 .. Len(line) /\ Max(kept) \in 1 .. Len(line)
      BY <2>1, <2>3, <2>4
    <3> QED BY <1>0, <3>1
  <2> QED BY <2>2, <2>5, LinePart
<1> QED BY <1>1, <1>2

LEMMA TailFront ==
  ASSUME NEW line \in Line, line # << >>
  PROVE  Tail(line) \in Line /\ Front(line) \in Line
<1>1. line \in Seq(Byte) /\ Len(line) \in Nat \ {0}
  BY EmptySeq DEF Line
<1>2. Tail(line) \in Seq(Byte)
  BY <1>1
<1>3. Front(line) = SubSeq(line, 1, Len(line) - 1)
  BY DEF Front
<1>4. SubSeq(line, 1, Len(line) - 1) \in Line
  <2>1. 1 \in Nat \ {0} /\ Len(line) - 1 \in Int /\ Len(line) - 1 <= Len(line)
    BY <1>1
  <2> DEFINE j == Len(line) - 1
  <2> HIDE DEF j
  <2> QED BY <2>1, LinePart DEF j
<1> QED BY <1>2, <1>3, <1>4 DEF Line

LEMMA RulesOfLine ==
  ASSUME NEW line \in Line, NEW base \in Path
  PROVE  parse_gitignore_line(line, base) \in Seq(Rule)
<1> DEFINE trimmed  == trim_whitespace(line)
           negated  == BeginsWith(trimmed, Bang)
           positive == IF negated THEN Tail(trimmed) ELSE trimmed
           anchored == BeginsWith(positive, Slash)
           relative == IF anchored THEN Tail(positive) ELSE positive
           dir_only == relative # << >> /\ Last(relative) = Slash
           pattern  == IF dir_only THEN Front(relative) ELSE relative
           slash    == \E i \in 1 .. Len(pattern) : pattern[i] = Slash
           rule == [pattern |-> pattern, base |-> base, negated |-> negated,
                    dir_only |-> dir_only, anchored |-> anchored,
                    has_slash |-> slash]
<1>1. trimmed \in Line
  BY TrimType
<1>2. positive \in Line
  <2>1. negated => trimmed # << >>
    BY DEF BeginsWith
  <2> HIDE DEF trimmed, negated
  <2> QED BY <1>1, <2>1, TailFront
<1>3. relative \in Line
  <2>1. anchored => positive # << >>
    BY DEF BeginsWith
  <2> HIDE DEF positive, anchored
  <2> QED BY <1>2, <2>1, TailFront
<1>4. pattern \in Line
  <2>1. dir_only => relative # << >>
    OBVIOUS
  <2> HIDE DEF relative, dir_only
  <2> QED BY <1>3, <2>1, TailFront
<1>5. negated \in BOOLEAN /\ anchored \in BOOLEAN
  BY DEF BeginsWith
<1>6. dir_only \in BOOLEAN /\ slash \in BOOLEAN
  OBVIOUS
<1>7. \/ parse_gitignore_line(line, base) = << >>
      \/ parse_gitignore_line(line, base) = <<rule>>
  BY DEF parse_gitignore_line
<1> HIDE DEF trimmed, negated, positive, anchored, relative, dir_only, pattern, slash
<1>8. rule \in Rule
  BY <1>4, <1>5, <1>6 DEF Rule, Line
<1> HIDE DEF rule
<1>9. <<rule>> \in Seq(Rule) /\ << >> \in Seq(Rule)
  BY <1>8
<1> QED BY <1>7, <1>9

(* The directories under root, as paths from there.                          *)
Under(root) == {d \in Path : root \o d \in Dirs}

LEMMA OwnRules ==
  ASSUME NEW root \in Path, NEW dir \in Under(root), NEW on_disk
  PROVE  load_gitignore(root, dir, on_disk) \in Seq(Rule)
<1> DEFINE lines == IgnoreLines[root \o dir]
           seqs == [i \in DOMAIN lines |-> parse_gitignore_line(lines[i], dir)]
<1>1. lines \in Seq(Seq(Byte)) /\ dir \in Path
  BY ProjectConstants DEF Under
<1> HIDE DEF lines
<1>2. \A i \in 1 .. Len(lines) : parse_gitignore_line(lines[i], dir) \in Seq(Rule)
  BY <1>1, RulesOfLine DEF Line
<1>3. Len(lines) \in Nat /\ DOMAIN lines = 1 .. Len(lines)
  BY <1>1
<1>4. seqs \in Seq(Seq(Rule)) /\ Len(seqs) = Len(lines)
  <2>1. seqs \in [1 .. Len(lines) -> Seq(Rule)]
    BY <1>2, <1>3
  <2> QED BY <1>3, <2>1, SeqDef
<1>5. FlattenSeq(seqs) \in Seq(Rule)
  <2> HIDE DEF seqs
  <2>1. CASE seqs = << >>
    <3>1. Len(seqs) = 0
      BY <2>1
    <3>2. FlattenSeq(seqs) = seqs
      BY <3>1 DEF FlattenSeq
    <3>3. << >> \in Seq(Rule)
      OBVIOUS
    <3> HIDE DEF Rule
    <3> QED BY <2>1, <3>2, <3>3
  <2>2. CASE seqs # << >>
    BY <1>4, <2>2, FlattenType
  <2> QED BY <2>1, <2>2
<1>6. load_gitignore(root, dir, on_disk) = << >>
      \/ load_gitignore(root, dir, on_disk) = FlattenSeq(seqs)
  BY DEF load_gitignore, lines
<1>7. << >> \in Seq(Rule)
  OBVIOUS
<1> QED BY <1>5, <1>6, <1>7

-----------------------------------------------------------------------------
(* The entries of a directory.                                               *)

LEMMA PathParts ==
  ASSUME NEW path \in Path, path # << >>
  PROVE  /\ Last(path) \in Name /\ Front(path) \in Path
         /\ path = Append(Front(path), Last(path))
<1>1. path \in Seq(Name) /\ Len(path) \in Nat \ {0}
  BY EmptySeq DEF Path
<1>2. Last(path) = path[Len(path)] /\ Front(path) = SubSeq(path, 1, Len(path) - 1)
  BY DEF Last, Front
<1>3. \A i \in 1 .. (Len(path) - 1) : path[i] \in Name
  BY <1>1
<1>4. /\ SubSeq(path, 1, Len(path) - 1) \in Seq(Name)
      /\ Len(SubSeq(path, 1, Len(path) - 1)) = Len(path) - 1
      /\ \A i \in 1 .. (Len(path) - 1) : SubSeq(path, 1, Len(path) - 1)[i] = path[i]
  <2> DEFINE j == Len(path) - 1
  <2>1. j \in Nat /\ 1 \in Int /\ \A i \in 1 .. j : path[i] \in Name
    BY <1>1, <1>3
  <2> HIDE DEF j
  <2>2. /\ SubSeq(path, 1, j) \in Seq(Name)
        /\ Len(SubSeq(path, 1, j)) = IF 1 <= j THEN j - 1 + 1 ELSE 0
        /\ \A i \in 1 .. j - 1 + 1 : SubSeq(path, 1, j)[i] = path[1 + i - 1]
    BY <2>1, SubSeqProperties
  <2>3. Len(SubSeq(path, 1, j)) = j /\ \A i \in 1 .. j : SubSeq(path, 1, j)[i] = path[i]
    BY <2>1, <2>2
  <2> QED BY <2>2, <2>3 DEF j
<1>5. path = Append(Front(path), Last(path))
  <2> DEFINE whole == Append(Front(path), Last(path))
  <2>1. Last(path) \in Name
    BY <1>1, <1>2
  <2>2. /\ whole \in Seq(Name) /\ Len(whole) = Len(path)
        /\ \A i \in 1 .. (Len(path) - 1) : whole[i] = path[i]
        /\ whole[Len(path)] = path[Len(path)]
    BY <1>1, <1>2, <1>4, <2>1, AppendProperties
  <2> HIDE DEF whole
  <2>3. \A i \in 1 .. Len(path) : whole[i] = path[i]
    BY <1>1, <2>2
  <2>4. whole = path
    BY <1>1, <2>2, <2>3, SeqEqual
  <2> QED BY <2>4 DEF whole
<1> QED BY <1>1, <1>2, <1>4, <1>5 DEF Path

(* The names in a directory.                                                 *)
NamesIn(dir, on_disk) ==
  {Last(path) : path \in {p \in on_disk \cup Dirs : p # << >> /\ Front(p) = dir}}
  \cup (IF dir \in GitDirs THEN {Git} ELSE {})

LEMMA NamesListed ==
  ASSUME NEW dir, NEW on_disk \in SUBSET Path, IsFiniteSet(on_disk)
  PROVE  /\ NamesIn(dir, on_disk) \in SUBSET Name
         /\ Lists(readdir(dir, on_disk), NamesIn(dir, on_disk))
<1> DEFINE P == {p \in on_disk \cup Dirs : p # << >> /\ Front(p) = dir}
           T == NamesIn(dir, on_disk)
           L == {Last(path) : path \in P}
           G == IF dir \in GitDirs THEN {Git} ELSE {}
<1>1. Dirs \in SUBSET Path /\ IsFiniteSet(Dirs) /\ Git \in Name
  BY ProjectConstants
<1>2. \A p \in P : p \in Path /\ p # << >>
  BY <1>1
<1>3. \A p \in P : Last(p) \in Name
  BY <1>2, PathParts
<1>4. T \in SUBSET Name
  BY <1>1, <1>3 DEF NamesIn
<1>5. IsFiniteSet(P)
  <2>1. IsFiniteSet(on_disk \cup Dirs)
    BY <1>1, FS_Union
  <2>2. P \in SUBSET (on_disk \cup Dirs)
    OBVIOUS
  <2> HIDE DEF P
  <2> QED BY <2>1, <2>2, FS_Subset
<1>6. IsFiniteSet(L)
  <2> DEFINE last == [p \in P |-> Last(p)]
  <2>1. last \in Surjection(P, L)
    BY DEF Surjection
  <2> HIDE DEF last, P, L
  <2> QED BY <1>5, <2>1, FS_Surjection
<1>7. IsFiniteSet(G)
  BY FS_Singleton, FS_EmptySet
<1>8. IsFiniteSet(T) /\ T = L \cup G
  <2>1. T = L \cup G
    BY DEF NamesIn
  <2> HIDE DEF L, G, T
  <2> QED BY <1>6, <1>7, <2>1, FS_Union
<1>9. readdir(dir, on_disk) = FoldSet(LAMBDA name, names : Append(names, name), << >>, T)
  BY DEF readdir, NamesIn
<1> HIDE DEF T
<1>10. Lists(FoldSet(LAMBDA name, names : Append(names, name), << >>, T), T)
  BY <1>8, SetListed
<1>11. Lists(readdir(dir, on_disk), T)
  BY <1>9, <1>10
<1> QED BY <1>4, <1>11 DEF T

-----------------------------------------------------------------------------
(* Scans.                                                                    *)

(* The directories in root/dir.                                              *)
Below(root, dir) == {d \in Under(root) : \E name \in Name : d = Append(dir, name)}

(* A scan of dir adds files and leaves the rules as they are.                *)
Adds(g, dir) ==
  \A state \in Listing : g[dir][state] \in {s \in Listing : s.rules = state.rules}

LEMMA EntryAdds ==
  ASSUME NEW root \in Path, NEW dir \in Under(root), NEW g,
         \A d \in Below(root, dir) : Adds(g, d),
         NEW state \in Listing, NEW name \in Name
  PROVE  /\ scan_entry(g, root, dir, state, name) \in Listing
         /\ scan_entry(g, root, dir, state, name).rules = state.rules
<1> DEFINE path == Append(dir, name)
           entry == scan_entry(g, root, dir, state, name)
<1>1. path \in Path /\ dir \in Path
  BY DEF Path, Under
<1>2. state.files \in Seq(Path) /\ state.rules \in Seq(Rule)
  BY DEF Listing
<1>3. \/ entry = state
      \/ root \o path \in Dirs /\ entry = g[path][state]
      \/ entry = [state EXCEPT !.files = Append(@, path)]
  BY DEF scan_entry
<1> HIDE DEF entry, path
<1>4. CASE entry = state
  BY <1>4 DEF entry
<1>5. CASE root \o path \in Dirs /\ entry = g[path][state]
  <2>1. path \in Below(root, dir)
    BY <1>1, <1>5 DEF Below, Under, path
  <2> QED BY <1>5, <2>1 DEF Adds, entry
<1>6. CASE entry = [state EXCEPT !.files = Append(@, path)]
  <2> DEFINE more == Append(state.files, path)
  <2>1. more \in Seq(Path)
    BY <1>1, <1>2
  <2>2. entry = [state EXCEPT !.files = more]
    BY <1>6
  <2> HIDE DEF more
  <2>3. [state EXCEPT !.files = more] \in Listing
        /\ [state EXCEPT !.files = more].rules = state.rules
    BY <2>1 DEF Listing
  <2> QED BY <2>2, <2>3 DEF entry
<1> QED BY <1>3, <1>4, <1>5, <1>6

(* The entries of a directory, one after the other.                          *)
Entries(h, g, root, dir, start, names) ==
  /\ h \in [0 .. Len(names) -> {s \in Listing : s.rules = start.rules}]
  /\ h[0] = start
  /\ \A i \in 1 .. Len(names) : h[i] = scan_entry(g, root, dir, h[i - 1], names[i])

AllEntries(g, root, dir, start, names) ==
  FoldLeft(LAMBDA state, name : scan_entry(g, root, dir, state, name), start, names)

LEMMA EntriesFolded ==
  ASSUME NEW root \in Path, NEW dir \in Under(root), NEW g,
         \A d \in Below(root, dir) : Adds(g, d),
         NEW start \in Listing, NEW names \in Seq(Name)
  PROVE  \E h : /\ Entries(h, g, root, dir, start, names)
                /\ AllEntries(g, root, dir, start, names) = h[Len(names)]
<1> DEFINE n == Len(names)
           T == 1 .. n
           V == {s \in Listing : s.rules = start.rules}
           E(v, x) == scan_entry(g, root, dir, v, x)
           Def(f) == f = [s \in SUBSET (DOMAIN names) |->
                            IF s = {} THEN start
                            ELSE scan_entry(g, root, dir, f[s \ {Max(s)}], names[Max(s)])]
           run == CHOOSE f : Def(f)
           c == [s \in SUBSET T |-> Max(s)]
           op == [p \in T \X V |-> E(p[2], names[p[1]])]
<1>0. n \in Nat /\ DOMAIN names = T /\ (\A i \in T : names[i] \in Name) /\ T \in SUBSET Nat
  OBVIOUS
<1>1. AllEntries(g, root, dir, start, names) = run[DOMAIN names]
  BY DEF AllEntries, FoldLeft, MapThenFoldSet
<1>2. IsFiniteSet(T)
  BY <1>0, FS_Interval
<1>3. ASSUME NEW s \in (SUBSET T) \ {{}} PROVE Max(s) \in s /\ \A y \in s : Max(s) >= y
  <2>1. s \in SUBSET (0 .. n) /\ s # {}
    BY <1>0
  <2> HIDE DEF n
  <2> QED BY <1>0, <2>1, MaxBelow
<1>4. \A s \in (SUBSET T) \ {{}} : c[s] \in s /\ c[s] = Max(s)
  BY <1>3
<1>5. \A v \in V : \A x \in Name : E(v, x) \in V
  BY EntryAdds
<1>6. op \in [T \X V -> V]
  <2> SUFFICES ASSUME NEW p \in T \X V PROVE E(p[2], names[p[1]]) \in V
    OBVIOUS
  <2>1. p[1] \in T /\ p[2] \in V
    OBVIOUS
  <2> HIDE DEF T, V, E
  <2> QED BY <1>0, <1>5, <2>1
<1>7. \A i \in T : \A v \in V : op[<<i, v>>] = E(v, names[i])
  <2>1. \A p \in T \X V : op[p] = E(p[2], names[p[1]])
    OBVIOUS
  <2> HIDE DEF op, E, T, V
  <2>2. ASSUME NEW i \in T, NEW v \in V PROVE op[<<i, v>>] = E(v, names[i])
    <3>1. <<i, v>> \in T \X V /\ <<i, v>>[1] = i /\ <<i, v>>[2] = v
      OBVIOUS
    <3> QED BY <2>1, <3>1
  <2> QED BY <2>2
<1>8. start \in V
  OBVIOUS
<1>9. \E f : Def(f)
  <2> HIDE DEF op, c, V, T
  <2>1. \E f : IsFold(f, T, V, start, c, op)
    BY <1>2, <1>4, <1>6, <1>8, SubsetRecursion
  <2>2. PICK f : f \in [SUBSET T -> V]
                 /\ f = [s \in SUBSET T |->
                           IF s = {} THEN start ELSE op[<<c[s], f[s \ {c[s]}]>>]]
    BY <2>1 DEF IsFold
  <2>3. ASSUME NEW s \in SUBSET T
        PROVE  f[s] = IF s = {} THEN start ELSE E(f[s \ {Max(s)}], names[Max(s)])
    <3>1. f[s] = IF s = {} THEN start ELSE op[<<c[s], f[s \ {c[s]}]>>]
      BY <2>2
    <3>2. CASE s = {}
      BY <3>1, <3>2
    <3>3. CASE s # {}
      <4>1. c[s] \in T /\ f[s \ {c[s]}] \in V /\ c[s] = Max(s)
        BY <1>4, <2>2, <3>3
      <4> HIDE DEF E
      <4> QED BY <1>7, <3>1, <3>3, <4>1
    <3> QED BY <3>2, <3>3
  <2>4. f = [s \in SUBSET (DOMAIN names) |-> f[s]]
    BY <1>0, <2>2
  <2>5. \A s \in SUBSET (DOMAIN names) :
          f[s] = IF s = {} THEN start
                 ELSE scan_entry(g, root, dir, f[s \ {Max(s)}], names[Max(s)])
    BY <1>0, <2>3
  <2>6. Def(f)
    BY <2>4, <2>5
  <2> QED BY <2>6
<1>10. Def(run)
  <2> HIDE DEF Def
  <2> QED BY <1>9
<1> DEFINE h == [i \in 0 .. n |-> run[1 .. i]]
<1>11. run[{}] = start
  <2> HIDE DEF run
  <2> QED BY <1>10
<1>12. ASSUME NEW i \in 1 .. n PROVE run[1 .. i] = E(run[1 .. (i - 1)], names[i])
  <2> HIDE DEF run, c, op, V
  <2>1. i \in Nat /\ 1 .. i \in (SUBSET T) \ {{}} /\ i \in 1 .. i
    BY <1>0
  <2>2. Max(1 .. i) = i
    <3>1. Max(1 .. i) \in 1 .. i /\ Max(1 .. i) >= i
      BY <1>3, <2>1
    <3> QED BY <2>1, <3>1
  <2>3. (1 .. i) \ {Max(1 .. i)} = 1 .. (i - 1)
    BY <2>1, <2>2
  <2>4. \A s \in SUBSET (DOMAIN names) : s # {} =>
          run[s] = scan_entry(g, root, dir, run[s \ {Max(s)}], names[Max(s)])
    BY <1>10
  <2> QED BY <1>0, <2>1, <2>2, <2>3, <2>4
<1> HIDE DEF run, c, op, Def
<1>13. h[0] = start /\ \A i \in 1 .. n : h[i] = E(h[i - 1], names[i])
  <2>1. 1 .. 0 = {}
    OBVIOUS
  <2>2. h[0] = start
    BY <1>0, <1>11, <2>1
  <2>3. ASSUME NEW i \in 1 .. n PROVE h[i] = E(h[i - 1], names[i])
    <3>1. i \in 0 .. n /\ i - 1 \in 0 .. n
      BY <1>0
    <3>2. h[i] = run[1 .. i] /\ h[i - 1] = run[1 .. (i - 1)]
      BY <3>1
    <3> HIDE DEF h, E
    <3> QED BY <1>12, <3>2
  <2> QED BY <2>2, <2>3
<1>14. \A i \in 0 .. n : h[i] \in V
  <2> DEFINE K == {i \in Nat : i <= n => h[i] \in V}
  <2>1. 0 \in K
    BY <1>8, <1>13
  <2>2. ASSUME NEW i \in K PROVE i + 1 \in K
    <3> SUFFICES ASSUME i + 1 <= n PROVE h[i + 1] \in V
      OBVIOUS
    <3>1. i + 1 \in 1 .. n /\ (i + 1) - 1 = i /\ h[i] \in V
      BY <1>0
    <3> HIDE DEF h, V, E
    <3>2. names[i + 1] \in Name
      BY <1>0, <3>1
    <3>3. h[i + 1] = E(h[i], names[i + 1])
      BY <1>13, <3>1
    <3> QED BY <1>5, <3>1, <3>2, <3>3
  <2>3. K \in SUBSET Nat
    OBVIOUS
  <2> HIDE DEF K
  <2>4. \A i \in Nat : i \in K
    BY <2>1, <2>2, <2>3, SetInduction
  <2> HIDE DEF h, V, n
  <2>5. \A i \in 0 .. n : i \in Nat /\ i <= n
    BY <1>0
  <2> QED BY <2>4, <2>5 DEF K
<1>15. run[DOMAIN names] = h[n]
  BY <1>0
<1>16. h \in [0 .. n -> V]
  <2>1. h = [i \in 0 .. n |-> h[i]]
    OBVIOUS
  <2> HIDE DEF h
  <2> QED BY <1>14, <2>1
<1> HIDE DEF h
<1>17. Entries(h, g, root, dir, start, names)
  BY <1>13, <1>16 DEF Entries
<1> QED BY <1>1, <1>15, <1>17

(* What scan_project_dir makes of the state above, g scanning what is below. *)
Start(root, dir, on_disk, above) ==
  [above EXCEPT !.rules = @ \o load_gitignore(root, dir, on_disk)]

ScanDir(g, root, dir, on_disk, above) ==
  [AllEntries(g, root, dir, Start(root, dir, on_disk, above),
              readdir(root \o dir, on_disk))
     EXCEPT !.rules = ignore_list_truncate(@, Len(above.rules))]

ScanAll(g, root, on_disk) ==
  [dir \in Under(root) |-> [above \in Listing |-> ScanDir(g, root, dir, on_disk, above)]]

LEMMA StartType ==
  ASSUME NEW root \in Path, NEW dir \in Under(root), NEW on_disk, NEW above \in Listing
  PROVE  /\ Start(root, dir, on_disk, above) \in Listing
         /\ Start(root, dir, on_disk, above).files = above.files
         /\ Start(root, dir, on_disk, above).rules
              = above.rules \o load_gitignore(root, dir, on_disk)
<1> DEFINE own == load_gitignore(root, dir, on_disk)
           all == above.rules \o own
<1>1. own \in Seq(Rule)
  BY OwnRules
<1>2. above.rules \in Seq(Rule) /\ above.files \in Seq(Path)
  BY DEF Listing
<1> HIDE DEF own
<1>3. all \in Seq(Rule)
  BY <1>1, <1>2
<1> HIDE DEF all
<1>4. Start(root, dir, on_disk, above) = [above EXCEPT !.rules = all]
  BY DEF Start, all, own
<1>5. [above EXCEPT !.rules = all] = [files |-> above.files, rules |-> all]
  BY DEF Listing
<1>6. [files |-> above.files, rules |-> all] \in Listing
  BY <1>2, <1>3 DEF Listing
<1> QED BY <1>4, <1>5, <1>6 DEF all, own

LEMMA ScanDirIs ==
  ASSUME NEW root \in Path, NEW dir \in Under(root), NEW g,
         \A d \in Below(root, dir) : Adds(g, d),
         NEW on_disk \in SUBSET Path, IsFiniteSet(on_disk), NEW above \in Listing
  PROVE  LET start == Start(root, dir, on_disk, above)
             names == readdir(root \o dir, on_disk)
         IN  /\ names \in Seq(Name)
             /\ \E h : /\ Entries(h, g, root, dir, start, names)
                       /\ ScanDir(g, root, dir, on_disk, above)
                            = [files |-> h[Len(names)].files, rules |-> above.rules]
<1> DEFINE start == Start(root, dir, on_disk, above)
           names == readdir(root \o dir, on_disk)
           len == Len(above.rules)
           own == load_gitignore(root, dir, on_disk)
<1>1. /\ start \in Listing
      /\ start.rules = above.rules \o own
  BY StartType
<1>2. names \in Seq(Name)
  <2>1. Lists(names, NamesIn(root \o dir, on_disk))
        /\ NamesIn(root \o dir, on_disk) \in SUBSET Name
    BY NamesListed
  <2> HIDE DEF names
  <2> QED BY <2>1 DEF Lists
<1> DEFINE done == AllEntries(g, root, dir, start, names)
<1>3. \E h : Entries(h, g, root, dir, start, names) /\ done = h[Len(names)]
  <2> HIDE DEF start, names
  <2> QED BY <1>1, <1>2, EntriesFolded
<1>4. ScanDir(g, root, dir, on_disk, above)
        = [done EXCEPT !.rules = ignore_list_truncate(@, len)]
  BY DEF ScanDir
<1> HIDE DEF done, start, names
<1>5. PICK h : Entries(h, g, root, dir, start, names) /\ done = h[Len(names)]
  BY <1>3
<1>6. h[Len(names)] \in Listing /\ h[Len(names)].rules = start.rules
  <2>1. Len(names) \in 0 .. Len(names)
    BY <1>2
  <2> QED BY <1>5, <2>1 DEF Entries
<1>7. ignore_list_truncate(above.rules \o own, len) = above.rules
  <2>1. above.rules \in Seq(Rule) /\ own \in Seq(Rule)
    BY OwnRules DEF Listing
  <2> DEFINE old == above.rules
             all == old \o own
  <2>2. /\ all \in Seq(Rule) /\ Len(old) \in Nat /\ Len(own) \in Nat
        /\ Len(all) = Len(old) + Len(own)
        /\ \A i \in 1 .. Len(old) : all[i] = old[i]
    BY <2>1, ConcatProperties
  <2>3. /\ SubSeq(all, 1, len) \in Seq(Rule) /\ Len(SubSeq(all, 1, len)) = Len(old)
        /\ \A i \in 1 .. len : SubSeq(all, 1, len)[i] = all[i]
    <3>1. len = Len(old) /\ len \in Nat
      BY <2>2
    <3> HIDE DEF all, len
    <3>2. \A i \in 1 .. len : all[i] \in Rule
      BY <2>2, <3>1
    <3>3. /\ SubSeq(all, 1, len) \in Seq(Rule)
          /\ Len(SubSeq(all, 1, len)) = IF 1 <= len THEN len - 1 + 1 ELSE 0
          /\ \A i \in 1 .. len - 1 + 1 : SubSeq(all, 1, len)[i] = all[1 + i - 1]
      BY <3>1, <3>2, SubSeqProperties
    <3> QED BY <3>1, <3>3
  <2> DEFINE cut == SubSeq(all, 1, len)
  <2>4. \A i \in 1 .. len : cut[i] = old[i]
    BY <2>2, <2>3
  <2> HIDE DEF cut, all
  <2>5. cut = old
    BY <2>1, <2>3, <2>4, SeqEqual DEF cut
  <2> QED BY <2>5 DEF ignore_list_truncate, cut, all
<1>8. ScanDir(g, root, dir, on_disk, above)
        = [files |-> h[Len(names)].files, rules |-> above.rules]
  <2> DEFINE last == h[Len(names)]
             cut == ignore_list_truncate(last.rules, len)
  <2>1. ScanDir(g, root, dir, on_disk, above) = [last EXCEPT !.rules = cut]
    BY <1>4, <1>5
  <2>2. cut = above.rules /\ last \in Listing
    BY <1>1, <1>6, <1>7
  <2> HIDE DEF last, cut
  <2>3. [last EXCEPT !.rules = cut] = [files |-> last.files, rules |-> cut]
    BY <2>2 DEF Listing
  <2> QED BY <2>1, <2>2, <2>3 DEF last
<1> QED BY <1>2, <1>5, <1>8 DEF start, names

LEMMA ScanDirAdds ==
  ASSUME NEW root \in Path, NEW dir \in Under(root), NEW g,
         \A d \in Below(root, dir) : Adds(g, d),
         NEW on_disk \in SUBSET Path, IsFiniteSet(on_disk), NEW above \in Listing
  PROVE  ScanDir(g, root, dir, on_disk, above)
           \in {s \in Listing : s.rules = above.rules}
<1> DEFINE start == Start(root, dir, on_disk, above)
           names == readdir(root \o dir, on_disk)
<1>1. PICK h : /\ Entries(h, g, root, dir, start, names)
               /\ ScanDir(g, root, dir, on_disk, above)
                    = [files |-> h[Len(names)].files, rules |-> above.rules]
  BY ScanDirIs
<1>2. names \in Seq(Name)
  BY ScanDirIs
<1> HIDE DEF start, names
<1>3. h[Len(names)] \in Listing
  <2>1. Len(names) \in 0 .. Len(names)
    BY <1>2
  <2> QED BY <1>1, <2>1 DEF Entries
<1> QED BY <1>1, <1>3 DEF Listing

(* Two functions that scan what is below a directory in the same way.        *)
LEMMA ScanDirSame ==
  ASSUME NEW root \in Path, NEW dir \in Under(root), NEW g, NEW g2,
         \A d \in Below(root, dir) : Adds(g, d),
         \A d \in Below(root, dir) : \A s \in Listing : g2[d][s] = g[d][s],
         NEW on_disk \in SUBSET Path, IsFiniteSet(on_disk), NEW above \in Listing
  PROVE  ScanDir(g2, root, dir, on_disk, above) = ScanDir(g, root, dir, on_disk, above)
<1> DEFINE start == Start(root, dir, on_disk, above)
           names == readdir(root \o dir, on_disk)
<1>0. \A d \in Below(root, dir) : Adds(g2, d)
  BY DEF Adds
<1>1. PICK h : /\ Entries(h, g, root, dir, start, names)
               /\ ScanDir(g, root, dir, on_disk, above)
                    = [files |-> h[Len(names)].files, rules |-> above.rules]
  BY ScanDirIs
<1>2. PICK h2 : /\ Entries(h2, g2, root, dir, start, names)
                /\ ScanDir(g2, root, dir, on_disk, above)
                     = [files |-> h2[Len(names)].files, rules |-> above.rules]
  BY <1>0, ScanDirIs
<1>3. names \in Seq(Name) /\ Len(names) \in Nat
  <2>1. names \in Seq(Name)
    BY ScanDirIs
  <2> HIDE DEF names
  <2> QED BY <2>1
<1> HIDE DEF start, names
<1> DEFINE K == {i \in Nat : i <= Len(names) => h2[i] = h[i]}
<1>4. 0 \in K
  BY <1>1, <1>2 DEF Entries
<1>5. ASSUME NEW i \in K PROVE i + 1 \in K
  <2> SUFFICES ASSUME i + 1 <= Len(names) PROVE h2[i + 1] = h[i + 1]
    OBVIOUS
  <2> DEFINE j == i + 1
             name == names[j]
  <2>1. j \in 1 .. Len(names) /\ j - 1 = i /\ h2[i] = h[i] /\ i \in 0 .. Len(names)
    BY <1>3
  <2>2. name \in Name
    BY <1>3, <2>1
  <2>3. h[i] \in Listing
    BY <1>1, <2>1 DEF Entries
  <2> HIDE DEF name
  <2>4. scan_entry(g2, root, dir, h[i], name) = scan_entry(g, root, dir, h[i], name)
    <3>1. Append(dir, name) \in Path
      BY <2>2 DEF Path, Under
    <3>2. root \o Append(dir, name) \in Dirs => Append(dir, name) \in Below(root, dir)
      BY <2>2, <3>1 DEF Below, Under
    <3>3. root \o Append(dir, name) \in Dirs
            => g2[Append(dir, name)][h[i]] = g[Append(dir, name)][h[i]]
      BY <2>3, <3>2
    <3> QED BY <3>3 DEF scan_entry
  <2>5. /\ h2[j] = scan_entry(g2, root, dir, h2[i], name)
        /\ h[j] = scan_entry(g, root, dir, h[i], name)
    BY <1>1, <1>2, <2>1 DEF Entries, name
  <2> QED BY <2>1, <2>4, <2>5
<1>6. K \in SUBSET Nat
  OBVIOUS
<1>7. Len(names) \in K
  <2> HIDE DEF K
  <2> QED BY <1>3, <1>4, <1>5, <1>6, SetInduction
<1>8. h2[Len(names)] = h[Len(names)]
  BY <1>3, <1>7
<1> QED BY <1>1, <1>2, <1>8

-----------------------------------------------------------------------------
(* The recursion of scan_project ends: the directories have a depth.         *)

(* The numbers of a finite set have a bound.                                 *)
LEMMA FiniteBound ==
  ASSUME NEW S \in SUBSET Nat, IsFiniteSet(S)
  PROVE  \E b \in Nat : \A x \in S : x <= b
<1> DEFINE Bounded(k) == \A X \in SUBSET Nat :
                           IsFiniteSet(X) /\ Cardinality(X) = k =>
                             \E b \in Nat : \A x \in X : x <= b
           K == {k \in Nat : Bounded(k)}
<1>1. 0 \in K
  <2> SUFFICES ASSUME NEW X \in SUBSET Nat, IsFiniteSet(X), Cardinality(X) = 0
               PROVE  \E b \in Nat : \A x \in X : x <= b
    OBVIOUS
  <2>1. X = {}
    BY FS_EmptySet
  <2> QED BY <2>1
<1>2. ASSUME NEW k \in K PROVE k + 1 \in K
  <2> SUFFICES ASSUME NEW X \in SUBSET Nat, IsFiniteSet(X), Cardinality(X) = k + 1
               PROVE  \E b \in Nat : \A x \in X : x <= b
    OBVIOUS
  <2>0. k \in Nat /\ Bounded(k)
    OBVIOUS
  <2>1. X # {}
    BY <2>0, FS_EmptySet
  <2>2. PICK y \in X : TRUE
    BY <2>1
  <2> DEFINE Y == X \ {y}
  <2>3. IsFiniteSet(Y) /\ Cardinality(Y) = k /\ Y \in SUBSET Nat
    <3>1. IsFiniteSet(Y) /\ Cardinality(Y) = Cardinality(X) - 1
      BY <2>2, FS_RemoveElement
    <3> QED BY <2>0, <3>1
  <2>4. PICK b \in Nat : \A x \in Y : x <= b
    <3> HIDE DEF Y
    <3> QED BY <2>0, <2>3
  <2>5. y \in Nat
    BY <2>2
  <2>6. CASE y <= b
    BY <2>4, <2>6
  <2>7. CASE ~(y <= b)
    <3>1. \A x \in X : x <= y
      BY <2>4, <2>5, <2>7
    <3> QED BY <2>5, <3>1
  <2> QED BY <2>6, <2>7
<1>3. K \in SUBSET Nat
  OBVIOUS
<1>4. Cardinality(S) \in Nat
  BY FS_CardinalityType
<1>5. Cardinality(S) \in K
  <2> HIDE DEF K
  <2> QED BY <1>1, <1>2, <1>3, <1>4, SetInduction
<1> QED BY <1>5

(* The depth of the directories.                                             *)
LEMMA DepthBound == \E depth \in Nat : \A dir \in Dirs : Len(dir) <= depth
<1> DEFINE L == {Len(dir) : dir \in Dirs}
           len == [dir \in Dirs |-> Len(dir)]
<1>1. Dirs \in SUBSET Path /\ IsFiniteSet(Dirs)
  BY ProjectConstants
<1>2. \A dir \in Dirs : Len(dir) \in Nat
  BY <1>1 DEF Path
<1>3. L \in SUBSET Nat
  BY <1>2
<1>4. len \in Surjection(Dirs, L)
  BY DEF Surjection
<1>5. IsFiniteSet(L)
  <2> HIDE DEF L, len
  <2> QED BY <1>1, <1>4, FS_Surjection
<1>6. PICK b \in Nat : \A x \in L : x <= b
  <2> HIDE DEF L
  <2> QED BY <1>3, <1>5, FiniteBound
<1> QED BY <1>6

LEMMA UnderDepth ==
  ASSUME NEW root \in Path, NEW depth \in Nat, \A dir \in Dirs : Len(dir) <= depth,
         NEW dir \in Under(root)
  PROVE  /\ Len(dir) \in 0 .. depth
         /\ \A d \in Below(root, dir) : d \in Under(root) /\ Len(d) = Len(dir) + 1
<1>1. root \in Seq(Name) /\ dir \in Seq(Name) /\ root \o dir \in Dirs
  BY DEF Path, Under
<1>2. Len(root \o dir) = Len(root) + Len(dir) /\ Len(root) \in Nat /\ Len(dir) \in Nat
  BY <1>1, ConcatProperties
<1>3. Len(root \o dir) <= depth
  BY <1>1
<1>4. \A name \in Name : Len(Append(dir, name)) = Len(dir) + 1
  BY <1>1, AppendProperties
<1> QED BY <1>2, <1>3, <1>4 DEF Below

(* There is a function that scans every directory as scan_project_dir does,  *)
(* for it calls itself on deeper ones only.                                  *)
LEMMA ScanExists ==
  ASSUME NEW root \in Path, NEW on_disk \in SUBSET Path, IsFiniteSet(on_disk)
  PROVE  \E f : f = ScanAll(f, root, on_disk)
<1> DEFINE U == Under(root)
           W == {g \in [U -> [Listing -> Listing]] : \A d \in U : Adds(g, d)}
           All(g) == ScanAll(g, root, on_disk)
           step == [p \in Nat \X W |-> All(p[2])]
           first == [dir \in U |-> [above \in Listing |-> above]]
<1>1. PICK depth \in Nat : \A dir \in Dirs : Len(dir) <= depth
  BY DepthBound
<1>2. ASSUME NEW g \in W PROVE All(g) \in W
  <2>1. \A dir \in U : \A d \in Below(root, dir) : Adds(g, d)
    BY DEF Below
  <2>2. ASSUME NEW dir \in U, NEW above \in Listing
        PROVE  /\ ScanDir(g, root, dir, on_disk, above) \in Listing
               /\ ScanDir(g, root, dir, on_disk, above).rules = above.rules
    BY <2>1, ScanDirAdds
  <2>3. All(g) \in [U -> [Listing -> Listing]]
    BY <2>2 DEF ScanAll
  <2>4. \A dir \in U : \A above \in Listing :
          All(g)[dir][above] = ScanDir(g, root, dir, on_disk, above)
    BY DEF ScanAll
  <2>5. \A d \in U : Adds(All(g), d)
    <3> HIDE DEF All
    <3> QED BY <2>2, <2>4 DEF Adds
  <2> HIDE DEF All
  <2> QED BY <2>3, <2>5
<1>3. first \in W
  <2>1. first \in [U -> [Listing -> Listing]]
    OBVIOUS
  <2>2. \A d \in U : Adds(first, d)
    BY DEF Adds
  <2> HIDE DEF first
  <2> QED BY <2>1, <2>2
<1>4. step \in [Nat \X W -> W]
  <2> HIDE DEF W, All
  <2> QED BY <1>2
<1>5. ASSUME NEW k \in Nat, NEW w \in W PROVE step[<<k, w>>] = All(w)
  <2>1. \A p \in Nat \X W : step[p] = All(p[2])
    OBVIOUS
  <2> HIDE DEF step, All, W
  <2>2. <<k, w>> \in Nat \X W /\ <<k, w>>[2] = w
    OBVIOUS
  <2> QED BY <2>1, <2>2
<1> DEFINE n == depth + 1
           N == n + 1
<1>0. n \in Nat /\ N \in Nat /\ N = n + 1 /\ n = depth + 1
  OBVIOUS
<1> HIDE DEF n, N
<1>6. PICK g : IsSteps(g, W, N, first, step)
  <2> HIDE DEF W, step, first
  <2> QED BY <1>0, <1>3, <1>4, StepsExist
<1>7. /\ \A k \in 0 .. N : g[k] \in W
      /\ \A k \in 0 .. n : g[k + 1] = All(g[k])
  <2> HIDE DEF W, step, first, All
  <2>1. g \in [0 .. N -> W] /\ \A i \in 1 .. N : g[i] = step[<<i, g[i - 1]>>]
    BY <1>6 DEF IsSteps
  <2>2. ASSUME NEW k \in 0 .. n PROVE g[k + 1] = All(g[k])
    <3>1. k + 1 \in 1 .. N /\ (k + 1) - 1 = k /\ k \in 0 .. N /\ k + 1 \in Nat
      BY <1>0
    <3>2. g[k] \in W
      BY <2>1, <3>1
    <3>3. g[k + 1] = step[<<k + 1, g[k]>>]
      BY <2>1, <3>1
    <3> QED BY <1>5, <3>1, <3>2, <3>3
  <2> QED BY <2>1, <2>2
<1> DEFINE Same(k) == \A dir \in U : depth - Len(dir) < k =>
                        \A above \in Listing : g[k + 1][dir][above] = g[k][dir][above]
           K == {k \in Nat : k <= n => Same(k)}
<1>8. ASSUME NEW dir \in U
      PROVE  /\ Len(dir) \in 0 .. depth
             /\ \A d \in Below(root, dir) : d \in U /\ Len(d) = Len(dir) + 1
  BY <1>1, UnderDepth
<1>9. ASSUME NEW k \in 0 .. n, NEW dir \in U, NEW above \in Listing
      PROVE  /\ g[k + 1][dir][above] = ScanDir(g[k], root, dir, on_disk, above)
             /\ \A d \in Below(root, dir) : Adds(g[k], d)
  <2>1. g[k + 1] = All(g[k])
    BY <1>7
  <2>2. \A d \in Below(root, dir) : d \in U
    BY <1>8
  <2>3. k \in 0 .. N
    BY <1>0
  <2>4. g[k] \in W
    BY <1>7, <2>3
  <2> QED BY <2>1, <2>2, <2>4 DEF ScanAll
<1>10. \A k \in 0 .. N : g[k] \in [U -> [Listing -> Listing]]
  BY <1>7
<1> HIDE DEF U, W, All, step, first
<1>11. 0 \in K
  <2>1. \A dir \in U : ~(depth - Len(dir) < 0)
    BY <1>8
  <2> QED BY <2>1
<1>12. ASSUME NEW k \in K PROVE k + 1 \in K
  <2> SUFFICES ASSUME k + 1 <= n, NEW dir \in U, depth - Len(dir) < k + 1,
                      NEW above \in Listing
               PROVE  g[(k + 1) + 1][dir][above] = g[k + 1][dir][above]
    OBVIOUS
  <2> DEFINE j == k + 1
  <2>1. j \in 0 .. n /\ k \in 0 .. n /\ Same(k) /\ k \in Nat /\ j = k + 1
    BY <1>0
  <2> HIDE DEF j
  <2>2. \A d \in Below(root, dir) : \A s \in Listing : g[j][d][s] = g[k][d][s]
    <3> TAKE d \in Below(root, dir)
    <3>1. d \in U /\ depth - Len(d) < k
      BY <1>8, <2>1
    <3> QED BY <2>1, <3>1
  <2>3. \A d \in Below(root, dir) : Adds(g[k], d)
    BY <1>9, <2>1
  <2>4. ScanDir(g[j], root, dir, on_disk, above) = ScanDir(g[k], root, dir, on_disk, above)
    <3> DEFINE late == g[j]
               early == g[k]
    <3>1. dir \in Under(root)
      BY DEF U
    <3>2. /\ \A d \in Below(root, dir) : Adds(early, d)
          /\ \A d \in Below(root, dir) : \A s \in Listing : late[d][s] = early[d][s]
      BY <2>2, <2>3
    <3> HIDE DEF late, early
    <3>3. ScanDir(late, root, dir, on_disk, above) = ScanDir(early, root, dir, on_disk, above)
      BY <3>1, <3>2, ScanDirSame
    <3> QED BY <3>3 DEF late, early
  <2>5. /\ g[j + 1][dir][above] = ScanDir(g[j], root, dir, on_disk, above)
        /\ g[k + 1][dir][above] = ScanDir(g[k], root, dir, on_disk, above)
    BY <1>9, <2>1
  <2> QED BY <2>1, <2>4, <2>5
<1>13. K \in SUBSET Nat
  OBVIOUS
<1>14. n \in K
  <2> HIDE DEF K
  <2> QED BY <1>0, <1>11, <1>12, <1>13, SetInduction
<1>15. \A dir \in U : \A above \in Listing : g[n + 1][dir][above] = g[n][dir][above]
  <2>1. \A dir \in U : depth - Len(dir) < n
    BY <1>0, <1>8
  <2> QED BY <1>0, <1>14, <2>1
<1>16. n \in 0 .. N /\ n + 1 \in 0 .. N /\ n \in 0 .. n
  BY <1>0
<1>17. g[n + 1] = g[n]
  <2> DEFINE L2 == [Listing -> Listing]
  <2>1. g[n] \in [U -> L2] /\ g[n + 1] \in [U -> L2]
    BY <1>10, <1>16
  <2>2. ASSUME NEW dir \in U PROVE g[n + 1][dir] = g[n][dir]
    <3>1. g[n][dir] \in L2 /\ g[n + 1][dir] \in L2
      BY <2>1
    <3> QED BY <1>15, <3>1
  <2> HIDE DEF L2
  <2> QED BY <2>1, <2>2
<1>18. g[n + 1] = ScanAll(g[n], root, on_disk)
  BY <1>7, <1>16 DEF All
<1> QED BY <1>17, <1>18

NothingFound == [files |-> << >>, rules |-> << >>]

LEMMA ScanProjectIs ==
  ASSUME NEW root \in Path, NEW on_disk \in SUBSET Path, IsFiniteSet(on_disk)
  PROVE  \E f : /\ f = ScanAll(f, root, on_disk)
                /\ scan_project(root, on_disk) = f[<< >>][NothingFound].files
<1> DEFINE Def(f) == f = [dir \in {d \in Path : root \o d \in Dirs} |->
                            [above \in Listing |->
                               [FoldLeft(LAMBDA state, name : scan_entry(f, root, dir, state, name),
                                         [above EXCEPT !.rules = @ \o load_gitignore(root, dir, on_disk)],
                                         readdir(root \o dir, on_disk))
                                  EXCEPT !.rules = ignore_list_truncate(@, Len(above.rules))]]]
           scan == CHOOSE f : Def(f)
<1>1. scan_project(root, on_disk) = scan[<< >>][NothingFound].files
  BY DEF scan_project, NothingFound
<1>2. \A f : Def(f) <=> f = ScanAll(f, root, on_disk)
  BY DEF ScanAll, ScanDir, AllEntries, Under, Start
<1>3. Def(scan)
  <2>1. \E f : Def(f)
    <3> HIDE DEF Def
    <3> QED BY <1>2, ScanExists
  <2> HIDE DEF Def
  <2> QED BY <2>1
<1>4. scan = ScanAll(scan, root, on_disk)
  <2> HIDE DEF scan, Def
  <2> QED BY <1>2, <1>3
<1> QED BY <1>1, <1>4

LEMMA ScanAdds ==
  ASSUME NEW root \in Path, NEW on_disk \in SUBSET Path, IsFiniteSet(on_disk),
         NEW f, f = ScanAll(f, root, on_disk)
  PROVE  \A dir \in Under(root) :
           /\ Adds(f, dir)
           /\ \A above \in Listing :
                f[dir][above] = ScanDir(f, root, dir, on_disk, above)
<1>1. PICK depth \in Nat : \A dir \in Dirs : Len(dir) <= depth
  BY DepthBound
<1>2. ASSUME NEW dir \in Under(root), NEW above \in Listing
      PROVE  f[dir][above] = ScanDir(f, root, dir, on_disk, above)
  <2>1. ScanAll(f, root, on_disk)[dir][above] = ScanDir(f, root, dir, on_disk, above)
    BY DEF ScanAll
  <2> QED BY <2>1
<1> DEFINE K == {k \in Nat : \A dir \in Under(root) : depth - Len(dir) < k => Adds(f, dir)}
<1>3. ASSUME NEW dir \in Under(root)
      PROVE  /\ Len(dir) \in 0 .. depth
             /\ \A d \in Below(root, dir) : d \in Under(root) /\ Len(d) = Len(dir) + 1
  BY <1>1, UnderDepth
<1>4. 0 \in K
  <2>1. \A dir \in Under(root) : ~(depth - Len(dir) < 0)
    BY <1>3
  <2> QED BY <2>1
<1>5. ASSUME NEW k \in K PROVE k + 1 \in K
  <2> SUFFICES ASSUME NEW dir \in Under(root), depth - Len(dir) < k + 1
               PROVE  Adds(f, dir)
    OBVIOUS
  <2>1. \A d \in Below(root, dir) : Adds(f, d)
    <3> TAKE d \in Below(root, dir)
    <3>1. d \in Under(root) /\ depth - Len(d) < k
      BY <1>3
    <3> QED BY <3>1
  <2>2. \A above \in Listing :
          ScanDir(f, root, dir, on_disk, above) \in {s \in Listing : s.rules = above.rules}
    BY <2>1, ScanDirAdds
  <2> QED BY <1>2, <2>2 DEF Adds
<1>6. K \in SUBSET Nat
  OBVIOUS
<1>7. depth + 1 \in Nat
  OBVIOUS
<1>8. depth + 1 \in K
  <2> HIDE DEF K
  <2> QED BY <1>4, <1>5, <1>6, <1>7, SetInduction
<1>9. \A dir \in Under(root) : Adds(f, dir)
  <2>1. \A dir \in Under(root) : depth - Len(dir) < depth + 1
    BY <1>3
  <2> QED BY <1>8, <2>1
<1> QED BY <1>2, <1>9

(* A scan lists paths.                                                       *)
LEMMA ScanType ==
  ASSUME NEW root \in Dirs, NEW on_disk \in SUBSET Path, IsFiniteSet(on_disk)
  PROVE  scan_project(root, on_disk) \in Seq(Path)
<1>1. root \in Path
  BY ProjectConstants
<1>2. PICK f : /\ f = ScanAll(f, root, on_disk)
               /\ scan_project(root, on_disk) = f[<< >>][NothingFound].files
  BY <1>1, ScanProjectIs
<1>3. << >> \in Under(root)
  <2>1. root \o << >> = root /\ << >> \in Path
    BY <1>1, ConcatEmptySeq, EmptySeq DEF Path
  <2> QED BY <2>1 DEF Under
<1>4. NothingFound \in Listing
  <2>1. << >> \in Seq(Path) /\ << >> \in Seq(Rule)
    BY EmptySeq
  <2> QED BY <2>1 DEF NothingFound, Listing
<1>5. f[<< >>][NothingFound] \in Listing
  BY <1>1, <1>2, <1>3, <1>4, ScanAdds DEF Adds
<1> QED BY <1>2, <1>5 DEF Listing

-----------------------------------------------------------------------------
(* What is on disk.                                                          *)

DiskInv ==
  /\ present \subseteq Files /\ IsFiniteSet(present)
  /\ file_path = NoFile \/ file_path.path \in Files

(* A key, and whether more of a character may follow it.                     *)
KeyStep ==
  \E key : PressKey(key) /\ (key \in Byte \/ (typing = << >> /\ typing' = << >>))

OtherStep ==
  typing' = typing /\ (Escape \/ MetaP \/ MetaElsewhere \/ Save)

LEMMA NextCases ==
  ASSUME LinesInv, [Next]_vars
  PROVE  KeyStep \/ OtherStep \/ Resize \/ FileRemoved \/ UNCHANGED vars
<1>1. CASE Press
  <2>1. typing = << >>
    BY <1>1 DEF Press
  <2>2. CASE \E key \in Controls \cup (IF meta THEN MetaLetters ELSE {}) :
               PressKey(key) /\ UNCHANGED typing
    BY <2>1, <2>2 DEF KeyStep
  <2>3. CASE \E c \in Characters : PressKey(c[1]) /\ typing' = Tail(c)
    <3>1. PICK c \in Characters : PressKey(c[1]) /\ typing' = Tail(c)
      BY <2>3
    <3>2. c \in Seq(Byte) /\ c # << >>
      BY ModalsConstants
    <3>3. c[1] \in Byte
      BY <3>2
    <3> QED BY <3>1, <3>3 DEF KeyStep
  <2>4. CASE (Escape \/ MetaP \/ MetaElsewhere \/ Save) /\ UNCHANGED typing
    BY <2>4 DEF OtherStep
  <2> QED BY <1>1, <2>2, <2>3, <2>4 DEF Press
<1>2. CASE RestOfCharacter
  <2>1. typing # << >> /\ PressKey(typing[1]) /\ typing \in Seq(Cont)
    BY <1>2 DEF RestOfCharacter, LinesInv
  <2>2. typing[1] \in Byte
    <3>1. typing[1] \in Cont
      BY <2>1
    <3> QED BY <3>1, ByteClasses
  <2> QED BY <2>1, <2>2 DEF KeyStep
<1> QED BY <1>1, <1>2 DEF Next

LEMMA FilesArePaths ==
  /\ Files \in SUBSET Path
  /\ \A path \in Files : Front(path) \in Dirs
BY DEF Files

(* A name typed at the prompt is that of a file.                             *)
LEMMA NamedFiles == \A buf : Named(buf) \subseteq Files
<1> SUFFICES ASSUME NEW buf, NEW path \in Named(buf) PROVE path \in Files
  OBVIOUS
<1>1. PICK dir \in Dirs, k \in DOMAIN buf : path = Append(dir, SubSeq(buf, k, Len(buf)))
  BY DEF Named
<1>2. path \notin Dirs /\ Last(path) \in Name
  BY DEF Named
<1> DEFINE x == SubSeq(buf, k, Len(buf))
           n == Len(dir)
<1>3. dir \in Seq(Name) /\ n \in Nat
  BY ProjectConstants DEF Path
<1>4. /\ path \in Seq(Name \cup {x}) /\ Len(path) = n + 1
      /\ path[n + 1] = x /\ \A i \in 1 .. n : path[i] = dir[i]
  <2> HIDE DEF x
  <2>1. dir \in Seq(Name \cup {x})
    BY <1>3
  <2> QED BY <1>1, <1>3, <2>1, AppendProperties DEF x
<1>5. x \in Name
  <2> HIDE DEF x, n
  <2>1. Last(path) = path[n + 1]
    BY <1>4 DEF Last
  <2> QED BY <1>2, <1>4, <2>1
<1> HIDE DEF x
<1>6. path \in Path
  <2>1. path = Append(dir, x)
    BY <1>1 DEF x
  <2> QED BY <1>3, <1>5, <2>1 DEF Path
<1>7. path # << >>
  BY <1>3, <1>4
<1>8. Front(path) = dir
  <2>1. /\ Front(path) \in Path
        /\ path = Append(Front(path), Last(path))
    BY <1>6, <1>7, PathParts
  <2> DEFINE f == Front(path)
             l == Last(path)
  <2>2. f \in Seq(Name) /\ l \in Name /\ path = Append(f, l)
    BY <1>2, <2>1 DEF Path
  <2> HIDE DEF f, l
  <2>3. Len(f) + 1 = Len(path) /\ \A i \in 1 .. Len(f) : path[i] = f[i]
    BY <2>2, AppendProperties
  <2>4. Len(f) = Len(dir) /\ \A i \in 1 .. Len(f) : f[i] = dir[i]
    <3>1. Len(f) \in Nat
      BY <2>2
    <3>2. Len(f) = n
      BY <1>3, <1>4, <2>3, <3>1
    <3> QED BY <1>4, <2>3, <3>2
  <2>5. f = dir
    BY <1>3, <2>2, <2>4, SeqEqual
  <2> QED BY <2>5 DEF f
<1> QED BY <1>2, <1>6, <1>7, <1>8 DEF Files

LEMMA InitDisk == Init => DiskInv
BY ModalsConstants DEF Init, DiskInv

LEMMA StepDisk ==
  ASSUME LinesInv, DiskInv, [Next]_vars
  PROVE  DiskInv'
<1>1. CASE KeyStep
  <2>1. PICK key : PressKey(key)
    BY <1>1 DEF KeyStep
  <2>2. CASE MetaKey(key)
    BY <2>2 DEF MetaKey, DiskInv
  <2>3. CASE FinderKey(key)
    <3>1. present' = present /\ finder_handle_key(key)
      BY <2>3 DEF FinderKey
    <3>2. CASE FinderClose(key)
      <4>1. file_path' = file_path \/ finder_open_file
        BY <3>2 DEF FinderClose
      <4>2. finder_open_file => \/ file_path' = file_path
                                \/ \E path \in present :
                                     file_path' = [path |-> path, absolute |-> TRUE]
        BY DEF finder_open_file
      <4>3. CASE file_path' = file_path
        BY <3>1, <4>3 DEF DiskInv
      <4>4. ASSUME NEW path \in present, file_path' = [path |-> path, absolute |-> TRUE]
            PROVE  DiskInv'
        <5>1. file_path'.path = path
          BY <4>4
        <5> QED BY <3>1, <5>1 DEF DiskInv
      <4> QED BY <4>1, <4>2, <4>3, <4>4
    <3>3. CASE FinderSelect(key) \/ QueryMove(key) \/ QueryEdit(key)
      <4>1. file_path' = file_path
        BY <3>3 DEF FinderSelect, QueryMove, QueryEdit
      <4> QED BY <3>1, <4>1 DEF DiskInv
    <3> QED BY <3>1, <3>2, <3>3 DEF finder_handle_key
  <2>4. CASE PromptKey(key)
    <3>1. CASE key = "Enter" /\ ~UNCHANGED <<present, file_path>>
      <4>1. PICK path \in Named(prompt.buf) :
              /\ present' = present \cup {path}
              /\ file_path' = [path |-> path, absolute |-> BeginsWith(prompt.buf, Slash)]
        BY <2>4, <3>1 DEF PromptKey, PromptEnter
      <4>2. path \in Files /\ file_path'.path = path
        BY <4>1, NamedFiles
      <4>3. IsFiniteSet(present \cup {path})
        BY FS_AddElement DEF DiskInv
      <4> QED BY <4>1, <4>2, <4>3 DEF DiskInv
    <3>2. CASE UNCHANGED <<present, file_path>>
      BY <3>2 DEF DiskInv
    <3>3. CASE key # "Enter"
      BY <2>4, <3>2, <3>3 DEF PromptKey
    <3> QED BY <3>1, <3>2, <3>3
  <2> QED BY <2>1, <2>2, <2>3, <2>4 DEF PressKey
<1>2. CASE OtherStep
  <2>1. CASE Escape \/ MetaP \/ MetaElsewhere
    BY <2>1 DEF Escape, MetaP, MetaElsewhere, DiskInv
  <2>2. CASE Save
    <3>1. \/ present' = present
          \/ file_path # NoFile /\ present' = present \cup {file_path.path}
      BY <2>2 DEF Save
    <3>2. file_path' = file_path
      BY <2>2 DEF Save
    <3>3. CASE present' = present
      BY <3>2, <3>3 DEF DiskInv
    <3>4. CASE file_path # NoFile /\ present' = present \cup {file_path.path}
      <4>1. IsFiniteSet(present \cup {file_path.path})
        BY FS_AddElement DEF DiskInv
      <4> QED BY <3>2, <3>4, <4>1 DEF DiskInv
    <3> QED BY <3>1, <3>3, <3>4
  <2> QED BY <1>2, <2>1, <2>2 DEF OtherStep
<1>3. CASE FileRemoved
  <2>1. PICK path \in present : present' = present \ {path}
    BY <1>3 DEF FileRemoved
  <2>2. file_path' = file_path
    BY <1>3 DEF FileRemoved
  <2>3. present' \in SUBSET present
    BY <2>1
  <2>4. IsFiniteSet(present')
    BY <2>3, FS_Subset DEF DiskInv
  <2> QED BY <2>2, <2>3, <2>4 DEF DiskInv
<1>4. CASE Resize \/ UNCHANGED vars
  BY <1>4 DEF Resize, vars, DiskInv
<1> QED BY <1>1, <1>2, <1>3, <1>4, NextCases

-----------------------------------------------------------------------------
(* Who is in front.                                                          *)

ModeInv ==
  /\ finder_active \in BOOLEAN /\ prompt_active \in BOOLEAN /\ meta \in BOOLEAN
  /\ typing = << >> \/ finder_active \/ prompt_active

LEMMA InitModes == Init => ModeInv
BY DEF Init, FinderInit, ModeInv

LEMMA StepModes ==
  ASSUME LinesInv, ModeInv, [Next]_vars
  PROVE  ModeInv'
<1>1. CASE KeyStep
  <2>1. PICK key : PressKey(key) /\ (key \in Byte \/ (typing = << >> /\ typing' = << >>))
    BY <1>1 DEF KeyStep
  <2>2. key \in Byte => key \notin {"Enter", "C-g"}
    BY ControlsAreNoText DEF Controls
  <2>3. CASE MetaKey(key)
    <3>1. /\ prompt_active /\ prompt_active' = prompt_active /\ meta' = FALSE
          /\ finder_active' = finder_active
      BY <2>3 DEF MetaKey, finderVars
    <3> QED BY <3>1 DEF ModeInv
  <2>4. CASE FinderKey(key)
    <3>1. finder_active /\ prompt_active' = prompt_active /\ meta' = meta
      BY <2>4 DEF FinderKey, promptVars
    <3>2. \/ finder_active' = finder_active
          \/ finder_active' = FALSE /\ key \in {"C-g", "Enter"}
      BY <2>4 DEF FinderKey, finder_handle_key, FinderClose, FinderSelect,
                  QueryMove, QueryEdit
    <3> QED BY <2>1, <2>2, <3>1, <3>2 DEF ModeInv
  <2>5. CASE PromptKey(key)
    <3>1. prompt_active /\ finder_active' = finder_active /\ meta' = meta
      BY <2>5 DEF PromptKey, finderVars
    <3>2. CASE key \in {"Enter", "C-g"}
      <4>1. prompt_active' = FALSE
        BY <2>5, <3>2 DEF PromptKey, PromptEnter
      <4> QED BY <2>1, <2>2, <3>1, <3>2, <4>1 DEF ModeInv
    <3>3. CASE key \notin {"Enter", "C-g"}
      <4>1. prompt_active' = prompt_active
        BY <2>5, <3>3 DEF PromptKey
      <4> QED BY <3>1, <4>1 DEF ModeInv
    <3> QED BY <3>2, <3>3
  <2> QED BY <2>1, <2>3, <2>4, <2>5 DEF PressKey
<1>2. CASE OtherStep
  <2>0. typing' = typing
    BY <1>2 DEF OtherStep
  <2>1. CASE Escape
    BY <2>0, <2>1 DEF Escape, finderVars, promptVars, ModeInv
  <2>2. CASE MetaP
    <3>1. prompt_active' = prompt_active /\ meta' = FALSE
          /\ (finder_active' = TRUE \/ finder_active' = finder_active)
      BY <2>2 DEF MetaP, promptVars, finder_open, OpenInProject, finderVars
    <3> QED BY <2>0, <3>1 DEF ModeInv
  <2>3. CASE MetaElsewhere
    BY <2>0, <2>3 DEF MetaElsewhere, finderVars, promptVars, ModeInv
  <2>4. CASE Save
    <3>1. /\ ~finder_active /\ ~prompt_active /\ finder_active' = finder_active
          /\ meta' = meta
          /\ prompt_active' = TRUE \/ prompt_active' = prompt_active
      BY <2>4 DEF Save, finderVars, promptVars
    <3> QED BY <2>0, <3>1 DEF ModeInv
  <2> QED BY <1>2, <2>1, <2>2, <2>3, <2>4 DEF OtherStep
<1>3. CASE Resize \/ FileRemoved \/ UNCHANGED vars
  BY <1>3 DEF Resize, FileRemoved, vars, finderVars, promptVars, ModeInv
<1> QED BY <1>1, <1>2, <1>3, NextCases

-----------------------------------------------------------------------------
(* The list.                                                                 *)

ListInv ==
  /\ files \in Seq(Path)
  /\ project_root \in Seq(GitDirs) /\ Len(project_root) <= 1
  /\ matches \in Seq(DOMAIN files)
  /\ selection \in Nat /\ scroll \in 0 .. selection
  /\ matches = << >> \/ selection < Len(matches)
  /\ screen_rows \in ScreenRows
  /\ finder_active => matches = MatchesOf(query.buf, files)

(* What SelectionShown says of a step.                                       *)
ShowsSelection ==
  selection' # selection \/ query'.buf # query.buf
  \/ (finder_active' /\ ~finder_active)
    => SelectionVisible'

LEMMA ListRows ==
  ASSUME screen_rows \in ScreenRows
  PROVE  finder_list_rows \in Nat /\ finder_list_rows >= 1
<1>1. screen_rows \in Nat /\ SCREEN_MARGIN \in Nat /\ MIN_ROWS \in Nat \ {0}
      /\ FINDER_MAX_ROWS \in Nat /\ MIN_ROWS <= FINDER_MAX_ROWS
  BY FinderConstants
<1> QED BY <1>1 DEF finder_list_rows

(* After an update the first match is selected, and shown.                   *)
LEMMA Updated ==
  ASSUME ListInv, NEW pattern \in Line, NEW list \in Seq(Path),
         finder_update_matches(pattern, list), screen_rows' = screen_rows
  PROVE  /\ matches' = MatchesOf(pattern, list)
         /\ matches' \in Seq(DOMAIN list)
         /\ selection' = 0 /\ scroll' = 0
         /\ matches' = << >> \/ 0 < Len(matches')
         /\ SelectionVisible'
<1>1. matches' = MatchesOf(pattern, list) /\ selection' = 0 /\ scroll' = 0
  BY DEF finder_update_matches
<1>2. matches' \in Seq(DOMAIN list)
  <2>1. MatchesOf(pattern, list) \in Seq(DOMAIN list)
    BY MatchesFacts
  <2> QED BY <1>1, <2>1
<1>3. matches' = << >> \/ 0 < Len(matches')
  BY <1>2, EmptySeq
<1>4. finder_list_rows' \in Nat /\ finder_list_rows' >= 1
  <2>1. finder_list_rows' = finder_list_rows
    BY DEF finder_list_rows
  <2> QED BY <2>1, ListRows DEF ListInv
<1>5. SelectionVisible'
  <2> DEFINE rows == finder_list_rows'
  <2>1. Len(matches') \in Nat
    BY <1>2
  <2>2. matches' # << >> => selection' \in 0 .. (Len(matches') - 1)
    BY <1>1, <1>3, <2>1
  <2>3. rows \in Nat /\ rows >= 1
    BY <1>4
  <2>4. scroll' <= selection' /\ selection' < scroll' + rows
    <3> HIDE DEF rows
    <3> QED BY <1>1, <2>3
  <2> QED BY <2>2, <2>4 DEF SelectionVisible, rows
<1> QED BY <1>1, <1>2, <1>3, <1>5

LEMMA TwoNumbers ==
  ASSUME NEW a \in Int, NEW b \in Int
  PROVE  /\ Min({a, b}) = IF a <= b THEN a ELSE b
         /\ Max({a, b}) = IF a >= b THEN a ELSE b
<1>1. ASSUME NEW m \in {a, b}, \A y \in {a, b} : m <= y
      PROVE  Min({a, b}) = m
  <2>1. \A x \in {a, b} : (\A y \in {a, b} : x <= y) => x = m
    BY <1>1
  <2> QED BY <1>1, <2>1 DEF Min
<1>2. ASSUME NEW m \in {a, b}, \A y \in {a, b} : m >= y
      PROVE  Max({a, b}) = m
  <2>1. \A x \in {a, b} : (\A y \in {a, b} : x >= y) => x = m
    BY <1>2
  <2> QED BY <1>2, <2>1 DEF Max
<1>3. Min({a, b}) = IF a <= b THEN a ELSE b
  <2>1. CASE a <= b
    BY <1>1, <2>1
  <2>2. CASE ~(a <= b)
    BY <1>1, <2>2
  <2> QED BY <2>1, <2>2
<1>4. Max({a, b}) = IF a >= b THEN a ELSE b
  <2>1. CASE a >= b
    BY <1>2, <2>1
  <2>2. CASE ~(a >= b)
    BY <1>2, <2>2
  <2> QED BY <2>1, <2>2
<1> QED BY <1>3, <1>4

(* The selection stays in the list, and the list scrolls to it.              *)
LEMMA SelectionMoved ==
  ASSUME ListInv, NEW delta \in Int, finder_move_selection(delta),
         screen_rows' = screen_rows
  PROVE  /\ matches' = matches
         /\ selection' \in Nat /\ scroll' \in 0 .. selection'
         /\ matches = << >> \/ selection' < Len(matches)
         /\ selection' # selection => SelectionVisible'
<1>0. /\ matches \in Seq(DOMAIN files) /\ Len(matches) \in Nat
      /\ selection \in Nat /\ scroll \in 0 .. selection
      /\ matches = << >> \/ selection < Len(matches)
  BY DEF ListInv
<1>1. CASE matches = << >>
  BY <1>0, <1>1 DEF finder_move_selection, listVars
<1>2. CASE matches # << >>
  <2> DEFINE a == selection + delta
             last == Len(matches) - 1
             low == Min({a, last})
             sel == Max({0, low})
             rows == finder_list_rows
  <2>1. selection' = sel /\ finder_adjust_scroll(sel) /\ matches' = matches
    BY <1>2 DEF finder_move_selection
  <2>2. a \in Int /\ last \in Nat /\ last + 1 = Len(matches)
    <3>1. Len(matches) > 0
      BY <1>0, <1>2
    <3> QED BY <1>0, <3>1
  <2>3. rows \in Nat /\ rows >= 1
    BY ListRows DEF ListInv
  <2>4. rows' = rows
    BY DEF finder_list_rows
  <2>5. scroll' = IF sel < scroll THEN sel
                  ELSE IF sel >= scroll + rows THEN sel - rows + 1 ELSE scroll
    BY <2>1 DEF finder_adjust_scroll
  <2> HIDE DEF a, last
  <2>6. low \in Int /\ low <= last
    BY <2>2, TwoNumbers
  <2> HIDE DEF low
  <2>7. sel \in Nat /\ sel <= last
    <3>1. sel = IF 0 >= low THEN 0 ELSE low
      BY <2>6, TwoNumbers
    <3> HIDE DEF sel
    <3> QED BY <2>2, <2>6, <3>1
  <2> HIDE DEF sel, rows
  <2>8. scroll' \in 0 .. sel /\ sel < scroll' + rows
    BY <1>0, <2>3, <2>5, <2>7
  <2>9. sel < Len(matches) /\ sel \in 0 .. (Len(matches) - 1)
    BY <1>0, <2>2, <2>7
  <2>10. scroll' <= selection' /\ selection' < scroll' + rows'
    BY <2>1, <2>4, <2>7, <2>8
  <2>11. SelectionVisible'
    <3>1. selection' \in 0 .. (Len(matches') - 1)
      BY <2>1, <2>9
    <3> QED BY <2>10, <3>1 DEF SelectionVisible, rows
  <2> QED BY <2>1, <2>7, <2>8, <2>9, <2>11
<1> QED BY <1>1, <1>2

(* The finder starts from a directory, and finds one that holds .git.        *)
LEMMA StartsSomewhere == DiskInv => StartDir \in Dirs
BY FilesArePaths, FinderConstants DEF DiskInv, StartDir

LEMMA RootFound ==
  ASSUME NEW dir \in Dirs, HasProjectRoot(dir)
  PROVE  find_project_root(dir) \in GitDirs
<1> DEFINE S == Ancestors(dir) \cap GitDirs
           T == {n \in 0 .. Len(dir) : SubSeq(dir, 1, n) \in GitDirs}
           Nearest(root) == \A other \in S : Len(other) <= Len(root)
<1>1. dir \in Seq(Name) /\ Len(dir) \in Nat
  BY ProjectConstants DEF Path
<1>2. \A n \in 0 .. Len(dir) : Len(SubSeq(dir, 1, n)) = n
  <2> TAKE n \in 0 .. Len(dir)
  <2>1. \A i \in 1 .. n : dir[i] \in Name
    BY <1>1
  <2>2. 1 \in Int /\ n \in Int /\ n <= Len(dir)
    BY <1>1
  <2>3. Len(SubSeq(dir, 1, n)) = IF 1 <= n THEN n - 1 + 1 ELSE 0
    BY <2>1, <2>2, SubSeqProperties
  <2> QED BY <2>2, <2>3
<1>3. T # {} /\ T \in SUBSET (0 .. Len(dir))
  BY DEF HasProjectRoot, Ancestors
<1>4. PICK m \in T : \A n \in T : m >= n
  <2> HIDE DEF T
  <2> QED BY <1>1, <1>3, MaxBelow
<1>5. SubSeq(dir, 1, m) \in S
  BY DEF Ancestors
<1>6. Nearest(SubSeq(dir, 1, m))
  <2> SUFFICES ASSUME NEW other \in S PROVE Len(other) <= Len(SubSeq(dir, 1, m))
    OBVIOUS
  <2>1. PICK n \in 0 .. Len(dir) : other = SubSeq(dir, 1, n)
    BY DEF Ancestors
  <2>2. n \in T /\ m \in 0 .. Len(dir)
    BY <2>1
  <2>3. Len(other) = n /\ Len(SubSeq(dir, 1, m)) = m
    BY <1>2, <2>1, <2>2
  <2> QED BY <1>4, <2>2, <2>3
<1>7. \E root \in S : Nearest(root)
  BY <1>5, <1>6
<1>8. find_project_root(dir) = CHOOSE root \in S : Nearest(root)
  BY DEF find_project_root
<1>9. (CHOOSE root \in S : Nearest(root)) \in S
  <2> HIDE DEF S, Nearest
  <2> QED BY <1>7
<1> QED BY <1>8, <1>9

LEMMA InitList == Init => ListInv
<1>1. << >> \in Seq(Path) /\ << >> \in Seq(GitDirs) /\ << >> \in Seq(DOMAIN << >>)
      /\ Len(<< >>) = 0
  BY EmptySeq
<1> QED BY <1>1 DEF Init, FinderInit, ListInv

(* A step that leaves the list alone, and the text of the query.             *)
LEMMA ListUntouched ==
  ASSUME ListInv, files' = files, project_root' = project_root,
         UNCHANGED listVars, screen_rows' \in ScreenRows,
         query'.buf = query.buf, finder_active' => finder_active
  PROVE  ListInv' /\ ShowsSelection
<1>1. ListInv'
  BY DEF ListInv, listVars
<1> QED BY <1>1 DEF ShowsSelection, listVars

LEMMA OpenedList ==
  ASSUME LinesInv, ListInv, DiskInv, HasProjectRoot(StartDir), OpenInProject,
         screen_rows' = screen_rows
  PROVE  ListInv' /\ ShowsSelection
<1> DEFINE root == find_project_root(StartDir)
           list == IF project_root = <<root>> /\ files # << >>
                     THEN files ELSE scan_project(root, present)
<1>1. /\ project_root' = <<root>> /\ files' = list /\ query' = EmptyInput
      /\ finder_update_matches(<< >>, list)
  BY DEF OpenInProject
<1>2. root \in GitDirs
  BY StartsSomewhere, RootFound
<1>3. scan_project(root, present) \in Seq(Path)
  <2>1. root \in Dirs /\ present \in SUBSET Path /\ IsFiniteSet(present)
    BY <1>2, ProjectConstants, FilesArePaths DEF DiskInv
  <2> HIDE DEF root
  <2> QED BY <2>1, ScanType
<1>4. list \in Seq(Path)
  BY <1>3 DEF ListInv
<1>5. << >> \in Line
  BY EmptySeq DEF Line
<1> HIDE DEF root, list
<1>6. /\ matches' = MatchesOf(<< >>, list)
      /\ matches' \in Seq(DOMAIN list)
      /\ selection' = 0 /\ scroll' = 0
      /\ matches' = << >> \/ 0 < Len(matches')
      /\ SelectionVisible'
  BY <1>1, <1>4, <1>5, Updated
<1>7. query'.buf = << >>
  BY <1>1 DEF EmptyInput
<1>8. <<root>> \in Seq(GitDirs) /\ Len(<<root>>) = 1
  BY <1>2
<1>9. ListInv'
  BY <1>1, <1>4, <1>6, <1>7, <1>8 DEF ListInv
<1> QED BY <1>6, <1>9 DEF ShowsSelection

LEMMA FinderList ==
  ASSUME LinesInv, ListInv, NEW key, finder_handle_key(key), query' \in InputLine,
         screen_rows' = screen_rows
  PROVE  ListInv' /\ ShowsSelection
<1>0. screen_rows' \in ScreenRows
  BY DEF ListInv
<1>1. CASE FinderClose(key)
  <2>1. /\ files' = files /\ project_root' = project_root /\ UNCHANGED listVars
        /\ query'.buf = query.buf /\ finder_active' = FALSE
    BY <1>1 DEF FinderClose
  <2> QED BY <1>0, <2>1, ListUntouched
<1>2. CASE FinderSelect(key)
  <2>1. /\ finder_active' = finder_active /\ query' = query
        /\ project_root' = project_root /\ files' = files
    BY <1>2 DEF FinderSelect
  <2>2. \E delta \in Int : finder_move_selection(delta)
    BY <1>2 DEF FinderSelect
  <2>3. /\ matches' = matches
        /\ selection' \in Nat /\ scroll' \in 0 .. selection'
        /\ matches = << >> \/ selection' < Len(matches)
        /\ selection' # selection => SelectionVisible'
    BY <2>2, SelectionMoved
  <2>4. ListInv'
    BY <1>0, <2>1, <2>3 DEF ListInv
  <2> QED BY <2>1, <2>3, <2>4 DEF ShowsSelection
<1>3. CASE QueryMove(key)
  <2>1. /\ finder_active' = finder_active /\ files' = files
        /\ project_root' = project_root /\ UNCHANGED listVars
    BY <1>3 DEF QueryMove
  <2>2. \E c : query' = [query EXCEPT !.col = c]
    BY <1>3 DEF QueryMove, move_start, move_end, move_prev_char, move_next_char
  <2>3. query'.buf = query.buf
    BY <2>2 DEF LinesInv, InputLine
  <2> QED BY <1>0, <2>1, <2>3, ListUntouched
<1>4. CASE QueryEdit(key)
  <2>1. /\ finder_active' = finder_active /\ files' = files
        /\ project_root' = project_root
        /\ IF query'.buf = query.buf THEN UNCHANGED listVars
           ELSE finder_update_matches(query'.buf, files)
    BY <1>4 DEF QueryEdit
  <2>2. CASE query'.buf = query.buf
    BY <1>0, <2>1, <2>2, ListUntouched
  <2>3. CASE query'.buf # query.buf
    <3> DEFINE pattern == query'.buf
    <3>1. pattern \in Line
      BY InputFields
    <3>2. finder_update_matches(pattern, files)
      BY <2>1, <2>3
    <3>3. files \in Seq(Path)
      BY DEF ListInv
    <3> HIDE DEF pattern
    <3>4. /\ matches' = MatchesOf(pattern, files)
          /\ matches' \in Seq(DOMAIN files)
          /\ selection' = 0 /\ scroll' = 0
          /\ matches' = << >> \/ 0 < Len(matches')
          /\ SelectionVisible'
      BY <3>1, <3>2, <3>3, Updated
    <3>5. ListInv'
      BY <1>0, <2>1, <3>4 DEF ListInv, pattern
    <3> QED BY <3>4, <3>5 DEF ShowsSelection
  <2> QED BY <2>2, <2>3
<1> QED BY <1>1, <1>2, <1>3, <1>4 DEF finder_handle_key

LEMMA StepList ==
  ASSUME LinesInv, DiskInv, ListInv, [Next]_vars
  PROVE  ListInv' /\ ShowsSelection
<1>1. ASSUME UNCHANGED finderVars, screen_rows' \in ScreenRows
      PROVE  ListInv' /\ ShowsSelection
  BY <1>1, ListUntouched DEF finderVars
<1>2. ASSUME UNCHANGED finderVars, screen_rows' = screen_rows
      PROVE  ListInv' /\ ShowsSelection
  BY <1>1, <1>2 DEF ListInv
<1>3. CASE KeyStep
  <2>1. PICK key : PressKey(key)
    BY <1>3 DEF KeyStep
  <2>2. CASE MetaKey(key) \/ PromptKey(key)
    BY <1>2, <2>2 DEF MetaKey, PromptKey
  <2>3. CASE FinderKey(key)
    <3>1. finder_handle_key(key) /\ screen_rows' = screen_rows
      BY <2>3 DEF FinderKey
    <3>2. query' \in InputLine
      BY StepLines DEF LinesInv
    <3> QED BY <3>1, <3>2, FinderList
  <2> QED BY <2>1, <2>2, <2>3 DEF PressKey
<1>4. CASE OtherStep
  <2>1. CASE Escape \/ MetaElsewhere \/ Save
    BY <1>2, <2>1 DEF Escape, MetaElsewhere, Save
  <2>2. CASE MetaP
    <3>1. finder_open /\ screen_rows' = screen_rows
      BY <2>2 DEF MetaP
    <3>2. CASE HasProjectRoot(StartDir)
      BY <3>1, <3>2, OpenedList DEF finder_open
    <3>3. CASE ~HasProjectRoot(StartDir)
      BY <1>2, <3>1, <3>3 DEF finder_open
    <3> QED BY <3>2, <3>3
  <2> QED BY <1>4, <2>1, <2>2 DEF OtherStep
<1>5. CASE Resize
  BY <1>1, <1>5 DEF Resize
<1>6. CASE FileRemoved \/ UNCHANGED vars
  BY <1>2, <1>6 DEF FileRemoved, vars
<1> QED BY <1>3, <1>4, <1>5, <1>6, NextCases

-----------------------------------------------------------------------------
(* Paths and their beginnings.                                               *)

LEMMA PathBeginning ==
  ASSUME NEW path \in Path, NEW n \in 0 .. Len(path)
  PROVE  /\ SubSeq(path, 1, n) \in Path
         /\ Len(SubSeq(path, 1, n)) = n
         /\ \A k \in 1 .. n : SubSeq(path, 1, n)[k] = path[k]
<1>1. path \in Seq(Name) /\ Len(path) \in Nat /\ n \in Nat /\ n <= Len(path)
  BY DEF Path
<1>2. \A i \in 1 .. n : path[i] \in Name
  BY <1>1
<1>3. /\ SubSeq(path, 1, n) \in Seq(Name)
      /\ Len(SubSeq(path, 1, n)) = IF 1 <= n THEN n - 1 + 1 ELSE 0
      /\ \A i \in 1 .. n - 1 + 1 : SubSeq(path, 1, n)[i] = path[1 + i - 1]
  <2>1. 1 \in Int /\ n \in Int
    BY <1>1
  <2> QED BY <1>2, <2>1, SubSeqProperties
<1>4. Len(SubSeq(path, 1, n)) = n /\ \A i \in 1 .. n : SubSeq(path, 1, n)[i] = path[i]
  BY <1>1, <1>3
<1> QED BY <1>3, <1>4 DEF Path

LEMMA SamePaths ==
  ASSUME NEW p \in Path, NEW q \in Path, Len(p) = Len(q),
         \A k \in 1 .. Len(p) : p[k] = q[k]
  PROVE  p = q
BY SeqEqual DEF Path

(* Paths that agree on the first names.                                      *)
LEMMA SameBeginning ==
  ASSUME NEW p \in Path, NEW q \in Path, NEW n \in Nat, n <= Len(p), n <= Len(q),
         \A k \in 1 .. n : p[k] = q[k]
  PROVE  SubSeq(p, 1, n) = SubSeq(q, 1, n)
<1> DEFINE x == SubSeq(p, 1, n)
           y == SubSeq(q, 1, n)
<1>1. n \in 0 .. Len(p) /\ n \in 0 .. Len(q)
  BY DEF Path
<1>2. x \in Path /\ Len(x) = n /\ \A k \in 1 .. n : x[k] = p[k]
  BY <1>1, PathBeginning
<1>3. y \in Path /\ Len(y) = n /\ \A k \in 1 .. n : y[k] = q[k]
  BY <1>1, PathBeginning
<1> HIDE DEF x, y
<1>4. x = y
  BY <1>2, <1>3, SamePaths
<1> QED BY <1>4 DEF x, y

LEMMA WholePath ==
  ASSUME NEW path \in Path
  PROVE  SubSeq(path, 1, Len(path)) = path
<1> DEFINE x == SubSeq(path, 1, Len(path))
<1>1. Len(path) \in 0 .. Len(path)
  BY DEF Path
<1>2. x \in Path /\ Len(x) = Len(path) /\ \A k \in 1 .. Len(path) : x[k] = path[k]
  BY <1>1, PathBeginning
<1> HIDE DEF x
<1>3. x = path
  BY <1>2, SamePaths
<1> QED BY <1>3 DEF x

LEMMA PathJoin ==
  ASSUME NEW root \in Path, NEW rel \in Path
  PROVE  /\ root \o rel \in Path
         /\ Len(root \o rel) = Len(root) + Len(rel)
         /\ \A k \in 1 .. Len(root) : (root \o rel)[k] = root[k]
         /\ \A k \in 1 .. Len(rel) : (root \o rel)[Len(root) + k] = rel[k]
<1>1. root \in Seq(Name) /\ rel \in Seq(Name) /\ Len(root) \in Nat /\ Len(rel) \in Nat
  BY DEF Path
<1> DEFINE all == root \o rel
<1>2. /\ all \in Seq(Name) /\ Len(all) = Len(root) + Len(rel)
      /\ \A k \in 1 .. Len(root) : all[k] = root[k]
      /\ \A k \in Len(root) + 1 .. Len(root) + Len(rel) : all[k] = rel[k - Len(root)]
  BY <1>1, ConcatProperties
<1> HIDE DEF all
<1>3. \A k \in 1 .. Len(rel) : all[Len(root) + k] = rel[k]
  BY <1>1, <1>2
<1> QED BY <1>2, <1>3 DEF all, Path

(* A beginning of what is under root is one of the whole path.               *)
LEMMA JoinBeginning ==
  ASSUME NEW root \in Path, NEW rel \in Path, NEW n \in 0 .. Len(rel)
  PROVE  root \o SubSeq(rel, 1, n) = SubSeq(root \o rel, 1, Len(root) + n)
<1> DEFINE part == SubSeq(rel, 1, n)
           all == root \o rel
           x == root \o part
           m == Len(root) + n
           y == SubSeq(all, 1, m)
<1>0. Len(root) \in Nat /\ Len(rel) \in Nat
  BY DEF Path
<1>1. part \in Path /\ Len(part) = n /\ \A k \in 1 .. n : part[k] = rel[k]
  BY PathBeginning
<1>2. /\ all \in Path /\ Len(all) = Len(root) + Len(rel)
      /\ \A k \in 1 .. Len(root) : all[k] = root[k]
      /\ \A k \in 1 .. Len(rel) : all[Len(root) + k] = rel[k]
  BY PathJoin
<1> HIDE DEF part, all
<1>3. /\ x \in Path /\ Len(x) = Len(root) + n
      /\ \A k \in 1 .. Len(root) : x[k] = root[k]
      /\ \A k \in 1 .. n : x[Len(root) + k] = part[k]
  BY <1>1, PathJoin
<1>4. y \in Path /\ Len(y) = m /\ \A k \in 1 .. m : y[k] = all[k]
  <2>1. m \in 0 .. Len(all)
    BY <1>0, <1>2
  <2> HIDE DEF m
  <2> QED BY <1>2, <2>1, PathBeginning
<1> HIDE DEF x, y
<1>5. \A k \in 1 .. Len(x) : x[k] = y[k]
  <2> TAKE k \in 1 .. Len(x)
  <2>1. CASE k <= Len(root)
    BY <1>0, <1>2, <1>3, <1>4, <2>1
  <2>2. CASE k > Len(root)
    <3>1. PICK i \in 1 .. n : k = Len(root) + i
      <4>1. k - Len(root) \in 1 .. n /\ k = Len(root) + (k - Len(root))
        BY <1>0, <1>3, <2>2
      <4> QED BY <4>1
    <3>2. i \in 1 .. Len(rel) /\ Len(root) + i \in 1 .. m
      BY <1>0, <3>1
    <3>3. x[Len(root) + i] = rel[i] /\ all[Len(root) + i] = rel[i]
      BY <1>1, <1>2, <1>3, <3>1, <3>2
    <3>4. y[Len(root) + i] = all[Len(root) + i]
      BY <1>4, <3>2
    <3> QED BY <3>1, <3>3, <3>4
  <2> QED BY <1>0, <2>1, <2>2
<1>6. x = y
  BY <1>0, <1>3, <1>4, <1>5, SamePaths
<1> QED BY <1>6 DEF x, y, part, all

(* Directories lie in directories.                                           *)
LEMMA UnderUp ==
  ASSUME NEW root \in Path, NEW dir \in Under(root), NEW n \in 0 .. Len(dir)
  PROVE  SubSeq(dir, 1, n) \in Under(root)
<1>1. dir \in Path /\ root \o dir \in Dirs
  BY DEF Under
<1>2. SubSeq(dir, 1, n) \in Path
  BY <1>1, PathBeginning
<1>3. root \o SubSeq(dir, 1, n) = SubSeq(root \o dir, 1, Len(root) + n)
  BY <1>1, JoinBeginning
<1>4. Len(root) + n \in 0 .. Len(root \o dir)
  <2>1. Len(root \o dir) = Len(root) + Len(dir)
    BY <1>1, PathJoin
  <2>2. Len(root) \in Nat /\ Len(dir) \in Nat
    BY <1>1 DEF Path
  <2> QED BY <2>1, <2>2
<1>5. SubSeq(root \o dir, 1, Len(root) + n) \in Dirs
  BY <1>1, <1>4, ProjectConstants
<1> QED BY <1>2, <1>3, <1>5 DEF Under

(* What a file of the project lies in is a directory of it.                  *)
LEMMA FileUp ==
  ASSUME NEW root \in Path, NEW rel \in Path, root \o rel \in Files,
         NEW n \in 0 .. Len(rel), n < Len(rel)
  PROVE  SubSeq(rel, 1, n) \in Under(root)
<1> DEFINE all == root \o rel
           m == Len(root) + n
<1>0. Len(root) \in Nat /\ Len(rel) \in Nat
  BY DEF Path
<1>1. SubSeq(rel, 1, n) \in Path
  BY PathBeginning
<1>2. root \o SubSeq(rel, 1, n) = SubSeq(all, 1, m)
  BY JoinBeginning
<1>3. all \in Path /\ Len(all) = Len(root) + Len(rel) /\ Front(all) \in Dirs
  BY PathJoin DEF Files
<1> HIDE DEF all
<1>4. Front(all) = SubSeq(all, 1, Len(all) - 1)
  BY DEF Front
<1>5. SubSeq(all, 1, Len(all) - 1) \in Path
      /\ Len(SubSeq(all, 1, Len(all) - 1)) = Len(all) - 1
      /\ \A k \in 1 .. Len(all) - 1 : SubSeq(all, 1, Len(all) - 1)[k] = all[k]
  <2> DEFINE j == Len(all) - 1
  <2>1. j \in 0 .. Len(all)
    BY <1>0, <1>3
  <2> HIDE DEF j
  <2>2. SubSeq(all, 1, j) \in Path /\ Len(SubSeq(all, 1, j)) = j
        /\ \A k \in 1 .. j : SubSeq(all, 1, j)[k] = all[k]
    BY <1>3, <2>1, PathBeginning
  <2> QED BY <2>2 DEF j
<1> DEFINE front == Front(all)
<1>6. front \in Path /\ Len(front) = Len(all) - 1
      /\ \A k \in 1 .. Len(all) - 1 : front[k] = all[k]
  BY <1>4, <1>5
<1> HIDE DEF front
<1>7. m \in Nat /\ m <= Len(front) /\ m <= Len(all) /\ m \in 0 .. Len(front)
      /\ \A k \in 1 .. m : front[k] = all[k]
  BY <1>0, <1>3, <1>6
<1> HIDE DEF m
<1>8. SubSeq(front, 1, m) = SubSeq(all, 1, m)
  BY <1>3, <1>6, <1>7, SameBeginning
<1>9. SubSeq(front, 1, m) \in Dirs
  BY <1>3, <1>7, ProjectConstants DEF front
<1> QED BY <1>1, <1>2, <1>8, <1>9 DEF Under, m, all

-----------------------------------------------------------------------------
(* The rules in force.                                                       *)

LEMMA FlattenMore ==
  ASSUME NEW S, NEW seqs \in Seq(Seq(S)), NEW last \in Seq(S)
  PROVE  FlattenSeq(Append(seqs, last)) = FlattenSeq(seqs) \o last
<1> DEFINE n == Len(seqs)
           more == Append(seqs, last)
<1>0. n \in Nat
  OBVIOUS
<1>1. /\ more \in Seq(Seq(S)) /\ Len(more) = n + 1
      /\ \A i \in 1 .. n : more[i] = seqs[i]
      /\ more[n + 1] = last
  <2> DEFINE T == Seq(S)
  <2>1. seqs \in Seq(T) /\ last \in T
    OBVIOUS
  <2> HIDE DEF T
  <2>2. /\ more \in Seq(T) /\ Len(more) = n + 1
        /\ \A i \in 1 .. n : more[i] = seqs[i]
        /\ more[n + 1] = last
    BY <2>1, AppendProperties
  <2> QED BY <2>2 DEF T
<1> HIDE DEF more, n
<1>2. more # << >>
  BY <1>0, <1>1
<1>3. PICK f : /\ FlattenSeq(more) = f[Len(more)]
               /\ \A i \in 1 .. Len(more) :
                    f[i] = IF i = 1 THEN more[i] ELSE f[i - 1] \o more[i]
  BY <1>1, <1>2, FlattenSteps
<1>4. CASE n = 0
  <2>1. FlattenSeq(more) = last
    <3>1. Len(more) = 1 /\ 1 \in 1 .. Len(more)
      BY <1>1, <1>4
    <3>2. f[1] = more[1] /\ more[1] = last
      BY <1>1, <1>3, <1>4, <3>1
    <3> QED BY <1>3, <3>1, <3>2
  <2>2. FlattenSeq(seqs) = seqs /\ seqs = << >>
    BY <1>4, EmptySeq DEF FlattenSeq, n
  <2>3. << >> \o last = last
    BY ConcatEmptySeq
  <2> QED BY <2>1, <2>2, <2>3 DEF more
<1>5. CASE n # 0
  <2>1. seqs # << >>
    BY <1>5 DEF n
  <2>2. PICK g : /\ FlattenSeq(seqs) = g[n]
                 /\ \A i \in 1 .. n :
                      g[i] = IF i = 1 THEN seqs[i] ELSE g[i - 1] \o seqs[i]
    BY <2>1, FlattenSteps DEF n
  <2> DEFINE K == {k \in Nat : k + 1 <= n => f[k + 1] = g[k + 1]}
  <2>3. 0 \in K
    <3>1. 1 \in 1 .. n /\ 1 \in 1 .. Len(more)
      BY <1>0, <1>1, <1>5
    <3>2. f[1] = more[1] /\ g[1] = seqs[1]
      BY <1>3, <2>2, <3>1
    <3> QED BY <1>1, <3>1, <3>2
  <2>4. ASSUME NEW k \in K PROVE k + 1 \in K
    <3> SUFFICES ASSUME k + 2 <= n PROVE f[k + 2] = g[k + 2]
      OBVIOUS
    <3> DEFINE j == k + 2
    <3>1. /\ j \in 1 .. n /\ j \in 1 .. Len(more) /\ j # 1
          /\ f[j - 1] = g[j - 1]
      BY <1>0, <1>1
    <3> HIDE DEF j
    <3>2. f[j] = f[j - 1] \o more[j] /\ g[j] = g[j - 1] \o seqs[j]
      BY <1>3, <2>2, <3>1
    <3>3. more[j] = seqs[j]
      BY <1>1, <3>1
    <3> QED BY <3>1, <3>2, <3>3 DEF j
  <2>5. K \in SUBSET Nat
    OBVIOUS
  <2>6. n - 1 \in Nat
    BY <1>0, <1>5
  <2>7. n - 1 \in K
    <3> HIDE DEF K
    <3> QED BY <2>3, <2>4, <2>5, <2>6, SetInduction
  <2>8. f[n] = g[n]
    BY <1>0, <2>7
  <2>9. f[n + 1] = f[n] \o last
    <3>1. n + 1 \in 1 .. Len(more) /\ n + 1 # 1 /\ (n + 1) - 1 = n
      BY <1>0, <1>1, <1>5
    <3>2. f[n + 1] = f[(n + 1) - 1] \o more[n + 1]
      BY <1>3, <3>1
    <3> QED BY <1>1, <3>1, <3>2
  <2> QED BY <1>1, <1>3, <2>2, <2>8, <2>9 DEF more
<1> QED BY <1>4, <1>5

(* The rules for name number n of the path rel: those of the directories     *)
(* above it, from root down.                                                 *)
RulesFor(root, rel, n, on_disk) ==
  FlattenSeq([k \in 1 .. n |-> load_gitignore(root, SubSeq(rel, 1, k - 1), on_disk)])

LEMMA RulesShared ==
  ASSUME NEW root, NEW on_disk, NEW p \in Path, NEW q \in Path, NEW n \in Nat,
         n <= Len(p) + 1, n <= Len(q) + 1, \A k \in 1 .. n - 1 : p[k] = q[k]
  PROVE  RulesFor(root, p, n, on_disk) = RulesFor(root, q, n, on_disk)
<1>1. ASSUME NEW k \in 1 .. n PROVE SubSeq(p, 1, k - 1) = SubSeq(q, 1, k - 1)
  <2> DEFINE j == k - 1
  <2>1. j \in Nat /\ j <= Len(p) /\ j <= Len(q) /\ \A i \in 1 .. j : p[i] = q[i]
    BY DEF Path
  <2> HIDE DEF j
  <2>2. SubSeq(p, 1, j) = SubSeq(q, 1, j)
    BY <2>1, SameBeginning
  <2> QED BY <2>2 DEF j
<1> QED BY <1>1 DEF RulesFor

(* In a directory its own rules are added to those for the directory.        *)
LEMMA RulesBelow ==
  ASSUME NEW root \in Path, NEW on_disk, NEW dir \in Under(root)
  PROVE  RulesFor(root, dir, Len(dir) + 1, on_disk)
           = RulesFor(root, dir, Len(dir), on_disk) \o load_gitignore(root, dir, on_disk)
<1> DEFINE n == Len(dir)
           load(k) == load_gitignore(root, SubSeq(dir, 1, k - 1), on_disk)
           seqs == [k \in 1 .. n |-> load(k)]
           more == [k \in 1 .. (n + 1) |-> load(k)]
           own == load_gitignore(root, dir, on_disk)
<1>0. dir \in Path /\ n \in Nat
  BY DEF Under, Path
<1>1. \A k \in 1 .. (n + 1) : load(k) \in Seq(Rule)
  <2> TAKE k \in 1 .. (n + 1)
  <2> DEFINE j == k - 1
  <2>1. j \in 0 .. Len(dir)
    BY <1>0
  <2> HIDE DEF j
  <2>2. SubSeq(dir, 1, j) \in Under(root)
    BY <2>1, UnderUp
  <2>3. load_gitignore(root, SubSeq(dir, 1, j), on_disk) \in Seq(Rule)
    BY <2>2, OwnRules
  <2> QED BY <2>3 DEF j
<1>2. load(n + 1) = own
  <2>1. (n + 1) - 1 = n /\ SubSeq(dir, 1, n) = dir
    BY <1>0, WholePath
  <2> QED BY <2>1
<1>3. own \in Seq(Rule)
  BY OwnRules
<1>4. RulesFor(root, dir, n + 1, on_disk) = FlattenSeq(more)
      /\ RulesFor(root, dir, n, on_disk) = FlattenSeq(seqs)
  BY DEF RulesFor
<1> HIDE DEF load, own
<1>5. seqs \in Seq(Seq(Rule)) /\ Len(seqs) = n
  <2> DEFINE R == Seq(Rule)
  <2> HIDE DEF R
  <2>1. seqs \in [1 .. n -> R]
    BY <1>0, <1>1 DEF R
  <2>2. seqs \in Seq(R) /\ Len(seqs) = n
    BY <1>0, <2>1, SeqDef
  <2> QED BY <2>2 DEF R
<1>6. more = Append(seqs, own)
  <2> DEFINE R == Seq(Rule)
             longer == Append(seqs, own)
  <2> HIDE DEF R
  <2>1. more \in [1 .. (n + 1) -> R]
    BY <1>0, <1>1 DEF R
  <2>2. more \in Seq(R) /\ Len(more) = n + 1
    <3>1. n + 1 \in Nat
      BY <1>0
    <3> QED BY <2>1, <3>1, SeqDef
  <2>3. \A k \in 1 .. n : more[k] = load(k) /\ seqs[k] = load(k)
    BY <1>0
  <2>4. more[n + 1] = own
    BY <1>0, <1>2
  <2> HIDE DEF more, seqs
  <2>5. /\ longer \in Seq(R) /\ Len(longer) = n + 1
        /\ \A k \in 1 .. n : longer[k] = seqs[k]
        /\ longer[n + 1] = own
    BY <1>3, <1>5, AppendProperties DEF R
  <2> HIDE DEF longer
  <2>6. \A k \in 1 .. Len(more) : more[k] = longer[k]
    <3> TAKE k \in 1 .. Len(more)
    <3>1. k \in 1 .. n \/ k = n + 1
      BY <1>0, <2>2
    <3> QED BY <2>3, <2>4, <2>5, <3>1
  <2>7. more = longer
    BY <2>2, <2>5, <2>6, SeqEqual
  <2> QED BY <2>7 DEF longer
<1> HIDE DEF more, seqs
<1>7. FlattenSeq(Append(seqs, own)) = FlattenSeq(seqs) \o own
  BY <1>3, <1>5, FlattenMore
<1> QED BY <1>4, <1>6, <1>7 DEF own

-----------------------------------------------------------------------------
(* What a scan should find.                                                  *)

(* Name number n of rel is not that of git's own directory, nor ignored.     *)
Kept(root, rel, n, on_disk) ==
  /\ rel[n] # Git
  /\ ~is_ignored(RulesFor(root, rel, n, on_disk), SubSeq(rel, 1, n),
                 root \o SubSeq(rel, 1, n) \in Dirs)

(* The files below root/dir that nothing from there down ignores, and those  *)
(* of them that the entry name of the directory is or holds.                 *)
FilesBelow(root, dir, on_disk) ==
  {rel \in Path :
     /\ root \o rel \in on_disk
     /\ Len(dir) < Len(rel)
     /\ \A k \in 1 .. Len(dir) : rel[k] = dir[k]
     /\ \A n \in Len(dir) + 1 .. Len(rel) : Kept(root, rel, n, on_disk)}

FilesOf(root, dir, name, on_disk) ==
  {rel \in FilesBelow(root, dir, on_disk) : rel[Len(dir) + 1] = name}

KeepsEntry(root, dir, name, on_disk) ==
  /\ name # Git
  /\ ~is_ignored(RulesFor(root, dir, Len(dir) + 1, on_disk), Append(dir, name),
                 root \o Append(dir, name) \in Dirs)

LEMMA EntryPath ==
  ASSUME NEW dir \in Path, NEW name \in Name
  PROVE  /\ Append(dir, name) \in Path
         /\ Len(Append(dir, name)) = Len(dir) + 1
         /\ \A k \in 1 .. Len(dir) : Append(dir, name)[k] = dir[k]
         /\ Append(dir, name)[Len(dir) + 1] = name
BY AppendProperties DEF Path

(* A path that goes through an entry keeps it if the scan does.              *)
LEMMA KeptEntry ==
  ASSUME NEW root \in Path, NEW dir \in Path, NEW name \in Name, NEW on_disk,
         NEW rel \in Path, Len(dir) < Len(rel),
         \A k \in 1 .. Len(dir) : rel[k] = dir[k],
         rel[Len(dir) + 1] = name
  PROVE  /\ SubSeq(rel, 1, Len(dir) + 1) = Append(dir, name)
         /\ Kept(root, rel, Len(dir) + 1, on_disk) <=> KeepsEntry(root, dir, name, on_disk)
<1> DEFINE path == Append(dir, name)
           m == Len(dir) + 1
<1>0. Len(dir) \in Nat /\ Len(rel) \in Nat /\ m \in Nat /\ m <= Len(rel)
  BY DEF Path
<1>1. /\ path \in Path /\ Len(path) = m
      /\ \A k \in 1 .. Len(dir) : path[k] = dir[k]
      /\ path[m] = name
  BY EntryPath
<1> HIDE DEF path
<1>2. \A k \in 1 .. m : path[k] = rel[k]
  <2> TAKE k \in 1 .. m
  <2>1. k \in 1 .. Len(dir) \/ k = m
    BY <1>0
  <2> QED BY <1>1, <2>1
<1>3. SubSeq(rel, 1, m) = path
  <2> HIDE DEF m
  <2>1. SubSeq(path, 1, m) = SubSeq(rel, 1, m)
    BY <1>0, <1>1, <1>2, SameBeginning
  <2>2. SubSeq(path, 1, Len(path)) = path
    BY <1>1, WholePath
  <2> QED BY <1>1, <2>1, <2>2
<1>4. RulesFor(root, rel, m, on_disk) = RulesFor(root, dir, m, on_disk)
  <2>1. m <= Len(rel) + 1 /\ m <= Len(dir) + 1 /\ \A k \in 1 .. m - 1 : rel[k] = dir[k]
    BY <1>0
  <2> HIDE DEF m
  <2> QED BY <1>0, <2>1, RulesShared
<1> QED BY <1>3, <1>4 DEF Kept, KeepsEntry, path

(* What the entry of a directory contributes, by what it is.                 *)
LEMMA FilesOfIgnored ==
  ASSUME NEW root \in Path, NEW dir \in Path, NEW name \in Name, NEW on_disk,
         ~KeepsEntry(root, dir, name, on_disk)
  PROVE  FilesOf(root, dir, name, on_disk) = {}
<1> SUFFICES ASSUME NEW rel \in FilesOf(root, dir, name, on_disk) PROVE FALSE
  OBVIOUS
<1>1. /\ rel \in Path /\ Len(dir) < Len(rel) /\ rel[Len(dir) + 1] = name
      /\ \A k \in 1 .. Len(dir) : rel[k] = dir[k]
      /\ \A n \in Len(dir) + 1 .. Len(rel) : Kept(root, rel, n, on_disk)
  BY DEF FilesOf, FilesBelow
<1>2. Len(dir) + 1 \in Len(dir) + 1 .. Len(rel)
  BY <1>1 DEF Path
<1>3. Kept(root, rel, Len(dir) + 1, on_disk)
  BY <1>1, <1>2
<1> QED BY <1>1, <1>3, KeptEntry

LEMMA FilesOfDirectory ==
  ASSUME NEW root \in Path, NEW dir \in Path, NEW name \in Name,
         NEW on_disk \in SUBSET Files,
         KeepsEntry(root, dir, name, on_disk), root \o Append(dir, name) \in Dirs
  PROVE  FilesOf(root, dir, name, on_disk) = FilesBelow(root, Append(dir, name), on_disk)
<1> DEFINE path == Append(dir, name)
           m == Len(dir) + 1
<1>0. Len(dir) \in Nat /\ m \in Nat /\ m = Len(dir) + 1
  BY DEF Path
<1>1. /\ path \in Path /\ Len(path) = m
      /\ \A k \in 1 .. Len(dir) : path[k] = dir[k]
      /\ path[m] = name
  BY EntryPath
<1> HIDE DEF path
<1>2. ASSUME NEW rel \in FilesOf(root, dir, name, on_disk)
      PROVE  rel \in FilesBelow(root, path, on_disk)
  <2>1. /\ rel \in Path /\ root \o rel \in on_disk
        /\ Len(dir) < Len(rel) /\ rel[m] = name
        /\ \A k \in 1 .. Len(dir) : rel[k] = dir[k]
        /\ \A n \in m .. Len(rel) : Kept(root, rel, n, on_disk)
    BY DEF FilesOf, FilesBelow
  <2>2. Len(rel) \in Nat
    BY <2>1 DEF Path
  <2>3. SubSeq(rel, 1, m) = path
    BY <2>1, KeptEntry DEF path
  <2>4. Len(rel) # m
    <3> SUFFICES ASSUME Len(rel) = m PROVE FALSE
      OBVIOUS
    <3>1. rel = path
      BY <2>1, <2>3, WholePath
    <3>2. root \o rel \notin Dirs
      BY <2>1 DEF Files
    <3> QED BY <3>1, <3>2 DEF path
  <2>5. Len(path) < Len(rel)
    BY <1>0, <1>1, <2>1, <2>2, <2>4
  <2>6. \A k \in 1 .. Len(path) : rel[k] = path[k]
    <3> TAKE k \in 1 .. Len(path)
    <3>1. k \in 1 .. Len(dir) \/ k = m
      BY <1>0, <1>1
    <3> QED BY <1>1, <2>1, <3>1
  <2>7. \A n \in Len(path) + 1 .. Len(rel) : n \in m .. Len(rel)
    BY <1>0, <1>1, <2>2
  <2>8. \A n \in Len(path) + 1 .. Len(rel) : Kept(root, rel, n, on_disk)
    BY <2>1, <2>7
  <2> QED BY <2>1, <2>5, <2>6, <2>8 DEF FilesBelow
<1>3. ASSUME NEW rel \in FilesBelow(root, path, on_disk)
      PROVE  rel \in FilesOf(root, dir, name, on_disk)
  <2>1. /\ rel \in Path /\ root \o rel \in on_disk
        /\ m < Len(rel)
        /\ \A k \in 1 .. m : rel[k] = path[k]
        /\ \A n \in m + 1 .. Len(rel) : Kept(root, rel, n, on_disk)
    BY <1>1 DEF FilesBelow
  <2>2. Len(rel) \in Nat
    BY <2>1 DEF Path
  <2>3. Len(dir) < Len(rel)
    BY <1>0, <2>1, <2>2
  <2>4. \A k \in 1 .. Len(dir) : rel[k] = dir[k]
    <3> TAKE k \in 1 .. Len(dir)
    <3>1. k \in 1 .. m
      BY <1>0
    <3> QED BY <1>1, <2>1, <3>1
  <2>5. rel[m] = name
    <3>1. m \in 1 .. m
      BY <1>0
    <3> QED BY <1>1, <2>1, <3>1
  <2>6. Kept(root, rel, m, on_disk)
    BY <2>1, <2>3, <2>4, <2>5, KeptEntry
  <2>7. ASSUME NEW n \in m .. Len(rel) PROVE Kept(root, rel, n, on_disk)
    <3>1. n = m \/ n \in m + 1 .. Len(rel)
      BY <1>0, <2>2
    <3> QED BY <2>1, <2>6, <3>1
  <2> QED BY <2>1, <2>3, <2>4, <2>5, <2>7 DEF FilesOf, FilesBelow
<1>4. FilesOf(root, dir, name, on_disk) = FilesBelow(root, path, on_disk)
  BY <1>2, <1>3
<1> QED BY <1>4 DEF path

LEMMA FilesOfFile ==
  ASSUME NEW root \in Path, NEW dir \in Path, NEW name \in Name,
         NEW on_disk \in SUBSET Files,
         KeepsEntry(root, dir, name, on_disk), root \o Append(dir, name) \in on_disk
  PROVE  FilesOf(root, dir, name, on_disk) = {Append(dir, name)}
<1> DEFINE path == Append(dir, name)
           m == Len(dir) + 1
<1>0. Len(dir) \in Nat /\ m \in Nat /\ m = Len(dir) + 1
  BY DEF Path
<1>1. /\ path \in Path /\ Len(path) = m
      /\ \A k \in 1 .. Len(dir) : path[k] = dir[k]
      /\ path[m] = name
  BY EntryPath
<1> HIDE DEF path
<1>2. ASSUME NEW rel \in FilesOf(root, dir, name, on_disk)
      PROVE  rel = path
  <2>1. /\ rel \in Path /\ root \o rel \in on_disk
        /\ Len(dir) < Len(rel) /\ rel[m] = name
        /\ \A k \in 1 .. Len(dir) : rel[k] = dir[k]
    BY DEF FilesOf, FilesBelow
  <2>2. Len(rel) \in Nat
    BY <2>1 DEF Path
  <2>3. SubSeq(rel, 1, m) = path
    BY <2>1, KeptEntry DEF path
  <2>4. Len(rel) = m
    <3> SUFFICES ASSUME Len(rel) # m PROVE FALSE
      OBVIOUS
    <3>1. m < Len(rel) /\ m \in 0 .. Len(rel)
      BY <1>0, <2>1, <2>2
    <3> HIDE DEF m
    <3>2. root \o rel \in Files
      BY <2>1
    <3>3. SubSeq(rel, 1, m) \in Under(root)
      BY <2>1, <3>1, <3>2, FileUp
    <3>4. root \o path \in Dirs
      BY <2>3, <3>3 DEF Under
    <3> QED BY <3>4 DEF path, Files
  <2> QED BY <2>1, <2>3, <2>4, WholePath
<1>3. path \in FilesOf(root, dir, name, on_disk)
  <2>1. Len(dir) < Len(path)
    BY <1>0, <1>1
  <2>2. Kept(root, path, m, on_disk)
    BY <1>1, <2>1, KeptEntry
  <2>3. \A n \in m .. Len(path) : n = m
    BY <1>0, <1>1
  <2>4. \A n \in m .. Len(path) : Kept(root, path, n, on_disk)
    BY <2>2, <2>3
  <2>5. root \o path \in on_disk
    BY DEF path
  <2> QED BY <1>1, <2>1, <2>4, <2>5 DEF FilesOf, FilesBelow
<1>4. FilesOf(root, dir, name, on_disk) = {path}
  BY <1>2, <1>3
<1> QED BY <1>4 DEF path

(* What is below a directory is what its entries contribute.                 *)
LEMMA EntriesAre ==
  ASSUME NEW root \in Path, NEW dir \in Path, NEW on_disk, NEW name \in Name,
         name \in NamesIn(root \o dir, on_disk), on_disk \in SUBSET Path
  PROVE  \/ name = Git
         \/ root \o Append(dir, name) \in on_disk \cup Dirs
<1> SUFFICES ASSUME name # Git PROVE root \o Append(dir, name) \in on_disk \cup Dirs
  OBVIOUS
<1>1. PICK p \in on_disk \cup Dirs : p # << >> /\ Front(p) = root \o dir /\ Last(p) = name
  BY DEF NamesIn
<1>2. p \in Path
  BY <1>1, ProjectConstants
<1>3. p = Append(root \o dir, name)
  BY <1>1, <1>2, PathParts
<1>4. Append(root \o dir, name) = root \o Append(dir, name)
  <2> DEFINE x == Append(root \o dir, name)
             y == root \o Append(dir, name)
             d == root \o dir
             e == Append(dir, name)
  <2>0. Len(root) \in Nat /\ Len(dir) \in Nat
    BY DEF Path
  <2>1. /\ d \in Path /\ Len(d) = Len(root) + Len(dir)
        /\ \A k \in 1 .. Len(root) : d[k] = root[k]
        /\ \A k \in 1 .. Len(dir) : d[Len(root) + k] = dir[k]
    BY PathJoin
  <2>2. /\ e \in Path /\ Len(e) = Len(dir) + 1
        /\ \A k \in 1 .. Len(dir) : e[k] = dir[k]
        /\ e[Len(dir) + 1] = name
    BY EntryPath
  <2> HIDE DEF d, e
  <2>3. /\ x \in Path /\ Len(x) = Len(d) + 1
        /\ \A k \in 1 .. Len(d) : x[k] = d[k]
        /\ x[Len(d) + 1] = name
    BY <2>1, EntryPath DEF d
  <2>4. /\ y \in Path /\ Len(y) = Len(root) + Len(e)
        /\ \A k \in 1 .. Len(root) : y[k] = root[k]
        /\ \A k \in 1 .. Len(e) : y[Len(root) + k] = e[k]
    BY <2>2, PathJoin DEF e
  <2> HIDE DEF x, y
  <2>5. ASSUME NEW k \in 1 .. Len(x) PROVE x[k] = y[k]
    <3>1. CASE k <= Len(root)
      <4>1. k \in 1 .. Len(root) /\ k \in 1 .. Len(d)
        BY <2>0, <2>1, <3>1
      <4> QED BY <2>1, <2>3, <2>4, <4>1
    <3>2. CASE k > Len(root) /\ k <= Len(d)
      <4>1. PICK i \in 1 .. Len(dir) : k = Len(root) + i
        <5>1. k - Len(root) \in 1 .. Len(dir) /\ k = Len(root) + (k - Len(root))
          BY <2>0, <2>1, <3>2
        <5> QED BY <5>1
      <4>2. k \in 1 .. Len(d) /\ i \in 1 .. Len(e)
        BY <2>0, <2>1, <2>2, <4>1
      <4>3. x[k] = d[k] /\ d[Len(root) + i] = dir[i]
        BY <2>1, <2>3, <4>1, <4>2
      <4>4. y[Len(root) + i] = e[i] /\ e[i] = dir[i]
        BY <2>2, <2>4, <4>1, <4>2
      <4> QED BY <4>1, <4>3, <4>4
    <3>3. CASE k > Len(d)
      <4> DEFINE i == Len(dir) + 1
      <4>1. k = Len(d) + 1 /\ k = Len(root) + i /\ i \in 1 .. Len(e)
        <5>1. k \in Int /\ k <= Len(d) + 1 /\ Len(d) = Len(root) + Len(dir)
          BY <2>0, <2>1, <2>3
        <5>2. k = Len(d) + 1 /\ i = Len(e) /\ i \in Nat \ {0}
          BY <2>0, <2>2, <3>3, <5>1
        <5> QED BY <2>0, <5>1, <5>2
      <4>2. x[k] = name /\ e[i] = name
        BY <2>2, <2>3, <4>1
      <4> HIDE DEF i
      <4>3. y[Len(root) + i] = e[i]
        BY <2>4, <4>1
      <4> QED BY <4>1, <4>2, <4>3
    <3> QED BY <2>0, <2>1, <2>3, <3>1, <3>2, <3>3
  <2>6. Len(x) = Len(y)
    BY <2>0, <2>1, <2>2, <2>3, <2>4
  <2>7. x = y
    BY <2>3, <2>4, <2>5, <2>6, SamePaths
  <2> QED BY <2>7 DEF x, y
<1> QED BY <1>1, <1>3, <1>4

LEMMA FilesAreOfEntries ==
  ASSUME NEW root \in Path, NEW dir \in Path, NEW on_disk \in SUBSET Files,
         NEW rel \in FilesBelow(root, dir, on_disk)
  PROVE  rel[Len(dir) + 1] \in NamesIn(root \o dir, on_disk)
<1> DEFINE m == Len(dir) + 1
           name == rel[m]
           path == Append(dir, name)
           p == root \o path
<1>0. Len(dir) \in Nat /\ Len(root) \in Nat
  BY DEF Path
<1>1. /\ rel \in Path /\ root \o rel \in on_disk /\ Len(dir) < Len(rel)
      /\ \A k \in 1 .. Len(dir) : rel[k] = dir[k]
  BY DEF FilesBelow
<1>2. rel \in Seq(Name) /\ Len(rel) \in Nat /\ m \in 1 .. Len(rel) /\ m \in Nat
  BY <1>0, <1>1 DEF Path
<1>3. name \in Name
  BY <1>2
<1>4. SubSeq(rel, 1, m) = path
  <2> HIDE DEF name
  <2> QED BY <1>1, <1>3, KeptEntry DEF name
<1>5. p \in on_disk \cup Dirs
  <2>1. CASE Len(rel) = m
    <3>1. rel = path
      BY <1>1, <1>4, <2>1, WholePath
    <3> QED BY <1>1, <3>1
  <2>2. CASE Len(rel) # m
    <3>1. m \in 0 .. Len(rel) /\ m < Len(rel) /\ root \o rel \in Files
      BY <1>1, <1>2, <2>2
    <3> HIDE DEF m, path
    <3>2. SubSeq(rel, 1, m) \in Under(root)
      BY <1>1, <3>1, FileUp
    <3> QED BY <1>4, <3>2 DEF Under
  <2> QED BY <2>1, <2>2
<1>6. /\ path \in Path /\ Len(path) = m
      /\ \A k \in 1 .. Len(dir) : path[k] = dir[k]
      /\ path[m] = name
  <2> HIDE DEF name
  <2> QED BY <1>3, EntryPath
<1> HIDE DEF name, path
<1>7. /\ p \in Path /\ Len(p) = Len(root) + m
      /\ \A k \in 1 .. Len(path) : p[Len(root) + k] = path[k]
  <2>1. path \in Path
    BY <1>6
  <2>2. /\ p \in Path /\ Len(p) = Len(root) + Len(path)
        /\ \A k \in 1 .. Len(path) : p[Len(root) + k] = path[k]
    BY <2>1, PathJoin
  <2> HIDE DEF p, m
  <2> QED BY <1>6, <2>2
<1>8. p # << >> /\ Last(p) = name
  <2>1. Len(p) # 0 /\ m \in 1 .. Len(path)
    BY <1>0, <1>2, <1>6, <1>7
  <2>2. p[Len(root) + m] = path[m]
    BY <1>7, <2>1
  <2> QED BY <1>6, <1>7, <2>1, <2>2 DEF Last
<1>9. Front(p) = root \o dir
  <2>1. Front(p) = SubSeq(p, 1, Len(p) - 1) /\ Len(p) - 1 = Len(root) + Len(dir)
    BY <1>0, <1>7 DEF Front
  <2>2. Len(dir) \in 0 .. Len(path)
    BY <1>0, <1>6
  <2>3. root \o SubSeq(path, 1, Len(dir)) = SubSeq(p, 1, Len(root) + Len(dir))
    BY <1>6, <2>2, JoinBeginning
  <2>4. SubSeq(path, 1, Len(dir)) = dir
    <3>1. Len(dir) <= Len(path) /\ Len(dir) <= Len(dir)
      BY <1>0, <1>6
    <3>2. SubSeq(path, 1, Len(dir)) = SubSeq(dir, 1, Len(dir))
      BY <1>0, <1>6, <3>1, SameBeginning
    <3> QED BY <3>2, WholePath
  <2> QED BY <2>1, <2>3, <2>4
<1>10. name \in NamesIn(root \o dir, on_disk)
  <2> HIDE DEF p
  <2> QED BY <1>5, <1>8, <1>9 DEF NamesIn
<1> QED BY <1>10 DEF name

-----------------------------------------------------------------------------
(* A scan finds that, and each file once.                                    *)

(* new lists what old does and the elements of S, none of them twice.        *)
Collects(old, new, S) ==
  /\ Range(new) = Range(old) \cup S
  /\ IsInjective(old) /\ Range(old) \cap S = {} => IsInjective(new)

LEMMA CollectsNothing ==
  ASSUME NEW old
  PROVE  Collects(old, old, {})
BY DEF Collects

LEMMA CollectsMore ==
  ASSUME NEW old, NEW mid, NEW new, NEW S, NEW T,
         Collects(old, mid, S), Collects(mid, new, T), S \cap T = {}
  PROVE  Collects(old, new, S \cup T)
<1> DEFINE R == Range(old)
           M == Range(mid)
           N == Range(new)
<1>1. M = R \cup S /\ N = M \cup T
  BY DEF Collects
<1>2. ASSUME IsInjective(old), R \cap (S \cup T) = {} PROVE IsInjective(new)
  <2>1. R \cap S = {} /\ M \cap T = {}
    BY <1>1, <1>2
  <2>2. IsInjective(mid)
    BY <1>2, <2>1 DEF Collects
  <2> QED BY <2>1, <2>2 DEF Collects
<1>3. N = R \cup (S \cup T)
  BY <1>1
<1> QED BY <1>2, <1>3 DEF Collects

LEMMA CollectsOne ==
  ASSUME NEW list \in Seq(Path), NEW path \in Path
  PROVE  Collects(list, Append(list, path), {path})
<1> DEFINE new == Append(list, path)
           n == Len(list)
<1>0. n \in Nat /\ DOMAIN list = 1 .. n
  OBVIOUS
<1>1. /\ new \in Seq(Path) /\ Len(new) = n + 1
      /\ \A k \in 1 .. n : new[k] = list[k]
      /\ new[n + 1] = path
  BY AppendProperties
<1>2. DOMAIN new = 1 .. (n + 1)
  BY <1>0, <1>1
<1> HIDE DEF new, n
<1>3. Range(new) = Range(list) \cup {path}
  <2>1. ASSUME NEW x \in Range(new) PROVE x \in Range(list) \cup {path}
    <3>1. PICK k \in 1 .. (n + 1) : x = new[k]
      BY <1>2 DEF Range
    <3>2. k \in 1 .. n \/ k = n + 1
      BY <1>0
    <3> QED BY <1>0, <1>1, <3>1, <3>2 DEF Range
  <2>2. ASSUME NEW x \in Range(list) PROVE x \in Range(new)
    <3>1. PICK k \in 1 .. n : x = list[k]
      BY <1>0 DEF Range
    <3>2. k \in 1 .. (n + 1) /\ x = new[k]
      BY <1>0, <1>1, <3>1
    <3> QED BY <1>2, <3>2 DEF Range
  <2>3. path \in Range(new)
    <3>1. n + 1 \in 1 .. (n + 1)
      BY <1>0
    <3> QED BY <1>1, <1>2, <3>1 DEF Range
  <2> QED BY <2>1, <2>2, <2>3
<1>4. ASSUME IsInjective(list), Range(list) \cap {path} = {} PROVE IsInjective(new)
  <2>1. \A k \in 1 .. n : list[k] # path
    BY <1>0, <1>4 DEF Range
  <2>2. \A a, b \in 1 .. n : list[a] = list[b] => a = b
    BY <1>0, <1>4 DEF IsInjective
  <2>3. ASSUME NEW a \in 1 .. (n + 1), NEW b \in 1 .. (n + 1), new[a] = new[b]
        PROVE  a = b
    <3>1. (a \in 1 .. n \/ a = n + 1) /\ (b \in 1 .. n \/ b = n + 1)
      BY <1>0
    <3> QED BY <1>1, <2>1, <2>2, <2>3, <3>1
  <2> QED BY <1>2, <2>3 DEF IsInjective
<1> QED BY <1>3, <1>4 DEF Collects, new

(* A scan of root/dir adds the files below it.                               *)
Gathers(g, root, dir, on_disk) ==
  \A state \in Listing :
    state.rules = RulesFor(root, dir, Len(dir), on_disk) =>
      Collects(state.files, g[dir][state].files, FilesBelow(root, dir, on_disk))

LEMMA EntryGathers ==
  ASSUME NEW root \in Path, NEW dir \in Under(root), NEW g,
         NEW on_disk \in SUBSET Files,
         \A d \in Below(root, dir) : Gathers(g, root, d, on_disk),
         NEW state \in Listing, NEW name \in Name,
         state.rules = RulesFor(root, dir, Len(dir) + 1, on_disk),
         name \in NamesIn(root \o dir, on_disk)
  PROVE  Collects(state.files, scan_entry(g, root, dir, state, name).files,
                  FilesOf(root, dir, name, on_disk))
<1> DEFINE path == Append(dir, name)
           entry == scan_entry(g, root, dir, state, name)
           is_dir == root \o path \in Dirs
           S == FilesOf(root, dir, name, on_disk)
<1>1. dir \in Path /\ path \in Path /\ Len(path) = Len(dir) + 1
      /\ \A k \in 1 .. Len(dir) : path[k] = dir[k]
  BY EntryPath DEF Under
<1>2. KeepsEntry(root, dir, name, on_disk)
        <=> ~(name = Git \/ is_ignored(state.rules, path, is_dir))
  BY DEF KeepsEntry
<1>3. entry = IF name = Git \/ is_ignored(state.rules, path, is_dir) THEN state
              ELSE IF is_dir THEN g[path][state]
              ELSE [state EXCEPT !.files = Append(@, path)]
  BY DEF scan_entry
<1> HIDE DEF entry, S
<1>4. CASE ~KeepsEntry(root, dir, name, on_disk)
  <2>1. S = {}
    BY <1>1, <1>4, FilesOfIgnored DEF S
  <2>2. entry = state
    BY <1>2, <1>3, <1>4
  <2> QED BY <2>1, <2>2, CollectsNothing DEF S, entry
<1>5. CASE KeepsEntry(root, dir, name, on_disk) /\ is_dir
  <2>1. S = FilesBelow(root, path, on_disk)
    BY <1>1, <1>5, FilesOfDirectory DEF S
  <2>2. entry = g[path][state]
    BY <1>2, <1>3, <1>5
  <2>3. path \in Below(root, dir)
    BY <1>1, <1>5 DEF Below, Under
  <2>4. state.rules = RulesFor(root, path, Len(path), on_disk)
    <3> HIDE DEF path
    <3> DEFINE m == Len(dir) + 1
    <3>1. /\ m \in Nat /\ m <= Len(dir) + 1 /\ m <= Len(path) + 1
          /\ \A k \in 1 .. m - 1 : dir[k] = path[k]
      BY <1>1 DEF Path
    <3>2. Len(path) = m
      BY <1>1
    <3> HIDE DEF m
    <3>3. RulesFor(root, dir, m, on_disk) = RulesFor(root, path, m, on_disk)
      BY <1>1, <3>1, RulesShared
    <3> QED BY <3>2, <3>3 DEF m
  <2> HIDE DEF path
  <2>5. Collects(state.files, g[path][state].files, FilesBelow(root, path, on_disk))
    BY <2>3, <2>4 DEF Gathers
  <2> QED BY <2>1, <2>2, <2>5 DEF S, entry
<1>6. CASE KeepsEntry(root, dir, name, on_disk) /\ ~is_dir
  <2>1. root \o path \in on_disk
    <3>1. on_disk \in SUBSET Path
      BY DEF Files
    <3>2. name # Git
      BY <1>6 DEF KeepsEntry
    <3> QED BY <1>1, <1>6, <3>1, <3>2, EntriesAre
  <2>2. S = {path}
    BY <1>1, <1>6, <2>1, FilesOfFile DEF S
  <2> DEFINE more == Append(state.files, path)
  <2>3. entry = [state EXCEPT !.files = more]
    BY <1>2, <1>3, <1>6
  <2>4. state.files \in Seq(Path)
    BY DEF Listing
  <2>5. Collects(state.files, more, {path})
    <3> HIDE DEF path
    <3> QED BY <1>1, <2>4, CollectsOne
  <2> HIDE DEF more
  <2>6. entry.files = more
    BY <2>3 DEF Listing
  <2> QED BY <2>2, <2>5, <2>6 DEF S, entry
<1> QED BY <1>4, <1>5, <1>6

LEMMA ScanDirGathers ==
  ASSUME NEW root \in Path, NEW dir \in Under(root), NEW g,
         NEW on_disk \in SUBSET Files, IsFiniteSet(on_disk),
         \A d \in Below(root, dir) : Adds(g, d) /\ Gathers(g, root, d, on_disk),
         NEW above \in Listing,
         above.rules = RulesFor(root, dir, Len(dir), on_disk)
  PROVE  Collects(above.files, ScanDir(g, root, dir, on_disk, above).files,
                  FilesBelow(root, dir, on_disk))
<1> DEFINE start == Start(root, dir, on_disk, above)
           names == readdir(root \o dir, on_disk)
           N == NamesIn(root \o dir, on_disk)
           F == FilesBelow(root, dir, on_disk)
           m == Len(dir) + 1
<1>0. on_disk \in SUBSET Path /\ dir \in Path
  BY DEF Files, Under
<1>1. /\ start \in Listing
      /\ start.files = above.files
      /\ start.rules = RulesFor(root, dir, m, on_disk)
  <2>1. /\ start \in Listing /\ start.files = above.files
        /\ start.rules = above.rules \o load_gitignore(root, dir, on_disk)
    BY StartType
  <2> QED BY <2>1, RulesBelow
<1>2. PICK h : /\ Entries(h, g, root, dir, start, names)
               /\ ScanDir(g, root, dir, on_disk, above)
                    = [files |-> h[Len(names)].files, rules |-> above.rules]
  <2>1. \A d \in Below(root, dir) : Adds(g, d)
    OBVIOUS
  <2> QED BY <1>0, <2>1, ScanDirIs
<1>3. N \in SUBSET Name /\ Lists(names, N)
  BY <1>0, NamesListed
<1>4. \A rel \in F : rel[m] \in N
  BY <1>0, FilesAreOfEntries
<1> HIDE DEF start, names, N, F, m
<1>5. /\ names \in Seq(N) /\ Len(names) \in Nat
      /\ \A i \in 1 .. Len(names) : names[i] \in N /\ names[i] \in Name
  BY <1>3 DEF Lists
<1> DEFINE S(i) == {rel \in F : \E j \in 1 .. i : rel[m] = names[j]}
           K == {i \in Nat : i <= Len(names) => Collects(above.files, h[i].files, S(i))}
<1>6. 0 \in K
  <2>1. S(0) = {}
    OBVIOUS
  <2>2. h[0] = start
    BY <1>2 DEF Entries
  <2>3. Collects(above.files, h[0].files, S(0))
    BY <1>1, <2>1, <2>2, CollectsNothing
  <2> QED BY <2>3
<1>7. ASSUME NEW i \in K PROVE i + 1 \in K
  <2> DEFINE j == i + 1
             name == names[j]
             T == FilesOf(root, dir, name, on_disk)
  <2> SUFFICES ASSUME j <= Len(names) PROVE Collects(above.files, h[j].files, S(j))
    BY DEF K
  <2>1. j \in 1 .. Len(names) /\ i \in 0 .. Len(names) /\ j - 1 = i /\ i \in Nat
    BY <1>5
  <2>2. Collects(above.files, h[i].files, S(i))
    BY <2>1
  <2>3. name \in N /\ name \in Name
    BY <1>5, <2>1
  <2>4. h[i] \in Listing /\ h[i].rules = start.rules
    BY <1>2, <2>1 DEF Entries
  <2>5. h[j] = scan_entry(g, root, dir, h[i], name)
    BY <1>2, <2>1 DEF Entries
  <2>6. T = {rel \in F : rel[m] = name}
    BY DEF FilesOf, F, m
  <2>7. S(j) = S(i) \cup T
    <3> HIDE DEF T, name, j
    <3>1. \A k \in 1 .. j : k \in 1 .. i \/ k = j
      BY <2>1 DEF j
    <3>2. \A k \in 1 .. i : k \in 1 .. j
      BY <2>1 DEF j
    <3>3. j \in 1 .. j
      BY <2>1
    <3> QED BY <2>6, <3>1, <3>2, <3>3 DEF name
  <2>8. S(i) \cap T = {}
    <3> SUFFICES ASSUME NEW rel \in S(i), rel \in T PROVE FALSE
      OBVIOUS
    <3>1. PICK k \in 1 .. i : rel[m] = names[k]
      OBVIOUS
    <3>2. names[k] = names[j]
      BY <2>6, <3>1
    <3>3. k \in 1 .. Len(names) /\ k # j
      BY <1>5, <2>1
    <3> QED BY <1>3, <2>1, <3>2, <3>3 DEF Lists
  <2> HIDE DEF S, T, name, j
  <2>9. Collects(h[i].files, scan_entry(g, root, dir, h[i], name).files, T)
    <3> DEFINE state == h[i]
    <3>1. state \in Listing /\ state.rules = RulesFor(root, dir, Len(dir) + 1, on_disk)
      BY <1>1, <2>4 DEF m
    <3> HIDE DEF state
    <3>2. Collects(state.files, scan_entry(g, root, dir, state, name).files,
                   FilesOf(root, dir, name, on_disk))
      BY <2>3, <3>1, EntryGathers DEF N
    <3> QED BY <3>2 DEF state, T
  <2>10. Collects(h[i].files, h[j].files, T)
    BY <2>5, <2>9
  <2> QED BY <2>2, <2>7, <2>8, <2>10, CollectsMore
<1>8. K \in SUBSET Nat
  OBVIOUS
<1>9. Len(names) \in K
  <2> HIDE DEF K
  <2> QED BY <1>5, <1>6, <1>7, <1>8, SetInduction
<1>10. Collects(above.files, h[Len(names)].files, S(Len(names)))
  BY <1>5, <1>9
<1>11. S(Len(names)) = F
  BY <1>3, <1>4 DEF Lists
<1>12. ScanDir(g, root, dir, on_disk, above).files = h[Len(names)].files
  BY <1>2
<1> QED BY <1>10, <1>11, <1>12 DEF F

LEMMA ScanGathers ==
  ASSUME NEW root \in Path, NEW on_disk \in SUBSET Files, IsFiniteSet(on_disk),
         NEW f, f = ScanAll(f, root, on_disk)
  PROVE  \A dir \in Under(root) : Gathers(f, root, dir, on_disk)
<1>0. on_disk \in SUBSET Path
  BY DEF Files
<1>1. PICK depth \in Nat : \A dir \in Dirs : Len(dir) <= depth
  BY DepthBound
<1>2. \A dir \in Under(root) :
        /\ Adds(f, dir)
        /\ \A above \in Listing :
             f[dir][above] = ScanDir(f, root, dir, on_disk, above)
  BY <1>0, ScanAdds
<1>3. ASSUME NEW dir \in Under(root)
      PROVE  /\ Len(dir) \in 0 .. depth
             /\ \A d \in Below(root, dir) : d \in Under(root) /\ Len(d) = Len(dir) + 1
  BY <1>1, UnderDepth
<1> DEFINE K == {k \in Nat : \A dir \in Under(root) :
                   depth - Len(dir) < k => Gathers(f, root, dir, on_disk)}
<1>4. 0 \in K
  <2>1. \A dir \in Under(root) : ~(depth - Len(dir) < 0)
    BY <1>3
  <2> QED BY <2>1
<1>5. ASSUME NEW k \in K PROVE k + 1 \in K
  <2> SUFFICES ASSUME NEW dir \in Under(root), depth - Len(dir) < k + 1
               PROVE  Gathers(f, root, dir, on_disk)
    OBVIOUS
  <2>1. \A d \in Below(root, dir) : Adds(f, d) /\ Gathers(f, root, d, on_disk)
    <3> TAKE d \in Below(root, dir)
    <3>1. d \in Under(root) /\ depth - Len(d) < k
      BY <1>3
    <3> QED BY <1>2, <3>1
  <2>2. ASSUME NEW above \in Listing,
               above.rules = RulesFor(root, dir, Len(dir), on_disk)
        PROVE  Collects(above.files, f[dir][above].files, FilesBelow(root, dir, on_disk))
    <3>1. Collects(above.files, ScanDir(f, root, dir, on_disk, above).files,
                   FilesBelow(root, dir, on_disk))
      BY <2>1, <2>2, ScanDirGathers
    <3>2. f[dir][above] = ScanDir(f, root, dir, on_disk, above)
      BY <1>2
    <3> QED BY <3>1, <3>2
  <2> QED BY <2>2 DEF Gathers
<1>6. K \in SUBSET Nat
  OBVIOUS
<1>7. depth + 1 \in Nat
  OBVIOUS
<1>8. depth + 1 \in K
  <2> HIDE DEF K
  <2> QED BY <1>4, <1>5, <1>6, <1>7, SetInduction
<1> QED
  <2>1. \A dir \in Under(root) : depth - Len(dir) < depth + 1
    BY <1>3
  <2> QED BY <1>8, <2>1

(* What scan_project returns.                                                *)
LEMMA ScanFinds ==
  ASSUME NEW root \in Dirs, NEW on_disk \in SUBSET Files, IsFiniteSet(on_disk)
  PROVE  /\ Range(scan_project(root, on_disk)) = FilesBelow(root, << >>, on_disk)
         /\ IsInjective(scan_project(root, on_disk))
<1> DEFINE none == << >>
           list == scan_project(root, on_disk)
<1>1. root \in Path /\ on_disk \in SUBSET Path
  BY ProjectConstants DEF Files
<1>2. PICK f : /\ f = ScanAll(f, root, on_disk)
               /\ scan_project(root, on_disk) = f[<< >>][NothingFound].files
  BY <1>1, ScanProjectIs
<1>3. << >> \in Under(root)
  <2>1. root \o << >> = root /\ << >> \in Path
    BY <1>1, ConcatEmptySeq, EmptySeq DEF Path
  <2> QED BY <2>1 DEF Under
<1>4. NothingFound \in Listing /\ NothingFound.files = none
  <2>1. << >> \in Seq(Path) /\ << >> \in Seq(Rule)
    BY EmptySeq
  <2> QED BY <2>1 DEF NothingFound, Listing
<1>5. NothingFound.rules = RulesFor(root, none, Len(none), on_disk)
  <2>1. Len(none) = 0
    BY EmptySeq
  <2> DEFINE seqs == [k \in 1 .. 0 |-> load_gitignore(root, SubSeq(none, 1, k - 1), on_disk)]
  <2>2. RulesFor(root, none, Len(none), on_disk) = FlattenSeq(seqs)
    BY <2>1 DEF RulesFor
  <2>3. seqs = << >>
    OBVIOUS
  <2> HIDE DEF seqs
  <2>4. FlattenSeq(seqs) = << >>
    BY <2>3, EmptySeq DEF FlattenSeq
  <2> QED BY <2>2, <2>4 DEF NothingFound
<1>6. Gathers(f, root, none, on_disk)
  BY <1>1, <1>2, <1>3, ScanGathers
<1>7. Collects(none, list, FilesBelow(root, none, on_disk))
  <2>1. Collects(NothingFound.files, f[none][NothingFound].files,
                 FilesBelow(root, none, on_disk))
    <3> HIDE DEF none
    <3> QED BY <1>4, <1>5, <1>6 DEF Gathers
  <2> QED BY <1>2, <1>4, <2>1
<1>8. Range(none) = {} /\ IsInjective(none)
  <2>1. DOMAIN none = {}
    OBVIOUS
  <2> HIDE DEF none
  <2> QED BY <2>1 DEF Range, IsInjective
<1> HIDE DEF none, list
<1> QED BY <1>7, <1>8 DEF Collects, none, list

-----------------------------------------------------------------------------
(* The list is that of the project's files.                                  *)

(* The files below root, as ListingRight has them.                           *)
LEMMA OfferedFiles ==
  ASSUME NEW root \in Dirs, present \in SUBSET Files
  PROVE  FilesBelow(root, << >>, present)
           = {rel \in {SubSeq(path, Len(root) + 1, Len(path)) :
                         path \in {p \in present : IsPrefix(root, p)}} :
                Offered(root, rel)}
<1> DEFINE Rel(path) == SubSeq(path, Len(root) + 1, Len(path))
           S == {Rel(path) : path \in {p \in present : IsPrefix(root, p)}}
           F == FilesBelow(root, << >>, present)
<1>0. root \in Path /\ Len(root) \in Nat /\ Len(<< >>) = 0
  BY ProjectConstants, EmptySeq DEF Path
<1>1. \A rel : Offered(root, rel) <=> \A n \in 1 .. Len(rel) : Kept(root, rel, n, present)
  BY DEF Offered, Kept, RulesFor
<1>2. F = {rel \in Path : /\ root \o rel \in present /\ 0 < Len(rel)
                          /\ \A n \in 0 + 1 .. Len(rel) : Kept(root, rel, n, present)}
  BY <1>0 DEF FilesBelow
<1>3. \A rel \in Path : rel \in F <=> /\ root \o rel \in present /\ 0 < Len(rel)
                                      /\ Offered(root, rel)
  <2>1. 0 + 1 = 1
    OBVIOUS
  <2> HIDE DEF F
  <2> QED BY <1>1, <1>2, <2>1
<1>4. ASSUME NEW path \in Path, IsPrefix(root, path)
      PROVE  Rel(path) \in Path /\ root \o Rel(path) = path
             /\ Len(path) = Len(root) + Len(Rel(path))
  <2> DEFINE a == Len(root) + 1
             b == Len(path)
             rel == SubSeq(path, a, b)
             all == root \o rel
  <2>1. path \in Seq(Name) /\ b \in Nat /\ Len(root) <= b
    BY <1>4 DEF Path, IsPrefix
  <2>2. a \in Int /\ b \in Int /\ \A i \in a .. b : path[i] \in Name
    BY <1>0, <2>1
  <2>3. /\ rel \in Seq(Name) /\ Len(rel) = IF a <= b THEN b - a + 1 ELSE 0
        /\ \A i \in 1 .. b - a + 1 : rel[i] = path[a + i - 1]
    <3> HIDE DEF a, b
    <3> QED BY <2>2, SubSeqProperties
  <2>4. rel \in Path /\ Len(rel) = b - Len(root)
        /\ \A i \in 1 .. Len(rel) : rel[i] = path[Len(root) + i]
    <3>1. rel \in Path
      BY <2>3 DEF Path
    <3> HIDE DEF rel
    <3>2. Len(rel) = b - Len(root)
      BY <1>0, <2>1, <2>3
    <3>3. ASSUME NEW i \in 1 .. Len(rel) PROVE rel[i] = path[Len(root) + i]
      <4>1. i \in 1 .. b - a + 1 /\ a + i - 1 = Len(root) + i
        BY <1>0, <2>1, <3>2
      <4>2. rel[i] = path[a + i - 1]
        BY <2>3, <4>1
      <4> QED BY <4>1, <4>2
    <3> QED BY <3>1, <3>2, <3>3
  <2> HIDE DEF rel
  <2>5. /\ all \in Path /\ Len(all) = Len(root) + Len(rel)
        /\ \A k \in 1 .. Len(root) : all[k] = root[k]
        /\ \A k \in 1 .. Len(rel) : all[Len(root) + k] = rel[k]
    BY <1>0, <2>4, PathJoin
  <2>6. \A k \in 1 .. Len(root) : root[k] = path[k]
    <3>1. SubSeq(root, 1, Len(root)) = SubSeq(path, 1, Len(root))
      BY <1>4 DEF IsPrefix
    <3>2. SubSeq(root, 1, Len(root)) = root
      BY <1>0, WholePath
    <3>3. Len(root) \in 0 .. Len(path)
      BY <1>0, <2>1
    <3>4. \A k \in 1 .. Len(root) : SubSeq(path, 1, Len(root))[k] = path[k]
      BY <3>3, PathBeginning
    <3> QED BY <3>1, <3>2, <3>4
  <2> HIDE DEF all
  <2>7. \A k \in 1 .. Len(all) : all[k] = path[k]
    <3> TAKE k \in 1 .. Len(all)
    <3>0. Len(all) = b /\ Len(rel) \in Nat
      BY <1>0, <2>1, <2>4, <2>5
    <3>1. CASE k <= Len(root)
      <4>1. k \in 1 .. Len(root)
        BY <1>0, <3>0, <2>1, <3>1
      <4> QED BY <2>5, <2>6, <4>1
    <3>2. CASE k > Len(root)
      <4> DEFINE i == k - Len(root)
      <4>1. i \in 1 .. Len(rel) /\ k = Len(root) + i
        BY <1>0, <2>1, <2>4, <3>0, <3>2
      <4> HIDE DEF i
      <4> QED BY <2>4, <2>5, <4>1
    <3> QED BY <1>0, <2>1, <3>0, <3>1, <3>2
  <2>8. all = path
    <3>1. Len(all) = Len(path)
      BY <1>0, <2>1, <2>4, <2>5
    <3> QED BY <2>5, <2>7, <3>1, SamePaths
  <2>9. Len(path) = Len(root) + Len(rel)
    BY <1>0, <2>1, <2>4
  <2> QED BY <2>4, <2>8, <2>9 DEF rel, all
<1>5. ASSUME NEW rel \in Path
      PROVE  IsPrefix(root, root \o rel) /\ Rel(root \o rel) = rel
  <2> DEFINE all == root \o rel
  <2>1. /\ all \in Path /\ Len(all) = Len(root) + Len(rel)
        /\ \A k \in 1 .. Len(root) : all[k] = root[k]
        /\ \A k \in 1 .. Len(rel) : all[Len(root) + k] = rel[k]
    BY <1>0, PathJoin
  <2>2. Len(rel) \in Nat /\ Len(all) \in Nat
    BY <2>1 DEF Path
  <2> HIDE DEF all
  <2>3. IsPrefix(root, all)
    <3>1. Len(root) <= Len(all) /\ Len(root) <= Len(root)
      BY <1>0, <2>1, <2>2
    <3>2. SubSeq(all, 1, Len(root)) = SubSeq(root, 1, Len(root))
      BY <1>0, <2>1, <3>1, SameBeginning
    <3> QED BY <3>1, <3>2 DEF IsPrefix
  <2>4. Rel(all) \in Path /\ root \o Rel(all) = all
        /\ Len(all) = Len(root) + Len(Rel(all))
    BY <1>4, <2>1, <2>3
  <2> DEFINE back == Rel(all)
  <2> HIDE DEF back
  <2>5. back \in Path /\ root \o back = all /\ Len(back) = Len(rel)
    <3>1. back \in Path /\ root \o back = all /\ Len(all) = Len(root) + Len(back)
      BY <2>4 DEF back
    <3>2. Len(back) \in Nat
      BY <3>1 DEF Path
    <3> QED BY <1>0, <2>1, <2>2, <3>1, <3>2
  <2>6. \A k \in 1 .. Len(back) : (root \o back)[Len(root) + k] = back[k]
    BY <1>0, <2>5, PathJoin
  <2>7. \A k \in 1 .. Len(back) : back[k] = rel[k]
    BY <2>1, <2>5, <2>6
  <2>8. back = rel
    BY <2>5, <2>7, SamePaths
  <2> QED BY <2>3, <2>8 DEF all, back
<1> HIDE DEF F, Rel
<1>6. ASSUME NEW rel \in F PROVE rel \in S /\ Offered(root, rel)
  <2>1. rel \in Path
    BY <1>2
  <2>2. root \o rel \in present /\ Offered(root, rel)
    BY <1>3, <2>1
  <2>3. IsPrefix(root, root \o rel) /\ Rel(root \o rel) = rel
    BY <1>5, <2>1
  <2> QED BY <2>2, <2>3
<1>7. ASSUME NEW rel \in S, Offered(root, rel) PROVE rel \in F
  <2>1. PICK path \in present : IsPrefix(root, path) /\ rel = Rel(path)
    OBVIOUS
  <2>2. path \in Path /\ path \notin Dirs
    BY <2>1 DEF Files
  <2>3. rel \in Path /\ root \o rel = path /\ Len(path) = Len(root) + Len(rel)
    BY <1>4, <2>1, <2>2
  <2>4. 0 < Len(rel)
    <3> SUFFICES ASSUME Len(rel) = 0 PROVE FALSE
      BY <2>3 DEF Path
    <3>1. rel = << >>
      BY <2>3, EmptySeq DEF Path
    <3>2. root \o << >> = root
      BY <1>0, ConcatEmptySeq DEF Path
    <3> QED BY <2>2, <2>3, <3>1, <3>2
  <2> QED BY <1>3, <1>7, <2>1, <2>3, <2>4
<1>8. F = {rel \in S : Offered(root, rel)}
  BY <1>6, <1>7
<1> QED BY <1>8 DEF F, Rel

(* A step that changes the list or the root has scanned the files.           *)
LEMMA StepScans ==
  ASSUME LinesInv, DiskInv, [Next]_vars,
         files' # files \/ project_root' # project_root
  PROVE  \E root \in Dirs : /\ project_root' = <<root>>
                            /\ files' = scan_project(root, present)
<1>1. ~UNCHANGED <<files, project_root>>
  OBVIOUS
<1>2. CASE KeyStep
  <2>1. PICK key : PressKey(key)
    BY <1>2 DEF KeyStep
  <2>2. UNCHANGED <<files, project_root>>
    <3>1. CASE MetaKey(key) \/ PromptKey(key)
      BY <3>1 DEF MetaKey, PromptKey, finderVars
    <3>2. CASE FinderKey(key)
      BY <3>2 DEF FinderKey, finder_handle_key, FinderClose, FinderSelect, QueryMove, QueryEdit
    <3> QED BY <2>1, <3>1, <3>2 DEF PressKey
  <2> QED BY <1>1, <2>2
<1>3. CASE OtherStep
  <2>1. CASE Escape \/ MetaElsewhere \/ Save
    <3>1. UNCHANGED <<files, project_root>>
      BY <2>1 DEF Escape, MetaElsewhere, Save, finderVars
    <3> QED BY <1>1, <3>1
  <2>2. CASE MetaP
    <3>1. finder_open
      BY <2>2 DEF MetaP
    <3>2. HasProjectRoot(StartDir) /\ OpenInProject
      BY <1>1, <3>1 DEF finder_open, finderVars
    <3> DEFINE root == find_project_root(StartDir)
    <3>3. root \in Dirs
      BY <3>2, StartsSomewhere, RootFound, ProjectConstants
    <3>4. /\ project_root' = <<root>>
          /\ files' = IF project_root = <<root>> /\ files # << >>
                        THEN files ELSE scan_project(root, present)
      BY <3>2 DEF OpenInProject
    <3> HIDE DEF root
    <3>5. files' = scan_project(root, present)
      BY <1>1, <3>4
    <3> QED BY <3>3, <3>4, <3>5
  <2> QED BY <1>3, <2>1, <2>2 DEF OtherStep
<1>4. CASE Resize \/ FileRemoved \/ UNCHANGED vars
  <2>1. UNCHANGED <<files, project_root>>
    BY <1>4 DEF Resize, FileRemoved, vars, finderVars
  <2> QED BY <1>1, <2>1
<1> QED BY <1>2, <1>3, <1>4, NextCases

(* What ListingRight says of a step.                                         *)
ListsRight ==
  files' # files \/ (finder_active' /\ project_root' # project_root) =>
    LET root == project_root'[1]
    IN  /\ Range(files') =
             {rel \in {SubSeq(path, Len(root) + 1, Len(path)) :
                         path \in {p \in present : IsPrefix(root, p)}} :
                Offered(root, rel)}
        /\ IsInjective(files')

LEMMA StepListing ==
  ASSUME LinesInv, DiskInv, [Next]_vars
  PROVE  ListsRight
<1> SUFFICES ASSUME files' # files \/ project_root' # project_root PROVE ListsRight
  BY DEF ListsRight
<1>1. PICK root \in Dirs : project_root' = <<root>> /\ files' = scan_project(root, present)
  BY StepScans
<1>2. project_root'[1] = root
  BY <1>1
<1>3. present \in SUBSET Files /\ IsFiniteSet(present)
  BY DEF DiskInv
<1>4. Range(files') = FilesBelow(root, << >>, present) /\ IsInjective(files')
  BY <1>1, <1>3, ScanFinds
<1>5. FilesBelow(root, << >>, present)
        = {rel \in {SubSeq(path, Len(root) + 1, Len(path)) :
                      path \in {p \in present : IsPrefix(root, p)}} :
             Offered(root, rel)}
  BY <1>3, OfferedFiles
<1> QED BY <1>2, <1>4, <1>5 DEF ListsRight

-----------------------------------------------------------------------------
(* The theorems.                                                             *)

ModalsInv == LinesInv /\ DiskInv /\ ModeInv /\ ListInv

LEMMA ModalsAlways == Spec => []ModalsInv
<1>1. Init => ModalsInv
  BY InitLines, InitDisk, InitModes, InitList DEF ModalsInv
<1>2. ModalsInv /\ [Next]_vars => ModalsInv'
  BY StepLines, StepDisk, StepModes, StepList DEF ModalsInv
<1> QED BY <1>1, <1>2, PTL DEF Spec

LEMMA LinesAlways == Spec => []LinesInv
<1>1. LinesInv /\ [Next]_vars => LinesInv'
  BY StepLines
<1> QED BY <1>1, InitLines, PTL DEF Spec

(* The finder's query always begins with a character and its cursor stands   *)
(* before one or at the end, for every capacity of the buffer that cuts the  *)
(* last character short (finder_query_* in src/src/finder.c).                *)
THEOREM QueryAlwaysOnBoundary == Spec => []QueryOnBoundary
<1>1. LinesInv => QueryOnBoundary
  BY DEF LinesInv, Whole, Stands, QueryOnBoundary
<1> QED BY <1>1, LinesAlways, PTL

(* A key edits the line in front and no other, on one side of its cursor, in *)
(* prompt and finder, for every capacity and every name (prompt_* in         *)
(* src/src/input.c, finder_query_* in src/src/finder.c).                     *)
THEOREM EditAlwaysLocal == Spec => EditIsLocal
<1>1. LinesInv /\ [Next]_vars => [EditsOneLine]_vars
  BY StepLines
<1>2. EditsOneLine
        = /\ finder_active => /\ prompt' = prompt
                              /\ finder_active' => Local(query, query')
          /\ ~finder_active /\ prompt_active /\ prompt_active' =>
               Local(prompt, prompt')
          /\ prompt' # prompt => ~finder_active
  BY DEF EditsOneLine
<1> QED BY <1>1, <1>2, LinesAlways, PTL DEF EditIsLocal, Spec, EditsOneLine

(* For every tree of files and every capacity of the lines: neither line     *)
(* outgrows its buffer, the selection is that of a listed file, a file is    *)
(* open only in a directory, and a character is half typed only in a line    *)
(* that is in front (src/src/input.c, src/src/finder.c).                     *)
THEOREM ModalsTypeOK == Spec => []TypeOK
<1>1. ModalsInv => TypeOK
  BY DEF ModalsInv, LinesInv, DiskInv, ModeInv, ListInv, TypeOK, FinderTypeOK
<1> QED BY <1>1, ModalsAlways, PTL

(* Whatever the query and the files are, the finder lists every file that    *)
(* holds the query's bytes in order, none twice, and no other; only a path   *)
(* more than eleven times as long as the query can be missing (fuzzy_score   *)
(* and finder_update_matches in src/src/finder.c).                           *)
THEOREM MatchesAlwaysRight == Spec => []MatchesRight
<1>1. ModalsInv => MatchesRight
  <2> SUFFICES ASSUME ModalsInv, finder_active PROVE MatchesRight
    BY DEF MatchesRight
  <2>1. matches = MatchesOf(query.buf, files) /\ files \in Seq(Path)
    BY DEF ModalsInv, ListInv
  <2>2. query.buf \in Line
    BY InputFields DEF ModalsInv, LinesInv
  <2>3. /\ \A i, j \in DOMAIN matches : matches[i] = matches[j] => i = j
        /\ \A i \in DOMAIN files :
             LET text == Spell(files[i])
                 listed == \E m \in DOMAIN matches : matches[m] = i
             IN  /\ listed => Subsequence(query.buf, text)
                 /\ /\ Subsequence(query.buf, text)
                    /\ \/ query.buf = << >>
                       \/ Len(text) <= 11 * Len(query.buf)
                    => listed
    BY <2>1, <2>2, MatchesOfRight
  <2> QED BY <2>3, Zenon DEF MatchesRight
<1> QED BY <1>1, ModalsAlways, PTL

(* However many words of a longer path begin in the query, a path that       *)
(* begins with the whole query is listed before it (fuzzy_score and          *)
(* match_compare in src/src/finder.c).                                       *)
THEOREM PrefixAlwaysFirst == Spec => []PrefixFirst
<1>1. ModalsInv => PrefixFirst
  <2> SUFFICES ASSUME ModalsInv, finder_active, query.buf # << >> PROVE PrefixFirst
    BY DEF PrefixFirst
  <2>1. matches = MatchesOf(query.buf, files) /\ files \in Seq(Path)
    BY DEF ModalsInv, ListInv
  <2>2. query.buf \in Line
    BY InputFields DEF ModalsInv, LinesInv
  <2>3. \A i, j \in DOMAIN matches :
          LET one == Spell(files[matches[i]])
              other == Spell(files[matches[j]])
          IN  Begins(query.buf, one) /\ Len(one) < Len(other) => i < j
    BY <2>1, <2>2, MatchesOfPrefixFirst
  <2> QED BY <2>3, Zenon DEF PrefixFirst
<1> QED BY <1>1, ModalsAlways, PTL

(* After a key that moves the selection, edits the query or opens the        *)
(* finder, the selected row is on screen, for every height of the window     *)
(* (finder_move_selection and finder_adjust_scroll in src/src/finder.c).     *)
THEOREM SelectionAlwaysShown == Spec => SelectionShown
<1> DEFINE listed == <<finder_active, query, selection, scroll>>
<1>1. ModalsInv /\ [Next]_vars => [ShowsSelection]_listed
  BY StepList DEF ModalsInv
<1> QED BY <1>1, ModalsAlways, PTL DEF SelectionShown, Spec, ShowsSelection

(* For every tree of directories and every .gitignore in it, a scan lists    *)
(* each file of the project that no rule from above it ignores, once, and    *)
(* nothing else (scan_project_dir and finder_open in src/src/finder.c).      *)
THEOREM ListingAlwaysRight == Spec => ListingRight
<1> DEFINE listed == <<finder_active, files, project_root, present>>
<1>1. ModalsInv /\ [Next]_vars => [ListsRight]_listed
  BY StepListing DEF ModalsInv
<1> QED BY <1>1, ModalsAlways, PTL DEF ListingRight, Spec, ListsRight

=============================================================================
