------------------------- MODULE AsciiProtocolProofs -------------------------
(***************************************************************************)
(* What one side writes with Compact* is what the other side reads with    *)
(* Resolve, for calls with any texts, numbers and identities: the pairs of *)
(* a line are those of its pieces, because every piece but the last ends   *)
(* with a comma, and each piece is read as its own keyword with a part of  *)
(* its text, the whole of it if it is clean, unless the text imitates a    *)
(* pair.                                                                   *)
(*                                                                         *)
(* The ring of output buffers keeps the strings of the last calls, for any *)
(* number of buffers of any size.                                          *)
(***************************************************************************)
EXTENDS AsciiProtocol, SequenceTheorems, WellFoundedInduction, TLAPS

-----------------------------------------------------------------------------
(* Strings                                                                 *)

\* A set of natural numbers has a least element, and one that is bounded a greatest one.
LEMMA LeastOf ==
  ASSUME NEW T \in SUBSET Nat, T # {}
  PROVE  \E x \in T : \A y \in T : x <= y
<1> DEFINE R == {ss \in Nat \X Nat : ss[1] < ss[2]}
<1>1. OpToRel(<, Nat) = R
  BY DEF OpToRel
<1>2. IsWellFoundedOn(R, Nat)
  BY <1>1, NatLessThanWellFounded
<1> HIDE DEF R
<1>3. PICK x \in T : \A y \in T : ~(<<y, x>> \in R)
  BY <1>2, WFMin
<1>4. ASSUME NEW y \in T PROVE x <= y
  <2>1. <<y, x>> \notin R /\ x \in Nat /\ y \in Nat
    BY <1>3
  <2>2. <<y, x>>[1] = y /\ <<y, x>>[2] = x /\ <<y, x>> \in Nat \X Nat
    BY <2>1
  <2>3. ~(y < x)
    BY <2>1, <2>2 DEF R
  <2>4. QED
    BY <2>1, <2>3
<1>5. QED
  BY <1>4

\* Min returns the least element of a set of natural numbers that is not empty.
LEMMA MinIs ==
  ASSUME NEW T \in SUBSET Nat, T # {}
  PROVE  Min(T) \in T /\ \A y \in T : Min(T) <= y
BY LeastOf DEF Min

\* Max returns the greatest element of a bounded set of natural numbers that is not empty.
LEMMA MaxIs ==
  ASSUME NEW n \in Nat, NEW T \in SUBSET (0 .. n), T # {}
  PROVE  Max(T) \in T /\ \A y \in T : Max(T) >= y
<1> DEFINE U == {u \in Nat : n - u \in T}
<1>1. \A t \in T : t \in Nat /\ t <= n /\ n - t \in Nat /\ n - (n - t) = t
  OBVIOUS
<1>2. U \in SUBSET Nat /\ U # {}
  BY <1>1
<1>3. PICK u \in U : \A y \in U : u <= y
  BY <1>2, LeastOf
<1>4. u \in Nat /\ n - u \in T
  OBVIOUS
<1>5. ASSUME NEW y \in T PROVE n - u >= y
  <2>1. y \in Nat /\ n - y \in Nat /\ n - (n - y) = y
    BY <1>1
  <2>2. n - y \in U
    BY <2>1
  <2>3. u <= n - y
    BY <1>3, <2>2
  <2>4. QED
    BY <1>4, <2>1, <2>3
<1> HIDE DEF U
<1>6. QED
  BY <1>4, <1>5 DEF Max

\* The index of the first e in s, or 0.
LEMMA UptoIs ==
  ASSUME NEW s \in Seq(Char), NEW e
  PROVE  \E n \in 0 .. Len(s) :
           /\ Upto(s, e) = SubSeq(s, 1, n) /\ \A j \in 1 .. n : s[j] # e
           /\ n < Len(s) => s[n + 1] = e
<1> DEFINE I == {i \in 1 .. Len(s) : s[i] = e}
<1>1. Upto(s, e) = LET i == IF I # {} THEN Min(I) ELSE 0
                   IN IF i = 0 THEN s ELSE SubSeq(s, 1, i - 1)
  BY DEF Upto, SelectInSeq
<1>2. CASE I = {}
  <2>1. Upto(s, e) = SubSeq(s, 1, Len(s))
    BY <1>1, <1>2, SubSeqFull
  <2>2. \A j \in 1 .. Len(s) : s[j] # e
    BY <1>2
  <2>3. QED
    BY <2>1, <2>2
<1>3. CASE I # {}
  <2> PICK i : i = Min(I)
    OBVIOUS
  <2>0. I \in SUBSET Nat
    OBVIOUS
  <2>1. i \in I /\ \A y \in I : i <= y
    BY <1>3, <2>0, MinIs
  <2>2. i \in 1 .. Len(s) /\ s[i] = e /\ Len(s) \in Nat
    BY <2>1
  <2>3. Upto(s, e) = SubSeq(s, 1, i - 1)
    <3>1. i # 0
      BY <2>2
    <3> HIDE DEF I
    <3>2. QED
      BY <1>1, <1>3, <3>1
  <2>4. \A j \in 1 .. i - 1 : s[j] # e
    BY <2>1, <2>2
  <2>5. i - 1 \in 0 .. Len(s) /\ (i - 1) + 1 = i
    BY <2>2
  <2>6. QED
    BY <2>2, <2>3, <2>4, <2>5
<1>4. QED
  BY <1>2, <1>3

\* Upto(s, e) ends before place n + 1 if the first e stands there, or s ends there.
LEMMA UptoAt ==
  ASSUME NEW s \in Seq(Char), NEW e, NEW n \in 0 .. Len(s),
         \A j \in 1 .. n : s[j] # e, n < Len(s) => s[n + 1] = e
  PROVE  /\ Upto(s, e) = SubSeq(s, 1, n) /\ Upto(s, e) \in Seq(Char)
         /\ Len(Upto(s, e)) = n /\ \A j \in 1 .. n : Upto(s, e)[j] = s[j]
<1>1. PICK m \in 0 .. Len(s) :
           /\ Upto(s, e) = SubSeq(s, 1, m) /\ \A j \in 1 .. m : s[j] # e
           /\ m < Len(s) => s[m + 1] = e
  BY UptoIs
<1>2. m = n
  <2>1. ~(m < n)
    BY <1>1
  <2>2. ~(n < m)
    BY <1>1
  <2>3. QED
    BY <2>1, <2>2
<1>3. QED
  BY <1>1, <1>2

\* In s the first e stands behind place n, or n is the last place and there is none.
FirstAt(s, e, n) ==
  /\ n \in 0 .. Len(s)
  /\ \A j \in 1 .. n : s[j] # e
  /\ n < Len(s) => s[n + 1] = e

\* Upto(s, e) is what stands before it.
LEMMA UptoFirst ==
  ASSUME NEW s \in Seq(Char), NEW e, NEW n, FirstAt(s, e, n)
  PROVE  Upto(s, e) = SubSeq(s, 1, n)
<1>1. n \in 0 .. Len(s)
  BY DEF FirstAt
<1>2. (\A j \in 1 .. n : s[j] # e) /\ (n < Len(s) => s[n + 1] = e)
  BY DEF FirstAt
<1>3. QED
  BY <1>1, <1>2, UptoAt, SMTT(30)

\* Behind the first run of e.
LEMMA BeyondAt ==
  ASSUME NEW s \in Seq(Char), NEW e, NEW n \in 0 .. Len(s), NEW m \in n .. Len(s),
         \A j \in 1 .. n : s[j] # e, n < Len(s) => s[n + 1] = e,
         \A j \in n + 1 .. m : s[j] = e, m < Len(s) => s[m + 1] # e
  PROVE  Beyond(s, e) = SubSeq(s, m + 1, Len(s))
<1> DEFINE later == {i \in n + 1 .. Len(s) : s[i] # e}
<1>1. Len(Upto(s, e)) = n
  BY UptoAt
<1>2. Beyond(s, e) = IF later = {} THEN <<>> ELSE SubSeq(s, Min(later), Len(s))
  BY <1>1 DEF Beyond
<1>3. CASE m = Len(s)
  <2>1. later = {}
    BY <1>3
  <2>2. SubSeq(s, m + 1, Len(s)) = <<>>
    BY <1>3, SubSeqEmpty
  <2>3. QED
    BY <1>2, <2>1, <2>2
<1>4. CASE m < Len(s)
  <2>1. m + 1 \in later /\ later \in SUBSET Nat
    BY <1>4
  <2> PICK i : i = Min(later)
    OBVIOUS
  <2>2. i \in later /\ \A y \in later : i <= y
    BY <2>1, MinIs
  <2>3. i = m + 1
    BY <2>1, <2>2
  <2>4. QED
    BY <1>2, <2>1, <2>3
<1>5. QED
  BY <1>3, <1>4

\* In s the first run of e stands behind place n and ends at place m.
RunAt(s, e, n, m) ==
  /\ n \in 0 .. Len(s) /\ m \in n .. Len(s)
  /\ \A j \in 1 .. n : s[j] # e
  /\ n < Len(s) => s[n + 1] = e
  /\ \A j \in n + 1 .. m : s[j] = e
  /\ m < Len(s) => s[m + 1] # e

\* Beyond(s, e) is what follows it.
LEMMA BeyondRun ==
  ASSUME NEW s \in Seq(Char), NEW e, NEW n, NEW m, RunAt(s, e, n, m)
  PROVE  Beyond(s, e) = SubSeq(s, m + 1, Len(s))
<1>1. n \in 0 .. Len(s) /\ m \in n .. Len(s)
  BY DEF RunAt
<1>2. (\A j \in 1 .. n : s[j] # e) /\ (n < Len(s) => s[n + 1] = e)
  BY DEF RunAt
<1>3. (\A j \in n + 1 .. m : s[j] = e) /\ (m < Len(s) => s[m + 1] # e)
  BY DEF RunAt
<1>4. QED
  BY <1>1, <1>2, <1>3, BeyondAt, SMTT(30)

\* SubSeq, by the elements it has.
LEMMA SubSeqIs ==
  ASSUME NEW s \in Seq(Char), NEW a \in 1 .. Len(s) + 1, NEW b \in a - 1 .. Len(s)
  PROVE  /\ SubSeq(s, a, b) \in Seq(Char) /\ Len(SubSeq(s, a, b)) = b - a + 1
         /\ \A i \in 1 .. b - a + 1 : SubSeq(s, a, b)[i] = s[a + i - 1]
         /\ \A u \in Seq(Char) : Len(u) = b - a + 1 /\ (\A i \in 1 .. Len(u) : u[i] = s[a + i - 1])
                                   => u = SubSeq(s, a, b)
<1>1. a \in Int /\ b \in Int /\ \A i \in a .. b : s[i] \in Char
  OBVIOUS
<1> PICK r : r = SubSeq(s, a, b)
  OBVIOUS
<1>2. /\ r \in Seq(Char) /\ Len(r) = b - a + 1
      /\ \A i \in 1 .. b - a + 1 : r[i] = s[a + i - 1]
  BY <1>1, SubSeqProperties
<1>3. ASSUME NEW u \in Seq(Char), Len(u) = b - a + 1, \A i \in 1 .. Len(u) : u[i] = s[a + i - 1]
      PROVE  u = r
  BY <1>2, <1>3, SeqEqual
<1>4. QED
  BY <1>2, <1>3

\* It does not matter which of three strings are put together first.
LEMMA ConcatThree ==
  ASSUME NEW a \in Seq(Char), NEW b \in Seq(Char), NEW c \in Seq(Char)
  PROVE  (a \o b) \o c = a \o (b \o c)
BY ConcatAssociative

\* Lengths and elements of a concatenation.
LEMMA ConcatIs ==
  ASSUME NEW s \in Seq(Char), NEW t \in Seq(Char)
  PROVE  /\ s \o t \in Seq(Char) /\ Len(s) \in Nat /\ Len(t) \in Nat
         /\ Len(s \o t) = Len(s) + Len(t)
         /\ \A i \in 1 .. Len(s) : (s \o t)[i] = s[i]
         /\ \A i \in 1 .. Len(t) : (s \o t)[Len(s) + i] = t[i]
<1>1. Len(s) \in Nat /\ Len(t) \in Nat
  OBVIOUS
<1>2. /\ s \o t \in Seq(Char) /\ Len(s \o t) = Len(s) + Len(t)
      /\ \A i \in 1 .. Len(s) + Len(t) :
           (s \o t)[i] = IF i <= Len(s) THEN s[i] ELSE t[i - Len(s)]
  BY ConcatProperties
<1>3. ASSUME NEW i \in 1 .. Len(t) PROVE (s \o t)[Len(s) + i] = t[i]
  <2>1. Len(s) + i \in 1 .. Len(s) + Len(t) /\ ~(Len(s) + i <= Len(s)) /\ Len(s) + i - Len(s) = i
    BY <1>1
  <2>2. QED
    BY <1>2, <2>1
<1>4. ASSUME NEW i \in 1 .. Len(s) PROVE (s \o t)[i] = s[i]
  <2>1. i \in 1 .. Len(s) + Len(t) /\ i <= Len(s)
    BY <1>1
  <2>2. QED
    BY <1>2, <2>1
<1>5. QED
  BY <1>1, <1>2, <1>3, <1>4

\* w stands in v.
Part(w, v) == \E i \in 0 .. Len(v), j \in 0 .. Len(v) : w = SubSeq(v, i + 1, j)

\* A part of a string is a string, cut out between two places in order.
LEMMA PartIs ==
  ASSUME NEW v \in Seq(Char), NEW w, Part(w, v)
  PROVE  /\ w \in Seq(Char)
         /\ \E i \in 0 .. Len(v), j \in 0 .. Len(v) :
              i <= j /\ w = SubSeq(v, i + 1, j) /\ Len(w) = j - i
<1>1. PICK i \in 0 .. Len(v), j \in 0 .. Len(v) : w = SubSeq(v, i + 1, j)
  BY DEF Part
<1>2. CASE i <= j
  <2>1. i + 1 \in 1 .. Len(v) + 1 /\ j \in (i + 1) - 1 .. Len(v) /\ j - (i + 1) + 1 = j - i
    BY <1>2
  <2>2. QED
    BY <1>1, <1>2, <2>1, SubSeqIs
<1>3. CASE i > j
  <2>1. w = <<>>
    BY <1>1, <1>3, SubSeqEmpty
  <2>2. SubSeq(v, i + 1, i) = <<>>
    BY SubSeqEmpty
  <2>3. QED
    BY <2>1, <2>2
<1>4. QED
  BY <1>2, <1>3

\* A part of a part is a part.
LEMMA PartTrans ==
  ASSUME NEW v \in Seq(Char), NEW w, NEW x, Part(w, v), Part(x, w)
  PROVE  Part(x, v)
<1>1. PICK i \in 0 .. Len(v), j \in 0 .. Len(v) :
           i <= j /\ w = SubSeq(v, i + 1, j) /\ Len(w) = j - i
  BY PartIs
<1>2. w \in Seq(Char)
  BY PartIs
<1>3. PICK k \in 0 .. Len(w), l \in 0 .. Len(w) :
           k <= l /\ x = SubSeq(w, k + 1, l) /\ Len(x) = l - k
  BY <1>2, PartIs
<1>4. x \in Seq(Char)
  BY <1>2, PartIs
<1>5. /\ i + 1 \in 1 .. Len(v) + 1 /\ j \in (i + 1) - 1 .. Len(v) /\ j - (i + 1) + 1 = j - i
      /\ k + 1 \in 1 .. Len(w) + 1 /\ l \in (k + 1) - 1 .. Len(w) /\ l - (k + 1) + 1 = l - k
      /\ i + k \in 0 .. Len(v) /\ i + l \in 0 .. Len(v)
      /\ i + k + 1 \in 1 .. Len(v) + 1 /\ i + l \in (i + k + 1) - 1 .. Len(v)
      /\ (i + l) - (i + k + 1) + 1 = l - k
  BY <1>1, <1>3
<1>6. \A a \in 1 .. j - i : w[a] = v[(i + 1) + a - 1]
  BY <1>1, <1>5, SubSeqIs
<1>7. \A a \in 1 .. l - k : x[a] = w[(k + 1) + a - 1]
  BY <1>2, <1>3, <1>5, SubSeqIs
<1>8. \A a \in 1 .. Len(x) : x[a] = v[(i + k + 1) + a - 1]
  <2> SUFFICES ASSUME NEW a \in 1 .. Len(x) PROVE x[a] = v[(i + k + 1) + a - 1]
    OBVIOUS
  <2>1. /\ a \in 1 .. l - k /\ (k + 1) + a - 1 \in 1 .. j - i
        /\ (i + 1) + ((k + 1) + a - 1) - 1 = (i + k + 1) + a - 1
    BY <1>1, <1>3
  <2>2. QED
    BY <1>6, <1>7, <2>1
<1>9. x = SubSeq(v, i + k + 1, i + l)
  <2> PICK a : a = i + k + 1
    OBVIOUS
  <2> PICK b : b = i + l
    OBVIOUS
  <2>1. a \in 1 .. Len(v) + 1 /\ b \in a - 1 .. Len(v) /\ Len(x) = b - a + 1
    BY <1>3, <1>5
  <2>2. \A c \in 1 .. Len(x) : x[c] = v[a + c - 1]
    BY <1>8
  <2>3. x = SubSeq(v, a, b)
    BY <1>4, <2>1, <2>2, SubSeqIs
  <2>4. QED
    BY <2>3
<1>10. QED
  BY <1>5, <1>9 DEF Part

\* A string and the empty string are parts of it.
LEMMA WholeIsPart ==
  ASSUME NEW v \in Seq(Char)
  PROVE  Part(v, v) /\ Part(<<>>, v)
<1>1. v = SubSeq(v, 0 + 1, Len(v))
  BY SubSeqFull
<1>2. <<>> = SubSeq(v, 0 + 1, 0)
  BY SubSeqEmpty
<1>3. 0 \in 0 .. Len(v) /\ Len(v) \in 0 .. Len(v)
  OBVIOUS
<1>4. QED
  BY <1>1, <1>2, <1>3 DEF Part

\* What stands before a separator is a part.
LEMMA UptoIsPart ==
  ASSUME NEW v \in Seq(Char), NEW e
  PROVE  Part(Upto(v, e), v)
<1>1. PICK n \in 0 .. Len(v) : Upto(v, e) = SubSeq(v, 0 + 1, n)
  BY UptoIs
<1>2. 0 \in 0 .. Len(v)
  OBVIOUS
<1>3. QED
  BY <1>1, <1>2 DEF Part

\* What is left after trimming on the right, or on both sides.
LEMMA TrimRightIs ==
  ASSUME NEW s \in Seq(Char), NEW E
  PROVE  \E n \in 0 .. Len(s) :
           /\ TrimRight(s, E) = SubSeq(s, 1, n)
           /\ \A j \in n + 1 .. Len(s) : s[j] \in E
           /\ n > 0 => s[n] \notin E
<1> PICK I : I = Solid(s, E)
  OBVIOUS
<1>1. I = {i \in 1 .. Len(s) : s[i] \notin E}
  BY DEF Solid
<1>2. CASE I = {}
  <2>1. TrimRight(s, E) = SubSeq(s, 1, 0)
    BY <1>2, SubSeqEmpty DEF TrimRight
  <2>2. QED
    BY <1>1, <1>2, <2>1
<1>3. CASE I # {}
  <2> PICK n : n = Max(I)
    OBVIOUS
  <2>1. I \in SUBSET (0 .. Len(s)) /\ Len(s) \in Nat
    BY <1>1
  <2>2. n \in I /\ \A y \in I : n >= y
    BY <1>3, <2>1, MaxIs
  <2>3. TrimRight(s, E) = SubSeq(s, 1, n)
    BY <1>3 DEF TrimRight
  <2>4. n \in 1 .. Len(s) /\ s[n] \notin E
    BY <1>1, <2>2
  <2>5. ASSUME NEW j \in n + 1 .. Len(s) PROVE s[j] \in E
    <3>1. j \in 1 .. Len(s) /\ ~(n >= j)
      BY <2>1, <2>4
    <3>2. j \notin I
      BY <2>2, <3>1
    <3>3. QED
      BY <1>1, <3>1, <3>2
  <2>6. n \in 0 .. Len(s)
    BY <2>4
  <2>7. QED
    BY <2>3, <2>4, <2>5, <2>6
<1>4. QED
  BY <1>2, <1>3

\* TrimRight cuts behind the last character that is not in E.
LEMMA TrimRightAt ==
  ASSUME NEW s \in Seq(Char), NEW E, NEW n \in 0 .. Len(s),
         \A j \in n + 1 .. Len(s) : s[j] \in E, n > 0 => s[n] \notin E
  PROVE  TrimRight(s, E) = SubSeq(s, 1, n)
<1>1. PICK m \in 0 .. Len(s) :
           /\ TrimRight(s, E) = SubSeq(s, 1, m)
           /\ \A j \in m + 1 .. Len(s) : s[j] \in E
           /\ m > 0 => s[m] \notin E
  BY TrimRightIs
<1>2. ~(m < n) /\ ~(n < m)
  BY <1>1
<1>3. QED
  BY <1>1, <1>2

\* What TrimRight leaves is a part.
LEMMA TrimRightIsPart ==
  ASSUME NEW v \in Seq(Char), NEW E
  PROVE  Part(TrimRight(v, E), v)
<1>1. PICK n \in 0 .. Len(v) : TrimRight(v, E) = SubSeq(v, 0 + 1, n)
  BY TrimRightIs
<1>2. 0 \in 0 .. Len(v)
  OBVIOUS
<1>3. QED
  BY <1>1, <1>2 DEF Part

\* The characters that trimming leaves are places of the string, the first and last of them solid.
LEMMA SolidIs ==
  ASSUME NEW s \in Seq(Char), NEW E
  PROVE  /\ Solid(s, E) \in SUBSET (0 .. Len(s)) /\ Solid(s, E) \in SUBSET Nat
         /\ \A i \in Solid(s, E) : i \in 1 .. Len(s)
<1>1. Solid(s, E) = {i \in 1 .. Len(s) : s[i] \notin E}
  BY DEF Solid
<1>2. \A i \in Solid(s, E) : i \in 1 .. Len(s)
  BY <1>1
<1>3. \A i \in Solid(s, E) : i \in 0 .. Len(s) /\ i \in Nat
  BY <1>2
<1>4. QED
  BY <1>2, <1>3

\* What Trim leaves is a part.
LEMMA TrimIsPart ==
  ASSUME NEW v \in Seq(Char)
  PROVE  Part(Trim(v), v)
<1> PICK I : I = Solid(v, {Space})
  OBVIOUS
<1>1. /\ I \in SUBSET (0 .. Len(v)) /\ I \in SUBSET Nat /\ Len(v) \in Nat
      /\ \A i \in I : i \in 1 .. Len(v)
  BY SolidIs
<1>2. CASE I = {}
  BY <1>2, WholeIsPart DEF Trim
<1>3. CASE I # {}
  <2> PICK a : a = Min(I)
    OBVIOUS
  <2> PICK b : b = Max(I)
    OBVIOUS
  <2>3. a \in I /\ b \in I
    BY <1>1, <1>3, MaxIs, MinIs
  <2>4. a \in 1 .. Len(v) /\ b \in 1 .. Len(v)
    BY <1>1, <2>3
  <2>5. a - 1 \in 0 .. Len(v) /\ b \in 0 .. Len(v) /\ (a - 1) + 1 = a
    BY <2>4
  <2>6. Trim(v) = SubSeq(v, a, b)
    BY <1>3 DEF Trim
  <2>7. QED
    BY <2>5, <2>6 DEF Part
<1>4. QED
  BY <1>2, <1>3

-----------------------------------------------------------------------------
(* The pairs of a line                                                     *)

Starts(b) == {j \in 1 .. Len(b) : b[j] # Comma /\ (j = 1 \/ b[j - 1] = Comma)}
TokenAt(b, i) == Upto(SubSeq(b, i, Len(b)), Comma)
Counts(kv) == kv.keyword # NULL /\ kv.value # NULL

\* What Resolve reads out of b.
Pairs(b) == {kv \in {resolve_kv(TokenAt(b, i)) : i \in Starts(b)} : Counts(kv)}

\* The array that resolve_kv_array returns holds the pairs of the string and nothing else.
LEMMA ArrayIs ==
  ASSUME NEW b \in Seq(Char), NEW kvs, kvs = resolve_kv_array(Tokens(b, Comma))
  PROVE  /\ DOMAIN kvs \in SUBSET (0 .. Len(b))
         /\ \A i \in DOMAIN kvs : kvs[i] \in Pairs(b)
         /\ \A P \in Pairs(b) : \E i \in DOMAIN kvs : kvs[i] = P
<1> PICK toks : toks = Tokens(b, Comma)
  OBVIOUS
<1>1. DOMAIN toks = Starts(b) /\ \A i \in Starts(b) : toks[i] = TokenAt(b, i)
  BY DEF Tokens, Starts, TokenAt
<1>2. /\ DOMAIN kvs = {j \in DOMAIN toks : Counts(resolve_kv(toks[j]))}
      /\ \A i \in DOMAIN kvs : kvs[i] = resolve_kv(toks[i])
  BY DEF resolve_kv_array, Counts
<1>3. \A i \in Starts(b) : i \in 0 .. Len(b)
  BY DEF Starts
<1>4. \A i \in DOMAIN kvs : i \in Starts(b) /\ kvs[i] = resolve_kv(TokenAt(b, i)) /\ Counts(kvs[i])
  BY <1>1, <1>2
<1>5. \A i \in Starts(b) : Counts(resolve_kv(TokenAt(b, i))) => i \in DOMAIN kvs
  BY <1>1, <1>2
<1>6. QED
  BY <1>3, <1>4, <1>5 DEF Pairs

\* A token goes on to the next comma.
LEMMA TokenAtIs ==
  ASSUME NEW b \in Seq(Char), NEW i \in 1 .. Len(b), NEW n \in i - 1 .. Len(b),
         \A j \in i .. n : b[j] # Comma, n < Len(b) => b[n + 1] = Comma
  PROVE  TokenAt(b, i) = SubSeq(b, i, n) /\ TokenAt(b, i) \in Seq(Char)
<1>r. PICK r : r = SubSeq(b, i, Len(b))
  OBVIOUS
<1>1. i \in 1 .. Len(b) + 1 /\ Len(b) \in i - 1 .. Len(b)
  OBVIOUS
<1>2. /\ r \in Seq(Char) /\ Len(r) = Len(b) - i + 1
      /\ \A j \in 1 .. Len(b) - i + 1 : r[j] = b[i + j - 1]
  BY <1>1, <1>r, SubSeqIs
<1>m. PICK m : m = n - i + 1
  OBVIOUS
<1>3. m \in 0 .. Len(r)
  BY <1>2, <1>m
<1>4. ASSUME NEW j \in 1 .. m PROVE r[j] # Comma
  <2>1. j \in 1 .. Len(b) - i + 1 /\ i + j - 1 \in i .. n
    BY <1>m
  <2>2. QED
    BY <1>2, <2>1
<1>5. ASSUME m < Len(r) PROVE r[m + 1] = Comma
  <2>1. m + 1 \in 1 .. Len(b) - i + 1 /\ i + (m + 1) - 1 = n + 1 /\ n < Len(b)
    BY <1>2, <1>3, <1>5, <1>m
  <2>2. QED
    BY <1>2, <2>1
<1>6. /\ Upto(r, Comma) \in Seq(Char) /\ Len(Upto(r, Comma)) = m
      /\ \A j \in 1 .. m : Upto(r, Comma)[j] = r[j]
  <2>1. \A j \in 1 .. m : r[j] # Comma
    BY <1>4
  <2>2. m < Len(r) => r[m + 1] = Comma
    BY <1>5
  <2>3. QED
    <3>1. r \in Seq(Char)
      BY <1>2
    <3>2. Upto(r, Comma) = SubSeq(r, 1, m)
      BY <1>3, <2>1, <2>2, <3>1, UptoAt
    <3>3. 1 \in 1 .. Len(r) + 1 /\ m \in 1 - 1 .. Len(r) /\ m - 1 + 1 = m
      BY <1>3, <3>1
    <3>4. QED
      BY <3>1, <3>2, <3>3
<1> PICK u : u = Upto(r, Comma)
  OBVIOUS
<1>7. u \in Seq(Char) /\ Len(u) = n - i + 1
  BY <1>6, <1>m
<1>8. ASSUME NEW j \in 1 .. Len(u) PROVE u[j] = b[i + j - 1]
  <2>1. j \in 1 .. m /\ j \in 1 .. Len(b) - i + 1
    BY <1>7, <1>m
  <2>2. QED
    BY <1>2, <1>6, <2>1
<1>9. i \in 1 .. Len(b) + 1
  OBVIOUS
<1>10. u = SubSeq(b, i, n)
  BY <1>7, <1>8, <1>9, SubSeqIs
<1>11. QED
  BY <1>7, <1>10, <1>r DEF TokenAt

\* A token ends before the first comma behind its start.
LEMMA TokenEnds ==
  ASSUME NEW b \in Seq(Char), NEW i \in 1 .. Len(b)
  PROVE  \E n \in i - 1 .. Len(b) :
           (\A j \in i .. n : b[j] # Comma) /\ (n < Len(b) => b[n + 1] = Comma)
<1> DEFINE T == {j \in i .. Len(b) : b[j] = Comma}
<1>1. CASE T = {}
  <2>1. Len(b) \in i - 1 .. Len(b) /\ \A j \in i .. Len(b) : b[j] # Comma
    BY <1>1
  <2>2. QED
    BY <2>1
<1>2. CASE T # {}
  <2>1. T \in SUBSET Nat
    OBVIOUS
  <2>2. PICK m \in T : \A y \in T : m <= y
    BY <1>2, <2>1, LeastOf
  <2>3. m \in i .. Len(b) /\ b[m] = Comma
    OBVIOUS
  <2>4. ASSUME NEW j \in i .. m - 1 PROVE b[j] # Comma
    <3>1. j \in i .. Len(b) /\ ~(m <= j)
      BY <2>3
    <3>2. QED
      BY <2>2, <3>1
  <2>5. m - 1 \in i - 1 .. Len(b) /\ (m - 1) + 1 = m
    BY <2>3
  <2>6. QED
    BY <2>3, <2>4, <2>5
<1>3. QED
  BY <1>1, <1>2

\* A string that ends with a comma, or is empty.
Open(a) == a = <<>> \/ a[Len(a)] = Comma

\* Behind a comma the pairs are the pairs of the two parts.
LEMMA PairsConcat ==
  ASSUME NEW a \in Seq(Char), NEW b \in Seq(Char), Open(a)
  PROVE  Pairs(a \o b) = Pairs(a) \cup Pairs(b)
<1> PICK c : c = a \o b
  OBVIOUS
<1> PICK n : n = Len(a)
  OBVIOUS
<1>1. /\ c \in Seq(Char) /\ n \in Nat /\ Len(b) \in Nat /\ Len(c) = n + Len(b)
      /\ \A i \in 1 .. n : c[i] = a[i]
      /\ \A i \in 1 .. Len(b) : c[n + i] = b[i]
  BY ConcatIs
<1>0. n > 0 => a[n] = Comma
  BY DEF Open
<1>2. \A i \in 1 .. n : i \in Starts(c) <=> i \in Starts(a)
  <2> SUFFICES ASSUME NEW i \in 1 .. n PROVE i \in Starts(c) <=> i \in Starts(a)
    OBVIOUS
  <2>1. i \in 1 .. Len(c) /\ (i # 1 => i - 1 \in 1 .. n)
    BY <1>1
  <2>2. c[i] = a[i] /\ (i # 1 => c[i - 1] = a[i - 1])
    BY <1>1, <2>1
  <2>3. QED
    BY <2>1, <2>2 DEF Starts
<1>3. \A i \in 1 .. Len(b) : n + i \in Starts(c) <=> i \in Starts(b)
  <2> SUFFICES ASSUME NEW i \in 1 .. Len(b) PROVE n + i \in Starts(c) <=> i \in Starts(b)
    OBVIOUS
  <2>1. n + i \in 1 .. Len(c) /\ c[n + i] = b[i]
    BY <1>1
  <2>2. CASE i = 1
    <3>1. n + i = 1 \/ c[(n + i) - 1] = Comma
      <4>1. CASE n = 0
        BY <2>2, <4>1
      <4>2. CASE n > 0
        <5>1. (n + i) - 1 = n /\ n \in 1 .. n
          BY <1>1, <2>2, <4>2
        <5>2. QED
          BY <1>0, <1>1, <4>2, <5>1
      <4>3. QED
        BY <1>1, <4>1, <4>2
    <3>2. QED
      BY <2>1, <2>2, <3>1 DEF Starts
  <2>3. CASE i # 1
    <3>1. i - 1 \in 1 .. Len(b) /\ (n + i) - 1 = n + (i - 1) /\ n + i # 1
      BY <1>1, <2>3
    <3>2. c[(n + i) - 1] = b[i - 1]
      BY <1>1, <3>1
    <3>3. QED
      BY <2>1, <2>3, <3>1, <3>2 DEF Starts
  <2>4. QED
    BY <2>2, <2>3
<1>4. \A i \in Starts(a) : i \in 1 .. n /\ TokenAt(c, i) = TokenAt(a, i)
  <2> SUFFICES ASSUME NEW i \in Starts(a) PROVE i \in 1 .. n /\ TokenAt(c, i) = TokenAt(a, i)
    OBVIOUS
  <2>1. i \in 1 .. n
    BY DEF Starts
  <2>2. PICK m \in i - 1 .. n :
             (\A j \in i .. m : a[j] # Comma) /\ (m < n => a[m + 1] = Comma)
    BY <2>1, TokenEnds
  <2>3. m < n
    <3>1. SUFFICES ASSUME m = n PROVE FALSE
      BY <1>1, <2>1
    <3>2. n \in i .. m
      BY <1>1, <2>1, <3>1
    <3>3. QED
      BY <1>0, <1>1, <2>1, <2>2, <3>2
  <2>4. TokenAt(a, i) = SubSeq(a, i, m)
    BY <2>1, <2>2, TokenAtIs
  <2>5. \A j \in i .. m : j \in 1 .. n
    BY <1>1, <2>1, <2>3
  <2>6. m + 1 \in 1 .. n /\ m \in i - 1 .. Len(c) /\ i \in 1 .. Len(c) /\ m < Len(c)
    BY <1>1, <2>1, <2>3
  <2>7. TokenAt(c, i) = SubSeq(c, i, m)
    <3>1. \A j \in i .. m : c[j] # Comma
      BY <1>1, <2>2, <2>5
    <3>2. c[m + 1] = Comma
      BY <1>1, <2>2, <2>3, <2>6
    <3>3. QED
      BY <1>1, <2>6, <3>1, <3>2, TokenAtIs
  <2>8. SubSeq(c, i, m) = SubSeq(a, i, m)
    <3>1. i \in 1 .. Len(a) + 1 /\ m \in i - 1 .. Len(a) /\ i \in 1 .. Len(c) + 1
      BY <1>1, <2>1, <2>3
    <3> PICK u : u = SubSeq(c, i, m)
      OBVIOUS
    <3>2. /\ u \in Seq(Char) /\ Len(u) = m - i + 1
          /\ \A j \in 1 .. m - i + 1 : u[j] = c[i + j - 1]
      BY <1>1, <2>6, <3>1, SubSeqIs
    <3>3. \A j \in 1 .. Len(u) : u[j] = a[i + j - 1]
      <4> SUFFICES ASSUME NEW j \in 1 .. Len(u) PROVE u[j] = a[i + j - 1]
        OBVIOUS
      <4>1. j \in 1 .. m - i + 1 /\ i + j - 1 \in 1 .. n
        BY <1>1, <2>1, <2>3, <3>2
      <4>2. QED
        BY <1>1, <3>2, <4>1
    <3>4. QED
      BY <3>1, <3>2, <3>3, SubSeqIs
  <2>9. QED
    BY <2>1, <2>4, <2>7, <2>8
<1>5. \A i \in Starts(b) : i \in 1 .. Len(b) /\ TokenAt(c, n + i) = TokenAt(b, i)
  <2> SUFFICES ASSUME NEW i \in Starts(b)
               PROVE  i \in 1 .. Len(b) /\ TokenAt(c, n + i) = TokenAt(b, i)
    OBVIOUS
  <2>1. i \in 1 .. Len(b)
    BY DEF Starts
  <2>u. PICK u : u = SubSeq(c, n + i, Len(c))
    OBVIOUS
  <2>k. PICK k : k = n + i
    OBVIOUS
  <2>2. k \in 1 .. Len(c) + 1 /\ Len(c) \in k - 1 .. Len(c) /\ Len(c) - k + 1 = Len(b) - i + 1
    BY <1>1, <2>1, <2>k
  <2>3. /\ u \in Seq(Char) /\ Len(u) = Len(b) - i + 1
        /\ \A j \in 1 .. Len(b) - i + 1 : u[j] = c[k + j - 1]
    <3>l. PICK l : l = Len(c)
      OBVIOUS
    <3>1. k \in 1 .. Len(c) + 1 /\ l \in k - 1 .. Len(c) /\ l - k + 1 = Len(b) - i + 1
      BY <2>2, <3>l
    <3>2. /\ SubSeq(c, k, l) \in Seq(Char) /\ Len(SubSeq(c, k, l)) = l - k + 1
          /\ \A j \in 1 .. l - k + 1 : SubSeq(c, k, l)[j] = c[k + j - 1]
      BY <1>1, <3>1, SubSeqIs
    <3>3. u = SubSeq(c, k, l)
      BY <2>u, <2>k, <3>l
    <3>4. QED
      BY <2>2, <3>1, <3>2, <3>3, <3>l
  <2>4. \A j \in 1 .. Len(u) : u[j] = b[i + j - 1]
    <3> SUFFICES ASSUME NEW j \in 1 .. Len(u) PROVE u[j] = b[i + j - 1]
      OBVIOUS
    <3>0. j \in 1 .. Len(b) - i + 1
      BY <2>3
    <3>1. i + j - 1 \in 1 .. Len(b) /\ k + j - 1 = n + (i + j - 1)
      BY <1>1, <2>1, <2>k, <3>0
    <3>2. u[j] = c[k + j - 1] /\ c[n + (i + j - 1)] = b[i + j - 1]
      BY <1>1, <2>3, <3>0, <3>1
    <3>3. QED
      BY <3>1, <3>2
  <2>5. i \in 1 .. Len(b) + 1 /\ Len(b) \in i - 1 .. Len(b)
    BY <1>1, <2>1
  <2>6. u = SubSeq(b, i, Len(b))
    BY <2>3, <2>4, <2>5, SubSeqIs
  <2>7. QED
    BY <2>1, <2>6, <2>u DEF TokenAt
<1>6. \A i \in Starts(c) : i \in Starts(a) \/ \E j \in Starts(b) : i = n + j
  <2> SUFFICES ASSUME NEW i \in Starts(c)
               PROVE  i \in Starts(a) \/ \E j \in Starts(b) : i = n + j
    OBVIOUS
  <2>1. i \in 1 .. Len(c)
    BY DEF Starts
  <2>2. CASE i \in 1 .. n
    BY <1>2, <2>2
  <2>3. CASE i \notin 1 .. n
    <3>1. i - n \in 1 .. Len(b) /\ n + (i - n) = i
      BY <1>1, <2>1, <2>3
    <3>2. QED
      BY <1>3, <3>1
  <2>4. QED
    BY <2>2, <2>3
<1>7. \A P \in Pairs(c) : P \in Pairs(a) \/ P \in Pairs(b)
  BY <1>4, <1>5, <1>6 DEF Pairs
<1>8. \A P \in Pairs(a) : P \in Pairs(c)
  BY <1>2, <1>4 DEF Pairs
<1>9. \A P \in Pairs(b) : P \in Pairs(c)
  BY <1>3, <1>5 DEF Pairs
<1>10. QED
  BY <1>7, <1>8, <1>9

\* The characters that mean something, and those that do not.
LEMMA Chars ==
  /\ Comma \in Char /\ Equals \in Char /\ Dot \in Char /\ Space \in Char
  /\ Comma # Equals /\ Comma # Space /\ Equals # Space
  /\ \A k \in Words : Word(k) \in Char /\ Word(k) \notin {Comma, Equals, Dot, Space}
  /\ \A n \in Int : Num(n) \in Char /\ Num(n) \notin {Comma, Equals, Dot, Space}
  /\ Newline \notin Char
<1>K. /\ "word" # "num" /\ "word" # "mark" /\ "num" # "mark"
      /\ "," # "=" /\ "," # "." /\ "," # " " /\ "," # "nl"
      /\ "=" # "." /\ "=" # " " /\ "=" # "nl" /\ "." # " " /\ "." # "nl" /\ " " # "nl"
  OBVIOUS
<1>1. /\ Comma.s = "," /\ Comma.c = "mark" /\ Equals.s = "=" /\ Equals.c = "mark"
      /\ Dot.s = "." /\ Dot.c = "mark" /\ Space.s = " " /\ Space.c = "mark"
      /\ Newline.s = "nl" /\ Newline.c = "mark"
  BY DEF Comma, Equals, Dot, Space, Newline, Mark
<1>2. \A k \in Words : Word(k).c = "word" /\ Word(k) \in Char
  BY DEF Word, Char
<1>3. \A n \in Int : Num(n).c = "num" /\ Num(n) \in Char
  BY DEF Num, Char
<1>4. Comma \in Char /\ Equals \in Char /\ Dot \in Char /\ Space \in Char
  BY DEF Char
<1>5. Newline \notin Char
  BY <1>1, <1>K DEF Char
<1>6. QED
  BY <1>1, <1>2, <1>3, <1>4, <1>5, <1>K

\* One or two characters.
LEMMA FewChars ==
  ASSUME NEW a \in Char
  PROVE  /\ <<a>> \in Seq(Char) /\ Len(<<a>>) = 1 /\ <<a>>[1] = a /\ <<a>> # <<>>
         /\ \A b \in Char : /\ <<a, b>> \in Seq(Char) /\ Len(<<a, b>>) = 2
                            /\ <<a, b>>[1] = a /\ <<a, b>>[2] = b
         /\ \A s \in Seq(Char) : Len(s) = 1 /\ s[1] = a => s = <<a>>
OBVIOUS

\* Trim changes nothing of a string that neither begins nor ends with a space.
LEMMA TrimWhole ==
  ASSUME NEW s \in Seq(Char), s # <<>>, s[1] # Space, s[Len(s)] # Space
  PROVE  Trim(s) = s
<1>1. Len(s) \in Nat /\ Len(s) >= 1
  OBVIOUS
<1>I. PICK I : I = Solid(s, {Space})
  OBVIOUS
<1>2. 1 \in I /\ Len(s) \in I
  BY <1>1, <1>I DEF Solid
<1>3. /\ I \in SUBSET (0 .. Len(s)) /\ I \in SUBSET Nat /\ I # {}
      /\ \A i \in I : i \in 1 .. Len(s)
  BY <1>2, <1>I, SolidIs
<1>a. PICK a : a = Min(I)
  OBVIOUS
<1>b. PICK b : b = Max(I)
  OBVIOUS
<1>4. a \in I /\ \A y \in I : a <= y
  BY <1>3, <1>a, MinIs
<1>5. b \in I /\ \A y \in I : b >= y
  BY <1>1, <1>3, <1>b, MaxIs
<1>6. a = 1
  BY <1>2, <1>3, <1>4
<1>7. b = Len(s)
  BY <1>1, <1>2, <1>3, <1>5
<1>8. Trim(s) = SubSeq(s, 1, Len(s))
  BY <1>3, <1>6, <1>7, <1>I, <1>a, <1>b DEF Trim
<1>9. QED
  BY <1>8, SubSeqFull

\* Trim of the empty string is empty.
LEMMA TrimNothing == Trim(<<>>) = <<>>
<1>1. <<>> \in Seq(Char) /\ Len(<<>>) = 0
  OBVIOUS
<1>2. \A i \in Solid(<<>>, {Space}) : i \in 1 .. 0
  BY <1>1, SolidIs
<1>3. Solid(<<>>, {Space}) = {}
  BY <1>2
<1>4. QED
  BY <1>3 DEF Trim

\* A token without = has no value.
LEMMA NoValue ==
  ASSUME NEW s \in Seq(Char), \A j \in 1 .. Len(s) : s[j] # Equals
  PROVE  resolve_kv(s).value = NULL
<1>1. Beyond(s, Equals) = SubSeq(s, Len(s) + 1, Len(s))
  <2>1. Len(s) \in 0 .. Len(s) /\ Len(s) \in Len(s) .. Len(s) /\ Len(s) + 1 .. Len(s) = {}
    OBVIOUS
  <2>2. QED
    BY <2>1, BeyondAt
<1>2. Beyond(s, Equals) = <<>>
  BY <1>1, SubSeqEmpty
<1>3. <<>> \in Seq(Char) /\ Len(<<>>) = 0
  OBVIOUS
<1>4. Upto(<<>>, Equals) = <<>>
  <2>1. Part(Upto(<<>>, Equals), <<>>)
    BY <1>3, UptoIsPart
  <2>2. PICK i \in 0 .. 0, j \in 0 .. 0 : Upto(<<>>, Equals) = SubSeq(<<>>, i + 1, j)
    BY <1>3, <2>1 DEF Part
  <2>3. i + 1 \in Int /\ j \in Int /\ j < i + 1
    OBVIOUS
  <2>4. QED
    BY <2>2, <2>3, SubSeqEmpty
<1>5. QED
  BY <1>2, <1>4, TrimNothing DEF resolve_kv, NULL

\* keyword= in front of w.
Pair(k, w) == <<Word(k), Equals>> \o w

\* Length and elements of a pair as it is written.
LEMMA PairIs ==
  ASSUME NEW k \in Words, NEW w \in Seq(Char)
  PROVE  /\ Pair(k, w) \in Seq(Char) /\ Len(Pair(k, w)) = Len(w) + 2 /\ Len(w) \in Nat
         /\ Pair(k, w)[1] = Word(k) /\ Pair(k, w)[2] = Equals
         /\ \A i \in 1 .. Len(w) : Pair(k, w)[2 + i] = w[i]
<1>h. PICK h : h = <<Word(k), Equals>>
  OBVIOUS
<1>1. h \in Seq(Char) /\ Len(h) = 2 /\ h[1] = Word(k) /\ h[2] = Equals
  <2>1. Word(k) \in Char /\ Equals \in Char
    BY Chars
  <2>2. QED
    BY <1>h, <2>1, FewChars
<1>2. /\ h \o w \in Seq(Char) /\ Len(w) \in Nat
      /\ Len(h \o w) = 2 + Len(w)
      /\ \A i \in 1 .. 2 : (h \o w)[i] = h[i]
      /\ \A i \in 1 .. Len(w) : (h \o w)[2 + i] = w[i]
  <2>1. /\ h \o w \in Seq(Char) /\ Len(w) \in Nat
        /\ Len(h \o w) = Len(h) + Len(w)
        /\ \A i \in 1 .. Len(h) : (h \o w)[i] = h[i]
        /\ \A i \in 1 .. Len(w) : (h \o w)[Len(h) + i] = w[i]
    BY <1>1, ConcatIs
  <2>2. Len(h) = 2
    BY <1>1
  <2>3. QED
    BY <2>1, <2>2
<1>3. h \o w = Pair(k, w)
  BY <1>h DEF Pair
<1>p. PICK p : p = h \o w
  OBVIOUS
<1>4. /\ p \in Seq(Char) /\ Len(w) \in Nat /\ Len(p) = Len(w) + 2
      /\ \A i \in 1 .. Len(w) : p[2 + i] = w[i]
  BY <1>2, <1>p
<1>5. p[1] = Word(k) /\ p[2] = Equals
  BY <1>1, <1>2, <1>p
<1>6. QED
  BY <1>3, <1>4, <1>5, <1>p

\* The value of a token is a part of what follows its first =, all of it if there is
\* neither a second = nor space to trim.
LEMMA ValueIs ==
  ASSUME NEW k \in Words, NEW w \in Seq(Char)
  PROVE  LET kv == resolve_kv(Pair(k, w))
         IN /\ kv.keyword = <<Word(k)>>
            /\ Part(kv.value, w)
            /\ (\A j \in 1 .. Len(w) : w[j] # Equals) => kv.value = Trim(w)
<1>s. PICK s : s = Pair(k, w)
  OBVIOUS
<1>1. /\ s \in Seq(Char) /\ Len(s) = Len(w) + 2 /\ Len(w) \in Nat
      /\ s[1] = Word(k) /\ s[2] = Equals
      /\ \A i \in 1 .. Len(w) : s[2 + i] = w[i]
  BY <1>s, PairIs
<1>2. Word(k) \in Char /\ Word(k) # Equals /\ Word(k) # Space
  BY Chars
<1>3. Upto(s, Equals) = SubSeq(s, 1, 1) /\ Len(Upto(s, Equals)) = 1
  <2>0. 1 \in 0 .. Len(s)
    BY <1>1
  <2>1. ASSUME NEW j \in 1 .. 1 PROVE s[j] # Equals
    <3>1. j = 1
      OBVIOUS
    <3>2. QED
      BY <1>1, <1>2, <3>1
  <2>2. 1 < Len(s) => s[1 + 1] = Equals
    BY <1>1
  <2>3. s \in Seq(Char)
    BY <1>1
  <2>n. PICK n : n = 1
    OBVIOUS
  <2>4. FirstAt(s, Equals, n)
    BY <2>0, <2>1, <2>2, <2>n DEF FirstAt
  <2>5. Upto(s, Equals) = SubSeq(s, 1, n)
    BY <2>3, <2>4, UptoFirst
  <2>6. QED
    BY <2>5, <2>n
<1>4. SubSeq(s, 1, 1) = <<Word(k)>>
  <2>1. 1 \in 1 .. Len(s) + 1 /\ 1 \in 1 - 1 .. Len(s)
    BY <1>1
  <2>2. SubSeq(s, 1, 1) \in Seq(Char) /\ Len(SubSeq(s, 1, 1)) = 1 /\ SubSeq(s, 1, 1)[1] = s[1]
    <3>1. 1 - 1 + 1 = 1 /\ 1 + 1 - 1 = 1 /\ 1 \in 1 .. 1 /\ s \in Seq(Char)
      BY <1>1
    <3>2. /\ SubSeq(s, 1, 1) \in Seq(Char) /\ Len(SubSeq(s, 1, 1)) = 1 - 1 + 1
          /\ \A i \in 1 .. 1 - 1 + 1 : SubSeq(s, 1, 1)[i] = s[1 + i - 1]
      BY <2>1, <3>1, SubSeqIs
    <3>3. QED
      BY <3>1, <3>2
  <2>r. PICK r : r = SubSeq(s, 1, 1)
    OBVIOUS
  <2>3. r \in Seq(Char) /\ Len(r) = 1 /\ r[1] = Word(k)
    BY <1>1, <2>2, <2>r
  <2>4. r = <<Word(k)>>
    BY <1>2, <2>3, FewChars
  <2>5. QED
    BY <2>4, <2>r
<1>5. Trim(<<Word(k)>>) = <<Word(k)>>
  <2>1. <<Word(k)>> \in Seq(Char) /\ Len(<<Word(k)>>) = 1 /\ <<Word(k)>>[1] = Word(k) /\ <<Word(k)>> # <<>>
    BY <1>2, FewChars
  <2>2. QED
    BY <1>2, <2>1, TrimWhole
<1>6. resolve_kv(s).keyword = <<Word(k)>>
  BY <1>3, <1>4, <1>5 DEF resolve_kv
<1>v. PICK v : v = Beyond(s, Equals)
  OBVIOUS
<1>later. PICK later : later = {i \in 2 .. Len(s) : s[i] # Equals}
  OBVIOUS
<1>7. v = IF later = {} THEN <<>> ELSE SubSeq(s, Min(later), Len(s))
  BY <1>3, <1>later, <1>v DEF Beyond
<1>8. \E m \in 0 .. Len(w) : v = SubSeq(w, m + 1, Len(w)) /\ (w # <<>> /\ w[1] # Equals => m = 0)
  <2>1. CASE later = {}
    <3>1. v = SubSeq(w, Len(w) + 1, Len(w))
      BY <1>7, <2>1, SubSeqEmpty
    <3>2. ASSUME w # <<>>, w[1] # Equals PROVE FALSE
      <4>1. 1 \in 1 .. Len(w) /\ 2 + 1 \in 2 .. Len(s)
        BY <1>1, <3>2
      <4>2. 2 + 1 \in later
        BY <1>1, <1>later, <3>2, <4>1
      <4>3. QED
        BY <2>1, <4>2
    <3>3. Len(w) \in 0 .. Len(w)
      BY <1>1
    <3>4. QED
      BY <3>1, <3>2, <3>3
  <2>2. CASE later # {}
    <3>1. later \in SUBSET Nat
      BY <1>later
    <3>a. PICK a : a = Min(later)
      OBVIOUS
    <3>2. a \in later /\ \A y \in later : a <= y
      BY <2>2, <3>1, <3>a, MinIs
    <3>3. a \in 3 .. Len(s)
      BY <1>1, <1>later, <3>2
    <3>4. v = SubSeq(s, a, Len(s))
      BY <1>7, <2>2, <3>a
    <3>m. PICK m : m = a - 3
      OBVIOUS
    <3>5. m \in 0 .. Len(w)
      BY <1>1, <3>3, <3>m
    <3>6. v \in Seq(Char) /\ Len(v) = Len(w) - m /\ \A i \in 1 .. Len(v) : v[i] = w[m + i]
      <4>1. a \in 1 .. Len(s) + 1 /\ Len(s) \in a - 1 .. Len(s)
        BY <1>1, <3>3
      <4>2. v \in Seq(Char) /\ Len(v) = Len(s) - a + 1 /\ \A i \in 1 .. Len(s) - a + 1 : v[i] = s[a + i - 1]
        BY <1>1, <3>4, <4>1, SubSeqIs
      <4>3. Len(s) - a + 1 = Len(w) - m
        BY <1>1, <3>3, <3>m
      <4>4. ASSUME NEW i \in 1 .. Len(v) PROVE v[i] = w[m + i]
        <5>1. i \in 1 .. Len(s) - a + 1 /\ i \in Nat
          BY <4>2
        <5>0. Len(w) \in Nat /\ Len(s) = Len(w) + 2 /\ a \in 3 .. Len(s) /\ m = a - 3
          BY <1>1, <3>3, <3>m
        <5>2. m + i \in 1 .. Len(w) /\ 2 + (m + i) = a + i - 1
          BY <5>0, <5>1
        <5>3. s[2 + (m + i)] = w[m + i]
          <6>j. PICK j : j = m + i
            OBVIOUS
          <6>1. j \in 1 .. Len(w)
            BY <5>2, <6>j
          <6>2. s[2 + j] = w[j]
            BY <1>1, <6>1
          <6>3. QED
            BY <6>2, <6>j
        <5>4. QED
          BY <4>2, <5>1, <5>2, <5>3
      <4>5. QED
        BY <4>2, <4>3, <4>4
    <3>7. v = SubSeq(w, m + 1, Len(w))
      <4>1. m + 1 \in 1 .. Len(w) + 1 /\ Len(w) \in (m + 1) - 1 .. Len(w) /\ Len(w) - (m + 1) + 1 = Len(w) - m
        BY <1>1, <3>5
      <4>2. \A i \in 1 .. Len(v) : v[i] = w[(m + 1) + i - 1]
        BY <3>5, <3>6
      <4>3. QED
        BY <3>6, <4>1, <4>2, SubSeqIs, SMTT(30)
    <3>8. ASSUME w # <<>>, w[1] # Equals PROVE m = 0
      <4>1. 1 \in 1 .. Len(w) /\ 3 \in 2 .. Len(s) /\ s[3] = w[1]
        BY <1>1, <3>8
      <4>2. 3 \in later
        BY <1>later, <3>8, <4>1
      <4>3. QED
        BY <3>2, <3>3, <3>m, <4>2
    <3>9. QED
      BY <3>5, <3>7, <3>8
  <2>3. QED
    BY <2>1, <2>2
<1>9. PICK m \in 0 .. Len(w) :
           v = SubSeq(w, m + 1, Len(w)) /\ (w # <<>> /\ w[1] # Equals => m = 0)
  BY <1>8
<1>10. resolve_kv(s).value = Trim(Upto(v, Equals))
  BY <1>v DEF resolve_kv
<1>11. Part(v, w)
  <2>1. Len(w) \in 0 .. Len(w)
    BY <1>1
  <2>2. QED
    BY <1>9, <2>1 DEF Part
<1>12. Part(Trim(Upto(v, Equals)), w)
  <2>1. v \in Seq(Char)
    BY <1>11, PartIs
  <2>2. Part(Upto(v, Equals), v)
    BY <2>1, UptoIsPart
  <2>3. Upto(v, Equals) \in Seq(Char)
    BY <2>1, <2>2, PartIs
  <2>4. Part(Trim(Upto(v, Equals)), Upto(v, Equals))
    BY <2>3, TrimIsPart
  <2>5. Part(Upto(v, Equals), w)
    BY <1>11, <2>2, PartTrans
  <2>6. QED
    BY <2>4, <2>5, PartTrans
<1>13. ASSUME \A j \in 1 .. Len(w) : w[j] # Equals PROVE Upto(v, Equals) = w
  <2>1. v = w
    <3>1. CASE w = <<>>
      <4>1. Len(w) = 0 /\ m = 0
        BY <3>1
      <4>2. QED
        BY <1>9, <3>1, <4>1, SubSeqEmpty
    <3>2. CASE w # <<>>
      <4>1. 1 \in 1 .. Len(w)
        BY <1>1, <3>2
      <4>2. m = 0
        BY <1>9, <1>13, <3>2, <4>1
      <4>3. QED
        BY <1>9, <4>2, SubSeqFull
    <3>3. QED
      BY <3>1, <3>2
  <2>2. Upto(w, Equals) = SubSeq(w, 1, Len(w))
    <3>1. Len(w) \in 0 .. Len(w)
      BY <1>1
    <3>2. QED
      BY <1>13, <3>1, UptoAt
  <2>3. QED
    BY <2>1, <2>2, SubSeqFull
<1>14. QED
  BY <1>6, <1>10, <1>12, <1>13, <1>s

\* keyword=u is one pair and tokens without =, if no = follows a comma in u.
LEMMA PairOf ==
  ASSUME NEW k \in Words, NEW u \in Seq(Char), ~Mimics(u)
  PROVE  /\ Upto(u, Comma) \in Seq(Char)
         /\ Pairs(Pair(k, u)) = {P \in {resolve_kv(Pair(k, Upto(u, Comma)))} : Counts(P)}
<1>t. PICK t : t = Pair(k, u)
  OBVIOUS
<1>1. /\ t \in Seq(Char) /\ Len(t) = Len(u) + 2 /\ Len(u) \in Nat
      /\ t[1] = Word(k) /\ t[2] = Equals
      /\ \A i \in 1 .. Len(u) : t[2 + i] = u[i]
  BY <1>t, PairIs
<1>2. Word(k) # Comma /\ Equals # Comma
  BY Chars
<1>3. PICK n \in 0 .. Len(u) :
           /\ Upto(u, Comma) = SubSeq(u, 1, n) /\ \A j \in 1 .. n : u[j] # Comma
           /\ n < Len(u) => u[n + 1] = Comma
  BY UptoIs
<1>w. PICK w : w = Upto(u, Comma)
  OBVIOUS
<1>4. w \in Seq(Char) /\ Len(w) = n /\ \A j \in 1 .. n : w[j] = u[j]
  BY <1>3, <1>w, UptoAt
<1>5. TokenAt(t, 1) = Pair(k, w)
  <2>m. PICK m : m = n + 2
    OBVIOUS
  <2>1. 1 \in 1 .. Len(t) /\ m \in 1 - 1 .. Len(t)
    BY <1>1, <1>3, <2>m
  <2>2. ASSUME NEW j \in 1 .. m PROVE t[j] # Comma
    <3>1. CASE j \in {1, 2}
      BY <1>1, <1>2, <3>1
    <3>2. CASE j \notin {1, 2}
      <4>1. j - 2 \in 1 .. n /\ j - 2 \in 1 .. Len(u) /\ 2 + (j - 2) = j
        BY <1>1, <1>3, <2>m, <3>2
      <4>2. QED
        BY <1>1, <1>3, <4>1
    <3>3. QED
      BY <3>1, <3>2
  <2>3. ASSUME m < Len(t) PROVE t[m + 1] = Comma
    <3>1. n + 1 \in 1 .. Len(u) /\ 2 + (n + 1) = m + 1 /\ n < Len(u)
      BY <1>1, <1>3, <2>m, <2>3
    <3>2. QED
      BY <1>1, <1>3, <3>1
  <2>4. TokenAt(t, 1) = SubSeq(t, 1, m)
    <3>1. t \in Seq(Char)
      BY <1>1
    <3>2. \A j \in 1 .. m : t[j] # Comma
      BY <2>2
    <3>3. m < Len(t) => t[m + 1] = Comma
      BY <2>3
    <3>4. QED
      BY <2>1, <3>1, <3>2, <3>3, TokenAtIs
  <2>p. PICK p : p = Pair(k, w)
    OBVIOUS
  <2>5. /\ p \in Seq(Char) /\ Len(p) = m
        /\ p[1] = Word(k) /\ p[2] = Equals
        /\ \A i \in 1 .. n : p[2 + i] = w[i]
    BY <1>3, <1>4, <2>p, <2>m, PairIs
  <2>6. ASSUME NEW j \in 1 .. m PROVE p[j] = t[j]
    <3>1. CASE j \in {1, 2}
      BY <1>1, <2>5, <3>1
    <3>2. CASE j \notin {1, 2}
      <4>1. j - 2 \in 1 .. n /\ j - 2 \in 1 .. Len(u) /\ 2 + (j - 2) = j
        BY <1>1, <1>3, <2>m, <3>2
      <4>2. p[j] = w[j - 2] /\ t[j] = u[j - 2]
        BY <1>1, <2>5, <4>1
      <4>3. QED
        BY <1>4, <4>1, <4>2
    <3>3. QED
      BY <3>1, <3>2
  <2>7. p = SubSeq(t, 1, m)
    <3>1. 1 \in 1 .. Len(t) + 1 /\ Len(p) = m - 1 + 1
      BY <1>1, <1>3, <2>5, <2>m
    <3>2. \A j \in 1 .. Len(p) : p[j] = t[1 + j - 1]
      BY <2>5, <2>6
    <3>3. p \in Seq(Char) /\ t \in Seq(Char)
      BY <1>1, <2>5
    <3>4. QED
      BY <2>1, <3>1, <3>2, <3>3, SubSeqIs
  <2>8. QED
    BY <2>4, <2>7, <2>p
<1>6. 1 \in Starts(t)
  BY <1>1, <1>2 DEF Starts
<1>7. ASSUME NEW i \in Starts(t), i # 1 PROVE resolve_kv(TokenAt(t, i)).value = NULL
  <2>1. i \in 1 .. Len(t) /\ t[i - 1] = Comma
    BY <1>7 DEF Starts
  <2>2. i - 1 # 1 /\ i - 1 # 2
    BY <1>1, <1>2, <2>1
  <2>3. i - 3 \in 1 .. Len(u) /\ 2 + (i - 3) = i - 1
    BY <1>1, <1>7, <2>1, <2>2
  <2>4. u[i - 3] = Comma
    BY <1>1, <2>1, <2>3
  <2>5. PICK m \in i - 1 .. Len(t) :
             (\A j \in i .. m : t[j] # Comma) /\ (m < Len(t) => t[m + 1] = Comma)
    BY <1>1, <2>1, TokenEnds
  <2>r. PICK r : r = TokenAt(t, i)
    OBVIOUS
  <2>6. r = SubSeq(t, i, m)
    BY <1>1, <2>1, <2>5, <2>r, TokenAtIs
  <2>7. r \in Seq(Char) /\ Len(r) = m - i + 1 /\ \A j \in 1 .. m - i + 1 : r[j] = t[i + j - 1]
    <3>1. i \in 1 .. Len(t) + 1 /\ m \in i - 1 .. Len(t) /\ t \in Seq(Char)
      BY <1>1, <2>1
    <3>2. QED
      BY <2>6, <3>1, SubSeqIs
  <2>8. ASSUME NEW j \in 1 .. Len(r) PROVE r[j] # Equals
    <3>1. j \in 1 .. m - i + 1
      BY <2>7
    <3>2. i + j - 3 \in 1 .. Len(u) /\ 2 + (i + j - 3) = i + j - 1 /\ i - 3 < i + j - 3
      BY <1>1, <2>1, <2>3, <3>1
    <3>3. r[j] = u[i + j - 3]
      BY <1>1, <2>7, <3>1, <3>2
    <3>4. u[i + j - 3] # Equals
      BY <2>3, <2>4, <3>2 DEF Mimics
    <3>5. QED
      BY <3>3, <3>4
  <2>9. QED
    BY <2>7, <2>8, <2>r, NoValue
<1>8. \A P \in Pairs(t) : P = resolve_kv(Pair(k, w)) /\ Counts(P)
  BY <1>5, <1>7 DEF Pairs, Counts
<1>9. Counts(resolve_kv(Pair(k, w))) => resolve_kv(Pair(k, w)) \in Pairs(t)
  BY <1>5, <1>6 DEF Pairs
<1>10. QED
  BY <1>4, <1>8, <1>9, <1>t, <1>w

PairRecord(k, x) == [keyword |-> <<Word(k)>>, value |-> x]

\* S is what can be read out of a pair that was written with keyword k and text v.
Carries(S, k, v) ==
  \E x : /\ Part(x, v) /\ (Clean(v) => x = v)
         /\ S = IF x = NULL THEN {} ELSE {PairRecord(k, x)}

\* Neither the separators nor the trimming of the protocol change a clean text.
LEMMA CleanIs ==
  ASSUME NEW v \in Seq(Char), Clean(v)
  PROVE  /\ Upto(v, Comma) = v /\ Trim(v) = v
         /\ TrimRight(v, {Comma, Equals, Dot, Space}) = v
         /\ \A j \in 1 .. Len(v) : v[j] # Equals
<1>1. /\ v = Trim(v) /\ v = TrimRight(v, {Comma, Equals, Dot, Space})
      /\ \A j \in 1 .. Len(v) : v[j] # Comma /\ v[j] # Equals
  BY DEF Clean, Trimmed
<1>2. Len(v) \in 0 .. Len(v)
  OBVIOUS
<1>3. Upto(v, Comma) = SubSeq(v, 1, Len(v))
  BY <1>1, <1>2, UptoAt
<1>4. QED
  BY <1>1, <1>3, SubSeqFull

\* A pair as it is written is read as its keyword and a part of its text, the whole of a clean one.
LEMMA PairCarries ==
  ASSUME NEW k \in Words, NEW v \in Seq(Char), NEW u \in Seq(Char), ~Mimics(u),
         Part(Upto(u, Comma), v), Clean(v) => Upto(u, Comma) = v
  PROVE  Carries(Pairs(Pair(k, u)), k, v)
<1>w. PICK w : w = Upto(u, Comma)
  OBVIOUS
<1>P. PICK P : P = resolve_kv(Pair(k, w))
  OBVIOUS
<1>1. w \in Seq(Char) /\ Pairs(Pair(k, u)) = {Q \in {P} : Counts(Q)}
  BY <1>w, <1>P, PairOf
<1>2. /\ P.keyword = <<Word(k)>> /\ Part(P.value, w)
      /\ (\A j \in 1 .. Len(w) : w[j] # Equals) => P.value = Trim(w)
  BY <1>1, <1>P, ValueIs
<1>3. P = PairRecord(k, P.value)
  BY <1>2, <1>P DEF resolve_kv, PairRecord
<1>4. Part(P.value, v)
  BY <1>2, <1>w, PartTrans
<1>5. ASSUME Clean(v) PROVE P.value = v
  BY <1>2, <1>5, <1>w, CleanIs
<1>6. <<Word(k)>> # NULL
  BY DEF NULL
<1>7. Pairs(Pair(k, u)) = IF P.value = NULL THEN {} ELSE {P}
  BY <1>1, <1>2, <1>6 DEF Counts
<1>8. QED
  BY <1>3, <1>4, <1>5, <1>7 DEF Carries

Ends == {Comma, Equals, Dot, Space}

\* Trimming on the right leaves what stands before a solid character.
LEMMA TrimConcat ==
  ASSUME NEW s \in Seq(Char), NEW t \in Seq(Char), NEW E,
         NEW i \in 1 .. Len(t), t[i] \notin E
  PROVE  TrimRight(s \o t, E) = s \o TrimRight(t, E)
<1>1. PICK n \in 0 .. Len(t) :
           /\ TrimRight(t, E) = SubSeq(t, 1, n)
           /\ \A j \in n + 1 .. Len(t) : t[j] \in E
           /\ n > 0 => t[n] \notin E
  BY TrimRightIs
<1>2. n > 0
  BY <1>1
<1>c. PICK c : c = s \o t
  OBVIOUS
<1>3. /\ c \in Seq(Char) /\ Len(s) \in Nat /\ Len(t) \in Nat
      /\ Len(c) = Len(s) + Len(t)
      /\ \A j \in 1 .. Len(s) : c[j] = s[j]
      /\ \A j \in 1 .. Len(t) : c[Len(s) + j] = t[j]
  BY <1>c, ConcatIs
<1>m. PICK m : m = Len(s) + n
  OBVIOUS
<1>4. m \in 0 .. Len(c) /\ n \in 1 .. Len(t)
  BY <1>2, <1>3, <1>m
<1>5. c[m] \notin E
  BY <1>1, <1>2, <1>3, <1>4, <1>m
<1>6. ASSUME NEW j \in m + 1 .. Len(c) PROVE c[j] \in E
  <2>1. j - Len(s) \in n + 1 .. Len(t) /\ j - Len(s) \in 1 .. Len(t) /\ Len(s) + (j - Len(s)) = j
    BY <1>3, <1>4, <1>m
  <2>2. QED
    BY <1>1, <1>3, <2>1
<1>7. TrimRight(c, E) = SubSeq(c, 1, m)
  <2>1. \A j \in m + 1 .. Len(c) : c[j] \in E
    BY <1>6
  <2>2. c \in Seq(Char)
    BY <1>3
  <2>3. QED
    BY <1>4, <1>5, <2>1, <2>2, TrimRightAt
<1>r. PICK r : r = SubSeq(t, 1, n)
  OBVIOUS
<1>8. r \in Seq(Char) /\ Len(r) = n /\ \A j \in 1 .. n : r[j] = t[j]
  <2>1. 1 \in 1 .. Len(t) + 1 /\ n \in 1 - 1 .. Len(t)
    BY <1>4
  <2>2. /\ r \in Seq(Char) /\ Len(r) = n - 1 + 1
        /\ \A j \in 1 .. n - 1 + 1 : r[j] = t[1 + j - 1]
    BY <1>r, <2>1, SubSeqIs
  <2>3. QED
    BY <1>4, <2>2
<1>p. PICK p : p = s \o r
  OBVIOUS
<1>9. /\ p \in Seq(Char) /\ Len(p) = Len(s) + n
      /\ \A j \in 1 .. Len(s) : p[j] = s[j]
      /\ \A j \in 1 .. n : p[Len(s) + j] = r[j]
  BY <1>8, <1>p, ConcatIs
<1>10. ASSUME NEW j \in 1 .. Len(p) PROVE p[j] = c[1 + j - 1]
  <2>1. 1 + j - 1 = j
    BY <1>3, <1>4, <1>9
  <2>2. CASE j \in 1 .. Len(s)
    BY <1>3, <1>9, <2>1, <2>2
  <2>3. CASE j \notin 1 .. Len(s)
    <3>1. j - Len(s) \in 1 .. n /\ j - Len(s) \in 1 .. Len(t) /\ Len(s) + (j - Len(s)) = j
      BY <1>3, <1>4, <1>9, <2>3
    <3>2. p[j] = r[j - Len(s)] /\ c[j] = t[j - Len(s)]
      BY <1>3, <1>9, <3>1
    <3>3. QED
      BY <1>8, <2>1, <3>1, <3>2
  <2>4. QED
    BY <2>2, <2>3
<1>11. p = SubSeq(c, 1, m)
  <2>1. /\ 1 \in 1 .. Len(c) + 1 /\ m \in 1 - 1 .. Len(c) /\ Len(p) = m - 1 + 1
        /\ p \in Seq(Char) /\ c \in Seq(Char)
    BY <1>3, <1>4, <1>9, <1>m
  <2>2. \A j \in 1 .. Len(p) : p[j] = c[1 + j - 1]
    BY <1>10
  <2>3. QED
    BY <2>1, <2>2, SubSeqIs
<1>12. QED
  BY <1>1, <1>7, <1>11, <1>c, <1>p, <1>r

\* In particular if that is the first of what follows.
LEMMA TrimBehind ==
  ASSUME NEW s \in Seq(Char), NEW t \in Seq(Char), NEW E, t # <<>>, t[1] \notin E
  PROVE  TrimRight(s \o t, E) = s \o TrimRight(t, E)
<1>1. 1 \in 1 .. Len(t)
  OBVIOUS
<1>i. PICK i : i = 1
  OBVIOUS
<1>2. i \in 1 .. Len(t) /\ t[i] \notin E
  BY <1>1, <1>i
<1>3. QED
  BY <1>2, TrimConcat

\* Nothing is left of what follows the last character that stays.
LEMMA TrimTail ==
  ASSUME NEW s \in Seq(Char), NEW t \in Seq(Char), NEW E,
         \A i \in 1 .. Len(t) : t[i] \in E
  PROVE  TrimRight(s \o t, E) = TrimRight(s, E)
<1>1. PICK n \in 0 .. Len(s) :
           /\ TrimRight(s, E) = SubSeq(s, 1, n)
           /\ \A j \in n + 1 .. Len(s) : s[j] \in E
           /\ n > 0 => s[n] \notin E
  BY TrimRightIs
<1>c. PICK c : c = s \o t
  OBVIOUS
<1>2. /\ c \in Seq(Char) /\ Len(s) \in Nat /\ Len(t) \in Nat
      /\ Len(c) = Len(s) + Len(t)
      /\ \A j \in 1 .. Len(s) : c[j] = s[j]
      /\ \A j \in 1 .. Len(t) : c[Len(s) + j] = t[j]
  BY <1>c, ConcatIs
<1>3. n \in 0 .. Len(c)
  BY <1>2
<1>4. n > 0 => c[n] \notin E
  BY <1>1, <1>2
<1>5. ASSUME NEW j \in n + 1 .. Len(c) PROVE c[j] \in E
  <2>1. CASE j \in 1 .. Len(s)
    <3>1. j \in n + 1 .. Len(s)
      BY <2>1
    <3>2. QED
      BY <1>1, <1>2, <2>1, <3>1
  <2>2. CASE j \notin 1 .. Len(s)
    <3>1. j - Len(s) \in 1 .. Len(t) /\ Len(s) + (j - Len(s)) = j
      BY <1>2, <2>2
    <3>2. QED
      BY <1>2, <3>1
  <2>3. QED
    BY <2>1, <2>2
<1>6. TrimRight(c, E) = SubSeq(c, 1, n)
  <2>1. \A j \in n + 1 .. Len(c) : c[j] \in E
    BY <1>5
  <2>2. c \in Seq(Char)
    BY <1>2
  <2>3. QED
    BY <1>3, <1>4, <2>1, <2>2, TrimRightAt
<1>7. SubSeq(c, 1, n) = SubSeq(s, 1, n)
  <2>r. PICK r : r = SubSeq(c, 1, n)
    OBVIOUS
  <2>1. 1 \in 1 .. Len(c) + 1 /\ n \in 1 - 1 .. Len(c) /\ 1 \in 1 .. Len(s) + 1 /\ n \in 1 - 1 .. Len(s)
    BY <1>2, <1>3
  <2>2. /\ r \in Seq(Char) /\ Len(r) = n - 1 + 1
        /\ \A j \in 1 .. n - 1 + 1 : r[j] = c[1 + j - 1]
    BY <1>2, <2>1, <2>r, SubSeqIs
  <2>3. ASSUME NEW j \in 1 .. Len(r) PROVE r[j] = s[1 + j - 1]
    <3>1. j \in 1 .. n - 1 + 1 /\ 1 + j - 1 \in 1 .. Len(s)
      BY <2>2
    <3>2. QED
      BY <1>2, <2>2, <3>1
  <2>4. QED
    BY <2>1, <2>2, <2>3, <2>r, SubSeqIs
<1>8. QED
  BY <1>1, <1>6, <1>7, <1>c

-----------------------------------------------------------------------------
(* A pair and the comma behind it                                          *)

\* join_kv writes the pair and the comma behind it.
LEMMA JoinIs ==
  ASSUME NEW k \in Words, NEW v \in Seq(Char)
  PROVE  /\ v \o <<Comma>> \in Seq(Char) /\ join_kv(k, v) = Pair(k, v \o <<Comma>>)
         /\ join_kv(k, v) \in Seq(Char) /\ Open(join_kv(k, v))
         /\ join_kv(k, v) # <<>> /\ join_kv(k, v)[1] = Word(k)
<1>1. Word(k) \in Char /\ Equals \in Char /\ Comma \in Char
  BY Chars
<1>h. PICK h : h = <<Word(k), Equals>>
  OBVIOUS
<1>c. PICK c : c = <<Comma>>
  OBVIOUS
<1>2. h \in Seq(Char) /\ c \in Seq(Char) /\ Len(c) = 1 /\ c[1] = Comma
  BY <1>1, <1>h, <1>c, FewChars
<1>3. (h \o v) \o c = h \o (v \o c)
  BY <1>2, ConcatAssociative
<1>u. PICK u : u = v \o c
  OBVIOUS
<1>4. u \in Seq(Char) /\ Len(u) = Len(v) + 1 /\ Len(v) \in Nat /\ u[Len(v) + 1] = Comma
  <2>1. /\ v \o c \in Seq(Char) /\ Len(v) \in Nat
        /\ Len(v \o c) = Len(v) + Len(c)
        /\ \A i \in 1 .. Len(c) : (v \o c)[Len(v) + i] = c[i]
    BY <1>2, ConcatIs
  <2>2. QED
    BY <1>2, <1>u, <2>1
<1>5. join_kv(k, v) = Pair(k, u)
  BY <1>3, <1>h, <1>c, <1>u DEF join_kv, Pair
<1>p. PICK p : p = Pair(k, u)
  OBVIOUS
<1>6. /\ p \in Seq(Char) /\ Len(p) = Len(u) + 2 /\ p[1] = Word(k)
      /\ \A i \in 1 .. Len(u) : p[2 + i] = u[i]
  BY <1>4, <1>p, PairIs
<1>7. Len(p) = 2 + (Len(v) + 1) /\ Len(v) + 1 \in 1 .. Len(u)
  BY <1>4, <1>6
<1>8. p[Len(p)] = Comma
  BY <1>4, <1>6, <1>7
<1>9. p # <<>>
  BY <1>4, <1>6
<1>10. QED
  BY <1>4, <1>5, <1>6, <1>8, <1>9, <1>c, <1>u, <1>p DEF Open

\* A comma behind v makes no pair of it, and is not in it.
LEMMA WithComma ==
  ASSUME NEW v \in Seq(Char)
  PROVE  /\ Upto(v \o <<Comma>>, Comma) = Upto(v, Comma)
         /\ ~Mimics(v) => ~Mimics(v \o <<Comma>>)
<1>c. PICK c : c = <<Comma>>
  OBVIOUS
<1>1. c \in Seq(Char) /\ Len(c) = 1 /\ c[1] = Comma
  BY <1>c, FewChars, Chars
<1>u. PICK u : u = v \o c
  OBVIOUS
<1>2. /\ u \in Seq(Char) /\ Len(u) = Len(v) + 1 /\ Len(v) \in Nat /\ u[Len(v) + 1] = Comma
      /\ \A i \in 1 .. Len(v) : u[i] = v[i]
  <2>1. /\ v \o c \in Seq(Char) /\ Len(v) \in Nat
        /\ Len(v \o c) = Len(v) + Len(c)
        /\ \A i \in 1 .. Len(v) : (v \o c)[i] = v[i]
        /\ \A i \in 1 .. Len(c) : (v \o c)[Len(v) + i] = c[i]
    BY <1>1, ConcatIs
  <2>2. QED
    BY <1>1, <1>u, <2>1
<1>3. PICK n \in 0 .. Len(v) :
           /\ Upto(v, Comma) = SubSeq(v, 1, n) /\ \A j \in 1 .. n : v[j] # Comma
           /\ n < Len(v) => v[n + 1] = Comma
  BY UptoIs
<1>4. Upto(u, Comma) = SubSeq(u, 1, n)
  <2>1. n \in 0 .. Len(u) /\ u \in Seq(Char)
    BY <1>2
  <2>2. \A j \in 1 .. n : u[j] # Comma
    BY <1>2, <1>3
  <2>3. n < Len(u) => u[n + 1] = Comma
    <3>1. CASE n = Len(v)
      BY <1>2, <3>1
    <3>2. CASE n < Len(v)
      <4>1. n + 1 \in 1 .. Len(v)
        BY <1>2, <3>2
      <4>2. QED
        BY <1>2, <1>3, <3>2, <4>1
    <3>3. QED
      BY <1>2, <3>1, <3>2
  <2>4. QED
    BY <2>1, <2>2, <2>3, UptoAt
<1>5. SubSeq(u, 1, n) = SubSeq(v, 1, n)
  <2>r. PICK r : r = SubSeq(u, 1, n)
    OBVIOUS
  <2>1. 1 \in 1 .. Len(u) + 1 /\ n \in 1 - 1 .. Len(u) /\ 1 \in 1 .. Len(v) + 1 /\ n \in 1 - 1 .. Len(v)
    BY <1>2
  <2>2. /\ r \in Seq(Char) /\ Len(r) = n - 1 + 1
        /\ \A j \in 1 .. n - 1 + 1 : r[j] = u[1 + j - 1]
    BY <1>2, <2>1, <2>r, SubSeqIs
  <2>3. ASSUME NEW j \in 1 .. Len(r) PROVE r[j] = v[1 + j - 1]
    <3>1. j \in 1 .. n - 1 + 1 /\ 1 + j - 1 \in 1 .. Len(v)
      BY <1>2, <2>2
    <3>2. QED
      BY <1>2, <2>2, <3>1
  <2>4. QED
    BY <2>1, <2>2, <2>3, <2>r, SubSeqIs
<1>6. ASSUME Mimics(u) PROVE Mimics(v)
  <2>1. PICK i \in 1 .. Len(u), j \in 1 .. Len(u) : i < j /\ u[i] = Comma /\ u[j] = Equals
    BY <1>6 DEF Mimics
  <2>2. j # Len(v) + 1
    BY <1>2, <2>1, Chars
  <2>3. i \in 1 .. Len(v) /\ j \in 1 .. Len(v)
    BY <1>2, <2>1, <2>2
  <2>4. QED
    BY <1>2, <2>1, <2>3 DEF Mimics
<1>7. QED
  BY <1>3, <1>4, <1>5, <1>6, <1>c, <1>u

\* Of a pair with its comma only that pair is read, unless the text imitates another.
LEMMA CommaCarries ==
  ASSUME NEW k \in Words, NEW v \in Seq(Char), ~Mimics(v)
  PROVE  Carries(Pairs(join_kv(k, v)), k, v)
<1>u. PICK u : u = v \o <<Comma>>
  OBVIOUS
<1>1. u \in Seq(Char) /\ join_kv(k, v) = Pair(k, u)
  BY <1>u, JoinIs
<1>2. Upto(u, Comma) = Upto(v, Comma) /\ ~Mimics(u)
  BY <1>u, WithComma
<1>3. Part(Upto(u, Comma), v)
  BY <1>2, UptoIsPart
<1>4. Clean(v) => Upto(u, Comma) = v
  BY <1>2, CleanIs
<1>5. QED
  BY <1>1, <1>2, <1>3, <1>4, PairCarries

\* What is written last loses its comma, and the dots and separators before it.
LEMMA TrimCarries ==
  ASSUME NEW k \in Words, NEW v \in Seq(Char)
  PROVE  LET t == TrimRight(join_kv(k, v), Ends)
         IN /\ t \in Seq(Char) /\ t # <<>> /\ t[1] = Word(k)
            /\ ~Mimics(v) => Carries(Pairs(t), k, v)
<1>h. PICK h : h = <<Word(k), Equals>>
  OBVIOUS
<1>c. PICK c : c = <<Comma>>
  OBVIOUS
<1>1. /\ Word(k) \in Char /\ Equals \in Char /\ Comma \in Char
      /\ Equals \in Ends /\ Comma \in Ends /\ Word(k) \notin Ends
  BY Chars DEF Ends
<1>2. /\ h \in Seq(Char) /\ Len(h) = 2 /\ h[1] = Word(k) /\ h[2] = Equals
      /\ c \in Seq(Char) /\ Len(c) = 1 /\ c[1] = Comma
  BY <1>1, <1>h, <1>c, FewChars
<1>t. PICK t : t = TrimRight(join_kv(k, v), Ends)
  OBVIOUS
<1>3. v \o c \in Seq(Char) /\ join_kv(k, v) = h \o (v \o c)
  BY <1>h, <1>c, JoinIs DEF Pair
<1>4. CASE \E i \in 1 .. Len(v) : v[i] \notin Ends
  <2>1. PICK i \in 1 .. Len(v) : v[i] \notin Ends
    BY <1>4
  <2>2. i \in 1 .. Len(v \o c) /\ (v \o c)[i] \notin Ends
    <3>1. Len(v) \in Nat /\ Len(v \o c) = Len(v) + Len(c) /\ \A j \in 1 .. Len(v) : (v \o c)[j] = v[j]
      BY <1>2, ConcatIs
    <3>2. QED
      BY <1>2, <2>1, <3>1
  <2>3. TrimRight(h \o (v \o c), Ends) = h \o TrimRight(v \o c, Ends)
    <3>x. PICK x : x = v \o c
      OBVIOUS
    <3>1. x \in Seq(Char) /\ i \in 1 .. Len(x) /\ x[i] \notin Ends
      BY <1>3, <2>2, <3>x
    <3>2. TrimRight(h \o x, Ends) = h \o TrimRight(x, Ends)
      BY <1>2, <3>1, TrimConcat, SMTT(30)
    <3>3. QED
      BY <3>2, <3>x
  <2>4. TrimRight(v \o c, Ends) = TrimRight(v, Ends)
    <3>1. \A j \in 1 .. Len(c) : c[j] \in Ends
      BY <1>1, <1>2
    <3>2. QED
      BY <1>2, <3>1, TrimTail
  <2>u. PICK u : u = TrimRight(v, Ends)
    OBVIOUS
  <2>5. t = Pair(k, u)
    BY <1>3, <1>h, <1>t, <2>3, <2>4, <2>u DEF Pair
  <2>6. PICK n \in 0 .. Len(v) : u = SubSeq(v, 1, n)
    BY <2>u, TrimRightIs
  <2>7. u \in Seq(Char) /\ Len(u) = n /\ \A j \in 1 .. n : u[j] = v[j]
    <3>1. 1 \in 1 .. Len(v) + 1 /\ n \in 1 - 1 .. Len(v) /\ n - 1 + 1 = n
      OBVIOUS
    <3>2. /\ u \in Seq(Char) /\ Len(u) = n - 1 + 1
          /\ \A j \in 1 .. n - 1 + 1 : u[j] = v[1 + j - 1]
      BY <2>6, <3>1, SubSeqIs
    <3>3. QED
      BY <3>1, <3>2
  <2>8. t \in Seq(Char) /\ Len(t) = Len(u) + 2 /\ Len(u) \in Nat /\ t[1] = Word(k)
    BY <2>5, <2>7, PairIs
  <2>9. t # <<>>
    BY <2>8
  <2>10. ASSUME ~Mimics(v) PROVE Carries(Pairs(t), k, v)
    <3>1. ~Mimics(u)
      <4>1. \A j \in 1 .. Len(u) : j \in 1 .. Len(v) /\ u[j] = v[j]
        BY <2>7
      <4>2. QED
        BY <2>10, <4>1 DEF Mimics
    <3>2. Part(Upto(u, Comma), v)
      <4>1. Part(Upto(u, Comma), u)
        BY <2>7, UptoIsPart
      <4>2. Part(u, v)
        BY <2>u, TrimRightIsPart
      <4>3. QED
        BY <4>1, <4>2, PartTrans
    <3>3. Clean(v) => Upto(u, Comma) = v
      BY <2>u, CleanIs DEF Ends
    <3>4. QED
      BY <2>5, <2>7, <3>1, <3>2, <3>3, PairCarries
  <2>11. QED
    BY <1>t, <2>8, <2>9, <2>10
<1>5. CASE \A i \in 1 .. Len(v) : v[i] \in Ends
  <2>1. \A j \in 1 .. Len(v \o c) : (v \o c)[j] \in Ends
    <3>1. /\ Len(v) \in Nat /\ Len(v \o c) = Len(v) + 1
          /\ \A j \in 1 .. Len(v) : (v \o c)[j] = v[j]
          /\ (v \o c)[Len(v) + 1] = c[1]
      <4>1. /\ Len(v) \in Nat /\ Len(v \o c) = Len(v) + Len(c)
            /\ \A j \in 1 .. Len(v) : (v \o c)[j] = v[j]
            /\ \A j \in 1 .. Len(c) : (v \o c)[Len(v) + j] = c[j]
        BY <1>2, ConcatIs
      <4>2. QED
        BY <1>2, <4>1
    <3>2. ASSUME NEW j \in 1 .. Len(v \o c) PROVE (v \o c)[j] \in Ends
      <4>1. j \in 1 .. Len(v) \/ j = Len(v) + 1
        BY <3>1
      <4>2. QED
        BY <1>1, <1>2, <1>5, <3>1, <4>1
    <3>3. QED
      BY <3>2
  <2>2. TrimRight(h \o (v \o c), Ends) = TrimRight(h, Ends)
    BY <1>2, <1>3, <2>1, TrimTail
  <2>3. TrimRight(h, Ends) = SubSeq(h, 1, 1)
    <3>1. 1 \in 0 .. Len(h) /\ \A j \in 1 + 1 .. Len(h) : h[j] \in Ends
      BY <1>1, <1>2
    <3>2. 1 > 0 => h[1] \notin Ends
      BY <1>1, <1>2
    <3>3. QED
      BY <1>2, <3>1, <3>2, TrimRightAt
  <2>4. t = SubSeq(h, 1, 1)
    BY <1>3, <1>t, <2>2, <2>3
  <2>5. t \in Seq(Char) /\ Len(t) = 1 /\ t[1] = Word(k)
    <3>1. 1 \in 1 .. Len(h) + 1 /\ 1 \in 1 - 1 .. Len(h)
      BY <1>2
    <3>2. t \in Seq(Char) /\ Len(t) = 1 - 1 + 1 /\ \A j \in 1 .. 1 - 1 + 1 : t[j] = h[1 + j - 1]
      BY <1>2, <2>4, <3>1, SubSeqIs
    <3>3. QED
      BY <1>2, <3>2
  <2>6. t # <<>>
    <3>1. Len(<<>>) = 0 /\ Len(t) = 1 /\ 0 # 1
      BY <2>5
    <3>2. QED
      BY <3>1, Zenon
  <2>7. Pairs(t) = {}
    <3> SUFFICES ASSUME NEW i \in Starts(t) PROVE resolve_kv(TokenAt(t, i)).value = NULL
      BY DEF Pairs, Counts
    <3>1. i \in 1 .. Len(t)
      BY DEF Starts
    <3>2. i = 1
      BY <2>5, <3>1
    <3>r. PICK r : r = TokenAt(t, 1)
      OBVIOUS
    <3>3. r = SubSeq(t, 1, 1) /\ r \in Seq(Char)
      <4>1. 1 \in 1 .. Len(t) /\ 1 \in 1 - 1 .. Len(t) /\ (1 < Len(t) => t[1 + 1] = Comma)
        BY <2>5
      <4>2. \A j \in 1 .. 1 : t[j] # Comma
        BY <1>1, <2>5
      <4>3. QED
        BY <2>5, <3>r, <4>1, <4>2, TokenAtIs
    <3>4. r = t
      BY <2>5, <3>3, SubSeqFull
    <3>5. \A j \in 1 .. Len(r) : r[j] # Equals
      <4>1. t[1] # Equals /\ Len(r) = 1 /\ r[1] = t[1]
        BY <2>5, <3>4, Chars
      <4>2. QED
        BY <4>1
    <3>6. QED
      BY <3>2, <3>3, <3>5, <3>r, NoValue
  <2>8. ASSUME Clean(v) PROVE v = <<>>
    <3>1. v = TrimRight(v, Ends)
      BY <2>8, CleanIs DEF Ends
    <3>2. Solid(v, Ends) = {}
      BY <1>5 DEF Solid
    <3>3. QED
      BY <3>1, <3>2 DEF TrimRight
  <2>9. Carries(Pairs(t), k, v)
    BY <2>7, <2>8, WholeIsPart DEF Carries, NULL
  <2>10. QED
    BY <1>t, <2>5, <2>6, <2>9
<1>6. QED
  BY <1>4, <1>5

-----------------------------------------------------------------------------
(* The kinds of protocol: constructor and resolver agree                   *)

\* The fields of a protocol itself: neither its type nor who and when.
Common == Base \cup {"type"}

IsFunction(p) == p = [f \in DOMAIN p |-> p[f]]

IsProto(p, type, fields) ==
  /\ DOMAIN p = Common \cup DOMAIN fields /\ p.type = type /\ IsFunction(p)
  /\ \A f \in Base : p[f] = NULL
  /\ \A f \in DOMAIN fields : p[f] = fields[f]

\* What Proto makes of a type and the fields of its class.
LEMMA ProtoIs ==
  ASSUME NEW type, NEW fields, NEW p, p = Proto(type, fields),
         \A f \in DOMAIN fields : f \notin Common
  PROVE  IsProto(p, type, fields)
<1>1. DOMAIN ascii_proto_base = Common /\ \A f \in Base : ascii_proto_base[f] = NULL /\ f # "type"
  BY DEF ascii_proto_base, Base, Common
<1>2. p = [f \in (DOMAIN fields) \cup Common |->
             IF f \in DOMAIN fields THEN fields[f] ELSE IF f = "type" THEN type ELSE ascii_proto_base[f]]
  BY <1>1 DEF Proto
<1>3. DOMAIN p = Common \cup DOMAIN fields /\ IsFunction(p)
  BY <1>2 DEF IsFunction
<1>4. \A f \in DOMAIN fields : p[f] = fields[f]
  BY <1>2
<1>6. "type" \in Common /\ \A f \in Base : f \in Common
  BY DEF Common
<1>7. p["type"] = type
  BY <1>2, <1>6
<1>8. ASSUME NEW f \in Base PROVE p[f] = NULL
  <2>1. f \in Common /\ f \notin DOMAIN fields /\ f # "type" /\ ascii_proto_base[f] = NULL
    BY <1>1, <1>6
  <2>2. QED
    BY <1>2, <2>1
<1>9. QED
  BY <1>3, <1>4, <1>7, <1>8 DEF IsProto

\* The keyword under which a field goes, and how the other side reads it.
KeyOf(type, f) == CASE f = "lon" -> "longitude" [] f = "lat" -> "latitude"
                    [] type = "obsite" /\ f = "alt" -> "altitude"
                    [] OTHER -> f

Names == {"sitename", "lon", "lat", "alt", "timezone", "ra", "dec", "coorsys", "coor1", "coor2",
          "objid", "line1", "line2", "state", "errcode", "azi", "value", "command", "objname",
          "imgtype", "expdur", "frmcnt", "plan_type", "plan_sn", "btime", "etime", "sabbr",
          "iimgtyp", "coolget", "tmobs", "subpath", "filename", "filesize", "status"}

Own(proto) == DOMAIN proto \ Common

ReadAs(proto) == [f \in Own(proto) |-> [keyword |-> KeyOf(proto.type, f), number |-> f \notin Texts]]

\* What a field holds that has not been sent.
Defaults(type, p) ==
  \A f \in DOMAIN p \ Common :
    /\ type \in {"slit", "focus"} => p[f] = INT_MIN
    /\ type = "rain" => p[f] = 0

\* The constructor and the resolver of a kind of protocol agree on its fields.
Regular(proto) ==
  /\ DOMAIN proto = Common \cup Own(proto) /\ Own(proto) \subseteq Names
  /\ IsFunction(proto) /\ proto.type \in Types
  /\ \A f \in DOMAIN proto : f \in Texts \cup Base => proto[f] = NULL
  /\ Defaults(proto.type, proto)
  /\ \A kvs : ByType(proto.type, kvs) = Resolved(proto, ReadAs(proto), kvs)

\* Defaults x and keywords y of the same fields.
Agree(type, x, y) ==
  /\ DOMAIN y = DOMAIN x /\ y = [f \in DOMAIN y |-> y[f]]
  /\ \A f \in DOMAIN x : f \in Names /\ (f \in Texts => x[f] = NULL)
  /\ Defaults(type, x)
  /\ \A f \in DOMAIN x : y[f] = [keyword |-> KeyOf(type, f), number |-> f \notin Texts]

\* A kind of protocol is regular if its defaults and its keywords agree field by field.
LEMMA KindIs ==
  ASSUME NEW type \in Types, NEW x, NEW y, Agree(type, x, y),
         NEW proto, proto = Proto(type, x),
         \A kvs : ByType(type, kvs) = Resolved(proto, y, kvs)
  PROVE  Regular(proto) /\ proto.type = type /\ Own(proto) = DOMAIN x
<1>0. /\ DOMAIN y = DOMAIN x /\ y = [f \in DOMAIN y |-> y[f]]
      /\ \A f \in DOMAIN x : f \in Names /\ (f \in Texts => x[f] = NULL)
      /\ Defaults(type, x)
      /\ \A f \in DOMAIN x : y[f] = [keyword |-> KeyOf(type, f), number |-> f \notin Texts]
  BY DEF Agree
<1>1. \A f \in DOMAIN x : f \notin Common
  BY <1>0 DEF Names, Common, Base
<1>2. /\ DOMAIN proto = Common \cup DOMAIN x /\ proto.type = type
      /\ IsFunction(proto)
      /\ \A f \in Base : proto[f] = NULL
      /\ \A f \in DOMAIN x : proto[f] = x[f]
  <2>1. IsProto(proto, type, x)
    BY <1>1, ProtoIs
  <2>2. QED
    BY <2>1 DEF IsProto
<1>3. Own(proto) = DOMAIN x
  BY <1>1, <1>2 DEF Own
<1>4. ReadAs(proto) = y
  <2>1. ReadAs(proto) = [f \in DOMAIN y |-> [keyword |-> KeyOf(type, f), number |-> f \notin Texts]]
    BY <1>0, <1>2, <1>3 DEF ReadAs
  <2>2. QED
    BY <1>0, <2>1
<1>5. Defaults(type, proto)
  BY <1>0, <1>1, <1>2, <1>3 DEF Defaults, Own
<1>6. ASSUME NEW f \in DOMAIN proto, f \in Texts \cup Base PROVE proto[f] = NULL
  <2>1. "type" \notin Texts \cup Base
    BY DEF Texts, Base
  <2>2. QED
    BY <1>0, <1>2, <1>6, <2>1 DEF Common
<1>7. QED
  BY <1>0, <1>2, <1>3, <1>4, <1>5, <1>6 DEF Regular

\* A kind of protocol without fields of its own is regular.
LEMMA BareIs ==
  ASSUME NEW type \in Types, NEW proto, proto = Proto(type, <<>>),
         \A kvs : ByType(type, kvs) = proto
  PROVE  Regular(proto) /\ proto.type = type /\ Own(proto) = {}
<1>0. DOMAIN <<>> = {}
  OBVIOUS
<1>1. /\ DOMAIN proto = Common \cup DOMAIN <<>> /\ proto.type = type
      /\ IsFunction(proto)
      /\ \A f \in Base : proto[f] = NULL
  <2>1. IsProto(proto, type, <<>>)
    BY <1>0, ProtoIs
  <2>2. QED
    BY <2>1 DEF IsProto
<1>2. Own(proto) = {}
  BY <1>0, <1>1 DEF Own
<1>3. "type" \notin Texts \cup Base /\ Texts \cap {"type"} = {} /\ \A f \in Common : f \in Base \/ f = "type"
  BY DEF Texts, Base, Common
<1>4. DOMAIN ReadAs(proto) = {}
  BY <1>2 DEF ReadAs
<1>5. ASSUME NEW kvs PROVE Resolved(proto, ReadAs(proto), kvs) = proto
  BY <1>1, <1>4 DEF Resolved, IsFunction
<1>6. \A f \in DOMAIN proto : f \in Texts \cup Base => proto[f] = NULL
  BY <1>0, <1>1, <1>3
<1>7. Defaults(type, proto)
  BY <1>2 DEF Defaults, Own
<1>8. QED
  BY <1>0, <1>1, <1>2, <1>5, <1>6, <1>7 DEF Regular

\* The constructor and the resolver of register agree.
LEMMA RegisterIs == Regular(ascii_proto_reg) /\ ascii_proto_reg.type = "register" /\ Own(ascii_proto_reg) = {}
<1>1. "register" \in Types /\ ascii_proto_reg = Proto("register", <<>>)
  BY DEF Types, ascii_proto_reg
<1>2. \A kvs : ByType("register", kvs) = ascii_proto_reg
  BY DEF ByType, resolve_register
<1>3. QED
  BY <1>1, <1>2, BareIs

\* The constructor and the resolver of start agree.
LEMMA StartIs == Regular(ascii_proto_start) /\ ascii_proto_start.type = "start" /\ Own(ascii_proto_start) = {}
<1>1. "start" \in Types /\ ascii_proto_start = Proto("start", <<>>)
  BY DEF Types, ascii_proto_start
<1>2. \A kvs : ByType("start", kvs) = ascii_proto_start
  BY DEF ByType, resolve_start
<1>3. QED
  BY <1>1, <1>2, BareIs

\* The constructor and the resolver of stop agree.
LEMMA StopIs == Regular(ascii_proto_stop) /\ ascii_proto_stop.type = "stop" /\ Own(ascii_proto_stop) = {}
<1>1. "stop" \in Types /\ ascii_proto_stop = Proto("stop", <<>>)
  BY DEF Types, ascii_proto_stop
<1>2. \A kvs : ByType("stop", kvs) = ascii_proto_stop
  BY DEF ByType, resolve_stop
<1>3. QED
  BY <1>1, <1>2, BareIs

\* The constructor and the resolver of obsite agree.
LEMMA ObsiteIs ==
  /\ Regular(ascii_proto_obsite) /\ ascii_proto_obsite.type = "obsite"
  /\ Own(ascii_proto_obsite) = {"sitename", "lon", "lat", "alt", "timezone"}
<1>x. PICK x : x = [sitename |-> NULL, lon |-> 0, lat |-> 0, alt |-> 0, timezone |-> 8]
  OBVIOUS
<1>y. PICK y : y = [sitename |-> Text("sitename"), lon |-> Number("longitude"),
                   lat |-> Number("latitude"), alt |-> Number("altitude"),
                   timezone |-> Number("timezone")]
  OBVIOUS
<1>1. /\ DOMAIN x = {"sitename", "lon", "lat", "alt", "timezone"}
      /\ DOMAIN y = DOMAIN x /\ y = [f \in DOMAIN y |-> y[f]]
  BY <1>x, <1>y
<1>2. \A f \in DOMAIN x : f \in Names /\ (f \in Texts => x[f] = NULL)
  BY <1>1, <1>x DEF Names, Texts
<1>3. Defaults("obsite", x)
  BY <1>x DEF Defaults
<1>4. /\ y["sitename"] = [keyword |-> "sitename", number |-> FALSE]
      /\ y["lon"] = [keyword |-> "longitude", number |-> TRUE]
      /\ y["lat"] = [keyword |-> "latitude", number |-> TRUE]
      /\ y["alt"] = [keyword |-> "altitude", number |-> TRUE]
      /\ y["timezone"] = [keyword |-> "timezone", number |-> TRUE]
  BY <1>y DEF Text, Number
<1>5. /\ KeyOf("obsite", "sitename") = "sitename" /\ "sitename" \in Texts
      /\ KeyOf("obsite", "lon") = "longitude" /\ "lon" \notin Texts
      /\ KeyOf("obsite", "lat") = "latitude" /\ "lat" \notin Texts
      /\ KeyOf("obsite", "alt") = "altitude" /\ "alt" \notin Texts
      /\ KeyOf("obsite", "timezone") = "timezone" /\ "timezone" \notin Texts
  BY DEF KeyOf, Texts
<1>6. \A f \in DOMAIN x : y[f] = [keyword |-> KeyOf("obsite", f), number |-> f \notin Texts]
  BY <1>1, <1>4, <1>5
<1>7. Agree("obsite", x, y)
  BY <1>1, <1>2, <1>3, <1>6 DEF Agree
<1>8. ascii_proto_obsite = Proto("obsite", x)
  BY <1>x DEF ascii_proto_obsite
<1>9. \A kvs : ByType("obsite", kvs) = Resolved(ascii_proto_obsite, y, kvs)
  BY <1>y DEF ByType, resolve_obsite
<1>10. "obsite" \in Types
  BY DEF Types
<1>11. QED
  BY <1>1, <1>7, <1>8, <1>9, <1>10, KindIs

\* The constructor and the resolver of home_sync agree.
LEMMA HomeSyncIs ==
  /\ Regular(ascii_proto_home_sync) /\ ascii_proto_home_sync.type = "home_sync"
  /\ Own(ascii_proto_home_sync) = {"ra", "dec"}
<1>x. PICK x : x = [ra |-> Never, dec |-> Never]
  OBVIOUS
<1>y. PICK y : y = [ra |-> Number("ra"), dec |-> Number("dec")]
  OBVIOUS
<1>1. /\ DOMAIN x = {"ra", "dec"}
      /\ DOMAIN y = DOMAIN x /\ y = [f \in DOMAIN y |-> y[f]]
  BY <1>x, <1>y
<1>2. \A f \in DOMAIN x : f \in Names /\ (f \in Texts => x[f] = NULL)
  BY <1>1, <1>x DEF Names, Texts
<1>3. Defaults("home_sync", x)
  BY <1>x DEF Defaults
<1>4. /\ y["ra"] = [keyword |-> "ra", number |-> TRUE]
      /\ y["dec"] = [keyword |-> "dec", number |-> TRUE]
  BY <1>y DEF Text, Number
<1>5. /\ KeyOf("home_sync", "ra") = "ra" /\ "ra" \notin Texts
      /\ KeyOf("home_sync", "dec") = "dec" /\ "dec" \notin Texts
  BY DEF KeyOf, Texts
<1>6. \A f \in DOMAIN x : y[f] = [keyword |-> KeyOf("home_sync", f), number |-> f \notin Texts]
  BY <1>1, <1>4, <1>5
<1>7. Agree("home_sync", x, y)
  BY <1>1, <1>2, <1>3, <1>6 DEF Agree
<1>8. ascii_proto_home_sync = Proto("home_sync", x)
  BY <1>x DEF ascii_proto_home_sync
<1>9. \A kvs : ByType("home_sync", kvs) = Resolved(ascii_proto_home_sync, y, kvs)
  BY <1>y DEF ByType, resolve_homesync
<1>10. "home_sync" \in Types
  BY DEF Types
<1>11. QED
  BY <1>1, <1>7, <1>8, <1>9, <1>10, KindIs

\* The constructor and the resolver of slewto agree.
LEMMA SlewtoIs ==
  /\ Regular(ascii_proto_slewto) /\ ascii_proto_slewto.type = "slewto"
  /\ Own(ascii_proto_slewto) = {"coorsys", "coor1", "coor2"}
<1>x. PICK x : x = [coorsys |-> 1, coor1 |-> 180 * Degree, coor2 |-> 40 * Degree]
  OBVIOUS
<1>y. PICK y : y = [coorsys |-> Number("coorsys"), coor1 |-> Number("coor1"),
                   coor2 |-> Number("coor2")]
  OBVIOUS
<1>1. /\ DOMAIN x = {"coorsys", "coor1", "coor2"}
      /\ DOMAIN y = DOMAIN x /\ y = [f \in DOMAIN y |-> y[f]]
  BY <1>x, <1>y
<1>2. \A f \in DOMAIN x : f \in Names /\ (f \in Texts => x[f] = NULL)
  BY <1>1, <1>x DEF Names, Texts
<1>3. Defaults("slewto", x)
  BY <1>x DEF Defaults
<1>4. /\ y["coorsys"] = [keyword |-> "coorsys", number |-> TRUE]
      /\ y["coor1"] = [keyword |-> "coor1", number |-> TRUE]
      /\ y["coor2"] = [keyword |-> "coor2", number |-> TRUE]
  BY <1>y DEF Text, Number
<1>5. /\ KeyOf("slewto", "coorsys") = "coorsys" /\ "coorsys" \notin Texts
      /\ KeyOf("slewto", "coor1") = "coor1" /\ "coor1" \notin Texts
      /\ KeyOf("slewto", "coor2") = "coor2" /\ "coor2" \notin Texts
  BY DEF KeyOf, Texts
<1>6. \A f \in DOMAIN x : y[f] = [keyword |-> KeyOf("slewto", f), number |-> f \notin Texts]
  BY <1>1, <1>4, <1>5
<1>7. Agree("slewto", x, y)
  BY <1>1, <1>2, <1>3, <1>6 DEF Agree
<1>8. ascii_proto_slewto = Proto("slewto", x)
  BY <1>x DEF ascii_proto_slewto
<1>9. \A kvs : ByType("slewto", kvs) = Resolved(ascii_proto_slewto, y, kvs)
  BY <1>y DEF ByType, resolve_slewto
<1>10. "slewto" \in Types
  BY DEF Types
<1>11. QED
  BY <1>1, <1>7, <1>8, <1>9, <1>10, KindIs

\* The constructor and the resolver of track agree.
LEMMA TrackIs ==
  /\ Regular(ascii_proto_track) /\ ascii_proto_track.type = "track"
  /\ Own(ascii_proto_track) = {"objid", "line1", "line2"}
<1>x. PICK x : x = [objid |-> NULL, line1 |-> NULL, line2 |-> NULL]
  OBVIOUS
<1>y. PICK y : y = [objid |-> Text("objid"), line1 |-> Text("line1"), line2 |-> Text("line2")]
  OBVIOUS
<1>1. /\ DOMAIN x = {"objid", "line1", "line2"}
      /\ DOMAIN y = DOMAIN x /\ y = [f \in DOMAIN y |-> y[f]]
  BY <1>x, <1>y
<1>2. \A f \in DOMAIN x : f \in Names /\ (f \in Texts => x[f] = NULL)
  BY <1>1, <1>x DEF Names, Texts
<1>3. Defaults("track", x)
  BY <1>x DEF Defaults
<1>4. /\ y["objid"] = [keyword |-> "objid", number |-> FALSE]
      /\ y["line1"] = [keyword |-> "line1", number |-> FALSE]
      /\ y["line2"] = [keyword |-> "line2", number |-> FALSE]
  BY <1>y DEF Text, Number
<1>5. /\ KeyOf("track", "objid") = "objid" /\ "objid" \in Texts
      /\ KeyOf("track", "line1") = "line1" /\ "line1" \in Texts
      /\ KeyOf("track", "line2") = "line2" /\ "line2" \in Texts
  BY DEF KeyOf, Texts
<1>6. \A f \in DOMAIN x : y[f] = [keyword |-> KeyOf("track", f), number |-> f \notin Texts]
  BY <1>1, <1>4, <1>5
<1>7. Agree("track", x, y)
  BY <1>1, <1>2, <1>3, <1>6 DEF Agree
<1>8. ascii_proto_track = Proto("track", x)
  BY <1>x DEF ascii_proto_track
<1>9. \A kvs : ByType("track", kvs) = Resolved(ascii_proto_track, y, kvs)
  BY <1>y DEF ByType, resolve_track
<1>10. "track" \in Types
  BY DEF Types
<1>11. QED
  BY <1>1, <1>7, <1>8, <1>9, <1>10, KindIs

\* The constructor and the resolver of park agree.
LEMMA ParkIs == Regular(ascii_proto_park) /\ ascii_proto_park.type = "park" /\ Own(ascii_proto_park) = {}
<1>1. "park" \in Types /\ ascii_proto_park = Proto("park", <<>>)
  BY DEF Types, ascii_proto_park
<1>2. \A kvs : ByType("park", kvs) = ascii_proto_park
  BY DEF ByType, resolve_park
<1>3. QED
  BY <1>1, <1>2, BareIs

\* The constructor and the resolver of abort_slew agree.
LEMMA AbortSlewIs == Regular(ascii_proto_abort_slew) /\ ascii_proto_abort_slew.type = "abort_slew" /\ Own(ascii_proto_abort_slew) = {}
<1>1. "abort_slew" \in Types /\ ascii_proto_abort_slew = Proto("abort_slew", <<>>)
  BY DEF Types, ascii_proto_abort_slew
<1>2. \A kvs : ByType("abort_slew", kvs) = ascii_proto_abort_slew
  BY DEF ByType, resolve_abortslew
<1>3. QED
  BY <1>1, <1>2, BareIs

\* The constructor and the resolver of mount agree.
LEMMA MountIs ==
  /\ Regular(ascii_proto_mount) /\ ascii_proto_mount.type = "mount"
  /\ Own(ascii_proto_mount) = {"state", "errcode", "ra", "dec", "azi", "alt"}
<1>x. PICK x : x = [state |-> 0, errcode |-> INT_MIN, ra |-> Never, dec |-> Never,
                   azi |-> Never, alt |-> Never]
  OBVIOUS
<1>y. PICK y : y = [state |-> Number("state"), errcode |-> Number("errcode"),
                   ra |-> Number("ra"), dec |-> Number("dec"), azi |-> Number("azi"),
                   alt |-> Number("alt")]
  OBVIOUS
<1>1. /\ DOMAIN x = {"state", "errcode", "ra", "dec", "azi", "alt"}
      /\ DOMAIN y = DOMAIN x /\ y = [f \in DOMAIN y |-> y[f]]
  BY <1>x, <1>y
<1>2. \A f \in DOMAIN x : f \in Names /\ (f \in Texts => x[f] = NULL)
  BY <1>1, <1>x DEF Names, Texts
<1>3. Defaults("mount", x)
  BY <1>x DEF Defaults
<1>4. /\ y["state"] = [keyword |-> "state", number |-> TRUE]
      /\ y["errcode"] = [keyword |-> "errcode", number |-> TRUE]
      /\ y["ra"] = [keyword |-> "ra", number |-> TRUE]
      /\ y["dec"] = [keyword |-> "dec", number |-> TRUE]
      /\ y["azi"] = [keyword |-> "azi", number |-> TRUE]
      /\ y["alt"] = [keyword |-> "alt", number |-> TRUE]
  BY <1>y DEF Text, Number
<1>5. /\ KeyOf("mount", "state") = "state" /\ "state" \notin Texts
      /\ KeyOf("mount", "errcode") = "errcode" /\ "errcode" \notin Texts
      /\ KeyOf("mount", "ra") = "ra" /\ "ra" \notin Texts
      /\ KeyOf("mount", "dec") = "dec" /\ "dec" \notin Texts
      /\ KeyOf("mount", "azi") = "azi" /\ "azi" \notin Texts
      /\ KeyOf("mount", "alt") = "alt" /\ "alt" \notin Texts
  BY DEF KeyOf, Texts
<1>6. \A f \in DOMAIN x : y[f] = [keyword |-> KeyOf("mount", f), number |-> f \notin Texts]
  BY <1>1, <1>4, <1>5
<1>7. Agree("mount", x, y)
  BY <1>1, <1>2, <1>3, <1>6 DEF Agree
<1>8. ascii_proto_mount = Proto("mount", x)
  BY <1>x DEF ascii_proto_mount
<1>9. \A kvs : ByType("mount", kvs) = Resolved(ascii_proto_mount, y, kvs)
  BY <1>y DEF ByType, resolve_mount
<1>10. "mount" \in Types
  BY DEF Types
<1>11. QED
  BY <1>1, <1>7, <1>8, <1>9, <1>10, KindIs

\* The constructor and the resolver of take_image agree.
LEMMA TakeImageIs ==
  /\ Regular(ascii_proto_take_image) /\ ascii_proto_take_image.type = "take_image"
  /\ Own(ascii_proto_take_image) = {"objname", "imgtype", "expdur", "frmcnt"}
<1>x. PICK x : x = [objname |-> NULL, imgtype |-> NULL, expdur |-> 0, frmcnt |-> 0]
  OBVIOUS
<1>y. PICK y : y = [objname |-> Text("objname"), imgtype |-> Text("imgtype"),
                   expdur |-> Number("expdur"), frmcnt |-> Number("frmcnt")]
  OBVIOUS
<1>1. /\ DOMAIN x = {"objname", "imgtype", "expdur", "frmcnt"}
      /\ DOMAIN y = DOMAIN x /\ y = [f \in DOMAIN y |-> y[f]]
  BY <1>x, <1>y
<1>2. \A f \in DOMAIN x : f \in Names /\ (f \in Texts => x[f] = NULL)
  BY <1>1, <1>x DEF Names, Texts
<1>3. Defaults("take_image", x)
  BY <1>x DEF Defaults
<1>4. /\ y["objname"] = [keyword |-> "objname", number |-> FALSE]
      /\ y["imgtype"] = [keyword |-> "imgtype", number |-> FALSE]
      /\ y["expdur"] = [keyword |-> "expdur", number |-> TRUE]
      /\ y["frmcnt"] = [keyword |-> "frmcnt", number |-> TRUE]
  BY <1>y DEF Text, Number
<1>5. /\ KeyOf("take_image", "objname") = "objname" /\ "objname" \in Texts
      /\ KeyOf("take_image", "imgtype") = "imgtype" /\ "imgtype" \in Texts
      /\ KeyOf("take_image", "expdur") = "expdur" /\ "expdur" \notin Texts
      /\ KeyOf("take_image", "frmcnt") = "frmcnt" /\ "frmcnt" \notin Texts
  BY DEF KeyOf, Texts
<1>6. \A f \in DOMAIN x : y[f] = [keyword |-> KeyOf("take_image", f), number |-> f \notin Texts]
  BY <1>1, <1>4, <1>5
<1>7. Agree("take_image", x, y)
  BY <1>1, <1>2, <1>3, <1>6 DEF Agree
<1>8. ascii_proto_take_image = Proto("take_image", x)
  BY <1>x DEF ascii_proto_take_image
<1>9. \A kvs : ByType("take_image", kvs) = Resolved(ascii_proto_take_image, y, kvs)
  BY <1>y DEF ByType, resolve_takeimg
<1>10. "take_image" \in Types
  BY DEF Types
<1>11. QED
  BY <1>1, <1>7, <1>8, <1>9, <1>10, KindIs

\* The constructor and the resolver of abort_image agree.
LEMMA AbortImageIs == Regular(ascii_proto_abort_image) /\ ascii_proto_abort_image.type = "abort_image" /\ Own(ascii_proto_abort_image) = {}
<1>1. "abort_image" \in Types /\ ascii_proto_abort_image = Proto("abort_image", <<>>)
  BY DEF Types, ascii_proto_abort_image
<1>2. \A kvs : ByType("abort_image", kvs) = ascii_proto_abort_image
  BY DEF ByType, resolve_abortimg
<1>3. QED
  BY <1>1, <1>2, BareIs

\* The constructor and the resolver of object agree.
LEMMA ObjectIs ==
  /\ Regular(ascii_proto_object) /\ ascii_proto_object.type = "object"
  /\ Own(ascii_proto_object) = {"plan_type", "plan_sn", "objname", "btime", "etime",
                                "imgtype", "sabbr", "iimgtyp", "expdur", "frmcnt"}
<1>x. PICK x : x = [plan_type |-> 0, plan_sn |-> NULL, objname |-> NULL, btime |-> NULL,
                   etime |-> NULL, imgtype |-> NULL, sabbr |-> NULL, iimgtyp |-> 0,
                   expdur |-> 0, frmcnt |-> -1]
  OBVIOUS
<1>y. PICK y : y = [btime |-> Text("btime"), expdur |-> Number("expdur"),
                   etime |-> Text("etime"), frmcnt |-> Number("frmcnt"),
                   imgtype |-> Text("imgtype"), iimgtyp |-> Number("iimgtyp"),
                   objname |-> Text("objname"), plan_sn |-> Text("plan_sn"),
                   plan_type |-> Number("plan_type"), sabbr |-> Text("sabbr")]
  OBVIOUS
<1>1. /\ DOMAIN x = {"plan_type", "plan_sn", "objname", "btime", "etime", "imgtype", "sabbr",
                     "iimgtyp", "expdur", "frmcnt"}
      /\ DOMAIN y = DOMAIN x /\ y = [f \in DOMAIN y |-> y[f]]
  BY <1>x, <1>y
<1>2. \A f \in DOMAIN x : f \in Names /\ (f \in Texts => x[f] = NULL)
  BY <1>1, <1>x DEF Names, Texts
<1>3. Defaults("object", x)
  BY <1>x DEF Defaults
<1>4. /\ y["plan_type"] = [keyword |-> "plan_type", number |-> TRUE]
      /\ y["plan_sn"] = [keyword |-> "plan_sn", number |-> FALSE]
      /\ y["objname"] = [keyword |-> "objname", number |-> FALSE]
      /\ y["btime"] = [keyword |-> "btime", number |-> FALSE]
      /\ y["etime"] = [keyword |-> "etime", number |-> FALSE]
      /\ y["imgtype"] = [keyword |-> "imgtype", number |-> FALSE]
      /\ y["sabbr"] = [keyword |-> "sabbr", number |-> FALSE]
      /\ y["iimgtyp"] = [keyword |-> "iimgtyp", number |-> TRUE]
      /\ y["expdur"] = [keyword |-> "expdur", number |-> TRUE]
      /\ y["frmcnt"] = [keyword |-> "frmcnt", number |-> TRUE]
  BY <1>y DEF Text, Number
<1>5. /\ KeyOf("object", "plan_type") = "plan_type" /\ "plan_type" \notin Texts
      /\ KeyOf("object", "plan_sn") = "plan_sn" /\ "plan_sn" \in Texts
      /\ KeyOf("object", "objname") = "objname" /\ "objname" \in Texts
      /\ KeyOf("object", "btime") = "btime" /\ "btime" \in Texts
      /\ KeyOf("object", "etime") = "etime" /\ "etime" \in Texts
      /\ KeyOf("object", "imgtype") = "imgtype" /\ "imgtype" \in Texts
      /\ KeyOf("object", "sabbr") = "sabbr" /\ "sabbr" \in Texts
      /\ KeyOf("object", "iimgtyp") = "iimgtyp" /\ "iimgtyp" \notin Texts
      /\ KeyOf("object", "expdur") = "expdur" /\ "expdur" \notin Texts
      /\ KeyOf("object", "frmcnt") = "frmcnt" /\ "frmcnt" \notin Texts
  BY DEF KeyOf, Texts
<1>6. \A f \in DOMAIN x : y[f] = [keyword |-> KeyOf("object", f), number |-> f \notin Texts]
  BY <1>1, <1>4, <1>5
<1>7. Agree("object", x, y)
  BY <1>1, <1>2, <1>3, <1>6 DEF Agree
<1>8. ascii_proto_object = Proto("object", x)
  BY <1>x DEF ascii_proto_object
<1>9. \A kvs : ByType("object", kvs) = Resolved(ascii_proto_object, y, kvs)
  BY <1>y DEF ByType, resolve_object
<1>10. "object" \in Types
  BY DEF Types
<1>11. QED
  BY <1>1, <1>7, <1>8, <1>9, <1>10, KindIs

\* The constructor and the resolver of expose agree.
LEMMA ExposeIs ==
  /\ Regular(ascii_proto_expose) /\ ascii_proto_expose.type = "expose"
  /\ Own(ascii_proto_expose) = {"command"}
<1>x. PICK x : x = [command |-> 0]
  OBVIOUS
<1>y. PICK y : y = [command |-> Number("command")]
  OBVIOUS
<1>1. /\ DOMAIN x = {"command"}
      /\ DOMAIN y = DOMAIN x /\ y = [f \in DOMAIN y |-> y[f]]
  BY <1>x, <1>y
<1>2. \A f \in DOMAIN x : f \in Names /\ (f \in Texts => x[f] = NULL)
  BY <1>1, <1>x DEF Names, Texts
<1>3. Defaults("expose", x)
  BY <1>x DEF Defaults
<1>4. /\ y["command"] = [keyword |-> "command", number |-> TRUE]
  BY <1>y DEF Text, Number
<1>5. /\ KeyOf("expose", "command") = "command" /\ "command" \notin Texts
  BY DEF KeyOf, Texts
<1>6. \A f \in DOMAIN x : y[f] = [keyword |-> KeyOf("expose", f), number |-> f \notin Texts]
  BY <1>1, <1>4, <1>5
<1>7. Agree("expose", x, y)
  BY <1>1, <1>2, <1>3, <1>6 DEF Agree
<1>8. ascii_proto_expose = Proto("expose", x)
  BY <1>x DEF ascii_proto_expose
<1>9. \A kvs : ByType("expose", kvs) = Resolved(ascii_proto_expose, y, kvs)
  BY <1>y DEF ByType, resolve_expose
<1>10. "expose" \in Types
  BY DEF Types
<1>11. QED
  BY <1>1, <1>7, <1>8, <1>9, <1>10, KindIs

\* The constructor and the resolver of camera agree.
LEMMA CameraIs ==
  /\ Regular(ascii_proto_camera) /\ ascii_proto_camera.type = "camera"
  /\ Own(ascii_proto_camera) = {"state", "errcode", "coolget"}
<1>x. PICK x : x = [state |-> 0, errcode |-> INT_MIN, coolget |-> 0]
  OBVIOUS
<1>y. PICK y : y = [state |-> Number("state"), errcode |-> Number("errcode"),
                   coolget |-> Number("coolget")]
  OBVIOUS
<1>1. /\ DOMAIN x = {"state", "errcode", "coolget"}
      /\ DOMAIN y = DOMAIN x /\ y = [f \in DOMAIN y |-> y[f]]
  BY <1>x, <1>y
<1>2. \A f \in DOMAIN x : f \in Names /\ (f \in Texts => x[f] = NULL)
  BY <1>1, <1>x DEF Names, Texts
<1>3. Defaults("camera", x)
  BY <1>x DEF Defaults
<1>4. /\ y["state"] = [keyword |-> "state", number |-> TRUE]
      /\ y["errcode"] = [keyword |-> "errcode", number |-> TRUE]
      /\ y["coolget"] = [keyword |-> "coolget", number |-> TRUE]
  BY <1>y DEF Text, Number
<1>5. /\ KeyOf("camera", "state") = "state" /\ "state" \notin Texts
      /\ KeyOf("camera", "errcode") = "errcode" /\ "errcode" \notin Texts
      /\ KeyOf("camera", "coolget") = "coolget" /\ "coolget" \notin Texts
  BY DEF KeyOf, Texts
<1>6. \A f \in DOMAIN x : y[f] = [keyword |-> KeyOf("camera", f), number |-> f \notin Texts]
  BY <1>1, <1>4, <1>5
<1>7. Agree("camera", x, y)
  BY <1>1, <1>2, <1>3, <1>6 DEF Agree
<1>8. ascii_proto_camera = Proto("camera", x)
  BY <1>x DEF ascii_proto_camera
<1>9. \A kvs : ByType("camera", kvs) = Resolved(ascii_proto_camera, y, kvs)
  BY <1>y DEF ByType, resolve_camera
<1>10. "camera" \in Types
  BY DEF Types
<1>11. QED
  BY <1>1, <1>7, <1>8, <1>9, <1>10, KindIs

\* The constructor and the resolver of fwhm agree.
LEMMA FwhmIs ==
  /\ Regular(ascii_proto_fwhm) /\ ascii_proto_fwhm.type = "fwhm"
  /\ Own(ascii_proto_fwhm) = {"value"}
<1>x. PICK x : x = [value |-> 0]
  OBVIOUS
<1>y. PICK y : y = [value |-> Number("value")]
  OBVIOUS
<1>1. /\ DOMAIN x = {"value"}
      /\ DOMAIN y = DOMAIN x /\ y = [f \in DOMAIN y |-> y[f]]
  BY <1>x, <1>y
<1>2. \A f \in DOMAIN x : f \in Names /\ (f \in Texts => x[f] = NULL)
  BY <1>1, <1>x DEF Names, Texts
<1>3. Defaults("fwhm", x)
  BY <1>x DEF Defaults
<1>4. /\ y["value"] = [keyword |-> "value", number |-> TRUE]
  BY <1>y DEF Text, Number
<1>5. /\ KeyOf("fwhm", "value") = "value" /\ "value" \notin Texts
  BY DEF KeyOf, Texts
<1>6. \A f \in DOMAIN x : y[f] = [keyword |-> KeyOf("fwhm", f), number |-> f \notin Texts]
  BY <1>1, <1>4, <1>5
<1>7. Agree("fwhm", x, y)
  BY <1>1, <1>2, <1>3, <1>6 DEF Agree
<1>8. ascii_proto_fwhm = Proto("fwhm", x)
  BY <1>x DEF ascii_proto_fwhm
<1>9. \A kvs : ByType("fwhm", kvs) = Resolved(ascii_proto_fwhm, y, kvs)
  BY <1>y DEF ByType, resolve_fwhm
<1>10. "fwhm" \in Types
  BY DEF Types
<1>11. QED
  BY <1>1, <1>7, <1>8, <1>9, <1>10, KindIs

\* The constructor and the resolver of focus agree.
LEMMA FocusIs ==
  /\ Regular(ascii_proto_focus) /\ ascii_proto_focus.type = "focus"
  /\ Own(ascii_proto_focus) = {"state", "value"}
<1>x. PICK x : x = [state |-> INT_MIN, value |-> INT_MIN]
  OBVIOUS
<1>y. PICK y : y = [state |-> Number("state"), value |-> Number("value")]
  OBVIOUS
<1>1. /\ DOMAIN x = {"state", "value"}
      /\ DOMAIN y = DOMAIN x /\ y = [f \in DOMAIN y |-> y[f]]
  BY <1>x, <1>y
<1>2. \A f \in DOMAIN x : f \in Names /\ (f \in Texts => x[f] = NULL)
  BY <1>1, <1>x DEF Names, Texts
<1>3. Defaults("focus", x)
  BY <1>x DEF Defaults
<1>4. /\ y["state"] = [keyword |-> "state", number |-> TRUE]
      /\ y["value"] = [keyword |-> "value", number |-> TRUE]
  BY <1>y DEF Text, Number
<1>5. /\ KeyOf("focus", "state") = "state" /\ "state" \notin Texts
      /\ KeyOf("focus", "value") = "value" /\ "value" \notin Texts
  BY DEF KeyOf, Texts
<1>6. \A f \in DOMAIN x : y[f] = [keyword |-> KeyOf("focus", f), number |-> f \notin Texts]
  BY <1>1, <1>4, <1>5
<1>7. Agree("focus", x, y)
  BY <1>1, <1>2, <1>3, <1>6 DEF Agree
<1>8. ascii_proto_focus = Proto("focus", x)
  BY <1>x DEF ascii_proto_focus
<1>9. \A kvs : ByType("focus", kvs) = Resolved(ascii_proto_focus, y, kvs)
  BY <1>y DEF ByType, resolve_focus
<1>10. "focus" \in Types
  BY DEF Types
<1>11. QED
  BY <1>1, <1>7, <1>8, <1>9, <1>10, KindIs

\* The constructor and the resolver of slit agree.
LEMMA SlitIs ==
  /\ Regular(ascii_proto_slit) /\ ascii_proto_slit.type = "slit"
  /\ Own(ascii_proto_slit) = {"state", "command"}
<1>x. PICK x : x = [state |-> INT_MIN, command |-> INT_MIN]
  OBVIOUS
<1>y. PICK y : y = [state |-> Number("state"), command |-> Number("command")]
  OBVIOUS
<1>1. /\ DOMAIN x = {"state", "command"}
      /\ DOMAIN y = DOMAIN x /\ y = [f \in DOMAIN y |-> y[f]]
  BY <1>x, <1>y
<1>2. \A f \in DOMAIN x : f \in Names /\ (f \in Texts => x[f] = NULL)
  BY <1>1, <1>x DEF Names, Texts
<1>3. Defaults("slit", x)
  BY <1>x DEF Defaults
<1>4. /\ y["state"] = [keyword |-> "state", number |-> TRUE]
      /\ y["command"] = [keyword |-> "command", number |-> TRUE]
  BY <1>y DEF Text, Number
<1>5. /\ KeyOf("slit", "state") = "state" /\ "state" \notin Texts
      /\ KeyOf("slit", "command") = "command" /\ "command" \notin Texts
  BY DEF KeyOf, Texts
<1>6. \A f \in DOMAIN x : y[f] = [keyword |-> KeyOf("slit", f), number |-> f \notin Texts]
  BY <1>1, <1>4, <1>5
<1>7. Agree("slit", x, y)
  BY <1>1, <1>2, <1>3, <1>6 DEF Agree
<1>8. ascii_proto_slit = Proto("slit", x)
  BY <1>x DEF ascii_proto_slit
<1>9. \A kvs : ByType("slit", kvs) = Resolved(ascii_proto_slit, y, kvs)
  BY <1>y DEF ByType, resolve_slit
<1>10. "slit" \in Types
  BY DEF Types
<1>11. QED
  BY <1>1, <1>7, <1>8, <1>9, <1>10, KindIs

\* The constructor and the resolver of rain agree.
LEMMA RainIs ==
  /\ Regular(ascii_proto_rain) /\ ascii_proto_rain.type = "rain"
  /\ Own(ascii_proto_rain) = {"value"}
<1>x. PICK x : x = [value |-> 0]
  OBVIOUS
<1>y. PICK y : y = [value |-> Number("value")]
  OBVIOUS
<1>1. /\ DOMAIN x = {"value"}
      /\ DOMAIN y = DOMAIN x /\ y = [f \in DOMAIN y |-> y[f]]
  BY <1>x, <1>y
<1>2. \A f \in DOMAIN x : f \in Names /\ (f \in Texts => x[f] = NULL)
  BY <1>1, <1>x DEF Names, Texts
<1>3. Defaults("rain", x)
  BY <1>x DEF Defaults
<1>4. /\ y["value"] = [keyword |-> "value", number |-> TRUE]
  BY <1>y DEF Text, Number
<1>5. /\ KeyOf("rain", "value") = "value" /\ "value" \notin Texts
  BY DEF KeyOf, Texts
<1>6. \A f \in DOMAIN x : y[f] = [keyword |-> KeyOf("rain", f), number |-> f \notin Texts]
  BY <1>1, <1>4, <1>5
<1>7. Agree("rain", x, y)
  BY <1>1, <1>2, <1>3, <1>6 DEF Agree
<1>8. ascii_proto_rain = Proto("rain", x)
  BY <1>x DEF ascii_proto_rain
<1>9. \A kvs : ByType("rain", kvs) = Resolved(ascii_proto_rain, y, kvs)
  BY <1>y DEF ByType, resolve_rain
<1>10. "rain" \in Types
  BY DEF Types
<1>11. QED
  BY <1>1, <1>7, <1>8, <1>9, <1>10, KindIs

\* The constructor and the resolver of fileinfo agree.
LEMMA FileinfoIs ==
  /\ Regular(ascii_proto_fileinfo) /\ ascii_proto_fileinfo.type = "fileinfo"
  /\ Own(ascii_proto_fileinfo) = {"tmobs", "subpath", "filename", "filesize"}
<1>x. PICK x : x = [tmobs |-> NULL, subpath |-> NULL, filename |-> NULL, filesize |-> INT_MIN]
  OBVIOUS
<1>y. PICK y : y = [tmobs |-> Text("tmobs"), subpath |-> Text("subpath"),
                   filename |-> Text("filename"), filesize |-> Number("filesize")]
  OBVIOUS
<1>1. /\ DOMAIN x = {"tmobs", "subpath", "filename", "filesize"}
      /\ DOMAIN y = DOMAIN x /\ y = [f \in DOMAIN y |-> y[f]]
  BY <1>x, <1>y
<1>2. \A f \in DOMAIN x : f \in Names /\ (f \in Texts => x[f] = NULL)
  BY <1>1, <1>x DEF Names, Texts
<1>3. Defaults("fileinfo", x)
  BY <1>x DEF Defaults
<1>4. /\ y["tmobs"] = [keyword |-> "tmobs", number |-> FALSE]
      /\ y["subpath"] = [keyword |-> "subpath", number |-> FALSE]
      /\ y["filename"] = [keyword |-> "filename", number |-> FALSE]
      /\ y["filesize"] = [keyword |-> "filesize", number |-> TRUE]
  BY <1>y DEF Text, Number
<1>5. /\ KeyOf("fileinfo", "tmobs") = "tmobs" /\ "tmobs" \in Texts
      /\ KeyOf("fileinfo", "subpath") = "subpath" /\ "subpath" \in Texts
      /\ KeyOf("fileinfo", "filename") = "filename" /\ "filename" \in Texts
      /\ KeyOf("fileinfo", "filesize") = "filesize" /\ "filesize" \notin Texts
  BY DEF KeyOf, Texts
<1>6. \A f \in DOMAIN x : y[f] = [keyword |-> KeyOf("fileinfo", f), number |-> f \notin Texts]
  BY <1>1, <1>4, <1>5
<1>7. Agree("fileinfo", x, y)
  BY <1>1, <1>2, <1>3, <1>6 DEF Agree
<1>8. ascii_proto_fileinfo = Proto("fileinfo", x)
  BY <1>x DEF ascii_proto_fileinfo
<1>9. \A kvs : ByType("fileinfo", kvs) = Resolved(ascii_proto_fileinfo, y, kvs)
  BY <1>y DEF ByType, resolve_fileinfo
<1>10. "fileinfo" \in Types
  BY DEF Types
<1>11. QED
  BY <1>1, <1>7, <1>8, <1>9, <1>10, KindIs

\* The constructor and the resolver of filestat agree.
LEMMA FilestatIs ==
  /\ Regular(ascii_proto_filestat) /\ ascii_proto_filestat.type = "filestat"
  /\ Own(ascii_proto_filestat) = {"status"}
<1>x. PICK x : x = [status |-> INT_MIN]
  OBVIOUS
<1>y. PICK y : y = [status |-> Number("status")]
  OBVIOUS
<1>1. /\ DOMAIN x = {"status"}
      /\ DOMAIN y = DOMAIN x /\ y = [f \in DOMAIN y |-> y[f]]
  BY <1>x, <1>y
<1>2. \A f \in DOMAIN x : f \in Names /\ (f \in Texts => x[f] = NULL)
  BY <1>1, <1>x DEF Names, Texts
<1>3. Defaults("filestat", x)
  BY <1>x DEF Defaults
<1>4. /\ y["status"] = [keyword |-> "status", number |-> TRUE]
  BY <1>y DEF Text, Number
<1>5. /\ KeyOf("filestat", "status") = "status" /\ "status" \notin Texts
  BY DEF KeyOf, Texts
<1>6. \A f \in DOMAIN x : y[f] = [keyword |-> KeyOf("filestat", f), number |-> f \notin Texts]
  BY <1>1, <1>4, <1>5
<1>7. Agree("filestat", x, y)
  BY <1>1, <1>2, <1>3, <1>6 DEF Agree
<1>8. ascii_proto_filestat = Proto("filestat", x)
  BY <1>x DEF ascii_proto_filestat
<1>9. \A kvs : ByType("filestat", kvs) = Resolved(ascii_proto_filestat, y, kvs)
  BY <1>y DEF ByType, resolve_filestat
<1>10. "filestat" \in Types
  BY DEF Types
<1>11. QED
  BY <1>1, <1>7, <1>8, <1>9, <1>10, KindIs

-----------------------------------------------------------------------------
(* What Resolved reads out of the pairs of a line                          *)

\* What p says of field f under its keyword.
Said(p, f) ==
  IF f = "utc" THEN set_timetag
  ELSE IF f \in Texts \/ (f = "value" /\ p.type = "rain") THEN p[f]
  ELSE IF IsDouble(p, f) THEN Double(p[f])
  ELSE IF p.type = "slit" /\ p[f] = INT_MIN THEN NULL
  ELSE Whole(p[f])

Has(S, p, f) == {P \in S : P.keyword = <<Word(KeyOf(p.type, f))>>}

\* The pairs in S are what p says of the fields in G, one by one.
Tells(S, p, G) ==
  /\ \A P \in S : \E f \in G : P.keyword = <<Word(KeyOf(p.type, f))>>
  /\ \A f \in G : Carries(Has(S, p, f), KeyOf(p.type, f), Said(p, f))

AsText(f) == f \in Texts \cup {"utc"}

\* What becomes of field f if H of the fields of p are sent and read.
Reads(p, proto, H, f, x) ==
  IF f \in H
  THEN \E w : /\ Part(w, Said(p, f)) /\ (Clean(Said(p, f)) => w = Said(p, f))
              /\ x = IF w = NULL THEN proto[f] ELSE IF AsText(f) THEN w ELSE w[1].v
  ELSE x = proto[f]

\* Two fields of a protocol never share a keyword, and every keyword is a word.
LEMMA KeyIs ==
  /\ \A type : \A f, g \in Names \cup Base : KeyOf(type, f) = KeyOf(type, g) => f = g
  /\ \A type : \A f \in Names \cup Base : KeyOf(type, f) \in Words
  /\ \A k, l : <<Word(k)>> = <<Word(l)>> => k = l
<1>1. \A type : \A f \in Names \cup Base : KeyOf(type, f) \in Keywords
  BY DEF KeyOf, Names, Base, Keywords
<1>2. \A f \in Names \cup Base : f \notin {"longitude", "latitude", "altitude"}
  BY DEF Names, Base
<1>3. \A type : \A f, g \in Names \cup Base : KeyOf(type, f) = KeyOf(type, g) => f = g
  BY <1>2 DEF KeyOf
<1>4. ASSUME NEW k, NEW l, <<Word(k)>> = <<Word(l)>> PROVE k = l
  <2>1. Word(k) = Word(l)
    BY <1>4
  <2>2. Word(k).s = k /\ Word(l).s = l
    BY DEF Word
  <2>3. QED
    BY <2>1, <2>2
<1>5. QED
  BY <1>1, <1>3, <1>4, WordAssumption

\* The pairs of field f among kvs.
At(p, f, kvs) == {i \in DOMAIN kvs : kvs[i].keyword = <<Word(KeyOf(p.type, f))>>}

\* What is read of field f is w, a part of what p says, from the last of the pairs at.
Settles(w, p, f, kvs, at) ==
  /\ Part(w, Said(p, f)) /\ (Clean(Said(p, f)) => w = Said(p, f))
  /\ w = NULL => at = {}
  /\ w # NULL => at # {} /\ Max(at) \in at /\ \A i \in at : kvs[i].value = w

\* All pairs with the keyword of a field have the same value, or there is none.
LEMMA FoundIs ==
  ASSUME NEW p, NEW G, G \subseteq Names \cup Base, NEW b \in Seq(Char), Tells(Pairs(b), p, G),
         NEW kvs, kvs = resolve_kv_array(Tokens(b, Comma)),
         NEW f \in Names \cup Base
  PROVE  IF f \in G
         THEN \E w : Settles(w, p, f, kvs, At(p, f, kvs))
         ELSE At(p, f, kvs) = {}
<1>a. PICK at : at = At(p, f, kvs)
  OBVIOUS
<1>0. at = {i \in DOMAIN kvs : kvs[i].keyword = <<Word(KeyOf(p.type, f))>>}
  BY <1>a DEF At
<1>1. /\ DOMAIN kvs \in SUBSET (0 .. Len(b))
      /\ \A i \in DOMAIN kvs : kvs[i] \in Pairs(b)
      /\ \A P \in Pairs(b) : \E i \in DOMAIN kvs : kvs[i] = P
  BY ArrayIs
<1>2. CASE f \notin G
  <2>1. ASSUME NEW i \in at PROVE FALSE
    <3>1. kvs[i] \in Pairs(b) /\ kvs[i].keyword = <<Word(KeyOf(p.type, f))>>
      BY <1>0, <1>1
    <3>2. PICK g \in G : kvs[i].keyword = <<Word(KeyOf(p.type, g))>>
      BY <3>1 DEF Tells
    <3>3. KeyOf(p.type, f) = KeyOf(p.type, g)
      BY <3>1, <3>2, KeyIs
    <3>4. QED
      BY <1>2, <3>3, KeyIs
  <2>2. QED
    BY <1>2, <1>a, <2>1
<1>3. CASE f \in G
  <2>1. PICK w : /\ Part(w, Said(p, f)) /\ (Clean(Said(p, f)) => w = Said(p, f))
                 /\ Has(Pairs(b), p, f) = IF w = NULL THEN {} ELSE {PairRecord(KeyOf(p.type, f), w)}
    BY <1>3 DEF Tells, Carries
  <2>2. \A i \in at : kvs[i] \in Has(Pairs(b), p, f)
    BY <1>0, <1>1 DEF Has
  <2>3. CASE w = NULL
    <3>1. at = {}
      BY <2>1, <2>2, <2>3
    <3>2. QED
      BY <1>3, <1>a, <2>1, <2>3, <3>1 DEF Settles
  <2>4. CASE w # NULL
    <3>P. PICK P : P = PairRecord(KeyOf(p.type, f), w)
      OBVIOUS
    <3>1. P.value = w /\ \A i \in at : kvs[i] = P
      BY <2>1, <2>2, <2>4, <3>P DEF PairRecord
    <3>2. P \in Pairs(b) /\ P.keyword = <<Word(KeyOf(p.type, f))>>
      BY <2>1, <2>4, <3>P DEF Has
    <3>3. at # {}
      BY <1>0, <1>1, <3>2
    <3>4. at \in SUBSET (0 .. Len(b)) /\ Len(b) \in Nat
      BY <1>0, <1>1
    <3>5. Max(at) \in at
      BY <3>3, <3>4, MaxIs
    <3>6. QED
      <4>1. Settles(w, p, f, kvs, at)
        BY <2>1, <2>4, <3>1, <3>3, <3>5 DEF Settles
      <4>2. QED
        BY <1>3, <1>a, <4>1
  <2>5. QED
    BY <2>3, <2>4
<1>4. QED
  BY <1>2, <1>3, <1>a

\* fields says under which keyword and how each of them is read.
Keyed(p, fields) ==
  /\ DOMAIN fields \subseteq Names \cup Base
  /\ \A f \in DOMAIN fields : fields[f].keyword = KeyOf(p.type, f) /\ (fields[f].number <=> ~AsText(f))

\* What is said of the fields in G and is no text is clean.
NumbersClean(p, G) == \A f \in G : ~AsText(f) => Clean(Said(p, f))

\* r is what Resolved makes of a line that says the fields in G.
Outcome(p, G, proto, fields, r) ==
  \/ /\ r = Throws
     /\ \E f \in G \cap DOMAIN fields :
          ~AsText(f) /\ Said(p, f) # NULL /\ Said(p, f)[1].c # "num"
  \/ /\ DOMAIN r = DOMAIN proto /\ IsFunction(r)
     /\ \A f \in DOMAIN proto : Reads(p, proto, G \cap DOMAIN fields, f, r[f])

\* What Resolved makes of a line that says the fields in G, one by one.
LEMMA ResolvedIs ==
  ASSUME NEW p, NEW G, G \subseteq Names \cup Base, NEW b \in Seq(Char), Tells(Pairs(b), p, G),
         NEW proto, NEW fields, Keyed(p, fields), NumbersClean(p, G),
         NEW r, r = Resolved(proto, fields, resolve_kv_array(Tokens(b, Comma)))
  PROVE  Outcome(p, G, proto, fields, r)
<1>K. /\ DOMAIN fields \subseteq Names \cup Base
      /\ \A f \in DOMAIN fields : fields[f].keyword = KeyOf(p.type, f) /\ (fields[f].number <=> ~AsText(f))
      /\ \A f \in G : ~AsText(f) => Clean(Said(p, f))
  BY DEF Keyed, NumbersClean
<1>k. PICK kvs : kvs = resolve_kv_array(Tokens(b, Comma))
  OBVIOUS
<1>a. PICK at : at = [f \in DOMAIN fields |-> {i \in DOMAIN kvs : kvs[i].keyword = <<Word(fields[f].keyword)>>}]
  OBVIOUS
<1>1. r = IF \E f \in DOMAIN fields : fields[f].number /\ \E i \in at[f] : kvs[i].value[1].c # "num"
          THEN Throws
          ELSE [f \in DOMAIN proto |->
                  IF f \notin DOMAIN fields \/ at[f] = {} THEN proto[f]
                  ELSE IF fields[f].number THEN kvs[Max(at[f])].value[1].v ELSE kvs[Max(at[f])].value]
  BY <1>k, <1>a DEF Resolved
<1>2. \A f \in DOMAIN fields : at[f] = {i \in DOMAIN kvs : kvs[i].keyword = <<Word(KeyOf(p.type, f))>>}
  BY <1>K, <1>a
<1>3. ASSUME NEW f \in DOMAIN fields
      PROVE  IF f \in G
             THEN \E w : Settles(w, p, f, kvs, at[f])
             ELSE at[f] = {}
  <2>1. f \in Names \cup Base
    BY <1>K
  <2>2. at[f] = At(p, f, kvs)
    BY <1>2 DEF At
  <2>3. IF f \in G THEN \E w : Settles(w, p, f, kvs, At(p, f, kvs)) ELSE At(p, f, kvs) = {}
    <3>1. /\ G \subseteq Names \cup Base /\ b \in Seq(Char) /\ Tells(Pairs(b), p, G)
          /\ kvs = resolve_kv_array(Tokens(b, Comma))
      BY <1>k
    <3>2. QED
      BY <2>1, <3>1, FoundIs
  <2>4. QED
    BY <2>2, <2>3
<1>4. CASE \E f \in DOMAIN fields : fields[f].number /\ \E i \in at[f] : kvs[i].value[1].c # "num"
  <2>1. PICK f \in DOMAIN fields : fields[f].number /\ \E i \in at[f] : kvs[i].value[1].c # "num"
    BY <1>4
  <2>2. PICK i \in at[f] : kvs[i].value[1].c # "num"
    BY <2>1
  <2>3. f \in G
    BY <1>3, <2>2
  <2>4. PICK w : /\ (Clean(Said(p, f)) => w = Said(p, f)) /\ w # NULL
                 /\ \A j \in at[f] : kvs[j].value = w
    BY <1>3, <2>2, <2>3 DEF Settles
  <2>5. ~AsText(f) /\ Clean(Said(p, f))
    BY <1>K, <2>1, <2>3
  <2>6. w = Said(p, f) /\ w[1].c # "num"
    BY <2>2, <2>4, <2>5
  <2>7. r = Throws
    BY <1>1, <1>4
  <2>8. QED
    BY <2>3, <2>4, <2>5, <2>6, <2>7 DEF Outcome
<1>5. CASE ~ \E f \in DOMAIN fields : fields[f].number /\ \E i \in at[f] : kvs[i].value[1].c # "num"
  <2>1. r = [f \in DOMAIN proto |->
                  IF f \notin DOMAIN fields \/ at[f] = {} THEN proto[f]
                  ELSE IF fields[f].number THEN kvs[Max(at[f])].value[1].v ELSE kvs[Max(at[f])].value]
    BY <1>1, <1>5
  <2>2. DOMAIN r = DOMAIN proto /\ IsFunction(r)
    BY <2>1 DEF IsFunction
  <2>3. ASSUME NEW f \in DOMAIN proto PROVE Reads(p, proto, G \cap DOMAIN fields, f, r[f])
    <3>0. r[f] = IF f \notin DOMAIN fields \/ at[f] = {} THEN proto[f]
                 ELSE IF fields[f].number THEN kvs[Max(at[f])].value[1].v ELSE kvs[Max(at[f])].value
      BY <2>1
    <3>1. CASE f \notin DOMAIN fields
      BY <3>0, <3>1 DEF Reads
    <3>2. CASE f \in DOMAIN fields /\ f \notin G
      <4>1. at[f] = {}
        BY <1>3, <3>2
      <4>2. QED
        BY <3>0, <3>2, <4>1 DEF Reads
    <3>3. CASE f \in DOMAIN fields /\ f \in G
      <4>1. PICK w : Settles(w, p, f, kvs, at[f])
        BY <1>3, <3>3
      <4>2. fields[f].number <=> ~AsText(f)
        BY <1>K, <3>3
      <4>3. r[f] = IF w = NULL THEN proto[f] ELSE IF AsText(f) THEN w ELSE w[1].v
        BY <3>0, <3>3, <4>1, <4>2 DEF Settles
      <4>4. f \in G \cap DOMAIN fields
        BY <3>3
      <4>5. QED
        BY <4>1, <4>3, <4>4 DEF Reads, Settles
    <3>4. QED
      BY <3>1, <3>2, <3>3
  <2>4. QED
    BY <2>2, <2>3 DEF Outcome
<1>6. QED
  BY <1>4, <1>5

-----------------------------------------------------------------------------
(* Lines that say the fields of a protocol                                 *)

Fields == Names \cup Base

\* A pair for one more field leaves those of the others as they are.
LEMMA TellsMore ==
  ASSUME NEW p, NEW G, G \subseteq Fields, NEW f \in Fields, f \notin G,
         NEW S, Tells(S, p, G), NEW T, Carries(T, KeyOf(p.type, f), Said(p, f))
  PROVE  Tells(S \cup T, p, G \cup {f})
<1>k. PICK k : k = KeyOf(p.type, f)
  OBVIOUS
<1>1. PICK x : /\ Part(x, Said(p, f)) /\ (Clean(Said(p, f)) => x = Said(p, f))
               /\ T = IF x = NULL THEN {} ELSE {PairRecord(k, x)}
  BY <1>k DEF Carries
<1>2. \A P \in T : P.keyword = <<Word(k)>>
  BY <1>1 DEF PairRecord
<1>3. ASSUME NEW P \in S, NEW g \in G, P.keyword = <<Word(KeyOf(p.type, g))>>
      PROVE  P.keyword # <<Word(k)>>
  <2>1. KeyOf(p.type, g) # k
    BY <1>k, KeyIs DEF Fields
  <2>2. QED
    BY <1>3, <2>1, KeyIs
<1>4. \A P \in S : \E g \in G : P.keyword = <<Word(KeyOf(p.type, g))>>
  BY DEF Tells
<1>5. \A P \in S : P.keyword # <<Word(k)>>
  BY <1>3, <1>4
<1>6. Has(S \cup T, p, f) = T
  BY <1>2, <1>5, <1>k DEF Has
<1>7. ASSUME NEW g \in G PROVE Has(S \cup T, p, g) = Has(S, p, g)
  <2>1. KeyOf(p.type, g) # k
    BY <1>k, KeyIs DEF Fields
  <2>2. \A P \in T : P.keyword # <<Word(KeyOf(p.type, g))>>
    BY <1>2, <2>1, KeyIs
  <2>3. QED
    BY <2>2 DEF Has
<1>8. ASSUME NEW P \in S \cup T PROVE \E g \in G \cup {f} : P.keyword = <<Word(KeyOf(p.type, g))>>
  BY <1>2, <1>4, <1>k
<1>9. ASSUME NEW g \in G \cup {f}
      PROVE  Carries(Has(S \cup T, p, g), KeyOf(p.type, g), Said(p, g))
  <2>1. CASE g = f
    BY <1>6, <2>1
  <2>2. CASE g \in G
    <3>1. Carries(Has(S, p, g), KeyOf(p.type, g), Said(p, g))
      BY <2>2 DEF Tells
    <3>2. QED
      BY <1>7, <2>2, <3>1
  <2>3. QED
    BY <2>1, <2>2
<1>10. QED
  BY <1>8, <1>9 DEF Tells

\* No text among the fields in G reads like a pair of its own.
Honest(p, G) == \A f \in G : ~Mimics(Said(p, f))

\* A line as it is received: the type, and behind it the pairs.
Ended(t, p, G) ==
  /\ t \in Seq(Char) /\ t # <<>> /\ Upto(t, Space) = <<Word(p.type)>>
  /\ Beyond(t, Space) \in Seq(Char)
  /\ Honest(p, G) => Tells(Pairs(Beyond(t, Space)), p, G)

\* A line as it is written, which says the fields in G, and more may follow or not.
Says(l, p, G) ==
  /\ \E b \in Seq(Char) :
       /\ l = Bare(p) \o b /\ Open(b) /\ (b # <<>> => b[1] # Space)
       /\ Honest(p, G) => Tells(Pairs(b), p, G)
  /\ Ended(Trimmed(l), p, G)

\* Length and elements of the beginning of a line.
LEMMA BareHas ==
  ASSUME NEW p, p.type \in Words, NEW a, a = Bare(p)
  PROVE  a \in Seq(Char) /\ Len(a) = 2 /\ a[1] = Word(p.type) /\ a[2] = Space
<1>1. Word(p.type) \in Char /\ Space \in Char
  BY Chars
<1>2. QED
  BY <1>1, FewChars DEF Bare

\* Resolve cuts a line at its first space: the type before it, the pairs behind it.
LEMMA SplitAt ==
  ASSUME NEW k \in Words, NEW t \in Seq(Char), NEW c \in Seq(Char), c # <<>> => c[1] # Space,
         Len(t) = 2 + Len(c), t[1] = Word(k), t[2] = Space,
         \A i \in 1 .. Len(c) : t[2 + i] = c[i]
  PROVE  /\ t # <<>> /\ Upto(t, Space) = <<Word(k)>> /\ Beyond(t, Space) = c
<1>2. /\ Len(c) \in Nat /\ Len(t) = 2 + Len(c)
      /\ t[1] = Word(k) /\ t[2] = Space
      /\ \A i \in 1 .. Len(c) : t[2 + i] = c[i]
  OBVIOUS
<1>3. Word(k) \in Char /\ Word(k) # Space
  BY Chars
<1>4. t # <<>>
  <2>1. Len(<<>>) = 0 /\ Len(t) # 0
    BY <1>2
  <2>2. QED
    BY <2>1, Zenon
<1>n. PICK n : n = 1
  OBVIOUS
<1>m. PICK m : m = 2
  OBVIOUS
<1>5. n \in 0 .. Len(t) /\ m \in n .. Len(t) /\ (n < Len(t) => t[n + 1] = Space)
  BY <1>2, <1>n, <1>m
<1>6. \A j \in 1 .. n : t[j] # Space
  BY <1>2, <1>3, <1>n
<1>t. t \in Seq(Char)
  BY <1>2
<1>7. Upto(t, Space) = <<Word(k)>>
  <2>u. PICK u : u = Upto(t, Space)
    OBVIOUS
  <2>1. u \in Seq(Char) /\ Len(u) = n /\ \A j \in 1 .. n : u[j] = t[j]
    <3>1. n \in 0 .. Len(t)
      BY <1>5
    <3>2. n < Len(t) => t[n + 1] = Space
      BY <1>5
    <3>3. /\ Upto(t, Space) \in Seq(Char) /\ Len(Upto(t, Space)) = n
          /\ \A j \in 1 .. n : Upto(t, Space)[j] = t[j]
      BY <1>6, <1>t, <3>1, <3>2, UptoAt
    <3>4. QED
      BY <2>u, <3>3
  <2>2. u[1] = t[1] /\ Len(u) = 1
    <3>1. 1 \in 1 .. n
      BY <1>n
    <3>2. QED
      BY <1>n, <2>1, <3>1
  <2>3. u = <<Word(k)>>
    BY <1>2, <1>3, <2>1, <2>2, FewChars
  <2>4. QED
    BY <2>3, <2>u
<1>8. Beyond(t, Space) = SubSeq(t, 2 + 1, Len(t))
  <2>1. \A j \in n + 1 .. m : t[j] = Space
    BY <1>2, <1>n, <1>m
  <2>2. m < Len(t) => t[m + 1] # Space
    <3>1. SUFFICES ASSUME 2 < Len(t) PROVE t[2 + 1] # Space
      BY <1>m
    <3>2. 1 \in 1 .. Len(c) /\ c # <<>>
      BY <1>2, <3>1
    <3>3. QED
      BY <1>2, <3>2
  <2>3. Beyond(t, Space) = SubSeq(t, m + 1, Len(t))
    <3>1. RunAt(t, Space, n, m)
      BY <1>5, <1>6, <2>1, <2>2 DEF RunAt
    <3>2. QED
      BY <1>t, <3>1, BeyondRun
  <2>4. QED
    BY <1>m, <2>3
<1>9. c = SubSeq(t, 2 + 1, Len(t))
  <2>1. 2 + 1 \in 1 .. Len(t) + 1 /\ Len(t) \in (2 + 1) - 1 .. Len(t) /\ Len(c) = Len(t) - (2 + 1) + 1
    BY <1>2
  <2>2. \A i \in 1 .. Len(c) : c[i] = t[(2 + 1) + i - 1]
    <3>1. \A i \in 1 .. Len(c) : (2 + 1) + i - 1 = 2 + i
      OBVIOUS
    <3>2. QED
      BY <1>2, <3>1
  <2>3. QED
    BY <1>2, <2>1, <2>2, SubSeqIs
<1>10. QED
  BY <1>4, <1>7, <1>8, <1>9

\* What stands before and behind the first space of a line is its type and its pairs.
LEMMA BodyOf ==
  ASSUME NEW p, p.type \in Words, NEW c \in Seq(Char), c # <<>> => c[1] # Space,
         NEW t, t = Bare(p) \o c
  PROVE  /\ t \in Seq(Char) /\ t # <<>>
         /\ Upto(t, Space) = <<Word(p.type)>> /\ Beyond(t, Space) = c
<1>a. PICK a : a = Bare(p)
  OBVIOUS
<1>1. a \in Seq(Char) /\ Len(a) = 2 /\ a[1] = Word(p.type) /\ a[2] = Space
  BY <1>a, BareHas
<1>2. /\ t \in Seq(Char) /\ Len(c) \in Nat /\ Len(t) = 2 + Len(c)
      /\ t[1] = Word(p.type) /\ t[2] = Space
      /\ \A i \in 1 .. Len(c) : t[2 + i] = c[i]
  <2>1. /\ a \o c \in Seq(Char) /\ Len(c) \in Nat
        /\ Len(a \o c) = Len(a) + Len(c)
        /\ \A i \in 1 .. Len(a) : (a \o c)[i] = a[i]
        /\ \A i \in 1 .. Len(c) : (a \o c)[Len(a) + i] = c[i]
    BY <1>1, ConcatIs
  <2>2. t = a \o c
    BY <1>a
  <2>3. /\ t \in Seq(Char) /\ Len(c) \in Nat /\ Len(t) = 2 + Len(c)
        /\ \A i \in 1 .. 2 : t[i] = a[i]
        /\ \A i \in 1 .. Len(c) : t[2 + i] = c[i]
    BY <1>1, <2>1, <2>2
  <2>4. QED
    BY <1>1, <2>3
<1>3. t # <<>> /\ Upto(t, Space) = <<Word(p.type)>> /\ Beyond(t, Space) = c
  BY <1>2, SplitAt
<1>4. QED
  BY <1>2, <1>3

\* An empty string says of no field anything.
LEMMA TellsNothing ==
  ASSUME NEW p
  PROVE  Pairs(<<>>) = {} /\ Tells({}, p, {})
<1>1. Starts(<<>>) = {}
  BY DEF Starts
<1>2. QED
  BY <1>1 DEF Pairs, Tells

\* A line of nothing but its type is trimmed to the type.
LEMMA BareSays ==
  ASSUME NEW p, p.type \in Words
  PROVE  Says(Bare(p), p, {}) /\ Trimmed(Bare(p)) = <<Word(p.type)>>
<1>a. PICK a : a = Bare(p)
  OBVIOUS
<1>1. a \in Seq(Char) /\ Len(a) = 2 /\ a[1] = Word(p.type) /\ a[2] = Space
  BY <1>a, BareHas
<1>2. Word(p.type) \in Char /\ Word(p.type) # Space /\ Word(p.type) \notin {Comma, Equals, Dot, Space}
  BY Chars
<1>0. <<>> \in Seq(Char) /\ Len(<<>>) = 0 /\ Open(<<>>)
  BY DEF Open
<1>3. a = a \o <<>>
  BY <1>1
<1>t. PICK t : t = Trimmed(a)
  OBVIOUS
<1>4. t = SubSeq(a, 1, 1)
  <2>1. 1 \in 0 .. Len(a) /\ \A j \in 1 + 1 .. Len(a) : a[j] \in {Comma, Equals, Dot, Space}
    BY <1>1
  <2>2. 1 > 0 => a[1] \notin {Comma, Equals, Dot, Space}
    BY <1>1, <1>2
  <2>3. QED
    BY <1>1, <1>t, <2>1, <2>2, TrimRightAt DEF Trimmed
<1>5. t \in Seq(Char) /\ Len(t) = 1 /\ t[1] = Word(p.type)
  <2>1. 1 \in 1 .. Len(a) + 1 /\ 1 \in 1 - 1 .. Len(a)
    BY <1>1
  <2>2. t \in Seq(Char) /\ Len(t) = 1 - 1 + 1 /\ \A j \in 1 .. 1 - 1 + 1 : t[j] = a[1 + j - 1]
    BY <1>1, <1>4, <2>1, SubSeqIs
  <2>3. QED
    BY <1>1, <2>2
<1>6. t = <<Word(p.type)>> /\ t # <<>>
  BY <1>2, <1>5, FewChars
<1>7. Upto(t, Space) = t /\ Beyond(t, Space) = <<>>
  <2>1. 1 \in 0 .. Len(t) /\ 1 \in 1 .. Len(t) /\ ~(1 < Len(t)) /\ 1 + 1 .. 1 = {}
    BY <1>5
  <2>2. \A j \in 1 .. 1 : t[j] # Space
    BY <1>2, <1>5
  <2>3. Upto(t, Space) = SubSeq(t, 1, Len(t))
    BY <1>5, <2>1, <2>2, UptoAt
  <2>4. Beyond(t, Space) = SubSeq(t, 1 + 1, Len(t))
    BY <1>5, <2>1, <2>2, BeyondAt
  <2>5. SubSeq(t, 1 + 1, Len(t)) = <<>>
    BY <1>5, SubSeqEmpty
  <2>6. QED
    BY <1>5, <2>3, <2>4, <2>5, SubSeqFull
<1>8. Ended(t, p, {})
  BY <1>0, <1>5, <1>6, <1>7, TellsNothing DEF Ended
<1>9. \E b \in Seq(Char) :
       /\ a = Bare(p) \o b /\ Open(b) /\ (b # <<>> => b[1] # Space)
       /\ Honest(p, {}) => Tells(Pairs(b), p, {})
  BY <1>0, <1>3, <1>a, TellsNothing
<1>10. QED
  BY <1>6, <1>8, <1>9, <1>a, <1>t DEF Says

\* A line to which join_kv appends a field says that field too, trimmed or not.
LEMMA Joins ==
  ASSUME NEW p, p.type \in Words, NEW G, G \subseteq Fields, NEW l, Says(l, p, G),
         NEW f \in Fields, f \notin G, Said(p, f) \in Seq(Char)
  PROVE  Says(l \o join_kv(KeyOf(p.type, f), Said(p, f)), p, G \cup {f})
<1>k. PICK k : k = KeyOf(p.type, f)
  OBVIOUS
<1>v. PICK v : v = Said(p, f)
  OBVIOUS
<1>j. PICK j : j = join_kv(k, v)
  OBVIOUS
<1>a. PICK a : a = Bare(p)
  OBVIOUS
<1>t. PICK t : t = TrimRight(j, Ends)
  OBVIOUS
<1>0. k \in Words /\ v \in Seq(Char) /\ a \in Seq(Char)
  BY <1>k, <1>v, <1>a, KeyIs, BareHas DEF Fields
<1>1. j \in Seq(Char) /\ Open(j) /\ j # <<>> /\ j[1] = Word(k)
  BY <1>0, <1>j, JoinIs
<1>2. t \in Seq(Char) /\ t # <<>> /\ t[1] = Word(k)
  BY <1>0, <1>j, <1>t, TrimCarries
<1>3. Word(k) # Space /\ Word(k) \notin Ends
  BY <1>0, Chars DEF Ends
<1>4. PICK b \in Seq(Char) :
       /\ l = a \o b /\ Open(b) /\ (b # <<>> => b[1] # Space)
       /\ Honest(p, G) => Tells(Pairs(b), p, G)
  BY <1>a DEF Says
<1>5. Honest(p, G \cup {f}) => Honest(p, G) /\ ~Mimics(v)
  BY <1>v DEF Honest
<1>6. ASSUME NEW u \in Seq(Char), u # <<>>, u[1] = Word(k),
             ~Mimics(v) => Carries(Pairs(u), k, v)
      PROVE  /\ b \o u \in Seq(Char) /\ b \o u # <<>> /\ (b \o u)[1] # Space
             /\ Honest(p, G \cup {f}) => Tells(Pairs(b \o u), p, G \cup {f})
  <2>c. PICK c : c = b \o u
    OBVIOUS
  <2>1. /\ c \in Seq(Char) /\ Len(b) \in Nat /\ Len(u) \in Nat
        /\ Len(c) = Len(b) + Len(u)
        /\ \A i \in 1 .. Len(b) : c[i] = b[i]
        /\ \A i \in 1 .. Len(u) : c[Len(b) + i] = u[i]
    BY <2>c, ConcatIs
  <2>2. Len(u) >= 1
    BY <1>6
  <2>3. c # <<>>
    <3>1. Len(<<>>) = 0 /\ Len(c) # 0
      BY <2>1, <2>2
    <3>2. QED
      BY <3>1, Zenon
  <2>4. c[1] # Space
    <3>1. CASE b = <<>>
      <4>1. Len(b) = 0 /\ 1 \in 1 .. Len(u) /\ Len(b) + 1 = 1
        BY <2>2, <3>1
      <4>2. c[1] = u[1]
        BY <2>1, <4>1
      <4>3. QED
        BY <1>3, <1>6, <4>2
    <3>2. CASE b # <<>>
      <4>1. 1 \in 1 .. Len(b)
        BY <2>1, <3>2
      <4>2. QED
        BY <1>4, <2>1, <3>2, <4>1
    <3>3. QED
      BY <3>1, <3>2
  <2>5. Pairs(c) = Pairs(b) \cup Pairs(u)
    BY <1>4, <1>6, <2>c, PairsConcat
  <2>6. ASSUME Honest(p, G \cup {f}) PROVE Tells(Pairs(c), p, G \cup {f})
    <3>1. Tells(Pairs(b), p, G) /\ Carries(Pairs(u), k, v)
      BY <1>4, <1>5, <1>6, <2>6
    <3>2. Tells(Pairs(b) \cup Pairs(u), p, G \cup {f})
      BY <1>k, <1>v, <3>1, TellsMore
    <3>3. QED
      BY <2>5, <3>2
  <2>7. QED
    BY <2>1, <2>3, <2>4, <2>6, <2>c
<1>7. l \o j = a \o (b \o j)
  <2>0. a \in Seq(Char) /\ b \in Seq(Char) /\ j \in Seq(Char)
    BY <1>0, <1>1
  <2>1. (a \o b) \o j = a \o (b \o j)
    BY <2>0, ConcatThree, Zenon
  <2>2. QED
    BY <1>4, <2>1
<1>8. Open(b \o j)
  <2>c. PICK c : c = b \o j
    OBVIOUS
  <2>1. /\ Len(b) \in Nat /\ Len(j) \in Nat /\ Len(c) = Len(b) + Len(j)
        /\ \A i \in 1 .. Len(j) : c[Len(b) + i] = j[i]
    BY <1>1, <2>c, ConcatIs
  <2>2. Len(j) \in 1 .. Len(j) /\ j[Len(j)] = Comma
    BY <1>1 DEF Open
  <2>3. c[Len(c)] = Comma
    BY <2>1, <2>2
  <2>4. QED
    BY <2>3, <2>c DEF Open
<1>9. /\ b \o j \in Seq(Char) /\ b \o j # <<>> /\ (b \o j)[1] # Space
      /\ Honest(p, G \cup {f}) => Tells(Pairs(b \o j), p, G \cup {f})
  <2>1. ~Mimics(v) => Carries(Pairs(j), k, v)
    BY <1>0, <1>j, CommaCarries
  <2>2. QED
    BY <1>1, <1>6, <2>1
<1>10. /\ b \o t \in Seq(Char) /\ b \o t # <<>> /\ (b \o t)[1] # Space
       /\ Honest(p, G \cup {f}) => Tells(Pairs(b \o t), p, G \cup {f})
  <2>1. ~Mimics(v) => Carries(Pairs(t), k, v)
    BY <1>0, <1>j, <1>t, TrimCarries
  <2>2. QED
    BY <1>2, <1>6, <2>1
<1>11. Trimmed(l \o j) = a \o (b \o t)
  <2>l. l \in Seq(Char)
    BY <1>0, <1>4, ConcatIs
  <2>1. j \in Seq(Char) /\ j # <<>> /\ j[1] \notin Ends
    BY <1>1, <1>3
  <2>2. TrimRight(l \o j, Ends) = l \o t
    <3>1. j \in Seq(Char) /\ j # <<>> /\ j[1] \notin Ends
      BY <2>1
    <3>2. TrimRight(l \o j, Ends) = l \o TrimRight(j, Ends)
      <4>1. \A E : j[1] \notin E => TrimRight(l \o j, E) = l \o TrimRight(j, E)
        BY <2>l, <3>1, TrimBehind, SMTT(30)
      <4>2. QED
        BY <3>1, <4>1
    <3>3. QED
      BY <1>t, <3>2
  <2>0. a \in Seq(Char) /\ b \in Seq(Char) /\ t \in Seq(Char)
    BY <1>0, <1>2
  <2>3. (a \o b) \o t = a \o (b \o t)
    BY <2>0, ConcatThree, Zenon
  <2>4. QED
    BY <1>4, <2>2, <2>3 DEF Trimmed, Ends
<1>12. Ended(Trimmed(l \o j), p, G \cup {f})
  <2>c. PICK c : c = b \o t
    OBVIOUS
  <2>x. PICK x : x = Trimmed(l \o j)
    OBVIOUS
  <2>1. c \in Seq(Char) /\ c[1] # Space /\ x = Bare(p) \o c
    BY <1>10, <1>11, <1>a, <2>c, <2>x
  <2>2. x \in Seq(Char) /\ x # <<>> /\ Upto(x, Space) = <<Word(p.type)>> /\ Beyond(x, Space) = c
    BY <2>1, BodyOf
  <2>3. QED
    BY <1>10, <2>2, <2>c, <2>x DEF Ended
<1>13. Says(l \o j, p, G \cup {f})
  BY <1>7, <1>8, <1>9, <1>12, <1>a DEF Says
<1>14. QED
  BY <1>13, <1>k, <1>v, <1>j

\* A line says a field that is not set without a pair for it.
LEMMA Skips ==
  ASSUME NEW p, NEW G, G \subseteq Fields, NEW l, Says(l, p, G),
         NEW f \in Fields, f \notin G, Said(p, f) = NULL
  PROVE  Says(l, p, G \cup {f})
<1>1. Carries({}, KeyOf(p.type, f), Said(p, f))
  <2>0. <<>> \in Seq(Char)
    OBVIOUS
  <2>1. Part(NULL, NULL)
    BY <2>0, WholeIsPart DEF NULL
  <2>2. QED
    BY <2>1 DEF Carries
<1>2. \A S : Tells(S, p, G) => Tells(S, p, G \cup {f})
  <2> SUFFICES ASSUME NEW S, Tells(S, p, G) PROVE Tells(S, p, G \cup {f})
    OBVIOUS
  <2>1. Tells(S \cup {}, p, G \cup {f})
    BY <1>1, TellsMore
  <2>2. S \cup {} = S
    OBVIOUS
  <2>3. QED
    BY <2>1, <2>2
<1>3. Honest(p, G \cup {f}) => Honest(p, G)
  BY DEF Honest
<1>4. QED
  BY <1>2, <1>3 DEF Says, Ended

-----------------------------------------------------------------------------
(* What a protocol says of its fields                                      *)

\* The empty text, a word and a number are clean and imitate no pair.
LEMMA OneIsClean ==
  /\ Clean(NULL) /\ ~Mimics(NULL)
  /\ \A c \in Char : c.c # "mark" => <<c>> \in Seq(Char) /\ Clean(<<c>>) /\ ~Mimics(<<c>>)
<1>0. \A e \in {Comma, Equals, Dot, Space} : e.c = "mark"
  <2>1. Comma.c = "mark" /\ Equals.c = "mark" /\ Dot.c = "mark" /\ Space.c = "mark"
    BY DEF Comma, Equals, Dot, Space, Mark
  <2>2. QED
    BY <2>1
<1>1. Clean(NULL) /\ ~Mimics(NULL)
  <2>1. Len(<<>>) = 0 /\ Trim(<<>>) = <<>>
    BY TrimNothing
  <2>2. Solid(<<>>, {Comma, Equals, Dot, Space}) = {}
    BY DEF Solid
  <2>3. Trimmed(<<>>) = <<>>
    BY <2>2 DEF Trimmed, TrimRight
  <2>4. QED
    BY <2>1, <2>3 DEF Clean, Mimics, NULL
<1>2. ASSUME NEW c \in Char, c.c # "mark"
      PROVE  <<c>> \in Seq(Char) /\ Clean(<<c>>) /\ ~Mimics(<<c>>)
  <2>1. c \notin {Comma, Equals, Dot, Space}
    BY <1>0, <1>2
  <2>s. PICK s : s = <<c>>
    OBVIOUS
  <2>2. s \in Seq(Char) /\ Len(s) = 1 /\ s[1] = c /\ s # <<>>
    BY <2>s, FewChars
  <2>3. Trim(s) = s
    <3>1. s[1] # Space /\ s[Len(s)] # Space
      BY <2>1, <2>2
    <3>2. QED
      BY <2>2, <3>1, TrimWhole
  <2>4. Trimmed(s) = s
    <3>n. PICK n : n = Len(s)
      OBVIOUS
    <3>1. n \in 0 .. Len(s) /\ s[n] \notin {Comma, Equals, Dot, Space}
      BY <2>1, <2>2, <3>n
    <3>2. \A j \in n + 1 .. Len(s) : s[j] \in {Comma, Equals, Dot, Space}
      BY <2>2, <3>n
    <3>3. Trimmed(s) = SubSeq(s, 1, n)
      BY <2>2, <3>1, <3>2, TrimRightAt DEF Trimmed
    <3>4. QED
      BY <2>2, <3>3, <3>n, SubSeqFull
  <2>5. \A i \in 1 .. Len(s) : s[i] \notin {Comma, Equals}
    BY <2>1, <2>2
  <2>6. QED
    BY <2>2, <2>3, <2>4, <2>5, <2>s DEF Clean, Mimics
<1>3. QED
  BY <1>1, <1>2

\* Six digits of a double, and of an angle at least to half of the sixth.
LEMMA DoubleIs ==
  ASSUME NEW d \in Int, -Never <= d, d <= Never
  PROVE  \E x \in Int : /\ Double(d) = <<Num(x)>>
                        /\ Magnitude(d) <= Turn => Magnitude(x - d) <= 5
<1>1. d \in Int /\ -2000000000 <= d /\ d <= 2000000000
  BY SMT DEF Never
<1>m. PICK m : m = Magnitude(d)
  OBVIOUS
<1>2. m \in Int /\ 0 <= m /\ m <= 2000000000 /\ m = IF d < 0 THEN -d ELSE d
  BY <1>1, <1>m, SMT DEF Magnitude
<1>u. PICK unit : unit = Unit(m)
  OBVIOUS
<1>3. \E u \in {1, 10, 100, 1000, 10000} :
                /\ m \div u < 1000000
                /\ u > 1 => m \div (u \div 10) >= 1000000
  <2>1. CASE m \div 1 < 1000000
    BY <2>1, SMT
  <2>2. CASE m \div 1 >= 1000000 /\ m \div 10 < 1000000
    <3>1. 10 \div 10 = 1
      BY SMT
    <3>2. QED
      BY <2>2, <3>1, SMT
  <2>3. CASE m \div 10 >= 1000000 /\ m \div 100 < 1000000
    <3>1. 100 \div 10 = 10
      BY SMT
    <3>2. QED
      BY <2>3, <3>1, SMT
  <2>4. CASE m \div 100 >= 1000000 /\ m \div 1000 < 1000000
    <3>1. 1000 \div 10 = 100
      BY SMT
    <3>2. QED
      BY <2>4, <3>1, SMT
  <2>5. CASE m \div 1000 >= 1000000
    <3>1. 10000 \div 10 = 1000 /\ m \div 10000 < 1000000
      BY <1>2, SMT
    <3>2. QED
      BY <2>5, <3>1, SMT
  <2>6. m \div 1 \in Int /\ m \div 10 \in Int /\ m \div 100 \in Int /\ m \div 1000 \in Int
    BY <1>2, SMT
  <2>7. QED
    BY <2>1, <2>2, <2>3, <2>4, <2>5, <2>6, SMT
<1>4. /\ unit \in {1, 10, 100, 1000, 10000}
      /\ unit > 1 => m \div (unit \div 10) >= 1000000
  BY <1>3, <1>u, SMT DEF Unit
<1>c. PICK cut : cut = ((m + unit \div 2) \div unit) * unit
  OBVIOUS
<1>5. cut \in Int
  <2>1. CASE unit = 1
    BY <1>2, <1>c, <2>1, SMT
  <2>2. CASE unit = 10
    BY <1>2, <1>c, <2>2, SMT
  <2>3. CASE unit = 100
    BY <1>2, <1>c, <2>3, SMT
  <2>4. CASE unit = 1000
    BY <1>2, <1>c, <2>4, SMT
  <2>5. CASE unit = 10000
    BY <1>2, <1>c, <2>5, SMT
  <2>6. QED
    BY <1>4, <2>1, <2>2, <2>3, <2>4, <2>5, SMT
<1>x. PICK x : x = IF d < 0 THEN -cut ELSE cut
  OBVIOUS
<1>6. x \in Int /\ Double(d) = <<Num(x)>>
  BY <1>5, <1>m, <1>u, <1>c, <1>x, SMT DEF Double
<1>T. Turn = 3600000
  BY SMT DEF Turn, Degree
<1>7. ASSUME m <= Turn PROVE Magnitude(x - d) <= 5
  <2>1. unit = 1 \/ unit = 10
    <3>1. CASE unit = 100
      <4>1. 100 \div 10 = 10 /\ m \div 10 < 1000000 /\ m \div 10 \in Int
        BY <1>2, <1>7, <1>T, SMT
      <4>2. m \div (100 \div 10) >= 1000000
        BY <1>4, <3>1, SMT
      <4>3. QED
        BY <4>1, <4>2, SMT
    <3>2. CASE unit = 1000
      <4>1. 1000 \div 10 = 100 /\ m \div 100 < 1000000 /\ m \div 100 \in Int
        BY <1>2, <1>7, <1>T, SMT
      <4>2. m \div (1000 \div 10) >= 1000000
        BY <1>4, <3>2, SMT
      <4>3. QED
        BY <4>1, <4>2, SMT
    <3>3. CASE unit = 10000
      <4>1. 10000 \div 10 = 1000 /\ m \div 1000 < 1000000 /\ m \div 1000 \in Int
        BY <1>2, <1>7, <1>T, SMT
      <4>2. m \div (10000 \div 10) >= 1000000
        BY <1>4, <3>3, SMT
      <4>3. QED
        BY <4>1, <4>2, SMT
    <3>4. QED
      BY <1>4, <3>1, <3>2, <3>3, SMT
  <2>2. -5 <= cut - m /\ cut - m <= 5
    <3>1. CASE unit = 1
      BY <1>2, <1>c, <3>1, SMT
    <3>2. CASE unit = 10
      BY <1>2, <1>c, <3>2, SMT
    <3>3. QED
      BY <2>1, <3>1, <3>2, SMT
  <2>3. QED
    BY <1>1, <1>2, <1>5, <1>x, <2>2, SMT DEF Magnitude
<1>8. QED
  BY <1>6, <1>7, <1>m

\* A protocol of the kind of proto whose fields hold what they may.
Handed(p, proto) ==
  /\ p.type = proto.type /\ DOMAIN p = DOMAIN proto
  /\ \A f \in DOMAIN proto \ {"type", "utc"} : IsField(p, f, p[f])

\* What is said of field f is a text on one line, and of no text a clean one.
Good(p, f) ==
  /\ f \in Fields /\ Said(p, f) \in Seq(Char)
  /\ ~AsText(f) => Clean(Said(p, f)) /\ ~Mimics(Said(p, f))
  /\ ~AsText(f) /\ p.type # "rain" /\ Said(p, f) # NULL => Said(p, f)[1].c = "num"

\* What a protocol of the constructors' types says of any of its fields can be sent.
LEMMA FieldIs ==
  ASSUME NEW proto, Regular(proto), NEW p, Handed(p, proto), NEW f \in Own(proto) \cup Base
  PROVE  Good(p, f)
<1>1. f \in DOMAIN proto /\ f \in Fields /\ f # "type"
  BY DEF Regular, Own, Common, Fields, Names, Base
<1>2. f # "utc" => IsField(p, f, p[f])
  BY <1>1 DEF Handed
<1>3. \A n \in Int : Num(n) \in Char /\ Num(n).c = "num"
  BY Chars DEF Num
<1>N. \A n \in Int : LET s == Whole(n)
                     IN s \in Seq(Char) /\ Clean(s) /\ ~Mimics(s) /\ s[1].c = "num"
  BY <1>3, OneIsClean, FewChars DEF Whole
<1>4. CASE f = "utc"
  <2>1. Word("now") \in Char
    BY Chars, WordAssumption
  <2>2. Said(p, f) \in Seq(Char)
    BY <1>4, <2>1, FewChars DEF Said, set_timetag
  <2>3. QED
    BY <1>1, <1>4, <2>2 DEF Good, AsText
<1>5. CASE f # "utc" /\ f \in Texts
  <2>1. Said(p, f) = p[f]
    <3>1. Said(p, f) = IF f = "utc" THEN set_timetag
                       ELSE IF f \in Texts \/ (f = "value" /\ p.type = "rain") THEN p[f]
                       ELSE IF IsDouble(p, f) THEN Double(p[f])
                       ELSE IF p.type = "slit" /\ p[f] = INT_MIN THEN NULL
                       ELSE Whole(p[f])
      BY DEF Said
    <3>2. f # "utc" /\ f \in Texts
      BY <1>5
    <3>3. QED
      BY <3>1, <3>2
  <2>2. p[f] \in Seq(Char)
    BY <1>2, <1>5 DEF IsField
  <2>3. QED
    BY <1>1, <1>5, <2>1, <2>2 DEF Good, AsText
<1>6. CASE f # "utc" /\ f \notin Texts /\ f = "value" /\ p.type = "rain"
  <2>1. Said(p, f) = p[f]
    BY <1>6 DEF Said
  <2>2. p[f] \in Seq(Char) /\ Len(p[f]) <= 1 /\ \A i \in 1 .. Len(p[f]) : p[f][i].c # "mark"
    BY <1>2, <1>6 DEF IsField
  <2>3. Clean(p[f]) /\ ~Mimics(p[f])
    <3>1. CASE Len(p[f]) = 0
      <4>1. p[f] = NULL
        BY <2>2, <3>1 DEF NULL
      <4>2. QED
        BY <4>1, OneIsClean
    <3>2. CASE Len(p[f]) = 1
      <4>c. PICK c : c = p[f][1]
        OBVIOUS
      <4>1. c \in Char /\ c.c # "mark"
        BY <2>2, <3>2, <4>c
      <4>2. p[f] = <<c>>
        BY <2>2, <3>2, <4>c, <4>1, FewChars
      <4>3. QED
        BY <4>1, <4>2, OneIsClean
    <3>3. QED
      <4>1. Len(p[f]) \in Nat
        BY <2>2
      <4>n. PICK n : n = Len(p[f])
        OBVIOUS
      <4>0. n \in Nat /\ n <= 1
        BY <2>2, <4>1, <4>n
      <4>1a. n = 0 \/ n = 1
        BY <4>0
      <4>2. Len(p[f]) = 0 \/ Len(p[f]) = 1
        BY <4>1a, <4>n
      <4>3. QED
        BY <3>1, <3>2, <4>2
  <2>4. QED
    BY <1>1, <1>6, <2>1, <2>2, <2>3 DEF Good, AsText
<1>7. CASE /\ f # "utc" /\ f \notin Texts /\ ~(f = "value" /\ p.type = "rain")
           /\ IsDouble(p, f)
  <2>1. Said(p, f) = Double(p[f])
    BY <1>7 DEF Said
  <2>2. p[f] \in -Never .. Never
    BY <1>2, <1>7 DEF IsField
  <2>4. p[f] \in Int /\ -Never <= p[f] /\ p[f] <= Never
    <3>1. Never \in Int
      BY SMT DEF Never
    <3>2. QED
      BY <2>2, <3>1
  <2>3. PICK x \in Int : Said(p, f) = Whole(x)
    BY <2>1, <2>4, DoubleIs DEF Whole
  <2>5. QED
    BY <1>1, <1>7, <1>N, <2>3 DEF Good, AsText
<1>8. CASE /\ f # "utc" /\ f \notin Texts /\ ~(f = "value" /\ p.type = "rain")
           /\ ~IsDouble(p, f)
  <2>1. p[f] \in Int
    BY <1>2, <1>8 DEF IsField
  <2>2. Said(p, f) = IF p.type = "slit" /\ p[f] = INT_MIN THEN NULL ELSE Whole(p[f])
    BY <1>8 DEF Said
  <2>3. CASE p.type = "slit" /\ p[f] = INT_MIN
    <3>1. NULL \in Seq(Char)
      BY DEF NULL
    <3>2. QED
      BY <1>1, <1>8, <2>2, <2>3, <3>1, OneIsClean DEF Good, AsText
  <2>4. CASE ~(p.type = "slit" /\ p[f] = INT_MIN)
    BY <1>1, <1>8, <1>N, <2>1, <2>2, <2>4 DEF Good, AsText
  <2>5. QED
    BY <2>3, <2>4
<1>9. QED
  BY <1>4, <1>5, <1>6, <1>7, <1>8

-----------------------------------------------------------------------------
(* Every kind of line says the fields of its protocol                      *)

\* A line that says the fields in G of p.
On(l, p, G) == G \subseteq Fields /\ p.type \in Words /\ Says(l, p, G)

\* What Compact* append for a field.
Put(p, f) == join_kv(KeyOf(p.type, f), Said(p, f))
PutIf(p, f) == Given(KeyOf(p.type, f), Said(p, f))

\* One more field, by join_kv or only if it is set.
LEMMA Adds ==
  ASSUME NEW p, NEW G, NEW l, On(l, p, G), NEW f, f \notin G, Good(p, f)
  PROVE  On(l \o Put(p, f), p, G \cup {f}) /\ On(l \o PutIf(p, f), p, G \cup {f})
<1>1. f \in Fields /\ Said(p, f) \in Seq(Char) /\ G \subseteq Fields /\ p.type \in Words /\ Says(l, p, G)
  BY DEF On, Good
<1>2. Says(l \o Put(p, f), p, G \cup {f})
  BY <1>1, Joins DEF Put
<1>3. CASE Said(p, f) = NULL
  <2>1. Says(l, p, G \cup {f})
    BY <1>1, <1>3, Skips
  <2>a. PICK a : a = Bare(p)
    OBVIOUS
  <2>2. PICK b \in Seq(Char) : l = a \o b
    BY <1>1, <2>a DEF Says
  <2>3. a \in Seq(Char)
    BY <1>1, <2>a, BareHas
  <2>4. l \in Seq(Char)
    BY <2>2, <2>3, ConcatIs
  <2>5. l \o <<>> = l
    BY <2>4
  <2>6. PutIf(p, f) = <<>>
    BY <1>3 DEF PutIf, Given
  <2>7. QED
    BY <1>1, <1>2, <2>1, <2>5, <2>6 DEF On
<1>4. CASE Said(p, f) # NULL
  <2>1. PutIf(p, f) = Put(p, f)
    BY <1>4 DEF PutIf, Put, Given
  <2>2. QED
    BY <1>1, <1>2, <2>1 DEF On
<1>5. QED
  BY <1>3, <1>4

\* compact_base writes the time tag and the identities that are given.
LEMMA BaseOn ==
  ASSUME NEW p, p.type \in Words, \A f \in Base : Good(p, f)
  PROVE  On(compact_base(p), p, Base) /\ On(Bare(p), p, {})
<1>1. On(Bare(p), p, {})
  BY BareSays DEF On
<1>2. On(Bare(p) \o Put(p, "utc"), p, {} \cup {"utc"})
  BY <1>1, Adds DEF Base
<1>3. On(Bare(p) \o Put(p, "utc") \o PutIf(p, "gid"), p, {"utc"} \cup {"gid"})
  BY <1>2, Adds DEF Base
<1>4. On(Bare(p) \o Put(p, "utc") \o PutIf(p, "gid") \o PutIf(p, "uid"), p, {"utc", "gid"} \cup {"uid"})
  BY <1>3, Adds DEF Base
<1>5. On(Bare(p) \o Put(p, "utc") \o PutIf(p, "gid") \o PutIf(p, "uid") \o PutIf(p, "cid"),
         p, {"utc", "gid", "uid"} \cup {"cid"})
  BY <1>4, Adds DEF Base
<1>6. /\ join_kv("utc", set_timetag) = Put(p, "utc")
      /\ Given("gid", p.gid) = PutIf(p, "gid")
      /\ Given("uid", p.uid) = PutIf(p, "uid")
      /\ Given("cid", p.cid) = PutIf(p, "cid")
  BY DEF PutIf, Put, KeyOf, Said, Texts
<1>7. compact_base(p) = Bare(p) \o Put(p, "utc") \o PutIf(p, "gid") \o PutIf(p, "uid") \o PutIf(p, "cid")
  BY <1>6 DEF compact_base, Bare
<1>8. {"utc", "gid", "uid"} \cup {"cid"} = Base
  BY DEF Base
<1>9. QED
  BY <1>1, <1>5, <1>7, <1>8

\* A obsite line says its own fields behind those that it begins with.
LEMMA ObsiteSays ==
  ASSUME NEW p, p.type = "obsite", NEW G, NEW l, On(l, p, G),
         \A f \in {"sitename", "lon", "lat", "alt", "timezone"} : f \notin G /\ Good(p, f)
  PROVE  Ended(Trimmed(l \o join_kv("sitename", p.sitename)
                       \o join_kv("longitude", Double(p.lon))
                       \o join_kv("latitude", Double(p.lat))
                       \o join_kv("altitude", Double(p.alt))
                       \o join_kv("timezone", Whole(p.timezone))),
               p, G \cup {"sitename", "lon", "lat", "alt", "timezone"})
<1>1a. PICK l1 : l1 = l \o Put(p, "sitename")
  OBVIOUS
<1>1. On(l1, p, G \cup {"sitename"})
  BY <1>1a, Adds
<1>2a. PICK l2 : l2 = l1 \o Put(p, "lon")
  OBVIOUS
<1>2. On(l2, p, G \cup {"sitename", "lon"})
  <2>1. On(l2, p, (G \cup {"sitename"}) \cup {"lon"})
    BY <1>1, <1>2a, Adds
  <2>2. QED
    BY <2>1
<1>3a. PICK l3 : l3 = l2 \o Put(p, "lat")
  OBVIOUS
<1>3. On(l3, p, G \cup {"sitename", "lon", "lat"})
  <2>1. On(l3, p, (G \cup {"sitename", "lon"}) \cup {"lat"})
    BY <1>2, <1>3a, Adds
  <2>2. QED
    BY <2>1
<1>4a. PICK l4 : l4 = l3 \o Put(p, "alt")
  OBVIOUS
<1>4. On(l4, p, G \cup {"sitename", "lon", "lat", "alt"})
  <2>1. On(l4, p, (G \cup {"sitename", "lon", "lat"}) \cup {"alt"})
    BY <1>3, <1>4a, Adds
  <2>2. QED
    BY <2>1
<1>5a. PICK l5 : l5 = l4 \o Put(p, "timezone")
  OBVIOUS
<1>5. On(l5, p, G \cup {"sitename", "lon", "lat", "alt", "timezone"})
  <2>1. On(l5, p, (G \cup {"sitename", "lon", "lat", "alt"}) \cup {"timezone"})
    BY <1>4, <1>5a, Adds
  <2>2. QED
    BY <2>1
<1>6. /\ join_kv("sitename", p.sitename) = Put(p, "sitename")
      /\ join_kv("longitude", Double(p.lon)) = Put(p, "lon")
      /\ join_kv("latitude", Double(p.lat)) = Put(p, "lat")
      /\ join_kv("altitude", Double(p.alt)) = Put(p, "alt")
      /\ join_kv("timezone", Whole(p.timezone)) = Put(p, "timezone")
  BY DEF Put, PutIf, Given, IfSet, KeyOf, Said, IsDouble, Texts, Angles, NULL, Whole
<1>7. QED
  BY <1>1a, <1>2a, <1>3a, <1>4a, <1>5a, <1>5, <1>6 DEF On, Says

\* A home_sync line says its own fields behind those that it begins with.
LEMMA HomeSyncSays ==
  ASSUME NEW p, p.type = "home_sync", NEW G, NEW l, On(l, p, G),
         \A f \in {"ra", "dec"} : f \notin G /\ Good(p, f)
  PROVE  Ended(Trimmed(l \o join_kv("ra", Double(p.ra)) \o join_kv("dec", Double(p.dec))),
               p, G \cup {"ra", "dec"})
<1>1a. PICK l1 : l1 = l \o Put(p, "ra")
  OBVIOUS
<1>1. On(l1, p, G \cup {"ra"})
  BY <1>1a, Adds
<1>2a. PICK l2 : l2 = l1 \o Put(p, "dec")
  OBVIOUS
<1>2. On(l2, p, G \cup {"ra", "dec"})
  <2>1. On(l2, p, (G \cup {"ra"}) \cup {"dec"})
    BY <1>1, <1>2a, Adds
  <2>2. QED
    BY <2>1
<1>3. /\ join_kv("ra", Double(p.ra)) = Put(p, "ra")
      /\ join_kv("dec", Double(p.dec)) = Put(p, "dec")
  BY DEF Put, PutIf, Given, IfSet, KeyOf, Said, IsDouble, Texts, Angles, NULL, Whole
<1>4. QED
  BY <1>1a, <1>2a, <1>2, <1>3 DEF On, Says

\* A slewto line says its own fields behind those that it begins with.
LEMMA SlewtoSays ==
  ASSUME NEW p, p.type = "slewto", NEW G, NEW l, On(l, p, G),
         \A f \in {"coorsys", "coor1", "coor2"} : f \notin G /\ Good(p, f)
  PROVE  Ended(Trimmed(l \o join_kv("coorsys", Whole(p.coorsys))
                       \o join_kv("coor1", Double(p.coor1))
                       \o join_kv("coor2", Double(p.coor2))),
               p, G \cup {"coorsys", "coor1", "coor2"})
<1>1a. PICK l1 : l1 = l \o Put(p, "coorsys")
  OBVIOUS
<1>1. On(l1, p, G \cup {"coorsys"})
  BY <1>1a, Adds
<1>2a. PICK l2 : l2 = l1 \o Put(p, "coor1")
  OBVIOUS
<1>2. On(l2, p, G \cup {"coorsys", "coor1"})
  <2>1. On(l2, p, (G \cup {"coorsys"}) \cup {"coor1"})
    BY <1>1, <1>2a, Adds
  <2>2. QED
    BY <2>1
<1>3a. PICK l3 : l3 = l2 \o Put(p, "coor2")
  OBVIOUS
<1>3. On(l3, p, G \cup {"coorsys", "coor1", "coor2"})
  <2>1. On(l3, p, (G \cup {"coorsys", "coor1"}) \cup {"coor2"})
    BY <1>2, <1>3a, Adds
  <2>2. QED
    BY <2>1
<1>4. /\ join_kv("coorsys", Whole(p.coorsys)) = Put(p, "coorsys")
      /\ join_kv("coor1", Double(p.coor1)) = Put(p, "coor1")
      /\ join_kv("coor2", Double(p.coor2)) = Put(p, "coor2")
  BY DEF Put, PutIf, Given, IfSet, KeyOf, Said, IsDouble, Texts, Angles, NULL, Whole
<1>5. QED
  BY <1>1a, <1>2a, <1>3a, <1>3, <1>4 DEF On, Says

\* A track line says its own fields behind those that it begins with.
LEMMA TrackSays ==
  ASSUME NEW p, p.type = "track", NEW G, NEW l, On(l, p, G),
         \A f \in {"objid", "line1", "line2"} : f \notin G /\ Good(p, f)
  PROVE  Ended(Trimmed(l \o join_kv("objid", p.objid) \o join_kv("line1", p.line1)
                       \o join_kv("line2", p.line2)),
               p, G \cup {"objid", "line1", "line2"})
<1>1a. PICK l1 : l1 = l \o Put(p, "objid")
  OBVIOUS
<1>1. On(l1, p, G \cup {"objid"})
  BY <1>1a, Adds
<1>2a. PICK l2 : l2 = l1 \o Put(p, "line1")
  OBVIOUS
<1>2. On(l2, p, G \cup {"objid", "line1"})
  <2>1. On(l2, p, (G \cup {"objid"}) \cup {"line1"})
    BY <1>1, <1>2a, Adds
  <2>2. QED
    BY <2>1
<1>3a. PICK l3 : l3 = l2 \o Put(p, "line2")
  OBVIOUS
<1>3. On(l3, p, G \cup {"objid", "line1", "line2"})
  <2>1. On(l3, p, (G \cup {"objid", "line1"}) \cup {"line2"})
    BY <1>2, <1>3a, Adds
  <2>2. QED
    BY <2>1
<1>4. /\ join_kv("objid", p.objid) = Put(p, "objid")
      /\ join_kv("line1", p.line1) = Put(p, "line1")
      /\ join_kv("line2", p.line2) = Put(p, "line2")
  BY DEF Put, PutIf, Given, IfSet, KeyOf, Said, IsDouble, Texts, Angles, NULL, Whole
<1>5. QED
  BY <1>1a, <1>2a, <1>3a, <1>3, <1>4 DEF On, Says

\* A mount line says its own fields behind those that it begins with.
LEMMA MountSays ==
  ASSUME NEW p, p.type = "mount", NEW G, NEW l, On(l, p, G),
         \A f \in {"state", "errcode", "ra", "dec", "azi", "alt"} : f \notin G /\ Good(p, f)
  PROVE  Ended(Trimmed(l \o join_kv("state", Whole(p.state))
                       \o join_kv("errcode", Whole(p.errcode))
                       \o join_kv("ra", Double(p.ra)) \o join_kv("dec", Double(p.dec))
                       \o join_kv("azi", Double(p.azi)) \o join_kv("alt", Double(p.alt))),
               p, G \cup {"state", "errcode", "ra", "dec", "azi", "alt"})
<1>1a. PICK l1 : l1 = l \o Put(p, "state")
  OBVIOUS
<1>1. On(l1, p, G \cup {"state"})
  BY <1>1a, Adds
<1>2a. PICK l2 : l2 = l1 \o Put(p, "errcode")
  OBVIOUS
<1>2. On(l2, p, G \cup {"state", "errcode"})
  <2>1. On(l2, p, (G \cup {"state"}) \cup {"errcode"})
    BY <1>1, <1>2a, Adds
  <2>2. QED
    BY <2>1
<1>3a. PICK l3 : l3 = l2 \o Put(p, "ra")
  OBVIOUS
<1>3. On(l3, p, G \cup {"state", "errcode", "ra"})
  <2>1. On(l3, p, (G \cup {"state", "errcode"}) \cup {"ra"})
    BY <1>2, <1>3a, Adds
  <2>2. QED
    BY <2>1
<1>4a. PICK l4 : l4 = l3 \o Put(p, "dec")
  OBVIOUS
<1>4. On(l4, p, G \cup {"state", "errcode", "ra", "dec"})
  <2>1. On(l4, p, (G \cup {"state", "errcode", "ra"}) \cup {"dec"})
    BY <1>3, <1>4a, Adds
  <2>2. QED
    BY <2>1
<1>5a. PICK l5 : l5 = l4 \o Put(p, "azi")
  OBVIOUS
<1>5. On(l5, p, G \cup {"state", "errcode", "ra", "dec", "azi"})
  <2>1. On(l5, p, (G \cup {"state", "errcode", "ra", "dec"}) \cup {"azi"})
    BY <1>4, <1>5a, Adds
  <2>2. QED
    BY <2>1
<1>6a. PICK l6 : l6 = l5 \o Put(p, "alt")
  OBVIOUS
<1>6. On(l6, p, G \cup {"state", "errcode", "ra", "dec", "azi", "alt"})
  <2>1. On(l6, p, (G \cup {"state", "errcode", "ra", "dec", "azi"}) \cup {"alt"})
    BY <1>5, <1>6a, Adds
  <2>2. QED
    BY <2>1
<1>7. /\ join_kv("state", Whole(p.state)) = Put(p, "state")
      /\ join_kv("errcode", Whole(p.errcode)) = Put(p, "errcode")
      /\ join_kv("ra", Double(p.ra)) = Put(p, "ra")
      /\ join_kv("dec", Double(p.dec)) = Put(p, "dec")
      /\ join_kv("azi", Double(p.azi)) = Put(p, "azi")
      /\ join_kv("alt", Double(p.alt)) = Put(p, "alt")
  BY DEF Put, PutIf, Given, IfSet, KeyOf, Said, IsDouble, Texts, Angles, NULL, Whole
<1>8. QED
  BY <1>1a, <1>2a, <1>3a, <1>4a, <1>5a, <1>6a, <1>6, <1>7 DEF On, Says

\* A fwhm line says its own fields behind those that it begins with.
LEMMA FwhmSays ==
  ASSUME NEW p, p.type = "fwhm", NEW G, NEW l, On(l, p, G),
         \A f \in {"value"} : f \notin G /\ Good(p, f)
  PROVE  Ended(Trimmed(l \o join_kv("value", Double(p.value))),
               p, G \cup {"value"})
<1>1a. PICK l1 : l1 = l \o Put(p, "value")
  OBVIOUS
<1>1. On(l1, p, G \cup {"value"})
  BY <1>1a, Adds
<1>2. /\ join_kv("value", Double(p.value)) = Put(p, "value")
  BY DEF Put, PutIf, Given, IfSet, KeyOf, Said, IsDouble, Texts, Angles, NULL, Whole
<1>3. QED
  BY <1>1a, <1>1, <1>2 DEF On, Says

\* A focus line says its own fields behind those that it begins with.
LEMMA FocusSays ==
  ASSUME NEW p, p.type = "focus", NEW G, NEW l, On(l, p, G),
         \A f \in {"value"} : f \notin G /\ Good(p, f)
  PROVE  Ended(Trimmed(l \o join_kv("value", Whole(p.value))),
               p, G \cup {"value"})
<1>1a. PICK l1 : l1 = l \o Put(p, "value")
  OBVIOUS
<1>1. On(l1, p, G \cup {"value"})
  BY <1>1a, Adds
<1>2. /\ join_kv("value", Whole(p.value)) = Put(p, "value")
  BY DEF Put, PutIf, Given, IfSet, KeyOf, Said, IsDouble, Texts, Angles, NULL, Whole
<1>3. QED
  BY <1>1a, <1>1, <1>2 DEF On, Says

\* A slit line says its own fields behind those that it begins with.
LEMMA SlitSays ==
  ASSUME NEW p, p.type = "slit", NEW G, NEW l, On(l, p, G),
         \A f \in {"state", "command"} : f \notin G /\ Good(p, f)
  PROVE  Ended(Trimmed(l \o IfSet("state", p.state) \o IfSet("command", p.command)),
               p, G \cup {"state", "command"})
<1>1a. PICK l1 : l1 = l \o PutIf(p, "state")
  OBVIOUS
<1>1. On(l1, p, G \cup {"state"})
  BY <1>1a, Adds
<1>2a. PICK l2 : l2 = l1 \o PutIf(p, "command")
  OBVIOUS
<1>2. On(l2, p, G \cup {"state", "command"})
  <2>1. On(l2, p, (G \cup {"state"}) \cup {"command"})
    BY <1>1, <1>2a, Adds
  <2>2. QED
    BY <2>1
<1>3. /\ IfSet("state", p.state) = PutIf(p, "state")
      /\ IfSet("command", p.command) = PutIf(p, "command")
  BY DEF Put, PutIf, Given, IfSet, KeyOf, Said, IsDouble, Texts, Angles, NULL, Whole
<1>4. QED
  BY <1>1a, <1>2a, <1>2, <1>3 DEF On, Says

\* A take_image line says its own fields behind those that it begins with.
LEMMA TakeImageSays ==
  ASSUME NEW p, p.type = "take_image", NEW G, NEW l, On(l, p, G),
         \A f \in {"objname", "imgtype", "expdur", "frmcnt"} : f \notin G /\ Good(p, f)
  PROVE  Ended(Trimmed(l \o join_kv("objname", p.objname) \o join_kv("imgtype", p.imgtype)
                       \o join_kv("expdur", Double(p.expdur))
                       \o join_kv("frmcnt", Whole(p.frmcnt))),
               p, G \cup {"objname", "imgtype", "expdur", "frmcnt"})
<1>1a. PICK l1 : l1 = l \o Put(p, "objname")
  OBVIOUS
<1>1. On(l1, p, G \cup {"objname"})
  BY <1>1a, Adds
<1>2a. PICK l2 : l2 = l1 \o Put(p, "imgtype")
  OBVIOUS
<1>2. On(l2, p, G \cup {"objname", "imgtype"})
  <2>1. On(l2, p, (G \cup {"objname"}) \cup {"imgtype"})
    BY <1>1, <1>2a, Adds
  <2>2. QED
    BY <2>1
<1>3a. PICK l3 : l3 = l2 \o Put(p, "expdur")
  OBVIOUS
<1>3. On(l3, p, G \cup {"objname", "imgtype", "expdur"})
  <2>1. On(l3, p, (G \cup {"objname", "imgtype"}) \cup {"expdur"})
    BY <1>2, <1>3a, Adds
  <2>2. QED
    BY <2>1
<1>4a. PICK l4 : l4 = l3 \o Put(p, "frmcnt")
  OBVIOUS
<1>4. On(l4, p, G \cup {"objname", "imgtype", "expdur", "frmcnt"})
  <2>1. On(l4, p, (G \cup {"objname", "imgtype", "expdur"}) \cup {"frmcnt"})
    BY <1>3, <1>4a, Adds
  <2>2. QED
    BY <2>1
<1>5. /\ join_kv("objname", p.objname) = Put(p, "objname")
      /\ join_kv("imgtype", p.imgtype) = Put(p, "imgtype")
      /\ join_kv("expdur", Double(p.expdur)) = Put(p, "expdur")
      /\ join_kv("frmcnt", Whole(p.frmcnt)) = Put(p, "frmcnt")
  BY DEF Put, PutIf, Given, IfSet, KeyOf, Said, IsDouble, Texts, Angles, NULL, Whole
<1>6. QED
  BY <1>1a, <1>2a, <1>3a, <1>4a, <1>4, <1>5 DEF On, Says

\* A object line says its own fields behind those that it begins with.
LEMMA ObjectSays ==
  ASSUME NEW p, p.type = "object", NEW G, NEW l, On(l, p, G),
         \A f \in {"plan_type", "plan_sn", "objname", "btime", "etime", "imgtype", "sabbr",
                   "iimgtyp", "expdur", "frmcnt"} : f \notin G /\ Good(p, f)
  PROVE  Ended(Trimmed(l \o join_kv("plan_type", Whole(p.plan_type))
                       \o join_kv("plan_sn", p.plan_sn) \o join_kv("objname", p.objname)
                       \o join_kv("btime", p.btime) \o join_kv("etime", p.etime)
                       \o join_kv("imgtype", p.imgtype) \o join_kv("sabbr", p.sabbr)
                       \o join_kv("iimgtyp", Whole(p.iimgtyp))
                       \o join_kv("expdur", Double(p.expdur))
                       \o join_kv("frmcnt", Whole(p.frmcnt))),
               p, G \cup {"plan_type", "plan_sn", "objname", "btime", "etime", "imgtype",
                          "sabbr", "iimgtyp", "expdur", "frmcnt"})
<1>1a. PICK l1 : l1 = l \o Put(p, "plan_type")
  OBVIOUS
<1>1. On(l1, p, G \cup {"plan_type"})
  BY <1>1a, Adds
<1>2a. PICK l2 : l2 = l1 \o Put(p, "plan_sn")
  OBVIOUS
<1>2. On(l2, p, G \cup {"plan_type", "plan_sn"})
  <2>1. On(l2, p, (G \cup {"plan_type"}) \cup {"plan_sn"})
    BY <1>1, <1>2a, Adds
  <2>2. QED
    BY <2>1
<1>3a. PICK l3 : l3 = l2 \o Put(p, "objname")
  OBVIOUS
<1>3. On(l3, p, G \cup {"plan_type", "plan_sn", "objname"})
  <2>1. On(l3, p, (G \cup {"plan_type", "plan_sn"}) \cup {"objname"})
    BY <1>2, <1>3a, Adds
  <2>2. QED
    BY <2>1
<1>4a. PICK l4 : l4 = l3 \o Put(p, "btime")
  OBVIOUS
<1>4. On(l4, p, G \cup {"plan_type", "plan_sn", "objname", "btime"})
  <2>1. On(l4, p, (G \cup {"plan_type", "plan_sn", "objname"}) \cup {"btime"})
    BY <1>3, <1>4a, Adds
  <2>2. QED
    BY <2>1
<1>5a. PICK l5 : l5 = l4 \o Put(p, "etime")
  OBVIOUS
<1>5. On(l5, p, G \cup {"plan_type", "plan_sn", "objname", "btime", "etime"})
  <2>1. On(l5, p, (G \cup {"plan_type", "plan_sn", "objname", "btime"}) \cup {"etime"})
    BY <1>4, <1>5a, Adds
  <2>2. QED
    BY <2>1
<1>6a. PICK l6 : l6 = l5 \o Put(p, "imgtype")
  OBVIOUS
<1>6. On(l6, p, G \cup {"plan_type", "plan_sn", "objname", "btime", "etime", "imgtype"})
  <2>1. On(l6, p, (G \cup {"plan_type", "plan_sn", "objname", "btime", "etime"}) \cup {"imgtype"})
    BY <1>5, <1>6a, Adds
  <2>2. QED
    BY <2>1
<1>7a. PICK l7 : l7 = l6 \o Put(p, "sabbr")
  OBVIOUS
<1>7. On(l7, p, G \cup {"plan_type", "plan_sn", "objname", "btime", "etime", "imgtype", "sabbr"})
  <2>1. On(l7, p, (G \cup {"plan_type", "plan_sn", "objname", "btime", "etime", "imgtype"}) \cup {"sabbr"})
    BY <1>6, <1>7a, Adds
  <2>2. QED
    BY <2>1
<1>8a. PICK l8 : l8 = l7 \o Put(p, "iimgtyp")
  OBVIOUS
<1>8. On(l8, p, G \cup {"plan_type", "plan_sn", "objname", "btime", "etime", "imgtype", "sabbr",
                     "iimgtyp"})
  <2>1. On(l8, p, (G \cup {"plan_type", "plan_sn", "objname", "btime", "etime", "imgtype",
                         "sabbr"}) \cup {"iimgtyp"})
    BY <1>7, <1>8a, Adds
  <2>2. QED
    BY <2>1
<1>9a. PICK l9 : l9 = l8 \o Put(p, "expdur")
  OBVIOUS
<1>9. On(l9, p, G \cup {"plan_type", "plan_sn", "objname", "btime", "etime", "imgtype", "sabbr",
                     "iimgtyp", "expdur"})
  <2>1. On(l9, p, (G \cup {"plan_type", "plan_sn", "objname", "btime", "etime", "imgtype",
                         "sabbr", "iimgtyp"}) \cup {"expdur"})
    BY <1>8, <1>9a, Adds
  <2>2. QED
    BY <2>1
<1>10a. PICK l10 : l10 = l9 \o Put(p, "frmcnt")
  OBVIOUS
<1>10. On(l10, p, G \cup {"plan_type", "plan_sn", "objname", "btime", "etime", "imgtype", "sabbr",
                     "iimgtyp", "expdur", "frmcnt"})
  <2>1. On(l10, p, (G \cup {"plan_type", "plan_sn", "objname", "btime", "etime", "imgtype",
                         "sabbr", "iimgtyp", "expdur"}) \cup {"frmcnt"})
    BY <1>9, <1>10a, Adds
  <2>2. QED
    BY <2>1
<1>11. /\ join_kv("plan_type", Whole(p.plan_type)) = Put(p, "plan_type")
      /\ join_kv("plan_sn", p.plan_sn) = Put(p, "plan_sn")
      /\ join_kv("objname", p.objname) = Put(p, "objname")
      /\ join_kv("btime", p.btime) = Put(p, "btime")
      /\ join_kv("etime", p.etime) = Put(p, "etime")
      /\ join_kv("imgtype", p.imgtype) = Put(p, "imgtype")
      /\ join_kv("sabbr", p.sabbr) = Put(p, "sabbr")
      /\ join_kv("iimgtyp", Whole(p.iimgtyp)) = Put(p, "iimgtyp")
      /\ join_kv("expdur", Double(p.expdur)) = Put(p, "expdur")
      /\ join_kv("frmcnt", Whole(p.frmcnt)) = Put(p, "frmcnt")
  BY DEF Put, PutIf, Given, IfSet, KeyOf, Said, IsDouble, Texts, Angles, NULL, Whole
<1>12. QED
  BY <1>1a, <1>2a, <1>3a, <1>4a, <1>5a, <1>6a, <1>7a, <1>8a, <1>9a, <1>10a, <1>10, <1>11 DEF On, Says

\* A camera line says its own fields behind those that it begins with.
LEMMA CameraSays ==
  ASSUME NEW p, p.type = "camera", NEW G, NEW l, On(l, p, G),
         \A f \in {"state", "errcode", "coolget"} : f \notin G /\ Good(p, f)
  PROVE  Ended(Trimmed(l \o join_kv("state", Whole(p.state))
                       \o join_kv("errcode", Whole(p.errcode))
                       \o join_kv("coolget", Double(p.coolget))),
               p, G \cup {"state", "errcode", "coolget"})
<1>1a. PICK l1 : l1 = l \o Put(p, "state")
  OBVIOUS
<1>1. On(l1, p, G \cup {"state"})
  BY <1>1a, Adds
<1>2a. PICK l2 : l2 = l1 \o Put(p, "errcode")
  OBVIOUS
<1>2. On(l2, p, G \cup {"state", "errcode"})
  <2>1. On(l2, p, (G \cup {"state"}) \cup {"errcode"})
    BY <1>1, <1>2a, Adds
  <2>2. QED
    BY <2>1
<1>3a. PICK l3 : l3 = l2 \o Put(p, "coolget")
  OBVIOUS
<1>3. On(l3, p, G \cup {"state", "errcode", "coolget"})
  <2>1. On(l3, p, (G \cup {"state", "errcode"}) \cup {"coolget"})
    BY <1>2, <1>3a, Adds
  <2>2. QED
    BY <2>1
<1>4. /\ join_kv("state", Whole(p.state)) = Put(p, "state")
      /\ join_kv("errcode", Whole(p.errcode)) = Put(p, "errcode")
      /\ join_kv("coolget", Double(p.coolget)) = Put(p, "coolget")
  BY DEF Put, PutIf, Given, IfSet, KeyOf, Said, IsDouble, Texts, Angles, NULL, Whole
<1>5. QED
  BY <1>1a, <1>2a, <1>3a, <1>3, <1>4 DEF On, Says

\* A fileinfo line says its own fields behind those that it begins with.
LEMMA FileinfoSays ==
  ASSUME NEW p, p.type = "fileinfo", NEW G, NEW l, On(l, p, G),
         \A f \in {"tmobs", "subpath", "filename", "filesize"} : f \notin G /\ Good(p, f)
  PROVE  Ended(Trimmed(l \o join_kv("tmobs", p.tmobs) \o join_kv("subpath", p.subpath)
                       \o join_kv("filename", p.filename)
                       \o join_kv("filesize", Whole(p.filesize))),
               p, G \cup {"tmobs", "subpath", "filename", "filesize"})
<1>1a. PICK l1 : l1 = l \o Put(p, "tmobs")
  OBVIOUS
<1>1. On(l1, p, G \cup {"tmobs"})
  BY <1>1a, Adds
<1>2a. PICK l2 : l2 = l1 \o Put(p, "subpath")
  OBVIOUS
<1>2. On(l2, p, G \cup {"tmobs", "subpath"})
  <2>1. On(l2, p, (G \cup {"tmobs"}) \cup {"subpath"})
    BY <1>1, <1>2a, Adds
  <2>2. QED
    BY <2>1
<1>3a. PICK l3 : l3 = l2 \o Put(p, "filename")
  OBVIOUS
<1>3. On(l3, p, G \cup {"tmobs", "subpath", "filename"})
  <2>1. On(l3, p, (G \cup {"tmobs", "subpath"}) \cup {"filename"})
    BY <1>2, <1>3a, Adds
  <2>2. QED
    BY <2>1
<1>4a. PICK l4 : l4 = l3 \o Put(p, "filesize")
  OBVIOUS
<1>4. On(l4, p, G \cup {"tmobs", "subpath", "filename", "filesize"})
  <2>1. On(l4, p, (G \cup {"tmobs", "subpath", "filename"}) \cup {"filesize"})
    BY <1>3, <1>4a, Adds
  <2>2. QED
    BY <2>1
<1>5. /\ join_kv("tmobs", p.tmobs) = Put(p, "tmobs")
      /\ join_kv("subpath", p.subpath) = Put(p, "subpath")
      /\ join_kv("filename", p.filename) = Put(p, "filename")
      /\ join_kv("filesize", Whole(p.filesize)) = Put(p, "filesize")
  BY DEF Put, PutIf, Given, IfSet, KeyOf, Said, IsDouble, Texts, Angles, NULL, Whole
<1>6. QED
  BY <1>1a, <1>2a, <1>3a, <1>4a, <1>4, <1>5 DEF On, Says

\* A filestat line says its own fields behind those that it begins with.
LEMMA FilestatSays ==
  ASSUME NEW p, p.type = "filestat", NEW G, NEW l, On(l, p, G),
         \A f \in {"status"} : f \notin G /\ Good(p, f)
  PROVE  Ended(Trimmed(l \o join_kv("status", Whole(p.status))),
               p, G \cup {"status"})
<1>1a. PICK l1 : l1 = l \o Put(p, "status")
  OBVIOUS
<1>1. On(l1, p, G \cup {"status"})
  BY <1>1a, Adds
<1>2. /\ join_kv("status", Whole(p.status)) = Put(p, "status")
  BY DEF Put, PutIf, Given, IfSet, KeyOf, Said, IsDouble, Texts, Angles, NULL, Whole
<1>3. QED
  BY <1>1a, <1>1, <1>2 DEF On, Says

\* A expose line says its own fields behind those that it begins with.
LEMMA ExposeSays ==
  ASSUME NEW p, p.type = "expose", NEW G, NEW l, On(l, p, G),
         \A f \in {"command"} : f \notin G /\ Good(p, f)
  PROVE  Ended(Trimmed(l \o join_kv("command", Whole(p.command))),
               p, G \cup {"command"})
<1>1a. PICK l1 : l1 = l \o Put(p, "command")
  OBVIOUS
<1>1. On(l1, p, G \cup {"command"})
  BY <1>1a, Adds
<1>2. /\ join_kv("command", Whole(p.command)) = Put(p, "command")
  BY DEF Put, PutIf, Given, IfSet, KeyOf, Said, IsDouble, Texts, Angles, NULL, Whole
<1>3. QED
  BY <1>1a, <1>1, <1>2 DEF On, Says

\* A rain line says its own fields behind those that it begins with.
LEMMA RainSays ==
  ASSUME NEW p, p.type = "rain", NEW G, NEW l, On(l, p, G),
         \A f \in {"value"} : f \notin G /\ Good(p, f)
  PROVE  Ended(Trimmed(l \o join_kv("value", p.value)),
               p, G \cup {"value"})
<1>1a. PICK l1 : l1 = l \o Put(p, "value")
  OBVIOUS
<1>1. On(l1, p, G \cup {"value"})
  BY <1>1a, Adds
<1>2. /\ join_kv("value", p.value) = Put(p, "value")
  BY DEF Put, PutIf, Given, IfSet, KeyOf, Said, IsDouble, Texts, Angles, NULL, Whole
<1>3. QED
  BY <1>1a, <1>1, <1>2 DEF On, Says

\* The fields that a call sends: the state of the focuser is not among them.
Sent(form, p) ==
  (IF form = "pointer" THEN Base ELSE {}) \cup {f \in Own(p) : ~(f = "state" /\ p.type = "focus")}

\* There is no line, or one that says what the call sends.
Written(form, p) == Compact(form, p) = NULL \/ Ended(Compact(form, p), p, Sent(form, p))

\* What the lines of every kind begin with, and that all fields can follow.
LEMMA ReadyIs ==
  ASSUME NEW proto, Regular(proto), NEW p, Handed(p, proto)
  PROVE  /\ p.type = proto.type /\ p.type \in Words /\ Own(p) = Own(proto)
         /\ On(compact_base(p), p, Base) /\ On(Bare(p), p, {})
         /\ Ended(<<Word(p.type)>>, p, {}) /\ Ended(Trimmed(compact_base(p)), p, Base)
         /\ \A f \in Own(p) : f \notin Base /\ Good(p, f)
<1>1. p.type = proto.type /\ Own(p) = Own(proto)
  BY DEF Handed, Own
<1>2. p.type \in Words
  BY <1>1, WordAssumption DEF Regular
<1>3. \A f \in Own(p) \cup Base : Good(p, f)
  BY <1>1, FieldIs
<1>4. On(compact_base(p), p, Base) /\ On(Bare(p), p, {})
  BY <1>2, <1>3, BaseOn
<1>5. Ended(<<Word(p.type)>>, p, {})
  BY <1>2, BareSays DEF Says
<1>6. QED
  BY <1>1, <1>2, <1>3, <1>4, <1>5 DEF On, Says, Own, Common

\* Compact writes a line of register, or none, that says what the call sends.
LEMMA RegisterLine ==
  ASSUME NEW p, Handed(p, ascii_proto_reg)
  PROVE  Written("pointer", p)
<1>1. /\ p.type = "register" /\ Own(p) = {}
      /\ On(compact_base(p), p, Base) /\ On(Bare(p), p, {})
      /\ Ended(<<Word(p.type)>>, p, {}) /\ Ended(Trimmed(compact_base(p)), p, Base)
      /\ \A f \in Own(p) : f \notin Base /\ Good(p, f)
  <2>1. Regular(ascii_proto_reg)
    BY RegisterIs
  <2>2. QED
    BY <2>1, RegisterIs, ReadyIs
<1>2. Compact("pointer", p) = CompactRegister(p)
  BY <1>1 DEF Compact
<1>3. Sent("pointer", p) = Base \cup {}
  BY <1>1 DEF Sent
<1>4. Ended(CompactRegister(p), p, Base \cup {})
  <2>1. Base \cup {} = Base
    OBVIOUS
  <2>2. QED
    BY <1>1, <2>1 DEF CompactRegister
<1>5. QED
  BY <1>2, <1>3, <1>4 DEF Written

\* Compact writes a line of start, or none, that says what the call sends.
LEMMA StartLine ==
  ASSUME NEW p, Handed(p, ascii_proto_start)
  PROVE  Written("pointer", p)
<1>1. /\ p.type = "start" /\ Own(p) = {}
      /\ On(compact_base(p), p, Base) /\ On(Bare(p), p, {})
      /\ Ended(<<Word(p.type)>>, p, {}) /\ Ended(Trimmed(compact_base(p)), p, Base)
      /\ \A f \in Own(p) : f \notin Base /\ Good(p, f)
  <2>1. Regular(ascii_proto_start)
    BY StartIs
  <2>2. QED
    BY <2>1, StartIs, ReadyIs
<1>2. Compact("pointer", p) = CompactStart(p)
  BY <1>1 DEF Compact
<1>3. Sent("pointer", p) = Base \cup {}
  BY <1>1 DEF Sent
<1>4. Ended(CompactStart(p), p, Base \cup {})
  <2>1. Base \cup {} = Base
    OBVIOUS
  <2>2. QED
    BY <1>1, <2>1 DEF CompactStart
<1>5. QED
  BY <1>2, <1>3, <1>4 DEF Written

\* Compact writes a line of stop, or none, that says what the call sends.
LEMMA StopLine ==
  ASSUME NEW p, Handed(p, ascii_proto_stop)
  PROVE  Written("pointer", p)
<1>1. /\ p.type = "stop" /\ Own(p) = {}
      /\ On(compact_base(p), p, Base) /\ On(Bare(p), p, {})
      /\ Ended(<<Word(p.type)>>, p, {}) /\ Ended(Trimmed(compact_base(p)), p, Base)
      /\ \A f \in Own(p) : f \notin Base /\ Good(p, f)
  <2>1. Regular(ascii_proto_stop)
    BY StopIs
  <2>2. QED
    BY <2>1, StopIs, ReadyIs
<1>2. Compact("pointer", p) = CompactStop(p)
  BY <1>1 DEF Compact
<1>3. Sent("pointer", p) = Base \cup {}
  BY <1>1 DEF Sent
<1>4. Ended(CompactStop(p), p, Base \cup {})
  <2>1. Base \cup {} = Base
    OBVIOUS
  <2>2. QED
    BY <1>1, <2>1 DEF CompactStop
<1>5. QED
  BY <1>2, <1>3, <1>4 DEF Written

\* Compact writes a line of obsite, or none, that says what the call sends.
LEMMA ObsiteLine ==
  ASSUME NEW p, Handed(p, ascii_proto_obsite)
  PROVE  Written("pointer", p)
<1>1. /\ p.type = "obsite" /\ Own(p) = {"sitename", "lon", "lat", "alt", "timezone"}
      /\ On(compact_base(p), p, Base) /\ On(Bare(p), p, {})
      /\ Ended(<<Word(p.type)>>, p, {}) /\ Ended(Trimmed(compact_base(p)), p, Base)
      /\ \A f \in Own(p) : f \notin Base /\ Good(p, f)
  <2>1. Regular(ascii_proto_obsite)
    BY ObsiteIs
  <2>2. QED
    BY <2>1, ObsiteIs, ReadyIs
<1>2. Compact("pointer", p) = CompactObsSite(p)
  BY <1>1 DEF Compact
<1>3. Sent("pointer", p) = Base \cup {"sitename", "lon", "lat", "alt", "timezone"}
  BY <1>1 DEF Sent
<1>4. Ended(CompactObsSite(p), p, Base \cup {"sitename", "lon", "lat", "alt", "timezone"})
  BY <1>1, ObsiteSays DEF CompactObsSite
<1>5. QED
  BY <1>2, <1>3, <1>4 DEF Written

\* Compact writes a line of home_sync, or none, that says what the call sends.
LEMMA HomeSyncLine ==
  ASSUME NEW p, Handed(p, ascii_proto_home_sync)
  PROVE  Written("pointer", p) /\ Written("arguments", p)
<1>1. /\ p.type = "home_sync" /\ Own(p) = {"ra", "dec"}
      /\ On(compact_base(p), p, Base) /\ On(Bare(p), p, {})
      /\ Ended(<<Word(p.type)>>, p, {}) /\ Ended(Trimmed(compact_base(p)), p, Base)
      /\ \A f \in Own(p) : f \notin Base /\ Good(p, f)
  <2>1. Regular(ascii_proto_home_sync)
    BY HomeSyncIs
  <2>2. QED
    BY <2>1, HomeSyncIs, ReadyIs
<1>2. Compact("pointer", p) = CompactHomeSync(p)
  BY <1>1 DEF Compact
<1>3. Sent("pointer", p) = Base \cup {"ra", "dec"}
  BY <1>1 DEF Sent
<1>4. Ended(CompactHomeSync(p), p, Base \cup {"ra", "dec"}) \/ CompactHomeSync(p) = NULL
  BY <1>1, HomeSyncSays DEF CompactHomeSync
<1>5. Compact("arguments", p) = CompactHomeSyncArgs(p)
  BY <1>1 DEF Compact
<1>6. Sent("arguments", p) = {} \cup {"ra", "dec"}
  BY <1>1 DEF Sent
<1>7. Ended(CompactHomeSyncArgs(p), p, {} \cup {"ra", "dec"})
  BY <1>1, HomeSyncSays DEF CompactHomeSyncArgs
<1>8. QED
  BY <1>2, <1>3, <1>4, <1>5, <1>6, <1>7 DEF Written

\* Compact writes a line of slewto, or none, that says what the call sends.
LEMMA SlewtoLine ==
  ASSUME NEW p, Handed(p, ascii_proto_slewto)
  PROVE  Written("pointer", p) /\ Written("arguments", p)
<1>1. /\ p.type = "slewto" /\ Own(p) = {"coorsys", "coor1", "coor2"}
      /\ On(compact_base(p), p, Base) /\ On(Bare(p), p, {})
      /\ Ended(<<Word(p.type)>>, p, {}) /\ Ended(Trimmed(compact_base(p)), p, Base)
      /\ \A f \in Own(p) : f \notin Base /\ Good(p, f)
  <2>1. Regular(ascii_proto_slewto)
    BY SlewtoIs
  <2>2. QED
    BY <2>1, SlewtoIs, ReadyIs
<1>2. Compact("pointer", p) = CompactSlewto(p)
  BY <1>1 DEF Compact
<1>3. Sent("pointer", p) = Base \cup {"coorsys", "coor1", "coor2"}
  BY <1>1 DEF Sent
<1>4. Ended(CompactSlewto(p), p, Base \cup {"coorsys", "coor1", "coor2"})
  BY <1>1, SlewtoSays DEF CompactSlewto
<1>5. Compact("arguments", p) = CompactSlewtoArgs(p)
  BY <1>1 DEF Compact
<1>6. Sent("arguments", p) = {} \cup {"coorsys", "coor1", "coor2"}
  BY <1>1 DEF Sent
<1>7. Ended(CompactSlewtoArgs(p), p, {} \cup {"coorsys", "coor1", "coor2"})
  BY <1>1, SlewtoSays DEF CompactSlewtoArgs
<1>8. QED
  BY <1>2, <1>3, <1>4, <1>5, <1>6, <1>7 DEF Written

\* Compact writes a line of track, or none, that says what the call sends.
LEMMA TrackLine ==
  ASSUME NEW p, Handed(p, ascii_proto_track)
  PROVE  Written("pointer", p) /\ Written("arguments", p)
<1>1. /\ p.type = "track" /\ Own(p) = {"objid", "line1", "line2"}
      /\ On(compact_base(p), p, Base) /\ On(Bare(p), p, {})
      /\ Ended(<<Word(p.type)>>, p, {}) /\ Ended(Trimmed(compact_base(p)), p, Base)
      /\ \A f \in Own(p) : f \notin Base /\ Good(p, f)
  <2>1. Regular(ascii_proto_track)
    BY TrackIs
  <2>2. QED
    BY <2>1, TrackIs, ReadyIs
<1>2. Compact("pointer", p) = CompactTrack(p)
  BY <1>1 DEF Compact
<1>3. Sent("pointer", p) = Base \cup {"objid", "line1", "line2"}
  BY <1>1 DEF Sent
<1>4. Ended(CompactTrack(p), p, Base \cup {"objid", "line1", "line2"})
  BY <1>1, TrackSays DEF CompactTrack
<1>5. Compact("arguments", p) = CompactTrackArgs(p)
  BY <1>1 DEF Compact
<1>6. Sent("arguments", p) = {} \cup {"objid", "line1", "line2"}
  BY <1>1 DEF Sent
<1>7. Ended(CompactTrackArgs(p), p, {} \cup {"objid", "line1", "line2"})
  BY <1>1, TrackSays DEF CompactTrackArgs
<1>8. QED
  BY <1>2, <1>3, <1>4, <1>5, <1>6, <1>7 DEF Written

\* Compact writes a line of park, or none, that says what the call sends.
LEMMA ParkLine ==
  ASSUME NEW p, Handed(p, ascii_proto_park)
  PROVE  Written("pointer", p) /\ Written("arguments", p)
<1>1. /\ p.type = "park" /\ Own(p) = {}
      /\ On(compact_base(p), p, Base) /\ On(Bare(p), p, {})
      /\ Ended(<<Word(p.type)>>, p, {}) /\ Ended(Trimmed(compact_base(p)), p, Base)
      /\ \A f \in Own(p) : f \notin Base /\ Good(p, f)
  <2>1. Regular(ascii_proto_park)
    BY ParkIs
  <2>2. QED
    BY <2>1, ParkIs, ReadyIs
<1>2. Compact("pointer", p) = CompactPark(p)
  BY <1>1 DEF Compact
<1>3. Sent("pointer", p) = Base \cup {}
  BY <1>1 DEF Sent
<1>4. Ended(CompactPark(p), p, Base \cup {})
  <2>1. Base \cup {} = Base
    OBVIOUS
  <2>2. QED
    BY <1>1, <2>1 DEF CompactPark
<1>5. Compact("arguments", p) = CompactParkArgs(p)
  BY <1>1 DEF Compact
<1>6. Sent("arguments", p) = {} \cup {}
  BY <1>1 DEF Sent
<1>7. Ended(CompactParkArgs(p), p, {} \cup {})
  <2>1. {} \cup {} = {}
    OBVIOUS
  <2>2. QED
    BY <1>1, <2>1 DEF CompactParkArgs
<1>8. QED
  BY <1>2, <1>3, <1>4, <1>5, <1>6, <1>7 DEF Written

\* Compact writes a line of abort_slew, or none, that says what the call sends.
LEMMA AbortSlewLine ==
  ASSUME NEW p, Handed(p, ascii_proto_abort_slew)
  PROVE  Written("pointer", p) /\ Written("arguments", p)
<1>1. /\ p.type = "abort_slew" /\ Own(p) = {}
      /\ On(compact_base(p), p, Base) /\ On(Bare(p), p, {})
      /\ Ended(<<Word(p.type)>>, p, {}) /\ Ended(Trimmed(compact_base(p)), p, Base)
      /\ \A f \in Own(p) : f \notin Base /\ Good(p, f)
  <2>1. Regular(ascii_proto_abort_slew)
    BY AbortSlewIs
  <2>2. QED
    BY <2>1, AbortSlewIs, ReadyIs
<1>2. Compact("pointer", p) = CompactAbortSlew(p)
  BY <1>1 DEF Compact
<1>3. Sent("pointer", p) = Base \cup {}
  BY <1>1 DEF Sent
<1>4. Ended(CompactAbortSlew(p), p, Base \cup {})
  <2>1. Base \cup {} = Base
    OBVIOUS
  <2>2. QED
    BY <1>1, <2>1 DEF CompactAbortSlew
<1>5. Compact("arguments", p) = CompactAbortSlewArgs(p)
  BY <1>1 DEF Compact
<1>6. Sent("arguments", p) = {} \cup {}
  BY <1>1 DEF Sent
<1>7. Ended(CompactAbortSlewArgs(p), p, {} \cup {})
  <2>1. {} \cup {} = {}
    OBVIOUS
  <2>2. QED
    BY <1>1, <2>1 DEF CompactAbortSlewArgs
<1>8. QED
  BY <1>2, <1>3, <1>4, <1>5, <1>6, <1>7 DEF Written

\* Compact writes a line of mount, or none, that says what the call sends.
LEMMA MountLine ==
  ASSUME NEW p, Handed(p, ascii_proto_mount)
  PROVE  Written("pointer", p)
<1>1. /\ p.type = "mount" /\ Own(p) = {"state", "errcode", "ra", "dec", "azi", "alt"}
      /\ On(compact_base(p), p, Base) /\ On(Bare(p), p, {})
      /\ Ended(<<Word(p.type)>>, p, {}) /\ Ended(Trimmed(compact_base(p)), p, Base)
      /\ \A f \in Own(p) : f \notin Base /\ Good(p, f)
  <2>1. Regular(ascii_proto_mount)
    BY MountIs
  <2>2. QED
    BY <2>1, MountIs, ReadyIs
<1>2. Compact("pointer", p) = CompactMount(p)
  BY <1>1 DEF Compact
<1>3. Sent("pointer", p) = Base \cup {"state", "errcode", "ra", "dec", "azi", "alt"}
  BY <1>1 DEF Sent
<1>4. Ended(CompactMount(p), p, Base \cup {"state", "errcode", "ra", "dec", "azi", "alt"})
  BY <1>1, MountSays DEF CompactMount
<1>5. QED
  BY <1>2, <1>3, <1>4 DEF Written

\* Compact writes a line of take_image, or none, that says what the call sends.
LEMMA TakeImageLine ==
  ASSUME NEW p, Handed(p, ascii_proto_take_image)
  PROVE  Written("pointer", p)
<1>1. /\ p.type = "take_image" /\ Own(p) = {"objname", "imgtype", "expdur", "frmcnt"}
      /\ On(compact_base(p), p, Base) /\ On(Bare(p), p, {})
      /\ Ended(<<Word(p.type)>>, p, {}) /\ Ended(Trimmed(compact_base(p)), p, Base)
      /\ \A f \in Own(p) : f \notin Base /\ Good(p, f)
  <2>1. Regular(ascii_proto_take_image)
    BY TakeImageIs
  <2>2. QED
    BY <2>1, TakeImageIs, ReadyIs
<1>2. Compact("pointer", p) = CompactTakeImage(p)
  BY <1>1 DEF Compact
<1>3. Sent("pointer", p) = Base \cup {"objname", "imgtype", "expdur", "frmcnt"}
  BY <1>1 DEF Sent
<1>4. Ended(CompactTakeImage(p), p, Base \cup {"objname", "imgtype", "expdur", "frmcnt"})
  BY <1>1, TakeImageSays DEF CompactTakeImage
<1>5. QED
  BY <1>2, <1>3, <1>4 DEF Written

\* Compact writes a line of abort_image, or none, that says what the call sends.
LEMMA AbortImageLine ==
  ASSUME NEW p, Handed(p, ascii_proto_abort_image)
  PROVE  Written("pointer", p)
<1>1. /\ p.type = "abort_image" /\ Own(p) = {}
      /\ On(compact_base(p), p, Base) /\ On(Bare(p), p, {})
      /\ Ended(<<Word(p.type)>>, p, {}) /\ Ended(Trimmed(compact_base(p)), p, Base)
      /\ \A f \in Own(p) : f \notin Base /\ Good(p, f)
  <2>1. Regular(ascii_proto_abort_image)
    BY AbortImageIs
  <2>2. QED
    BY <2>1, AbortImageIs, ReadyIs
<1>2. Compact("pointer", p) = CompactAbortImage(p)
  BY <1>1 DEF Compact
<1>3. Sent("pointer", p) = Base \cup {}
  BY <1>1 DEF Sent
<1>4. Ended(CompactAbortImage(p), p, Base \cup {})
  <2>1. Base \cup {} = Base
    OBVIOUS
  <2>2. QED
    BY <1>1, <2>1 DEF CompactAbortImage
<1>5. QED
  BY <1>2, <1>3, <1>4 DEF Written

\* Compact writes a line of object, or none, that says what the call sends.
LEMMA ObjectLine ==
  ASSUME NEW p, Handed(p, ascii_proto_object)
  PROVE  Written("pointer", p)
<1>1. /\ p.type = "object" /\ Own(p) = {"plan_type", "plan_sn", "objname", "btime", "etime",
                                         "imgtype", "sabbr", "iimgtyp", "expdur", "frmcnt"}
      /\ On(compact_base(p), p, Base) /\ On(Bare(p), p, {})
      /\ Ended(<<Word(p.type)>>, p, {}) /\ Ended(Trimmed(compact_base(p)), p, Base)
      /\ \A f \in Own(p) : f \notin Base /\ Good(p, f)
  <2>1. Regular(ascii_proto_object)
    BY ObjectIs
  <2>2. QED
    BY <2>1, ObjectIs, ReadyIs
<1>2. Compact("pointer", p) = CompactObject(p)
  BY <1>1 DEF Compact
<1>3. Sent("pointer", p) = Base \cup {"plan_type", "plan_sn", "objname", "btime", "etime",
                                         "imgtype", "sabbr", "iimgtyp", "expdur", "frmcnt"}
  BY <1>1 DEF Sent
<1>4. Ended(CompactObject(p), p, Base \cup {"plan_type", "plan_sn", "objname", "btime", "etime",
                                         "imgtype", "sabbr", "iimgtyp", "expdur", "frmcnt"}) \/ CompactObject(p) = NULL
  BY <1>1, ObjectSays DEF CompactObject
<1>5. QED
  BY <1>2, <1>3, <1>4 DEF Written

\* Compact writes a line of expose, or none, that says what the call sends.
LEMMA ExposeLine ==
  ASSUME NEW p, Handed(p, ascii_proto_expose)
  PROVE  Written("arguments", p)
<1>1. /\ p.type = "expose" /\ Own(p) = {"command"}
      /\ On(compact_base(p), p, Base) /\ On(Bare(p), p, {})
      /\ Ended(<<Word(p.type)>>, p, {}) /\ Ended(Trimmed(compact_base(p)), p, Base)
      /\ \A f \in Own(p) : f \notin Base /\ Good(p, f)
  <2>1. Regular(ascii_proto_expose)
    BY ExposeIs
  <2>2. QED
    BY <2>1, ExposeIs, ReadyIs
<1>2. Compact("arguments", p) = CompactExposeArgs(p)
  BY <1>1 DEF Compact
<1>3. Sent("arguments", p) = {} \cup {"command"}
  BY <1>1 DEF Sent
<1>4. Ended(CompactExposeArgs(p), p, {} \cup {"command"})
  BY <1>1, ExposeSays DEF CompactExposeArgs
<1>5. QED
  BY <1>2, <1>3, <1>4 DEF Written

\* Compact writes a line of camera, or none, that says what the call sends.
LEMMA CameraLine ==
  ASSUME NEW p, Handed(p, ascii_proto_camera)
  PROVE  Written("pointer", p)
<1>1. /\ p.type = "camera" /\ Own(p) = {"state", "errcode", "coolget"}
      /\ On(compact_base(p), p, Base) /\ On(Bare(p), p, {})
      /\ Ended(<<Word(p.type)>>, p, {}) /\ Ended(Trimmed(compact_base(p)), p, Base)
      /\ \A f \in Own(p) : f \notin Base /\ Good(p, f)
  <2>1. Regular(ascii_proto_camera)
    BY CameraIs
  <2>2. QED
    BY <2>1, CameraIs, ReadyIs
<1>2. Compact("pointer", p) = CompactCamera(p)
  BY <1>1 DEF Compact
<1>3. Sent("pointer", p) = Base \cup {"state", "errcode", "coolget"}
  BY <1>1 DEF Sent
<1>4. Ended(CompactCamera(p), p, Base \cup {"state", "errcode", "coolget"})
  BY <1>1, CameraSays DEF CompactCamera
<1>5. QED
  BY <1>2, <1>3, <1>4 DEF Written

\* Compact writes a line of fwhm, or none, that says what the call sends.
LEMMA FwhmLine ==
  ASSUME NEW p, Handed(p, ascii_proto_fwhm)
  PROVE  Written("pointer", p)
<1>1. /\ p.type = "fwhm" /\ Own(p) = {"value"}
      /\ On(compact_base(p), p, Base) /\ On(Bare(p), p, {})
      /\ Ended(<<Word(p.type)>>, p, {}) /\ Ended(Trimmed(compact_base(p)), p, Base)
      /\ \A f \in Own(p) : f \notin Base /\ Good(p, f)
  <2>1. Regular(ascii_proto_fwhm)
    BY FwhmIs
  <2>2. QED
    BY <2>1, FwhmIs, ReadyIs
<1>2. Compact("pointer", p) = CompactFWHM(p)
  BY <1>1 DEF Compact
<1>3. Sent("pointer", p) = Base \cup {"value"}
  BY <1>1 DEF Sent
<1>4. Ended(CompactFWHM(p), p, Base \cup {"value"})
  BY <1>1, FwhmSays DEF CompactFWHM
<1>5. QED
  BY <1>2, <1>3, <1>4 DEF Written

\* Compact writes a line of focus, or none, that says what the call sends.
LEMMA FocusLine ==
  ASSUME NEW p, Handed(p, ascii_proto_focus)
  PROVE  Written("pointer", p) /\ Written("arguments", p)
<1>1. /\ p.type = "focus" /\ Own(p) = {"state", "value"}
      /\ On(compact_base(p), p, Base) /\ On(Bare(p), p, {})
      /\ Ended(<<Word(p.type)>>, p, {}) /\ Ended(Trimmed(compact_base(p)), p, Base)
      /\ \A f \in Own(p) : f \notin Base /\ Good(p, f)
  <2>1. Regular(ascii_proto_focus)
    BY FocusIs
  <2>2. QED
    BY <2>1, FocusIs, ReadyIs
<1>2. Compact("pointer", p) = CompactFocus(p)
  BY <1>1 DEF Compact
<1>3. Sent("pointer", p) = Base \cup {"value"}
  BY <1>1 DEF Sent
<1>4. Ended(CompactFocus(p), p, Base \cup {"value"}) \/ CompactFocus(p) = NULL
  BY <1>1, FocusSays DEF CompactFocus
<1>5. Compact("arguments", p) = CompactFocusArgs(p)
  BY <1>1 DEF Compact
<1>6. Sent("arguments", p) = {} \cup {"value"}
  BY <1>1 DEF Sent
<1>7. Ended(CompactFocusArgs(p), p, {} \cup {"value"})
  BY <1>1, FocusSays DEF CompactFocusArgs
<1>8. QED
  BY <1>2, <1>3, <1>4, <1>5, <1>6, <1>7 DEF Written

\* Compact writes a line of slit, or none, that says what the call sends.
LEMMA SlitLine ==
  ASSUME NEW p, Handed(p, ascii_proto_slit)
  PROVE  Written("pointer", p) /\ Written("arguments", p)
<1>1. /\ p.type = "slit" /\ Own(p) = {"state", "command"}
      /\ On(compact_base(p), p, Base) /\ On(Bare(p), p, {})
      /\ Ended(<<Word(p.type)>>, p, {}) /\ Ended(Trimmed(compact_base(p)), p, Base)
      /\ \A f \in Own(p) : f \notin Base /\ Good(p, f)
  <2>1. Regular(ascii_proto_slit)
    BY SlitIs
  <2>2. QED
    BY <2>1, SlitIs, ReadyIs
<1>2. Compact("pointer", p) = CompactSlit(p)
  BY <1>1 DEF Compact
<1>3. Sent("pointer", p) = Base \cup {"state", "command"}
  BY <1>1 DEF Sent
<1>4. Ended(CompactSlit(p), p, Base \cup {"state", "command"})
  BY <1>1, SlitSays DEF CompactSlit
<1>5. Compact("arguments", p) = CompactSlitArgs(p)
  BY <1>1 DEF Compact
<1>6. Sent("arguments", p) = {} \cup {"state", "command"}
  BY <1>1 DEF Sent
<1>7. Ended(CompactSlitArgs(p), p, {} \cup {"state", "command"})
  BY <1>1, SlitSays DEF CompactSlitArgs
<1>8. QED
  BY <1>2, <1>3, <1>4, <1>5, <1>6, <1>7 DEF Written

\* Compact writes a line of rain, or none, that says what the call sends.
LEMMA RainLine ==
  ASSUME NEW p, Handed(p, ascii_proto_rain)
  PROVE  Written("arguments", p)
<1>1. /\ p.type = "rain" /\ Own(p) = {"value"}
      /\ On(compact_base(p), p, Base) /\ On(Bare(p), p, {})
      /\ Ended(<<Word(p.type)>>, p, {}) /\ Ended(Trimmed(compact_base(p)), p, Base)
      /\ \A f \in Own(p) : f \notin Base /\ Good(p, f)
  <2>1. Regular(ascii_proto_rain)
    BY RainIs
  <2>2. QED
    BY <2>1, RainIs, ReadyIs
<1>2. Compact("arguments", p) = CompactRainArgs(p)
  BY <1>1 DEF Compact
<1>3. Sent("arguments", p) = {} \cup {"value"}
  BY <1>1 DEF Sent
<1>4. Ended(CompactRainArgs(p), p, {} \cup {"value"})
  BY <1>1, RainSays DEF CompactRainArgs
<1>5. QED
  BY <1>2, <1>3, <1>4 DEF Written

\* Compact writes a line of fileinfo, or none, that says what the call sends.
LEMMA FileinfoLine ==
  ASSUME NEW p, Handed(p, ascii_proto_fileinfo)
  PROVE  Written("pointer", p)
<1>1. /\ p.type = "fileinfo" /\ Own(p) = {"tmobs", "subpath", "filename", "filesize"}
      /\ On(compact_base(p), p, Base) /\ On(Bare(p), p, {})
      /\ Ended(<<Word(p.type)>>, p, {}) /\ Ended(Trimmed(compact_base(p)), p, Base)
      /\ \A f \in Own(p) : f \notin Base /\ Good(p, f)
  <2>1. Regular(ascii_proto_fileinfo)
    BY FileinfoIs
  <2>2. QED
    BY <2>1, FileinfoIs, ReadyIs
<1>2. Compact("pointer", p) = CompactFileInfo(p)
  BY <1>1 DEF Compact
<1>3. Sent("pointer", p) = Base \cup {"tmobs", "subpath", "filename", "filesize"}
  BY <1>1 DEF Sent
<1>4. Ended(CompactFileInfo(p), p, Base \cup {"tmobs", "subpath", "filename", "filesize"})
  BY <1>1, FileinfoSays DEF CompactFileInfo
<1>5. QED
  BY <1>2, <1>3, <1>4 DEF Written

\* Compact writes a line of filestat, or none, that says what the call sends.
LEMMA FilestatLine ==
  ASSUME NEW p, Handed(p, ascii_proto_filestat)
  PROVE  Written("pointer", p)
<1>1. /\ p.type = "filestat" /\ Own(p) = {"status"}
      /\ On(compact_base(p), p, Base) /\ On(Bare(p), p, {})
      /\ Ended(<<Word(p.type)>>, p, {}) /\ Ended(Trimmed(compact_base(p)), p, Base)
      /\ \A f \in Own(p) : f \notin Base /\ Good(p, f)
  <2>1. Regular(ascii_proto_filestat)
    BY FilestatIs
  <2>2. QED
    BY <2>1, FilestatIs, ReadyIs
<1>2. Compact("pointer", p) = CompactFileStat(p)
  BY <1>1 DEF Compact
<1>3. Sent("pointer", p) = Base \cup {"status"}
  BY <1>1 DEF Sent
<1>4. Ended(CompactFileStat(p), p, Base \cup {"status"})
  BY <1>1, FilestatSays DEF CompactFileStat
<1>5. QED
  BY <1>2, <1>3, <1>4 DEF Written

-----------------------------------------------------------------------------
(* What Resolve makes of a line                                            *)

AsBase == [utc |-> Text("utc"), gid |-> Text("gid"), uid |-> Text("uid"), cid |-> Text("cid")]

\* A protocol with who and when from basis.
Merge(x, basis) ==
  IF x \in {Nothing, Throws} THEN x
  ELSE [x EXCEPT !.utc = basis.utc, !.gid = basis.gid, !.uid = basis.uid, !.cid = basis.cid]

\* None of the answers that are no protocol has the type of one.
LEMMA NoType ==
  /\ \A x : x.type \in Types => x \notin {Nothing, Throws, Undelivered}
  /\ Undelivered \notin {Nothing, Throws} /\ Nothing # Throws
<1>1. Nothing.type = "none" /\ Throws.type = "throws" /\ Undelivered.type = "undelivered"
  BY DEF Nothing, Throws, Undelivered
<1>2. "none" \notin Types /\ "throws" \notin Types /\ "undelivered" \notin Types
  BY DEF Types
<1>3. "none" # "throws" /\ "undelivered" # "none" /\ "undelivered" # "throws"
  OBVIOUS
<1>4. QED
  BY <1>1, <1>2, <1>3

\* Who and when come from the pairs, everything else stays as it was resolved.
LEMMA MergeIs ==
  ASSUME NEW x, IsFunction(x), Common \subseteq DOMAIN x, x.type \in Types, NEW basis,
         NEW r, r = Merge(x, basis)
  PROVE  /\ r.type = x.type /\ r \notin {Nothing, Throws, Undelivered}
         /\ \A f \in DOMAIN x : r[f] = IF f \in Base THEN basis[f] ELSE x[f]
<1>1. r = [x EXCEPT !.utc = basis.utc, !.gid = basis.gid, !.uid = basis.uid, !.cid = basis.cid]
  BY NoType DEF Merge
<1>2. \A f \in DOMAIN x : r[f] = IF f \in Base THEN basis[f] ELSE x[f]
  BY <1>1 DEF Base
<1>3. "type" \in DOMAIN x /\ "type" \notin Base
  BY DEF Common, Base
<1>4. r.type = x.type
  BY <1>2, <1>3
<1>5. QED
  BY <1>2, <1>4, NoType

\* Resolve takes the resolver of the line's own type.
LEMMA ResolveIs ==
  ASSUME NEW proto, Regular(proto), NEW t, Upto(t, Space) = <<Word(proto.type)>>,
         NEW kvs, kvs = resolve_kv_array(Tokens(Beyond(t, Space), Comma))
  PROVE  Resolve(t) = Merge(Resolved(proto, ReadAs(proto), kvs), Resolved(ascii_proto_base, AsBase, kvs))
<1>1. Len(Upto(t, Space)) = 1 /\ Upto(t, Space)[1].s = proto.type
  BY DEF Word
<1>2. ByType(proto.type, kvs) = Resolved(proto, ReadAs(proto), kvs)
  BY DEF Regular
<1>3. QED
  BY <1>1, <1>2 DEF Resolve, Merge, AsBase

\* The pairs change neither the fields a protocol has nor its type.
LEMMA TypeStays ==
  ASSUME NEW proto, Regular(proto), NEW kvs, NEW x, x = Resolved(proto, ReadAs(proto), kvs), x # Throws
  PROVE  DOMAIN x = DOMAIN proto /\ IsFunction(x) /\ x.type = proto.type
<1>a. PICK at : at = [f \in Own(proto) |-> {i \in DOMAIN kvs : kvs[i].keyword = <<Word(ReadAs(proto)[f].keyword)>>}]
  OBVIOUS
<1>1. DOMAIN ReadAs(proto) = Own(proto) /\ "type" \notin Own(proto) /\ "type" \in DOMAIN proto
  BY DEF ReadAs, Own, Common, Regular
<1>2. x = [f \in DOMAIN proto |->
             IF f \notin Own(proto) \/ at[f] = {} THEN proto[f]
             ELSE IF ReadAs(proto)[f].number THEN kvs[Max(at[f])].value[1].v ELSE kvs[Max(at[f])].value]
  BY <1>1, <1>a DEF Resolved
<1>3. QED
  BY <1>1, <1>2 DEF IsFunction

\* What DamageIsLocal says of field f.
Local(call, f, x) ==
  IF f \in Texts /\ ~Clean(call.p[f])
  THEN \E i, j \in 0 .. Len(call.p[f]) : x = SubSeq(call.p[f], i + 1, j)
  ELSE Arrives(call, f, x)

\* Field f of a text, or of who and when.
LEMMA TextArrives ==
  ASSUME NEW call, NEW p, p = call.p, call.form \in {"pointer", "arguments"},
         NEW f, f \in Texts \cup {"utc"}, NEW H, NEW proto, proto[f] = NULL,
         f \in Base => (f \in H <=> call.form = "pointer"), f \notin Base => f \in H,
         f \in Texts => p[f] \in Seq(Char),
         NEW x, Reads(p, proto, H, f, x)
  PROVE  Local(call, f, x)
<1>1. AsText(f) /\ f \notin Angles /\ ~IsDouble(p, f) /\ f # "state" /\ f # "value"
  BY DEF AsText, Angles, IsDouble, Texts
<1>2. CASE f = "utc"
  <2>1. f \notin Texts /\ f \in Base
    BY <1>2 DEF Texts, Base
  <2>2. CASE call.form = "pointer"
    <3>1. Said(p, f) = set_timetag
      BY <1>2 DEF Said
    <3>2. Clean(set_timetag) /\ set_timetag # NULL
      <4>1. Word("now") \in Char /\ Word("now").c # "mark"
        BY Chars, WordAssumption DEF Word
      <4>2. QED
        BY <4>1, OneIsClean, FewChars DEF set_timetag, NULL
    <3>3. f \in H
      BY <2>1, <2>2
    <3>4. x = set_timetag
      BY <1>1, <3>1, <3>2, <3>3 DEF Reads
    <3>5. QED
      BY <1>1, <1>2, <2>1, <2>2, <3>4 DEF Local, Arrives, Expected
  <2>3. CASE call.form # "pointer"
    <3>1. x = NULL
      BY <2>1, <2>3 DEF Reads
    <3>2. QED
      BY <1>1, <1>2, <2>1, <2>3, <3>1 DEF Local, Arrives, Expected
  <2>4. QED
    BY <2>2, <2>3
<1>3. CASE f # "utc"
  <2>1. f \in Texts /\ Said(p, f) = p[f] /\ p[f] \in Seq(Char)
    <3>1. f \in Texts
      BY <1>3
    <3>2. QED
      BY <1>3, <3>1 DEF Said
  <2>2. ASSUME Part(x, p[f]), Clean(p[f]) => Arrives(call, f, x) PROVE Local(call, f, x)
    BY <2>1, <2>2 DEF Local, Part
  <2>3. CASE f \in H
    <3>1. PICK w : /\ Part(w, p[f]) /\ (Clean(p[f]) => w = p[f])
                   /\ x = IF w = NULL THEN proto[f] ELSE w
      BY <1>1, <2>1, <2>3 DEF Reads
    <3>2. x = w
      BY <3>1
    <3>3. Expected(call, f) = p[f]
      <4>1. CASE f \in Base
        <5>1. call.form = "pointer" /\ f \in {"gid", "uid", "cid"}
          BY <1>3, <2>3, <4>1 DEF Base
        <5>2. QED
          BY <1>1, <1>3, <5>1 DEF Expected
      <4>2. CASE f \notin Base
        BY <1>1, <1>3, <4>2 DEF Expected, Base
      <4>3. QED
        BY <4>1, <4>2
    <3>4. QED
      BY <1>1, <2>2, <3>1, <3>2, <3>3 DEF Arrives
  <2>4. CASE f \notin H
    <3>1. f \in {"gid", "uid", "cid"} /\ call.form # "pointer" /\ x = NULL
      BY <1>3, <2>4 DEF Base, Reads
    <3>2. Part(x, p[f])
      BY <2>1, <3>1, WholeIsPart DEF NULL
    <3>3. Arrives(call, f, x)
      BY <1>1, <1>3, <3>1 DEF Arrives, Expected
    <3>4. QED
      BY <2>2, <3>2, <3>3
  <2>5. QED
    BY <2>3, <2>4
<1>4. QED
  BY <1>2, <1>3

\* Field f of the numbers.
LEMMA NumberArrives ==
  ASSUME NEW call, NEW p, p = call.p, NEW proto, Regular(proto), Handed(p, proto),
         NEW f \in Own(proto), f \notin Texts, NEW H, f \in H <=> ~(f = "state" /\ p.type = "focus"),
         NEW x, Reads(p, proto, H, f, x)
  PROVE  Local(call, f, x)
<1>1. f \in Names /\ f \notin Base /\ f # "utc" /\ f # "type"
  BY DEF Regular, Own, Common, Base
<1>2. /\ Good(p, f) /\ IsField(p, f, p[f]) /\ ~AsText(f) /\ proto.type = p.type
      /\ Defaults(p.type, proto)
  <2>1. Good(p, f)
    BY FieldIs
  <2>2. f \in DOMAIN proto \ {"type", "utc"}
    BY <1>1 DEF Own
  <2>3. QED
    BY <1>1, <2>1, <2>2 DEF Handed, AsText, Regular
<1>3. Clean(Said(p, f)) /\ f \notin {"utc", "gid", "uid", "cid"}
  BY <1>1, <1>2 DEF Good, Base
<1>r. f \in H => x = IF Said(p, f) = NULL THEN proto[f] ELSE Said(p, f)[1].v
  BY <1>2, <1>3 DEF Reads
<1>N. \A n : Whole(n) # NULL /\ Whole(n)[1].v = n
  BY DEF Whole, Num, NULL
<1>4. CASE f = "state" /\ p.type = "focus"
  <2>1. x = proto[f]
    BY <1>4 DEF Reads
  <2>2. x = INT_MIN
    BY <1>2, <1>4, <2>1 DEF Defaults, Own, Handed
  <2>3. ~IsDouble(p, f) /\ f \notin Angles
    BY <1>4 DEF IsDouble, Angles
  <2>4. Expected(call, f) = INT_MIN
    BY <1>3, <1>4, <2>3 DEF Expected
  <2>5. QED
    BY <2>2, <2>3, <2>4 DEF Local, Arrives
<1>5. CASE f = "value" /\ p.type = "rain"
  <2>1. Said(p, f) = p.value /\ f \in H
    BY <1>5 DEF Said, Texts
  <2>2. proto[f] = 0
    BY <1>2, <1>5 DEF Defaults, Own, Handed
  <2>3. ~IsDouble(p, f) /\ f \notin Angles
    BY <1>5 DEF IsDouble, Angles
  <2>4. Expected(call, f) = IF p.value = NULL THEN 0 ELSE p.value[1].v
    BY <1>3, <1>5, <2>3 DEF Expected
  <2>5. QED
    BY <1>r, <2>1, <2>2, <2>3, <2>4 DEF Local, Arrives
<1>6. CASE ~(f = "state" /\ p.type = "focus") /\ ~(f = "value" /\ p.type = "rain") /\ IsDouble(p, f)
  <2>1. Said(p, f) = Double(p[f]) /\ f \in H
    BY <1>1, <1>6 DEF Said
  <2>2. p[f] \in Int /\ -Never <= p[f] /\ p[f] <= Never
    <3>1. Never \in Int
      BY SMT DEF Never
    <3>2. p[f] \in -Never .. Never
      BY <1>2, <1>6 DEF IsField
    <3>3. QED
      BY <3>1, <3>2
  <2>3. PICK y \in Int : Double(p[f]) = <<Num(y)>> /\ (Magnitude(p[f]) <= Turn => Magnitude(y - p[f]) <= 5)
    BY <2>2, DoubleIs
  <2>4. Said(p, f) # NULL /\ Said(p, f)[1].v = y
    BY <1>N, <2>1, <2>3 DEF Whole
  <2>5. x = y
    BY <1>r, <2>1, <2>4
  <2>6. Expected(call, f) = y
    <3>1. Expected(call, f) = Double(p[f])[1].v
      BY <1>3, <1>6 DEF Expected
    <3>2. QED
      BY <2>1, <2>4, <3>1
  <2>7. CASE f \in Angles /\ p[f] # Never
    <3>0. Turn \in Int
      BY SMT DEF Turn, Degree
    <3>1. p[f] \in -Turn .. Turn
      BY <1>2, <2>7 DEF IsField
    <3>2. Magnitude(p[f]) <= Turn
      BY <2>2, <3>0, <3>1 DEF Magnitude
    <3>3. QED
      BY <2>3, <2>5, <2>7, <3>2 DEF Local, Arrives
  <2>8. CASE ~(f \in Angles /\ p[f] # Never)
    <3>1. x = Expected(call, f)
      BY <2>5, <2>6
    <3>2. QED
      BY <2>8, <3>1 DEF Local, Arrives
  <2>9. QED
    BY <2>7, <2>8
<1>7. CASE ~(f = "state" /\ p.type = "focus") /\ ~(f = "value" /\ p.type = "rain") /\ ~IsDouble(p, f)
  <2>1. Said(p, f) = IF p.type = "slit" /\ p[f] = INT_MIN THEN NULL ELSE Whole(p[f])
    BY <1>1, <1>7 DEF Said
  <2>2. Expected(call, f) = p[f]
    BY <1>3, <1>7 DEF Expected
  <2>3. f \notin Angles
    BY <1>7 DEF IsDouble
  <2>4. x = p[f]
    <3>1. CASE p.type = "slit" /\ p[f] = INT_MIN
      <4>1. proto[f] = INT_MIN
        BY <1>2, <3>1 DEF Defaults, Own, Handed
      <4>2. QED
        BY <1>r, <1>7, <2>1, <3>1, <4>1
    <3>2. CASE ~(p.type = "slit" /\ p[f] = INT_MIN)
      BY <1>N, <1>r, <1>7, <2>1, <3>2
    <3>3. QED
      BY <3>1, <3>2
  <2>5. QED
    BY <2>2, <2>3, <2>4 DEF Local, Arrives
<1>8. QED
  BY <1>4, <1>5, <1>6, <1>7

\* What the line of a call holds, and of what kind its protocol is.
LEMMA LineIs ==
  ASSUME NEW call, call.form \in {"pointer", "arguments"}, WellFormed(call)
  PROVE  /\ \E proto : Regular(proto) /\ Handed(call.p, proto)
         /\ Written(call.form, call.p)
<1>p. PICK p : p = call.p
  OBVIOUS
<1>1. CASE call.form = "pointer"
  <2>1. PICK proto \in ByPointer : Handed(p, proto)
    BY <1>1, <1>p DEF WellFormed, Handed
  <2>2. /\ Handed(p, proto)
        /\ \/ proto = ascii_proto_reg \/ proto = ascii_proto_start \/ proto = ascii_proto_stop
           \/ proto = ascii_proto_obsite \/ proto = ascii_proto_home_sync
           \/ proto = ascii_proto_slewto \/ proto = ascii_proto_track \/ proto = ascii_proto_park
           \/ proto = ascii_proto_abort_slew \/ proto = ascii_proto_mount
           \/ proto = ascii_proto_take_image \/ proto = ascii_proto_abort_image
           \/ proto = ascii_proto_object \/ proto = ascii_proto_camera \/ proto = ascii_proto_fwhm
           \/ proto = ascii_proto_focus \/ proto = ascii_proto_slit
           \/ proto = ascii_proto_fileinfo \/ proto = ascii_proto_filestat
    BY <2>1 DEF ByPointer
  <2>3. Regular(proto)
    BY <2>2, RegisterIs, StartIs, StopIs, ObsiteIs, HomeSyncIs, SlewtoIs, TrackIs, ParkIs, AbortSlewIs,
       MountIs, TakeImageIs, AbortImageIs, ObjectIs, CameraIs, FwhmIs, FocusIs, SlitIs, FileinfoIs,
       FilestatIs
  <2>4. Written("pointer", p)
    BY <2>2, RegisterLine, StartLine, StopLine, ObsiteLine, HomeSyncLine, SlewtoLine, TrackLine,
       ParkLine, AbortSlewLine, MountLine, TakeImageLine, AbortImageLine, ObjectLine, CameraLine,
       FwhmLine, FocusLine, SlitLine, FileinfoLine, FilestatLine
  <2>5. QED
    BY <1>1, <1>p, <2>1, <2>3, <2>4
<1>2. CASE call.form = "arguments"
  <2>1. PICK proto \in ByArguments : Handed(p, proto)
    BY <1>2, <1>p DEF WellFormed, Handed
  <2>2. /\ Handed(p, proto)
        /\ \/ proto = ascii_proto_home_sync \/ proto = ascii_proto_slewto \/ proto = ascii_proto_track
           \/ proto = ascii_proto_park \/ proto = ascii_proto_abort_slew \/ proto = ascii_proto_focus
           \/ proto = ascii_proto_slit \/ proto = ascii_proto_expose \/ proto = ascii_proto_rain
    BY <2>1 DEF ByArguments
  <2>3. Regular(proto)
    BY <2>2, HomeSyncIs, SlewtoIs, TrackIs, ParkIs, AbortSlewIs, FocusIs, SlitIs, ExposeIs, RainIs
  <2>4. Written("arguments", p)
    BY <2>2, HomeSyncLine, SlewtoLine, TrackLine, ParkLine, AbortSlewLine, FocusLine, SlitLine,
       ExposeLine, RainLine
  <2>5. QED
    BY <1>2, <1>p, <2>1, <2>3, <2>4
<1>3. QED
  BY <1>1, <1>2

\* What Resolve may make of the line of a call.
Answers(call, r) ==
  /\ r \notin {Nothing, Undelivered}
  /\ r # Throws => r.type = call.p.type
  /\ (\A f \in TextsOf(call.p) : ~Mimics(call.p[f])) =>
       /\ r = Throws => call.p.type = "rain"
       /\ r # Throws => \A f \in DOMAIN call.p : Local(call, f, r[f])

\* A protocol begins without who and when.
LEMMA BaseIsEmpty == \A f \in Base : ascii_proto_base[f] = NULL
<1>1. /\ ascii_proto_base["utc"] = NULL /\ ascii_proto_base["gid"] = NULL
      /\ ascii_proto_base["uid"] = NULL /\ ascii_proto_base["cid"] = NULL
  BY DEF ascii_proto_base
<1>2. QED
  BY <1>1 DEF Base

\* The line of every call is resolved to a protocol of its type, every field as near as DamageIsLocal
\* says, or has made stoi or stod throw.
LEMMA AnswerIs ==
  ASSUME NEW call, call.form \in {"pointer", "arguments"}, WellFormed(call),
         NEW s, s = Compact(call.form, call.p), s # NULL
  PROVE  s \in Seq(Char) /\ Answers(call, Resolve(s))
<1>p. PICK p : p = call.p
  OBVIOUS
<1>f. PICK form \in {"pointer", "arguments"} : form = call.form
  OBVIOUS
<1>G. PICK G : G = Sent(form, p)
  OBVIOUS
<1>r. PICK r : r = Resolve(s)
  OBVIOUS
<1>1. PICK proto : Regular(proto) /\ Handed(p, proto)
  BY <1>p, LineIs
<1>2. Ended(s, p, G)
  BY <1>p, <1>f, <1>G, LineIs DEF Written
<1>b. PICK b : b = Beyond(s, Space)
  OBVIOUS
<1>3. s \in Seq(Char) /\ Upto(s, Space) = <<Word(p.type)>> /\ b \in Seq(Char)
  BY <1>2, <1>b DEF Ended
<1>4. /\ proto.type = p.type /\ DOMAIN p = DOMAIN proto /\ p.type \in Types
      /\ DOMAIN proto = Common \cup Own(proto) /\ Own(proto) \subseteq Names /\ Own(p) = Own(proto)
      /\ \A f \in DOMAIN proto : f \in Texts \cup Base => proto[f] = NULL
  BY <1>1 DEF Regular, Handed, Own
<1>k. PICK kvs : kvs = resolve_kv_array(Tokens(b, Comma))
  OBVIOUS
<1>x. PICK x : x = Resolved(proto, ReadAs(proto), kvs)
  OBVIOUS
<1>y. PICK y : y = Resolved(ascii_proto_base, AsBase, kvs)
  OBVIOUS
<1>5. r = Merge(x, y)
  BY <1>1, <1>3, <1>4, <1>b, <1>k, <1>r, <1>x, <1>y, ResolveIs
<1>6. ASSUME NEW f \in G PROVE Good(p, f) /\ (f \in Base => form = "pointer")
  <2>1. f \in Own(proto) \cup Base
    BY <1>4, <1>G DEF Sent
  <2>2. Good(p, f)
    BY <1>1, <2>1, FieldIs
  <2>3. f \in Base => form = "pointer"
    BY <1>G DEF Sent, Own, Common
  <2>4. QED
    BY <2>2, <2>3
<1>7. G \subseteq Fields
  BY <1>6 DEF Good
<1>8. ASSUME \A f \in TextsOf(p) : ~Mimics(p[f]) PROVE Tells(Pairs(b), p, G)
  <2>1. ASSUME NEW f \in G PROVE ~Mimics(Said(p, f))
    <3>1. CASE f = "utc"
      <4>1. Said(p, f) = set_timetag
        BY <3>1 DEF Said
      <4>2. Word("now") \in Char /\ Word("now").c # "mark"
        BY Chars, WordAssumption DEF Word
      <4>3. QED
        BY <4>1, <4>2, OneIsClean DEF set_timetag
    <3>2. CASE f # "utc" /\ f \in Texts
      <4>1. Said(p, f) = p[f]
        <5>1. f \in Texts
          BY <3>2
        <5>2. QED
          BY <3>2, <5>1 DEF Said
      <4>2. f \in DOMAIN p
        BY <1>4, <1>G DEF Sent, Common
      <4>3. QED
        BY <1>8, <3>2, <4>1, <4>2 DEF TextsOf
    <3>3. CASE f # "utc" /\ f \notin Texts
      BY <1>6, <3>3 DEF Good, AsText
    <3>4. QED
      BY <3>1, <3>2, <3>3
  <2>2. QED
    BY <1>2, <1>b, <2>1 DEF Ended, Honest
<1>s. NumbersClean(p, G) /\ G \subseteq Names \cup Base
  BY <1>6, <1>7 DEF NumbersClean, Good, Fields
<1>B. \A f \in Base : ascii_proto_base[f] = NULL
  BY BaseIsEmpty
<1>9. ASSUME Tells(Pairs(b), p, G)
      PROVE  \/ x = Throws /\ p.type = "rain"
             \/ x # Throws /\ \A f \in DOMAIN proto : Reads(p, proto, G \cap Own(proto), f, x[f])
  <2>F. PICK fields : fields = ReadAs(proto)
    OBVIOUS
  <2>1. DOMAIN fields = Own(proto)
    BY <2>F DEF ReadAs
  <2>2. Keyed(p, fields)
    <3>1. "utc" \notin Own(proto)
      BY DEF Own, Common, Base
    <3>2. QED
      BY <1>4, <2>1, <2>F, <3>1 DEF ReadAs, AsText, Keyed
  <2>3. x = Resolved(proto, fields, resolve_kv_array(Tokens(b, Comma)))
    BY <1>k, <1>x, <2>F
  <2>4. Outcome(p, G, proto, fields, x)
    BY <1>3, <1>9, <1>s, <2>2, <2>3, ResolvedIs
  <2>5. DOMAIN Throws = {"type"} /\ "utc" \in DOMAIN proto
    BY <1>4 DEF Throws, Common, Base
  <2>6. QED
    BY <1>6, <2>1, <2>4, <2>5 DEF Outcome, Good
<1>10. ASSUME Tells(Pairs(b), p, G)
       PROVE  \A f \in Base : Reads(p, ascii_proto_base, G \cap Base, f, y[f])
  <2>F. PICK fields : fields = AsBase
    OBVIOUS
  <2>1. DOMAIN fields = Base
    BY <2>F DEF AsBase, Base
  <2>2. Keyed(p, fields)
    BY <2>1, <2>F DEF AsBase, Text, KeyOf, AsText, Texts, Base, Keyed
  <2>3. y = Resolved(ascii_proto_base, fields, resolve_kv_array(Tokens(b, Comma)))
    BY <1>k, <1>y, <2>F
  <2>4. Outcome(p, G, ascii_proto_base, fields, y)
    BY <1>3, <1>10, <1>s, <2>2, <2>3, ResolvedIs
  <2>5. \A f \in Base : AsText(f) /\ f \in DOMAIN ascii_proto_base
    BY DEF Base, AsText, Texts, ascii_proto_base
  <2>6. QED
    BY <2>1, <2>4, <2>5 DEF Outcome
<1>11. CASE x = Throws
  <2>1. r = Throws
    BY <1>5, <1>11 DEF Merge
  <2>2. Throws \notin {Nothing, Undelivered}
    <3>1. Nothing.type = "none" /\ Throws.type = "throws" /\ Undelivered.type = "undelivered"
      BY DEF Nothing, Throws, Undelivered
    <3>2. QED
      BY <3>1
  <2>3. ASSUME \A f \in TextsOf(p) : ~Mimics(p[f]) PROVE p.type = "rain"
    <3>1. Tells(Pairs(b), p, G)
      BY <1>8, <2>3
    <3>2. QED
      BY <1>9, <1>11, <3>1
  <2>4. (\A f \in TextsOf(call.p) : ~Mimics(call.p[f])) => call.p.type = "rain"
    BY <1>p, <2>3
  <2>5. Answers(call, r)
    BY <2>1, <2>2, <2>4 DEF Answers
  <2>6. QED
    BY <1>3, <1>r, <2>5
<1>12. CASE x # Throws
  <2>1. DOMAIN x = DOMAIN proto /\ IsFunction(x) /\ x.type = p.type
    BY <1>1, <1>4, <1>12, <1>x, TypeStays
  <2>2. /\ r.type = p.type /\ r \notin {Nothing, Throws, Undelivered}
        /\ \A f \in DOMAIN x : r[f] = IF f \in Base THEN y[f] ELSE x[f]
    BY <1>4, <1>5, <2>1, MergeIs
  <2>3. ASSUME \A f \in TextsOf(p) : ~Mimics(p[f]), NEW f \in DOMAIN p
        PROVE  Local(call, f, r[f])
    <3>1. Tells(Pairs(b), p, G)
      BY <1>8, <2>3
    <3>2. f \in Base => Reads(p, ascii_proto_base, G \cap Base, f, r[f])
      BY <1>4, <1>10, <2>1, <2>2, <3>1
    <3>3. f \notin Base => Reads(p, proto, G \cap Own(proto), f, r[f])
      BY <1>4, <1>9, <1>12, <2>1, <2>2, <3>1
    <3>4. f \in Texts => p[f] \in Seq(Char)
      <4>1. f \in Texts => f \in DOMAIN proto \ {"type", "utc"}
        BY <1>4 DEF Texts
      <4>2. QED
        BY <1>1, <4>1 DEF Handed, IsField
    <3>5. CASE f = "type"
      <4>1. f \notin Base /\ f \notin Texts /\ f \notin Angles /\ ~IsDouble(p, f)
        BY <3>5 DEF Base, Texts, Angles, IsDouble
      <4>2. Expected(call, f) = p[f]
        BY <1>p, <3>5, <4>1 DEF Expected
      <4>3. r[f] = p[f]
        BY <2>2, <3>5
      <4>4. QED
        BY <4>1, <4>2, <4>3 DEF Local, Arrives
    <3>6. CASE f \in Base
      <4>0. f \in Texts \cup {"utc"}
        BY <3>6 DEF Base, Texts
      <4>1. ascii_proto_base[f] = NULL
        BY <1>B, <3>6
      <4>2. f \in G \cap Base <=> call.form = "pointer"
        BY <1>6, <1>f, <1>G, <3>6 DEF Sent
      <4>3. QED
        BY <1>p, <3>2, <3>4, <3>6, <4>0, <4>1, <4>2, TextArrives
    <3>7. CASE f \in Own(proto) /\ f \in Texts
      <4>1. f \notin Base /\ proto[f] = NULL
        BY <1>4, <3>7 DEF Own, Common
      <4>2. f \in G \cap Own(proto)
        BY <1>4, <1>G, <3>7 DEF Sent, Texts
      <4>3. QED
        BY <1>p, <3>3, <3>4, <3>7, <4>1, <4>2, TextArrives
    <3>8. CASE f \in Own(proto) /\ f \notin Texts
      <4>1. f \notin Base
        BY <3>8 DEF Own, Common
      <4>2. f \in G \cap Own(proto) <=> ~(f = "state" /\ p.type = "focus")
        BY <1>4, <1>G, <3>8, <4>1 DEF Sent
      <4>3. QED
        BY <1>1, <1>p, <3>3, <3>8, <4>1, <4>2, NumberArrives
    <3>9. QED
      BY <1>4, <3>5, <3>6, <3>7, <3>8 DEF Common
  <2>4. (\A f \in TextsOf(call.p) : ~Mimics(call.p[f])) => \A f \in DOMAIN call.p : Local(call, f, r[f])
    BY <1>p, <2>3
  <2>5. Answers(call, r)
    BY <1>p, <2>2, <2>4 DEF Answers
  <2>6. QED
    BY <1>3, <1>r, <2>5
<1>13. QED
  BY <1>11, <1>12

-----------------------------------------------------------------------------
(* The output buffers                                                      *)

\* How many lines can still be written before it is the turn of buffer i.
Turns(i) == IF i >= ibuf_ THEN i - ibuf_ ELSE i - ibuf_ + NBuf

RingInv ==
  /\ ibuf_ \in 0 .. NBuf - 1 /\ DOMAIN buff_ = 0 .. NBuf - 1
  /\ calls \in Seq({calls[k] : k \in 1 .. Len(calls)})

\* The line of call k is still there, and will be for NBuf calls after it.
Kept(k) ==
  Len(calls) - k < NBuf /\ calls[k].line # NULL =>
    /\ calls[k].slot \in 0 .. NBuf - 1
    /\ buff_[calls[k].slot] = calls[k].line
    /\ Turns(calls[k].slot) >= NBuf - 1 - (Len(calls) - k)

AllFit == \A k \in 1 .. Len(calls) : Fits(calls[k].line)

IInv == RingInv /\ (AllFit => \A k \in 1 .. Len(calls) : Kept(k))

USE RingAssumption

\* A sequence is a function on its indices.
LEMMA SeqIsFunction ==
  ASSUME NEW S, NEW s, NEW n \in Nat
  PROVE  /\ s \in Seq(S) /\ Len(s) = n => s \in [1 .. n -> S]
         /\ s \in [1 .. n -> S] => s \in Seq(S)
  OBVIOUS

\* Length and elements of a sequence with one more element.
LEMMA AppendIs ==
  ASSUME NEW S, NEW s \in Seq(S), NEW e, NEW r, r = Append(s, e)
  PROVE  /\ Len(s) \in Nat /\ Len(r) = Len(s) + 1 /\ r[Len(s) + 1] = e
         /\ \A i \in 1 .. Len(s) : r[i] = s[i]
         /\ r \in Seq({r[k] : k \in 1 .. Len(r)})
<1>1. s \in Seq(S \cup {e})
  OBVIOUS
<1>2. /\ Len(s) \in Nat /\ Len(r) = Len(s) + 1 /\ r[Len(s) + 1] = e
      /\ \A i \in 1 .. Len(s) : r[i] = s[i]
      /\ r \in Seq(S \cup {e})
  BY <1>1
<1> PICK n : n = Len(r)
  OBVIOUS
<1>3. n \in Nat
  BY <1>2
<1>4. r \in [1 .. n -> S \cup {e}]
  BY <1>2, <1>3, SeqIsFunction
<1>5. r \in [1 .. n -> {r[k] : k \in 1 .. n}]
  BY <1>4
<1>6. r \in Seq({r[k] : k \in 1 .. n})
  BY <1>3, <1>5, SeqIsFunction
<1>7. QED
  BY <1>2, <1>6

\* A call that leaves a line in the ring takes the turn of the oldest, and one that leaves
\* none changes nothing.
LEMMA CallKeeps ==
  ASSUME IInv, NEW call \in Calls, Call(call)
  PROVE  IInv'
<1> DEFINE n == Len(calls)
<1> PICK s : s = Compact(call.form, call.p)
  OBVIOUS
<1> PICK line : line = IF s = NULL THEN NULL ELSE Append(s, Newline)
  OBVIOUS
<1>0. /\ ibuf_ \in 0 .. NBuf - 1 /\ DOMAIN buff_ = 0 .. NBuf - 1
      /\ calls \in Seq({calls[k] : k \in 1 .. Len(calls)})
      /\ NBuf \in Nat /\ NBuf >= 1
  BY DEF IInv, RingInv
<1> PICK e : e = [call |-> call, slot |-> ibuf_, line |-> line]
  OBVIOUS
<1>T. \A j \in 0 .. NBuf - 1 : Turns(j) \in Int
  BY <1>0 DEF Turns
<1>1. /\ calls' = Append(calls, e) /\ e.line = line /\ e.slot = ibuf_
      /\ IF s = NULL THEN UNCHANGED <<ibuf_, buff_, overrun>> ELSE output_compacted(s)
  BY DEF Call
<1>2. /\ n \in Nat /\ Len(calls') = n + 1 /\ calls'[n + 1] = e
      /\ \A i \in 1 .. n : calls'[i] = calls[i]
      /\ calls' \in Seq({calls'[k] : k \in 1 .. Len(calls')})
  BY <1>0, <1>1, AppendIs
<1>3. CASE s = NULL
  <2>1. ibuf_' = ibuf_ /\ buff_' = buff_ /\ line = NULL
    BY <1>1, <1>3
  <2>2. RingInv'
    BY <1>0, <1>2, <2>1 DEF RingInv
  <2>3. ASSUME AllFit', NEW k \in 1 .. n + 1 PROVE Kept(k)'
    <3>1. AllFit
      BY <1>2, <2>3 DEF AllFit, Fits
    <3>2. CASE k = n + 1
      BY <1>1, <1>2, <2>1, <3>2 DEF Kept
    <3>3. CASE k \in 1 .. n
      <4>1. Kept(k)
        BY <3>1, <3>3 DEF IInv
      <4> PICK i : i = calls[k].slot
        OBVIOUS
      <4>2. /\ Len(calls') - k = n + 1 - k /\ calls'[k] = calls[k]
            /\ buff_' = buff_ /\ Turns(i)' = Turns(i)
        BY <1>2, <2>1, <3>3 DEF Turns
      <4> SUFFICES ASSUME n + 1 - k < NBuf, calls[k].line # NULL
                   PROVE  /\ i \in 0 .. NBuf - 1
                          /\ buff_[i] = calls[k].line
                          /\ Turns(i) >= NBuf - 1 - (n + 1 - k)
        BY <4>2 DEF Kept
      <4>3. n - k < NBuf
        BY <1>2
      <4>4. i \in 0 .. NBuf - 1 /\ buff_[i] = calls[k].line /\ Turns(i) >= NBuf - 1 - (n - k)
        BY <4>1, <4>3 DEF Kept
      <4>5. Turns(i) \in Int
        BY <1>T, <4>4, Zenon
      <4>6. Turns(i) >= NBuf - 1 - (n + 1 - k)
        BY <1>0, <1>2, <4>4, <4>5
      <4>7. QED
        BY <4>4, <4>6
    <3>4. QED
      BY <1>2, <3>2, <3>3
  <2>4. QED
    BY <1>2, <2>2, <2>3 DEF IInv
<1>4. CASE s # NULL
  <2>1. /\ buff_' = [i \in DOMAIN buff_ |->
             CASE i = ibuf_ -> line
               [] \/ i = ibuf_ + 1 /\ ~Fits(line)
                  \/ i = ibuf_ - 1 /\ ~Fits(buff_[i]) -> Spoilt
               [] OTHER -> buff_[i]]
        /\ ibuf_' = IF ibuf_ + 1 = NBuf THEN 0 ELSE ibuf_ + 1
    BY <1>1, <1>4 DEF output_compacted
  <2>2. RingInv'
    <3>1. ibuf_' \in 0 .. NBuf - 1
      <4>1. ibuf_' = IF ibuf_ + 1 = NBuf THEN 0 ELSE ibuf_ + 1
        BY <2>1
      <4>2. QED
        BY <1>0, <4>1
    <3>2. DOMAIN buff_' = DOMAIN buff_
      BY <2>1, Zenon
    <3>3. QED
      BY <1>0, <1>2, <3>1, <3>2 DEF RingInv
  <2>3. \A i \in 0 .. NBuf - 1 :
          Turns(i)' = IF i = ibuf_ THEN NBuf - 1 ELSE Turns(i) - 1
    BY <1>0, <2>1 DEF Turns
  <2>4. \A i \in 0 .. NBuf - 1 : i = ibuf_ <=> Turns(i) = 0
    BY <1>0 DEF Turns
  <2>5. buff_'[ibuf_] = line
    BY <1>0, <2>1
  <2>6. \A i \in 0 .. NBuf - 1 :
          i # ibuf_ /\ Fits(line) /\ Fits(buff_[i]) => buff_'[i] = buff_[i]
    BY <1>0, <2>1
  <2>7. ASSUME AllFit', NEW k \in 1 .. n + 1 PROVE Kept(k)'
    <3>1. Fits(line) /\ AllFit
      <4>1. \A j \in 1 .. n + 1 : Fits(calls'[j].line)
        BY <1>2, <2>7 DEF AllFit, Fits
      <4>2. n + 1 \in 1 .. n + 1 /\ \A j \in 1 .. n : j \in 1 .. n + 1
        BY <1>2
      <4>3. Fits(line)
        BY <1>1, <1>2, <4>1, <4>2
      <4>4. AllFit
        BY <1>2, <4>1, <4>2 DEF AllFit
      <4>5. QED
        BY <4>3, <4>4
    <3>2. CASE k = n + 1
      <4>1. calls'[k].slot = ibuf_ /\ calls'[k].line = line /\ Len(calls') - k = 0
        BY <1>1, <1>2, <3>2
      <4> PICK i : i = ibuf_
        OBVIOUS
      <4>2. Turns(i)' = NBuf - 1
        BY <1>0, <2>3
      <4>3. QED
        BY <1>0, <2>5, <4>1, <4>2 DEF Kept
    <3>3. CASE k \in 1 .. n
      <4> PICK i : i = calls[k].slot
        OBVIOUS
      <4>1. SUFFICES ASSUME n + 1 - k < NBuf, calls[k].line # NULL
                     PROVE  /\ i \in 0 .. NBuf - 1 /\ buff_'[i] = calls[k].line
                            /\ Turns(i)' >= NBuf - 1 - (n + 1 - k)
        BY <1>2, <3>3, SMTT(30) DEF Kept
      <4>2. n - k < NBuf
        BY <1>2, <4>1
      <4>3. i \in 0 .. NBuf - 1 /\ buff_[i] = calls[k].line /\ Turns(i) >= NBuf - 1 - (n - k)
        BY <3>1, <3>3, <4>1, <4>2 DEF IInv, Kept
      <4>4. Turns(i) \in Int
        BY <1>T, <4>3, Zenon
      <4>5. i # ibuf_
        <5> DEFINE t == Turns(i)
        <5>1. t \in Int /\ t >= NBuf - 1 - (n - k)
          BY <4>3, <4>4
        <5> HIDE DEF t
        <5>2. t # 0
          BY <1>0, <1>2, <4>1, <5>1
        <5>3. QED
          BY <2>4, <4>3, <5>2 DEF t
      <4>6. buff_'[i] = buff_[i]
        BY <2>6, <3>1, <3>3, <4>3, <4>5 DEF AllFit
      <4>7. Turns(i)' = Turns(i) - 1
        BY <2>3, <4>3, <4>5
      <4>8. QED
        BY <1>0, <1>2, <4>3, <4>4, <4>6, <4>7
    <3>4. QED
      BY <1>2, <3>2, <3>3
  <2>8. QED
    BY <1>2, <2>2, <2>7 DEF IInv
<1>5. QED
  BY <1>3, <1>4

\* The ring begins empty.
LEMMA InitKeeps == Init => IInv
<1> SUFFICES ASSUME Init PROVE IInv
  OBVIOUS
<1>1. <<>> \in Seq({}) /\ Len(<<>>) = 0 /\ 1 .. 0 = {}
  OBVIOUS
<1>2. QED
  BY <1>1 DEF Init, IInv, RingInv

\* Whatever is called, the strings of the last NBuf calls are what they were when they
\* were returned, if every line has fitted into its buffer.
THEOREM RingKeepsLines == Spec => []RecentIntact
<1>1. Init => IInv
  BY InitKeeps
<1>2. IInv /\ [Next]_vars => IInv'
  <2> SUFFICES ASSUME IInv, [Next]_vars PROVE IInv'
    OBVIOUS
  <2>1. CASE Deliver \/ UNCHANGED vars
    BY <2>1 DEF Deliver, vars, IInv, RingInv, AllFit, Fits, Kept, Turns
  <2>2. ASSUME NEW call \in Calls, Call(call) PROVE IInv'
    BY <2>2, CallKeeps
  <2>3. QED
    BY <2>1, <2>2 DEF Next
<1>3. IInv => RecentIntact
  BY DEF IInv, AllFit, Kept, RecentIntact
<1>4. QED
  BY <1>1, <1>2, <1>3, PTL DEF Spec

-----------------------------------------------------------------------------
(* The last line and its answer                                            *)

\* The string of a call.
LineOf(call) == Compact(call.form, call.p)

\* The last call's line is what Compact* made of it, and is still in its buffer; what the
\* other side has made of it is what Resolve makes of that string.
LastInv ==
  /\ RingInv
  /\ calls # <<>> =>
       LET e == Last(calls) IN
         /\ e.call \in Calls
         /\ e.line = IF LineOf(e.call) = NULL THEN NULL ELSE Append(LineOf(e.call), Newline)
         /\ e.line # NULL => e.slot \in DOMAIN buff_ /\ buff_[e.slot] = e.line
  /\ got # Undelivered =>
       calls # <<>> /\ LineOf(Last(calls).call) # NULL /\ got = Resolve(LineOf(Last(calls).call))

\* The receiver finds the end of the line where the sender has put it.
LEMMA NewlineEnds ==
  ASSUME NEW s \in Seq(Char)
  PROVE  Upto(Append(s, Newline), Newline) = s
<1>l. PICK l : l = Append(s, Newline)
  OBVIOUS
<1>n. PICK n : n = Len(s)
  OBVIOUS
<1>I. PICK I : I = {i \in 1 .. Len(l) : l[i] = Newline}
  OBVIOUS
<1>0. s \in Seq(Char \cup {Newline})
  OBVIOUS
<1>1. /\ n \in Nat /\ l \in Seq(Char \cup {Newline}) /\ Len(l) = n + 1 /\ l[n + 1] = Newline
      /\ \A i \in 1 .. n : l[i] = s[i] /\ s[i] \in Char
  BY <1>0, <1>l, <1>n
<1>2. \A i \in 1 .. n : l[i] # Newline
  BY <1>1, Chars
<1>3. I = {n + 1} /\ I \in SUBSET Nat
  BY <1>1, <1>2, <1>I
<1>4. Min(I) = n + 1
  BY <1>3, MinIs
<1>5. Upto(l, Newline) = SubSeq(l, 1, n)
  <2>1. Upto(l, Newline) = LET i == IF I # {} THEN Min(I) ELSE 0
                           IN IF i = 0 THEN l ELSE SubSeq(l, 1, i - 1)
    BY <1>I DEF Upto, SelectInSeq
  <2>2. I # {} /\ n + 1 # 0 /\ (n + 1) - 1 = n
    BY <1>1, <1>3
  <2>3. QED
    BY <1>4, <2>1, <2>2
<1>6. SubSeq(l, 1, n) = s
  <2>1. SubSeq(l, 1, n) = [i \in 1 .. n |-> l[i]]
    BY <1>1
  <2>2. s = [i \in 1 .. n |-> s[i]]
    BY <1>n
  <2>3. QED
    BY <1>1, <2>1, <2>2
<1>7. QED
  BY <1>5, <1>6, <1>l

\* Every call of the model is one that LineIs and AnswerIs speak of.
LEMMA CallAnswers ==
  ASSUME NEW call \in Calls, LineOf(call) # NULL
  PROVE  LineOf(call) \in Seq(Char) /\ Answers(call, Resolve(LineOf(call)))
<1>1. call.form \in {"pointer", "arguments"} /\ WellFormed(call)
  BY ProtocolAssumption
<1>2. QED
  BY <1>1, AnswerIs DEF LineOf

\* LastInv holds in every state.
LEMMA LastKept == Spec => []LastInv
<1>1. Init => LastInv
  <2> SUFFICES ASSUME Init PROVE LastInv
    OBVIOUS
  <2>1. <<>> \in Seq({}) /\ Len(<<>>) = 0 /\ 1 .. 0 = {}
    OBVIOUS
  <2>2. QED
    BY <2>1, RingAssumption DEF Init, LastInv, RingInv
<1>2. LastInv /\ [Next]_vars => LastInv'
  <2> SUFFICES ASSUME LastInv, [Next]_vars PROVE LastInv'
    OBVIOUS
  <2>1. CASE UNCHANGED vars
    BY <2>1 DEF vars, LastInv, RingInv
  <2>2. ASSUME NEW call \in Calls, Call(call) PROVE LastInv'
    <3>s. PICK s : s = LineOf(call)
      OBVIOUS
    <3>l. PICK line : line = IF s = NULL THEN NULL ELSE Append(s, Newline)
      OBVIOUS
    <3>e. PICK e : e = [call |-> call, slot |-> ibuf_, line |-> line]
      OBVIOUS
    <3>0. ibuf_ \in 0 .. NBuf - 1 /\ DOMAIN buff_ = 0 .. NBuf - 1 /\ NBuf \in Nat
      BY RingAssumption DEF LastInv, RingInv
    <3>1. /\ calls' = Append(calls, e) /\ got' = Undelivered
          /\ IF s = NULL THEN UNCHANGED <<ibuf_, buff_, overrun>> ELSE output_compacted(s)
      BY <2>2, <3>s, <3>l, <3>e DEF Call, LineOf
    <3>2. /\ Len(calls) \in Nat /\ Len(calls') = Len(calls) + 1 /\ calls'[Len(calls) + 1] = e
          /\ calls' \in Seq({calls'[k] : k \in 1 .. Len(calls')})
      BY <3>1, AppendIs DEF LastInv, RingInv
    <3>3. Last(calls)' = e
      BY <3>2 DEF Last
    <3>4. e.call = call /\ e.slot = ibuf_ /\ e.line = line
      BY <3>e
    <3>5. /\ ibuf_' \in 0 .. NBuf - 1 /\ DOMAIN buff_' = 0 .. NBuf - 1
          /\ line # NULL => buff_'[ibuf_] = line
      <4>1. CASE s = NULL
        BY <3>0, <3>1, <3>l, <4>1
      <4>2. CASE s # NULL
        <5>1. /\ buff_' = [i \in DOMAIN buff_ |->
                   CASE i = ibuf_ -> line
                     [] \/ i = ibuf_ + 1 /\ ~Fits(line)
                        \/ i = ibuf_ - 1 /\ ~Fits(buff_[i]) -> Spoilt
                     [] OTHER -> buff_[i]]
              /\ ibuf_' = IF ibuf_ + 1 = NBuf THEN 0 ELSE ibuf_ + 1
          BY <3>1, <3>l, <4>2 DEF output_compacted
        <5>2. DOMAIN buff_' = DOMAIN buff_
          BY <5>1, Zenon
        <5>3. buff_'[ibuf_] = line
          BY <3>0, <5>1
        <5>4. ibuf_' \in 0 .. NBuf - 1
          <6>1. ibuf_' = IF ibuf_ + 1 = NBuf THEN 0 ELSE ibuf_ + 1
            BY <5>1
          <6>2. QED
            BY <3>0, <6>1
        <5>5. QED
          BY <3>0, <5>2, <5>3, <5>4
      <4>3. QED
        BY <4>1, <4>2
    <3>6. RingInv'
      BY <3>2, <3>5 DEF RingInv
    <3>7. (calls # <<>> =>
             LET d == Last(calls) IN
               /\ d.call \in Calls
               /\ d.line = IF LineOf(d.call) = NULL THEN NULL ELSE Append(LineOf(d.call), Newline)
               /\ d.line # NULL => d.slot \in DOMAIN buff_ /\ buff_[d.slot] = d.line)'
      <4>1. LineOf(call)' = s
        BY <3>s DEF LineOf
      <4>2. QED
        BY <3>0, <3>3, <3>4, <3>5, <3>l, <3>s, <4>1
    <3>8. QED
      BY <3>1, <3>6, <3>7 DEF LastInv
  <2>3. CASE Deliver
    <3>e. PICK e : e = Last(calls)
      OBVIOUS
    <3>1. /\ calls # <<>> /\ e.line # NULL /\ got' = Resolve(Upto(buff_[e.slot], Newline))
          /\ UNCHANGED <<ibuf_, buff_, overrun, calls>>
      BY <2>3, <3>e DEF Deliver
    <3>2. /\ e.call \in Calls /\ LineOf(e.call) # NULL
          /\ buff_[e.slot] = Append(LineOf(e.call), Newline)
      BY <3>1, <3>e DEF LastInv
    <3>3. Upto(buff_[e.slot], Newline) = LineOf(e.call)
      BY <3>2, CallAnswers, NewlineEnds
    <3>4. got' = Resolve(LineOf(e.call))
      BY <3>1, <3>3
    <3>5. RingInv'
      BY <3>1 DEF LastInv, RingInv
    <3>6. QED
      BY <3>1, <3>2, <3>4, <3>5, <3>e DEF LastInv
  <2>4. QED
    BY <2>1, <2>2, <2>3 DEF Next
<1>3. QED
  BY <1>1, <1>2, PTL DEF Spec

\* What has been received is an answer to the last call.
LEMMA Answered ==
  ASSUME LastInv, got # Undelivered
  PROVE  Last(calls).call \in Calls /\ Answers(Last(calls).call, got)
<1>1. /\ calls # <<>> /\ LineOf(Last(calls).call) # NULL /\ got = Resolve(LineOf(Last(calls).call))
      /\ Last(calls).call \in Calls
  BY DEF LastInv
<1>2. QED
  BY <1>1, CallAnswers

\* Whatever the calls are, Resolve makes of each line a protocol of the type that was compacted,
\* never null, and throws for none but a rain value that is no number and texts that imitate a pair.
THEOREM OwnLinesAreResolved == Spec => []OwnLinesResolve
<1>1. LastInv => OwnLinesResolve
  <2> SUFFICES ASSUME LastInv, got # Undelivered PROVE OwnLinesResolve
    BY DEF OwnLinesResolve
  <2>c. PICK call : call = Last(calls).call
    OBVIOUS
  <2>1. Answers(call, got)
    BY <2>c, Answered
  <2>2. got # Throws => got.type = call.p.type
    BY <2>1 DEF Answers
  <2>3. got = Throws => call.p.type = "rain" \/ \E f \in TextsOf(call.p) : Mimics(call.p[f])
    BY <2>1 DEF Answers
  <2>4. QED
    BY <2>2, <2>3, <2>c DEF OwnLinesResolve
<1>2. QED
  BY <1>1, LastKept, PTL

\* Whatever the texts are, a text with separators in it damages its own field only, as long as no
\* text imitates a pair: Compact* and Resolve agree on every other field of all the protocols.
THEOREM DamageStaysLocal == Spec => []DamageIsLocal
<1>1. LastInv => DamageIsLocal
  <2> SUFFICES ASSUME LastInv, got # Undelivered, got # Throws PROVE DamageIsLocal
    BY DEF DamageIsLocal, Delivered
  <2>c. PICK call : call = Last(calls).call
    OBVIOUS
  <2>1. Answers(call, got)
    BY <2>c, Answered
  <2>2. (\A f \in TextsOf(call.p) : ~Mimics(call.p[f])) => \A f \in DOMAIN call.p : Local(call, f, got[f])
    BY <2>1 DEF Answers
  <2>3. QED
    BY <2>2, <2>c DEF DamageIsLocal, Local
<1>2. QED
  BY <1>1, LastKept, PTL

\* Every protocol whose texts are clean comes out of Resolve as it went into Compact*.
THEOREM LinesRoundTrip == Spec => []RoundTrip
<1>1. DamageIsLocal => RoundTrip
  <2> SUFFICES ASSUME DamageIsLocal, Delivered,
                      \A f \in TextsOf(Last(calls).call.p) : Clean(Last(calls).call.p[f])
               PROVE  RoundTrip
    BY DEF RoundTrip
  <2>c. PICK call : call = Last(calls).call
    OBVIOUS
  <2>1. \A v : Clean(v) => ~Mimics(v)
    BY DEF Clean, Mimics
  <2>2. \A f \in TextsOf(call.p) : Clean(call.p[f]) /\ ~Mimics(call.p[f])
    BY <2>1, <2>c
  <2>3. \A f \in DOMAIN call.p : Local(call, f, got[f])
    BY <2>2, <2>c DEF DamageIsLocal, Local
  <2>4. \A f \in DOMAIN call.p : Arrives(call, f, got[f])
    BY <2>2, <2>3 DEF Local, TextsOf
  <2>5. QED
    BY <2>4, <2>c DEF RoundTrip
<1>2. QED
  BY <1>1, DamageStaysLocal, PTL

=============================================================================
