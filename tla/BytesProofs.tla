----------------------------- MODULE BytesProofs -----------------------------
(***************************************************************************)
(* Byte strings of any length: what the order and the two key-shortening   *)
(* functions of Cmp do to them over any alphabet, and that varints,        *)
(* handles and footers are read as they were written.                      *)
(*                                                                         *)
(* TableBuilder has the varints of the code and MCFormats smaller ones, so *)
(* the lemmas about them take the base, the greatest length of a varint    *)
(* and the length of a footer as parameters.                               *)
(***************************************************************************)
EXTENDS Cmp, SequenceTheorems, WellFoundedInduction, TLAPS

\* Every non-empty set of naturals has a least element.
LEMMA LeastElement ==
    ASSUME NEW S \in SUBSET Nat, S # {}
    PROVE  \E x \in S : \A y \in S : x <= y
<1>1. PICK x \in S : \A y \in S : ~(<<y, x>> \in OpToRel(<, Nat))
  BY WFMin, NatLessThanWellFounded
<1>2. \A y \in S : ~(y < x)
  BY <1>1 DEF OpToRel
<1> QED BY <1>2

\* Min is the least element of a set of naturals.
LEMMA MinOf ==
    ASSUME NEW S \in SUBSET Nat, S # {}
    PROVE  Min(S) \in S /\ \A y \in S : Min(S) <= y
BY LeastElement DEF Min

\* A byte string has a length and bytes.
LEMMA BytesOf ==
    ASSUME NEW s \in ByteString
    PROVE  Len(s) \in Nat /\ \A i \in 1 .. Len(s) : s[i] \in Nat /\ s[i] <= MaxByte
BY MaxByteAssumption DEF ByteString, Byte

\* Byte strings with the same length and the same bytes are equal.
LEMMA SameBytes ==
    ASSUME NEW s \in ByteString, NEW t \in ByteString,
           Len(s) = Len(t), \A i \in 1 .. Len(s) : s[i] = t[i]
    PROVE  s = t
BY SeqEqual DEF ByteString

\* s and t differ first after n bytes, or one of them ends there.
FirstDifference(s, t, n) ==
    /\ n \in 0 .. Shorter(s, t)
    /\ Agree(s, t, n)
    /\ n < Shorter(s, t) => s[n + 1] # t[n + 1]

\* The loop of find_shortest_sep stops at the first difference.
LEMMA SharedLenStops ==
    ASSUME NEW s \in ByteString, NEW t \in ByteString
    PROVE  FirstDifference(s, t, SharedLen(s, t))
<1> DEFINE S == {m \in 0 .. Shorter(s, t) : m = Shorter(s, t) \/ s[m + 1] # t[m + 1]}
<1>1. Shorter(s, t) \in Nat /\ Shorter(s, t) <= Len(s) /\ Shorter(s, t) <= Len(t)
  BY DEF Shorter, ByteString
<1>2. S \in SUBSET Nat /\ Shorter(s, t) \in S
  BY <1>1
<1>3. PICK n \in S : \A m \in S : n <= m
  BY <1>2, LeastElement
<1>4. Agree(s, t, n)
  <2>1. \A i \in 1 .. n : i - 1 \in 0 .. Shorter(s, t) /\ i - 1 \notin S /\ (i - 1) + 1 = i
    BY <1>1, <1>2, <1>3
  <2> QED BY <2>1 DEF Agree
<1>5. FirstDifference(s, t, n)
  BY <1>1, <1>3, <1>4 DEF FirstDifference
<1> QED BY <1>5 DEF FirstDifference, SharedLen

\* There is only one first difference.
LEMMA FirstDifferenceUnique ==
    ASSUME NEW s \in ByteString, NEW t \in ByteString,
           NEW m, NEW n, FirstDifference(s, t, m), FirstDifference(s, t, n)
    PROVE  m = n
<1>1. Shorter(s, t) \in Nat
  BY DEF Shorter, ByteString
<1>2. ~(m < n) /\ ~(n < m)
  BY <1>1 DEF FirstDifference, Agree
<1> QED BY <1>1, <1>2 DEF FirstDifference

\* s is below t by what comes after n common bytes.
LessAfter(s, t, n) ==
    \/ n = Len(s) /\ n < Len(t)
    \/ n < Len(s) /\ n < Len(t) /\ s[n + 1] < t[n + 1]

\* The order is decided at the first difference.
LEMMA LessAtDifference ==
    ASSUME NEW s \in ByteString, NEW t \in ByteString
    PROVE  Less(s, t) <=> LessAfter(s, t, SharedLen(s, t))
<1>1. FirstDifference(s, t, SharedLen(s, t))
  BY SharedLenStops
<1>2. ASSUME Less(s, t) PROVE LessAfter(s, t, SharedLen(s, t))
  <2>1. PICK n \in 0 .. Shorter(s, t) : Agree(s, t, n) /\ LessAfter(s, t, n)
    BY <1>2 DEF Less, LessAfter
  <2>2. FirstDifference(s, t, n)
    <3>1. Shorter(s, t) <= Len(s) /\ Shorter(s, t) <= Len(t) /\ Len(s) \in Nat /\ Len(t) \in Nat
      BY DEF Shorter, ByteString
    <3>2. ASSUME n < Shorter(s, t) PROVE s[n + 1] # t[n + 1]
      <4>1. n + 1 \in 1 .. Len(s) /\ n + 1 \in 1 .. Len(t) /\ n # Len(s)
        BY <3>1, <3>2 DEF Shorter
      <4>2. s[n + 1] < t[n + 1] /\ s[n + 1] \in Nat /\ t[n + 1] \in Nat
        BY <2>1, <4>1, BytesOf DEF LessAfter
      <4> QED BY <4>2
    <3> QED BY <2>1, <3>2 DEF FirstDifference
  <2> QED BY <1>1, <2>1, <2>2, FirstDifferenceUnique
<1>3. ASSUME LessAfter(s, t, SharedLen(s, t)) PROVE Less(s, t)
  BY <1>1, <1>3 DEF Less, LessAfter, FirstDifference
<1> QED BY <1>2, <1>3

\* Of two different strings one is below the other, and not the other way
\* round.
LEMMA LessIsTotal ==
    ASSUME NEW s \in ByteString, NEW t \in ByteString
    PROVE  /\ ~(Less(s, t) /\ Less(t, s))
           /\ s = t <=> ~Less(s, t) /\ ~Less(t, s)
<1> DEFINE n == SharedLen(s, t)
<1>1. FirstDifference(s, t, n) /\ FirstDifference(t, s, SharedLen(t, s))
  BY SharedLenStops
<1>2. FirstDifference(t, s, n)
  BY <1>1 DEF FirstDifference, Shorter, Agree, ByteString
<1>3. SharedLen(t, s) = n
  BY <1>1, <1>2, FirstDifferenceUnique
<1>4. (Less(s, t) <=> LessAfter(s, t, n)) /\ (Less(t, s) <=> LessAfter(t, s, n))
  BY <1>3, LessAtDifference
<1> HIDE DEF n
<1>5. /\ n \in Nat /\ n <= Len(s) /\ n <= Len(t) /\ Len(s) \in Nat /\ Len(t) \in Nat
      /\ \A i \in 1 .. Len(s) : s[i] \in Int
      /\ \A i \in 1 .. Len(t) : t[i] \in Int
  BY <1>1, BytesOf DEF FirstDifference, Shorter
<1>6. ~(LessAfter(s, t, n) /\ LessAfter(t, s, n))
  BY <1>5 DEF LessAfter
<1>7. s = t => ~LessAfter(s, t, n)
  BY <1>5 DEF LessAfter
<1>8. ASSUME ~LessAfter(s, t, n), ~LessAfter(t, s, n) PROVE s = t
  <2>1. ~(n < Len(s) /\ n < Len(t))
    BY <1>1, <1>5, <1>8 DEF LessAfter, FirstDifference, Shorter
  <2>2. n = Len(s) /\ n = Len(t)
    BY <1>5, <1>8, <2>1 DEF LessAfter
  <2>3. \A i \in 1 .. Len(s) : s[i] = t[i]
    BY <1>1, <2>2 DEF FirstDifference, Agree
  <2> QED BY <2>2, <2>3, SameBytes
<1> QED BY <1>4, <1>6, <1>7, <1>8

-----------------------------------------------------------------------------

\* Appending a byte gives a greater byte string.
LEMMA AppendAbove ==
    ASSUME NEW s \in ByteString, NEW x \in Byte
    PROVE  /\ Append(s, x) \in ByteString /\ Len(Append(s, x)) = Len(s) + 1
           /\ Append(s, x)[Len(s) + 1] = x
           /\ \A i \in 1 .. Len(s) : Append(s, x)[i] = s[i]
           /\ Less(s, Append(s, x))
<1>1. /\ Append(s, x) \in ByteString /\ Len(Append(s, x)) = Len(s) + 1 /\ Len(s) \in Nat
      /\ Append(s, x)[Len(s) + 1] = x
      /\ \A i \in 1 .. Len(s) : Append(s, x)[i] = s[i]
  BY DEF ByteString
<1>2. Shorter(s, Append(s, x)) = Len(s) /\ Agree(s, Append(s, x), Len(s))
  BY <1>1 DEF Shorter, Agree
<1> QED BY <1>1, <1>2 DEF Less

\* Incrementing a byte below the maximum, and cutting off what follows, gives a
\* greater byte string.
LEMMA BumpAbove ==
    ASSUME NEW s \in ByteString, NEW j \in 1 .. Len(s), s[j] < MaxByte
    PROVE  /\ Bump(s, j) \in ByteString /\ Len(Bump(s, j)) = j
           /\ Bump(s, j)[j] = s[j] + 1
           /\ \A i \in 1 .. j - 1 : Bump(s, j)[i] = s[i]
           /\ Less(s, Bump(s, j))
<1> DEFINE cut == SubSeq(s, 1, j - 1)
<1>1. Len(s) \in Nat /\ s[j] \in Nat /\ s[j] + 1 \in Byte
  BY BytesOf, MaxByteAssumption DEF Byte
<1>2. cut \in ByteString /\ Len(cut) = j - 1 /\ \A i \in 1 .. j - 1 : cut[i] = s[i]
  BY <1>1, SubSeqProperties DEF ByteString
<1>3. Bump(s, j) = Append(cut, s[j] + 1)
  BY DEF Bump
<1> HIDE DEF cut
<1>4. /\ Bump(s, j) \in ByteString /\ Len(Bump(s, j)) = j
      /\ Bump(s, j)[j] = s[j] + 1
      /\ \A i \in 1 .. j - 1 : Bump(s, j)[i] = s[i]
  BY <1>1, <1>2, <1>3, AppendAbove
<1>5. j - 1 \in 0 .. Shorter(s, Bump(s, j)) /\ Agree(s, Bump(s, j), j - 1)
  BY <1>1, <1>4 DEF Shorter, Agree
<1> QED BY <1>1, <1>4, <1>5 DEF Less

\* find_shortest_sep separates two keys, and the assertion in it holds.
LEMMA SeparatorSeparates ==
    ASSUME NEW s \in ByteString, NEW t \in ByteString, Less(s, t)
    PROVE  SeparatorOK(s, t, find_shortest_sep(s, t)) /\ ~SepPanics(s, t)
<1> DEFINE n   == SharedLen(s, t)
           sep == find_shortest_sep(s, t)
<1>1. s # t
  BY LessIsTotal
<1>2. FirstDifference(s, t, n) /\ LessAfter(s, t, n)
  BY SharedLenStops, LessAtDifference
<1> HIDE DEF n
<1>3. /\ Len(s) \in Nat /\ Len(t) \in Nat /\ n \in Nat
      /\ n <= Len(s) /\ n <= Len(t) /\ Agree(s, t, n)
      /\ Shorter(s, t) \in Nat /\ Shorter(s, t) <= Len(s) /\ Shorter(s, t) <= Len(t)
  BY <1>2, BytesOf DEF FirstDifference, Shorter
<1>4. CASE Gaps(s, t) = {}
  <2>1. sep = Append(s, 0) /\ 0 \in Byte
    BY <1>1, <1>4, MaxByteAssumption DEF find_shortest_sep, Byte
  <2>2. /\ sep \in ByteString /\ Len(sep) = Len(s) + 1 /\ sep[Len(s) + 1] = 0
        /\ \A i \in 1 .. Len(s) : sep[i] = s[i]
        /\ Less(s, sep)
    BY <2>1, AppendAbove
  <2> HIDE DEF sep
  <2>3. Agree(sep, t, n)
    BY <1>3, <2>2 DEF Agree
  <2>4. CASE n < Len(s)
    <3>1. n \in 0 .. Shorter(sep, t) /\ n < Len(sep) /\ n < Len(t) /\ sep[n + 1] < t[n + 1]
      BY <1>2, <1>3, <2>2, <2>4 DEF LessAfter, Shorter
    <3>2. Less(sep, t)
      BY <2>3, <3>1 DEF Less
    <3> QED BY <1>4, <2>2, <3>2 DEF SeparatorOK, SepPanics, sep
  <2>5. CASE n = Len(s)
    <3>1. n < Len(t) /\ t[n + 1] \in Nat
      BY <1>2, <1>3, <2>5, BytesOf DEF LessAfter
    <3>2. CASE t[n + 1] # 0
      <4>1. n \in 0 .. Shorter(sep, t) /\ n < Len(sep) /\ sep[n + 1] < t[n + 1]
        BY <1>3, <2>2, <2>5, <3>1, <3>2 DEF Shorter
      <4>2. Less(sep, t)
        BY <2>3, <3>1, <4>1 DEF Less
      <4> QED BY <1>4, <2>2, <4>2 DEF SeparatorOK, SepPanics, sep
    <3>3. CASE t[n + 1] = 0 /\ Len(t) = n + 1
      <4>1. \A i \in 1 .. Len(t) : sep[i] = t[i]
        BY <1>3, <2>2, <2>3, <2>5, <3>3 DEF Agree
      <4>2. sep = t
        BY <2>2, <2>5, <3>3, <4>1, SameBytes
      <4> QED BY <1>4, <2>1, <2>2, <4>2 DEF SeparatorOK, SepPanics, sep
    <3>4. CASE t[n + 1] = 0 /\ Len(t) # n + 1
      <4>1. Agree(sep, t, n + 1)
        BY <1>3, <2>2, <2>3, <2>5, <3>4 DEF Agree
      <4>2. n + 1 \in 0 .. Shorter(sep, t) /\ n + 1 = Len(sep) /\ n + 1 < Len(t)
        BY <1>3, <2>2, <2>5, <3>1, <3>4 DEF Shorter
      <4>3. Less(sep, t)
        BY <4>1, <4>2 DEF Less
      <4> QED BY <1>4, <2>2, <4>3 DEF SeparatorOK, SepPanics, sep
    <3> QED BY <3>2, <3>3, <3>4
  <2> QED BY <1>3, <2>4, <2>5
<1>5. CASE Gaps(s, t) # {}
  <2> DEFINE j == Min(Gaps(s, t))
  <2>1. Gaps(s, t) \in SUBSET Nat
    BY <1>3 DEF Gaps, n
  <2>2. j \in Gaps(s, t)
    BY <1>5, <2>1, MinOf
  <2>3. /\ j \in n + 1 .. Shorter(s, t) /\ s[j] < MaxByte /\ s[j] + 1 < t[j]
        /\ j \in 1 .. Len(s) /\ j \in 1 .. Len(t)
    BY <1>3, <2>2 DEF Gaps, n
  <2>4. sep = Bump(s, j)
    BY <1>1, <1>5 DEF find_shortest_sep
  <2> HIDE DEF j
  <2>5. /\ sep \in ByteString /\ Len(sep) = j /\ sep[j] = s[j] + 1
        /\ \A i \in 1 .. j - 1 : sep[i] = s[i]
        /\ Less(s, sep)
    BY <2>3, <2>4, BumpAbove
  <2> HIDE DEF sep
  <2>6. Agree(sep, t, n)
    BY <1>3, <2>3, <2>5 DEF Agree
  <2>7. n \in 0 .. Shorter(sep, t) /\ n < Len(sep) /\ n < Len(t)
    BY <1>3, <2>3, <2>5 DEF Shorter
  <2>8. sep[n + 1] < t[n + 1]
    <3>1. s[n + 1] < t[n + 1]
      BY <1>2, <1>3, <2>3 DEF LessAfter
    <3> QED BY <1>3, <2>3, <2>5, <3>1
  <2>9. Less(sep, t)
    BY <2>6, <2>7, <2>8 DEF Less
  <2> QED BY <2>5, <2>9 DEF SeparatorOK, SepPanics, sep
<1> QED BY <1>4, <1>5

\* find_short_succ is above its argument, and nothing shorter is.
LEMMA SuccessorSucceeds ==
    ASSUME NEW s \in ByteString
    PROVE  SuccessorOK(s, find_short_succ(s))
<1> DEFINE below == {i \in 1 .. Len(s) : s[i] # MaxByte}
           succ  == find_short_succ(s)
<1>1. below \in SUBSET Nat /\ Len(s) \in Nat
  BY BytesOf
<1>2. /\ Less(s, succ) /\ Len(succ) \in Nat /\ Len(succ) <= Len(s) + 1
      /\ \A i \in 1 .. Len(succ) - 1 : s[i] = MaxByte
  <2>1. CASE below = {}
    <3>1. succ = Append(s, MaxByte) /\ MaxByte \in Byte
      BY <2>1, MaxByteAssumption DEF find_short_succ, Byte
    <3>2. Less(s, succ) /\ Len(succ) = Len(s) + 1
      BY <3>1, AppendAbove
    <3> HIDE DEF succ
    <3> QED BY <1>1, <2>1, <3>2
  <2>2. CASE below # {}
    <3> DEFINE j == Min(below)
    <3>1. j \in below /\ \A i \in below : j <= i
      BY <1>1, <2>2, MinOf
    <3>2. succ = Bump(s, j)
      BY <2>2 DEF find_short_succ
    <3> HIDE DEF j
    <3>3. j \in 1 .. Len(s) /\ s[j] < MaxByte
      BY <3>1, BytesOf, MaxByteAssumption
    <3>4. Less(s, succ) /\ Len(succ) = j
      BY <3>2, <3>3, BumpAbove
    <3> HIDE DEF succ
    <3> QED BY <1>1, <3>1, <3>3, <3>4
  <2> QED BY <2>1, <2>2
<1> HIDE DEF succ, below
<1>3. ASSUME NEW n \in 0 .. Len(succ) - 1, NEW t \in [1 .. n -> Byte], Less(s, t)
      PROVE  FALSE
  <2>1. Len(t) = n /\ n <= Len(s) /\ \A i \in 1 .. n : t[i] \in Nat /\ t[i] <= MaxByte
    BY <1>1, <1>2, <1>3, MaxByteAssumption DEF Byte
  <2>2. PICK m \in 0 .. Shorter(s, t) : LessAfter(s, t, m)
    BY <1>3 DEF Less, LessAfter
  <2>3. m + 1 \in 1 .. n /\ s[m + 1] < t[m + 1]
    BY <1>1, <2>1, <2>2 DEF LessAfter, Shorter
  <2>4. s[m + 1] = MaxByte
    BY <1>2, <1>3, <2>3
  <2> QED BY <2>1, <2>3, <2>4, MaxByteAssumption
<1> QED BY <1>2, <1>3 DEF SuccessorOK, succ

\* The order is transitive.
LEMMA LessTransitive ==
    ASSUME NEW s \in ByteString, NEW t \in ByteString, NEW u \in ByteString,
           Less(s, t), Less(t, u)
    PROVE  Less(s, u)
<1>1. Len(s) \in Nat /\ Len(t) \in Nat /\ Len(u) \in Nat
  BY BytesOf
<1>2. PICK m \in 0 .. Shorter(s, t) : Agree(s, t, m) /\ LessAfter(s, t, m)
  BY DEF Less, LessAfter
<1>3. PICK n \in 0 .. Shorter(t, u) : Agree(t, u, n) /\ LessAfter(t, u, n)
  BY DEF Less, LessAfter
<1>4. m \in Nat /\ n \in Nat /\ m <= Len(s) /\ m <= Len(t) /\ n <= Len(t) /\ n <= Len(u)
  BY <1>1 DEF Shorter
<1>5. CASE m < n
  <2>1. Agree(s, u, m) /\ t[m + 1] = u[m + 1] /\ m < Len(u)
    BY <1>2, <1>3, <1>4, <1>5, <1>1 DEF Agree
  <2>2. m \in 0 .. Shorter(s, u)
    BY <1>1, <1>4, <2>1 DEF Shorter
  <2>3. LessAfter(s, u, m)
    BY <1>1, <1>2, <1>4, <1>5, <2>1 DEF LessAfter
  <2> QED BY <2>1, <2>2, <2>3 DEF Less, LessAfter
<1>6. CASE n <= m
  <2>1. Agree(s, u, n)
    BY <1>2, <1>3, <1>4, <1>6, <1>1 DEF Agree
  <2>2. n \in 0 .. Shorter(s, u)
    BY <1>1, <1>4, <1>6 DEF Shorter
  <2>3. LessAfter(s, u, n)
    <3>1. CASE n = m
      BY <3>1, <1>1, <1>2, <1>3, <1>4, BytesOf DEF LessAfter
    <3>2. CASE n < m
      <4>1. s[n + 1] = t[n + 1] /\ n < Len(s)
        BY <3>2, <1>2, <1>4, <1>1 DEF Agree
      <4> QED BY <4>1, <3>2, <1>3, <1>4, <1>1 DEF LessAfter
    <3> QED BY <3>1, <3>2, <1>4, <1>6
  <2> QED BY <2>1, <2>2, <2>3 DEF Less, LessAfter
<1> QED BY <1>4, <1>5, <1>6

\* No key lies below the empty one.
LEMMA NothingBelowEmpty ==
    ASSUME NEW s \in ByteString
    PROVE  ~Less(s, <<>>)
BY BytesOf DEF Less, Shorter

-----------------------------------------------------------------------------

\* What the encoding of n begins with, given that of what is left of it.
VarStep(B, f, n) == IF n < B THEN <<n>> ELSE <<B + (n % B)>> \o f[n \div B]

\* encode_var to the base B.
Varint(B) == CHOOSE f : f = [n \in Nat |-> VarStep(B, f, n)]

\* A number is the digit at its end and the number before it.
LEMMA Quotient ==
    ASSUME NEW B \in Nat \ {0, 1}, NEW n \in Nat
    PROVE  /\ n \div B \in Nat /\ n % B \in Nat /\ n % B < B
           /\ n = (n % B) + B * (n \div B)
           /\ n >= B => n \div B < n
           /\ (B + (n % B)) % B = n % B
<1>1. n \div B \in Nat /\ n % B \in 0 .. B - 1
  OBVIOUS
<1>2. n = (n % B) + B * (n \div B)
  OBVIOUS
<1>3. n >= B => n \div B < n
  <2> DEFINE q == n \div B
             r == n % B
  <2>1. q \in Nat /\ r \in Nat /\ n = r + B * q
    BY <1>1, <1>2
  <2> HIDE DEF q, r
  <2>2. q >= n /\ n > 0 => B * q > q
    BY <2>1
  <2>3. ASSUME n >= B PROVE q < n
    BY <2>1, <2>2, <2>3
  <2> QED BY <2>3 DEF q
<1>4. (B + (n % B)) % B = n % B
  <2> DEFINE r == n % B
  <2>1. r \in 0 .. B - 1
    BY <1>1
  <2> HIDE DEF r
  <2>2. (B + r) % B = r
    BY <2>1
  <2> QED BY <2>2 DEF r
<1> QED BY <1>1, <1>2, <1>3, <1>4

\* The number before it is smaller.
LEMMA QuotientBelow ==
    ASSUME NEW B \in Nat \ {0, 1}, NEW n \in Nat, n >= B, NEW N \in Nat, n <= N
    PROVE  n \div B \in 0 .. N - 1
<1> DEFINE q == n \div B
<1>1. q \in Nat /\ q < n
  BY Quotient
<1> HIDE DEF q
<1>2. q \in 0 .. N - 1
  BY <1>1
<1> QED BY <1>2 DEF q

\* f encodes the numbers up to N.
Encodes(B, f, N) ==
    f \in [0 .. N -> Seq(Nat)] /\ \A n \in 0 .. N : f[n] = VarStep(B, f, n)

\* A digit before a sequence of digits.
LEMMA VarStepIsSeq ==
    ASSUME NEW B \in Nat \ {0, 1}, NEW n \in Nat, NEW f,
           n >= B => f[n \div B] \in Seq(Nat)
    PROVE  VarStep(B, f, n) \in Seq(Nat)
<1>1. CASE n < B
  BY <1>1 DEF VarStep
<1>2. CASE n >= B
  <2>1. B + (n % B) \in Nat
    BY Quotient
  <2> QED BY <1>2, <2>1, ConcatProperties DEF VarStep
<1> QED BY <1>1, <1>2

\* Two of them agree.
LEMMA EncodesUnique ==
    ASSUME NEW B \in Nat \ {0, 1}, NEW M \in Nat, NEW N \in Nat, NEW f, NEW g,
           Encodes(B, f, M), Encodes(B, g, N)
    PROVE  \A n \in Nat : n <= M /\ n <= N => f[n] = g[n]
<1> DEFINE S == {n \in Nat : n <= M /\ n <= N /\ f[n] # g[n]}
<1>1. SUFFICES ASSUME S # {} PROVE FALSE
  OBVIOUS
<1>2. PICK n \in S : \A m \in S : n <= m
  BY <1>1, LeastElement
<1>3. n \in Nat /\ n <= M /\ n <= N /\ f[n] # g[n] /\ n \in 0 .. M /\ n \in 0 .. N
  OBVIOUS
<1>4. f[n] = VarStep(B, f, n) /\ g[n] = VarStep(B, g, n)
  BY <1>3 DEF Encodes
<1>5. n >= B => n \div B \in Nat /\ n \div B < n
  BY <1>3, Quotient
<1>6. n >= B => f[n \div B] = g[n \div B]
  BY <1>2, <1>3, <1>5
<1> HIDE DEF S
<1> QED BY <1>3, <1>4, <1>6 DEF VarStep

\* For every N there is one.
LEMMA EncodesExists ==
    ASSUME NEW B \in Nat \ {0, 1}
    PROVE  \A N \in Nat : \E f : Encodes(B, f, N)
<1> DEFINE S == {N \in Nat : ~ \E f : Encodes(B, f, N)}
<1>1. SUFFICES ASSUME S # {} PROVE FALSE
  OBVIOUS
<1>2. PICK N \in S : \A m \in S : N <= m
  BY <1>1, LeastElement
<1>3. N \in Nat /\ ~ \E f : Encodes(B, f, N)
  OBVIOUS
<1>4. CASE N = 0
  <2> DEFINE f == [n \in 0 .. 0 |-> <<0>>]
  <2>1. f \in [0 .. 0 -> Seq(Nat)]
    OBVIOUS
  <2>2. \A n \in 0 .. 0 : f[n] = VarStep(B, f, n)
    BY DEF VarStep
  <2> QED BY <1>3, <1>4, <2>1, <2>2 DEF Encodes
<1>5. CASE N > 0
  <2>1. N - 1 \in Nat /\ ~(N - 1 \in S)
    BY <1>2, <1>3, <1>5
  <2>2. PICK g : Encodes(B, g, N - 1)
    BY <2>1
  <2> HIDE DEF S
  <2> DEFINE f == [n \in 0 .. N |-> IF n < N THEN g[n] ELSE VarStep(B, g, N)]
  <2>3. \A n \in 0 .. N : n = N \/ n \in 0 .. N - 1
    BY <1>3
  <2>4. \A n \in 0 .. N - 1 : n \in 0 .. N /\ f[n] = g[n] /\ g[n] \in Seq(Nat)
    BY <1>3, <2>2 DEF Encodes
  <2>5. N >= B => N \div B \in 0 .. N - 1
    BY <1>3, QuotientBelow
  <2>6. N \in 0 .. N /\ f[N] = VarStep(B, g, N) /\ VarStep(B, g, N) \in Seq(Nat)
    <3>1. N \in 0 .. N /\ f[N] = VarStep(B, g, N)
      BY <1>3
    <3>2. N >= B => g[N \div B] \in Seq(Nat)
      BY <2>4, <2>5
    <3> HIDE DEF f
    <3> QED BY <1>3, <3>1, <3>2, VarStepIsSeq
  <2>7. DOMAIN f = 0 .. N /\ f = [n \in 0 .. N |-> f[n]]
    OBVIOUS
  <2> HIDE DEF f
  <2>8. \A n \in 0 .. N : f[n] \in Seq(Nat)
    BY <2>3, <2>4, <2>6
  <2>9. ASSUME NEW n \in 0 .. N PROVE f[n] = VarStep(B, f, n)
    <3> n \in Nat /\ n <= N
      BY <1>3
    <3>1. n >= B => n \div B \in 0 .. N - 1
      BY <1>3, QuotientBelow
    <3>2. n >= B => f[n \div B] = g[n \div B]
      BY <3>1, <2>4
    <3>3. f[n] = VarStep(B, g, n)
      BY <2>2, <2>3, <2>4, <2>6 DEF Encodes
    <3> QED BY <3>1, <3>2, <3>3 DEF VarStep
  <2>10. f \in [0 .. N -> Seq(Nat)]
    BY <2>7, <2>8
  <2> QED BY <1>3, <2>9, <2>10 DEF Encodes
<1> QED BY <1>3, <1>4, <1>5

\* encode_var is what its definition says.
LEMMA VarintIs ==
    ASSUME NEW B \in Nat \ {0, 1}
    PROVE  \A n \in Nat : Varint(B)[n] \in Seq(Nat) /\ Varint(B)[n] = VarStep(B, Varint(B), n)
<1> DEFINE Upto(n) == CHOOSE g : Encodes(B, g, n)
           f == [n \in Nat |-> Upto(n)[n]]
<1>1. \A n \in Nat : Encodes(B, Upto(n), n)
  BY EncodesExists, Zenon
<1> HIDE DEF Upto
<1>2. \A n \in Nat : n \in 0 .. n /\ f[n] \in Seq(Nat)
  BY <1>1 DEF Encodes
<1>3. ASSUME NEW n \in Nat PROVE f[n] = VarStep(B, f, n)
  <2>1. f[n] = VarStep(B, Upto(n), n)
    BY <1>1, <1>2 DEF Encodes
  <2>2. ASSUME n >= B PROVE f[n \div B] = Upto(n)[n \div B]
    <3> DEFINE m == n \div B
    <3>1. m \in Nat /\ m < n
      BY <2>2, Quotient
    <3> HIDE DEF m
    <3>2. f[m] = Upto(m)[m]
      BY <3>1
    <3>3. Upto(m)[m] = Upto(n)[m]
      BY <1>1, <3>1, EncodesUnique
    <3> QED BY <3>2, <3>3 DEF m
  <2> HIDE DEF f
  <2> QED BY <2>1, <2>2 DEF VarStep
<1>4. f = [n \in Nat |-> VarStep(B, f, n)]
  BY <1>3
<1> HIDE DEF f
<1> DEFINE V == Varint(B)
<1>5. V = [n \in Nat |-> VarStep(B, V, n)]
  BY <1>4, Zenon DEF Varint
<1>6. DOMAIN V = Nat /\ \A n \in Nat : V[n] = VarStep(B, V, n)
  BY <1>5
<1> HIDE DEF V
<1>7. \A n \in Nat : V[n] \in Seq(Nat)
  <2> DEFINE S == {n \in Nat : ~(V[n] \in Seq(Nat))}
  <2>1. SUFFICES ASSUME S # {} PROVE FALSE
    OBVIOUS
  <2>2. PICK n \in S : \A m \in S : n <= m
    BY <2>1, LeastElement
  <2>3. n \in Nat /\ ~(V[n] \in Seq(Nat))
    OBVIOUS
  <2>4. n >= B => n \div B \in Nat /\ n \div B < n
    BY <2>3, Quotient
  <2>5. n >= B => V[n \div B] \in Seq(Nat)
    BY <2>2, <2>3, <2>4
  <2> HIDE DEF S
  <2> QED BY <1>6, <2>3, <2>5, VarStepIsSeq
<1> QED BY <1>6, <1>7 DEF V

\* The bytes that encode_var writes for n, and their number.
VarBytes(B, n) == Varint(B)[n]

VarLen(B, n) == Len(VarBytes(B, n))

\* The two cases of encode_var.
LEMMA VarBytesIs ==
    ASSUME NEW B \in Nat \ {0, 1}, NEW n \in Nat
    PROVE  /\ VarBytes(B, n) \in Seq(Nat)
           /\ n < B => VarBytes(B, n) = <<n>>
           /\ n >= B => VarBytes(B, n) = <<B + (n % B)>> \o VarBytes(B, n \div B)
<1>1. Varint(B)[n] \in Seq(Nat) /\ Varint(B)[n] = VarStep(B, Varint(B), n)
  BY VarintIs
<1> QED BY <1>1 DEF VarStep, VarBytes

\* All digits but the last are marked.
LEMMA VarintShape ==
    ASSUME NEW B \in Nat \ {0, 1}
    PROVE  \A n \in Nat : LET s == VarBytes(B, n)
                         IN  /\ s \in Seq(Nat) /\ Len(s) \in Nat /\ Len(s) > 0 /\ s[Len(s)] < B
                             /\ \A i \in 1 .. Len(s) - 1 : s[i] >= B
<1> DEFINE Fine(s) == /\ s \in Seq(Nat) /\ Len(s) \in Nat /\ Len(s) > 0 /\ s[Len(s)] < B
                      /\ \A i \in 1 .. Len(s) - 1 : s[i] >= B
           S == {n \in Nat : ~Fine(VarBytes(B, n))}
<1>1. SUFFICES ASSUME S # {} PROVE FALSE
  OBVIOUS
<1>2. PICK n \in S : \A m \in S : n <= m
  BY <1>1, LeastElement
<1>3. n \in Nat /\ ~Fine(VarBytes(B, n))
  OBVIOUS
<1>4. VarBytes(B, n) \in Seq(Nat)
  BY <1>3, VarBytesIs
<1>5. n >= B => n \div B \in Nat /\ n \div B < n
  BY <1>3, Quotient
<1>6. n >= B => Fine(VarBytes(B, n \div B))
  BY <1>2, <1>3, <1>5
<1> HIDE DEF S
<1>7. CASE n < B
  <2>1. VarBytes(B, n) = <<n>>
    BY <1>3, <1>7, VarBytesIs
  <2> QED BY <1>3, <1>7, <2>1
<1>8. CASE n >= B
  <2> DEFINE s == VarBytes(B, n \div B)
             d == B + (n % B)
  <2>1. d \in Nat /\ d >= B
    BY <1>3, Quotient
  <2>2. VarBytes(B, n) = <<d>> \o s
    BY <1>3, <1>8, VarBytesIs
  <2>3. Fine(s)
    BY <1>6, <1>8
  <2> HIDE DEF s, d
  <2> DEFINE l == Len(s)
  <2>4. /\ Len(VarBytes(B, n)) = l + 1 /\ VarBytes(B, n)[1] = d
        /\ \A i \in 2 .. l + 1 : VarBytes(B, n)[i] = s[i - 1]
    BY <2>1, <2>2, <2>3, ConcatProperties
  <2>5. VarBytes(B, n)[l + 1] = s[l] /\ l \in Nat
    <3>1. l \in Nat /\ l + 1 \in 2 .. l + 1 /\ l + 1 - 1 = l
      BY <2>3
    <3> HIDE DEF l
    <3> QED BY <2>4, <3>1
  <2>6. \A i \in 1 .. l : VarBytes(B, n)[i] >= B
    <3> SUFFICES ASSUME NEW i \in 1 .. l PROVE VarBytes(B, n)[i] >= B
      OBVIOUS
    <3>1. CASE i = 1
      BY <2>1, <2>4, <3>1
    <3>2. CASE i > 1
      <4>1. i \in 2 .. l + 1 /\ i - 1 \in 1 .. l - 1
        BY <2>5, <3>2
      <4> QED BY <2>3, <2>4, <4>1
    <3> QED BY <3>1, <3>2
  <2> QED BY <1>3, <1>4, <2>3, <2>4, <2>5, <2>6
<1> QED BY <1>3, <1>7, <1>8

\* The bytes have s at this place.
Occurs(s, bytes, from) ==
    from + Len(s) - 1 <= Len(bytes) /\ \A i \in 1 .. Len(s) : bytes[from + i - 1] = s[i]

\* decode_var with the base B and at most L bytes: the end of the number ...
EndOf(B, L, bytes, from) ==
    LET ends == {i \in from .. Len(bytes) : bytes[i] < B}
    IN  IF ends = {} \/ Min(ends) >= from + L THEN 0 ELSE Min(ends)

\* ... and what it is, for every place up to the end.
ValuesTo(B, bytes, end) ==
    CHOOSE v : v = [i \in 1 .. end |->
                       IF i = end THEN bytes[i] ELSE (bytes[i] % B) + B * v[i + 1]]

\* decode_var finds the end of what encode_var wrote.
LEMMA VarintEnds ==
    ASSUME NEW B \in Nat \ {0, 1}, NEW L \in Nat, NEW n \in Nat, VarLen(B, n) <= L,
           NEW bytes, Len(bytes) \in Nat, NEW from \in Nat \ {0}, Occurs(VarBytes(B, n), bytes, from)
    PROVE  EndOf(B, L, bytes, from) = from + VarLen(B, n) - 1
<1> USE DEF VarLen
<1> DEFINE s    == VarBytes(B, n)
           l    == Len(s)
           e    == from + l - 1
           ends == {i \in from .. Len(bytes) : bytes[i] < B}
<1>1. /\ s \in Seq(Nat) /\ l \in Nat /\ l > 0 /\ s[l] < B
      /\ \A i \in 1 .. l - 1 : s[i] >= B
  BY VarintShape
<1>2. e <= Len(bytes) /\ \A i \in 1 .. l : bytes[from + i - 1] = s[i]
  BY DEF Occurs
<1> HIDE DEF s
<1>3. e \in from .. Len(bytes) /\ bytes[e] = s[l]
  BY <1>1, <1>2
<1>4. ASSUME NEW i \in from .. Len(bytes), i < e PROVE ~(bytes[i] < B)
  <2> DEFINE j == i - from + 1
  <2>1. j \in 1 .. l - 1 /\ j \in 1 .. l /\ i = from + j - 1
    BY <1>1, <1>4
  <2> HIDE DEF j
  <2>2. s[j] >= B
    BY <1>1, <2>1
  <2>3. bytes[i] = s[j]
    BY <1>2, <2>1
  <2>4. s[j] \in Nat
    BY <1>1, <2>1
  <2> QED BY <2>2, <2>3, <2>4
<1>5. e \in ends /\ \A i \in ends : e <= i
  BY <1>1, <1>3, <1>4
<1>6. ends \subseteq Nat
  OBVIOUS
<1> HIDE DEF ends, e
<1>7. \A x \in ends : (\A y \in ends : x <= y) => x = e
  BY <1>5, <1>6
<1>8. Min(ends) = e
  BY <1>5, <1>7 DEF Min
<1>9. e < from + L
  BY <1>1 DEF e, s
<1>10. e \in Nat /\ ends # {} /\ ~(e >= from + L)
  BY <1>5, <1>6, <1>9
<1>11. EndOf(B, L, bytes, from) = e
  BY <1>8, <1>10, Zenon DEF EndOf, ends
<1> QED BY <1>11 DEF e, s

\* decode_var is what its definition says.
LEMMA ValuesToIs ==
    ASSUME NEW B \in Nat \ {0, 1}, NEW end \in Nat, NEW bytes,
           \A i \in 1 .. end : bytes[i] \in Nat
    PROVE  LET v == ValuesTo(B, bytes, end)
           IN  \A i \in 1 .. end :
                  /\ v[i] \in Nat
                  /\ v[i] = IF i = end THEN bytes[i] ELSE (bytes[i] % B) + B * v[i + 1]
<1> DEFINE Step(v, i) == IF i = end THEN bytes[i] ELSE (bytes[i] % B) + B * v[i + 1]
           Down(v, k) == /\ v \in [end - k .. end -> Nat]
                         /\ \A i \in end - k .. end : v[i] = Step(v, i)
           Exists(k) == \E v : Down(v, k)
           S == {k \in Nat : k < end /\ ~Exists(k)}
<1>1. S = {}
  <2> HIDE DEF Exists
  <2>1. SUFFICES ASSUME S # {} PROVE FALSE
    OBVIOUS
  <2>2. PICK k \in S : \A m \in S : k <= m
    BY <2>1, LeastElement
  <2>3. k \in Nat /\ k < end /\ ~Exists(k)
    OBVIOUS
  <2>4. CASE k = 0
    <3> DEFINE v == [i \in end .. end |-> bytes[end]]
    <3>1. end - k = end /\ end \in 1 .. end
      BY <2>3, <2>4
    <3>2. v \in [end .. end -> Nat]
      BY <3>1
    <3>3. \A i \in end .. end : v[i] = Step(v, i)
      OBVIOUS
    <3> QED BY <2>3, <3>1, <3>2, <3>3 DEF Exists
  <2>5. CASE k > 0
    <3> DEFINE a == end - k
    <3>1. k - 1 \in Nat /\ k - 1 \notin S /\ end - (k - 1) = a + 1 /\ a \in 1 .. end /\ a < end
      BY <2>2, <2>3, <2>5
    <3>2. PICK w : Down(w, k - 1)
      <4>1. Exists(k - 1)
        BY <2>3, <3>1
      <4> QED BY <4>1 DEF Exists
    <3> HIDE DEF S, a
    <3>3. w \in [a + 1 .. end -> Nat] /\ \A i \in a + 1 .. end : w[i] = Step(w, i)
      BY <3>1, <3>2
    <3> DEFINE d == (bytes[a] % B) + B * w[a + 1]
               v == [i \in a .. end |-> IF i = a THEN d ELSE w[i]]
    <3>4. d \in Nat
      <4>1. w[a + 1] \in Nat /\ bytes[a] % B \in Nat
        BY <3>1, <3>3
      <4> QED BY <4>1
    <3>5. \A i \in a .. end : i = a \/ (i # a /\ i \in a + 1 .. end)
      BY <3>1
    <3> HIDE DEF d
    <3>6. v[a] = d /\ \A i \in a + 1 .. end : v[i] = w[i] /\ i \in a .. end
      BY <3>1
    <3>7. v \in [a .. end -> Nat]
      BY <3>1, <3>3, <3>4, <3>5
    <3> HIDE DEF v
    <3>8. ASSUME NEW i \in a .. end PROVE v[i] = Step(v, i)
      <4>1. i # end => i + 1 \in a + 1 .. end
        BY <3>1
      <4>2. i # end => v[i + 1] = w[i + 1]
        BY <3>6, <4>1
      <4>3. CASE i = a
        BY <3>1, <3>6, <4>2, <4>3 DEF d
      <4>4. CASE i # a
        BY <3>3, <3>5, <3>6, <4>2, <4>4
      <4> QED BY <4>3, <4>4
    <3>9. Down(v, k)
      BY <3>7, <3>8 DEF a
    <3> QED BY <2>3, <3>9, Zenon DEF Exists
  <2> QED BY <2>3, <2>4, <2>5
<1>2. CASE end = 0
  BY <1>2
<1>3. CASE end > 0
  <2> HIDE DEF Exists
  <2>1. end - 1 \in Nat /\ end - 1 < end /\ end - 1 \notin S /\ end - (end - 1) = 1
    BY <1>1, <1>3
  <2>2. \E v : Down(v, end - 1)
    BY <2>1 DEF Exists
  <2> HIDE DEF S
  <2>3. PICK v : v \in [1 .. end -> Nat] /\ \A i \in 1 .. end : v[i] = Step(v, i)
    BY <2>1, <2>2
  <2>4. v = [i \in 1 .. end |-> Step(v, i)]
    BY <2>3
  <2> DEFINE u == ValuesTo(B, bytes, end)
  <2>5. u = [i \in 1 .. end |-> Step(u, i)]
    BY <2>4, Zenon DEF ValuesTo
  <2> HIDE DEF u
  <2>6. \A i \in 1 .. end : u[i] = Step(u, i)
    BY <2>5
  <2> DEFINE T == {k \in Nat : k < end /\ u[end - k] \notin Nat}
  <2>7. T = {}
    <3>1. SUFFICES ASSUME T # {} PROVE FALSE
      OBVIOUS
    <3>2. PICK k \in T : \A m \in T : k <= m
      BY <3>1, LeastElement
    <3>3. k \in Nat /\ k < end /\ u[end - k] \notin Nat /\ end - k \in 1 .. end
      OBVIOUS
    <3> DEFINE a == end - k
    <3>4. k > 0 => k - 1 \notin T /\ k - 1 \in Nat /\ k - 1 < end /\ end - (k - 1) = a + 1
      BY <3>2, <3>3
    <3>5. k > 0 => u[a + 1] \in Nat
      BY <3>4
    <3> HIDE DEF T
    <3>6. a \in 1 .. end /\ (k = 0 <=> a = end) /\ bytes[a] \in Nat /\ bytes[a] % B \in Nat
      BY <3>3
    <3>7. u[a] = Step(u, a) /\ u[a] \notin Nat
      BY <2>6, <3>3, <3>6
    <3> HIDE DEF a
    <3> QED BY <3>3, <3>5, <3>6, <3>7
  <2>8. ASSUME NEW i \in 1 .. end PROVE u[i] \in Nat
    <3> DEFINE k == end - i
    <3>1. k \in Nat /\ k < end /\ end - k = i
      OBVIOUS
    <3> HIDE DEF k
    <3>2. k \notin T
      BY <2>7
    <3> QED BY <3>1, <3>2
  <2> QED BY <2>6, <2>8 DEF u
<1> QED BY <1>2, <1>3

\* The number that begins at a place.
ValueAt(B, bytes, end, from) == ValuesTo(B, bytes, end)[from]

\* The number that ends at a place is the one that was written there.
LEMMA VarintValue ==
    ASSUME NEW B \in Nat \ {0, 1}, NEW bytes, Len(bytes) \in Nat, NEW end \in 1 .. Len(bytes),
           \A i \in 1 .. Len(bytes) : bytes[i] \in Nat
    PROVE  \A n \in Nat : \A from \in 1 .. end :
              Occurs(VarBytes(B, n), bytes, from) /\ end = from + VarLen(B, n) - 1
                  => ValueAt(B, bytes, end, from) = n
<1> USE DEF ValueAt, VarLen
<1> DEFINE u == ValuesTo(B, bytes, end)
           Wrong(n, from) == /\ Occurs(VarBytes(B, n), bytes, from) /\ end = from + VarLen(B, n) - 1
                             /\ u[from] # n
           S == {n \in Nat : \E from \in 1 .. end : Wrong(n, from)}
<1>1. SUFFICES ASSUME S # {} PROVE FALSE
  OBVIOUS
<1> HIDE DEF Wrong
<1>2. PICK n \in S : \A m \in S : n <= m
  BY <1>1, LeastElement
<1>3. PICK from \in 1 .. end : Wrong(n, from)
  OBVIOUS
<1>4. n \in Nat
  OBVIOUS
<1>5. \A m \in Nat : \A i \in 1 .. end : m < n => ~Wrong(m, i)
  BY <1>2, <1>4
<1> HIDE DEF S, u
<1>6. /\ from + VarLen(B, n) - 1 <= Len(bytes)
      /\ \A i \in 1 .. VarLen(B, n) : bytes[from + i - 1] = VarBytes(B, n)[i]
      /\ end = from + VarLen(B, n) - 1 /\ u[from] # n
  BY <1>3, <1>4 DEF Wrong, Occurs
<1>7. \A i \in 1 .. end : u[i] = IF i = end THEN bytes[i] ELSE (bytes[i] % B) + B * u[i + 1]
  <2>1. end \in Nat /\ \A i \in 1 .. end : bytes[i] \in Nat
    OBVIOUS
  <2> QED BY <2>1, ValuesToIs DEF u
<1>8. CASE n < B
  <2>1. VarBytes(B, n) = <<n>> /\ VarLen(B, n) = 1 /\ VarBytes(B, n)[1] = n
    <3>1. VarBytes(B, n) = <<n>>
      BY <1>4, <1>8, VarBytesIs
    <3> QED BY <3>1
  <2>2. from = end /\ bytes[from] = n
    BY <1>6, <2>1
  <2> QED BY <1>6, <1>7, <2>2
<1>9. CASE n >= B
  <2> DEFINE m == n \div B
             d == B + (n % B)
  <2>1. m \in Nat /\ m < n /\ d % B = n % B /\ n = (n % B) + B * m
    <3>1. /\ n \div B \in Nat /\ n % B \in Nat /\ n \div B < n
          /\ n = (n % B) + B * (n \div B) /\ (B + (n % B)) % B = n % B
      BY <1>4, <1>9, Quotient
    <3> QED BY <3>1, Zenon
  <2>2. VarBytes(B, n) = <<d>> \o VarBytes(B, m)
    BY <1>4, <1>9, VarBytesIs
  <2> HIDE DEF m
  <2> d \in Nat
    BY <1>4, Quotient
  <2> HIDE DEF d
  <2>3. VarBytes(B, m) \in Seq(Nat) /\ VarLen(B, m) \in Nat /\ VarLen(B, m) > 0
    BY <2>1, VarintShape
  <2>4. /\ VarLen(B, n) = VarLen(B, m) + 1 /\ VarBytes(B, n)[1] = d
        /\ \A i \in 2 .. VarLen(B, m) + 1 : VarBytes(B, n)[i] = VarBytes(B, m)[i - 1]
    <3> DEFINE s == VarBytes(B, m)
    <3>1. s \in Seq(Nat) /\ VarBytes(B, n) = <<d>> \o s
      BY <2>2, <2>3
    <3> HIDE DEF s
    <3>2. /\ VarLen(B, n) = Len(s) + 1 /\ VarBytes(B, n)[1] = d
          /\ \A i \in 2 .. Len(s) + 1 : VarBytes(B, n)[i] = s[i - 1]
      BY <3>1, ConcatProperties
    <3> QED BY <3>2 DEF s
  <2>5. from + 1 \in 1 .. end /\ from # end /\ end = from + 1 + VarLen(B, m) - 1
    <3> DEFINE l == VarLen(B, m)
    <3>1. l \in Nat /\ l > 0 /\ end = from + (l + 1) - 1
      BY <1>6, <2>3, <2>4
    <3> HIDE DEF l
    <3>2. from + 1 \in 1 .. end /\ from # end /\ end = from + 1 + l - 1
      BY <3>1
    <3> QED BY <3>2 DEF l
  <2>6. Occurs(VarBytes(B, m), bytes, from + 1)
    <3>1. ASSUME NEW i \in 1 .. VarLen(B, m) PROVE bytes[from + 1 + i - 1] = VarBytes(B, m)[i]
      <4> DEFINE j == i + 1
      <4>1. j \in 2 .. VarLen(B, m) + 1 /\ j \in 1 .. VarLen(B, n) /\ j - 1 = i /\ from + j - 1 = from + 1 + i - 1
        BY <2>3, <2>4
      <4> HIDE DEF j
      <4> QED BY <1>6, <2>4, <4>1
    <3>2. from + 1 + VarLen(B, m) - 1 <= Len(bytes)
      BY <1>6, <2>3, <2>4
    <3> QED BY <3>1, <3>2 DEF Occurs
  <2>7. u[from + 1] = m
    BY <1>5, <2>1, <2>5, <2>6 DEF Wrong
  <2>8. bytes[from] = d
    <3>1. 1 \in 1 .. VarLen(B, n) /\ from + 1 - 1 = from
      BY <2>3, <2>4
    <3> QED BY <1>6, <2>4, <3>1
  <2>9. u[from] = (d % B) + B * m
    BY <1>7, <2>5, <2>7, <2>8
  <2> QED BY <1>6, <2>1, <2>9
<1> QED BY <1>4, <1>8, <1>9

\* The number that decode_var reads at a place.
ReadNumber(B, L, bytes, from) ==
    IF EndOf(B, L, bytes, from) = 0 THEN 0
    ELSE ValueAt(B, bytes, EndOf(B, L, bytes, from), from)

\* The bytes of a file.
IsBytes(s) == s \in Seq(Nat)

\* What encode_var wrote, decode_var reads, whatever follows it.
LEMMA VarintReads ==
    ASSUME NEW B \in Nat \ {0, 1}, NEW L \in Nat, NEW n \in Nat, VarLen(B, n) <= L,
           NEW bytes, IsBytes(bytes), NEW from \in Nat \ {0}, Occurs(VarBytes(B, n), bytes, from)
    PROVE  /\ EndOf(B, L, bytes, from) = from + VarLen(B, n) - 1
           /\ EndOf(B, L, bytes, from) # 0
           /\ ReadNumber(B, L, bytes, from) = n
<1> DEFINE l == VarLen(B, n)
           end == from + l - 1
<1>1. l \in Nat /\ l > 0
  BY VarintShape DEF VarLen
<1>2. Len(bytes) \in Nat /\ \A i \in 1 .. Len(bytes) : bytes[i] \in Nat
  BY DEF IsBytes
<1>3. EndOf(B, L, bytes, from) = end
  BY <1>2, VarintEnds
<1>4. end <= Len(bytes)
  BY DEF Occurs, VarLen
<1>5. end \in 1 .. Len(bytes) /\ from \in 1 .. end /\ end # 0
  BY <1>1, <1>2, <1>4
<1>6. ValueAt(B, bytes, end, from) = n
  <2>1. end = from + VarLen(B, n) - 1
    OBVIOUS
  <2> HIDE DEF end
  <2> QED BY <1>2, <1>5, <2>1, VarintValue
<1> HIDE DEF end
<1>7. ReadNumber(B, L, bytes, from) = n
  BY <1>3, <1>5, <1>6 DEF ReadNumber
<1> QED BY <1>3, <1>5, <1>7 DEF end

\* Where a concatenation occurs, both parts do.
LEMMA OccursParts ==
    ASSUME NEW s \in Seq(Nat), NEW t \in Seq(Nat), NEW bytes \in Seq(Nat), NEW from \in Nat \ {0},
           Occurs(s \o t, bytes, from)
    PROVE  Occurs(s, bytes, from) /\ Occurs(t, bytes, from + Len(s))
<1> DEFINE c == s \o t
<1>1. /\ c \in Seq(Nat) /\ Len(c) = Len(s) + Len(t)
      /\ \A i \in 1 .. Len(s) : c[i] = s[i]
      /\ \A i \in 1 .. Len(t) : c[Len(s) + i] = t[i]
  BY ConcatProperties
<1>2. from + Len(c) - 1 <= Len(bytes) /\ \A i \in 1 .. Len(c) : bytes[from + i - 1] = c[i]
  BY DEF Occurs
<1> HIDE DEF c
<1>3. Len(s) \in Nat /\ Len(t) \in Nat /\ Len(bytes) \in Nat
  OBVIOUS
<1>4. Occurs(s, bytes, from)
  <2>1. from + Len(s) - 1 <= Len(bytes) /\ \A i \in 1 .. Len(s) : i \in 1 .. Len(c)
    BY <1>1, <1>2, <1>3
  <2>2. \A i \in 1 .. Len(s) : bytes[from + i - 1] = s[i]
    BY <1>1, <1>2, <2>1
  <2> QED BY <2>1, <2>2 DEF Occurs
<1>5. Occurs(t, bytes, from + Len(s))
  <2>1. ASSUME NEW i \in 1 .. Len(t) PROVE bytes[from + Len(s) + i - 1] = t[i]
    <3> DEFINE j == Len(s) + i
    <3>1. j \in 1 .. Len(c) /\ from + j - 1 = from + Len(s) + i - 1 /\ c[j] = t[i]
      BY <1>1, <1>3
    <3> HIDE DEF j
    <3> QED BY <1>2, <3>1
  <2>2. from + Len(s) + Len(t) - 1 <= Len(bytes)
    BY <1>1, <1>2, <1>3
  <2> QED BY <2>1, <2>2 DEF Occurs
<1> QED BY <1>4, <1>5

\* Two numbers one after the other.
LEMMA PairReads ==
    ASSUME NEW B \in Nat \ {0, 1}, NEW L \in Nat, NEW o \in Nat, NEW z \in Nat,
           VarLen(B, o) <= L, VarLen(B, z) <= L,
           NEW bytes, IsBytes(bytes), NEW from \in Nat \ {0},
           Occurs(VarBytes(B, o) \o VarBytes(B, z), bytes, from)
    PROVE  LET mid == EndOf(B, L, bytes, from)
               end == EndOf(B, L, bytes, mid + 1)
           IN  /\ mid # 0 /\ end # 0
               /\ end + 1 = from + VarLen(B, o) + VarLen(B, z)
               /\ ReadNumber(B, L, bytes, from) = o
               /\ ReadNumber(B, L, bytes, mid + 1) = z
<1> DEFINE k == VarLen(B, o)
           l == VarLen(B, z)
           mid == EndOf(B, L, bytes, from)
           end == EndOf(B, L, bytes, mid + 1)
<1>1. VarBytes(B, o) \in Seq(Nat) /\ VarBytes(B, z) \in Seq(Nat) /\ k \in Nat /\ l \in Nat
  BY VarintShape DEF VarLen
<1>2. Occurs(VarBytes(B, o), bytes, from) /\ Occurs(VarBytes(B, z), bytes, from + k)
  BY <1>1, OccursParts DEF IsBytes, VarLen
<1>3. mid = from + k - 1 /\ mid # 0 /\ ReadNumber(B, L, bytes, from) = o
  BY <1>2, VarintReads
<1> HIDE DEF mid
<1>4. \A at \in Nat \ {0} : Occurs(VarBytes(B, z), bytes, at) =>
         /\ EndOf(B, L, bytes, at) = at + l - 1 /\ EndOf(B, L, bytes, at) # 0
         /\ ReadNumber(B, L, bytes, at) = z
  BY VarintReads
<1> HIDE DEF k, l
<1>5. mid + 1 = from + k /\ from + k \in Nat \ {0}
  BY <1>1, <1>3
<1>6. end = from + k + l - 1 /\ end # 0 /\ ReadNumber(B, L, bytes, mid + 1) = z
  BY <1>2, <1>4, <1>5
<1> HIDE DEF end
<1>7. end + 1 = from + k + l
  BY <1>1, <1>6
<1> QED BY <1>3, <1>6, <1>7 DEF mid, end, k, l

\* BlockHandle::encode_to
HandleBytes(B, h) == VarBytes(B, h.offset) \o VarBytes(B, h.size)

HandleLen(B, h) == VarLen(B, h.offset) + VarLen(B, h.size)

IsHandle(h) == h.offset \in Nat /\ h.size \in Nat

\* Both numbers take at most L bytes.
Fits(B, L, h) == VarLen(B, h.offset) <= L /\ VarLen(B, h.size) <= L

\* BlockHandle::decode reads back the handle that encode_to wrote, and finds
\* its end.
LEMMA HandleReads ==
    ASSUME NEW B \in Nat \ {0, 1}, NEW L \in Nat, NEW h, IsHandle(h), Fits(B, L, h),
           NEW bytes, IsBytes(bytes), NEW from \in Nat \ {0}, Occurs(HandleBytes(B, h), bytes, from)
    PROVE  LET mid == EndOf(B, L, bytes, from)
               end == EndOf(B, L, bytes, mid + 1)
           IN  /\ mid # 0 /\ end # 0 /\ end + 1 = from + HandleLen(B, h)
               /\ ReadNumber(B, L, bytes, from) = h.offset
               /\ ReadNumber(B, L, bytes, mid + 1) = h.size
<1>1. PICK o \in Nat, z \in Nat : o = h.offset /\ z = h.size
  BY DEF IsHandle
<1>2. VarLen(B, o) <= L /\ VarLen(B, z) <= L
  BY <1>1 DEF Fits
<1>3. VarLen(B, o) \in Nat /\ VarLen(B, z) \in Nat
  BY VarintShape DEF VarLen
<1>4. Occurs(VarBytes(B, o) \o VarBytes(B, z), bytes, from)
  BY <1>1 DEF HandleBytes
<1>5. HandleLen(B, h) = VarLen(B, o) + VarLen(B, z)
  BY <1>1 DEF HandleLen
<1> DEFINE mid == EndOf(B, L, bytes, from)
           end == EndOf(B, L, bytes, mid + 1)
<1>6. /\ mid # 0 /\ end # 0
      /\ end + 1 = from + VarLen(B, o) + VarLen(B, z)
      /\ ReadNumber(B, L, bytes, from) = o
      /\ ReadNumber(B, L, bytes, mid + 1) = z
  BY <1>2, <1>4, PairReads
<1> HIDE DEF mid, end
<1>7. end + 1 = from + HandleLen(B, h)
  BY <1>3, <1>5, <1>6
<1> QED BY <1>1, <1>6, <1>7 DEF mid, end

\* A handle's bytes, as they stand in an entry of the index.
LEMMA HandleBytesIs ==
    ASSUME NEW B \in Nat \ {0, 1}, NEW h, IsHandle(h)
    PROVE  /\ HandleBytes(B, h) \in Seq(Nat) /\ HandleLen(B, h) \in Nat
           /\ Len(HandleBytes(B, h)) = HandleLen(B, h)
           /\ Occurs(HandleBytes(B, h), HandleBytes(B, h), 1)
           /\ \A L \in Nat : Fits(B, L, h) => HandleLen(B, h) <= 2 * L
<1> DEFINE s == VarBytes(B, h.offset)
           t == VarBytes(B, h.size)
           c == HandleBytes(B, h)
<1>1. s \in Seq(Nat) /\ t \in Seq(Nat) /\ Len(s) \in Nat /\ Len(t) \in Nat
  BY VarintShape DEF IsHandle
<1>2. c \in Seq(Nat) /\ Len(c) = Len(s) + Len(t)
  BY <1>1, ConcatProperties DEF HandleBytes
<1>3. HandleLen(B, h) = Len(s) + Len(t)
  BY DEF HandleLen, VarLen
<1>4. ASSUME NEW L \in Nat, Fits(B, L, h) PROVE HandleLen(B, h) <= 2 * L
  <2>1. Len(s) <= L /\ Len(t) <= L
    BY <1>4 DEF Fits, VarLen
  <2> HIDE DEF s, t, c
  <2> QED BY <1>1, <1>3, <2>1
<1> HIDE DEF c, s, t
<1>5. Occurs(c, c, 1)
  <2>1. \A i \in 1 .. Len(c) : 1 + i - 1 = i
    OBVIOUS
  <2> QED BY <1>1, <1>2, <2>1 DEF Occurs
<1> QED BY <1>1, <1>2, <1>3, <1>4, <1>5 DEF c

\* Footer::encode: the bytes, their padding and the magic number.
FooterBytes(F, bytes, magic) ==
    [i \in 1 .. F + 8 |-> IF i > F THEN magic[i - F] ELSE IF i <= Len(bytes) THEN bytes[i] ELSE 0]

\* The footer has the bytes at its beginning and the magic number at its end.
LEMMA FooterHas ==
    ASSUME NEW F \in Nat, NEW s \in Seq(Nat), Len(s) <= F,
           NEW magic \in Seq(Nat), Len(magic) = 8
    PROVE  LET f == FooterBytes(F, s, magic)
           IN  /\ f \in Seq(Nat) /\ Len(f) = F + 8 /\ Occurs(s, f, 1)
               /\ SubSeq(f, F + 1, Len(f)) = magic
<1> DEFINE f == FooterBytes(F, s, magic)
<1>1. Len(s) \in Nat
  OBVIOUS
<1>2. DOMAIN f = 1 .. F + 8
  BY DEF FooterBytes
<1>3. \A i \in 1 .. F + 8 : i > F => f[i] = magic[i - F] /\ i - F \in 1 .. 8
  BY DEF FooterBytes
<1>4. \A i \in 1 .. Len(s) : i \in 1 .. F + 8 /\ f[i] = s[i]
  BY <1>1 DEF FooterBytes
<1>5. ASSUME NEW i \in 1 .. F + 8 PROVE f[i] \in Nat
  <2>1. CASE i > F
    <3>1. magic[i - F] \in Nat
      <4> DEFINE j == i - F
      <4>1. j \in 1 .. Len(magic)
        BY <1>3, <2>1
      <4> HIDE DEF j
      <4>2. magic[j] \in Nat
        BY <4>1, ElementOfSeq
      <4> QED BY <4>2 DEF j
    <3> QED BY <1>3, <2>1, <3>1
  <2>2. CASE i <= F /\ i <= Len(s)
    BY <1>4, <2>2
  <2>3. CASE i <= F /\ ~(i <= Len(s))
    BY <2>3 DEF FooterBytes
  <2> QED BY <1>1, <2>1, <2>2, <2>3
<1>6. f = [i \in 1 .. F + 8 |-> f[i]]
  BY DEF FooterBytes
<1> HIDE DEF f
<1>7. f \in [1 .. F + 8 -> Nat]
  BY <1>2, <1>5, <1>6
<1>8. F + 8 \in Nat
  OBVIOUS
<1>9. f \in Seq(Nat) /\ Len(f) = F + 8
  BY <1>7, <1>8
<1>10. Occurs(s, f, 1)
  <2>1. \A i \in 1 .. Len(s) : 1 + i - 1 = i
    OBVIOUS
  <2> QED BY <1>1, <1>4, <1>9, <2>1 DEF Occurs
<1>11. SubSeq(f, F + 1, Len(f)) = magic
  <2> DEFINE m == SubSeq(f, F + 1, F + 8)
  <2>1. m \in Seq(Nat) /\ Len(m) = 8 /\ \A i \in 1 .. 8 : m[i] = f[F + 1 + i - 1]
    BY <1>9, SubSeqProperties
  <2> HIDE DEF m
  <2>2. ASSUME NEW i \in 1 .. 8 PROVE m[i] = magic[i]
    <3> DEFINE j == F + i
    <3>1. j \in 1 .. F + 8 /\ j > F /\ F + 1 + i - 1 = j /\ j - F = i
      OBVIOUS
    <3> HIDE DEF j
    <3>2. f[j] = magic[i]
      BY <1>3, <3>1
    <3> QED BY <2>1, <3>1, <3>2
  <2>3. m = magic
    BY <2>1, <2>2, SeqEqual
  <2> QED BY <1>9, <2>3 DEF m
<1> QED BY <1>9, <1>10, <1>11 DEF f

\* The eight bytes at the end of a footer.
IsMagic(m) == m \in Seq(Nat) /\ Len(m) = 8

\* Footer::decode finds both handles that Footer::encode wrote.
LEMMA FooterReads ==
    ASSUME NEW B \in Nat \ {0, 1}, NEW L \in Nat, NEW F \in Nat, 4 * L <= F,
           NEW m, IsHandle(m), Fits(B, L, m), NEW x, IsHandle(x), Fits(B, L, x),
           NEW magic, IsMagic(magic)
    PROVE  LET s == HandleBytes(B, m) \o HandleBytes(B, x)
               f == FooterBytes(F, s, magic)
           IN  /\ Len(s) \in Nat /\ Len(s) <= F
               /\ IsBytes(f) /\ Len(f) = F + 8 /\ SubSeq(f, F + 1, Len(f)) = magic
               /\ Occurs(HandleBytes(B, m), f, 1)
               /\ Occurs(HandleBytes(B, x), f, 1 + HandleLen(B, m))
<1> DEFINE a == HandleBytes(B, m)
           b == HandleBytes(B, x)
           s == a \o b
           f == FooterBytes(F, s, magic)
<1>1. /\ a \in Seq(Nat) /\ Len(a) = HandleLen(B, m) /\ HandleLen(B, m) \in Nat
      /\ HandleLen(B, m) <= 2 * L
  BY HandleBytesIs
<1>2. /\ b \in Seq(Nat) /\ Len(b) = HandleLen(B, x) /\ HandleLen(B, x) \in Nat
      /\ HandleLen(B, x) <= 2 * L
  BY HandleBytesIs
<1> HIDE DEF a, b
<1>3. s \in Seq(Nat) /\ Len(s) = Len(a) + Len(b)
  BY <1>1, <1>2, ConcatProperties
<1>4. Len(s) \in Nat /\ Len(s) <= F
  BY <1>1, <1>2, <1>3
<1> HIDE DEF s
<1>5. /\ f \in Seq(Nat) /\ Len(f) = F + 8 /\ Occurs(s, f, 1)
      /\ SubSeq(f, F + 1, Len(f)) = magic
  BY <1>3, <1>4, FooterHas DEF IsMagic
<1> HIDE DEF f
<1>6. Occurs(a, f, 1) /\ Occurs(b, f, 1 + Len(a))
  BY <1>1, <1>2, <1>5, OccursParts DEF s
<1> QED BY <1>1, <1>4, <1>5, <1>6 DEF IsBytes, a, b, s, f
=============================================================================
