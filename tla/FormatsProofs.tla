---------------------------- MODULE FormatsProofs ---------------------------
(***************************************************************************)
(* MCFormats without bounds: what the runs check of the conversions of the *)
(* file format on short strings holds of strings of any length; the sizes  *)
(* of Bloom filters wrap around at 2^32 bits as in the code.               *)
(***************************************************************************)
EXTENDS MCFormats, BytesProofs

\* a and b are keys.
IsPair == a \in ByteString /\ b \in ByteString

\* The strings that grow byte by byte are byte strings.
LEMMA PairsOfKeys == Spec => []IsPair
<1>1. Init => IsPair
  BY DEF Init, IsPair, ByteString
<1>2. IsPair /\ [GrowA \/ GrowB]_<<a, b>> => IsPair'
  <2> SUFFICES ASSUME IsPair, [GrowA \/ GrowB]_<<a, b>> PROVE IsPair'
    OBVIOUS
  <2>1. CASE GrowA
    BY <2>1, AppendAbove DEF IsPair, GrowA
  <2>2. CASE GrowB
    BY <2>2, AppendAbove DEF IsPair, GrowB
  <2>3. CASE UNCHANGED <<a, b>>
    BY <2>3 DEF IsPair
  <2> QED BY <2>1, <2>2, <2>3
<1> QED BY <1>1, <1>2, PTL DEF Spec

\* DefaultCmp::cmp is a total order on keys of any length over any alphabet.
THEOREM OrderIsTotal == Spec => []TotalOrder
<1>1. IsPair => TotalOrder
  BY LessIsTotal DEF IsPair, TotalOrder
<1> QED BY <1>1, PairsOfKeys, PTL

\* find_shortest_sep: whatever the keys, their length and the alphabet, the
\* separator of two blocks lies between them, with room or without, and the
\* assertion on the way holds.
THEOREM SeparatorsSeparate == Spec => []Separates
<1>1. IsPair => Separates
  <2>1. IsPair /\ a = b => find_shortest_sep(a, b) = a
    BY DEF find_shortest_sep
  <2> QED BY <2>1, SeparatorSeparates DEF IsPair, Separates
<1> QED BY <1>1, PairsOfKeys, PTL

\* find_short_succ: the successor of a last key is the shortest key above it.
THEOREM SuccessorsSucceed == Spec => []Succeeds
<1>1. IsPair => Succeeds
  BY SuccessorSucceeds DEF IsPair, Succeeds
<1> QED BY <1>1, PairsOfKeys, PTL

-----------------------------------------------------------------------------

U8 == 0 .. 255

IsWord(w) ==
    /\ w = <<w[1], w[2], w[3], w[4]>>
    /\ w[1] \in U8 /\ w[2] \in U8 /\ w[3] \in U8 /\ w[4] \in U8

\* Subtracting a word undoes adding it, whatever is carried and lost.
LEMMA AddThenSub ==
    ASSUME NEW u, IsWord(u), NEW d, IsWord(d)
    PROVE  WordSub(WordAdd(u, d), d) = u
<1> DEFINE u1 == u[1]
           u2 == u[2]
           u3 == u[3]
           u4 == u[4]
           d1 == d[1]
           d2 == d[2]
           d3 == d[3]
           d4 == d[4]
           s1 == u1 + d1
           s2 == u2 + d2 + (s1 \div 256)
           s3 == u3 + d3 + (s2 \div 256)
           s4 == u4 + d4 + (s3 \div 256)
           t1 == (s1 % 256) + 255 - d1 + 1
           t2 == (s2 % 256) + 255 - d2 + 0 + (t1 \div 256)
           t3 == (s3 % 256) + 255 - d3 + 0 + (t2 \div 256)
           t4 == (s4 % 256) + 255 - d4 + 0 + (t3 \div 256)
           m  == <<s1 % 256, s2 % 256, s3 % 256, s4 % 256>>
<1>0. /\ u1 \in U8 /\ u2 \in U8 /\ u3 \in U8 /\ u4 \in U8
      /\ d1 \in U8 /\ d2 \in U8 /\ d3 \in U8 /\ d4 \in U8
      /\ u = <<u1, u2, u3, u4>>
  BY DEF IsWord
<1>1. WordAdd(u, d) = m
  BY DEF WordAdd, Bytes, Carried
<1> HIDE DEF u1, u2, u3, u4, d1, d2, d3, d4
<1>2. s1 \in Nat /\ s2 \in Nat /\ s3 \in Nat /\ s4 \in Nat
  BY <1>0 DEF U8
<1> HIDE DEF s1, s2, s3, s4
<1>3. WordSub(m, d) = <<t1 % 256, t2 % 256, t3 % 256, t4 % 256>>
  BY DEF WordSub, Bytes, Carried, d1, d2, d3, d4
<1>4. t1 % 256 = u1 /\ t1 \div 256 = 1 - (s1 \div 256)
  BY <1>0 DEF U8, s1
<1>5. t2 % 256 = u2 /\ t2 \div 256 = 1 - (s2 \div 256)
  BY <1>0, <1>2, <1>4 DEF U8, s2
<1>6. t3 % 256 = u3 /\ t3 \div 256 = 1 - (s3 \div 256)
  BY <1>0, <1>2, <1>5 DEF U8, s3
<1>7. t4 % 256 = u4
  BY <1>0, <1>2, <1>6 DEF U8, s4
<1> QED BY <1>0, <1>1, <1>3, <1>4, <1>5, <1>6, <1>7

\* The two rotations undo each other.
LEMMA RotateThereAndBack ==
    ASSUME NEW w1 \in U8, NEW w2 \in U8, NEW w3 \in U8, NEW w4 \in U8
    PROVE  LET w == <<w1, w2, w3, w4>>
               r == RotateRight15(w)
           IN  RotateRight17(r) = w /\ IsWord(r)
<1> DEFINE w  == <<w1, w2, w3, w4>>
           r1 == ((2 * w3) % 256) + (w2 \div 128)
           r2 == ((2 * w4) % 256) + (w3 \div 128)
           r3 == ((2 * w1) % 256) + (w4 \div 128)
           r4 == ((2 * w2) % 256) + (w1 \div 128)
           r  == <<r1, r2, r3, r4>>
<1>1. RotateRight15(w) = r
  BY DEF RotateRight15, Bytes, Around
<1>2. r1 \in U8 /\ r2 \in U8 /\ r3 \in U8 /\ r4 \in U8
  BY DEF U8
<1>3. /\ (r3 \div 2) + 128 * (r4 % 2) = w1
      /\ (r4 \div 2) + 128 * (r1 % 2) = w2
      /\ (r1 \div 2) + 128 * (r2 % 2) = w3
      /\ (r2 \div 2) + 128 * (r3 % 2) = w4
  BY DEF U8
<1> HIDE DEF r1, r2, r3, r4
<1>4. RotateRight17(r) = <<(r3 \div 2) + 128 * (r4 % 2), (r4 \div 2) + 128 * (r1 % 2),
                           (r1 \div 2) + 128 * (r2 % 2), (r2 \div 2) + 128 * (r3 % 2)>>
  BY DEF RotateRight17, Bytes, Around
<1> QED BY <1>1, <1>2, <1>3, <1>4 DEF IsWord

\* types.rs, mask_crc and unmask_crc: a reader gets back any checksum that the
\* writer masked.
THEOREM ChecksumsSurviveMasking ==
    ASSUME MaxByte <= 255
    PROVE  Spec => []MaskRoundTrip
<1>1. ASSUME NEW w1 \in U8, NEW w2 \in U8, NEW w3 \in U8, NEW w4 \in U8
      PROVE  unmask_crc(mask_crc(<<w1, w2, w3, w4>>)) = <<w1, w2, w3, w4>>
  <2> DEFINE w == <<w1, w2, w3, w4>>
             r == RotateRight15(w)
  <2>1. RotateRight17(r) = w /\ IsWord(r)
    BY RotateThereAndBack
  <2> HIDE DEF r
  <2>2. IsWord(MASK_DELTA)
    BY DEF MASK_DELTA, IsWord, U8
  <2>3. WordSub(WordAdd(r, MASK_DELTA), MASK_DELTA) = r
    BY <2>1, <2>2, AddThenSub
  <2> QED BY <2>1, <2>3 DEF mask_crc, unmask_crc, r
<1>2. IsPair => MaskRoundTrip
  <2> SUFFICES ASSUME IsPair PROVE MaskRoundTrip
    OBVIOUS
  <2> DEFINE s == a \o b
             n == Len(a) + Len(b)
             c == WordOf(s, 1, n)
             F(i) == IF 1 + i - 1 <= n THEN s[1 + i - 1] ELSE 0
  <2>1. s \in ByteString /\ Len(s) = n /\ n \in Nat
    BY ConcatProperties DEF IsPair, ByteString
  <2>2. c = <<F(1), F(2), F(3), F(4)>>
    BY DEF WordOf, Bytes
  <2> HIDE DEF s, n
  <2>3. \A i \in 1 .. 3 : F(i) \in U8
    <3> SUFFICES ASSUME NEW i \in 1 .. 3 PROVE F(i) \in U8
      OBVIOUS
    <3>1. CASE i <= n
      <4>1. i \in 1 .. Len(s) /\ 1 + i - 1 = i
        BY <2>1, <3>1
      <4>2. s[i] \in Nat /\ s[i] <= MaxByte
        BY <2>1, <4>1, BytesOf
      <4>3. s[i] \in U8
        BY <4>2, MaxByteAssumption DEF U8
      <4> QED BY <3>1, <4>1, <4>3
    <3>2. CASE ~(i <= n)
      BY <2>1, <3>2 DEF U8
    <3> QED BY <3>1, <3>2
  <2> HIDE DEF F
  <2>4. c[1] \in U8 /\ c[2] \in U8 /\ c[3] \in U8
    BY <2>2, <2>3
  <2> HIDE DEF c
  <2>5. \A top \in {0, 128, 255} : top \in U8
    BY DEF U8
  <2>6. \A top \in {0, 128, 255} :
           unmask_crc(mask_crc(<<c[1], c[2], c[3], top>>)) = <<c[1], c[2], c[3], top>>
    BY <1>1, <2>4, <2>5
  <2> QED BY <2>6 DEF MaskRoundTrip, c, s, n
<1> QED BY <1>2, PairsOfKeys, PTL

-----------------------------------------------------------------------------

\* A piece of a string: what lies between x and z.
LEMMA Piece ==
    ASSUME NEW x \in ByteString, NEW y \in ByteString, NEW z \in ByteString
    PROVE  SubSeq(x \o y \o z, Len(x) + 1, Len(x) + Len(y)) = y
<1> DEFINE s == x \o y \o z
           p == SubSeq(s, Len(x) + 1, Len(x) + Len(y))
<1>1. Len(x) \in Nat /\ Len(y) \in Nat /\ Len(z) \in Nat
  BY BytesOf
<1>2. /\ x \o y \in ByteString /\ Len(x \o y) = Len(x) + Len(y)
      /\ \A i \in 1 .. Len(y) : (x \o y)[Len(x) + i] = y[i]
  BY <1>1 DEF ByteString
<1>3. /\ s \in ByteString /\ Len(s) = Len(x) + Len(y) + Len(z)
      /\ \A i \in 1 .. Len(x) + Len(y) : s[i] = (x \o y)[i]
  BY <1>1, <1>2 DEF ByteString
<1>4. \A i \in 1 .. Len(y) : Len(x) + i \in 1 .. Len(x) + Len(y)
  BY <1>1
<1>5. \A i \in 1 .. Len(y) : s[Len(x) + i] = y[i]
  BY <1>2, <1>3, <1>4
<1> HIDE DEF s
<1>6. /\ p \in ByteString /\ Len(p) = Len(y)
      /\ \A i \in 1 .. Len(y) : p[i] = s[Len(x) + i]
  BY <1>1, <1>3 DEF ByteString
<1> HIDE DEF p
<1>7. p = y
  BY <1>5, <1>6, SameBytes
<1> QED BY <1>7 DEF p, s

\* Eight times n as u32, whether n has been cut before or not.
LEMMA BitsWrap ==
    ASSUME NEW n \in Nat
    PROVE  AsU32(8 * AsU32(n)) = AsU32(8 * n)
BY DEF AsU32

\* A filter matches each of the keys it was made from.
LEMMA FilterMatches ==
    ASSUME NEW p \in Nat, NEW data, NEW offsets, Len(offsets) \in Nat,
           NEW key \in Pieces(data, offsets)
    PROVE  key_may_match(key, create_filter(p, data, offsets))
<1> DEFINE bytes == FilterBytes(Len(offsets), p)
           k == ProbesFor(p)
           f == create_filter(p, data, offsets)
<1>1. /\ f.len = bytes + 1 /\ f.k = k
      /\ f.bits = UNION {Probes(x, k, AsU32(8 * bytes)) : x \in Pieces(data, offsets)}
  BY DEF create_filter
<1>2. bytes \in Nat
  BY DEF FilterBytes
<1> HIDE DEF bytes, k, f
<1>4. Probes(key, k, AsU32(8 * bytes)) \subseteq f.bits
  BY <1>1
<1>5. f.len - 1 = bytes
  BY <1>1, <1>2
<1>6. AsU32(8 * AsU32(f.len - 1)) = AsU32(8 * bytes)
  BY <1>2, <1>5, BitsWrap
<1> QED BY <1>1, <1>4, <1>6 DEF key_may_match, f

\* filter.rs, create_filter and key_may_match: a Bloom filter denies none of its
\* keys, whatever their bytes and lengths and the bits per key.
THEOREM FiltersDenyNoKey ==
    ASSUME BitsPerKey \subseteq Nat
    PROVE  Spec => []NoFalseNegatives
<1>1. IsPair => NoFalseNegatives
  <2> SUFFICES ASSUME IsPair, NEW p \in BitsPerKey
               PROVE  \A i \in 1 .. Len(<<a, b, b \o a>>) :
                         key_may_match(<<a, b, b \o a>>[i],
                             create_filter(p, a \o b \o b \o a, <<0, Len(a), Len(a) + Len(b)>>))
    BY DEF NoFalseNegatives
  <2> DEFINE data == a \o b \o b \o a
             offs == <<0, Len(a), Len(a) + Len(b)>>
             f == create_filter(p, data, offs)
             End(i) == IF i = Len(offs) THEN Len(data) ELSE offs[i + 1]
  <2>1. a \in ByteString /\ b \in ByteString /\ <<>> \in ByteString
    BY DEF IsPair, ByteString
  <2>2. Len(a) \in Nat /\ Len(b) \in Nat /\ Len(<<>>) = 0 /\ Len(offs) = 3
    BY <2>1, BytesOf
  <2>3. /\ a \o b \in ByteString /\ Len(a \o b) = Len(a) + Len(b)
        /\ b \o a \in ByteString /\ Len(b \o a) = Len(a) + Len(b)
        /\ data \in ByteString /\ Len(data) = Len(a) + Len(b) + Len(b) + Len(a)
    BY <2>1, <2>2 DEF ByteString
  <2>4. data = (<<>> \o a) \o (b \o (b \o a)) /\ data = (a \o b) \o (b \o a)
    <3>1. data = (a \o b) \o (b \o a)
      BY <2>1, <2>3, ConcatAssociative DEF ByteString
    <3>2. (a \o b) \o (b \o a) = a \o (b \o (b \o a))
      BY <2>1, <2>3, ConcatAssociative DEF ByteString
    <3>3. <<>> \o a = a
      BY <2>1, ConcatEmptySeq DEF ByteString
    <3> QED BY <3>1, <3>2, <3>3
  <2>5. data = ((a \o b) \o (b \o a)) \o <<>> /\ b \o (b \o a) \in ByteString
    BY <2>1 DEF ByteString
  <2>6. SubSeq(data, 0 + 1, Len(a)) = a
    <3>1. SubSeq((<<>> \o a) \o (b \o (b \o a)), Len(<<>>) + 1, Len(<<>>) + Len(a)) = a
      BY <2>1, <2>5, Piece
    <3> QED BY <2>2, <2>4, <3>1
  <2>7. SubSeq(data, Len(a) + 1, Len(a) + Len(b)) = b
    BY <2>1, <2>3, <2>4, Piece
  <2>8. SubSeq(data, Len(a) + Len(b) + 1, Len(data)) = b \o a
    <3>1. SubSeq(((a \o b) \o (b \o a)) \o <<>>, Len(a \o b) + 1, Len(a \o b) + Len(b \o a)) = b \o a
      BY <2>1, <2>3, Piece
    <3>2. Len(a \o b) + Len(b \o a) = Len(data)
      BY <2>2, <2>3
    <3> QED BY <2>3, <2>5, <3>1, <3>2
  <2> HIDE DEF data
  <2>9. \A i \in 1 .. 3 : SubSeq(data, offs[i] + 1, End(i)) \in Pieces(data, offs)
    <3> SUFFICES ASSUME NEW i \in 1 .. 3
                 PROVE  SubSeq(data, offs[i] + 1, End(i)) \in Pieces(data, offs)
      OBVIOUS
    <3> HIDE DEF offs
    <3>1. i \in 1 .. Len(offs)
      BY <2>2
    <3> QED BY <3>1, Zenon DEF Pieces
  <2>10. /\ offs[1] = 0 /\ offs[2] = Len(a) /\ offs[3] = Len(a) + Len(b)
         /\ End(1) = offs[2] /\ End(2) = offs[3] /\ End(3) = Len(data)
    BY <2>2
  <2>11. a \in Pieces(data, offs) /\ b \in Pieces(data, offs) /\ b \o a \in Pieces(data, offs)
    <3> HIDE DEF offs, End
    <3>1. 1 \in 1 .. 3 /\ 2 \in 1 .. 3 /\ 3 \in 1 .. 3
      OBVIOUS
    <3> QED BY <2>6, <2>7, <2>8, <2>9, <2>10, <3>1
  <2>12. key_may_match(a, f) /\ key_may_match(b, f) /\ key_may_match(b \o a, f)
    BY <2>2, <2>11, FilterMatches
  <2> HIDE DEF f, offs
  <2> SUFFICES ASSUME NEW i \in 1 .. 3
               PROVE  key_may_match(<<a, b, b \o a>>[i], f)
    BY DEF f, data, offs
  <2>13. i = 1 \/ i = 2 \/ i = 3
    OBVIOUS
  <2>14. <<a, b, b \o a>>[1] = a /\ <<a, b, b \o a>>[2] = b /\ <<a, b, b \o a>>[3] = b \o a
    OBVIOUS
  <2> QED BY <2>12, <2>13, <2>14
<1> QED BY <1>1, PairsOfKeys, PTL

-----------------------------------------------------------------------------

\* The operators of BlockHandle are those of the lemmas about varints.
LEMMA VarintsAre ==
    /\ \A n : encode_var[n] = VarBytes(VarBase, n)
    /\ \A bytes, from : VarEnd(bytes, from) = EndOf(VarBase, VarMaxLen, bytes, from)
    /\ \A bytes, end : VarsBefore(bytes, end) = ValuesTo(VarBase, bytes, end)
    /\ \A bytes, from : VarValue(bytes, from) = ReadNumber(VarBase, VarMaxLen, bytes, from)
    /\ \A h : encode_to(h) = HandleBytes(VarBase, h)
<1>1. encode_var = Varint(VarBase)
  BY Zenon DEF encode_var, Varint, VarStep
<1>2. \A n : encode_var[n] = VarBytes(VarBase, n)
  BY <1>1 DEF VarBytes
<1>3. \A bytes, from : VarEnd(bytes, from) = EndOf(VarBase, VarMaxLen, bytes, from)
  BY Zenon DEF VarEnd, EndOf
<1>4. \A bytes, end : VarsBefore(bytes, end) = ValuesTo(VarBase, bytes, end)
  BY Zenon DEF VarsBefore, ValuesTo
<1>5. \A bytes, from : VarValue(bytes, from) = ReadNumber(VarBase, VarMaxLen, bytes, from)
  BY <1>3, <1>4, Zenon DEF VarValue, ReadNumber, ValueAt
<1>6. \A h : encode_to(h) = HandleBytes(VarBase, h)
  <2> HIDE DEF encode_var
  <2> SUFFICES ASSUME NEW h PROVE encode_to(h) = HandleBytes(VarBase, h)
    OBVIOUS
  <2>1. encode_var[h.offset] = VarBytes(VarBase, h.offset) /\ encode_var[h.size] = VarBytes(VarBase, h.size)
    BY <1>2
  <2> QED BY <2>1, Zenon DEF encode_to, HandleBytes
<1> QED BY <1>2, <1>3, <1>4, <1>5, <1>6

\* What a string spells is a number.
LEMMA SpeltIsNat ==
    ASSUME NEW s \in Seq(Nat)
    PROVE  Spelt(s) \in Nat
<1>1. CASE s = <<>>
  BY <1>1 DEF Spelt
<1>2. CASE s # <<>>
  <2>1. Len(s) \in Nat /\ 1 \in 1 .. Len(s) /\ \A i \in 1 .. Len(s) : s[i] \in Nat
    BY <1>2
  <2>2. VarBase \in Nat \ {0, 1}
    BY BlockHandleAssumption
  <2>3. ValuesTo(VarBase, s, Len(s))[1] \in Nat
    BY <2>1, <2>2, ValuesToIs
  <2> QED BY <1>2, <2>3, VarintsAre DEF Spelt
<1> QED BY <1>1, <1>2

\* Footer::decode returns what Footer::encode was given: for footers with room
\* for four varints (4 * 10 <= 40 in the code).
LEMMA FooterIsRead ==
    ASSUME 4 * VarMaxLen <= FooterLength,
           NEW m, IsHandle(m), Fits(VarBase, VarMaxLen, m),
           NEW x, IsHandle(x), Fits(VarBase, VarMaxLen, x)
    PROVE  LET f == [meta_index |-> m, index |-> x]
           IN  /\ ~EncodeFooterPanics(f)
               /\ ~DecodeFooterPanics(EncodeFooter(f))
               /\ DecodeFooter(EncodeFooter(f)) =
                     [meta_index |-> [offset |-> m.offset, size |-> m.size],
                      index      |-> [offset |-> x.offset, size |-> x.size]]
<1> DEFINE f == [meta_index |-> m, index |-> x]
           s == HandleBytes(VarBase, m) \o HandleBytes(VarBase, x)
           bytes == FooterBytes(FooterLength, s, MAGIC_FOOTER_ENCODED)
           at == 1 + HandleLen(VarBase, m)
<1>1. VarBase \in Nat \ {0, 1} /\ VarMaxLen \in Nat /\ FooterLength \in Nat
  BY BlockHandleAssumption
<1>2. IsMagic(MAGIC_FOOTER_ENCODED)
  BY DEF MAGIC_FOOTER_ENCODED, IsMagic
<1>3. /\ Len(s) \in Nat /\ Len(s) <= FooterLength
      /\ IsBytes(bytes) /\ Len(bytes) = FooterLength + 8
      /\ SubSeq(bytes, FooterLength + 1, Len(bytes)) = MAGIC_FOOTER_ENCODED
      /\ Occurs(HandleBytes(VarBase, m), bytes, 1)
      /\ Occurs(HandleBytes(VarBase, x), bytes, at)
  BY <1>1, <1>2, FooterReads
<1>4. encode_to(f.meta_index) \o encode_to(f.index) = s
  BY VarintsAre
<1>5. EncodeFooter(f) = bytes
  BY <1>4 DEF EncodeFooter, FooterBytes, FullFooterLength
<1>6. ~EncodeFooterPanics(f)
  BY <1>1, <1>3, <1>4 DEF EncodeFooterPanics, FullFooterLength
<1> HIDE DEF bytes, s, f
<1>7. at \in Nat \ {0}
  BY <1>1, HandleBytesIs
<1>8. /\ ~DecodePanics(bytes, 1) /\ AfterHandle(bytes, 1) = at
      /\ decode(bytes, 1) = [offset |-> m.offset, size |-> m.size]
  BY <1>1, <1>3, HandleReads, VarintsAre DEF DecodePanics, AfterHandle, decode
<1>9. /\ ~DecodePanics(bytes, at)
      /\ decode(bytes, at) = [offset |-> x.offset, size |-> x.size]
  BY <1>1, <1>3, <1>7, HandleReads, VarintsAre DEF DecodePanics, decode
<1> HIDE DEF at
<1>10. IndexBegins(bytes) = at
  BY <1>8 DEF IndexBegins
<1>11. ~DecodeFooterPanics(bytes)
  BY <1>1, <1>3, <1>8, <1>9, <1>10 DEF DecodeFooterPanics, FullFooterLength
<1>12. DecodeFooter(bytes) = [meta_index |-> [offset |-> m.offset, size |-> m.size],
                              index      |-> [offset |-> x.offset, size |-> x.size]]
  BY <1>8, <1>9, <1>10 DEF DecodeFooter
<1> QED BY <1>5, <1>6, <1>11, <1>12 DEF f

\* Footers are read as they were written, with numbers of any size that a varint
\* can have, if there is room for four of the longest varints (4 * 10 <= 40 in
\* the code).
THEOREM FootersAreRead ==
    ASSUME 4 * VarMaxLen <= FooterLength
    PROVE  Spec => []FooterRoundTrip
<1>1. ASSUME IsPair PROVE FooterRoundTrip
  <2> SUFFICES ASSUME NEW m \in Numbers, NEW n \in Numbers,
                      Spelt(a) \in Numbers, Spelt(b) \in Numbers
               PROVE  LET f == [meta_index |-> [offset |-> m, size |-> Spelt(a)],
                                index      |-> [offset |-> Spelt(b), size |-> n]]
                      IN  /\ ~EncodeFooterPanics(f)
                          /\ ~DecodeFooterPanics(EncodeFooter(f))
                          /\ DecodeFooter(EncodeFooter(f)) = f
    BY DEF FooterRoundTrip
  <2>1. a \in Seq(Nat) /\ b \in Seq(Nat)
    BY <1>1, MaxByteAssumption DEF IsPair, ByteString, Byte
  <2> DEFINE last == [i \in 1 .. VarMaxLen |-> VarBase - 1]
  <2>2. last \in Seq(Nat)
    BY BlockHandleAssumption
  <2>3. Spelt(a) \in Nat /\ Spelt(b) \in Nat /\ Spelt(last) \in Nat
    BY <2>1, <2>2, SpeltIsNat
  <2>4. \A k \in Numbers : k \in Nat /\ VarLen(VarBase, k) <= VarMaxLen
    BY <2>3, VarintsAre DEF Numbers, VarLen
  <2> DEFINE h == [offset |-> m, size |-> Spelt(a)]
             x == [offset |-> Spelt(b), size |-> n]
  <2>5. IsHandle(h) /\ Fits(VarBase, VarMaxLen, h) /\ IsHandle(x) /\ Fits(VarBase, VarMaxLen, x)
    BY <2>4 DEF IsHandle, Fits
  <2> QED BY <2>5, FooterIsRead
<1> QED BY <1>1, PairsOfKeys, PTL
=============================================================================
