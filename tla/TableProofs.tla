----------------------------- MODULE TableProofs -----------------------------
(***************************************************************************)
(* The file that TableBuilder leaves, for tables of any number of blocks:  *)
(* every handle in it leads to the block it was written for, a footer is   *)
(* there only when everything is, and hence what Table::new opens is       *)
(* complete.                                                               *)
(***************************************************************************)
EXTENDS Table, TableBuilderProofs

\* FlattenSeq, with the number of sequences to flatten as a parameter.
FlatTo(s, n) == CHOOSE f : f = [i \in 1 .. n |-> IF i = 1 THEN s[i] ELSE f[i - 1] \o s[i]]

Joined(s, n) == IF n = 0 THEN <<>> ELSE FlatTo(s, n)[n]

\* FlatTo is what its definition says.
LEMMA FlatToIs ==
    ASSUME NEW s, NEW n \in Nat
    PROVE  \A i \in 1 .. n :
              FlatTo(s, n)[i] = IF i = 1 THEN s[i] ELSE FlatTo(s, n)[i - 1] \o s[i]
<1> DEFINE Step(f, i) == IF i = 1 THEN s[i] ELSE f[i - 1] \o s[i]
           Flat(f, k) == f = [i \in 1 .. k |-> Step(f, i)]
           Exists(k) == \E f : Flat(f, k)
           S == {k \in Nat : ~Exists(k)}
<1>1. S = {}
  <2> HIDE DEF Exists
  <2>1. SUFFICES ASSUME S # {} PROVE FALSE
    OBVIOUS
  <2>2. PICK k \in S : \A m \in S : k <= m
    BY <2>1, LeastElement
  <2>3. k \in Nat /\ ~Exists(k)
    OBVIOUS
  <2>4. CASE k = 0
    <3> DEFINE f == [i \in 1 .. 0 |-> <<>>]
    <3>1. f = [i \in 1 .. 0 |-> Step(f, i)]
      <4>1. 1 .. 0 = {}
        OBVIOUS
      <4> QED BY <4>1
    <3> QED BY <2>3, <2>4, <3>1, Zenon DEF Exists
  <2>5. CASE k > 0
    <3>1. k - 1 \in Nat /\ k - 1 \notin S
      BY <2>2, <2>3, <2>5
    <3>2. PICK g : Flat(g, k - 1)
      <4>1. Exists(k - 1)
        BY <3>1
      <4> QED BY <4>1 DEF Exists
    <3> HIDE DEF S
    <3>3. DOMAIN g = 1 .. k - 1 /\ \A i \in 1 .. k - 1 : g[i] = Step(g, i)
      BY <3>2
    <3> DEFINE d == Step(g, k)
               f == [i \in 1 .. k |-> IF i = k THEN d ELSE g[i]]
    <3>4. \A i \in 1 .. k : i = k \/ (i # k /\ i \in 1 .. k - 1)
      BY <2>3
    <3> HIDE DEF d
    <3>5. DOMAIN f = 1 .. k /\ f[k] = d /\ \A i \in 1 .. k - 1 : f[i] = g[i]
      BY <2>3, <2>5
    <3>6. f = [i \in 1 .. k |-> f[i]]
      OBVIOUS
    <3> HIDE DEF f
    <3>7. ASSUME NEW i \in 1 .. k PROVE f[i] = Step(f, i)
      <4>1. i # 1 => i - 1 \in 1 .. k - 1
        BY <2>3
      <4>2. i # 1 => f[i - 1] = g[i - 1]
        BY <3>5, <4>1
      <4>3. CASE i = k
        BY <3>5, <4>2, <4>3 DEF d
      <4>4. CASE i # k
        BY <3>3, <3>4, <3>5, <4>2, <4>4
      <4> QED BY <4>3, <4>4
    <3>8. f = [i \in 1 .. k |-> Step(f, i)]
      BY <3>6, <3>7
    <3> QED BY <2>3, <3>8, Zenon DEF Exists
  <2> QED BY <2>3, <2>4, <2>5
<1>2. PICK f : Flat(f, n)
  BY <1>1
<1> DEFINE u == FlatTo(s, n)
<1>3. u = [i \in 1 .. n |-> Step(u, i)]
  BY <1>2, Zenon DEF FlatTo
<1> HIDE DEF u
<1>4. \A i \in 1 .. n : u[i] = Step(u, i)
  BY <1>3
<1> QED BY <1>4 DEF u

\* It does not depend on what comes later.
LEMMA FlatToAgrees ==
    ASSUME NEW n \in Nat, NEW m \in Nat, n <= m, NEW s, NEW t,
           \A i \in 1 .. n : s[i] = t[i]
    PROVE  \A i \in 1 .. n : FlatTo(s, n)[i] = FlatTo(t, m)[i]
<1> DEFINE u == FlatTo(s, n)
           v == FlatTo(t, m)
           S == {i \in 1 .. n : u[i] # v[i]}
<1>1. /\ \A i \in 1 .. n : u[i] = IF i = 1 THEN s[i] ELSE u[i - 1] \o s[i]
      /\ \A i \in 1 .. m : v[i] = IF i = 1 THEN t[i] ELSE v[i - 1] \o t[i]
  BY FlatToIs
<1> HIDE DEF u, v
<1>2. SUFFICES ASSUME S # {} PROVE FALSE
  BY DEF u, v
<1>3. S \in SUBSET Nat
  OBVIOUS
<1>4. PICK i \in S : \A j \in S : i <= j
  BY <1>2, <1>3, LeastElement
<1>5. i \in 1 .. n /\ i \in 1 .. m /\ u[i] # v[i] /\ s[i] = t[i]
  OBVIOUS
<1>6. i # 1 => i - 1 \in 1 .. n /\ i - 1 \notin S
  BY <1>4, <1>5
<1>7. i # 1 => u[i - 1] = v[i - 1]
  BY <1>6
<1> HIDE DEF S
<1> QED BY <1>1, <1>5, <1>7

\* One sequence more.
LEMMA JoinedMore ==
    ASSUME NEW n \in Nat, NEW s, NEW t, \A i \in 1 .. n : s[i] = t[i], NEW S,
           \A i \in 1 .. n + 1 : t[i] \in Seq(S), Joined(s, n) \in Seq(S)
    PROVE  Joined(t, n + 1) = Joined(s, n) \o t[n + 1] /\ Joined(t, n + 1) \in Seq(S)
<1>1. n + 1 \in 1 .. n + 1 /\ t[n + 1] \in Seq(S)
  OBVIOUS
<1>2. FlatTo(t, n + 1)[n + 1] =
         IF n + 1 = 1 THEN t[n + 1] ELSE FlatTo(t, n + 1)[n + 1 - 1] \o t[n + 1]
  BY <1>1, FlatToIs
<1>3. CASE n = 0
  <2>1. Joined(t, n + 1) = t[n + 1] /\ Joined(s, n) = <<>>
    BY <1>2, <1>3 DEF Joined
  <2>2. <<>> \o t[n + 1] = t[n + 1]
    BY <1>1, ConcatEmptySeq
  <2> QED BY <1>1, <2>1, <2>2
<1>4. CASE n > 0
  <2>1. n \in 1 .. n /\ n + 1 - 1 = n /\ n + 1 # 1 /\ n # 0 /\ n + 1 # 0
    BY <1>4
  <2>2. FlatTo(s, n)[n] = FlatTo(t, n + 1)[n]
    BY <2>1, FlatToAgrees
  <2>3. Joined(t, n + 1) = Joined(s, n) \o t[n + 1]
    BY <1>2, <2>1, <2>2 DEF Joined
  <2> QED BY <1>1, <2>3, ConcatProperties
<1> QED BY <1>3, <1>4

\* FlattenSeq is that.
LEMMA FlattenIs ==
    ASSUME NEW n \in Nat, NEW t, NEW s, IsSeq(s), Len(s) = n, \A i \in 1 .. n : s[i] = t[i]
    PROVE  FlattenSeq(s) = Joined(t, n)
<1>1. CASE n = 0
  <2>1. s = <<>>
    BY <1>1, EmptySeq DEF IsSeq
  <2> QED BY <1>1, <2>1 DEF FlattenSeq, Joined
<1>2. CASE n > 0
  <2>1. n \in 1 .. n /\ n # 0
    BY <1>2
  <2>2. FlattenSeq(s) = FlatTo(s, n)[n]
    BY <2>1, Zenon DEF FlattenSeq, FlatTo
  <2>3. FlatTo(s, n)[n] = FlatTo(t, n)[n]
    BY <2>1, FlatToAgrees
  <2> QED BY <2>1, <2>2, <2>3 DEF Joined
<1> QED BY <1>1, <1>2

-----------------------------------------------------------------------------

\* usize::MAX, which no offset in a file exceeds
MaxOffset == 18446744073709551615

\* An offset takes at most ten bytes.
LEMMA TenBytes ==
    ASSUME NEW n \in Nat, n <= MaxOffset
    PROVE  VarLen(128, n) <= 10
<1> DEFINE Below(max, len) == \A m \in Nat : m <= max => VarLen(128, m) \in Nat /\ VarLen(128, m) <= len
<1>1. Below(1125899906842623, 8)
  BY EightBytes
<1>2. Below(144115188075855871, 9)
  <2>1. \A m \in Nat : m <= 144115188075855871 => m \div 128 \in Nat /\ m \div 128 <= 1125899906842623
    OBVIOUS
  <2> QED BY <1>1, <2>1, OneByteMore
<1>3. Below(18446744073709551615, 10)
  <2>1. \A m \in Nat : m <= 18446744073709551615 => m \div 128 \in Nat /\ m \div 128 <= 144115188075855871
    OBVIOUS
  <2> QED BY <1>2, <2>1, OneByteMore
<1> QED BY <1>3 DEF MaxOffset

\* A handle within a file that is no longer than that.
Small(h) == IsHandle(h) /\ h.offset <= MaxOffset /\ h.size <= MaxOffset

\* BlockHandle::decode of an entry of index or metaindex.
LEMMA EntryReads ==
    ASSUME NEW h, Small(h), NEW e, e.val = HandleBytes(128, h)
    PROVE  HandleOf(e) = [offset |-> h.offset, size |-> h.size]
<1>1. 128 \in Nat \ {0, 1} /\ 10 \in Nat /\ 1 \in Nat \ {0}
  OBVIOUS
<1>2. IsHandle(h) /\ Fits(128, 10, h)
  BY TenBytes DEF Small, IsHandle, Fits
<1> DEFINE bytes == HandleBytes(128, h)
<1>3. IsBytes(bytes) /\ Occurs(bytes, bytes, 1)
  BY <1>1, <1>2, HandleBytesIs DEF IsBytes
<1>4. /\ ReadNumber(128, 10, bytes, 1) = h.offset
      /\ ReadNumber(128, 10, bytes, EndOf(128, 10, bytes, 1) + 1) = h.size
  BY <1>1, <1>2, <1>3, HandleReads
<1> HIDE DEF bytes
<1>5. HandleOf(e) = H!decode(bytes, 1)
  BY DEF HandleOf, bytes
<1>6. H!decode(bytes, 1) = [offset |-> h.offset, size |-> h.size]
  BY <1>4, HandlesAre DEF H!decode
<1> QED BY <1>5, <1>6

\* The footer with these handles.
FooterOf(m, x) == FooterBytes(40, HandleBytes(128, m) \o HandleBytes(128, x), H!MAGIC_FOOTER_ENCODED)

\* Footer::encode writes it.
LEMMA FooterOfIs ==
    ASSUME NEW m, NEW x
    PROVE  H!EncodeFooter([meta_index |-> m, index |-> x]) = FooterOf(m, x)
<1> DEFINE f == [meta_index |-> m, index |-> x]
<1>1. H!encode_to(f.meta_index) \o H!encode_to(f.index) = HandleBytes(128, m) \o HandleBytes(128, x)
  BY HandlesAre
<1> QED BY <1>1 DEF H!EncodeFooter, FooterOf, FooterBytes, H!FullFooterLength

\* Footer::decode of a footer that was written.
LEMMA FooterOfReads ==
    ASSUME NEW m, Small(m), NEW x, Small(x)
    PROVE  /\ ~H!DecodeFooterPanics(FooterOf(m, x))
           /\ H!DecodeFooter(FooterOf(m, x)) =
                 [meta_index |-> [offset |-> m.offset, size |-> m.size],
                  index      |-> [offset |-> x.offset, size |-> x.size]]
<1>1. 128 \in Nat \ {0, 1} /\ 10 \in Nat /\ 40 \in Nat /\ 4 * 10 <= 40 /\ 1 \in Nat \ {0}
  OBVIOUS
<1>2. IsMagic(H!MAGIC_FOOTER_ENCODED)
  BY DEF H!MAGIC_FOOTER_ENCODED, IsMagic
<1>3. IsHandle(m) /\ Fits(128, 10, m) /\ IsHandle(x) /\ Fits(128, 10, x)
  BY TenBytes DEF Small, IsHandle, Fits
<1> DEFINE bytes == FooterOf(m, x)
           at == 1 + HandleLen(128, m)
<1>4. /\ IsBytes(bytes) /\ Len(bytes) = 40 + 8
      /\ SubSeq(bytes, 40 + 1, Len(bytes)) = H!MAGIC_FOOTER_ENCODED
      /\ Occurs(HandleBytes(128, m), bytes, 1) /\ Occurs(HandleBytes(128, x), bytes, at)
  <2>1. PICK B \in Nat \ {0, 1}, L \in Nat, F \in Nat : B = 128 /\ L = 10 /\ F = 40
    BY <1>1
  <2>2. 4 * L <= F /\ Fits(B, L, m) /\ Fits(B, L, x)
    BY <1>3, <2>1
  <2> DEFINE f == FooterBytes(F, HandleBytes(B, m) \o HandleBytes(B, x), H!MAGIC_FOOTER_ENCODED)
  <2>3. /\ IsBytes(f) /\ Len(f) = F + 8
        /\ SubSeq(f, F + 1, Len(f)) = H!MAGIC_FOOTER_ENCODED
        /\ Occurs(HandleBytes(B, m), f, 1) /\ Occurs(HandleBytes(B, x), f, 1 + HandleLen(B, m))
    BY <1>2, <1>3, <2>2, FooterReads
  <2>4. f = bytes
    BY <2>1 DEF FooterOf
  <2> HIDE DEF f, bytes
  <2> QED BY <2>1, <2>3, <2>4
<1> HIDE DEF bytes
<1>5. at \in Nat \ {0}
  BY <1>1, <1>3, HandleBytesIs
<1>6. /\ ~H!DecodePanics(bytes, 1) /\ H!AfterHandle(bytes, 1) = at
      /\ H!decode(bytes, 1) = [offset |-> m.offset, size |-> m.size]
  <2> DEFINE mid == EndOf(128, 10, bytes, 1)
             end == EndOf(128, 10, bytes, mid + 1)
  <2>1. /\ mid # 0 /\ end # 0 /\ end + 1 = at
        /\ ReadNumber(128, 10, bytes, 1) = m.offset
        /\ ReadNumber(128, 10, bytes, mid + 1) = m.size
    BY <1>1, <1>3, <1>4, HandleReads
  <2>2. H!VarEnd(bytes, 1) = mid /\ H!VarEnd(bytes, mid + 1) = end
    BY HandlesAre
  <2> HIDE DEF mid, end
  <2> QED BY <2>1, <2>2, HandlesAre DEF H!DecodePanics, H!AfterHandle, H!decode
<1>7. /\ ~H!DecodePanics(bytes, at)
      /\ H!decode(bytes, at) = [offset |-> x.offset, size |-> x.size]
  <2> HIDE DEF at
  <2> DEFINE mid == EndOf(128, 10, bytes, at)
             end == EndOf(128, 10, bytes, mid + 1)
  <2>1. /\ mid # 0 /\ end # 0
        /\ ReadNumber(128, 10, bytes, at) = x.offset
        /\ ReadNumber(128, 10, bytes, mid + 1) = x.size
    BY <1>1, <1>3, <1>4, <1>5, HandleReads
  <2>2. H!VarEnd(bytes, at) = mid /\ H!VarEnd(bytes, mid + 1) = end
    BY HandlesAre
  <2> HIDE DEF mid, end
  <2> QED BY <2>1, <2>2, HandlesAre DEF H!DecodePanics, H!decode
<1> HIDE DEF at
<1>8. H!IndexBegins(bytes) = at
  BY <1>6 DEF H!IndexBegins
<1>9. ~H!DecodeFooterPanics(bytes)
  BY <1>4, <1>6, <1>7, <1>8 DEF H!DecodeFooterPanics, H!FullFooterLength
<1>10. H!DecodeFooter(bytes) = [meta_index |-> [offset |-> m.offset, size |-> m.size],
                                index      |-> [offset |-> x.offset, size |-> x.size]]
  BY <1>6, <1>7, <1>8 DEF H!DecodeFooter
<1> QED BY <1>9, <1>10 DEF bytes


-----------------------------------------------------------------------------

\* The handle of a segment.
Where(seg) == [offset |-> seg.at, size |-> seg.len]

\* Segments lie one after the other in a file of this length, ...
Placed(dst, end) ==
    /\ \A i \in 1 .. Len(dst) :
          dst[i].at \in Nat /\ dst[i].len \in Nat /\ dst[i].at + dst[i].len <= end
    /\ \A i, j \in 1 .. Len(dst) : i < j => dst[i].at < dst[j].at

\* ... and a further one begins at a place of its own.
Room(dst, end) == \A i \in 1 .. Len(dst) : dst[i].at < end

\* h is the handle of a segment of this kind.
Points(dst, h, kind) == \E i \in 1 .. Len(dst) : dst[i].kind = kind /\ h = Where(dst[i])

NoKind(dst, kind) == \A i \in 1 .. Len(dst) : dst[i].kind # kind

\* Entry i of the index has the handle of the ith segment, a data block.
Entered(dst, kvs) ==
    /\ IsSeq(kvs)
    /\ \A i \in 1 .. Len(kvs) :
          /\ i \in 1 .. Len(dst) /\ dst[i].kind = "data"
          /\ kvs[i].val = HandleBytes(128, Where(dst[i]))

\* A metaindex block has the handle of the filter block.
MetaLinked(dst) ==
    \A i \in 1 .. Len(dst) : dst[i].kind = "metaindex" =>
        \E h : Points(dst, h, "filter") /\ dst[i].body[1].val = HandleBytes(128, h)

\* The entries of the first n segments.
BodyOf(dst) == [i \in 1 .. Len(dst) |-> dst[i].body]

EntriesOf(dst, n) == Joined(BodyOf(dst), n)

\* A segment is appended: what is known of a file stays.
LEMMA AppendFile ==
    ASSUME NEW dst, IsSeq(dst), NEW seg
    PROVE  LET d == Append(dst, seg)
           IN  /\ IsSeq(d) /\ Len(dst) \in Nat /\ Len(d) = Len(dst) + 1
               /\ \A h, kind : Points(dst, h, kind) => Points(d, h, kind)
               /\ Points(d, Where(seg), seg.kind)
               /\ \A kind : NoKind(dst, kind) /\ seg.kind # kind => NoKind(d, kind)
               /\ \A kvs : Entered(dst, kvs) => Entered(d, kvs)
<1> DEFINE d == Append(dst, seg)
           n == Len(dst)
<1>1. /\ IsSeq(d) /\ n \in Nat /\ Len(d) = n + 1 /\ d[n + 1] = seg
      /\ \A i \in 1 .. n : d[i] = dst[i]
  BY AppendAny
<1> HIDE DEF d
<1>2. /\ n + 1 \in 1 .. n + 1
      /\ \A i \in 1 .. n : i \in 1 .. n + 1
      /\ \A i \in 1 .. n + 1 : i \in 1 .. n \/ i = n + 1
  BY <1>1
<1>3. ASSUME NEW h, NEW kind, Points(dst, h, kind) PROVE Points(d, h, kind)
  <2>1. PICK i \in 1 .. n : dst[i].kind = kind /\ h = Where(dst[i])
    BY <1>3 DEF Points
  <2>2. d[i] = dst[i] /\ i \in 1 .. Len(d)
    BY <1>1, <1>2
  <2> QED BY <2>1, <2>2 DEF Points
<1>4. Points(d, Where(seg), seg.kind)
  BY <1>1, <1>2 DEF Points
<1>5. \A kind : NoKind(dst, kind) /\ seg.kind # kind => NoKind(d, kind)
  BY <1>1, <1>2 DEF NoKind
<1>6. ASSUME NEW kvs, Entered(dst, kvs) PROVE Entered(d, kvs)
  <2>1. ASSUME NEW i \in 1 .. Len(kvs)
        PROVE  /\ i \in 1 .. Len(d) /\ d[i].kind = "data"
               /\ kvs[i].val = HandleBytes(128, Where(d[i]))
    <3>1. /\ i \in 1 .. n /\ dst[i].kind = "data"
          /\ kvs[i].val = HandleBytes(128, Where(dst[i]))
      BY <1>6 DEF Entered
    <3>2. d[i] = dst[i] /\ i \in 1 .. Len(d)
      BY <1>1, <1>2, <3>1
    <3> QED BY <3>1, <3>2
  <2> QED BY <1>6, <2>1 DEF Entered
<1> QED BY <1>1, <1>3, <1>4, <1>5, <1>6 DEF d

\* A segment at the end of the file.
LEMMA AppendPlaced ==
    ASSUME NEW dst, IsSeq(dst), NEW end \in Nat, Placed(dst, end), Room(dst, end),
           NEW seg, seg.at = end, seg.len \in Nat,
           NEW new \in Nat, end + seg.len <= new
    PROVE  Placed(Append(dst, seg), new) /\ (end < new => Room(Append(dst, seg), new))
<1> DEFINE d == Append(dst, seg)
           n == Len(dst)
<1>1. /\ n \in Nat /\ Len(d) = n + 1 /\ d[n + 1] = seg
      /\ \A i \in 1 .. n : d[i] = dst[i]
  BY AppendAny
<1> HIDE DEF d
<1>2. \A i \in 1 .. n + 1 : i \in 1 .. n \/ i = n + 1
  BY <1>1
<1>3. \A i \in 1 .. n : /\ dst[i].at \in Nat /\ dst[i].len \in Nat
                        /\ dst[i].at + dst[i].len <= end /\ dst[i].at < end
  BY DEF Placed, Room
<1>4. ASSUME NEW i \in 1 .. n + 1
      PROVE  /\ d[i].at \in Nat /\ d[i].len \in Nat /\ d[i].at + d[i].len <= new
             /\ end < new => d[i].at < new
  <2>1. CASE i \in 1 .. n
    <3>1. /\ d[i] = dst[i] /\ dst[i].at \in Nat /\ dst[i].len \in Nat
          /\ dst[i].at + dst[i].len <= end /\ dst[i].at < end
      BY <1>1, <1>3, <2>1
    <3> QED BY <3>1
  <2>2. CASE i = n + 1
    BY <1>1, <2>2
  <2> QED BY <1>2, <2>1, <2>2
<1>5. ASSUME NEW i \in 1 .. n + 1, NEW j \in 1 .. n + 1, i < j PROVE d[i].at < d[j].at
  <2>1. i \in 1 .. n
    BY <1>1, <1>5
  <2>2. d[i] = dst[i]
    BY <1>1, <2>1
  <2>3. CASE j \in 1 .. n
    BY <1>1, <1>5, <2>1, <2>2, <2>3 DEF Placed
  <2>4. CASE j = n + 1
    BY <1>1, <1>3, <2>1, <2>2, <2>4
  <2> QED BY <1>2, <2>3, <2>4
<1>6. Placed(d, new)
  BY <1>1, <1>4, <1>5 DEF Placed
<1>7. end < new => Room(d, new)
  BY <1>1, <1>4 DEF Room
<1> QED BY <1>6, <1>7 DEF d

\* A segment that is no metaindex block, or one with the filter block's handle.
LEMMA AppendLinked ==
    ASSUME NEW dst, IsSeq(dst), MetaLinked(dst), NEW seg,
           seg.kind = "metaindex" =>
               \E h : Points(dst, h, "filter") /\ seg.body[1].val = HandleBytes(128, h)
    PROVE  MetaLinked(Append(dst, seg))
<1> DEFINE d == Append(dst, seg)
           n == Len(dst)
<1>1. /\ n \in Nat /\ Len(d) = n + 1 /\ d[n + 1] = seg
      /\ \A i \in 1 .. n : d[i] = dst[i]
  BY AppendAny
<1>2. \A h : Points(dst, h, "filter") => Points(d, h, "filter")
  BY AppendFile
<1> HIDE DEF d
<1> SUFFICES ASSUME NEW i \in 1 .. n + 1, d[i].kind = "metaindex"
             PROVE  \E h : Points(d, h, "filter") /\ d[i].body[1].val = HandleBytes(128, h)
  BY <1>1 DEF MetaLinked, d
<1>3. CASE i \in 1 .. n
  <2>1. d[i] = dst[i]
    BY <1>1, <1>3
  <2>2. PICK h : Points(dst, h, "filter") /\ dst[i].body[1].val = HandleBytes(128, h)
    BY <1>3, <2>1 DEF MetaLinked
  <2> QED BY <1>2, <2>1, <2>2
<1>4. CASE i = n + 1
  BY <1>1, <1>2, <1>4
<1>5. i \in 1 .. n \/ i = n + 1
  BY <1>1
<1> QED BY <1>3, <1>4, <1>5

\* The entries of the segments before it are the same.
LEMMA AppendEntries ==
    ASSUME NEW dst, IsSeq(dst), NEW seg, NEW n \in Nat, n <= Len(dst)
    PROVE  EntriesOf(Append(dst, seg), n) = EntriesOf(dst, n)
<1> DEFINE d == Append(dst, seg)
           s == BodyOf(dst)
           t == BodyOf(d)
<1>1. /\ Len(dst) \in Nat /\ Len(d) = Len(dst) + 1
      /\ \A i \in 1 .. Len(dst) : d[i] = dst[i]
  BY AppendAny
<1> HIDE DEF d
<1>2. \A i \in 1 .. n : i \in 1 .. Len(dst) /\ i \in 1 .. Len(d)
  BY <1>1
<1>3. \A i \in 1 .. n : s[i] = t[i]
  BY <1>1, <1>2 DEF BodyOf
<1> HIDE DEF s, t
<1>4. CASE n = 0
  BY <1>4 DEF EntriesOf, Joined
<1>5. CASE n > 0
  <2>1. n \in 1 .. n /\ n <= n /\ n # 0
    BY <1>5
  <2>2. FlatTo(s, n)[n] = FlatTo(t, n)[n]
    BY <1>3, <2>1, FlatToAgrees
  <2> QED BY <2>1, <2>2 DEF EntriesOf, Joined, s, t, d
<1> QED BY <1>4, <1>5

\* With the entries of a data block that is appended to n others.
LEMMA AppendBlock ==
    ASSUME NEW dst, IsSeq(dst), NEW seg, NEW S, seg.body \in Seq(S),
           \A i \in 1 .. Len(dst) : dst[i].body \in Seq(S),
           EntriesOf(dst, Len(dst)) \in Seq(S)
    PROVE  /\ EntriesOf(Append(dst, seg), Len(dst) + 1) = EntriesOf(dst, Len(dst)) \o seg.body
           /\ EntriesOf(Append(dst, seg), Len(dst) + 1) \in Seq(S)
<1> DEFINE d == Append(dst, seg)
           n == Len(dst)
           s == BodyOf(dst)
           t == BodyOf(d)
<1>1. /\ n \in Nat /\ Len(d) = n + 1 /\ d[n + 1] = seg
      /\ \A i \in 1 .. n : d[i] = dst[i]
  BY AppendAny
<1> HIDE DEF d
<1>2. /\ n + 1 \in 1 .. n + 1
      /\ \A i \in 1 .. n : i \in 1 .. n + 1
      /\ \A i \in 1 .. n + 1 : i \in 1 .. n \/ i = n + 1
  BY <1>1
<1>3. \A i \in 1 .. n : s[i] = t[i]
  BY <1>1, <1>2 DEF BodyOf
<1>4. t[n + 1] = seg.body
  BY <1>1, <1>2 DEF BodyOf
<1>5. \A i \in 1 .. n + 1 : t[i] \in Seq(S)
  BY <1>1, <1>2 DEF BodyOf
<1>6. Joined(s, n) \in Seq(S)
  BY DEF EntriesOf
<1> HIDE DEF s, t, n
<1>7. Joined(t, n + 1) = Joined(s, n) \o t[n + 1] /\ Joined(t, n + 1) \in Seq(S)
  BY <1>1, <1>3, <1>5, <1>6, JoinedMore
<1> QED BY <1>4, <1>7 DEF EntriesOf, s, t, d, n

-----------------------------------------------------------------------------

HandleKinds == {"filter", "metaindex", "index"}

\* What holds of a file at any time.
Sound(t) ==
    /\ t.written \in Nat /\ Placed(t.dst, t.written)
    /\ Entered(t.dst, t.index_block.kvs) /\ MetaLinked(t.dst)

\* What holds as long as segments follow.
Writable(t) ==
    /\ Room(t.dst, t.written) /\ NoKind(t.dst, "torn") /\ NoKind(t.dst, "footer")
    /\ DOMAIN t.handles = HandleKinds
    /\ Holds(t.index_block.bb, t.index_block.kvs)
    /\ t.filter_block.bytes \in Nat /\ IsSeq(t.filter_block.filter_offsets)

\* The entries that the index leads to.
Indexed(t) == EntriesOf(t.dst, Len(t.index_block.kvs))

\* What was added is in the file or in the block that is being filled.
Kept(t, hist) ==
    Indexed(t) \in Seq(KeyValue) /\ Indexed(t) \o t.data_block.kvs = hist

\* h is the handle of the index block.
IndexAt(dst, kvs, h) ==
    \E x \in 1 .. Len(dst) : dst[x].kind = "index" /\ dst[x].body = kvs /\ h = Where(dst[x])

\* The footer comes last and has the handles of the metaindex and the index.
Ends(dst, kvs) ==
    /\ Len(dst) > 0 /\ dst[Len(dst)].kind = "footer"
    /\ \E m, x : /\ Points(dst, m, "metaindex") /\ IndexAt(dst, kvs, x)
                 /\ \A i \in 1 .. Len(dst) :
                       dst[i].kind = "footer" => dst[i].body = FooterOf(m, x)

\* The inductive invariant of the file, on top of Inv.
FileInv ==
    /\ Sound(tb)
    /\ pc \in Working => Writable(tb)
    /\ pc \notin Working \union {"finished"} => NoKind(tb.dst, "footer")
    /\ pc = "open" => Kept(tb, added)
    /\ pc \in {"filter", "metaindex", "index", "footer", "finished"} => Indexed(tb) = added
    /\ pc \in {"metaindex", "index", "footer"} => Points(tb.dst, tb.handles["filter"], "filter")
    /\ pc \in {"index", "footer"} => Points(tb.dst, tb.handles["metaindex"], "metaindex")
    /\ pc = "footer" => IndexAt(tb.dst, tb.index_block.kvs, tb.handles["index"])
    /\ pc = "finished" => NoKind(tb.dst, "torn") /\ Ends(tb.dst, tb.index_block.kvs)

\* The fields of a segment that the destination takes as a whole.
LEMMA WholeSegment ==
    ASSUME NEW t, NEW kind, NEW ct, NEW len, NEW body
    PROVE  LET s == Segment(t, kind, len, ct, len, body)
           IN  s.kind = kind /\ s.at = t.written /\ s.len = len /\ s.body = body
BY DEF Segment

\* A segment is written: the file is sound, and has room if anything was taken.
LEMMA SegmentSound ==
    ASSUME NEW t, IsSeq(t.dst), Sound(t), Room(t.dst, t.written),
           NEW seg, seg.at = t.written, seg.len \in Nat,
           seg.kind = "metaindex" =>
               \E h : Points(t.dst, h, "filter") /\ seg.body[1].val = HandleBytes(128, h),
           NEW w, w.dst = Append(t.dst, seg), w.written \in Nat,
           t.written + seg.len <= w.written, w.index_block = t.index_block
    PROVE  Sound(w) /\ (t.written < w.written => Room(w.dst, w.written))
<1>1. /\ t.written \in Nat /\ Placed(t.dst, t.written)
      /\ Entered(t.dst, t.index_block.kvs) /\ MetaLinked(t.dst)
  BY DEF Sound
<1>2. Placed(w.dst, w.written) /\ (t.written < w.written => Room(w.dst, w.written))
  BY <1>1, AppendPlaced
<1>3. MetaLinked(w.dst)
  BY <1>1, AppendLinked
<1>4. Entered(w.dst, w.index_block.kvs)
  BY <1>1, AppendFile
<1> QED BY <1>2, <1>3, <1>4 DEF Sound

\* A data block and its entry in the index.
LEMMA EnteredMore ==
    ASSUME NEW dst, IsSeq(dst), NEW kvs, Entered(dst, kvs), Len(kvs) = Len(dst),
           NEW seg, seg.kind = "data", NEW e, e.val = HandleBytes(128, Where(seg))
    PROVE  Entered(Append(dst, seg), Append(kvs, e)) /\ Len(Append(kvs, e)) = Len(dst) + 1
<1> DEFINE d == Append(dst, seg)
           c == Append(kvs, e)
           n == Len(dst)
<1>1. n \in Nat /\ Len(d) = n + 1 /\ d[n + 1] = seg /\ Entered(d, kvs)
  BY AppendAny, AppendFile
<1>2. IsSeq(c) /\ Len(c) = n + 1 /\ c[n + 1] = e /\ \A i \in 1 .. n : c[i] = kvs[i]
  BY AppendAny DEF Entered
<1> HIDE DEF d, c
<1>3. ASSUME NEW i \in 1 .. n + 1
      PROVE  /\ i \in 1 .. Len(d) /\ d[i].kind = "data"
             /\ c[i].val = HandleBytes(128, Where(d[i]))
  <2>1. CASE i \in 1 .. n
    BY <1>1, <1>2, <2>1 DEF Entered
  <2>2. CASE i = n + 1
    BY <1>1, <1>2, <2>2
  <2>3. i \in 1 .. n \/ i = n + 1
    BY <1>1
  <2> QED BY <2>1, <2>2, <2>3
<1>4. Entered(d, c)
  BY <1>2, <1>3 DEF Entered
<1> QED BY <1>2, <1>4 DEF d, c

\* start_block adds to the bytes of the filters, if at all.
LEMMA FilterBytes ==
    ASSUME NEW fb, fb.bytes \in Nat, NEW n
    PROVE  GenerateFilters(fb, n).bytes \in Nat
<1> DEFINE made == n > 0 /\ ~NoKeyBytes(fb)
<1>1. GenerateFilters(fb, n).bytes = IF made THEN fb.bytes + FilterLen ELSE fb.bytes
  BY DEF GenerateFilters
<1> HIDE DEF made
<1> QED BY <1>1, FilterAssumption

\* write_data_block: the block is in the file, where its entry in the index says.
LEMMA WriteFile ==
    ASSUME BlockRestartInterval > 0, ~ShortWrites, NEW t, Filling(t), t.written = t.offset,
           Sound(t), Writable(t), NEW hist, Kept(t, hist),
           NEW n \in Accepted(StoredLen(t.data_block)), NEW next \in ByteString,
           ~WriteDataBlockPanics(t, next)
    PROVE  LET w == WriteDataBlock(t, n, next)
           IN  /\ Filling(w) /\ w.data_block = NewBlock
               /\ w.written = w.offset
               /\ Sound(w) /\ Writable(w)
               /\ Indexed(w) \in Seq(KeyValue) /\ Indexed(w) = hist
<1> DEFINE w   == WriteDataBlock(t, n, next)
           d   == Len(t.dst)
           len == StoredLen(t.data_block)
           kvs == t.data_block.kvs
           seg == Segment(t, "data", len, ctype, len, kvs)
           sep == Separator(t, next)
           hnd == HandleBytes(128, Where(seg))
           e   == [key |-> sep, val |-> hnd]
           ix  == t.index_block
<1>1. /\ DOMAIN t = TableFields /\ IsSeq(t.dst) /\ d \in Nat
      /\ Holds(t.data_block.bb, kvs) /\ kvs \in Seq(KeyValue)
      /\ Len(ix.kvs) = d
      /\ \A i \in 1 .. d : t.dst[i].body \in Seq(KeyValue)
      /\ t.data_block.bb.last_key \in ByteString
  BY DEF Filling, IsSeq, Holds, IndexHolds, BuilderType
<1>2. n = len /\ len \in Nat
  BY <1>1, StoredLenIsNat DEF Accepted
<1>3. seg.kind = "data" /\ seg.at = t.written /\ seg.len = len /\ seg.body = kvs
  BY WholeSegment
<1>4. HandleFor(t, len) = Where(seg)
  BY <1>3 DEF HandleFor, Where
<1>5. /\ w.dst = Append(t.dst, seg)
      /\ w.written = t.written + len + TrailerLen
      /\ w.offset = t.offset + len + TrailerLen
      /\ w.index_block = AddTo(ix, sep, hnd)
      /\ w.filter_block = start_block(t.filter_block, t.offset + len + TrailerLen)
      /\ w.handles = t.handles
  BY <1>1, <1>2, <1>4, WriteDataBlockFields, HandlesAre
<1>6. Filling(w) /\ w.data_block = NewBlock
  BY WriteHolds
<1>7. sep \in ByteString /\ ~AddPanics(ix.bb, sep)
  BY <1>1, SeparatorIsKey DEF Separator, WriteDataBlockPanics
<1>8. e.val = hnd /\ w.index_block.bb = AddEntry(ix.bb, sep, hnd) /\ w.index_block.kvs = Append(ix.kvs, e)
  BY <1>5 DEF AddTo
<1> HIDE DEF w, d, len, kvs, seg, sep
<1>9. hnd \in Seq(Nat)
  <2>1. IsHandle(Where(seg))
    BY <1>2, <1>3 DEF IsHandle, Where, Sound
  <2>2. 128 \in Nat \ {0, 1}
    OBVIOUS
  <2> QED BY <2>1, <2>2, HandleBytesIs
<1> HIDE DEF hnd
<1>10. Holds(w.index_block.bb, w.index_block.kvs)
  BY <1>7, <1>8, <1>9, AddHolds DEF Writable
<1> HIDE DEF e
<1>11. Entered(w.dst, w.index_block.kvs) /\ Len(w.index_block.kvs) = d + 1
  <2>1. Entered(t.dst, ix.kvs) /\ Len(ix.kvs) = Len(t.dst) /\ d = Len(t.dst)
    BY <1>1 DEF Sound, d
  <2>2. e.val = HandleBytes(128, Where(seg))
    BY <1>8 DEF hnd
  <2> HIDE DEF ix
  <2>3. /\ Entered(Append(t.dst, seg), Append(ix.kvs, e))
        /\ Len(Append(ix.kvs, e)) = Len(t.dst) + 1
    BY <1>1, <1>3, <2>1, <2>2, EnteredMore
  <2> QED BY <1>5, <1>8, <2>1, <2>3
<1>12. w.written \in Nat /\ t.written + len <= w.written /\ t.written < w.written
  BY <1>2, <1>5 DEF TrailerLen, Sound
<1>13. Placed(w.dst, w.written) /\ Room(w.dst, w.written)
  BY <1>1, <1>2, <1>3, <1>5, <1>12, AppendPlaced DEF Sound, Writable
<1>14. MetaLinked(w.dst)
  BY <1>1, <1>3, <1>5, AppendLinked DEF Sound
<1>15. NoKind(w.dst, "torn") /\ NoKind(w.dst, "footer")
  BY <1>1, <1>3, <1>5, AppendFile DEF Writable
<1>16. w.filter_block.bytes \in Nat
  BY <1>5, FilterBytes DEF start_block, Writable
<1>17. IsSeq(w.filter_block.filter_offsets)
  BY <1>6 DEF Filling, FiltersUpTo
<1>18. Sound(w) /\ Writable(w)
  BY <1>5, <1>10, <1>11, <1>12, <1>13, <1>14, <1>15, <1>16, <1>17 DEF Sound, Writable
<1>19. EntriesOf(t.dst, d) \in Seq(KeyValue) /\ EntriesOf(t.dst, d) \o kvs = hist
  BY <1>1 DEF Kept, Indexed, kvs
<1>20. /\ EntriesOf(Append(t.dst, seg), d + 1) = EntriesOf(t.dst, d) \o seg.body
       /\ EntriesOf(Append(t.dst, seg), d + 1) \in Seq(KeyValue)
  <2>1. seg.body \in Seq(KeyValue)
    BY <1>1, <1>3
  <2> QED BY <1>1, <1>19, <2>1, AppendBlock DEF d
<1>21. Indexed(w) \in Seq(KeyValue) /\ Indexed(w) = hist
  BY <1>3, <1>5, <1>11, <1>19, <1>20 DEF Indexed
<1>22. w.written = w.offset
  BY <1>5
<1> QED BY <1>6, <1>18, <1>21, <1>22 DEF w

-----------------------------------------------------------------------------

\* An empty file.
LEMMA FileInit ==
    ASSUME BlockRestartInterval > 0, Init
    PROVE  FileInv
<1>1. /\ pc = "open" /\ added = <<>>
      /\ tb.dst = <<>> /\ tb.written = 0
      /\ tb.data_block = NewBlock /\ tb.index_block = NewBlock
      /\ tb.filter_block = NewFilterBuilder /\ DOMAIN tb.handles = HandleKinds
  BY DEF Init, NewTable, HandleKinds
<1>2. Len(tb.dst) = 0 /\ 1 .. 0 = {} /\ 0 \in Nat
  BY <1>1
<1>3. NewBlock.bb = NewBlockBuilder /\ NewBlock.kvs = <<>> /\ Len(<<>>) = 0
  BY DEF NewBlock
<1>4. Sound(tb)
  BY <1>1, <1>2, <1>3, EmptyIsSeq DEF Sound, Placed, Entered, MetaLinked
<1>5. NewFilterBuilder.bytes = 0 /\ NewFilterBuilder.filter_offsets = <<>>
  BY DEF NewFilterBuilder
<1>6. Writable(tb)
  BY <1>1, <1>2, <1>3, <1>5, EmptyIsSeq, NewHolds DEF Writable, Room, NoKind
<1>7. Indexed(tb) = <<>>
  BY <1>1, <1>3 DEF Indexed, EntriesOf, Joined
<1>8. Kept(tb, added)
  <2>1. <<>> \in Seq(KeyValue) /\ <<>> \o <<>> = <<>>
    BY ConcatEmptySeq
  <2> QED BY <1>1, <1>3, <1>7, <2>1 DEF Kept
<1> QED BY <1>1, <1>4, <1>6, <1>8 DEF FileInv, Working

\* An element more on the right of a concatenation.
LEMMA AppendConcat ==
    ASSUME NEW S, NEW a \in Seq(S), NEW b \in Seq(S), NEW e \in S
    PROVE  a \o Append(b, e) = Append(a \o b, e)
OBVIOUS

\* The end of add() changes nothing in the file.
LEMMA AddPairFile ==
    ASSUME NEW t, Filling(t), Sound(t), Writable(t), Kept(t, added), pc = "open",
           NEW k \in Keys, NEW v \in Vals, AddPair(t, k, v)
    PROVE  FileInv'
<1>1. DOMAIN t = TableFields /\ t.data_block.kvs \in Seq(KeyValue)
  BY DEF Filling, Holds
<1>2. CASE AddPanics(t.data_block.bb, k)
  <2>1. pc' = "panic" /\ tb' = [t EXCEPT !.filter_block = add_key(@, k)]
    BY <1>2 DEF AddPair
  <2>2. tb'.dst = t.dst /\ tb'.written = t.written /\ tb'.index_block = t.index_block
    BY <1>1, <2>1 DEF TableFields
  <2> QED BY <2>1, <2>2 DEF FileInv, Sound, Writable, Working
<1>3. CASE ~AddPanics(t.data_block.bb, k)
  <2> DEFINE w   == Paired(t, k, v)
             kvs == t.data_block.kvs
             kv  == [key |-> k, val |-> v]
             old == Indexed(t)
  <2>1. pc' = "open" /\ tb' = w /\ added' = Append(added, kv)
    BY <1>3 DEF AddPair, Paired
  <2>2. /\ w.dst = t.dst /\ w.written = t.written /\ w.index_block = t.index_block
        /\ w.handles = t.handles /\ w.filter_block = add_key(t.filter_block, k)
        /\ w.data_block = AddTo(t.data_block, k, v)
    BY <1>1, PairedFields
  <2>3. w.data_block.kvs = Append(kvs, kv)
    BY <2>2 DEF AddTo
  <2>4. kv \in KeyValue
    BY TableAssumption DEF KeyValue
  <2>5. DOMAIN t.filter_block = FilterFields
    BY DEF Filling, FiltersUpTo
  <2>6. /\ w.filter_block.bytes = t.filter_block.bytes
        /\ w.filter_block.filter_offsets = t.filter_block.filter_offsets
    BY <2>2, <2>5 DEF add_key, FilterFields
  <2>7. Indexed(w) = old /\ old \in Seq(KeyValue) /\ old \o kvs = added
    BY <2>2 DEF Indexed, Kept
  <2> HIDE DEF w, kv, kvs, old
  <2>8. old \o Append(kvs, kv) = Append(old \o kvs, kv)
    <3>1. kvs \in Seq(KeyValue)
      BY <1>1 DEF kvs
    <3>2. old \in Seq(KeyValue)
      BY <2>7
    <3> QED BY <2>4, <3>1, <3>2, AppendConcat
  <2>9. Kept(w, added')
    BY <2>1, <2>3, <2>7, <2>8 DEF Kept
  <2>10. Sound(w) /\ Writable(w)
    BY <2>2, <2>6 DEF Sound, Writable
  <2> QED BY <2>1, <2>9, <2>10 DEF FileInv, Working
<1> QED BY <1>2, <1>3

\* A panic inside write_data_block may leave a block without its entry in the
\* index.
LEMMA DiesFile ==
    ASSUME ~ShortWrites, Filling(tb), Sound(tb), Writable(tb),
           NEW k, DiesInWrite(tb, k), pc' = "panic"
    PROVE  FileInv'
<1> DEFINE len   == StoredLen(tb.data_block)
           taken == [tb EXCEPT !.data_block = NewBlock]
           kvs   == tb.data_block.kvs
           last  == tb.data_block.bb.last_key
           seg   == Segment(taken, "data", len, ctype, len, kvs)
<1>1. DOMAIN tb = TableFields /\ IsSeq(tb.dst) /\ len \in Nat
  BY StoredLenIsNat DEF Filling
<1>2. /\ DOMAIN taken = TableFields /\ taken.dst = tb.dst /\ taken.written = tb.written
      /\ taken.index_block = tb.index_block
  BY <1>1 DEF TableFields
<1>3. seg.kind = "data" /\ seg.at = taken.written /\ seg.len = len
  <2> HIDE DEF taken, len
  <2> QED BY WholeSegment
<1>4. CASE SepPanics(last, k)
  <2>1. tb' = taken
    BY <1>4 DEF DiesInWrite
  <2> HIDE DEF taken
  <2> QED BY <1>2, <2>1 DEF FileInv, Sound, Writable, Working
<1>5. CASE ~SepPanics(last, k)
  <2>1. PICK n \in Accepted(len) :
           tb' = [WriteBlock(taken, "data", n, ctype, len, kvs) EXCEPT
                     !.prev_block_last_key = last]
    BY <1>5 DEF DiesInWrite
  <2>2. n = len
    BY <2>1 DEF Accepted
  <2> DEFINE u == WriteBlock(taken, "data", len, ctype, len, kvs)
  <2> HIDE DEF taken, len
  <2>3. /\ DOMAIN u = TableFields /\ u.dst = Append(taken.dst, seg)
        /\ u.written = taken.written + len + TrailerLen /\ u.index_block = taken.index_block
    BY <1>2, WriteBlockFields
  <2>4. tb' = [u EXCEPT !.prev_block_last_key = last]
    BY <2>1, <2>2
  <2> HIDE DEF u, seg
  <2>5. tb'.dst = u.dst /\ tb'.written = u.written /\ tb'.index_block = u.index_block
    BY <2>3, <2>4 DEF TableFields
  <2>6. tb'.written \in Nat /\ tb.written + len <= tb'.written
    BY <1>1, <1>2, <2>3, <2>5 DEF TrailerLen, Sound
  <2>7. Sound(tb')
    BY <1>1, <1>2, <1>3, <2>3, <2>5, <2>6, SegmentSound DEF Writable
  <2>8. NoKind(Append(tb.dst, seg), "footer")
    BY <1>1, <1>3, AppendFile DEF Writable
  <2>9. tb'.dst = Append(tb.dst, seg)
    BY <1>2, <2>3, <2>5
  <2> QED BY <2>7, <2>8, <2>9 DEF FileInv, Working
<1> QED BY <1>4, <1>5

\* add() keeps the file.
LEMMA AddFile ==
    ASSUME BlockRestartInterval > 0, ~ShortWrites, Inv, FileInv,
           NEW k \in Keys, NEW v \in Vals, add(k, v)
    PROVE  FileInv'
<1>1. /\ pc = "open" /\ Filling(tb) /\ tb.written = tb.offset
      /\ Sound(tb) /\ Writable(tb) /\ Kept(tb, added)
  BY DEF add, Inv, FileInv, Working
<1>2. k \in ByteString
  BY TableAssumption
<1>3. CASE BelowPrevBlock(tb, k)
  <2>1. pc' = "panic" /\ tb' = tb
    BY <1>3 DEF add
  <2> QED BY <1>1, <2>1 DEF FileInv, Writable, Working
<1>4. CASE ~BelowPrevBlock(tb, k) /\ ~BlockFull(tb)
  <2>1. AddPair(tb, k, v)
    BY <1>4 DEF add
  <2> QED BY <1>1, <2>1, AddPairFile
<1>5. CASE ~BelowPrevBlock(tb, k) /\ BlockFull(tb) /\ WriteDataBlockPanics(tb, k)
  <2>1. pc' = "panic" /\ DiesInWrite(tb, k)
    BY <1>5 DEF add
  <2> QED BY <1>1, <2>1, DiesFile
<1>6. CASE ~BelowPrevBlock(tb, k) /\ BlockFull(tb) /\ ~WriteDataBlockPanics(tb, k)
  <2>1. PICK n \in Accepted(StoredLen(tb.data_block)) : AddPair(WriteDataBlock(tb, n, k), k, v)
    BY <1>6 DEF add
  <2> DEFINE w == WriteDataBlock(tb, n, k)
  <2>2. /\ Filling(w) /\ w.data_block = NewBlock /\ Sound(w) /\ Writable(w)
        /\ Indexed(w) \in Seq(KeyValue) /\ Indexed(w) = added
    BY <1>1, <1>2, <1>6, WriteFile
  <2>3. AddPair(w, k, v)
    BY <2>1
  <2> HIDE DEF w
  <2>4. w.data_block.kvs = <<>>
    BY <2>2 DEF NewBlock
  <2>5. Kept(w, added)
    BY <2>2, <2>4, ConcatEmptySeq DEF Kept
  <2> QED BY <1>1, <2>2, <2>3, <2>5, AddPairFile
<1> QED BY <1>3, <1>4, <1>5, <1>6

\* A refused write leaves a torn segment at the end.
LEMMA TornFile ==
    ASSUME Sound(tb), Writable(tb), DOMAIN tb = TableFields, IsSeq(tb.dst),
           NEW n \in Nat, NEW body, pc' \in {"broken", "failed"},
           tb'.dst = Append(tb.dst, Segment(tb, "torn", n, ctype, n, body)),
           tb'.written = tb.written + n, tb'.index_block = tb.index_block
    PROVE  FileInv'
<1> DEFINE seg == Segment(tb, "torn", n, ctype, n, body)
<1>1. seg.kind = "torn" /\ seg.at = tb.written /\ seg.len = n
  BY WholeSegment
<1> HIDE DEF seg
<1>2. tb'.dst = Append(tb.dst, seg)
  BY DEF seg
<1>3. tb'.written \in Nat /\ tb.written + n <= tb'.written
  BY DEF Sound
<1>4. Sound(tb')
  BY <1>1, <1>2, <1>3, SegmentSound DEF Writable
<1>5. NoKind(Append(tb.dst, seg), "footer")
  BY <1>1, AppendFile DEF Writable
<1> QED BY <1>2, <1>4, <1>5 DEF FileInv, Working

\* The first step of finish() brings the last entries to the file.
LEMMA FinishFile ==
    ASSUME BlockRestartInterval > 0, ~ShortWrites, Inv, FileInv, finish
    PROVE  FileInv'
<1> DEFINE past == find_short_succ(tb.data_block.bb.last_key)
<1>1. /\ pc = "open" /\ Filling(tb) /\ tb.written = tb.offset /\ added' = added
      /\ Sound(tb) /\ Writable(tb) /\ Kept(tb, added)
  BY DEF finish, Inv, FileInv, Working
<1>2. /\ tb.data_block.kvs \in Seq(KeyValue) /\ Len(tb.data_block.bb.buffer) = Len(tb.data_block.kvs)
      /\ tb.data_block.bb.last_key \in ByteString
  BY <1>1 DEF Filling, Holds, BuilderType
<1>3. past \in ByteString
  BY <1>2, SuccessorIsKey
<1>4. CASE ~Pending(tb)
  <2>1. pc' = "filter" /\ tb' = tb
    BY <1>4 DEF finish
  <2>2. tb.data_block.kvs = <<>>
    BY <1>2, <1>4, EmptySeq DEF Pending, Entries
  <2>3. Indexed(tb) = added
    BY <1>1, <2>2, ConcatEmptySeq DEF Kept
  <2>4. Indexed(tb)' = Indexed(tb)
    BY <2>1 DEF Indexed
  <2> QED BY <1>1, <2>1, <2>3, <2>4 DEF FileInv, Working
<1>5. CASE Pending(tb) /\ WriteDataBlockPanics(tb, past)
  <2>1. pc' = "panic" /\ DiesInWrite(tb, past)
    BY <1>5 DEF finish
  <2> QED BY <1>1, <2>1, DiesFile
<1>6. CASE Pending(tb) /\ ~WriteDataBlockPanics(tb, past)
  <2>1. /\ pc' = "filter"
        /\ \E n \in Accepted(StoredLen(tb.data_block)) : tb' = WriteDataBlock(tb, n, past)
    BY <1>6 DEF finish
  <2>2. PICK n \in Accepted(StoredLen(tb.data_block)) : tb' = WriteDataBlock(tb, n, past)
    BY <2>1
  <2> HIDE DEF past
  <2>3. Sound(tb') /\ Writable(tb') /\ Indexed(tb') = added
    BY <1>1, <1>3, <1>6, <2>2, WriteFile
  <2> QED BY <1>1, <2>1, <2>3 DEF FileInv, Working
<1> QED BY <1>4, <1>5, <1>6

\* What finish() writes after the data: the segment, its handle and the size of
\* the file.
LEMMA FinishStepFile ==
    ASSUME ~ShortWrites, Inv, FileInv, NEW from \in Working, NEW to, NEW kind \in HandleKinds,
           NEW ct, NEW len \in Nat, NEW body,
           FinishStep(from, to, kind, ct, len, body),
           kind = "metaindex" =>
               \E h : Points(tb.dst, h, "filter") /\ body[1].val = HandleBytes(128, h)
    PROVE  /\ pc = from /\ pc' = to /\ added' = added
           /\ Sound(tb') /\ Writable(tb') /\ Indexed(tb') = Indexed(tb)
           /\ tb'.index_block = tb.index_block
           /\ \A h, k : Points(tb.dst, h, k) => Points(tb'.dst, h, k)
           /\ Points(tb'.dst, tb'.handles[kind], kind)
           /\ IndexAt(tb'.dst, body, tb'.handles[kind]) \/ kind # "index"
           /\ \A k \in HandleKinds : k # kind => tb'.handles[k] = tb.handles[k]
<1> DEFINE stored == Stored(ct, len)
           h == HandleFor(tb, stored)
           u   == WriteBlock(tb, kind, stored, ct, stored, body)
           seg == Segment(tb, kind, stored, ct, stored, body)
<1>1. PICK n \in Accepted(stored) :
         tb' = [WriteBlock(tb, kind, n, ct, stored, body) EXCEPT !.handles[kind] = h]
  BY DEF FinishStep
<1>2. /\ DOMAIN tb = TableFields /\ IsSeq(tb.dst) /\ pc = from /\ pc' = to /\ added' = added
      /\ tb.written = tb.offset /\ Sound(tb) /\ Writable(tb)
  BY DEF Inv, FileInv, FinishStep
<1>3. n = stored
  BY <1>1 DEF Accepted
<1>4. stored \in Nat
  BY DEF Stored
<1> HIDE DEF stored
<1>5. /\ DOMAIN u = TableFields /\ u.dst = Append(tb.dst, seg)
      /\ u.written = tb.written + stored + TrailerLen
      /\ u.index_block = tb.index_block /\ u.filter_block = tb.filter_block
      /\ u.handles = tb.handles
  BY <1>2, WriteBlockFields
<1>6. seg.kind = kind /\ seg.at = tb.written /\ seg.len = stored /\ seg.body = body
  BY WholeSegment
<1>7. h = Where(seg)
  BY <1>2, <1>6 DEF HandleFor, Where
<1>8. tb' = [u EXCEPT !.handles[kind] = h]
  BY <1>1, <1>3
<1> HIDE DEF u, seg, h
<1>9. /\ tb'.dst = Append(tb.dst, seg) /\ tb'.written = tb.written + stored + TrailerLen
      /\ tb'.index_block = tb.index_block /\ tb'.filter_block = tb.filter_block
  BY <1>5, <1>8 DEF TableFields
<1>10. tb'.handles = [tb.handles EXCEPT ![kind] = h]
  BY <1>5, <1>8 DEF TableFields
<1>11. DOMAIN tb.handles = HandleKinds
  BY <1>2 DEF Writable
<1>12. /\ DOMAIN tb'.handles = HandleKinds /\ tb'.handles[kind] = h
       /\ \A k \in HandleKinds : k # kind => tb'.handles[k] = tb.handles[k]
  BY <1>10, <1>11
<1>13. tb'.written \in Nat /\ tb.written + stored <= tb'.written /\ tb.written < tb'.written
  BY <1>2, <1>4, <1>9 DEF TrailerLen, Sound
<1>14. Sound(tb') /\ Room(tb'.dst, tb'.written)
  <2>1. Room(tb.dst, tb.written)
    BY <1>2 DEF Writable
  <2>2. seg.kind = "metaindex" =>
           \E g : Points(tb.dst, g, "filter") /\ seg.body[1].val = HandleBytes(128, g)
    BY <1>6
  <2> QED BY <1>2, <1>4, <1>6, <1>9, <1>13, <2>1, <2>2, SegmentSound
<1> DEFINE d == Append(tb.dst, seg)
<1>15. /\ \A g, k : Points(tb.dst, g, k) => Points(d, g, k)
       /\ Points(d, Where(seg), seg.kind)
       /\ \A k : NoKind(tb.dst, k) /\ seg.kind # k => NoKind(d, k)
  BY <1>2, AppendFile
<1>16. tb'.dst = d
  BY <1>9
<1>17. NoKind(d, "torn") /\ NoKind(d, "footer")
  BY <1>2, <1>6, <1>15 DEF Writable, HandleKinds
<1>18. IndexAt(d, body, h) \/ kind # "index"
  <2>1. Len(tb.dst) \in Nat /\ Len(d) = Len(tb.dst) + 1 /\ d[Len(tb.dst) + 1] = seg
    BY <1>2, AppendAny
  <2>2. Len(tb.dst) + 1 \in 1 .. Len(d)
    BY <2>1
  <2> HIDE DEF d
  <2> QED BY <1>6, <1>7, <2>1, <2>2 DEF IndexAt
<1>19. Indexed(tb') = Indexed(tb)
  <2> DEFINE m == Len(tb.index_block.kvs)
  <2>1. m \in Nat /\ m <= Len(tb.dst) /\ Len(tb.dst) \in Nat
    <3>1. IsSeq(tb.index_block.kvs) /\ \A i \in 1 .. m : i \in 1 .. Len(tb.dst)
      BY <1>2 DEF Sound, Entered
    <3>2. m \in Nat /\ Len(tb.dst) \in Nat
      BY <1>2, <3>1 DEF IsSeq
    <3>3. m > 0 => m \in 1 .. m
      BY <3>2
    <3> HIDE DEF m
    <3> QED BY <3>1, <3>2, <3>3
  <2>2. EntriesOf(d, m) = EntriesOf(tb.dst, m)
    BY <1>2, <2>1, AppendEntries
  <2> QED BY <1>9, <2>2 DEF Indexed
<1> HIDE DEF d
<1>20. Writable(tb')
  BY <1>2, <1>9, <1>12, <1>14, <1>16, <1>17 DEF Writable
<1> QED BY <1>2, <1>6, <1>7, <1>9, <1>12, <1>14, <1>15, <1>16, <1>18, <1>19, <1>20

\* The sizes of the blocks that finish() writes are numbers.
LEMMA BlockLenIsNat ==
    ASSUME NEW blk, Holds(blk.bb, blk.kvs)
    PROVE  BlockLen(blk) \in Nat
<1>1. blk.bb.bytes \in Nat /\ blk.bb.restarts \in Seq(Nat)
  BY DEF Holds, BuilderType
<1> QED BY <1>1 DEF BlockLen, SizeEstimate

\* The filter block goes to the file.
LEMMA WriteFilterFile ==
    ASSUME ~ShortWrites, Inv, FileInv, writeFilter
    PROVE  FileInv'
<1> DEFINE r == FinishFilters(tb.filter_block)
           g == IF NoKeyBytes(tb.filter_block) THEN tb.filter_block
                ELSE GenerateFilters(tb.filter_block, 1)
           fb == tb.filter_block
<1>1. FinishStep("filter", "metaindex", "filter", 0, FilterBlockLen(r), r)
  BY DEF writeFilter
<1>2. pc = "filter" /\ Writable(tb) /\ Indexed(tb) = added
  BY <1>1 DEF FinishStep, FileInv, Working
<1>3. fb.bytes \in Nat /\ IsSeq(fb.filter_offsets)
  BY <1>2 DEF Writable
<1>4. g.bytes \in Nat /\ Len(g.filter_offsets) \in Nat
  <2>1. GenerateFilters(fb, 1).bytes \in Nat
    BY <1>3, FilterBytes
  <2>2. Len(fb.filter_offsets) \in Nat
    BY <1>3 DEF IsSeq
  <2>3. Len(GenerateFilters(fb, 1).filter_offsets) \in Nat
    <3>1. PICK S : fb.filter_offsets \in Seq(S)
      BY <1>3 DEF IsSeq
    <3> DEFINE made  == 1 > 0 /\ ~NoKeyBytes(fb)
               after == IF made THEN fb.bytes + FilterLen ELSE fb.bytes
               new   == [i \in 1 .. 1 |-> IF i = 1 THEN fb.bytes ELSE after]
               T     == S \union {fb.bytes, after}
    <3>2. GenerateFilters(fb, 1).filter_offsets = fb.filter_offsets \o new
      BY DEF GenerateFilters
    <3>3. fb.filter_offsets \in Seq(T)
      BY <3>1, SeqMonotonic
    <3>4. new \in Seq(T)
      OBVIOUS
    <3> HIDE DEF T, new
    <3> QED BY <3>2, <3>3, <3>4, ConcatProperties, LenProperties
  <2> QED BY <1>3, <2>1, <2>2, <2>3
<1>5. r.bytes = g.bytes /\ Len(r.offsets) = Len(g.filter_offsets)
  <2>1. \A m \in Nat : Len([i \in 1 .. m |-> AsU32(g.filter_offsets[i])]) = m
    OBVIOUS
  <2> QED BY <1>4, <2>1 DEF FinishFilters
<1> HIDE DEF r, g
<1>6. FilterBlockLen(r) \in Nat
  BY <1>4, <1>5 DEF FilterBlockLen
<1>7. "filter" \in Working /\ "filter" \in HandleKinds
  BY DEF Working, HandleKinds
<1>8. /\ pc' = "metaindex" /\ added' = added
      /\ Sound(tb') /\ Writable(tb') /\ Indexed(tb') = Indexed(tb)
      /\ Points(tb'.dst, tb'.handles["filter"], "filter")
  BY <1>1, <1>6, <1>7, FinishStepFile
<1> QED BY <1>2, <1>8 DEF FileInv, Working

\* The metaindex block, with the handle of the filter block.
LEMMA WriteMetaindexFile ==
    ASSUME BlockRestartInterval > 0, ~ShortWrites, Inv, FileInv, writeMetaindex
    PROVE  FileInv'
<1> DEFINE h    == tb.handles["filter"]
           hnd  == HandleBytes(128, h)
           meta == AddTo(NewBlock, FilterName, hnd)
           e    == [key |-> FilterName, val |-> hnd]
<1>0. CASE HandleTooLong(h)
  <2>1. pc = "metaindex" /\ pc' = "panic" /\ UNCHANGED <<tb, added>>
    BY <1>0 DEF writeMetaindex
  <2> QED BY <2>1 DEF FileInv, Writable, Working
<1> SUFFICES ASSUME ~HandleTooLong(h) PROVE FileInv'
  BY <1>0
<1>1. FinishStep("metaindex", "index", "metaindex", ctype, BlockLen(meta), meta.kvs)
  BY HandlesAre DEF writeMetaindex
<1>2. /\ pc = "metaindex" /\ Sound(tb) /\ Writable(tb) /\ Indexed(tb) = added
      /\ Points(tb.dst, h, "filter")
  BY <1>1 DEF FinishStep, FileInv, Working
<1>3. hnd \in Seq(Nat)
  <2>1. IsHandle(h)
    BY <1>2 DEF Points, Where, Sound, Placed, IsHandle
  <2>2. 128 \in Nat \ {0, 1}
    OBVIOUS
  <2> QED BY <2>1, <2>2, HandleBytesIs
<1>4. NewBlock.bb = NewBlockBuilder /\ NewBlock.kvs = <<>>
  BY DEF NewBlock
<1>5. ~AddPanics(NewBlockBuilder, FilterName)
  BY RestartIntervalAssumption DEF AddPanics, NewBlockBuilder
<1>6. meta.bb = AddEntry(NewBlockBuilder, FilterName, hnd) /\ meta.kvs = Append(<<>>, e) /\ e.val = hnd
  BY <1>4 DEF AddTo
<1> HIDE DEF hnd, meta
<1>7. Holds(meta.bb, meta.kvs)
  BY <1>3, <1>5, <1>6, TableAssumption, NewHolds, AddHolds
<1>8. BlockLen(meta) \in Nat
  BY <1>7, BlockLenIsNat
<1> HIDE DEF e
<1>9. meta.kvs[1] = e
  BY <1>6, EmptyIsSeq, AppendAny
<1>10. meta.kvs[1].val = HandleBytes(128, h)
  BY <1>6, <1>9 DEF hnd
<1>11. "metaindex" \in Working /\ "metaindex" \in HandleKinds /\ "filter" \in HandleKinds
  BY DEF Working, HandleKinds
<1> HIDE DEF h
<1>12. /\ pc' = "index" /\ added' = added
       /\ Sound(tb') /\ Writable(tb') /\ Indexed(tb') = Indexed(tb)
       /\ \A g, k : Points(tb.dst, g, k) => Points(tb'.dst, g, k)
       /\ Points(tb'.dst, tb'.handles["metaindex"], "metaindex")
       /\ \A k \in HandleKinds : k # "metaindex" => tb'.handles[k] = tb.handles[k]
  BY <1>1, <1>2, <1>8, <1>10, <1>11, FinishStepFile
<1>13. Points(tb'.dst, tb'.handles["filter"], "filter")
  BY <1>2, <1>11, <1>12 DEF h
<1> QED BY <1>2, <1>12, <1>13 DEF FileInv, Working

\* The index block.
LEMMA WriteIndexFile ==
    ASSUME ~ShortWrites, Inv, FileInv, writeIndex
    PROVE  FileInv'
<1> DEFINE ix == tb.index_block
<1>1. FinishStep("index", "footer", "index", ctype, BlockLen(ix), ix.kvs)
  BY DEF writeIndex
<1>2. /\ pc = "index" /\ Sound(tb) /\ Writable(tb) /\ Indexed(tb) = added
      /\ Points(tb.dst, tb.handles["filter"], "filter")
      /\ Points(tb.dst, tb.handles["metaindex"], "metaindex")
  BY <1>1 DEF FinishStep, FileInv, Working
<1>3. BlockLen(ix) \in Nat
  BY <1>2, BlockLenIsNat DEF Writable
<1>4. /\ "index" \in Working /\ "index" \in HandleKinds
      /\ "filter" \in HandleKinds /\ "metaindex" \in HandleKinds
  BY DEF Working, HandleKinds
<1>5. /\ pc' = "footer" /\ added' = added /\ tb'.index_block = tb.index_block
      /\ Sound(tb') /\ Writable(tb') /\ Indexed(tb') = Indexed(tb)
      /\ \A g, k : Points(tb.dst, g, k) => Points(tb'.dst, g, k)
      /\ IndexAt(tb'.dst, ix.kvs, tb'.handles["index"])
      /\ \A k \in HandleKinds : k # "index" => tb'.handles[k] = tb.handles[k]
  BY <1>1, <1>3, <1>4, FinishStepFile
<1>6. /\ Points(tb'.dst, tb'.handles["filter"], "filter")
      /\ Points(tb'.dst, tb'.handles["metaindex"], "metaindex")
  BY <1>2, <1>4, <1>5
<1> QED BY <1>2, <1>5, <1>6 DEF FileInv, Working

\* The footer, with the handles of the metaindex and the index.
LEMMA WriteFooterFile ==
    ASSUME ~ShortWrites, Inv, FileInv, writeFooter
    PROVE  FileInv'
<1> DEFINE m    == tb.handles["metaindex"]
           x    == tb.handles["index"]
           kvs  == tb.index_block.kvs
           body == FooterOf(m, x)
           seg  == Segment(tb, "footer", FooterLen, 0, FooterLen, body)
           d    == Append(tb.dst, seg)
<1>1. /\ DOMAIN tb = TableFields /\ IsSeq(tb.dst) /\ pc' = "finished" /\ added' = added
      /\ Sound(tb) /\ Writable(tb) /\ Indexed(tb) = added
      /\ Points(tb.dst, m, "metaindex") /\ IndexAt(tb.dst, kvs, x)
  BY DEF Inv, FileInv, writeFooter, Working
<1>2. H!EncodeFooter([meta_index |-> m, index |-> x]) = body
  BY FooterOfIs
<1>3. /\ seg.kind = "footer" /\ seg.at = tb.written /\ seg.len = FooterLen
      /\ seg.body = body
  <2> HIDE DEF body
  <2> QED BY WholeSegment
<1>4. FooterLen \in Nat /\ FooterLen > 0
  BY DEF FooterLen, H!FullFooterLength
<1> HIDE DEF body
<1>5. PICK n \in Accepted(FooterLen) :
         tb' = [tb EXCEPT !.dst = Append(@, Segment(tb, "footer", n, 0, FooterLen, body)),
                          !.written = @ + n, !.offset = @ + FooterSize(n)]
  BY <1>2 DEF writeFooter
<1>6. n = FooterLen
  BY <1>5 DEF Accepted
<1>7. tb' = [tb EXCEPT !.dst = Append(@, seg), !.written = @ + FooterLen,
                       !.offset = @ + FooterSize(FooterLen)]
  BY <1>5, <1>6
<1> HIDE DEF seg, m, x
<1>8. tb'.dst = d /\ tb'.written = tb.written + FooterLen /\ tb'.index_block = tb.index_block
  BY <1>1, <1>7 DEF TableFields
<1>9. tb'.written \in Nat /\ tb.written + FooterLen <= tb'.written
  BY <1>1, <1>4, <1>8 DEF Sound
<1>10. Sound(tb')
  BY <1>1, <1>3, <1>4, <1>8, <1>9, SegmentSound DEF Writable
<1>11. /\ \A g, k : Points(tb.dst, g, k) => Points(d, g, k)
       /\ \A k : NoKind(tb.dst, k) /\ seg.kind # k => NoKind(d, k)
  BY <1>1, AppendFile
<1>12. /\ Len(tb.dst) \in Nat /\ Len(d) = Len(tb.dst) + 1 /\ d[Len(tb.dst) + 1] = seg
       /\ \A i \in 1 .. Len(tb.dst) : d[i] = tb.dst[i]
  BY <1>1, AppendAny
<1> HIDE DEF d
<1>13. NoKind(d, "torn") /\ Points(d, m, "metaindex")
  BY <1>1, <1>3, <1>11 DEF Writable
<1>14. IndexAt(d, kvs, x)
  <2>1. PICK i \in 1 .. Len(tb.dst) :
           tb.dst[i].kind = "index" /\ tb.dst[i].body = kvs /\ x = Where(tb.dst[i])
    BY <1>1 DEF IndexAt
  <2>2. i \in 1 .. Len(d) /\ d[i] = tb.dst[i]
    BY <1>12
  <2> QED BY <2>1, <2>2 DEF IndexAt
<1>15. ASSUME NEW i \in 1 .. Len(d), d[i].kind = "footer" PROVE d[i].body = body
  <2>1. CASE i \in 1 .. Len(tb.dst)
    BY <1>1, <1>12, <1>15, <2>1 DEF Writable, NoKind
  <2>2. CASE i = Len(tb.dst) + 1
    BY <1>3, <1>12, <2>2
  <2>3. i \in 1 .. Len(tb.dst) \/ i = Len(tb.dst) + 1
    BY <1>12
  <2> QED BY <2>1, <2>2, <2>3
<1>16. Len(d) > 0 /\ d[Len(d)].kind = "footer"
  BY <1>3, <1>12
<1>17. Ends(d, kvs)
  BY <1>13, <1>14, <1>15, <1>16 DEF Ends, body
<1>18. Indexed(tb') = Indexed(tb)
  <2> DEFINE c == Len(kvs)
  <2>1. IsSeq(kvs) /\ \A i \in 1 .. c : i \in 1 .. Len(tb.dst)
    BY <1>1 DEF Sound, Entered
  <2>2. c \in Nat
    BY <2>1 DEF IsSeq
  <2>3. c > 0 => c \in 1 .. c
    BY <2>2
  <2> HIDE DEF c
  <2>4. c <= Len(tb.dst)
    BY <1>12, <2>1, <2>2, <2>3
  <2>5. EntriesOf(d, c) = EntriesOf(tb.dst, c)
    BY <1>1, <2>2, <2>4, AppendEntries DEF d
  <2> QED BY <1>8, <2>5 DEF Indexed, c
<1> QED BY <1>1, <1>8, <1>10, <1>13, <1>17, <1>18 DEF FileInv, Working

\* Every step keeps the invariant about the file.
LEMMA NextFile ==
    ASSUME BlockRestartInterval > 0, ~ShortWrites, Inv, FileInv, [Next]_vars
    PROVE  FileInv'
<1>1. DOMAIN tb = TableFields /\ IsSeq(tb.dst)
  BY DEF Inv
<1>2. ASSUME NEW k \in Keys, NEW v \in Vals, add(k, v) PROVE FileInv'
  BY <1>2, AddFile
<1>3. ASSUME NEW k \in Keys, addFails(k) PROVE FileInv'
  <2>1. PICK n \in {0, StoredLen(tb.data_block)} :
           tb' = [TornBlock(tb, n, tb.data_block.kvs) EXCEPT
                     !.prev_block_last_key = tb.data_block.bb.last_key,
                     !.data_block = NewBlock]
    BY <1>3 DEF addFails
  <2>2. pc = "open" /\ pc' = "broken" /\ Sound(tb) /\ Writable(tb) /\ Filling(tb)
    BY <1>3 DEF addFails, Inv, FileInv, Working
  <2>3. n \in Nat
    BY <2>1, <2>2, StoredLenIsNat DEF Filling
  <2> DEFINE u   == TornBlock(tb, n, tb.data_block.kvs)
             seg == Segment(tb, "torn", n, ctype, n, tb.data_block.kvs)
  <2>4. /\ DOMAIN u = TableFields /\ u.dst = Append(tb.dst, seg)
        /\ u.written = tb.written + n /\ u.index_block = tb.index_block
    BY <1>1, TornBlockFields
  <2> HIDE DEF u
  <2>5. tb'.dst = u.dst /\ tb'.written = u.written /\ tb'.index_block = u.index_block
    BY <2>1, <2>4 DEF TableFields, u
  <2> QED BY <1>1, <2>2, <2>3, <2>4, <2>5, TornFile
<1>4. CASE useBroken
  BY <1>4 DEF useBroken, FileInv, Working
<1>5. CASE finish
  BY <1>5, FinishFile
<1>6. CASE writeFilter
  BY <1>6, WriteFilterFile
<1>7. CASE writeMetaindex
  BY <1>7, WriteMetaindexFile
<1>8. CASE writeIndex
  BY <1>8, WriteIndexFile
<1>9. CASE writeFooter
  BY <1>9, WriteFooterFile
<1>10. CASE finishFails
  <2>1. pc \in Working /\ pc' = "failed" /\ tb' = TornBlock(tb, 0, <<>>)
    BY <1>10 DEF finishFails, Working
  <2>2. Sound(tb) /\ Writable(tb)
    BY <2>1 DEF FileInv
  <2>3. /\ tb'.dst = Append(tb.dst, Segment(tb, "torn", 0, ctype, 0, <<>>))
        /\ tb'.written = tb.written + 0 /\ tb'.index_block = tb.index_block
    BY <1>1, <2>1, TornBlockFields
  <2>4. 0 \in Nat
    OBVIOUS
  <2> QED BY <1>1, <2>1, <2>2, <2>3, <2>4, TornFile
<1>11. CASE UNCHANGED vars
  BY <1>11 DEF FileInv, vars, Indexed
<1> QED BY <1>2, <1>3, <1>4, <1>5, <1>6, <1>7, <1>8, <1>9, <1>10, <1>11 DEF Next, Finishing

\* The invariant of the file: every entry of the index, the metaindex and the
\* footer has the handle of the segment it was written for, and until there is a
\* footer what was added is in the blocks of the index and the block being filled.
THEOREM FileInvHolds ==
    ASSUME BlockRestartInterval > 0, ~ShortWrites
    PROVE  Spec => []FileInv
<1>1. Init => FileInv
  BY FileInit
<1>2. Inv /\ FileInv /\ [Next]_vars => FileInv'
  BY NextFile
<1> QED BY <1>1, <1>2, InvHolds, PTL DEF Spec

-----------------------------------------------------------------------------

\* The handle of a segment can be written in ten bytes a number.
LEMMA SmallWhere ==
    ASSUME NEW dst, NEW end \in Nat, Placed(dst, end), end <= MaxOffset, NEW i \in 1 .. Len(dst)
    PROVE  /\ Small(Where(dst[i]))
           /\ Where(dst[i]).offset = dst[i].at /\ Where(dst[i]).size = dst[i].len
<1> DEFINE a == dst[i].at
           l == dst[i].len
<1>1. a \in Nat /\ l \in Nat /\ a + l <= end
  BY DEF Placed
<1>2. Where(dst[i]).offset = a /\ Where(dst[i]).size = l
  BY DEF Where
<1>3. MaxOffset \in Nat
  BY DEF MaxOffset
<1> HIDE DEF a, l
<1>4. a <= MaxOffset /\ l <= MaxOffset
  BY <1>1, <1>3
<1> QED BY <1>1, <1>2, <1>4 DEF Small, IsHandle, a, l

\* An entry with the handle of a segment leads to it.
LEMMA EntryResolves ==
    ASSUME NEW dst, NEW end \in Nat, Placed(dst, end), end <= MaxOffset,
           NEW i \in 1 .. Len(dst), NEW e, e.val = HandleBytes(128, Where(dst[i]))
    PROVE  HandleOf(e) = [offset |-> dst[i].at, size |-> dst[i].len]
<1>1. /\ Small(Where(dst[i]))
      /\ Where(dst[i]).offset = dst[i].at /\ Where(dst[i]).size = dst[i].len
  BY SmallWhere
<1> QED BY <1>1, EntryReads

\* The file leads from one block to the next, if it is not longer than an offset
\* can say.
LEMMA FileResolves ==
    ASSUME FileInv, tb.written <= MaxOffset
    PROVE  HandlesResolve
<1>1. /\ tb.written \in Nat /\ Placed(tb.dst, tb.written)
      /\ Entered(tb.dst, tb.index_block.kvs) /\ MetaLinked(tb.dst)
  BY DEF FileInv, Sound
<1>2. ASSUME NEW i \in 1 .. Len(tb.index_block.kvs)
      PROVE  Resolves("data", HandleOf(tb.index_block.kvs[i]))
  <2> DEFINE e == tb.index_block.kvs[i]
  <2>1. i \in 1 .. Len(tb.dst) /\ tb.dst[i].kind = "data" /\ e.val = HandleBytes(128, Where(tb.dst[i]))
    BY <1>1 DEF Entered
  <2> HIDE DEF e
  <2>2. HandleOf(e) = [offset |-> tb.dst[i].at, size |-> tb.dst[i].len]
    BY <1>1, <2>1, EntryResolves
  <2> QED BY <2>1, <2>2 DEF Resolves, e
<1>3. ASSUME NEW i \in 1 .. Len(tb.dst), tb.dst[i].kind = "metaindex"
      PROVE  Resolves("filter", HandleOf(tb.dst[i].body[1]))
  <2> DEFINE e == tb.dst[i].body[1]
  <2>1. PICK h : Points(tb.dst, h, "filter") /\ e.val = HandleBytes(128, h)
    BY <1>1, <1>3 DEF MetaLinked
  <2>2. PICK j \in 1 .. Len(tb.dst) : tb.dst[j].kind = "filter" /\ h = Where(tb.dst[j])
    BY <2>1 DEF Points
  <2> HIDE DEF e
  <2>3. HandleOf(e) = [offset |-> tb.dst[j].at, size |-> tb.dst[j].len]
    BY <1>1, <2>1, <2>2, EntryResolves
  <2> QED BY <2>2, <2>3 DEF Resolves, e
<1>4. ASSUME NEW i \in 1 .. Len(tb.dst), tb.dst[i].kind = "footer"
      PROVE  LET f == H!DecodeFooter(tb.dst[i].body)
             IN  /\ ~H!DecodeFooterPanics(tb.dst[i].body)
                 /\ Resolves("metaindex", f.meta_index) /\ Resolves("index", f.index)
  <2>1. pc = "finished"
    BY <1>4 DEF FileInv, Writable, NoKind
  <2>2. PICK m, x : /\ Points(tb.dst, m, "metaindex") /\ IndexAt(tb.dst, tb.index_block.kvs, x)
                    /\ tb.dst[i].body = FooterOf(m, x)
    BY <1>4, <2>1 DEF FileInv, Ends
  <2>3. PICK j \in 1 .. Len(tb.dst) : tb.dst[j].kind = "metaindex" /\ m = Where(tb.dst[j])
    BY <2>2 DEF Points
  <2>4. PICK l \in 1 .. Len(tb.dst) : tb.dst[l].kind = "index" /\ x = Where(tb.dst[l])
    BY <2>2 DEF IndexAt
  <2>5. /\ Small(m) /\ m.offset = tb.dst[j].at /\ m.size = tb.dst[j].len
        /\ Small(x) /\ x.offset = tb.dst[l].at /\ x.size = tb.dst[l].len
    BY <1>1, <2>3, <2>4, SmallWhere
  <2> DEFINE f == H!DecodeFooter(tb.dst[i].body)
  <2>6. /\ ~H!DecodeFooterPanics(tb.dst[i].body)
        /\ f = [meta_index |-> [offset |-> m.offset, size |-> m.size],
                index      |-> [offset |-> x.offset, size |-> x.size]]
    BY <2>2, <2>5, FooterOfReads
  <2> HIDE DEF f
  <2>7. f.meta_index = [offset |-> m.offset, size |-> m.size] /\ f.index = [offset |-> x.offset, size |-> x.size]
    BY <2>6
  <2>8. Resolves("metaindex", f.meta_index)
    BY <2>3, <2>5, <2>7 DEF Resolves
  <2>9. Resolves("index", f.index)
    BY <2>4, <2>5, <2>7 DEF Resolves
  <2> QED BY <2>6, <2>8, <2>9 DEF f
<1> QED BY <1>2, <1>3, <1>4 DEF HandlesResolve

\* table_builder.rs, write_block and finish(): in a file of any number of blocks,
\* finished or not, every handle leads to a whole block of the kind it was
\* written for, and the footer can be read.  Files whose length is not a usize,
\* in which the varints of a handle need not fit a footer, do not exist; if the
\* destination takes less than it was given, later handles are off.
THEOREM HandlesAlwaysResolve ==
    ASSUME BlockRestartInterval > 0, ~ShortWrites
    PROVE  Spec => [](tb.written <= MaxOffset => HandlesResolve)
<1>1. FileInv => (tb.written <= MaxOffset => HandlesResolve)
  BY FileResolves
<1> QED BY <1>1, FileInvHolds, PTL

\* No two segments begin at the same place.
LEMMA PlaceIsUnique ==
    ASSUME NEW dst, IsSeq(dst), NEW end \in Nat, Placed(dst, end),
           NEW i \in 1 .. Len(dst), NEW j \in 1 .. Len(dst), dst[i].at = dst[j].at
    PROVE  i = j
<1>1. Len(dst) \in Nat
  BY DEF IsSeq
<1>2. i \in Nat /\ j \in Nat /\ dst[i].at \in Nat /\ dst[j].at \in Nat
  BY <1>1 DEF Placed
<1>3. ~(i < j) /\ ~(j < i)
  BY <1>2 DEF Placed
<1> QED BY <1>2, <1>3

\* The entries that the index leads to, from the entries of its blocks.
LEMMA FlattenIndexed ==
    ASSUME NEW dst, NEW kvs, Entered(dst, kvs), NEW s, s = [i \in 1 .. Len(kvs) |-> s[i]],
           \A i \in 1 .. Len(kvs) : s[i] = dst[i].body
    PROVE  FlattenSeq(s) = EntriesOf(dst, Len(kvs))
<1> DEFINE n == Len(kvs)
           t == BodyOf(dst)
           S == {s[i] : i \in 1 .. n}
<1>1. n \in Nat
  BY DEF Entered, IsSeq
<1>2. s \in Seq(S) /\ Len(s) = n
  BY <1>1
<1>3. \A i \in 1 .. n : s[i] = t[i]
  BY DEF Entered, BodyOf
<1> HIDE DEF t, S
<1>4. FlattenSeq(s) = Joined(t, n)
  BY <1>1, <1>2, <1>3, FlattenIs DEF IsSeq
<1> QED BY <1>4 DEF EntriesOf, t

\* A reader of a finished file finds what was added.
LEMMA FileReadsBack ==
    ASSUME Inv, FileInv, tb.written <= MaxOffset, pc = "finished"
    PROVE  ReadBack = added
<1> DEFINE kvs == tb.index_block.kvs
           Is(i, e) == tb.dst[i].kind = "data" /\ tb.dst[i].at = HandleOf(e).offset
           body(e) == CHOOSE i \in 1 .. Len(tb.dst) : Is(i, e)
           b(i) == tb.dst[body(kvs[i])].body
<1>1. /\ IsSeq(tb.dst) /\ tb.written \in Nat /\ Placed(tb.dst, tb.written)
      /\ Entered(tb.dst, kvs) /\ EntriesOf(tb.dst, Len(kvs)) = added
  BY DEF Inv, FileInv, Sound, Indexed
<1>2. ASSUME NEW i \in 1 .. Len(kvs) PROVE b(i) = tb.dst[i].body
  <2> DEFINE e == kvs[i]
  <2>1. i \in 1 .. Len(tb.dst) /\ tb.dst[i].kind = "data" /\ e.val = HandleBytes(128, Where(tb.dst[i]))
    BY <1>1 DEF Entered
  <2> HIDE DEF e
  <2>2. HandleOf(e) = [offset |-> tb.dst[i].at, size |-> tb.dst[i].len]
    BY <1>1, <2>1, EntryResolves
  <2>3. HandleOf(e).offset = tb.dst[i].at
    BY <2>2
  <2>4. Is(i, e)
    BY <2>1, <2>3
  <2>5. ASSUME NEW j \in 1 .. Len(tb.dst), Is(j, e) PROVE j = i
    BY <1>1, <2>1, <2>3, <2>5, PlaceIsUnique
  <2> HIDE DEF Is
  <2>6. body(e) = i
    BY <2>1, <2>4, <2>5
  <2> QED BY <2>6 DEF e
<1>3. ReadBack = FlattenSeq([i \in 1 .. Len(kvs) |-> b(i)])
  BY DEF ReadBack
<1> HIDE DEF b
<1>4. FlattenSeq([i \in 1 .. Len(kvs) |-> b(i)]) = EntriesOf(tb.dst, Len(kvs))
  <2> DEFINE s == [i \in 1 .. Len(kvs) |-> b(i)]
  <2> HIDE DEF kvs
  <2>1. s = [i \in 1 .. Len(kvs) |-> s[i]] /\ \A i \in 1 .. Len(kvs) : s[i] = tb.dst[i].body
    BY <1>2
  <2> HIDE DEF s
  <2>2. FlattenSeq(s) = EntriesOf(tb.dst, Len(kvs))
    BY <1>1, <2>1, FlattenIndexed
  <2> QED BY <2>2 DEF s
<1> QED BY <1>1, <1>3, <1>4

\* table_builder.rs, finish(): whatever the block size and the number of entries,
\* and wherever the writer panics or a write is refused, a file has a footer only
\* if a reader finds all that add() accepted by way of the index, in the order in
\* which it was added.
THEOREM FooterAlwaysMeansComplete ==
    ASSUME BlockRestartInterval > 0, ~ShortWrites
    PROVE  Spec => [](tb.written <= MaxOffset => FooterMeansComplete)
<1>1. ASSUME Inv, FileInv, tb.written <= MaxOffset PROVE FooterMeansComplete
  <2> SUFFICES ASSUME Has("footer") PROVE ReadBack = added /\ ~Has("torn")
    BY DEF FooterMeansComplete
  <2>1. pc = "finished"
    BY <1>1 DEF FileInv, Writable, NoKind, Has
  <2>2. ReadBack = added
    BY <1>1, <2>1, FileReadsBack
  <2>3. ~Has("torn")
    BY <1>1, <2>1 DEF FileInv, NoKind, Has
  <2> QED BY <2>2, <2>3
<1>2. Inv /\ FileInv => (tb.written <= MaxOffset => FooterMeansComplete)
  BY <1>1
<1> QED BY <1>2, InvHolds, FileInvHolds, PTL

-----------------------------------------------------------------------------

\* The segment that Table::read_block finds for the handle of segment i.
LEMMA PlaceOfWhere ==
    ASSUME IsSeq(tb.dst), tb.written \in Nat, Placed(tb.dst, tb.written),
           NEW i \in 1 .. Len(tb.dst), NEW h, h.offset = tb.dst[i].at, h.size = tb.dst[i].len
    PROVE  PlaceOf(h) = i
<1> DEFINE Is(j) == tb.dst[j].at = h.offset /\ tb.dst[j].len = h.size
<1>1. Is(i)
  OBVIOUS
<1>2. ASSUME NEW j \in 1 .. Len(tb.dst), Is(j) PROVE j = i
  BY <1>2, PlaceIsUnique
<1>3. PlaceOf(h) = CHOOSE j \in 1 .. Len(tb.dst) : Is(j)
  BY DEF PlaceOf
<1> HIDE DEF Is
<1> QED BY <1>1, <1>2, <1>3

\* The Table that Table::new makes has the index that was built, and its blocks.
LEMMA OpenedIsComplete ==
    ASSUME Inv, FileInv, tb.written <= MaxOffset, pc = "finished"
    PROVE  /\ Opened.index_block = tb.index_block.kvs
           /\ FlattenSeq([i \in 1 .. Len(Opened.index_block) |->
                             tb.dst[Opened.blocks[i].place].body]) = added
<1> DEFINE kvs == tb.index_block.kvs
           n == Len(tb.dst)
           footer == H!DecodeFooter(Last(tb.dst).body)
           index  == tb.dst[PlaceOf(footer.index)].body
           metaix == tb.dst[PlaceOf(footer.meta_index)].body
           blocks == [i \in 1 .. Len(index) |->
                         [offset |-> HandleOf(index[i]).offset, place |-> PlaceOf(HandleOf(index[i]))]]
           filters == [name \in PolicyNames |-> read_filter_block(metaix, name)]
           b(i) == tb.dst[Opened.blocks[i].place].body
<1>1. /\ IsSeq(tb.dst) /\ tb.written \in Nat /\ Placed(tb.dst, tb.written)
      /\ Entered(tb.dst, kvs) /\ EntriesOf(tb.dst, Len(kvs)) = added
      /\ Ends(tb.dst, kvs)
  BY DEF Inv, FileInv, Sound, Indexed
<1>2. Opened = [meta_index |-> footer.meta_index, index_block |-> index,
                blocks |-> blocks, filters |-> filters]
  BY DEF Opened
<1> HIDE DEF filters
<1>3. Opened.index_block = index /\ Opened.blocks = blocks
  <2> HIDE DEF index, blocks, footer
  <2> QED BY <1>2
<1>4. PICK m, x : /\ Points(tb.dst, m, "metaindex") /\ IndexAt(tb.dst, kvs, x)
                  /\ tb.dst[n].kind = "footer" /\ n > 0
                  /\ \A i \in 1 .. n : tb.dst[i].kind = "footer" => tb.dst[i].body = FooterOf(m, x)
  BY <1>1 DEF Ends
<1>5. n \in 1 .. n /\ Last(tb.dst).body = FooterOf(m, x)
  <2>1. n \in Nat
    BY <1>1 DEF IsSeq
  <2>2. n \in 1 .. n
    BY <1>4, <2>1
  <2> QED BY <1>4, <2>2 DEF Last
<1>6. PICK l \in 1 .. n : tb.dst[l].kind = "index" /\ tb.dst[l].body = kvs /\ x = Where(tb.dst[l])
  BY <1>4 DEF IndexAt
<1>7. PICK j \in 1 .. n : m = Where(tb.dst[j])
  BY <1>4 DEF Points
<1>8. Small(m) /\ Small(x) /\ x.offset = tb.dst[l].at /\ x.size = tb.dst[l].len
  BY <1>1, <1>6, <1>7, SmallWhere
<1>9. footer = [meta_index |-> [offset |-> m.offset, size |-> m.size],
                index      |-> [offset |-> x.offset, size |-> x.size]]
  BY <1>5, <1>8, FooterOfReads
<1>10. index = kvs
  <2> DEFINE h == footer.index
  <2>1. h = [offset |-> x.offset, size |-> x.size]
    BY <1>9
  <2>2. h.offset = tb.dst[l].at /\ h.size = tb.dst[l].len
    BY <1>8, <2>1
  <2> HIDE DEF h
  <2>3. PlaceOf(h) = l
    BY <1>1, <2>2, PlaceOfWhere
  <2> QED BY <1>6, <2>3 DEF h
<1> HIDE DEF index
<1>11. ASSUME NEW i \in 1 .. Len(kvs) PROVE b(i) = tb.dst[i].body
  <2> DEFINE e == kvs[i]
             h == HandleOf(e)
  <2>1. i \in 1 .. n /\ e.val = HandleBytes(128, Where(tb.dst[i]))
    BY <1>1 DEF Entered
  <2> HIDE DEF e
  <2>2. h = [offset |-> tb.dst[i].at, size |-> tb.dst[i].len]
    BY <1>1, <2>1, EntryResolves
  <2>3. h.offset = tb.dst[i].at /\ h.size = tb.dst[i].len
    BY <2>2
  <2> HIDE DEF h
  <2>4. PlaceOf(h) = i
    BY <1>1, <2>1, <2>3, PlaceOfWhere
  <2>5. blocks[i] = [offset |-> h.offset, place |-> PlaceOf(h)]
    BY <1>10 DEF h, e
  <2>6. blocks[i].place = i
    BY <2>4, <2>5
  <2> HIDE DEF blocks
  <2> QED BY <1>3, <2>6
<1> HIDE DEF b
<1>12. FlattenSeq([i \in 1 .. Len(kvs) |-> b(i)]) = EntriesOf(tb.dst, Len(kvs))
  <2> DEFINE s == [i \in 1 .. Len(kvs) |-> b(i)]
  <2> HIDE DEF kvs
  <2>1. s = [i \in 1 .. Len(kvs) |-> s[i]] /\ \A i \in 1 .. Len(kvs) : s[i] = tb.dst[i].body
    BY <1>11
  <2> HIDE DEF s
  <2>2. FlattenSeq(s) = EntriesOf(tb.dst, Len(kvs))
    BY <1>1, <2>1, FlattenIndexed
  <2> QED BY <2>2 DEF s
<1>13. Opened.index_block = kvs
  BY <1>3, <1>10
<1>14. FlattenSeq([i \in 1 .. Len(Opened.index_block) |-> tb.dst[Opened.blocks[i].place].body]) = added
  <2>1. FlattenSeq([i \in 1 .. Len(kvs) |-> tb.dst[Opened.blocks[i].place].body]) = added
    <3> HIDE DEF kvs
    <3> QED BY <1>1, <1>12 DEF b
  <2> HIDE DEF kvs
  <2> QED BY <1>13, <2>1
<1> QED BY <1>13, <1>14

\* What the reader does leaves the file alone, and it opens a file once: a table
\* that is complete when it is opened stays so.
LEMMA NextOpens ==
    ASSUME Inv, FileInv, tb.written <= MaxOffset => OpensOnlyComplete, [TableNext]_tableVars
    PROVE  (tb.written <= MaxOffset => OpensOnlyComplete)'
<1>1. CASE UNCHANGED <<vars, opened, table>>
  BY <1>1 DEF OpensOnlyComplete, Index, Content, vars
<1>2. CASE Write
  BY <1>2 DEF Write, readerVars, OpensOnlyComplete
<1>3. CASE New
  <2>1. /\ UNCHANGED vars /\ UNCHANGED <<ti, call, start>>
        /\ \E n \in 0 .. Len(tb.dst) :
              IF HasFooter(n)
              THEN \E d \in Damage :
                      /\ damaged' = d
                      /\ IF d \intersect Places({"metaindex", "index"}) # {}
                         THEN opened' = "error" /\ UNCHANGED table
                         ELSE opened' = "yes" /\ table' = Opened
              ELSE opened' \in NoFooterEnds(n) /\ UNCHANGED <<table, damaged>>
    BY <1>3 DEF New
  <2>2. PICK n \in 0 .. Len(tb.dst) :
           opened' # "yes" \/ (HasFooter(n) /\ table' = Opened)
    BY <2>1 DEF NoFooterEnds
  <2>3. CASE opened' # "yes"
    BY <2>3 DEF OpensOnlyComplete
  <2>4. CASE HasFooter(n) /\ table' = Opened
    <3> SUFFICES ASSUME tb'.written <= MaxOffset, opened' = "yes"
                 PROVE  /\ pc' = "finished"
                        /\ FlattenSeq([i \in 1 .. Len(Index) |-> Content(i)])' = added'
      BY DEF OpensOnlyComplete
    <3>1. pc' = pc /\ tb' = tb /\ added' = added
      BY <2>1 DEF vars
    <3>2. n \in 1 .. Len(tb.dst) /\ tb.dst[n].kind = "footer"
      BY <2>4 DEF HasFooter
    <3>3. pc = "finished"
      BY <3>2 DEF FileInv, Writable, NoKind
    <3>4. FlattenSeq([i \in 1 .. Len(Opened.index_block) |->
                         tb.dst[Opened.blocks[i].place].body]) = added
      BY <3>1, <3>3, OpenedIsComplete
    <3>5. FlattenSeq([i \in 1 .. Len(Index) |-> Content(i)])' =
             FlattenSeq([i \in 1 .. Len(Opened.index_block) |->
                            tb.dst[Opened.blocks[i].place].body])
      BY <2>4, <3>1 DEF Index, Content
    <3> QED BY <3>1, <3>3, <3>4, <3>5
  <2> QED BY <2>2, <2>3, <2>4
<1>4. Write \/ New \/ UNCHANGED <<vars, opened, table>>
  BY DEF TableNext, tableVars, readerVars, advance, advanceStep, seek, Does, prev, prevPanics, reset
<1> QED BY <1>1, <1>2, <1>3, <1>4

\* Of a writer in Table's specification TableBuilder's theorems hold.
LEMMA TableWrites == TableSpec => Spec
<1>1. TableInit => Init
  BY DEF TableInit
<1>2. ASSUME [TableNext]_tableVars PROVE [Next]_vars
  <2>1. CASE Write
    BY <2>1 DEF Write, Next
  <2>2. Write \/ UNCHANGED vars
    BY <1>2 DEF TableNext, tableVars, New, advance, advanceStep, seek, Does, prev, prevPanics, reset
  <2> QED BY <2>1, <2>2
<1> QED BY <1>1, <1>2, PTL DEF TableSpec, Spec

\* table_reader.rs, Table::new: a file opens only if its writer came to the end of
\* finish(), and the table that is made has, by way of its index, all entries
\* that were added, in order; for any number of blocks, whichever of them are
\* damaged, and wherever the file was cut off.
THEOREM OnlyCompleteOpens ==
    ASSUME BlockRestartInterval > 0, ~ShortWrites
    PROVE  TableSpec => [](tb.written <= MaxOffset => OpensOnlyComplete)
<1>1. TableInit => (tb.written <= MaxOffset => OpensOnlyComplete)
  BY DEF TableInit, OpensOnlyComplete
<1>2. /\ Inv /\ FileInv /\ (tb.written <= MaxOffset => OpensOnlyComplete)
      /\ [TableNext]_tableVars
      => (tb.written <= MaxOffset => OpensOnlyComplete)'
  BY NextOpens
<1>3. TableSpec => []Inv /\ []FileInv
  BY TableWrites, InvHolds, FileInvHolds, PTL
<1> QED BY <1>1, <1>2, <1>3, PTL DEF TableSpec

-----------------------------------------------------------------------------

IterFields == {"index", "block", "iter"}

\* A position in the index, and whether the iterator stands on it.
IsPosition(y) == y = [cur |-> y.cur, on |-> y.on] /\ y.cur \in Int /\ y.on \in BOOLEAN

IsIterator(x) == DOMAIN x = IterFields /\ IsPosition(x.index) /\ x.block \in Int

\* The iterator's type, and that of the index it goes over.
ReaderInv ==
    /\ IsIterator(ti)
    /\ opened = "yes" => IsSeq(table.index_block)

\* The iterator of a block, or of the index, stays one.
LEMMA PositionsStay ==
    ASSUME NEW y, IsPosition(y)
    PROVE  /\ IsPosition(ItReset(y)) /\ ~ItReset(y).on
           /\ IsPosition(ItPrev(y))
           /\ \A s : IsSeq(s) => IsPosition(ItAdvance(s, y))
           /\ \A s, to : IsSeq(s) => IsPosition(ItSeek(s, y, to))
<1>1. IsPosition(ItReset(y)) /\ ~ItReset(y).on
  BY DEF ItReset, IsPosition
<1>2. IsPosition(ItPrev(y))
  <2>1. CASE y.cur = 0
    BY <1>1, <2>1 DEF ItPrev
  <2>2. CASE y.cur # 0
    BY <2>2 DEF ItPrev, IsPosition
  <2> QED BY <2>1, <2>2
<1>3. ASSUME NEW s, IsSeq(s) PROVE IsPosition(ItAdvance(s, y))
  <2> DEFINE next == IF y.on THEN y.cur + 1 ELSE 0
  <2>1. next \in Int
    BY DEF IsPosition
  <2>2. ItAdvance(s, y) = IF next < Len(s) THEN [cur |-> next, on |-> TRUE] ELSE ItReset(y)
    BY DEF ItAdvance
  <2> HIDE DEF next
  <2>3. CASE next < Len(s)
    BY <2>1, <2>2, <2>3 DEF IsPosition
  <2>4. CASE ~(next < Len(s))
    BY <1>1, <2>2, <2>4
  <2> QED BY <2>3, <2>4
<1>4. ASSUME NEW s, IsSeq(s), NEW to PROVE IsPosition(ItSeek(s, y, to))
  <2>1. Len(s) \in Nat
    BY <1>4 DEF IsSeq
  <2>2. CASE StopsAtEmpty(s, to)
    BY <2>2 DEF ItSeek, IsPosition
  <2>3. CASE ~StopsAtEmpty(s, to) /\ AtOrAbove(s, to) # {}
    <3> DEFINE m == Min(AtOrAbove(s, to))
    <3>1. AtOrAbove(s, to) \in SUBSET Nat
      BY <2>1 DEF AtOrAbove
    <3>2. m \in AtOrAbove(s, to)
      BY <2>3, <3>1, MinOf
    <3>3. ItSeek(s, y, to) = [cur |-> m, on |-> TRUE]
      BY <2>3 DEF ItSeek
    <3> HIDE DEF m
    <3> QED BY <3>1, <3>2, <3>3 DEF IsPosition
  <2>4. CASE ~StopsAtEmpty(s, to) /\ AtOrAbove(s, to) = {}
    <3> DEFINE c == IF s = <<>> THEN y.cur ELSE Len(s) - 1
    <3>1. c \in Int
      BY <2>1 DEF IsPosition
    <3>2. ItSeek(s, y, to) = [cur |-> c, on |-> FALSE]
      BY <2>4 DEF ItSeek
    <3> HIDE DEF c
    <3> QED BY <3>1, <3>2 DEF IsPosition
  <2> QED BY <2>2, <2>3, <2>4
<1> QED BY <1>1, <1>2, <1>3, <1>4

\* reset() leaves the iterator off any block.
LEMMA ResetIs ==
    ASSUME NEW x, IsIterator(x)
    PROVE  IsIterator(ResetTo(x)) /\ InStep(ResetTo(x))
<1> DEFINE r == ResetTo(x)
           i == ItReset(x.index)
<1>1. r = [x EXCEPT !.index = i, !.block = 0, !.iter = ItNew]
  BY DEF ResetTo
<1>2. IsPosition(i)
  BY PositionsStay DEF IsIterator
<1> HIDE DEF i
<1>3. DOMAIN r = IterFields /\ r.index = i /\ r.block = 0
  BY <1>1 DEF IsIterator, IterFields
<1> HIDE DEF r
<1> QED BY <1>2, <1>3 DEF IsIterator, InStep, r

\* load_block: the index stands on the block that is loaded.
LEMMA LoadedIs ==
    ASSUME NEW x, IsIterator(x), x.index.on, NEW iter
    PROVE  LET y == Loaded(x, iter)
           IN  /\ IsIterator(y) /\ y.iter = iter /\ y.index = x.index /\ y.block = x.index.cur + 1
               /\ iter.on => InStep(y)
<1> DEFINE y == Loaded(x, iter)
           c == x.index.cur
<1>1. c \in Int /\ x.index = [cur |-> c, on |-> TRUE]
  BY DEF IsIterator, IsPosition
<1>2. DOMAIN y = IterFields /\ y.index = x.index /\ y.block = c + 1 /\ y.iter = iter
  BY DEF Loaded, IsIterator, IterFields
<1> HIDE DEF y, c
<1>3. y.block \in Int /\ y.block - 1 = c
  BY <1>1, <1>2
<1>4. IsIterator(y)
  BY <1>2, <1>3 DEF IsIterator
<1>5. ASSUME iter.on PROVE InStep(y)
  BY <1>1, <1>2, <1>3, <1>5 DEF InStep
<1> QED BY <1>2, <1>4, <1>5 DEF y, c

\* Off an entry of its block, the iterator is nowhere in the table.
LEMMA NowhereIs ==
    ASSUME NEW x, x.block = 0 \/ ~x.iter.on
    PROVE  Pos(x) = 0
BY DEF Pos

\* The index moves, the block stays.
LEMMA IndexMoves ==
    ASSUME NEW x, IsIterator(x), NEW i, IsPosition(i)
    PROVE  LET y == [x EXCEPT !.index = i]
           IN  IsIterator(y) /\ y.index = i /\ y.block = x.block /\ y.iter = x.iter
BY DEF IsIterator, IterFields

\* The iterator moves within its block.
LEMMA IterMoves ==
    ASSUME NEW x, IsIterator(x), NEW i
    PROVE  LET y == [x EXCEPT !.iter = i]
           IN  IsIterator(y) /\ y.index = x.index /\ y.block = x.block /\ y.iter = i
BY DEF IsIterator, IterFields

\* seek() ends in step with the index, or nowhere.
LEMMA SeekSteps ==
    ASSUME ReaderInv, opened = "yes", NEW to, seek(to)
    PROVE  IsIterator(ti') /\ (InStep(ti') \/ Pos(ti') = 0)
<1> DEFINE i == ItSeek(Index, ti.index, to)
           x == [ti EXCEPT !.index = i]
<1>1. IsIterator(ti) /\ IsPosition(ti.index) /\ IsSeq(Index)
  BY DEF ReaderInv, IsIterator, Index
<1>2. IsPosition(i)
  BY <1>1, PositionsStay
<1>3. ti' = SeekIn(x, to)
  BY DEF seek, Does
<1> HIDE DEF i
<1>4. IsIterator(x) /\ x.index = i
  BY <1>1, <1>2, IndexMoves
<1> HIDE DEF x
<1>5. CASE x.index.on /\ Readable(x.index.cur + 1)
  <2> DEFINE it == ItSeek(Content(x.index.cur + 1), ItNew, to)
             y == Loaded(x, it)
  <2>1. ti' = y
    BY <1>3, <1>5 DEF SeekIn
  <2> HIDE DEF it
  <2>2. IsIterator(y) /\ y.iter = it /\ (it.on => InStep(y))
    BY <1>4, <1>5, LoadedIs
  <2> HIDE DEF y
  <2>3. ~it.on => Pos(y) = 0
    BY <2>2, NowhereIs
  <2>4. InStep(y) \/ Pos(y) = 0
    BY <2>2, <2>3
  <2>5. Pos(ti') = Pos(y)
    BY <2>1
  <2> QED BY <2>1, <2>2, <2>4, <2>5
<1>6. CASE ~(x.index.on /\ Readable(x.index.cur + 1))
  <2>1. ti' = ResetTo(x)
    BY <1>3, <1>6 DEF SeekIn
  <2> QED BY <1>4, <2>1, ResetIs
<1> QED BY <1>5, <1>6

\* So does prev(), from an entry in step.
LEMMA PrevSteps ==
    ASSUME ReaderInv, opened = "yes", prev
    PROVE  IsIterator(ti') /\ (InStep(ti) => InStep(ti') \/ Pos(ti') = 0)
<1> DEFINE x == PrevInBlock(ti)
           i == ItPrev(x.index)
           y == PrevInIndex(ti)
<1>1. IsIterator(ti)
  BY DEF ReaderInv
<1>2. IsIterator(x) /\ x.index = ti.index /\ x.block = ti.block
  BY <1>1, IterMoves DEF PrevInBlock
<1>3. y = [x EXCEPT !.index = i]
  BY DEF PrevInIndex
<1>4. /\ ti' = IF ~LeavesBlock(ti) THEN x ELSE IF y.index.on THEN BlockBefore(y) ELSE y
      /\ LeavesBlock(ti) <=> (ti.block = 0 \/ ~x.iter.on)
  BY DEF prev, Does, LeavesBlock
<1> HIDE DEF x
<1>5. IsPosition(i)
  BY <1>2, PositionsStay DEF IsIterator
<1> HIDE DEF i
<1>6. IsIterator(y) /\ y.index = i /\ y.block = x.block /\ y.iter = x.iter
  BY <1>2, <1>3, <1>5, IndexMoves
<1> HIDE DEF y
<1>7. CASE ~LeavesBlock(ti)
  <2>1. ti' = x /\ ti.block # 0 /\ x.iter.on
    BY <1>4, <1>7
  <2>2. InStep(ti) => InStep(x)
    BY <1>2, <2>1 DEF InStep
  <2> QED BY <1>2, <2>1, <2>2
<1>8. CASE LeavesBlock(ti) /\ y.index.on
  <2>1. ti' = BlockBefore(y)
    BY <1>4, <1>8
  <2>2. CASE ~Readable(y.index.cur + 1)
    BY <1>6, <2>1, <2>2, ResetIs DEF BlockBefore
  <2>3. CASE Readable(y.index.cur + 1)
    <3> DEFINE last == ItLast(Content(y.index.cur + 1))
    <3>1. ti' = Loaded(y, last)
      BY <2>1, <2>3 DEF BlockBefore
    <3>2. last.on
      BY DEF ItLast
    <3> HIDE DEF last
    <3> QED BY <1>6, <1>8, <3>1, <3>2, LoadedIs
  <2> QED BY <2>2, <2>3
<1>9. CASE LeavesBlock(ti) /\ ~y.index.on
  <2>1. ti' = y /\ (y.block = 0 \/ ~y.iter.on)
    BY <1>2, <1>4, <1>6, <1>9
  <2>2. Pos(y) = 0
    BY <2>1, NowhereIs
  <2>3. Pos(ti') = Pos(y)
    BY <2>1
  <2> QED BY <1>6, <2>1, <2>2, <2>3
<1> QED BY <1>7, <1>8, <1>9

\* advance() never loses the step.
LEMMA AdvanceSteps ==
    ASSUME ReaderInv, opened = "yes", advanceStep
    PROVE  IsIterator(ti') /\ (call' = "none" /\ InStep(ti) => InStep(ti'))
<1>1. IsIterator(ti) /\ IsPosition(ti.index) /\ IsSeq(Index)
  BY DEF ReaderInv, IsIterator, Index
<1>2. CASE MoreInBlock(ti)
  <2> DEFINE it == ItAdvance(Content(ti.block), ti.iter)
             x  == [ti EXCEPT !.iter = it]
  <2>1. ti' = x
    BY <1>2 DEF advanceStep
  <2>2. ti.block # 0 /\ it.on
    BY <1>2 DEF MoreInBlock
  <2> HIDE DEF it
  <2>3. IsIterator(x) /\ x.index = ti.index /\ x.block = ti.block /\ x.iter = it
    BY <1>1, IterMoves
  <2> HIDE DEF x
  <2>4. InStep(ti) => InStep(x)
    BY <2>2, <2>3 DEF InStep
  <2> QED BY <2>1, <2>3, <2>4
<1>3. CASE ~MoreInBlock(ti)
  <2> DEFINE i == ItAdvance(Index, ti.index)
             x == [ti EXCEPT !.index = i]
  <2>1. /\ ti' = SkipTo(x) /\ call = "advance"
        /\ ~GivesUp(x) => call' = call
    BY <1>3 DEF advanceStep
  <2>2. IsPosition(i)
    BY <1>1, PositionsStay
  <2> HIDE DEF i
  <2>3. IsIterator(x) /\ x.index = i
    BY <1>1, <2>2, IndexMoves
  <2> HIDE DEF x
  <2>4. CASE ~x.index.on
    <3>1. ti' = ResetTo(x)
      BY <2>1, <2>4 DEF SkipTo
    <3> QED BY <2>3, <3>1, ResetIs
  <2>5. CASE x.index.on /\ Readable(x.index.cur + 1)
    <3>1. ti' = Loaded(x, ItNew) /\ call' = "advance"
      BY <2>1, <2>5 DEF SkipTo, GivesUp
    <3>2. IsIterator(Loaded(x, ItNew))
      BY <2>3, <2>5, LoadedIs
    <3> QED BY <3>1, <3>2
  <2>6. CASE x.index.on /\ ~Readable(x.index.cur + 1)
    <3>1. ti' = [x EXCEPT !.block = 0, !.iter = ItNew] /\ call' = "advance"
      BY <2>1, <2>6 DEF SkipTo, GivesUp
    <3>2. IsIterator(ti')
      BY <2>3, <3>1 DEF IsIterator, IterFields
    <3> QED BY <3>1, <3>2
  <2> QED BY <2>4, <2>5, <2>6
<1> QED BY <1>2, <1>3

\* advance() runs only on a table that is open.
CallsOpen == call = "advance" => opened = "yes"

\* The reader's steps keep its types.
LEMMA NextReads ==
    ASSUME Inv, FileInv, tb.written <= MaxOffset, ReaderInv, CallsOpen, [TableNext]_tableVars
    PROVE  ReaderInv' /\ CallsOpen'
<1>1. CASE UNCHANGED tableVars
  BY <1>1 DEF tableVars, readerVars, ReaderInv, CallsOpen
<1>2. CASE Write
  BY <1>2 DEF Write, readerVars, ReaderInv, CallsOpen
<1>3. CASE New
  <2>1. /\ opened = "no" /\ UNCHANGED <<vars, ti, call, start>>
        /\ \E n \in 0 .. Len(tb.dst) :
              IF HasFooter(n)
              THEN \E d \in Damage :
                      /\ damaged' = d
                      /\ IF d \intersect Places({"metaindex", "index"}) # {}
                         THEN opened' = "error" /\ UNCHANGED table
                         ELSE opened' = "yes" /\ table' = Opened
              ELSE opened' \in NoFooterEnds(n) /\ UNCHANGED <<table, damaged>>
    BY <1>3 DEF New
  <2>2. PICK n \in 0 .. Len(tb.dst) :
           opened' # "yes" \/ (HasFooter(n) /\ table' = Opened)
    BY <2>1 DEF NoFooterEnds
  <2>3. HasFooter(n) => pc = "finished"
    <3> SUFFICES ASSUME HasFooter(n) PROVE pc = "finished"
      OBVIOUS
    <3>1. n \in 1 .. Len(tb.dst) /\ tb.dst[n].kind = "footer"
      BY DEF HasFooter
    <3> QED BY <3>1 DEF FileInv, Writable, NoKind
  <2>4. pc = "finished" => IsSeq(Opened.index_block)
    <3> SUFFICES ASSUME pc = "finished" PROVE IsSeq(Opened.index_block)
      OBVIOUS
    <3>1. Opened.index_block = tb.index_block.kvs
      BY OpenedIsComplete
    <3> QED BY <3>1 DEF FileInv, Sound, Entered
  <2>5. IsIterator(ti') /\ call' # "advance"
    BY <2>1 DEF ReaderInv, CallsOpen
  <2> QED BY <2>2, <2>3, <2>4, <2>5 DEF ReaderInv, CallsOpen
<1>4. CASE reset
  <2>1. opened = "yes" /\ ti' = ResetTo(ti) /\ UNCHANGED <<opened, table, call>>
    BY <1>4 DEF reset, Does
  <2> QED BY <2>1, ResetIs DEF ReaderInv, CallsOpen
<1>5. CASE advance
  BY <1>5 DEF advance, ReaderInv, CallsOpen
<1>6. CASE advanceStep
  <2>1. opened = "yes" /\ UNCHANGED <<opened, table>>
    BY <1>6 DEF advanceStep, CallsOpen
  <2> QED BY <1>6, <2>1, AdvanceSteps DEF ReaderInv, CallsOpen
<1>7. ASSUME NEW to, seek(to) PROVE ReaderInv' /\ CallsOpen'
  <2>1. opened = "yes" /\ UNCHANGED <<opened, table, call>>
    BY <1>7 DEF seek, Does
  <2> QED BY <1>7, <2>1, SeekSteps DEF ReaderInv, CallsOpen
<1>8. CASE prev
  <2>1. opened = "yes" /\ UNCHANGED <<opened, table, call>>
    BY <1>8 DEF prev, Does
  <2> QED BY <1>8, <2>1, PrevSteps DEF ReaderInv, CallsOpen
<1>9. CASE prevPanics
  BY <1>9 DEF prevPanics, ReaderInv, CallsOpen
<1> QED BY <1>1, <1>2, <1>3, <1>4, <1>5, <1>6, <1>7, <1>8, <1>9 DEF TableNext

\* What a step may do to an iterator in step with its index.
LEMMA NextSteps ==
    ASSUME ReaderInv, CallsOpen, TableNext, call' = "none", InStep(ti), ~InStep(ti')
    PROVE  call = "none" /\ Pos(ti') = 0
<1>1. CASE Write \/ New \/ prevPanics \/ advance
  BY <1>1 DEF Write, readerVars, New, prevPanics, advance
<1>2. CASE reset
  BY <1>2, ResetIs DEF reset, Does, ReaderInv
<1>3. CASE advanceStep
  BY <1>3, AdvanceSteps DEF advanceStep, CallsOpen
<1>4. ASSUME NEW to, seek(to) PROVE call = "none" /\ Pos(ti') = 0
  <2>1. opened = "yes" /\ call = "none"
    BY <1>4 DEF seek, Does
  <2> QED BY <1>4, <2>1, SeekSteps
<1>5. CASE prev
  <2>1. opened = "yes" /\ call = "none"
    BY <1>5 DEF prev, Does
  <2> QED BY <1>5, <2>1, PrevSteps
<1> QED BY <1>1, <1>2, <1>3, <1>4, <1>5 DEF TableNext

\* table_reader.rs, TableIterator: whatever the table and its damaged blocks, the
\* index and the current block get out of step only by a seek() or a prev() that
\* leaves the iterator on no entry, never by advance() or reset().
THEOREM StepOnlyLostByFailure ==
    ASSUME BlockRestartInterval > 0, ~ShortWrites
    PROVE  TableSpec /\ [](tb.written <= MaxOffset) => StepLostOnlyByFailure
<1> DEFINE A == call' = "none" /\ InStep(ti) /\ ~InStep(ti') => call = "none" /\ Pos(ti') = 0
<1>1. TableInit => ReaderInv /\ CallsOpen
  <2>1. IsPosition(ItNew)
    BY DEF IsPosition, ItNew
  <2>2. IsIterator(NewTableIter)
    <3> HIDE DEF ItNew
    <3> QED BY <2>1 DEF IsIterator, IterFields, NewTableIter
  <2> QED BY <2>2 DEF TableInit, ReaderInv, CallsOpen
<1>2. /\ Inv /\ FileInv /\ tb.written <= MaxOffset /\ ReaderInv /\ CallsOpen
      /\ [TableNext]_tableVars
      => ReaderInv' /\ CallsOpen'
  BY NextReads
<1>3. ReaderInv /\ CallsOpen /\ [TableNext]_tableVars => [A]_tableVars
  BY NextSteps
<1>4. TableSpec => []Inv /\ []FileInv
  BY TableWrites, InvHolds, FileInvHolds, PTL
<1>5. StepLostOnlyByFailure <=> [][A]_tableVars
  BY DEF StepLostOnlyByFailure
<1> HIDE DEF A
<1> QED BY <1>1, <1>2, <1>3, <1>4, <1>5, PTL DEF TableSpec
=============================================================================
