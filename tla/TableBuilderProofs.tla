-------------------------- MODULE TableBuilderProofs --------------------------
(***************************************************************************)
(* TableBuilder, for any number of blocks over any keys: an inductive      *)
(* invariant of the table that is being filled, and from it the safety     *)
(* invariants about the order of the keys, the index and the file size;    *)
(* then one of the filters, for the filter block.  Where the code cuts     *)
(* numbers to u32, or has 16 bytes for a handle, the theorems say up to    *)
(* which offsets they hold (SmallFile, SmallFilters).                      *)
(***************************************************************************)
EXTENDS TableBuilder, BlockBuilderProofs

\* A sequence, of whatever.
IsSeq(s) == \E S : s \in Seq(S)

\* Appending to a sequence of whatever.
LEMMA AppendAny ==
    ASSUME NEW s, IsSeq(s), NEW e
    PROVE  /\ IsSeq(Append(s, e)) /\ Len(s) \in Nat /\ Len(Append(s, e)) = Len(s) + 1
           /\ Append(s, e)[Len(s) + 1] = e
           /\ \A i \in 1 .. Len(s) : Append(s, e)[i] = s[i]
<1>1. PICK S : s \in Seq(S)
  BY DEF IsSeq
<1> DEFINE T == S \union {e}
<1>2. s \in Seq(T) /\ e \in T
  BY <1>1, SeqMonotonic
<1> HIDE DEF T
<1> DEFINE a == Append(s, e)
<1>3. /\ a \in Seq(T) /\ Len(s) \in Nat /\ Len(a) = Len(s) + 1
      /\ a[Len(s) + 1] = e
      /\ \A i \in 1 .. Len(s) : a[i] = s[i]
  BY <1>2, AppendProperties
<1> QED BY <1>3 DEF IsSeq

\* Ranges of filters ascend with the offsets of blocks.
LEMMA DivMonotone ==
    ASSUME NEW a \in Nat, NEW b \in Nat, a <= b, NEW d \in Nat \ {0}
    PROVE  a \div d \in Nat /\ b \div d \in Nat /\ a \div d <= b \div d
<1>1. a \div d \in Nat /\ b \div d \in Nat
  OBVIOUS
<1>2. a \div d <= b \div d
  OBVIOUS
<1> QED BY <1>1, <1>2

\* The operators of H are those of the lemmas about varints.
LEMMA HandlesAre ==
    /\ \A n : H!encode_var[n] = VarBytes(128, n)
    /\ \A bytes, from : H!VarEnd(bytes, from) = EndOf(128, 10, bytes, from)
    /\ \A bytes, from : H!VarValue(bytes, from) = ReadNumber(128, 10, bytes, from)
    /\ \A h : H!encode_to(h) = HandleBytes(128, h)
<1>1. H!encode_var = Varint(128)
  BY Zenon DEF H!encode_var, Varint, VarStep
<1>2. \A n : H!encode_var[n] = VarBytes(128, n)
  BY <1>1 DEF VarBytes
<1>3. \A bytes, from : H!VarEnd(bytes, from) = EndOf(128, 10, bytes, from)
  BY Zenon DEF H!VarEnd, EndOf, H!Min, Min
<1>4. \A bytes, end : H!VarsBefore(bytes, end) = ValuesTo(128, bytes, end)
  BY Zenon DEF H!VarsBefore, ValuesTo
<1>5. \A bytes, from : H!VarValue(bytes, from) = ReadNumber(128, 10, bytes, from)
  BY <1>3, <1>4, Zenon DEF H!VarValue, ReadNumber, ValueAt
<1>6. \A h : H!encode_to(h) = HandleBytes(128, h)
  <2> SUFFICES ASSUME NEW h PROVE H!encode_to(h) = HandleBytes(128, h)
    OBVIOUS
  <2>1. H!encode_var[h.offset] = VarBytes(128, h.offset) /\ H!encode_var[h.size] = VarBytes(128, h.size)
    BY <1>2
  <2> QED BY <2>1, Zenon DEF H!encode_to, HandleBytes
<1> QED BY <1>2, <1>3, <1>5, <1>6

\* A varint ends with the digits of the number before its first one.
LEMMA OneByteMore ==
    ASSUME NEW n \in Nat
    PROVE  /\ VarLen(128, n) \in Nat
           /\ n < 128 => VarLen(128, n) = 1
           /\ n >= 128 => VarLen(128, n) = 1 + VarLen(128, n \div 128)
<1>1. 128 \in Nat \ {0, 1}
  OBVIOUS
<1>2. VarLen(128, n) \in Nat
  BY <1>1, VarintShape DEF VarLen
<1>3. ASSUME n < 128 PROVE VarLen(128, n) = 1
  <2>1. VarBytes(128, n) = <<n>>
    BY <1>1, <1>3, VarBytesIs
  <2> QED BY <2>1 DEF VarLen
<1>4. ASSUME n >= 128 PROVE VarLen(128, n) = 1 + VarLen(128, n \div 128)
  <2> DEFINE s == VarBytes(128, n \div 128)
             d == 128 + (n % 128)
  <2>1. VarBytes(128, n) = <<d>> \o s
    BY <1>1, <1>4, VarBytesIs
  <2>2. n \div 128 \in Nat /\ d \in Nat
    OBVIOUS
  <2>3. s \in Seq(Nat)
    BY <1>1, <2>2, VarBytesIs
  <2> HIDE DEF s, d
  <2>4. Len(<<d>> \o s) = 1 + Len(s)
    BY <2>2, <2>3, ConcatProperties
  <2> QED BY <2>1, <2>4 DEF VarLen, s
<1> QED BY <1>2, <1>3, <1>4

\* A number below 2^50 takes at most eight bytes.
LEMMA EightBytes ==
    ASSUME NEW n \in Nat, n <= 1125899906842623
    PROVE  VarLen(128, n) \in Nat /\ VarLen(128, n) <= 8
<1> DEFINE Below(max, len) == \A m \in Nat : m <= max => VarLen(128, m) \in Nat /\ VarLen(128, m) <= len
<1>1. Below(1, 1)
  BY OneByteMore
<1>2. Below(255, 2)
  <2>1. \A m \in Nat : m <= 255 => m \div 128 \in Nat /\ m \div 128 <= 1
    OBVIOUS
  <2> QED BY <1>1, <2>1, OneByteMore
<1>3. Below(32767, 3)
  <2>1. \A m \in Nat : m <= 32767 => m \div 128 \in Nat /\ m \div 128 <= 255
    OBVIOUS
  <2> QED BY <1>2, <2>1, OneByteMore
<1>4. Below(4194303, 4)
  <2>1. \A m \in Nat : m <= 4194303 => m \div 128 \in Nat /\ m \div 128 <= 32767
    OBVIOUS
  <2> QED BY <1>3, <2>1, OneByteMore
<1>5. Below(536870911, 5)
  <2>1. \A m \in Nat : m <= 536870911 => m \div 128 \in Nat /\ m \div 128 <= 4194303
    OBVIOUS
  <2> QED BY <1>4, <2>1, OneByteMore
<1>6. Below(68719476735, 6)
  <2>1. \A m \in Nat : m <= 68719476735 => m \div 128 \in Nat /\ m \div 128 <= 536870911
    OBVIOUS
  <2> QED BY <1>5, <2>1, OneByteMore
<1>7. Below(8796093022207, 7)
  <2>1. \A m \in Nat : m <= 8796093022207 => m \div 128 \in Nat /\ m \div 128 <= 68719476735
    OBVIOUS
  <2> QED BY <1>6, <2>1, OneByteMore
<1>8. Below(1125899906842623, 8)
  <2>1. \A m \in Nat : m <= 1125899906842623 => m \div 128 \in Nat /\ m \div 128 <= 8796093022207
    OBVIOUS
  <2> QED BY <1>7, <2>1, OneByteMore
<1> QED BY <1>8

\* A varint is a sequence.
LEMMA VarIsSeq ==
    ASSUME NEW n \in Nat
    PROVE  VarBytes(128, n) \in Seq(Nat)
<1>1. 128 \in Nat \ {0, 1}
  OBVIOUS
<1> QED BY <1>1, VarBytesIs

\* A handle whose numbers are below 2^50 has room in the code's 16 bytes.
LEMMA HandleFits ==
    ASSUME NEW h, NEW o \in Nat, h.offset = o, o <= 1125899906842623,
           NEW z \in Nat, h.size = z, z <= 1125899906842623
    PROVE  ~HandleTooLong(h)
<1> DEFINE a == VarBytes(128, o)
           b == VarBytes(128, z)
<1>1. a \in Seq(Nat) /\ b \in Seq(Nat)
  BY VarIsSeq
<1>2. Len(a) <= 8 /\ Len(b) <= 8
  BY EightBytes DEF VarLen
<1>3. H!encode_to(h) = a \o b
  <2>1. H!encode_to(h) = HandleBytes(128, h)
    BY HandlesAre
  <2>2. HandleBytes(128, h) = a \o b
    BY DEF HandleBytes
  <2> QED BY <2>1, <2>2
<1> HIDE DEF a, b
<1>4. Len(a \o b) = Len(a) + Len(b) /\ Len(a) \in Nat /\ Len(b) \in Nat
  BY <1>1, ConcatProperties
<1> QED BY <1>2, <1>3, <1>4 DEF HandleTooLong

-----------------------------------------------------------------------------

(***************************************************************************)
(* Numbers that fit in u32.                                                *)
(***************************************************************************)

\* n is below 2^32
FitsU32(n) == n \div 65536 < 65536

\* A natural number as u32, which is itself if it fits, ...
LEMMA AsWord ==
    ASSUME NEW n \in Nat
    PROVE  AsU32(n) \in Nat /\ (FitsU32(n) <=> AsU32(n) = n)
BY DEF AsU32, FitsU32

\* ... as then does every smaller one.
LEMMA FitsBelow ==
    ASSUME NEW n \in Nat, FitsU32(n), NEW m \in Nat, m <= n
    PROVE  FitsU32(m)
BY DEF FitsU32

\* The filter for a block at this offset, and the one after it, have indices
\* that fit: with FILTER_BASE_LOG2 = 11, offsets up to almost 2^43.
Indexable(offset) == FitsU32((offset \div FilterBase) + 1)

\* Such an index is not cut.
LEMMA IndexIs ==
    ASSUME NEW o \in Nat
    PROVE  /\ get_filter_index(o) \in Nat /\ o \div FilterBase \in Nat
           /\ Indexable(o) => get_filter_index(o) = o \div FilterBase
<1> DEFINE x == o \div FilterBase
<1>1. x \in Nat
  BY FilterAssumption
<1> HIDE DEF x
<1>2. x + 1 \in Nat /\ x <= x + 1
  BY <1>1
<1>3. AsU32(x) \in Nat /\ (FitsU32(x + 1) => AsU32(x) = x)
  BY <1>1, <1>2, AsWord, FitsBelow
<1> QED BY <1>1, <1>3 DEF x, get_filter_index, Indexable

\* What lies before an offset with such an index has one, too.
LEMMA IndexableBelow ==
    ASSUME NEW m \in Nat, NEW n \in Nat, m <= n, Indexable(n)
    PROVE  Indexable(m)
<1> DEFINE x == m \div FilterBase
           y == n \div FilterBase
<1>1. x \in Nat /\ y \in Nat /\ x <= y
  BY FilterAssumption, DivMonotone
<1>2. FitsU32(y + 1)
  BY DEF Indexable
<1> HIDE DEF x, y
<1>3. x + 1 \in Nat /\ y + 1 \in Nat /\ x + 1 <= y + 1
  BY <1>1
<1>4. FitsU32(x + 1)
  BY <1>2, <1>3, FitsBelow
<1> QED BY <1>4 DEF Indexable, x

\* Everything before this offset has a filter index that fits and a handle with
\* room in 16 bytes.  In the code the first is the tighter bound.
Addressable(offset) == Indexable(offset) /\ offset <= 1125899906842623

TableFields == {"offset", "prev_block_last_key", "data_block", "index_block", "filter_block",
                "handles", "dst", "written"}

FilterFields == {"filters", "bytes", "filter_offsets", "keys"}

\* What write_block changes.
LEMMA WriteBlockFields ==
    ASSUME NEW t, DOMAIN t = TableFields,
           NEW kind, NEW n, NEW ct, NEW len, NEW body
    PROVE  LET w == WriteBlock(t, kind, n, ct, len, body)
           IN  /\ DOMAIN w = TableFields
               /\ w.dst = Append(t.dst, Segment(t, kind, n, ct, len, body))
               /\ w.written = t.written + n + TrailerLen
               /\ w.offset = t.offset + len + TrailerLen
               /\ w.prev_block_last_key = t.prev_block_last_key
               /\ w.data_block = t.data_block /\ w.index_block = t.index_block
               /\ w.filter_block = t.filter_block /\ w.handles = t.handles
BY DEF WriteBlock, TableFields

\* What a write that fails changes.
LEMMA TornBlockFields ==
    ASSUME NEW t, DOMAIN t = TableFields, NEW n, NEW body
    PROVE  LET w == TornBlock(t, n, body)
           IN  /\ DOMAIN w = TableFields
               /\ w.dst = Append(t.dst, Segment(t, "torn", n, ctype, n, body))
               /\ w.written = t.written + n /\ w.index_block = t.index_block
BY DEF TornBlock, TableFields

\* What write_data_block changes: the block goes to the file, its separator and
\* handle to the index, and an empty block takes its place.
LEMMA WriteDataBlockFields ==
    ASSUME NEW t, DOMAIN t = TableFields, NEW n, NEW next_key
    PROVE  LET w   == WriteDataBlock(t, n, next_key)
               len == StoredLen(t.data_block)
           IN  /\ DOMAIN w = TableFields
               /\ w.dst = Append(t.dst, Segment(t, "data", n, ctype, len, t.data_block.kvs))
               /\ w.written = t.written + n + TrailerLen
               /\ w.offset = t.offset + len + TrailerLen
               /\ w.prev_block_last_key = t.data_block.bb.last_key
               /\ w.data_block = NewBlock
               /\ w.index_block = AddTo(t.index_block, Separator(t, next_key),
                                        H!encode_to(HandleFor(t, len)))
               /\ w.filter_block = start_block(t.filter_block, t.offset + len + TrailerLen)
               /\ w.handles = t.handles
<1> DEFINE len == StoredLen(t.data_block)
           u == WriteBlock(t, "data", n, ctype, len, t.data_block.kvs)
           h == H!encode_to(HandleFor(t, len))
           s == Separator(t, next_key)
           k == t.data_block.bb.last_key
           w == [u EXCEPT !.prev_block_last_key = k,
                          !.index_block = AddTo(@, s, h),
                          !.data_block = NewBlock,
                          !.filter_block = start_block(@, u.offset)]
<1>1. WriteDataBlock(t, n, next_key) = w
  BY DEF WriteDataBlock
<1>2. /\ DOMAIN u = TableFields
      /\ u.dst = Append(t.dst, Segment(t, "data", n, ctype, len, t.data_block.kvs))
      /\ u.written = t.written + n + TrailerLen
      /\ u.offset = t.offset + len + TrailerLen
      /\ u.index_block = t.index_block /\ u.filter_block = t.filter_block
      /\ u.handles = t.handles
  BY WriteBlockFields
<1> HIDE DEF u, h, s, k
<1>3. DOMAIN w = TableFields
  BY <1>2 DEF TableFields
<1>4. w.dst = u.dst /\ w.written = u.written /\ w.offset = u.offset /\ w.handles = u.handles
  BY <1>2 DEF TableFields
<1>5. w.prev_block_last_key = k /\ w.data_block = NewBlock
  BY <1>2 DEF TableFields
<1>6. w.index_block = AddTo(u.index_block, s, h)
  BY <1>2 DEF TableFields
<1>7. w.filter_block = start_block(u.filter_block, u.offset)
  BY <1>2 DEF TableFields
<1> HIDE DEF w
<1> QED BY <1>1, <1>2, <1>3, <1>4, <1>5, <1>6, <1>7 DEF h, s, k

\* The end of add(): the table with the pair in its data block.
Paired(t, k, v) == [t EXCEPT !.filter_block = add_key(@, k), !.data_block = AddTo(@, k, v)]

\* What the end of add() changes.
LEMMA PairedFields ==
    ASSUME NEW t, DOMAIN t = TableFields, NEW k, NEW v
    PROVE  LET w == Paired(t, k, v)
           IN  /\ DOMAIN w = TableFields
               /\ w.dst = t.dst /\ w.written = t.written /\ w.offset = t.offset
               /\ w.prev_block_last_key = t.prev_block_last_key
               /\ w.index_block = t.index_block /\ w.handles = t.handles
               /\ w.data_block = AddTo(t.data_block, k, v)
               /\ w.filter_block = add_key(t.filter_block, k)
BY DEF Paired, TableFields

\* The fields of a segment.
LEMMA SegmentFields ==
    ASSUME NEW t, NEW kind, NEW n, NEW ct, NEW len, NEW body
    PROVE  LET s == Segment(t, kind, n, ct, len, body)
           IN  s.body = body /\ (s.kind = kind \/ s.kind = "torn") /\ (n = len => s.kind = kind)
BY DEF Segment

\* The filters up to a place: as many as there are ranges before it.
FiltersUpTo(fb, offset) ==
    /\ DOMAIN fb = FilterFields
    /\ IsSeq(fb.filter_offsets) /\ fb.bytes \in Nat
    /\ Indexable(offset) => Len(fb.filter_offsets) = offset \div FilterBase

\* start_block at an offset that is not below the last one does not panic.
LEMMA StartBlockHolds ==
    ASSUME NEW fb, NEW from \in Nat, FiltersUpTo(fb, from), NEW to \in Nat, from <= to
    PROVE  /\ Indexable(to) => ~StartBlockPanics(fb, to)
           /\ FiltersUpTo(start_block(fb, to), to)
<1> DEFINE n == FiltersDue(fb, to)
           g == start_block(fb, to)
           a == fb.filter_offsets
           made  == n > 0 /\ ~NoKeyBytes(fb)
           after == IF made THEN fb.bytes + FilterLen ELSE fb.bytes
           new == [i \in 1 .. n |-> IF i = 1 THEN fb.bytes ELSE after]
<1>1. /\ from \div FilterBase \in Nat /\ to \div FilterBase \in Nat
      /\ from \div FilterBase <= to \div FilterBase
  BY FilterAssumption, DivMonotone
<1>2. Len(a) \in Nat /\ Count(fb) \in Nat /\ get_filter_index(to) \in Nat
  <2>1. Len(a) \in Nat
    BY DEF FiltersUpTo, IsSeq
  <2>2. Count(fb) \in Nat
    BY <2>1, AsWord DEF Count
  <2> QED BY <2>1, <2>2, IndexIs
<1>3. ASSUME Indexable(to)
      PROVE  /\ get_filter_index(to) = to \div FilterBase
             /\ Len(a) = from \div FilterBase /\ Count(fb) = from \div FilterBase
  <2>1. Indexable(from)
    BY <1>3, IndexableBelow
  <2>2. Len(a) = from \div FilterBase /\ get_filter_index(from) = from \div FilterBase
    BY <2>1, IndexIs DEF FiltersUpTo
  <2> QED BY <1>3, <2>2, IndexIs DEF Count, get_filter_index
<1>4. Indexable(to) => ~StartBlockPanics(fb, to) /\ n \in Nat /\ Len(a) + n = to \div FilterBase
  BY <1>1, <1>3 DEF StartBlockPanics, FiltersDue
<1>5. n \in Int
  BY <1>2 DEF FiltersDue
<1>6. g.filter_offsets = a \o new /\ g.bytes = after /\ DOMAIN g = FilterFields
  BY DEF start_block, GenerateFilters, FilterFields
<1>7. after \in Nat
  BY FilterAssumption DEF FiltersUpTo
<1> HIDE DEF n, g, after
<1>8. PICK S : a \in Seq(S)
  BY DEF FiltersUpTo, IsSeq
<1> DEFINE U == S \union {fb.bytes, after}
<1>9. a \in Seq(U)
  BY <1>8, SeqMonotonic
<1>10. new \in Seq(U) /\ (n \in Nat => Len(new) = n)
  <2>1. \A m \in Nat : LET f == [i \in 1 .. m |-> IF i = 1 THEN fb.bytes ELSE after]
                      IN  f \in Seq(U) /\ Len(f) = m
    OBVIOUS
  <2>2. n \notin Nat => 1 .. n = 1 .. 0
    BY <1>5
  <2> QED BY <2>1, <2>2
<1> HIDE DEF U, new, a
<1>11. a \o new \in Seq(U) /\ Len(a \o new) = Len(a) + Len(new)
  BY <1>9, <1>10, ConcatProperties
<1>12. IsSeq(g.filter_offsets)
  BY <1>6, <1>11 DEF IsSeq
<1>13. Indexable(to) => Len(g.filter_offsets) = to \div FilterBase
  BY <1>4, <1>6, <1>10, <1>11
<1> QED BY <1>4, <1>6, <1>7, <1>12, <1>13 DEF FiltersUpTo, g

\* FilterBlockBuilder::add_key only keeps the key for later.
LEMMA AddKeyFilters ==
    ASSUME NEW fb, NEW offset, FiltersUpTo(fb, offset), NEW k
    PROVE  FiltersUpTo(add_key(fb, k), offset)
BY DEF FiltersUpTo, add_key, FilterFields

-----------------------------------------------------------------------------

\* The empty sequence.
LEMMA EmptyIsSeq == IsSeq(<<>>) /\ Len(<<>>) = 0
BY DEF IsSeq

\* A sequence that is not empty has a last element.
LEMMA NonEmptySeq ==
    ASSUME NEW s, IsSeq(s)
    PROVE  s # <<>> <=> Len(s) > 0
BY DEF IsSeq

\* A separator is a key whatever it is made from.
LEMMA SeparatorIsKey ==
    ASSUME NEW s \in ByteString, NEW t \in ByteString
    PROVE  find_shortest_sep(s, t) \in ByteString
<1>1. CASE Gaps(s, t) = {}
  <2>1. 0 \in Byte
    BY MaxByteAssumption DEF Byte
  <2> QED BY <1>1, <2>1, AppendAbove DEF find_shortest_sep
<1>2. CASE Gaps(s, t) # {}
  <2> DEFINE j == Min(Gaps(s, t))
  <2>1. SharedLen(s, t) \in Nat /\ Len(s) \in Nat /\ Len(t) \in Nat
    BY SharedLenStops, BytesOf DEF FirstDifference, Shorter
  <2>2. Gaps(s, t) \in SUBSET Nat
    BY <2>1 DEF Gaps
  <2>3. j \in Gaps(s, t)
    BY <1>2, <2>2, MinOf
  <2> HIDE DEF j
  <2>4. j \in 1 .. Len(s) /\ s[j] < MaxByte
    BY <2>1, <2>3 DEF Gaps, Shorter
  <2>5. Bump(s, j) \in ByteString
    BY <2>4, BumpAbove
  <2> QED BY <1>2, <2>5 DEF find_shortest_sep, j
<1> QED BY <1>1, <1>2

\* So is a successor, and it is above the key.
LEMMA SuccessorIsKey ==
    ASSUME NEW s \in ByteString
    PROVE  find_short_succ(s) \in ByteString /\ Less(s, find_short_succ(s))
<1> DEFINE below == {i \in 1 .. Len(s) : s[i] # MaxByte}
<1>1. below \in SUBSET Nat
  OBVIOUS
<1>2. CASE below = {}
  <2>1. MaxByte \in Byte
    BY MaxByteAssumption DEF Byte
  <2> QED BY <1>2, <2>1, AppendAbove DEF find_short_succ
<1>3. CASE below # {}
  <2> DEFINE j == Min(below)
  <2>1. j \in below
    BY <1>1, <1>3, MinOf
  <2>2. find_short_succ(s) = Bump(s, j)
    BY <1>3 DEF find_short_succ
  <2> HIDE DEF j
  <2>3. j \in 1 .. Len(s) /\ s[j] < MaxByte
    BY <2>1, BytesOf, MaxByteAssumption
  <2> QED BY <2>2, <2>3, BumpAbove
<1> QED BY <1>2, <1>3

\* Every key but the empty one is above the empty one.
LEMMA AboveEmpty ==
    ASSUME NEW s \in ByteString, s # <<>>
    PROVE  Less(<<>>, s)
<1>1. <<>> \in ByteString
  BY DEF ByteString
<1> QED BY <1>1, NothingBelowEmpty, LessIsTotal

\* An index block of n entries: what its add() needs to know.
IndexHolds(blk, n) ==
    /\ IsSeq(blk.bb.buffer) /\ Len(blk.bb.buffer) = n
    /\ IsSeq(blk.kvs) /\ Len(blk.kvs) = n
    /\ blk.bb.restart_counter \in Nat /\ blk.bb.restart_counter <= BlockRestartInterval
    /\ \A i \in 1 .. n : blk.kvs[i].key \in ByteString
    /\ n > 0 => blk.bb.last_key = blk.kvs[n].key

\* BlockBuilder::add on the index block.
LEMMA IndexAdd ==
    ASSUME BlockRestartInterval > 0, NEW blk, NEW n \in Nat, IndexHolds(blk, n),
           NEW key \in ByteString, NEW val
    PROVE  LET c == AddTo(blk, key, val)
           IN  /\ IndexHolds(c, n + 1)
               /\ c.kvs[n + 1].key = key
               /\ \A i \in 1 .. n : c.kvs[i] = blk.kvs[i]
<1> DEFINE c  == AddTo(blk, key, val)
           kv == [key |-> key, val |-> val]
           bb == blk.bb
           sh == SharedWithLast(bb, key)
           e  == [shared |-> sh, suffix |-> SubSeq(key, sh + 1, Len(key)), val |-> val]
<1>1. c.bb = AddEntry(bb, key, val) /\ c.kvs = Append(blk.kvs, kv)
  BY DEF AddTo
<1>2. /\ c.bb.buffer = Append(bb.buffer, e)
      /\ c.bb.last_key = key
      /\ c.bb.restart_counter = IF RestartDue(bb) THEN 1 ELSE bb.restart_counter + 1
  BY <1>1 DEF AddEntry
<1>3. kv.key = key
  OBVIOUS
<1> HIDE DEF c, kv, e
<1>4. IsSeq(c.bb.buffer) /\ Len(c.bb.buffer) = n + 1
  BY <1>2, AppendAny DEF IndexHolds
<1>5. /\ IsSeq(c.kvs) /\ Len(c.kvs) = n + 1 /\ c.kvs[n + 1] = kv
      /\ \A i \in 1 .. n : c.kvs[i] = blk.kvs[i]
  BY <1>1, AppendAny DEF IndexHolds
<1>6. c.bb.restart_counter \in Nat /\ c.bb.restart_counter <= BlockRestartInterval
  BY <1>2, RestartIntervalAssumption DEF IndexHolds, RestartDue
<1>7. \A i \in 1 .. n + 1 : c.kvs[i].key \in ByteString
  <2>1. \A i \in 1 .. n + 1 : i \in 1 .. n \/ i = n + 1
    OBVIOUS
  <2> QED BY <1>3, <1>5, <2>1 DEF IndexHolds
<1>8. IndexHolds(c, n + 1)
  BY <1>2, <1>3, <1>4, <1>5, <1>6, <1>7 DEF IndexHolds
<1> QED BY <1>3, <1>5, <1>8 DEF c

\* The index block takes a separator that is above all that it has.
LEMMA IndexAccepts ==
    ASSUME NEW blk, NEW n \in Nat, IndexHolds(blk, n), NEW key \in ByteString,
           n > 0 => Less(blk.kvs[n].key, key)
    PROVE  ~AddPanics(blk.bb, key)
<1>1. blk.bb.buffer # <<>> => n > 0
  BY NonEmptySeq DEF IndexHolds
<1> QED BY <1>1, RestartIntervalAssumption DEF AddPanics, IndexHolds

-----------------------------------------------------------------------------

\* The last key of kvs, the empty one if there is none.
KeyOfLast(kvs) == KeyBefore(kvs, Len(kvs) + 1)

\* All but the first key of kvs lie above the last key of the block before, and
\* kvs ascends.
Follows(before, kvs) ==
    \A j \in 2 .. Len(kvs) :
        /\ Less(kvs[j - 1].key, kvs[j].key)
        /\ before # <<>> => Less(Last(before).key, kvs[j].key)

BodyBefore(dst, i) == IF i = 1 THEN <<>> ELSE dst[i - 1].body

BlocksFollow(dst) ==
    \A i \in 1 .. Len(dst) : dst[i].kind = "data" => Follows(BodyBefore(dst, i), dst[i].body)

Pairs == [key : Keys, val : Vals]

\* The table while it is being filled, whatever the order of the keys.
Filling(t) ==
    /\ DOMAIN t = TableFields
    /\ IsSeq(t.dst) /\ t.offset \in Nat
    /\ Holds(t.data_block.bb, t.data_block.kvs)
    /\ t.data_block.kvs = <<>> => t.data_block = NewBlock
    /\ IndexHolds(t.index_block, Len(t.dst))
    /\ FiltersUpTo(t.filter_block, t.offset) /\ "filter" \in DOMAIN t.handles
    /\ t.prev_block_last_key = KeyOfLast(BodyBefore(t.dst, Len(t.dst) + 1))
    /\ \A i \in 1 .. Len(t.dst) : t.dst[i].body \in Seq(KeyValue)
    /\ BlocksFollow(t.dst)
    /\ Follows(BodyBefore(t.dst, Len(t.dst) + 1), t.data_block.kvs)

\* A segment that is no data block, or whose keys follow those before it, keeps
\* the blocks in order.
LEMMA BlocksKept ==
    ASSUME NEW dst, IsSeq(dst), BlocksFollow(dst), NEW seg,
           seg.kind = "data" => Follows(BodyBefore(dst, Len(dst) + 1), seg.body)
    PROVE  /\ IsSeq(Append(dst, seg)) /\ BlocksFollow(Append(dst, seg))
           /\ Len(Append(dst, seg)) = Len(dst) + 1 /\ Len(dst) \in Nat
           /\ BodyBefore(Append(dst, seg), Len(dst) + 2) = seg.body
           /\ Append(dst, seg)[Len(dst) + 1] = seg
           /\ \A i \in 1 .. Len(dst) : Append(dst, seg)[i] = dst[i]
<1> DEFINE d == Append(dst, seg)
           n == Len(dst)
<1>1. /\ IsSeq(d) /\ n \in Nat /\ Len(d) = n + 1 /\ d[n + 1] = seg
      /\ \A i \in 1 .. n : d[i] = dst[i]
  BY AppendAny
<1> HIDE DEF d, n
<1>2. BodyBefore(d, n + 2) = seg.body
  <2>1. n + 2 # 1 /\ n + 2 - 1 = n + 1
    BY <1>1
  <2> QED BY <1>1, <2>1 DEF BodyBefore
<1>3. \A i \in 1 .. n + 1 : BodyBefore(d, i) = BodyBefore(dst, i)
  <2> SUFFICES ASSUME NEW i \in 1 .. n + 1 PROVE BodyBefore(d, i) = BodyBefore(dst, i)
    OBVIOUS
  <2>1. i # 1 => i - 1 \in 1 .. n
    BY <1>1
  <2> QED BY <1>1, <2>1 DEF BodyBefore
<1>4. \A i \in 1 .. n + 1 : i \in 1 .. n \/ i = n + 1
  BY <1>1
<1>5. \A i \in 1 .. n : dst[i].kind = "data" => Follows(BodyBefore(dst, i), dst[i].body)
  BY DEF BlocksFollow, n
<1>6. seg.kind = "data" => Follows(BodyBefore(dst, n + 1), seg.body)
  BY DEF n
<1>7. \A i \in 1 .. n : i \in 1 .. n + 1 /\ n + 1 \in 1 .. n + 1
  BY <1>1
<1>8. n + 1 \in 1 .. n + 1
  BY <1>1
<1>9. BlocksFollow(d)
  <2> SUFFICES ASSUME NEW i \in 1 .. n + 1, d[i].kind = "data"
               PROVE  Follows(BodyBefore(d, i), d[i].body)
    BY <1>1 DEF BlocksFollow
  <2>1. BodyBefore(d, i) = BodyBefore(dst, i)
    BY <1>3
  <2>2. CASE i \in 1 .. n
    BY <1>1, <1>5, <2>1, <2>2
  <2>3. CASE i = n + 1
    BY <1>1, <1>6, <2>1, <2>3
  <2> QED BY <1>4, <2>2, <2>3
<1> QED BY <1>1, <1>2, <1>9 DEF d, n

\* The last key of a list of entries, which is empty if there is none.
LEMMA LastKeyOf ==
    ASSUME NEW kvs \in Seq(KeyValue)
    PROVE  /\ KeyOfLast(kvs) \in ByteString
           /\ Len(kvs) \in Nat
           /\ \A m \in 1 .. Len(kvs) : kvs[m].key \in ByteString
           /\ kvs = <<>> => KeyOfLast(kvs) = <<>>
           /\ kvs # <<>> => /\ Len(kvs) > 0 /\ Len(kvs) \in 1 .. Len(kvs)
                            /\ KeyOfLast(kvs) = kvs[Len(kvs)].key
                            /\ KeyOfLast(kvs) = Last(kvs).key
<1>1. \A m \in 1 .. Len(kvs) : kvs[m].key \in ByteString
  <2>1. \A m \in 1 .. Len(kvs) : kvs[m] \in KeyValue
    OBVIOUS
  <2> QED BY <2>1 DEF KeyValue
<1>2. Len(kvs) \in Nat /\ (kvs # <<>> <=> Len(kvs) > 0)
  OBVIOUS
<1>3. CASE kvs = <<>>
  <2>1. KeyOfLast(kvs) = <<>>
    BY <1>3 DEF KeyOfLast, KeyBefore
  <2>2. <<>> \in ByteString
    BY DEF ByteString
  <2> QED BY <1>1, <1>2, <1>3, <2>1, <2>2
<1>4. CASE kvs # <<>>
  <2>1. Len(kvs) + 1 # 1 /\ Len(kvs) + 1 - 1 = Len(kvs) /\ Len(kvs) \in 1 .. Len(kvs)
    BY <1>2, <1>4
  <2>2. KeyOfLast(kvs) = kvs[Len(kvs)].key
    BY <2>1 DEF KeyOfLast, KeyBefore
  <2> QED BY <1>1, <1>2, <1>4, <2>1, <2>2 DEF Last
<1> QED BY <1>3, <1>4

\* The size of a block is a number.
LEMMA StoredLenIsNat ==
    ASSUME NEW blk, Holds(blk.bb, blk.kvs)
    PROVE  StoredLen(blk) \in Nat
<1>1. blk.bb.bytes \in Nat /\ blk.bb.restarts \in Seq(Nat)
  BY DEF Holds, BuilderType
<1>2. BlockLen(blk) \in Nat
  BY <1>1 DEF BlockLen, SizeEstimate
<1> QED BY <1>2 DEF StoredLen, Stored

\* write_data_block closes one block and leaves an empty one.
LEMMA WriteHolds ==
    ASSUME BlockRestartInterval > 0, NEW t, Filling(t), NEW n, NEW next \in ByteString
    PROVE  LET w == WriteDataBlock(t, n, next)
               d == Len(t.dst)
           IN  /\ Filling(w) /\ w.data_block = NewBlock
               /\ d \in Nat /\ Len(w.dst) = d + 1
               /\ w.dst[d + 1].body = t.data_block.kvs
               /\ \A i \in 1 .. d : w.dst[i] = t.dst[i]
               /\ w.index_block.kvs[d + 1].key = Separator(t, next)
               /\ \A i \in 1 .. d : w.index_block.kvs[i] = t.index_block.kvs[i]
               /\ w.prev_block_last_key = KeyOfLast(t.data_block.kvs)
<1> DEFINE w   == WriteDataBlock(t, n, next)
           d   == Len(t.dst)
           len == StoredLen(t.data_block)
           seg == Segment(t, "data", n, ctype, len, t.data_block.kvs)
           kvs == t.data_block.kvs
           sep == Separator(t, next)
           hnd == H!encode_to(HandleFor(t, len))
<1>1. /\ DOMAIN t = TableFields /\ IsSeq(t.dst) /\ t.offset \in Nat
      /\ Holds(t.data_block.bb, kvs)
      /\ IndexHolds(t.index_block, d)
      /\ FiltersUpTo(t.filter_block, t.offset) /\ "filter" \in DOMAIN t.handles
      /\ \A i \in 1 .. d : t.dst[i].body \in Seq(KeyValue)
      /\ BlocksFollow(t.dst)
      /\ Follows(BodyBefore(t.dst, d + 1), kvs)
  BY DEF Filling
<1>2. /\ DOMAIN w = TableFields
      /\ w.dst = Append(t.dst, seg)
      /\ w.offset = t.offset + len + TrailerLen
      /\ w.prev_block_last_key = t.data_block.bb.last_key
      /\ w.data_block = NewBlock
      /\ w.index_block = AddTo(t.index_block, sep, hnd)
      /\ w.filter_block = start_block(t.filter_block, t.offset + len + TrailerLen)
      /\ w.handles = t.handles
  BY <1>1, WriteDataBlockFields
<1>3. seg.body = kvs
  BY SegmentFields
<1>4. /\ kvs \in Seq(KeyValue) /\ t.data_block.bb.last_key = KeyOfLast(kvs)
      /\ t.data_block.bb.last_key \in ByteString
  BY <1>1, LastKeyOf DEF Holds, KeyOfLast
<1>5. len \in Nat
  BY <1>1, StoredLenIsNat
<1>6. sep \in ByteString
  BY <1>4, SeparatorIsKey DEF Separator
<1> HIDE DEF w, d, len, seg, kvs, sep, hnd
<1>7. /\ IsSeq(w.dst) /\ BlocksFollow(w.dst)
      /\ Len(w.dst) = d + 1 /\ d \in Nat
      /\ BodyBefore(w.dst, d + 2) = kvs
      /\ w.dst[d + 1] = seg
      /\ \A i \in 1 .. d : w.dst[i] = t.dst[i]
  BY <1>1, <1>2, <1>3, BlocksKept DEF d
<1>8. /\ IndexHolds(w.index_block, d + 1)
      /\ w.index_block.kvs[d + 1].key = sep
      /\ \A i \in 1 .. d : w.index_block.kvs[i] = t.index_block.kvs[i]
  BY <1>1, <1>2, <1>6, <1>7, IndexAdd
<1>9. w.offset \in Nat /\ t.offset <= w.offset
  BY <1>1, <1>2, <1>5 DEF TrailerLen
<1>10. FiltersUpTo(w.filter_block, w.offset)
  BY <1>1, <1>2, <1>9, StartBlockHolds
<1>11. \A i \in 1 .. d + 1 : w.dst[i].body \in Seq(KeyValue)
  <2>1. \A i \in 1 .. d + 1 : i \in 1 .. d \/ i = d + 1
    BY <1>7
  <2> QED BY <1>1, <1>3, <1>4, <1>7, <2>1
<1>12. /\ Holds(w.data_block.bb, w.data_block.kvs) /\ w.data_block.kvs = <<>>
  BY <1>2, NewHolds DEF NewBlock
<1>13. Follows(BodyBefore(w.dst, d + 2), w.data_block.kvs)
  BY <1>12 DEF Follows
<1>14. d + 1 + 1 = d + 2
  BY <1>7
<1>15. Filling(w)
  BY <1>1, <1>2, <1>4, <1>7, <1>8, <1>9, <1>10, <1>11, <1>12, <1>13, <1>14 DEF Filling
<1> QED BY <1>2, <1>3, <1>4, <1>7, <1>8, <1>15 DEF w, d, kvs, sep

\* The end of add() on the data block.
LEMMA PairHolds ==
    ASSUME BlockRestartInterval > 0, NEW t, Filling(t), NEW k \in Keys, NEW v \in Vals,
           ~AddPanics(t.data_block.bb, k),
           \/ t.data_block.kvs = <<>>
           \/ ~BelowPrevBlock(t, k)
    PROVE  LET w == Paired(t, k, v)
               n == Len(t.data_block.kvs)
           IN  /\ Filling(w) /\ w.dst = t.dst /\ w.index_block = t.index_block
               /\ w.prev_block_last_key = t.prev_block_last_key
               /\ n \in Nat /\ Len(w.data_block.kvs) = n + 1
               /\ w.data_block.kvs # <<>>
               /\ KeyOfLast(w.data_block.kvs) = k
               /\ w.data_block.kvs[n + 1].key = k
               /\ \A m \in 1 .. n : w.data_block.kvs[m] = t.data_block.kvs[m]
<1> DEFINE w   == Paired(t, k, v)
           kvs == t.data_block.kvs
           n   == Len(kvs)
           kv  == [key |-> k, val |-> v]
           new == Append(kvs, kv)
           bef == BodyBefore(t.dst, Len(t.dst) + 1)
<1>1. /\ DOMAIN t = TableFields /\ IsSeq(t.dst)
      /\ Holds(t.data_block.bb, kvs)
      /\ FiltersUpTo(t.filter_block, t.offset) /\ "filter" \in DOMAIN t.handles
      /\ t.prev_block_last_key = KeyOfLast(bef)
      /\ \A i \in 1 .. Len(t.dst) : t.dst[i].body \in Seq(KeyValue)
      /\ Follows(bef, kvs)
  BY DEF Filling
<1>2. k \in ByteString /\ v \in Seq(Nat)
  BY TableAssumption
<1>3. /\ DOMAIN w = TableFields
      /\ w.dst = t.dst /\ w.offset = t.offset
      /\ w.prev_block_last_key = t.prev_block_last_key
      /\ w.index_block = t.index_block
      /\ w.data_block = AddTo(t.data_block, k, v)
      /\ w.filter_block = add_key(t.filter_block, k) /\ w.handles = t.handles
  BY <1>1, PairedFields
<1>4. w.data_block.bb = AddEntry(t.data_block.bb, k, v) /\ w.data_block.kvs = new
  BY <1>3 DEF AddTo
<1>5. kvs \in Seq(KeyValue) /\ kv \in KeyValue /\ kv.key = k
  BY <1>1, <1>2 DEF Holds, KeyValue
<1>6. Holds(w.data_block.bb, new)
  BY <1>1, <1>2, <1>4, AddHolds
<1> HIDE DEF w, kv
<1>7. /\ new \in Seq(KeyValue) /\ n \in Nat /\ Len(new) = n + 1 /\ new[n + 1] = kv
      /\ \A m \in 1 .. n : new[m] = kvs[m]
  BY <1>5, AppendProperties
<1>8. new # <<>> /\ KeyOfLast(new) = k
  <2>1. new # <<>>
    BY <1>7
  <2> QED BY <1>5, <1>7, <2>1, LastKeyOf
<1>9. bef \in Seq(KeyValue)
  <2>1. Len(t.dst) \in Nat
    BY <1>1 DEF IsSeq
  <2>2. Len(t.dst) + 1 # 1 => Len(t.dst) + 1 - 1 \in 1 .. Len(t.dst)
    BY <2>1
  <2> QED BY <1>1, <2>2 DEF BodyBefore
<1> HIDE DEF new, kvs, n, bef
<1>10. ASSUME n >= 1
       PROVE  Less(new[n].key, k) /\ (bef # <<>> => Less(Last(bef).key, k))
  <2>1. kvs # <<>> /\ t.data_block.bb.buffer # <<>> /\ new[n] = kvs[n]
    BY <1>1, <1>5, <1>7, <1>10 DEF Holds, n
  <2>2. t.data_block.bb.last_key = kvs[n].key
    BY <1>1, <1>5, <2>1, LastKeyOf DEF Holds, KeyOfLast, n
  <2>3. Less(new[n].key, k)
    BY <2>1, <2>2 DEF AddPanics
  <2>4. new[n].key \in ByteString
    BY <1>5, <1>7, <1>10, <2>1, LastKeyOf DEF n
  <2>5. k # <<>>
    BY <2>3, <2>4, NothingBelowEmpty
  <2>6. ASSUME bef # <<>> PROVE Less(Last(bef).key, k)
    <3>1. t.prev_block_last_key = Last(bef).key
      BY <1>1, <1>9, <2>6, LastKeyOf
    <3>2. CASE t.prev_block_last_key = <<>>
      BY <1>2, <2>5, <3>1, <3>2, AboveEmpty
    <3>3. CASE t.prev_block_last_key # <<>>
      <4>1. ~BelowPrevBlock(t, k)
        BY <2>1 DEF kvs
      <4> QED BY <3>1, <3>3, <4>1 DEF BelowPrevBlock
    <3> QED BY <3>2, <3>3
  <2> QED BY <2>3, <2>6
<1>11. Follows(bef, new)
  <2> SUFFICES ASSUME NEW j \in 2 .. n + 1
               PROVE  /\ Less(new[j - 1].key, new[j].key)
                      /\ bef # <<>> => Less(Last(bef).key, new[j].key)
    BY <1>7 DEF Follows
  <2>1. CASE j \in 2 .. n
    <3>1. j - 1 \in 1 .. n /\ j \in 1 .. n
      BY <1>7, <2>1
    <3>2. new[j - 1] = kvs[j - 1] /\ new[j] = kvs[j]
      BY <1>7, <3>1
    <3> QED BY <1>1, <2>1, <3>2 DEF Follows, n
  <2>2. CASE j = n + 1
    <3>1. n >= 1 /\ j - 1 = n
      BY <1>7, <2>2
    <3> QED BY <1>5, <1>7, <1>10, <2>2, <3>1
  <2>3. j \in 2 .. n \/ j = n + 1
    BY <1>7
  <2> QED BY <2>1, <2>2, <2>3
<1>12. FiltersUpTo(w.filter_block, w.offset)
  BY <1>1, <1>3, AddKeyFilters
<1>13. Filling(w)
  BY <1>3, <1>4, <1>6, <1>8, <1>11, <1>12 DEF Filling, bef
<1> QED BY <1>3, <1>4, <1>5, <1>7, <1>8, <1>13 DEF w, n, kvs

-----------------------------------------------------------------------------

\* hist, the history of add(), has an entry with this key.
WasAdded(k, hist) == \E j \in 1 .. Len(hist) : hist[j].key = k

\* k belongs after a block with these entries and this separator: it is above
\* the separator, or equal to it where nothing lies in between.
NotBelow(body, sep, k) ==
    \/ Less(sep, k)
    \/ /\ sep = k
       /\ body # <<>> => k = Append(Last(body).key, 0)

\* Separator i of the index divides the entries of block i from all later ones.
Separates(t, i) ==
    LET sep  == t.index_block.kvs[i].key
        body == t.dst[i].body
    IN  /\ \A m \in 1 .. Len(body) : Less(body[m].key, sep)
        /\ \A j \in i + 1 .. Len(t.dst) : \A m \in 1 .. Len(t.dst[j].body) :
              NotBelow(body, sep, t.dst[j].body[m].key)
        /\ \A m \in 1 .. Len(t.data_block.kvs) : NotBelow(body, sep, t.data_block.kvs[m].key)

\* The table of a caller who adds the keys in order.
Sorted(t, hist) ==
    /\ t.prev_block_last_key # <<>> => WasAdded(t.prev_block_last_key, hist)
    /\ t.data_block.kvs # <<>> => WasAdded(KeyOfLast(t.data_block.kvs), hist)
    /\ \A i \in 1 .. Len(t.dst) : Separates(t, i)

\* Only the first data block may be without entries, and only for a moment.
Started(t) == Len(t.dst) > 0 => t.data_block.kvs # <<>>

\* What is above the last key is above every separator.
LEMMA AboveSeparators ==
    ASSUME NEW t, Filling(t), NEW hist, Sorted(t, hist), Started(t),
           NEW k \in ByteString,
           t.data_block.kvs # <<>> => Less(KeyOfLast(t.data_block.kvs), k)
    PROVE  \A i \in 1 .. Len(t.dst) : Less(t.index_block.kvs[i].key, k)
<1> SUFFICES ASSUME NEW i \in 1 .. Len(t.dst)
             PROVE  Less(t.index_block.kvs[i].key, k)
  OBVIOUS
<1> DEFINE kvs  == t.data_block.kvs
           n    == Len(kvs)
           last == KeyOfLast(kvs)
           sep  == t.index_block.kvs[i].key
           body == t.dst[i].body
<1>1. Len(t.dst) \in Nat /\ kvs \in Seq(KeyValue) /\ sep \in ByteString
  BY DEF Filling, IsSeq, Holds, IndexHolds
<1>2. kvs # <<>>
  BY <1>1 DEF Started
<1>3. last \in ByteString /\ n \in 1 .. n /\ last = kvs[n].key
  BY <1>1, <1>2, LastKeyOf
<1>4. NotBelow(body, sep, last)
  <2>1. Separates(t, i)
    BY DEF Sorted
  <2> QED BY <1>3, <2>1 DEF Separates
<1>5. Less(last, k)
  BY <1>2
<1> HIDE DEF last, sep
<1>6. Less(sep, last) \/ sep = last
  BY <1>4 DEF NotBelow
<1>7. Less(sep, k)
  BY <1>1, <1>3, <1>5, <1>6, LessTransitive
<1> QED BY <1>7 DEF sep

\* The separator of the block being filled and a key after it.
LEMMA NextSeparator ==
    ASSUME NEW t, Filling(t), NEW k \in ByteString,
           t.data_block.kvs # <<>> => Less(KeyOfLast(t.data_block.kvs), k)
    PROVE  /\ Separator(t, k) \in ByteString
           /\ ~SepPanics(t.data_block.bb.last_key, k)
           /\ t.data_block.kvs # <<>> => Less(KeyOfLast(t.data_block.kvs), Separator(t, k))
           /\ NotBelow(t.data_block.kvs, Separator(t, k), k)
<1> DEFINE kvs  == t.data_block.kvs
           last == t.data_block.bb.last_key
           sep  == find_shortest_sep(last, k)
<1>1. kvs \in Seq(KeyValue) /\ last = KeyOfLast(kvs)
  BY DEF Filling, Holds, KeyOfLast
<1>2. /\ last \in ByteString
      /\ kvs = <<>> => last = <<>>
      /\ kvs # <<>> => last = Last(kvs).key
  BY <1>1, LastKeyOf
<1>3. Separator(t, k) = sep /\ sep \in ByteString
  BY <1>2, SeparatorIsKey DEF Separator
<1>4. CASE Less(last, k)
  <2>1. SeparatorOK(last, k, sep) /\ ~SepPanics(last, k)
    BY <1>2, <1>4, SeparatorSeparates
  <2>2. Less(last, sep)
    BY <2>1 DEF SeparatorOK
  <2>3. NotBelow(kvs, sep, k)
    BY <1>2, <2>1 DEF SeparatorOK, NotBelow
  <2> QED BY <1>1, <1>3, <2>1, <2>2, <2>3
<1>5. CASE kvs = <<>> /\ k = <<>>
  <2>1. last = k
    BY <1>2, <1>5
  <2>2. sep = k /\ ~SepPanics(last, k)
    BY <2>1 DEF find_shortest_sep, SepPanics
  <2> QED BY <1>3, <1>5, <2>2 DEF NotBelow
<1>6. Less(last, k) \/ (kvs = <<>> /\ k = <<>>)
  BY <1>1, <1>2, AboveEmpty
<1> QED BY <1>4, <1>5, <1>6

\* No assertion fails when the block being filled is closed.
LEMMA WriteDoesNotPanic ==
    ASSUME NEW t, Filling(t), NEW hist, Sorted(t, hist), Started(t),
           NEW k \in ByteString,
           t.data_block.kvs # <<>> => Less(KeyOfLast(t.data_block.kvs), k)
    PROVE  /\ ~SepPanics(t.data_block.bb.last_key, k)
           /\ Addressable(t.offset + StoredLen(t.data_block) + TrailerLen) =>
                 ~WriteDataBlockPanics(t, k)
<1> DEFINE sep == Separator(t, k)
           d   == Len(t.dst)
           to  == t.offset + StoredLen(t.data_block) + TrailerLen
<1>1. /\ sep \in ByteString /\ ~SepPanics(t.data_block.bb.last_key, k)
      /\ t.data_block.kvs # <<>> => Less(KeyOfLast(t.data_block.kvs), sep)
  BY NextSeparator
<1>2. \A i \in 1 .. d : Less(t.index_block.kvs[i].key, sep)
  BY <1>1, AboveSeparators
<1>3. /\ d \in Nat /\ IndexHolds(t.index_block, d) /\ t.offset \in Nat
      /\ FiltersUpTo(t.filter_block, t.offset) /\ StoredLen(t.data_block) \in Nat
  BY StoredLenIsNat DEF Filling, IsSeq
<1> HIDE DEF sep, d
<1>4. ~AddPanics(t.index_block.bb, sep)
  <2>1. d > 0 => d \in 1 .. d
    BY <1>3
  <2> QED BY <1>1, <1>2, <1>3, <2>1, IndexAccepts
<1>5. to \in Nat /\ t.offset <= to
  BY <1>3 DEF TrailerLen
<1>6. Addressable(to) => ~StartBlockPanics(t.filter_block, to)
  BY <1>3, <1>5, StartBlockHolds DEF Addressable
<1>7. Addressable(to) => ~HandleTooLong(HandleFor(t, StoredLen(t.data_block)))
  <2> DEFINE h == HandleFor(t, StoredLen(t.data_block))
  <2>1. h.offset = t.offset /\ h.size = StoredLen(t.data_block)
    BY DEF HandleFor
  <2>2. Addressable(to) => t.offset <= 1125899906842623 /\ StoredLen(t.data_block) <= 1125899906842623
    BY <1>3 DEF Addressable, TrailerLen
  <2> HIDE DEF h
  <2>3. Addressable(to) => ~HandleTooLong(h)
    BY <1>3, <2>1, <2>2, HandleFits
  <2> QED BY <2>3 DEF h
<1> QED BY <1>1, <1>4, <1>6, <1>7 DEF WriteDataBlockPanics, sep

\* Closing a block keeps the table of an ordered caller in order, and the next
\* key belongs after every block.
LEMMA WriteSorted ==
    ASSUME BlockRestartInterval > 0,
           NEW t, Filling(t), NEW hist, Sorted(t, hist), Started(t),
           NEW k \in ByteString, NEW n,
           t.data_block.kvs # <<>> => Less(KeyOfLast(t.data_block.kvs), k)
    PROVE  LET w == WriteDataBlock(t, n, k)
           IN  /\ Sorted(w, hist)
               /\ \A i \in 1 .. Len(w.dst) :
                     NotBelow(w.dst[i].body, w.index_block.kvs[i].key, k)
<1> DEFINE w   == WriteDataBlock(t, n, k)
           d   == Len(t.dst)
           kvs == t.data_block.kvs
           sep == Separator(t, k)
           sp(i) == t.index_block.kvs[i].key
<1>1. /\ w.data_block = NewBlock
      /\ d \in Nat /\ Len(w.dst) = d + 1
      /\ w.dst[d + 1].body = kvs
      /\ \A i \in 1 .. d : w.dst[i] = t.dst[i]
      /\ w.index_block.kvs[d + 1].key = sep
      /\ \A i \in 1 .. d : w.index_block.kvs[i] = t.index_block.kvs[i]
      /\ w.prev_block_last_key = KeyOfLast(kvs)
  BY WriteHolds
<1>2. /\ sep \in ByteString
      /\ kvs # <<>> => Less(KeyOfLast(kvs), sep)
      /\ NotBelow(kvs, sep, k)
  BY NextSeparator
<1>3. \A i \in 1 .. d : Less(sp(i), k)
  BY AboveSeparators
<1>4. kvs \in Seq(KeyValue) /\ Ascending(kvs)
  BY DEF Filling, Holds
<1>5. w.data_block.kvs = <<>>
  BY <1>1 DEF NewBlock
<1>6. \A i \in 1 .. d : Separates(t, i)
  BY DEF Sorted
<1>7. kvs # <<>> => WasAdded(KeyOfLast(kvs), hist)
  BY DEF Sorted
<1> HIDE DEF w, d, sep, kvs
<1>8. \A i \in 1 .. d + 1 : i \in 1 .. d \/ i = d + 1
  BY <1>1
<1>9. \A m \in 1 .. Len(kvs) : Less(kvs[m].key, sep)
  <2> SUFFICES ASSUME NEW m \in 1 .. Len(kvs) PROVE Less(kvs[m].key, sep)
    OBVIOUS
  <2>1. /\ Len(kvs) \in Nat /\ kvs # <<>> /\ Len(kvs) \in 1 .. Len(kvs)
        /\ KeyOfLast(kvs) = kvs[Len(kvs)].key /\ KeyOfLast(kvs) \in ByteString
        /\ kvs[m].key \in ByteString
    BY <1>4, LastKeyOf
  <2>2. CASE m = Len(kvs)
    BY <1>2, <2>1, <2>2
  <2>3. CASE m < Len(kvs)
    <3>1. Less(kvs[m].key, KeyOfLast(kvs))
      BY <1>4, <2>1, <2>3 DEF Ascending
    <3> QED BY <1>2, <2>1, <3>1, LessTransitive
  <2> QED BY <2>1, <2>2, <2>3
<1>10. \A i \in 1 .. d + 1 : Separates(w, i)
  <2> SUFFICES ASSUME NEW i \in 1 .. d + 1 PROVE Separates(w, i)
    OBVIOUS
  <2> DEFINE body == w.dst[i].body
             s    == w.index_block.kvs[i].key
  <2>1. \A m \in 1 .. Len(w.data_block.kvs) : NotBelow(body, s, w.data_block.kvs[m].key)
    BY <1>5
  <2>2. CASE i \in 1 .. d
    <3>1. body = t.dst[i].body /\ s = sp(i)
      BY <1>1, <2>2
    <3>2. \A m \in 1 .. Len(body) : Less(body[m].key, s)
      BY <1>6, <2>2, <3>1 DEF Separates
    <3>3. ASSUME NEW j \in i + 1 .. d + 1, NEW m \in 1 .. Len(w.dst[j].body)
          PROVE  NotBelow(body, s, w.dst[j].body[m].key)
      <4>1. CASE j \in i + 1 .. d
        <5>1. j \in 1 .. d
          BY <1>1, <2>2, <4>1
        <5>2. w.dst[j] = t.dst[j]
          BY <1>1, <5>1
        <5> QED BY <1>6, <2>2, <3>1, <3>3, <4>1, <5>2 DEF Separates, d
      <4>2. CASE j = d + 1
        BY <1>1, <1>6, <2>2, <3>1, <3>3, <4>2 DEF Separates, kvs
      <4>3. j \in i + 1 .. d \/ j = d + 1
        BY <1>1
      <4> QED BY <4>1, <4>2, <4>3
    <3> QED BY <1>1, <2>1, <3>2, <3>3 DEF Separates
  <2>3. CASE i = d + 1
    <3>1. body = kvs /\ s = sep
      BY <1>1, <2>3
    <3>2. i + 1 .. d + 1 = {}
      BY <1>1, <2>3
    <3> QED BY <1>1, <1>9, <2>1, <3>1, <3>2 DEF Separates
  <2> QED BY <1>8, <2>2, <2>3
<1>11. w.prev_block_last_key # <<>> => WasAdded(w.prev_block_last_key, hist)
  <2>1. kvs = <<>> => KeyOfLast(kvs) = <<>>
    BY <1>4, LastKeyOf
  <2> QED BY <1>1, <1>7, <2>1
<1>12. Sorted(w, hist)
  BY <1>1, <1>5, <1>10, <1>11 DEF Sorted
<1>13. \A i \in 1 .. d + 1 : NotBelow(w.dst[i].body, w.index_block.kvs[i].key, k)
  <2> SUFFICES ASSUME NEW i \in 1 .. d + 1
               PROVE  NotBelow(w.dst[i].body, w.index_block.kvs[i].key, k)
    OBVIOUS
  <2>1. CASE i \in 1 .. d
    BY <1>1, <1>3, <2>1 DEF NotBelow
  <2>2. CASE i = d + 1
    BY <1>1, <1>2, <2>2
  <2> QED BY <1>8, <2>1, <2>2
<1> QED BY <1>1, <1>12, <1>13 DEF w

\* So does a pair whose key belongs after every block.
LEMMA PairSorted ==
    ASSUME BlockRestartInterval > 0,
           NEW t, Filling(t), NEW hist \in Seq(Pairs), Sorted(t, hist),
           NEW k \in Keys, NEW v \in Vals, ~AddPanics(t.data_block.bb, k),
           \/ t.data_block.kvs = <<>>
           \/ ~BelowPrevBlock(t, k),
           \A i \in 1 .. Len(t.dst) : NotBelow(t.dst[i].body, t.index_block.kvs[i].key, k)
    PROVE  Sorted(Paired(t, k, v), Append(hist, [key |-> k, val |-> v]))
<1> DEFINE w   == Paired(t, k, v)
           kv  == [key |-> k, val |-> v]
           new == Append(hist, kv)
           n   == Len(t.data_block.kvs)
<1>1. /\ w.dst = t.dst /\ w.index_block = t.index_block
      /\ w.prev_block_last_key = t.prev_block_last_key
      /\ n \in Nat /\ Len(w.data_block.kvs) = n + 1
      /\ KeyOfLast(w.data_block.kvs) = k
      /\ w.data_block.kvs[n + 1].key = k
      /\ \A m \in 1 .. n : w.data_block.kvs[m] = t.data_block.kvs[m]
  BY PairHolds
<1>2. kv \in Pairs /\ kv.key = k
  BY DEF Pairs
<1> HIDE DEF w, kv
<1>3. /\ Len(hist) \in Nat /\ Len(new) = Len(hist) + 1 /\ new[Len(hist) + 1] = kv
      /\ \A j \in 1 .. Len(hist) : new[j] = hist[j]
  BY <1>2, AppendProperties
<1> HIDE DEF new
<1>4. WasAdded(k, new)
  <2>1. Len(hist) + 1 \in 1 .. Len(new)
    BY <1>3
  <2> QED BY <1>2, <1>3, <2>1 DEF WasAdded
<1>5. \A x : WasAdded(x, hist) => WasAdded(x, new)
  <2> SUFFICES ASSUME NEW x, NEW j \in 1 .. Len(hist), hist[j].key = x
               PROVE  WasAdded(x, new)
    BY DEF WasAdded
  <2>1. j \in 1 .. Len(new) /\ new[j] = hist[j]
    BY <1>3
  <2> QED BY <2>1 DEF WasAdded
<1>6. \A i \in 1 .. Len(t.dst) : Separates(w, i)
  <2> SUFFICES ASSUME NEW i \in 1 .. Len(t.dst) PROVE Separates(w, i)
    OBVIOUS
  <2>1. Separates(t, i) /\ NotBelow(t.dst[i].body, t.index_block.kvs[i].key, k)
    BY DEF Sorted
  <2>2. \A m \in 1 .. n + 1 : m \in 1 .. n \/ m = n + 1
    BY <1>1
  <2>3. \A m \in 1 .. n + 1 :
           NotBelow(t.dst[i].body, t.index_block.kvs[i].key, w.data_block.kvs[m].key)
    <3> SUFFICES ASSUME NEW m \in 1 .. n + 1
                 PROVE  NotBelow(t.dst[i].body, t.index_block.kvs[i].key, w.data_block.kvs[m].key)
      OBVIOUS
    <3>1. CASE m \in 1 .. n
      BY <1>1, <2>1, <3>1 DEF Separates
    <3>2. CASE m = n + 1
      BY <1>1, <2>1, <3>2
    <3> QED BY <2>2, <3>1, <3>2
  <2> QED BY <1>1, <2>1, <2>3 DEF Separates
<1> QED BY <1>1, <1>4, <1>5, <1>6 DEF Sorted, w, new, kv

-----------------------------------------------------------------------------

Working == {"open", "filter", "metaindex", "index", "footer"}

\* The file is short enough for its filters and handles.
SmallFile == Addressable(tb.offset)

\* The handle of the filter block, before it goes into the metaindex.
FilterHandleWithin ==
    LET h == tb.handles["filter"]
    IN  /\ tb.offset \in Nat /\ h.offset \in Nat /\ h.size \in Nat
        /\ h.offset <= tb.offset /\ h.size <= tb.offset

\* The inductive invariant.  The order of the keys matters only while the table
\* is open; what the file has to keep after that is the order within blocks.
Inv ==
    /\ DOMAIN tb = TableFields /\ IsSeq(tb.dst) /\ BlocksFollow(tb.dst)
    /\ added \in Seq(Pairs)
    /\ pc = "open" => Filling(tb) /\ Started(tb)
    /\ pc = "open" /\ ordered => Sorted(tb, added)
    /\ pc = "filter" => /\ tb.offset \in Nat /\ "filter" \in DOMAIN tb.handles
                        /\ FiltersUpTo(tb.filter_block, tb.offset)
    /\ pc = "metaindex" => FilterHandleWithin
    /\ pc = "broken" => Has("torn")
    /\ SmallFile => OrderedNeverPanics
    /\ ~ShortWrites /\ pc \in Working => tb.written = tb.offset
    /\ ~ShortWrites => ResultIsFileSize

\* An empty table.
LEMMA InitHolds ==
    ASSUME BlockRestartInterval > 0, Init
    PROVE  Inv
<1>1. /\ pc = "open" /\ tb = NewTable /\ added = <<>>
      /\ tb.dst = <<>> /\ tb.offset = 0 /\ tb.written = 0 /\ tb.prev_block_last_key = <<>>
      /\ tb.data_block = NewBlock /\ tb.index_block = NewBlock
      /\ tb.filter_block = NewFilterBuilder /\ DOMAIN tb = TableFields
      /\ "filter" \in DOMAIN tb.handles
  BY DEF Init, NewTable, TableFields
<1>2. IsSeq(tb.dst) /\ Len(tb.dst) = 0 /\ 1 .. 0 = {} /\ 0 + 1 = 1
  BY <1>1, EmptyIsSeq
<1>3. NewBlock.bb = NewBlockBuilder /\ NewBlock.kvs = <<>>
  BY DEF NewBlock
<1>4. Holds(tb.data_block.bb, tb.data_block.kvs)
  BY <1>1, <1>3, NewHolds
<1>5. IndexHolds(tb.index_block, 0)
  <2>1. NewBlockBuilder.buffer = <<>> /\ NewBlockBuilder.restart_counter = 0
    BY DEF NewBlockBuilder
  <2> QED BY <1>1, <1>2, <1>3, <2>1, EmptyIsSeq, RestartIntervalAssumption DEF IndexHolds
<1>6. FiltersUpTo(tb.filter_block, 0)
  <2>1. /\ DOMAIN NewFilterBuilder = FilterFields /\ NewFilterBuilder.filter_offsets = <<>>
        /\ NewFilterBuilder.bytes = 0
    BY DEF NewFilterBuilder, FilterFields
  <2>2. 0 \div FilterBase = 0
    BY FilterAssumption
  <2> QED BY <1>1, <2>1, <2>2, EmptyIsSeq DEF FiltersUpTo
<1>7. BodyBefore(tb.dst, 1) = <<>> /\ KeyOfLast(<<>>) = <<>>
  BY DEF BodyBefore, KeyOfLast, KeyBefore
<1>8. Follows(<<>>, tb.data_block.kvs)
  BY <1>1, <1>3 DEF Follows
<1>9. BlocksFollow(tb.dst) /\ \A i \in 1 .. Len(tb.dst) : tb.dst[i].body \in Seq(KeyValue)
  BY <1>2 DEF BlocksFollow
<1>10. Filling(tb)
  BY <1>1, <1>2, <1>4, <1>5, <1>6, <1>7, <1>8, <1>9 DEF Filling
<1>11. Started(tb) /\ Sorted(tb, added)
  BY <1>1, <1>2, <1>3 DEF Started, Sorted
<1>12. added \in Seq(Pairs)
  BY <1>1
<1> QED BY <1>1, <1>2, <1>9, <1>10, <1>11, <1>12 DEF Inv, OrderedNeverPanics, ResultIsFileSize

\* A key in order passes the assertion at the head of add(), and is above what
\* the block being filled has.
LEMMA InOrderKey ==
    ASSUME Filling(tb), Sorted(tb, added), NEW k, InOrder(k)
    PROVE  /\ ~BelowPrevBlock(tb, k)
           /\ tb.data_block.kvs # <<>> => Less(KeyOfLast(tb.data_block.kvs), k)
BY DEF Sorted, WasAdded, InOrder, BelowPrevBlock

\* The end of add(), on the table as it was or with the block closed.
LEMMA AddPairHolds ==
    ASSUME BlockRestartInterval > 0,
           NEW t, Filling(t), NEW k \in Keys, NEW v \in Vals, added \in Seq(Pairs), pc = "open",
           \/ t.data_block.kvs = <<>>
           \/ ~BelowPrevBlock(t, k),
           ordered' => /\ Sorted(t, added)
                       /\ \A i \in 1 .. Len(t.dst) :
                             NotBelow(t.dst[i].body, t.index_block.kvs[i].key, k)
                       /\ ~AddPanics(t.data_block.bb, k),
           ~ShortWrites => t.written = t.offset,
           AddPair(t, k, v)
    PROVE  Inv'
<1>1. DOMAIN t = TableFields /\ IsSeq(t.dst) /\ BlocksFollow(t.dst)
  BY DEF Filling
<1>2. CASE AddPanics(t.data_block.bb, k)
  <2>1. /\ pc' = "panic" /\ added' = added /\ ~ordered'
        /\ tb' = [t EXCEPT !.filter_block = add_key(@, k)]
    BY <1>2 DEF AddPair
  <2>2. DOMAIN tb' = TableFields /\ tb'.dst = t.dst
    BY <1>1, <2>1 DEF TableFields
  <2> QED BY <1>1, <2>1, <2>2 DEF Inv, OrderedNeverPanics, ResultIsFileSize, Working
<1>3. CASE ~AddPanics(t.data_block.bb, k)
  <2> DEFINE w  == Paired(t, k, v)
             kv == [key |-> k, val |-> v]
  <2>1. pc' = "open" /\ tb' = w /\ added' = Append(added, kv)
    BY <1>3 DEF AddPair, Paired
  <2>2. Filling(w) /\ w.data_block.kvs # <<>>
    BY <1>3, PairHolds
  <2>3. ordered' => Sorted(w, Append(added, kv))
    BY <1>3, PairSorted
  <2>4. w.written = t.written /\ w.offset = t.offset
    BY <1>1, PairedFields
  <2>5. kv \in Pairs
    BY DEF Pairs
  <2> HIDE DEF w, kv
  <2>6. added' \in Seq(Pairs)
    BY <2>1, <2>5, AppendProperties
  <2>7. DOMAIN w = TableFields /\ IsSeq(w.dst) /\ BlocksFollow(w.dst) /\ Started(w)
    BY <2>2 DEF Filling, Started
  <2> QED BY <2>1, <2>2, <2>3, <2>4, <2>6, <2>7
          DEF Inv, OrderedNeverPanics, ResultIsFileSize, Working
<1> QED BY <1>2, <1>3

\* A panic inside write_data_block leaves the blocks in order.
LEMMA DiesKeepsBlocks ==
    ASSUME Filling(tb), NEW k, DiesInWrite(tb, k)
    PROVE  /\ DOMAIN tb' = TableFields /\ IsSeq(tb'.dst) /\ BlocksFollow(tb'.dst)
           /\ ~SepPanics(tb.data_block.bb.last_key, k) =>
                 tb'.offset = tb.offset + StoredLen(tb.data_block) + TrailerLen
<1> DEFINE len   == StoredLen(tb.data_block)
           taken == [tb EXCEPT !.data_block = NewBlock]
           kvs   == tb.data_block.kvs
           last  == tb.data_block.bb.last_key
<1>1. /\ DOMAIN tb = TableFields /\ IsSeq(tb.dst) /\ BlocksFollow(tb.dst)
      /\ Follows(BodyBefore(tb.dst, Len(tb.dst) + 1), kvs)
  BY DEF Filling
<1>2. DOMAIN taken = TableFields /\ taken.dst = tb.dst /\ taken.offset = tb.offset
  BY <1>1 DEF TableFields
<1>3. CASE SepPanics(last, k)
  BY <1>1, <1>2, <1>3 DEF DiesInWrite
<1>4. CASE ~SepPanics(last, k)
  <2>1. PICK n \in Accepted(len) :
           tb' = [WriteBlock(taken, "data", n, ctype, len, kvs) EXCEPT
                     !.prev_block_last_key = last]
    BY <1>4 DEF DiesInWrite
  <2> DEFINE u   == WriteBlock(taken, "data", n, ctype, len, kvs)
             seg == Segment(taken, "data", n, ctype, len, kvs)
  <2> HIDE DEF taken
  <2>2. /\ DOMAIN u = TableFields /\ u.dst = Append(taken.dst, seg)
        /\ u.offset = taken.offset + len + TrailerLen
    BY <1>2, WriteBlockFields
  <2>3. seg.body = kvs
    BY SegmentFields
  <2> HIDE DEF u, seg
  <2>4. DOMAIN tb' = TableFields /\ tb'.dst = u.dst /\ tb'.offset = u.offset
    BY <2>1, <2>2 DEF TableFields, u
  <2> QED BY <1>1, <1>2, <2>2, <2>3, <2>4, BlocksKept
<1> QED BY <1>3, <1>4

\* add() keeps the invariant, ...
LEMMA AddKeeps ==
    ASSUME BlockRestartInterval > 0, Inv, NEW k \in Keys, NEW v \in Vals, add(k, v)
    PROVE  Inv'
<1>1. /\ pc = "open" /\ Filling(tb) /\ Started(tb) /\ added \in Seq(Pairs)
      /\ ordered' = (ordered /\ InOrder(k))
      /\ DOMAIN tb = TableFields /\ IsSeq(tb.dst) /\ BlocksFollow(tb.dst)
      /\ ~ShortWrites => tb.written = tb.offset
      /\ ordered => Sorted(tb, added)
  BY DEF add, Inv, Working
<1>2. k \in ByteString
  BY TableAssumption
<1>3. ASSUME ordered'
      PROVE  /\ Sorted(tb, added)
             /\ ~BelowPrevBlock(tb, k)
             /\ tb.data_block.kvs # <<>> => Less(KeyOfLast(tb.data_block.kvs), k)
  BY <1>1, <1>3, InOrderKey
<1>4. CASE BelowPrevBlock(tb, k)
  <2>1. pc' = "panic" /\ tb' = tb /\ added' = added /\ ~ordered'
    BY <1>1, <1>3, <1>4 DEF add
  <2> QED BY <1>1, <2>1 DEF Inv, OrderedNeverPanics, ResultIsFileSize, Working
<1>5. CASE ~BelowPrevBlock(tb, k) /\ ~BlockFull(tb)
  <2>1. AddPair(tb, k, v)
    BY <1>5 DEF add
  <2>2. ASSUME ordered'
        PROVE  /\ \A i \in 1 .. Len(tb.dst) :
                     NotBelow(tb.dst[i].body, tb.index_block.kvs[i].key, k)
               /\ ~AddPanics(tb.data_block.bb, k)
    <3>1. \A i \in 1 .. Len(tb.dst) : Less(tb.index_block.kvs[i].key, k)
      BY <1>1, <1>2, <1>3, <2>2, AboveSeparators
    <3>2. /\ Holds(tb.data_block.bb, tb.data_block.kvs)
          /\ tb.data_block.bb.buffer \in Seq(Entry) /\ tb.data_block.kvs \in Seq(KeyValue)
          /\ tb.data_block.bb.restart_counter \in Nat
      BY <1>1 DEF Filling, Holds, BuilderType
    <3>3. tb.data_block.bb.buffer # <<>> => tb.data_block.kvs # <<>>
      BY <3>2 DEF Holds
    <3>4. /\ tb.data_block.bb.last_key = KeyOfLast(tb.data_block.kvs)
          /\ tb.data_block.bb.restart_counter <= BlockRestartInterval
      BY <3>2 DEF Holds, KeyOfLast, RestartsHold
    <3>5. ~AddPanics(tb.data_block.bb, k)
      BY <1>3, <2>2, <3>2, <3>3, <3>4, RestartIntervalAssumption DEF AddPanics
    <3> QED BY <3>1, <3>5 DEF NotBelow
  <2> QED BY <1>1, <1>3, <1>5, <2>1, <2>2, AddPairHolds
<1>6. CASE ~BelowPrevBlock(tb, k) /\ BlockFull(tb) /\ WriteDataBlockPanics(tb, k)
  <2>1. pc' = "panic" /\ DiesInWrite(tb, k) /\ added' = added
    BY <1>6 DEF add
  <2>2. /\ DOMAIN tb' = TableFields /\ IsSeq(tb'.dst) /\ BlocksFollow(tb'.dst)
        /\ ~SepPanics(tb.data_block.bb.last_key, k) =>
              tb'.offset = tb.offset + StoredLen(tb.data_block) + TrailerLen
    BY <1>1, <2>1, DiesKeepsBlocks
  <2>3. ordered' => ~Addressable(tb'.offset)
    BY <1>1, <1>2, <1>3, <1>6, <2>2, WriteDoesNotPanic
  <2> QED BY <1>1, <2>1, <2>2, <2>3
          DEF Inv, SmallFile, OrderedNeverPanics, ResultIsFileSize, Working
<1>7. CASE ~BelowPrevBlock(tb, k) /\ BlockFull(tb) /\ ~WriteDataBlockPanics(tb, k)
  <2>1. PICK n \in Accepted(StoredLen(tb.data_block)) : AddPair(WriteDataBlock(tb, n, k), k, v)
    BY <1>7 DEF add
  <2> DEFINE w == WriteDataBlock(tb, n, k)
  <2>2. Filling(w) /\ w.data_block = NewBlock
    BY <1>1, <1>2, WriteHolds
  <2>3. ordered' => /\ Sorted(w, added)
                    /\ \A i \in 1 .. Len(w.dst) :
                          NotBelow(w.dst[i].body, w.index_block.kvs[i].key, k)
    BY <1>1, <1>2, <1>3, WriteSorted
  <2>4. /\ w.written = tb.written + n + TrailerLen
        /\ w.offset = tb.offset + StoredLen(tb.data_block) + TrailerLen
    BY <1>1, WriteDataBlockFields
  <2> HIDE DEF w
  <2>5. ~ShortWrites => w.written = w.offset
    BY <1>1, <2>4 DEF Accepted
  <2>6. w.data_block.kvs = <<>> /\ ~AddPanics(w.data_block.bb, k)
    BY <2>2, RestartIntervalAssumption DEF NewBlock, NewBlockBuilder, AddPanics
  <2>7. AddPair(w, k, v)
    BY <2>1 DEF w
  <2> QED BY <1>1, <2>2, <2>3, <2>5, <2>6, <2>7, AddPairHolds
<1> QED BY <1>4, <1>5, <1>6, <1>7

\* A torn segment at the end of the file.
LEMMA TornKeepsBlocks ==
    ASSUME DOMAIN tb = TableFields, IsSeq(tb.dst), BlocksFollow(tb.dst),
           NEW t, NEW n, NEW body,
           t.dst = Append(tb.dst, Segment(tb, "torn", n, ctype, n, body))
    PROVE  /\ IsSeq(t.dst) /\ BlocksFollow(t.dst)
           /\ \E i \in 1 .. Len(t.dst) : t.dst[i].kind = "torn"
<1> DEFINE seg == Segment(tb, "torn", n, ctype, n, body)
<1>1. seg.kind = "torn"
  BY SegmentFields
<1> HIDE DEF seg
<1>2. /\ IsSeq(t.dst) /\ BlocksFollow(t.dst)
      /\ Len(t.dst) = Len(tb.dst) + 1 /\ Len(tb.dst) \in Nat /\ t.dst[Len(tb.dst) + 1] = seg
  BY <1>1, BlocksKept DEF seg
<1>3. Len(tb.dst) + 1 \in 1 .. Len(t.dst)
  BY <1>2
<1> QED BY <1>1, <1>2, <1>3

\* ... when a write fails in it, ...
LEMMA AddFailsKeeps ==
    ASSUME Inv, NEW k \in Keys, addFails(k)
    PROVE  Inv'
<1>1. /\ DOMAIN tb = TableFields /\ IsSeq(tb.dst) /\ BlocksFollow(tb.dst)
      /\ added \in Seq(Pairs) /\ added' = added /\ pc' = "broken"
  BY DEF Inv, addFails
<1>2. PICK n : tb' = [TornBlock(tb, n, tb.data_block.kvs) EXCEPT
                         !.prev_block_last_key = tb.data_block.bb.last_key,
                         !.data_block = NewBlock]
  BY DEF addFails
<1> DEFINE u == TornBlock(tb, n, tb.data_block.kvs)
<1>3. DOMAIN u = TableFields /\ u.dst = Append(tb.dst, Segment(tb, "torn", n, ctype, n, tb.data_block.kvs))
  BY <1>1, TornBlockFields
<1> HIDE DEF u
<1>4. DOMAIN tb' = TableFields /\ tb'.dst = u.dst
  BY <1>2, <1>3 DEF TableFields, u
<1>5. /\ IsSeq(tb'.dst) /\ BlocksFollow(tb'.dst)
      /\ \E i \in 1 .. Len(tb'.dst) : tb'.dst[i].kind = "torn"
  BY <1>1, <1>3, <1>4, TornKeepsBlocks
<1> QED BY <1>1, <1>4, <1>5 DEF Inv, Has, OrderedNeverPanics, ResultIsFileSize, Working

\* ... and after that.
LEMMA UseBrokenKeeps ==
    ASSUME Inv, useBroken
    PROVE  Inv'
BY DEF Inv, useBroken, Has, OrderedNeverPanics, ResultIsFileSize, Working

\* The first step of finish(), which closes the last block.
LEMMA FinishKeeps ==
    ASSUME BlockRestartInterval > 0, Inv, finish
    PROVE  Inv'
<1>1. /\ pc = "open" /\ Filling(tb) /\ Started(tb) /\ added \in Seq(Pairs)
      /\ added' = added /\ ordered' = ordered
      /\ DOMAIN tb = TableFields /\ IsSeq(tb.dst) /\ BlocksFollow(tb.dst)
      /\ ~ShortWrites => tb.written = tb.offset
      /\ ordered => Sorted(tb, added)
  BY DEF finish, Inv, Working
<1> DEFINE last == tb.data_block.bb.last_key
           past == find_short_succ(last)
<1>2. /\ tb.data_block.kvs \in Seq(KeyValue) /\ last = KeyOfLast(tb.data_block.kvs)
  BY <1>1 DEF Filling, Holds, KeyOfLast
<1>3. past \in ByteString /\ Less(last, past)
  BY <1>2, LastKeyOf, SuccessorIsKey
<1>4. CASE ~Pending(tb)
  <2>1. pc' = "filter" /\ tb' = tb
    BY <1>4 DEF finish
  <2> QED BY <1>1, <2>1 DEF Inv, Filling, OrderedNeverPanics, ResultIsFileSize, Working
<1>5. CASE Pending(tb) /\ WriteDataBlockPanics(tb, past)
  <2>1. pc' = "panic" /\ DiesInWrite(tb, past)
    BY <1>5 DEF finish
  <2>2. /\ DOMAIN tb' = TableFields /\ IsSeq(tb'.dst) /\ BlocksFollow(tb'.dst)
        /\ ~SepPanics(last, past) =>
              tb'.offset = tb.offset + StoredLen(tb.data_block) + TrailerLen
    BY <1>1, <2>1, DiesKeepsBlocks
  <2>3. ordered => ~Addressable(tb'.offset)
    BY <1>1, <1>2, <1>3, <1>5, <2>2, WriteDoesNotPanic
  <2> QED BY <1>1, <2>1, <2>2, <2>3
          DEF Inv, SmallFile, OrderedNeverPanics, ResultIsFileSize, Working
<1>6. CASE Pending(tb) /\ ~WriteDataBlockPanics(tb, past)
  <2>1. /\ pc' = "filter"
        /\ \E n \in Accepted(StoredLen(tb.data_block)) : tb' = WriteDataBlock(tb, n, past)
    BY <1>6 DEF finish
  <2>2. PICK n \in Accepted(StoredLen(tb.data_block)) : tb' = WriteDataBlock(tb, n, past)
    BY <2>1
  <2> DEFINE w == WriteDataBlock(tb, n, past)
  <2>3. Filling(w)
    BY <1>1, <1>3, WriteHolds
  <2>4. /\ w.written = tb.written + n + TrailerLen
        /\ w.offset = tb.offset + StoredLen(tb.data_block) + TrailerLen
    BY <1>1, WriteDataBlockFields
  <2>5. tb' = w
    BY <2>2
  <2> HIDE DEF w
  <2>6. ~ShortWrites => w.written = w.offset
    BY <1>1, <2>4 DEF Accepted
  <2>7. /\ DOMAIN w = TableFields /\ IsSeq(w.dst) /\ BlocksFollow(w.dst)
        /\ w.offset \in Nat /\ "filter" \in DOMAIN w.handles
        /\ FiltersUpTo(w.filter_block, w.offset)
    BY <2>3 DEF Filling
  <2> QED BY <1>1, <2>1, <2>5, <2>6, <2>7 DEF Inv, OrderedNeverPanics, ResultIsFileSize, Working
<1> QED BY <1>4, <1>5, <1>6

\* A block that finish() writes after the data.
LEMMA FinishStepKeeps ==
    ASSUME Inv, NEW from \in Working, NEW to \in Working \ {"open"},
           NEW kind \in {"filter", "metaindex", "index"}, NEW ct, NEW len, NEW body,
           to # "filter",
           to = "metaindex" => /\ kind = "filter" /\ "filter" \in DOMAIN tb.handles
                               /\ tb.offset \in Nat /\ Stored(ct, len) \in Nat,
           FinishStep(from, to, kind, ct, len, body)
    PROVE  Inv'
<1> DEFINE stored == Stored(ct, len)
           h == HandleFor(tb, stored)
<1>1. PICK n \in Accepted(stored) :
         tb' = [WriteBlock(tb, kind, n, ct, stored, body) EXCEPT !.handles[kind] = h]
  BY DEF FinishStep
<1>2. /\ DOMAIN tb = TableFields /\ IsSeq(tb.dst) /\ BlocksFollow(tb.dst)
      /\ added \in Seq(Pairs) /\ added' = added /\ pc' = to
      /\ ~ShortWrites => tb.written = tb.offset
  BY DEF Inv, FinishStep
<1> DEFINE u   == WriteBlock(tb, kind, n, ct, stored, body)
           seg == Segment(tb, kind, n, ct, stored, body)
<1> HIDE DEF stored, h
<1>3. /\ DOMAIN u = TableFields /\ u.dst = Append(tb.dst, seg)
      /\ u.written = tb.written + n + TrailerLen
      /\ u.offset = tb.offset + stored + TrailerLen /\ u.handles = tb.handles
  BY <1>2, WriteBlockFields
<1>4. seg.kind # "data"
  BY SegmentFields
<1> HIDE DEF u, seg
<1>5. /\ DOMAIN tb' = TableFields /\ tb'.dst = u.dst /\ tb'.written = u.written
      /\ tb'.offset = u.offset /\ tb'.handles = [u.handles EXCEPT ![kind] = h]
  BY <1>1, <1>3 DEF TableFields, u
<1>6. IsSeq(tb'.dst) /\ BlocksFollow(tb'.dst)
  BY <1>2, <1>3, <1>4, <1>5, BlocksKept
<1>7. ~ShortWrites => tb'.written = tb'.offset
  BY <1>2, <1>3, <1>5 DEF Accepted
<1>8. to = "metaindex" => FilterHandleWithin'
  <2> SUFFICES ASSUME to = "metaindex" PROVE FilterHandleWithin'
    OBVIOUS
  <2>1. tb'.handles["filter"] = h /\ tb'.offset = tb.offset + stored + TrailerLen
    BY <1>3, <1>5
  <2>2. h.offset = tb.offset /\ h.size = stored /\ tb.offset \in Nat /\ stored \in Nat
    BY DEF h, HandleFor, stored
  <2> QED BY <2>1, <2>2 DEF FilterHandleWithin, TrailerLen
<1> QED BY <1>2, <1>5, <1>6, <1>7, <1>8 DEF Inv, OrderedNeverPanics, ResultIsFileSize, Working

\* The filter block; its length is a number.
LEMMA WriteFilterKeeps ==
    ASSUME Inv, writeFilter
    PROVE  Inv'
<1> DEFINE fb  == tb.filter_block
           r   == FinishFilters(fb)
           g   == IF NoKeyBytes(fb) THEN fb ELSE GenerateFilters(fb, 1)
           len == FilterBlockLen(r)
<1>1. /\ tb.offset \in Nat /\ "filter" \in DOMAIN tb.handles
      /\ IsSeq(fb.filter_offsets) /\ fb.bytes \in Nat
  BY DEF Inv, writeFilter, FinishStep, FiltersUpTo
<1>2. r.bytes = g.bytes /\ r.offsets = [i \in 1 .. Len(g.filter_offsets) |-> AsU32(g.filter_offsets[i])]
  BY DEF FinishFilters
<1>3. g.bytes \in Nat /\ Len(g.filter_offsets) \in Nat
  <2>1. CASE NoKeyBytes(fb)
    BY <1>1, <2>1 DEF IsSeq
  <2>2. CASE ~NoKeyBytes(fb)
    <3> DEFINE G == GenerateFilters(fb, 1)
               after == fb.bytes + FilterLen
               new == [i \in 1 .. 1 |-> IF i = 1 THEN fb.bytes ELSE after]
    <3>1. G.bytes = after /\ G.filter_offsets = fb.filter_offsets \o new
      BY <2>2 DEF GenerateFilters
    <3>2. after \in Nat
      BY <1>1, FilterAssumption
    <3>3. PICK S : fb.filter_offsets \in Seq(S)
      BY <1>1 DEF IsSeq
    <3> DEFINE U == S \union Nat
    <3>4. fb.filter_offsets \in Seq(U)
      BY <3>3, SeqMonotonic
    <3> HIDE DEF after
    <3>5. new \in Seq(U)
      BY <1>1, <3>2
    <3> HIDE DEF U, new, G
    <3>6. fb.filter_offsets \o new \in Seq(U)
      BY <3>4, <3>5, ConcatProperties
    <3>7. Len(fb.filter_offsets \o new) \in Nat
      BY <3>6
    <3> QED BY <2>2, <3>1, <3>2, <3>7 DEF G
  <2> QED BY <2>1, <2>2
<1> HIDE DEF g, r
<1>4. r.bytes \in Nat /\ Len(r.offsets) \in Nat
  <2>1. r.offsets \in Seq({AsU32(g.filter_offsets[i]) : i \in 1 .. Len(g.filter_offsets)})
    BY <1>2, <1>3
  <2> QED BY <1>2, <1>3, <2>1
<1>5. Stored(0, len) \in Nat
  BY <1>4 DEF FilterBlockLen, Stored
<1>6. FinishStep("filter", "metaindex", "filter", 0, len, r)
  BY DEF writeFilter, r
<1> HIDE DEF len
<1> QED BY <1>1, <1>5, <1>6, FinishStepKeeps DEF Working

\* The metaindex block: the handle of the filter block has room if the file is
\* short enough.
LEMMA WriteMetaindexKeeps ==
    ASSUME Inv, writeMetaindex
    PROVE  Inv'
<1>1. CASE HandleTooLong(tb.handles["filter"])
  <2>1. /\ pc = "metaindex" /\ pc' = "panic"
        /\ tb' = tb /\ added' = added /\ ordered' = ordered /\ result' = result
    BY <1>1 DEF writeMetaindex
  <2>2. FilterHandleWithin
    BY <2>1 DEF Inv
  <2>3. ~SmallFile
    <3> SUFFICES ASSUME SmallFile PROVE FALSE
      OBVIOUS
    <3> DEFINE h == tb.handles["filter"]
    <3>1. h.offset \in Nat /\ h.size \in Nat
      BY <2>2 DEF FilterHandleWithin
    <3>2. h.offset <= 1125899906842623 /\ h.size <= 1125899906842623
      BY <2>2 DEF FilterHandleWithin, SmallFile, Addressable
    <3> HIDE DEF h
    <3>3. ~HandleTooLong(h)
      BY <3>1, <3>2, HandleFits
    <3> QED BY <1>1, <3>3 DEF h
  <2> QED BY <2>1, <2>3 DEF Inv, SmallFile, OrderedNeverPanics, ResultIsFileSize, Working
<1>2. CASE ~HandleTooLong(tb.handles["filter"])
  <2> DEFINE meta == AddTo(NewBlock, FilterName, H!encode_to(tb.handles["filter"]))
  <2>1. FinishStep("metaindex", "index", "metaindex", ctype, BlockLen(meta), meta.kvs)
    BY <1>2 DEF writeMetaindex
  <2> HIDE DEF meta
  <2> QED BY <2>1, FinishStepKeeps DEF Working
<1> QED BY <1>1, <1>2

\* The last step of finish().
LEMMA WriteFooterKeeps ==
    ASSUME Inv, writeFooter
    PROVE  Inv'
<1> DEFINE body == H!EncodeFooter([meta_index |-> tb.handles["metaindex"],
                                   index      |-> tb.handles["index"]])
           seg(n) == Segment(tb, "footer", n, 0, FooterLen, body)
<1>1. /\ DOMAIN tb = TableFields /\ IsSeq(tb.dst) /\ BlocksFollow(tb.dst)
      /\ added \in Seq(Pairs) /\ added' = added /\ pc' = "finished"
      /\ ~ShortWrites => tb.written = tb.offset
  BY DEF Inv, writeFooter, Working
<1> HIDE DEF body
<1>2. PICK n \in Accepted(FooterLen) :
         /\ tb' = [tb EXCEPT !.dst = Append(@, seg(n)), !.written = @ + n,
                             !.offset = @ + FooterSize(n)]
         /\ result' = tb.offset + FooterSize(n) \/ result' = -1
  BY DEF writeFooter, body
<1>3. seg(n).kind # "data"
  BY SegmentFields
<1> HIDE DEF seg
<1>4. DOMAIN tb' = TableFields /\ tb'.dst = Append(tb.dst, seg(n)) /\ tb'.written = tb.written + n
  BY <1>1, <1>2 DEF TableFields
<1>5. IsSeq(tb'.dst) /\ BlocksFollow(tb'.dst)
  BY <1>1, <1>3, <1>4, BlocksKept
<1>6. ~ShortWrites /\ result' # -1 => result' = tb'.written
  BY <1>1, <1>2, <1>4 DEF FooterSize
<1> QED BY <1>1, <1>4, <1>5, <1>6 DEF Inv, OrderedNeverPanics, ResultIsFileSize, Working

\* A write that fails in finish().
LEMMA FinishFailsKeeps ==
    ASSUME Inv, finishFails
    PROVE  Inv'
<1>1. /\ DOMAIN tb = TableFields /\ IsSeq(tb.dst) /\ BlocksFollow(tb.dst)
      /\ added \in Seq(Pairs) /\ added' = added /\ pc' = "failed"
      /\ tb' = TornBlock(tb, 0, <<>>)
  BY DEF Inv, finishFails
<1>2. DOMAIN tb' = TableFields /\ tb'.dst = Append(tb.dst, Segment(tb, "torn", 0, ctype, 0, <<>>))
  BY <1>1, TornBlockFields
<1>3. IsSeq(tb'.dst) /\ BlocksFollow(tb'.dst)
  BY <1>1, <1>2, TornKeepsBlocks
<1> QED BY <1>1, <1>2, <1>3 DEF Inv, OrderedNeverPanics, ResultIsFileSize, Working

\* Every step keeps the invariant.
LEMMA NextKeeps ==
    ASSUME BlockRestartInterval > 0, Inv, [Next]_vars
    PROVE  Inv'
<1>1. ASSUME NEW k \in Keys, NEW v \in Vals, add(k, v) PROVE Inv'
  BY <1>1, AddKeeps
<1>2. ASSUME NEW k \in Keys, addFails(k) PROVE Inv'
  BY <1>2, AddFailsKeeps
<1>3. CASE useBroken
  BY <1>3, UseBrokenKeeps
<1>4. CASE finish
  BY <1>4, FinishKeeps
<1>5. CASE writeFilter
  BY <1>5, WriteFilterKeeps
<1>6. CASE writeMetaindex
  BY <1>6, WriteMetaindexKeeps
<1>7. CASE writeIndex
  BY <1>7, FinishStepKeeps DEF writeIndex, Working
<1>8. CASE writeFooter
  BY <1>8, WriteFooterKeeps
<1>9. CASE finishFails
  BY <1>9, FinishFailsKeeps
<1>10. CASE UNCHANGED vars
  BY <1>10 DEF Inv, vars, Has, SmallFile, FilterHandleWithin, OrderedNeverPanics, ResultIsFileSize
<1> QED BY <1>1, <1>2, <1>3, <1>4, <1>5, <1>6, <1>7, <1>8, <1>9, <1>10 DEF Next, Finishing

\* The invariant: the data block and the index block that are being filled are what
\* BlockBuilder makes of the entries so far, the blocks in the file have ascending
\* keys, and as long as the caller keeps the order every block lies between its
\* separators and no assertion of add() or finish() has failed in a short file.
THEOREM InvHolds ==
    ASSUME BlockRestartInterval > 0
    PROVE  Spec => []Inv
<1>1. Init => Inv
  BY InitHolds
<1>2. Inv /\ [Next]_vars => Inv'
  BY NextKeeps
<1> QED BY <1>1, <1>2, PTL DEF Spec

\* table_builder.rs, add() and finish(): a caller who adds keys in order meets
\* none of the assertions in TableBuilder, BlockBuilder, DefaultCmp and
\* FilterBlockBuilder, whatever the block size, the restart interval and the
\* number of keys, unless a write has failed before, in a file that is short
\* enough for u32 filter indices and 16 bytes per handle.
THEOREM OrderedCallersNeverPanic ==
    ASSUME BlockRestartInterval > 0
    PROVE  Spec => [](SmallFile => OrderedNeverPanics)
<1>1. Inv => (SmallFile => OrderedNeverPanics)
  BY DEF Inv
<1> QED BY <1>1, InvHolds, PTL

\* write_data_block: the separators in the index divide the blocks of a caller
\* who adds keys in order, for any number of blocks.
THEOREM IndexAlwaysSeparates ==
    ASSUME BlockRestartInterval > 0
    PROVE  Spec => []IndexSeparates
<1>1. Inv => IndexSeparates
  <2> SUFFICES ASSUME Inv, ordered, pc = "open",
                      NEW i \in 1 .. Len(tb.index_block.kvs)
               PROVE  LET sep  == tb.index_block.kvs[i].key
                          body == tb.dst[i].body
                      IN  /\ \A m \in 1 .. Len(body) : Less(body[m].key, sep)
                          /\ \A j \in i + 1 .. Len(tb.dst) : \A m \in 1 .. Len(tb.dst[j].body) :
                                NotBelow(body, sep, tb.dst[j].body[m].key)
                          /\ \A m \in 1 .. Len(tb.data_block.kvs) :
                                NotBelow(body, sep, tb.data_block.kvs[m].key)
    BY DEF IndexSeparates, NotBelow
  <2>1. Len(tb.index_block.kvs) = Len(tb.dst) /\ Sorted(tb, added)
    BY DEF Inv, Filling, IndexHolds
  <2>2. Separates(tb, i)
    BY <2>1 DEF Sorted
  <2> QED BY <2>2 DEF Separates
<1> QED BY <1>1, InvHolds, PTL

\* add(): whoever calls it, and in whatever order, the keys within a block
\* ascend, and only the first key of a block can be out of order with the block
\* before.
THEOREM OnlyBlockStartsDisordered ==
    ASSUME BlockRestartInterval > 0
    PROVE  Spec => []DisorderOnlyAtBlockStart
<1>1. Inv => DisorderOnlyAtBlockStart
  <2> SUFFICES ASSUME Inv
               PROVE  /\ \A i \in 1 .. Len(tb.dst) : tb.dst[i].kind = "data" =>
                            Follows(BodyBefore(tb.dst, i), tb.dst[i].body)
                      /\ pc = "open" =>
                            Follows(BodyBefore(tb.dst, Len(tb.dst) + 1), tb.data_block.kvs)
    BY DEF DisorderOnlyAtBlockStart, Follows, BodyBefore
  <2> QED BY DEF Inv, BlocksFollow, Filling
<1> QED BY <1>1, InvHolds, PTL

\* finish(): to a destination that takes all it is given, the size returned is
\* the number of bytes written.  (To one that does not it need not be: the run
\* with ShortWrites shows it.)
THEOREM ResultIsAlwaysFileSize ==
    ASSUME BlockRestartInterval > 0, ~ShortWrites
    PROVE  Spec => []ResultIsFileSize
<1>1. Inv => ResultIsFileSize
  BY DEF Inv
<1> QED BY <1>1, InvHolds, PTL

-----------------------------------------------------------------------------

(***************************************************************************)
(* The filter block.                                                       *)
(***************************************************************************)

KeysOf(body) == {body[m].key : m \in 1 .. Len(body)}

FilterType(fb) ==
    /\ DOMAIN fb = FilterFields
    /\ IsSeq(fb.filters)
    /\ fb.filter_offsets \in Seq(Nat) /\ fb.bytes \in Nat
    /\ \A i \in 1 .. Len(fb.filter_offsets) : fb.filter_offsets[i] <= fb.bytes

\* where the filter of range x ends
FilterEnd(fb, x) ==
    IF x + 1 < Len(fb.filter_offsets) THEN fb.filter_offsets[x + 2] ELSE fb.bytes

\* There is a filter for range x, not empty, with these keys.
FilterFor(fb, x, keys) ==
    /\ x < Len(fb.filter_offsets)
    /\ fb.filter_offsets[x + 1] < FilterEnd(fb, x)
    /\ FilterEnd(fb, x) <= fb.bytes
    /\ \E i \in 1 .. Len(fb.filters) :
          fb.filters[i].begin = fb.filter_offsets[x + 1] /\ keys \subseteq fb.filters[i].keys

\* generate_filter, once or several times, keeps the filters there are and makes
\* one for the keys that were waiting.
LEMMA GenerateKeeps ==
    ASSUME FilterLen > 0, NEW fb, FilterType(fb), NEW n \in Nat
    PROVE  LET g == GenerateFilters(fb, n)
               l == Len(fb.filter_offsets)
           IN  /\ FilterType(g) /\ l \in Nat /\ Len(g.filter_offsets) = l + n
               /\ \A x \in Nat : \A keys : FilterFor(fb, x, keys) => FilterFor(g, x, keys)
               /\ n > 0 /\ ~NoKeyBytes(fb) =>
                     \A keys : keys \subseteq fb.keys => FilterFor(g, l, keys)
               /\ n = 0 => g.keys = fb.keys
<1> DEFINE g == GenerateFilters(fb, n)
           l == Len(fb.filter_offsets)
           old == fb.filter_offsets
           made == n > 0 /\ ~NoKeyBytes(fb)
           after == IF made THEN fb.bytes + FilterLen ELSE fb.bytes
           new == [i \in 1 .. n |-> IF i = 1 THEN fb.bytes ELSE after]
           flt == [begin |-> fb.bytes, keys |-> fb.keys]
<1>1. /\ DOMAIN g = FilterFields /\ g.bytes = after /\ g.filter_offsets = old \o new
      /\ g.filters = IF made THEN Append(fb.filters, flt) ELSE fb.filters
      /\ g.keys = IF made THEN {} ELSE fb.keys
  BY DEF GenerateFilters, FilterFields
<1>2. old \in Seq(Nat) /\ fb.bytes \in Nat /\ l \in Nat /\ IsSeq(fb.filters)
      /\ \A i \in 1 .. l : old[i] \in Nat /\ old[i] <= fb.bytes
  BY DEF FilterType
<1>3. after \in Nat /\ fb.bytes <= after /\ (made => fb.bytes < after)
  BY <1>2, FilterAssumption
<1> HIDE DEF after
<1>4. new \in Seq(Nat) /\ Len(new) = n /\ \A i \in 1 .. n : new[i] = IF i = 1 THEN fb.bytes ELSE after
  BY <1>2, <1>3
<1> HIDE DEF new, old, g, l, made
<1>5. /\ old \o new \in Seq(Nat) /\ Len(old \o new) = l + n
      /\ \A i \in 1 .. l + n : (old \o new)[i] = IF i <= l THEN old[i] ELSE new[i - l]
  BY <1>2, <1>4, ConcatProperties DEF l, old
<1>6. \A i \in 1 .. l : g.filter_offsets[i] = old[i]
  BY <1>1, <1>2, <1>5
<1>7. \A i \in 1 .. n : g.filter_offsets[l + i] = IF i = 1 THEN fb.bytes ELSE after
  <2> SUFFICES ASSUME NEW i \in 1 .. n
               PROVE  g.filter_offsets[l + i] = IF i = 1 THEN fb.bytes ELSE after
    OBVIOUS
  <2> DEFINE j == l + i
  <2>1. j \in 1 .. l + n /\ ~(j <= l) /\ j - l = i
    BY <1>2
  <2> HIDE DEF j
  <2>2. (old \o new)[j] = new[i]
    BY <1>5, <2>1
  <2> QED BY <1>1, <1>4, <2>2 DEF j
<1>8. IsSeq(g.filters)
  BY <1>1, <1>2, AppendAny
<1>9. \A i \in 1 .. l + n : g.filter_offsets[i] <= after
  <2> SUFFICES ASSUME NEW i \in 1 .. l + n PROVE g.filter_offsets[i] <= after
    OBVIOUS
  <2>1. CASE i <= l
    <3>1. i \in 1 .. l
      BY <1>2, <2>1
    <3> QED BY <1>2, <1>3, <1>6, <3>1
  <2>2. CASE ~(i <= l)
    <3> DEFINE j == i - l
    <3>1. j \in 1 .. n /\ l + j = i
      BY <1>2, <2>2
    <3> HIDE DEF j
    <3>2. g.filter_offsets[i] = IF j = 1 THEN fb.bytes ELSE after
      BY <1>7, <3>1
    <3> QED BY <1>2, <1>3, <3>2
  <2> QED BY <2>1, <2>2
<1>10. FilterType(g)
  BY <1>1, <1>3, <1>5, <1>8, <1>9 DEF FilterType
<1>11. ASSUME NEW x \in Nat, NEW keys, FilterFor(fb, x, keys) PROVE FilterFor(g, x, keys)
  <2>1. x < l /\ x + 1 \in 1 .. l
    BY <1>2, <1>11 DEF FilterFor, l
  <2>2. FilterEnd(g, x) = FilterEnd(fb, x)
    <3>1. CASE x + 1 < l
      <4>1. x + 2 \in 1 .. l /\ x + 1 < l + n
        BY <1>2, <3>1
      <4> QED BY <1>1, <1>5, <1>6, <3>1, <4>1 DEF FilterEnd, l, old
    <3>2. CASE x + 1 = l /\ n > 0
      <4>1. x + 2 = l + 1 /\ x + 1 < l + n /\ 1 \in 1 .. n /\ ~(x + 1 < l)
        BY <1>2, <3>2
      <4> QED BY <1>1, <1>5, <1>7, <4>1 DEF FilterEnd, l
    <3>3. CASE x + 1 = l /\ n = 0
      <4>1. ~(x + 1 < l) /\ ~(x + 1 < l + n) /\ after = fb.bytes
        BY <1>2, <3>3 DEF after, made
      <4> QED BY <1>1, <1>5, <4>1 DEF FilterEnd, l
    <3> QED BY <1>2, <2>1, <3>1, <3>2, <3>3
  <2>3. g.filter_offsets[x + 1] = fb.filter_offsets[x + 1]
    BY <1>6, <2>1 DEF old
  <2>4. PICK i \in 1 .. Len(fb.filters) :
           fb.filters[i].begin = fb.filter_offsets[x + 1] /\ keys \subseteq fb.filters[i].keys
    BY <1>11 DEF FilterFor
  <2>5. i \in 1 .. Len(g.filters) /\ g.filters[i] = fb.filters[i]
    BY <1>1, <1>2, AppendAny
  <2>6. fb.filter_offsets[x + 1] < FilterEnd(fb, x) /\ FilterEnd(fb, x) <= fb.bytes
    BY <1>11 DEF FilterFor
  <2>7. FilterEnd(fb, x) \in Nat
    <3>1. x + 1 < l => x + 2 \in 1 .. l
      BY <1>2
    <3> QED BY <1>2, <3>1 DEF FilterEnd, l, old
  <2>8. FilterEnd(g, x) <= g.bytes
    BY <1>1, <1>2, <1>3, <2>2, <2>6, <2>7
  <2>9. x < Len(g.filter_offsets)
    BY <1>1, <1>2, <1>5, <2>1
  <2> QED BY <2>2, <2>3, <2>4, <2>5, <2>6, <2>8, <2>9 DEF FilterFor
<1>12. ASSUME n > 0, ~NoKeyBytes(fb), NEW keys, keys \subseteq fb.keys PROVE FilterFor(g, l, keys)
  <2>1. made
    BY <1>12 DEF made
  <2>2. g.filter_offsets[l + 1] = fb.bytes
    <3>1. 1 \in 1 .. n
      BY <1>12
    <3> QED BY <1>7, <3>1
  <2>3. FilterEnd(g, l) = after
    <3>1. CASE n = 1
      <4>1. ~(l + 1 < l + n)
        BY <1>2, <3>1
      <4> QED BY <1>1, <1>5, <4>1 DEF FilterEnd
    <3>2. CASE n > 1
      <4>1. l + 1 < l + n /\ 2 \in 1 .. n
        BY <1>2, <3>2
      <4>2. g.filter_offsets[l + 2] = after
        BY <1>7, <4>1
      <4> QED BY <1>1, <1>5, <4>1, <4>2 DEF FilterEnd
    <3> QED BY <1>12, <3>1, <3>2
  <2>4. Len(g.filters) \in 1 .. Len(g.filters) /\ g.filters[Len(g.filters)] = flt
    BY <1>1, <1>2, <2>1, AppendAny
  <2>5. flt.begin = fb.bytes /\ flt.keys = fb.keys
    OBVIOUS
  <2>6. l < Len(g.filter_offsets)
    BY <1>1, <1>2, <1>5, <1>12
  <2> HIDE DEF flt
  <2> QED BY <1>1, <1>3, <1>12, <2>1, <2>2, <2>3, <2>4, <2>5, <2>6 DEF FilterFor
<1>13. n = 0 => g.keys = fb.keys
  BY <1>1 DEF made
<1> QED BY <1>1, <1>2, <1>5, <1>10, <1>11, <1>12, <1>13 DEF g, l

\* A filter for a range is found by a reader, who asks within the offsets.
LEMMA FilterForAnswers ==
    ASSUME NEW g, FilterType(g), NEW at \in Nat, NEW keys,
           FilterFor(g, get_filter_index(at), keys), get_filter_index(at) \in Nat,
           FitsU32(get_filter_index(at) + 1),
           NEW r, r.filters = g.filters, r.offsets = g.filter_offsets,
           r.offsets_offset = g.bytes, ~Garbled(r)
    PROVE  ~MatchPanics(r, at) /\ \A k \in keys : MustMatch(r, at, k)
<1> DEFINE x == get_filter_index(at)
<1>1. r.filters = g.filters /\ r.offsets = g.filter_offsets /\ r.offsets_offset = g.bytes
  OBVIOUS
<1>2. /\ x \in Nat /\ x < Len(g.filter_offsets) /\ Len(g.filter_offsets) \in Nat
      /\ g.bytes \in Nat
  BY DEF FilterFor, FilterType
<1> HIDE DEF x
<1>3. offset_of(r, x) = g.filter_offsets[x + 1]
  BY <1>1, <1>2 DEF offset_of
<1>4. offset_of(r, x + 1) = FilterEnd(g, x)
  <2>1. x + 1 + 1 = x + 2
    BY <1>2
  <2> QED BY <1>1, <2>1 DEF offset_of, FilterEnd
<1>5. /\ g.filter_offsets[x + 1] < FilterEnd(g, x) /\ FilterEnd(g, x) <= g.bytes
      /\ \E i \in 1 .. Len(g.filters) :
            g.filters[i].begin = g.filter_offsets[x + 1] /\ keys \subseteq g.filters[i].keys
  BY DEF FilterFor, x
<1>6. g.filter_offsets[x + 1] \in Nat /\ FilterEnd(g, x) \in Nat
  <2>1. x + 1 \in 1 .. Len(g.filter_offsets)
    BY <1>2
  <2>2. x + 1 < Len(g.filter_offsets) => x + 2 \in 1 .. Len(g.filter_offsets)
    BY <1>2
  <2> DEFINE o == g.filter_offsets
  <2>3. o \in Seq(Nat)
    BY DEF FilterType
  <2> HIDE DEF o
  <2>4. \A i \in 1 .. Len(o) : o[i] \in Nat
    BY <2>3
  <2> QED BY <1>2, <2>1, <2>2, <2>4 DEF o, FilterEnd
<1>7. ~MatchPanics(r, at)
  <2>1. HasOffset(r, x + 1)
    BY <1>1, <1>2 DEF HasOffset
  <2>2. ~(offset_of(r, x) >= offset_of(r, x + 1)) /\ ~(offset_of(r, x + 1) > r.offsets_offset)
    BY <1>1, <1>2, <1>3, <1>4, <1>5, <1>6
  <2>3. AsU32(x + 1) # 0
    <3>1. x + 1 \in Nat /\ x + 1 # 0
      BY <1>2
    <3>2. FitsU32(x + 1)
      BY DEF x
    <3> QED BY <3>1, <3>2, AsWord
  <2> QED BY <2>1, <2>2, <2>3 DEF MatchPanics, x
<1>8. ASSUME NEW k \in keys PROVE MustMatch(r, at, k)
  BY <1>1, <1>3, <1>5 DEF MustMatch, x
<1> QED BY <1>7, <1>8

\* A data block in range x has a key that is not empty.
HasKeys(dst, x) ==
    \E i \in 1 .. Len(dst) :
        /\ dst[i].kind = "data" /\ get_filter_index(dst[i].at) = x
        /\ \E m \in 1 .. Len(dst[i].body) : dst[i].body[m].key # <<>>

\* Every data block of the file has its keys in the filter of its range, or
\* among those that wait for the filter of the range being filled.
Covered(fb, dst) ==
    \A i \in 1 .. Len(dst) : dst[i].kind = "data" =>
        LET x == get_filter_index(dst[i].at)
            l == Len(fb.filter_offsets)
        IN  /\ dst[i].at \in Nat /\ x \in Nat /\ x <= l
            /\ x < l /\ HasKeys(dst, x) => FilterFor(fb, x, KeysOf(dst[i].body))
            /\ x = l => KeysOf(dst[i].body) \subseteq fb.keys

\* Generating filters for new ranges keeps the old ones and adds the keys that wait.
LEMMA CoveredGenerate ==
    ASSUME FilterLen > 0, NEW fb, FilterType(fb), NEW n \in Nat, NEW dst, Covered(fb, dst)
    PROVE  Covered(GenerateFilters(fb, n), dst)
<1> DEFINE g == GenerateFilters(fb, n)
           l == Len(fb.filter_offsets)
<1>1. /\ l \in Nat /\ Len(g.filter_offsets) = l + n
      /\ \A x \in Nat : \A keys : FilterFor(fb, x, keys) => FilterFor(g, x, keys)
      /\ n > 0 /\ ~NoKeyBytes(fb) =>
            \A keys : keys \subseteq fb.keys => FilterFor(g, l, keys)
      /\ n = 0 => g.keys = fb.keys
  BY GenerateKeeps
<1> HIDE DEF g, l
<1>2. SUFFICES ASSUME NEW i \in 1 .. Len(dst), dst[i].kind = "data"
               PROVE  LET x == get_filter_index(dst[i].at)
                      IN  /\ dst[i].at \in Nat /\ x \in Nat /\ x <= l + n
                          /\ x < l + n /\ HasKeys(dst, x) => FilterFor(g, x, KeysOf(dst[i].body))
                          /\ x = l + n => KeysOf(dst[i].body) \subseteq g.keys
  BY <1>1 DEF Covered, g
<1> DEFINE x    == get_filter_index(dst[i].at)
           keys == KeysOf(dst[i].body)
<1>3. /\ dst[i].at \in Nat /\ x \in Nat /\ x <= l
      /\ x < l /\ HasKeys(dst, x) => FilterFor(fb, x, keys)
      /\ x = l => keys \subseteq fb.keys
  BY <1>2 DEF Covered, l
<1> HIDE DEF x, keys
<1>4. ASSUME x = l, HasKeys(dst, x) PROVE ~NoKeyBytes(fb)
  <2>1. PICK j \in 1 .. Len(dst) :
           /\ dst[j].kind = "data" /\ get_filter_index(dst[j].at) = x
           /\ \E m \in 1 .. Len(dst[j].body) : dst[j].body[m].key # <<>>
    BY <1>4 DEF HasKeys
  <2>2. PICK m \in 1 .. Len(dst[j].body) : dst[j].body[m].key # <<>>
    BY <2>1
  <2>3. KeysOf(dst[j].body) \subseteq fb.keys
    BY <1>4, <2>1 DEF Covered, l
  <2>4. dst[j].body[m].key \in fb.keys
    BY <2>2, <2>3 DEF KeysOf
  <2> QED BY <2>2, <2>4 DEF NoKeyBytes
<1>5. ASSUME x < l + n, HasKeys(dst, x) PROVE FilterFor(g, x, keys)
  <2>1. CASE x < l
    BY <1>1, <1>3, <1>5, <2>1
  <2>2. CASE x = l
    <3>1. n > 0
      BY <1>1, <1>5, <2>2
    <3> QED BY <1>1, <1>3, <1>4, <1>5, <2>2, <3>1
  <2> QED BY <1>1, <1>3, <2>1, <2>2
<1>6. ASSUME x = l + n PROVE keys \subseteq g.keys
  <2>1. n = 0 /\ x = l
    BY <1>1, <1>3, <1>6
  <2> QED BY <1>1, <1>3, <2>1
<1>7. x <= l + n
  BY <1>1, <1>3
<1> QED BY <1>3, <1>5, <1>6, <1>7 DEF x, keys

\* A new data block of the range being filled, or another segment.
LEMMA CoveredAppend ==
    ASSUME NEW fb, FilterType(fb), NEW dst, IsSeq(dst), Covered(fb, dst), NEW seg,
           seg.kind = "data" => /\ seg.at \in Nat
                                /\ get_filter_index(seg.at) = Len(fb.filter_offsets)
                                /\ KeysOf(seg.body) \subseteq fb.keys
    PROVE  Covered(fb, Append(dst, seg))
<1> DEFINE d == Append(dst, seg)
           n == Len(dst)
           l == Len(fb.filter_offsets)
<1>1. /\ n \in Nat /\ Len(d) = n + 1 /\ d[n + 1] = seg
      /\ \A i \in 1 .. n : d[i] = dst[i]
  BY AppendAny
<1>2. l \in Nat
  BY DEF FilterType
<1> HIDE DEF d, n
<1>3. SUFFICES ASSUME NEW i \in 1 .. n + 1, d[i].kind = "data"
               PROVE  LET x == get_filter_index(d[i].at)
                      IN  /\ d[i].at \in Nat /\ x \in Nat /\ x <= l
                          /\ x < l /\ HasKeys(d, x) => FilterFor(fb, x, KeysOf(d[i].body))
                          /\ x = l => KeysOf(d[i].body) \subseteq fb.keys
  BY <1>1 DEF Covered, d
<1>4. ASSUME NEW x \in Nat, x < l, HasKeys(d, x) PROVE HasKeys(dst, x)
  <2>1. PICK j \in 1 .. n + 1 :
           /\ d[j].kind = "data" /\ get_filter_index(d[j].at) = x
           /\ \E m \in 1 .. Len(d[j].body) : d[j].body[m].key # <<>>
    BY <1>1, <1>4 DEF HasKeys
  <2>2. j # n + 1
    BY <1>1, <1>2, <1>4, <2>1
  <2>3. j \in 1 .. n
    BY <1>1, <2>2
  <2>4. d[j] = dst[j]
    BY <1>1, <2>3
  <2> QED BY <2>1, <2>3, <2>4 DEF HasKeys, n
<1>5. CASE i \in 1 .. n
  <2>1. d[i] = dst[i]
    BY <1>1, <1>5
  <2> DEFINE x == get_filter_index(dst[i].at)
             k == KeysOf(dst[i].body)
  <2>2. /\ dst[i].at \in Nat /\ x \in Nat /\ x <= l
        /\ x < l /\ HasKeys(dst, x) => FilterFor(fb, x, k)
        /\ x = l => k \subseteq fb.keys
    BY <1>3, <1>5, <2>1 DEF Covered, n
  <2> HIDE DEF x, k, l
  <2>3. x < l /\ HasKeys(d, x) => FilterFor(fb, x, k)
    BY <1>4, <2>2
  <2> QED BY <2>1, <2>2, <2>3 DEF x, k
<1>6. CASE i = n + 1
  <2>1. d[i] = seg
    BY <1>1, <1>6
  <2>2. seg.at \in Nat /\ get_filter_index(seg.at) = l /\ KeysOf(seg.body) \subseteq fb.keys
    BY <1>3, <2>1
  <2>3. l <= l /\ ~(l < l)
    BY <1>2
  <2> HIDE DEF l
  <2> QED BY <1>2, <2>1, <2>2, <2>3
<1>7. i \in 1 .. n \/ i = n + 1
  BY <1>1
<1> QED BY <1>5, <1>6, <1>7

\* A key of the block being filled waits for the filter of its range.
LEMMA CoveredAddKey ==
    ASSUME NEW fb, FilterType(fb), NEW k
    PROVE  LET g == add_key(fb, k)
           IN  /\ FilterType(g) /\ fb.keys \subseteq g.keys /\ k \in g.keys
               /\ \A dst : Covered(fb, dst) => Covered(g, dst)
<1> DEFINE g == add_key(fb, k)
<1>1. /\ DOMAIN g = FilterFields /\ g.filters = fb.filters /\ g.bytes = fb.bytes
      /\ g.filter_offsets = fb.filter_offsets /\ g.keys = fb.keys \union {k}
  BY DEF FilterType, FilterFields, add_key
<1> HIDE DEF g
<1>2. FilterType(g)
  BY <1>1 DEF FilterType
<1>3. \A x, keys : FilterFor(fb, x, keys) <=> FilterFor(g, x, keys)
  BY <1>1 DEF FilterFor, FilterEnd
<1>4. ASSUME NEW dst, Covered(fb, dst) PROVE Covered(g, dst)
  <2> SUFFICES ASSUME NEW i \in 1 .. Len(dst), dst[i].kind = "data"
               PROVE  LET x == get_filter_index(dst[i].at)
                          l == Len(fb.filter_offsets)
                      IN  /\ dst[i].at \in Nat /\ x \in Nat /\ x <= l
                          /\ x < l /\ HasKeys(dst, x) => FilterFor(g, x, KeysOf(dst[i].body))
                          /\ x = l => KeysOf(dst[i].body) \subseteq g.keys
    BY <1>1 DEF Covered
  <2> QED BY <1>1, <1>3, <1>4 DEF Covered
<1> QED BY <1>1, <1>2, <1>4 DEF g

-----------------------------------------------------------------------------

NoFilterIn(dst) == \A i \in 1 .. Len(dst) : dst[i].kind # "filter"

\* the bodies of data blocks are sequences
Bodies(dst) == \A i \in 1 .. Len(dst) : dst[i].kind = "data" => IsSeq(dst[i].body)

\* The table before its filter block is written.
Filtering(t) ==
    /\ FilterType(t.filter_block) /\ NoFilterIn(t.dst)
    /\ Indexable(t.offset) => Covered(t.filter_block, t.dst)

\* The filter block lies where indices fit, and has offsets that fit.
Askable(seg) == Indexable(seg.at) /\ ~Garbled(seg.body)

\* In a file with this filter block the keys of every data block are found.
AnswersIn(dst) ==
    \A i \in 1 .. Len(dst) : dst[i].kind = "filter" /\ Askable(dst[i]) =>
        \A j \in 1 .. i - 1 :
            dst[j].kind = "data" /\ HasKeys(dst, get_filter_index(dst[j].at)) =>
                /\ ~MatchPanics(dst[i].body, dst[j].at)
                /\ \A k \in KeysOf(dst[j].body) : MustMatch(dst[i].body, dst[j].at, k)

\* The inductive invariant of the filters, on top of Inv.
FilterInv ==
    /\ pc \in {"open", "filter"} => Filtering(tb)
    /\ pc = "open" => KeysOf(tb.data_block.kvs) \subseteq tb.filter_block.keys
    /\ Bodies(tb.dst)
    /\ AnswersIn(tb.dst)

\* Without a filter block there is nobody to ask.
LEMMA NothingToAnswer ==
    ASSUME NEW dst, NoFilterIn(dst)
    PROVE  AnswersIn(dst)
BY DEF NoFilterIn, AnswersIn

\* What is appended to the file.
LEMMA AppendSegment ==
    ASSUME NEW dst, IsSeq(dst), Bodies(dst), NEW seg, seg.kind = "data" => IsSeq(seg.body)
    PROVE  /\ Bodies(Append(dst, seg))
           /\ NoFilterIn(dst) /\ seg.kind # "filter" => NoFilterIn(Append(dst, seg))
<1> DEFINE d == Append(dst, seg)
           n == Len(dst)
<1>1. /\ n \in Nat /\ Len(d) = n + 1 /\ d[n + 1] = seg
      /\ \A i \in 1 .. n : d[i] = dst[i]
  BY AppendAny
<1> HIDE DEF d, n
<1>2. \A i \in 1 .. n + 1 : i \in 1 .. n \/ i = n + 1
  BY <1>1
<1>3. Bodies(d)
  BY <1>1, <1>2 DEF Bodies, n
<1>4. NoFilterIn(dst) /\ seg.kind # "filter" => NoFilterIn(d)
  BY <1>1, <1>2 DEF NoFilterIn, n
<1> QED BY <1>3, <1>4 DEF d

\* The filter block has room for its offsets and indices.
SmallFilters == \A i \in 1 .. Len(tb.dst) : tb.dst[i].kind = "filter" => Askable(tb.dst[i])

\* The invariant about the file is the property.
LEMMA AnswersAgree ==
    ASSUME Bodies(tb.dst), SmallFilters
    PROVE  FilterAnswers <=> AnswersIn(tb.dst)
<1>1. ASSUME NEW s, IsSeq(s) PROVE \A e : e \in ToSet(s) <=> \E m \in 1 .. Len(s) : e = s[m]
  <2>1. DOMAIN s = 1 .. Len(s)
    BY <1>1 DEF IsSeq
  <2> QED BY <2>1 DEF ToSet
<1>2. \A at : FilterMade(at) <=> HasKeys(tb.dst, get_filter_index(at))
  <2> SUFFICES ASSUME NEW at
               PROVE  FilterMade(at) <=> HasKeys(tb.dst, get_filter_index(at))
    OBVIOUS
  <2>1. ASSUME NEW i \in 1 .. Len(tb.dst), tb.dst[i].kind = "data"
        PROVE  (\E e \in ToSet(tb.dst[i].body) : e.key # <<>>)
                  <=> (\E m \in 1 .. Len(tb.dst[i].body) : tb.dst[i].body[m].key # <<>>)
    <3> DEFINE s == tb.dst[i].body
    <3>1. IsSeq(s)
      BY <2>1 DEF Bodies
    <3> HIDE DEF s
    <3>2. \A e : e \in ToSet(s) <=> \E m \in 1 .. Len(s) : e = s[m]
      BY <1>1, <3>1
    <3>3. (\E e \in ToSet(s) : e.key # <<>>) <=> (\E m \in 1 .. Len(s) : s[m].key # <<>>)
      BY <3>2
    <3> QED BY <3>3 DEF s
  <2> QED BY <2>1 DEF FilterMade, HasKeys
<1>3. ASSUME NEW i \in 1 .. Len(tb.dst), tb.dst[i].kind = "data", NEW r
      PROVE  (\A e \in ToSet(tb.dst[i].body) : MustMatch(r, tb.dst[i].at, e.key))
                <=> (\A k \in KeysOf(tb.dst[i].body) : MustMatch(r, tb.dst[i].at, k))
  <2> DEFINE s == tb.dst[i].body
             M(k) == MustMatch(r, tb.dst[i].at, k)
  <2>1. IsSeq(s)
    BY <1>3 DEF Bodies
  <2> HIDE DEF s, M
  <2>2. \A e : e \in ToSet(s) <=> \E m \in 1 .. Len(s) : e = s[m]
    BY <1>1, <2>1
  <2>3. (\A e \in ToSet(s) : M(e.key)) <=> (\A k \in KeysOf(s) : M(k))
    BY <2>2 DEF KeysOf
  <2> QED BY <2>3 DEF s, M
<1>4. \A i \in 1 .. Len(tb.dst) : \A j \in 1 .. i - 1 : j \in 1 .. Len(tb.dst)
  OBVIOUS
<1> QED BY <1>2, <1>3, <1>4 DEF FilterAnswers, AnswersIn, SmallFilters

\* A segment that is no data block: the filters are asked for the same blocks.
LEMMA AnswersAppend ==
    ASSUME NEW dst, IsSeq(dst), NEW seg, seg.kind # "data", AnswersIn(dst),
           seg.kind = "filter" /\ Askable(seg) =>
               \A j \in 1 .. Len(dst) :
                   dst[j].kind = "data" /\ HasKeys(dst, get_filter_index(dst[j].at)) =>
                       /\ ~MatchPanics(seg.body, dst[j].at)
                       /\ \A k \in KeysOf(dst[j].body) : MustMatch(seg.body, dst[j].at, k)
    PROVE  AnswersIn(Append(dst, seg))
<1> DEFINE d == Append(dst, seg)
           n == Len(dst)
           OK(r, e) == /\ ~MatchPanics(r, e.at)
                       /\ \A k \in KeysOf(e.body) : MustMatch(r, e.at, k)
<1>1. /\ n \in Nat /\ Len(d) = n + 1 /\ d[n + 1] = seg
      /\ \A i \in 1 .. n : d[i] = dst[i]
  BY AppendAny
<1>2. /\ \A i \in 1 .. n : dst[i].kind = "filter" /\ Askable(dst[i]) => \A j \in 1 .. i - 1 :
            dst[j].kind = "data" /\ HasKeys(dst, get_filter_index(dst[j].at)) =>
                OK(dst[i].body, dst[j])
      /\ seg.kind = "filter" /\ Askable(seg) => \A j \in 1 .. n :
            dst[j].kind = "data" /\ HasKeys(dst, get_filter_index(dst[j].at)) =>
                OK(seg.body, dst[j])
  BY DEF AnswersIn
<1> HIDE DEF d, n
<1>3. ASSUME NEW x, HasKeys(d, x) PROVE HasKeys(dst, x)
  <2>1. PICK j \in 1 .. n + 1 :
           /\ d[j].kind = "data" /\ get_filter_index(d[j].at) = x
           /\ \E m \in 1 .. Len(d[j].body) : d[j].body[m].key # <<>>
    BY <1>1, <1>3 DEF HasKeys
  <2>2. j \in 1 .. n
    BY <1>1, <2>1
  <2>3. d[j] = dst[j]
    BY <1>1, <2>2
  <2> QED BY <2>1, <2>2, <2>3 DEF HasKeys, n
<1>4. SUFFICES ASSUME NEW i \in 1 .. n + 1, d[i].kind = "filter", Askable(d[i]), NEW j \in 1 .. i - 1,
                      d[j].kind = "data", HasKeys(d, get_filter_index(d[j].at))
               PROVE  OK(d[i].body, d[j])
  BY <1>1 DEF AnswersIn, d
<1> HIDE DEF OK
<1>5. j \in 1 .. n /\ d[j] = dst[j]
  BY <1>1
<1>6. HasKeys(dst, get_filter_index(dst[j].at))
  BY <1>3, <1>4, <1>5
<1>7. CASE i \in 1 .. n
  <2>1. d[i] = dst[i]
    BY <1>1, <1>7
  <2> QED BY <1>2, <1>4, <1>5, <1>6, <1>7, <2>1
<1>8. CASE i = n + 1
  <2>1. d[i] = seg
    BY <1>1, <1>8
  <2> QED BY <1>2, <1>4, <1>5, <1>6, <2>1
<1> QED BY <1>1, <1>7, <1>8

\* The filter block that FilterBlockBuilder::finish makes has the answers.
LEMMA FinishAnswers ==
    ASSUME FilterLen > 0, NEW fb, FilterType(fb), NEW dst, Covered(fb, dst),
           ~Garbled(FinishFilters(fb)), FitsU32(Len(fb.filter_offsets) + 1),
           NEW j \in 1 .. Len(dst), dst[j].kind = "data", HasKeys(dst, get_filter_index(dst[j].at))
    PROVE  LET r == FinishFilters(fb)
           IN  /\ ~MatchPanics(r, dst[j].at)
               /\ \A k \in KeysOf(dst[j].body) : MustMatch(r, dst[j].at, k)
<1> DEFINE g == IF NoKeyBytes(fb) THEN fb ELSE GenerateFilters(fb, 1)
           r == FinishFilters(fb)
           x == get_filter_index(dst[j].at)
           l == Len(fb.filter_offsets)
           keys == KeysOf(dst[j].body)
<1>1. /\ r.filters = g.filters /\ r.bytes = g.bytes /\ r.offsets_offset = AsU32(g.bytes)
      /\ r.offsets = [i \in 1 .. Len(g.filter_offsets) |-> AsU32(g.filter_offsets[i])]
  BY DEF FinishFilters
<1>2. /\ dst[j].at \in Nat /\ x \in Nat /\ x <= l
      /\ x < l => FilterFor(fb, x, keys)
      /\ x = l => keys \subseteq fb.keys
  BY DEF Covered
<1>3. l \in Nat
  BY DEF FilterType
<1>4. /\ FilterType(GenerateFilters(fb, 1))
      /\ FilterFor(fb, x, keys) => FilterFor(GenerateFilters(fb, 1), x, keys)
      /\ ~NoKeyBytes(fb) /\ keys \subseteq fb.keys => FilterFor(GenerateFilters(fb, 1), l, keys)
  <2> DEFINE G == GenerateFilters(fb, 1)
  <2>1. 1 \in Nat /\ 1 > 0
    OBVIOUS
  <2>2. /\ FilterType(G)
        /\ \A y \in Nat : \A ks : FilterFor(fb, y, ks) => FilterFor(G, y, ks)
        /\ ~NoKeyBytes(fb) => \A ks : ks \subseteq fb.keys => FilterFor(G, l, ks)
    BY <2>1, GenerateKeeps
  <2> HIDE DEF G, keys, x, l
  <2>3. /\ FilterType(G)
        /\ FilterFor(fb, x, keys) => FilterFor(G, x, keys)
        /\ ~NoKeyBytes(fb) /\ keys \subseteq fb.keys => FilterFor(G, l, keys)
    BY <1>2, <2>2
  <2> QED BY <2>3 DEF G
<1>5. x = l => ~NoKeyBytes(fb)
  <2> SUFFICES ASSUME x = l PROVE ~NoKeyBytes(fb)
    OBVIOUS
  <2>1. PICK i \in 1 .. Len(dst) :
           /\ dst[i].kind = "data" /\ get_filter_index(dst[i].at) = x
           /\ \E m \in 1 .. Len(dst[i].body) : dst[i].body[m].key # <<>>
    BY DEF HasKeys
  <2>2. PICK m \in 1 .. Len(dst[i].body) : dst[i].body[m].key # <<>>
    BY <2>1
  <2>3. KeysOf(dst[i].body) \subseteq fb.keys
    BY <2>1 DEF Covered
  <2>4. dst[i].body[m].key \in fb.keys
    BY <2>2, <2>3 DEF KeysOf
  <2> QED BY <2>2, <2>4 DEF NoKeyBytes
<1>6. x < l \/ x = l
  BY <1>2, <1>3
<1>7. FilterType(g) /\ FilterFor(g, x, keys)
  BY <1>2, <1>4, <1>5, <1>6
<1> HIDE DEF g, r, keys
<1>8. r.offsets_offset = g.bytes /\ AsU32(g.bytes) = g.bytes /\ ~Garbled(r)
  BY <1>1 DEF Garbled, r
<1>9. r.offsets = g.filter_offsets
  <2> DEFINE o == g.filter_offsets
  <2>1. /\ o \in Seq(Nat) /\ g.bytes \in Nat
        /\ \A i \in 1 .. Len(o) : o[i] <= g.bytes
    BY <1>7 DEF FilterType
  <2> HIDE DEF o
  <2>2. \A i \in 1 .. Len(o) : AsU32(o[i]) = o[i]
    <3> SUFFICES ASSUME NEW i \in 1 .. Len(o) PROVE AsU32(o[i]) = o[i]
      OBVIOUS
    <3>1. o[i] \in Nat /\ o[i] <= g.bytes
      BY <2>1
    <3>2. FitsU32(g.bytes)
      BY <1>8, <2>1, AsWord
    <3> QED BY <2>1, <3>1, <3>2, FitsBelow, AsWord
  <2>3. r.offsets = [i \in 1 .. Len(o) |-> o[i]]
    BY <1>1, <2>2 DEF o
  <2>4. o = [i \in 1 .. Len(o) |-> o[i]]
    BY <2>1
  <2> QED BY <2>3, <2>4 DEF o
<1>10. FitsU32(x + 1)
  <2>1. x + 1 \in Nat /\ l + 1 \in Nat /\ x + 1 <= l + 1
    BY <1>2, <1>3
  <2> QED BY <2>1, FitsBelow
<1> HIDE DEF x, l
<1> QED BY <1>1, <1>2, <1>7, <1>8, <1>9, <1>10, FilterForAnswers DEF r, keys, x

-----------------------------------------------------------------------------

\* An empty table.
LEMMA FilterInit ==
    ASSUME Init
    PROVE  FilterInv
<1>1. /\ pc = "open" /\ tb = NewTable
      /\ tb.dst = <<>> /\ tb.data_block = NewBlock /\ tb.filter_block = NewFilterBuilder
  BY DEF Init, NewTable
<1>2. Len(tb.dst) = 0 /\ 1 .. 0 = {}
  BY <1>1
<1>3. FilterType(NewFilterBuilder)
  BY EmptyIsSeq DEF FilterType, NewFilterBuilder, FilterFields
<1>4. Covered(tb.filter_block, tb.dst) /\ NoFilterIn(tb.dst) /\ Bodies(tb.dst) /\ AnswersIn(tb.dst)
  BY <1>2 DEF Covered, NoFilterIn, Bodies, AnswersIn
<1>5. KeysOf(tb.data_block.kvs) \subseteq tb.filter_block.keys
  BY <1>1, <1>2 DEF NewBlock, KeysOf
<1> QED BY <1>1, <1>3, <1>4, <1>5 DEF FilterInv, Filtering

\* A data block is written where the filter builder expects it: its segment ...
LEMMA WrittenSegment ==
    ASSUME ~ShortWrites, Filling(tb), tb.written = tb.offset,
           Filtering(tb), Bodies(tb.dst), KeysOf(tb.data_block.kvs) \subseteq tb.filter_block.keys,
           NEW n \in Accepted(StoredLen(tb.data_block)),
           NEW t, t.written = tb.written
    PROVE  LET seg == Segment(t, "data", n, ctype, StoredLen(tb.data_block), tb.data_block.kvs)
               d   == Append(tb.dst, seg)
           IN  (Indexable(tb.offset) => Covered(tb.filter_block, d)) /\ NoFilterIn(d) /\ Bodies(d)
<1> DEFINE len == StoredLen(tb.data_block)
           kvs == tb.data_block.kvs
           seg == Segment(t, "data", n, ctype, len, kvs)
<1>1. /\ IsSeq(tb.dst) /\ tb.offset \in Nat /\ FiltersUpTo(tb.filter_block, tb.offset)
      /\ kvs \in Seq(KeyValue)
  BY DEF Filling, Holds
<1>2. seg.kind = "data" /\ seg.at = tb.offset /\ seg.body = kvs
  BY DEF Segment, Accepted
<1> HIDE DEF seg, kvs
<1>3. Indexable(tb.offset) => get_filter_index(seg.at) = Len(tb.filter_block.filter_offsets)
  BY <1>1, <1>2, IndexIs DEF FiltersUpTo
<1>4. KeysOf(seg.body) \subseteq tb.filter_block.keys
  BY <1>2 DEF kvs
<1>5. Indexable(tb.offset) => Covered(tb.filter_block, Append(tb.dst, seg))
  BY <1>1, <1>2, <1>3, <1>4, CoveredAppend DEF Filtering
<1>6. IsSeq(seg.body)
  BY <1>1, <1>2 DEF IsSeq
<1>7. NoFilterIn(Append(tb.dst, seg)) /\ Bodies(Append(tb.dst, seg))
  BY <1>1, <1>2, <1>6, AppendSegment DEF Filtering
<1> QED BY <1>5, <1>7 DEF seg, kvs

\* ... and the filters after it.
LEMMA WriteFiltering ==
    ASSUME ~ShortWrites, FilterLen > 0, Filling(tb), tb.written = tb.offset,
           Filtering(tb), Bodies(tb.dst), KeysOf(tb.data_block.kvs) \subseteq tb.filter_block.keys,
           NEW n \in Accepted(StoredLen(tb.data_block)), NEW next, ~WriteDataBlockPanics(tb, next)
    PROVE  LET w == WriteDataBlock(tb, n, next)
           IN  /\ DOMAIN w = TableFields
               /\ Filtering(w) /\ Bodies(w.dst)
               /\ w.data_block = NewBlock
<1> DEFINE w   == WriteDataBlock(tb, n, next)
           len == StoredLen(tb.data_block)
           seg == Segment(tb, "data", n, ctype, len, tb.data_block.kvs)
           fb  == tb.filter_block
           to  == tb.offset + len + TrailerLen
<1>1. /\ DOMAIN tb = TableFields /\ tb.offset \in Nat /\ FiltersUpTo(fb, tb.offset)
      /\ len \in Nat
  BY StoredLenIsNat DEF Filling
<1>2. /\ DOMAIN w = TableFields
      /\ w.dst = Append(tb.dst, seg) /\ w.offset = to
      /\ w.data_block = NewBlock
      /\ w.filter_block = start_block(fb, to)
  BY <1>1, WriteDataBlockFields
<1>3. (Indexable(tb.offset) => Covered(fb, w.dst)) /\ NoFilterIn(w.dst) /\ Bodies(w.dst)
  BY <1>2, WrittenSegment
<1> HIDE DEF w, len, seg
<1>4. to \in Nat /\ tb.offset <= to
  BY <1>1 DEF TrailerLen
<1>5. ~StartBlockPanics(fb, to)
  BY DEF WriteDataBlockPanics, to, len, fb
<1> HIDE DEF to, fb
<1>6. FiltersDue(fb, to) \in Nat
  <2>1. Len(fb.filter_offsets) \in Nat
    BY <1>1 DEF FiltersUpTo, IsSeq
  <2>2. Count(fb) \in Nat /\ get_filter_index(to) \in Nat
    <3>1. Count(fb) \in Nat
      BY <2>1, AsWord DEF Count
    <3> QED BY <1>4, <3>1, IndexIs
  <2> QED BY <1>5, <2>2 DEF FiltersDue, StartBlockPanics
<1>7. FilterType(fb) /\ FilterType(w.filter_block)
  BY <1>2, <1>6, GenerateKeeps DEF Filtering, start_block, fb
<1>8. Indexable(w.offset) => Covered(w.filter_block, w.dst)
  <2> SUFFICES ASSUME Indexable(to) PROVE Covered(w.filter_block, w.dst)
    BY <1>2
  <2>1. Covered(fb, w.dst)
    BY <1>1, <1>3, <1>4, IndexableBelow
  <2> QED BY <1>2, <1>6, <1>7, <2>1, CoveredGenerate DEF start_block
<1> QED BY <1>2, <1>3, <1>7, <1>8 DEF w, Filtering

\* The end of add(), on the table as it was or with the block closed.
LEMMA AddPairFiltering ==
    ASSUME NEW t, DOMAIN t = TableFields, Filtering(t), Bodies(t.dst), pc = "open",
           t.data_block.kvs \in Seq(KeyValue),
           KeysOf(t.data_block.kvs) \subseteq t.filter_block.keys,
           NEW k \in Keys, NEW v \in Vals, AddPair(t, k, v)
    PROVE  FilterInv'
<1>1. AnswersIn(t.dst)
  BY NothingToAnswer DEF Filtering
<1>2. CASE AddPanics(t.data_block.bb, k)
  <2>1. pc' = "panic" /\ tb' = [t EXCEPT !.filter_block = add_key(@, k)]
    BY <1>2 DEF AddPair
  <2>2. tb'.dst = t.dst
    BY <2>1 DEF TableFields
  <2> QED BY <1>1, <2>1, <2>2 DEF FilterInv
<1>3. CASE ~AddPanics(t.data_block.bb, k)
  <2> DEFINE w   == Paired(t, k, v)
             kvs == t.data_block.kvs
             kv  == [key |-> k, val |-> v]
             new == Append(kvs, kv)
  <2>1. pc' = "open" /\ tb' = w
    BY <1>3 DEF AddPair, Paired
  <2>2. /\ w.dst = t.dst /\ w.offset = t.offset /\ w.filter_block = add_key(t.filter_block, k)
        /\ w.data_block = AddTo(t.data_block, k, v)
    BY PairedFields
  <2>3. w.data_block.kvs = new
    BY <2>2 DEF AddTo
  <2>4. /\ FilterType(w.filter_block)
        /\ Indexable(w.offset) => Covered(w.filter_block, w.dst)
        /\ t.filter_block.keys \subseteq w.filter_block.keys /\ k \in w.filter_block.keys
    BY <2>2, CoveredAddKey DEF Filtering
  <2>5. kv \in KeyValue /\ kv.key = k
    BY TableAssumption DEF KeyValue
  <2> HIDE DEF w, kv
  <2>6. /\ Len(kvs) \in Nat /\ Len(new) = Len(kvs) + 1 /\ new[Len(kvs) + 1] = kv
        /\ \A m \in 1 .. Len(kvs) : new[m] = kvs[m]
    BY <2>5, AppendProperties
  <2> HIDE DEF new
  <2>7. KeysOf(new) \subseteq w.filter_block.keys
    <3> SUFFICES ASSUME NEW m \in 1 .. Len(kvs) + 1
                 PROVE  new[m].key \in w.filter_block.keys
      BY <2>6 DEF KeysOf
    <3>1. CASE m \in 1 .. Len(kvs)
      <4>1. kvs[m].key \in t.filter_block.keys
        BY <3>1 DEF KeysOf
      <4> QED BY <2>4, <2>6, <3>1, <4>1
    <3>2. CASE m = Len(kvs) + 1
      BY <2>4, <2>5, <2>6, <3>2
    <3>3. m \in 1 .. Len(kvs) \/ m = Len(kvs) + 1
      BY <2>6
    <3> QED BY <3>1, <3>2, <3>3
  <2>8. Filtering(w)
    BY <2>2, <2>4 DEF Filtering
  <2> QED BY <1>1, <2>1, <2>2, <2>3, <2>7, <2>8 DEF FilterInv
<1> QED BY <1>2, <1>3

\* A panic inside write_data_block comes before any filter block.
LEMMA DiesFiltering ==
    ASSUME ~ShortWrites, Filling(tb), tb.written = tb.offset,
           Filtering(tb), Bodies(tb.dst), KeysOf(tb.data_block.kvs) \subseteq tb.filter_block.keys,
           NEW k, DiesInWrite(tb, k), pc' = "panic"
    PROVE  FilterInv'
<1> DEFINE len   == StoredLen(tb.data_block)
           taken == [tb EXCEPT !.data_block = NewBlock]
           kvs   == tb.data_block.kvs
           last  == tb.data_block.bb.last_key
<1>1. DOMAIN tb = TableFields
  BY DEF Filling
<1>2. DOMAIN taken = TableFields /\ taken.dst = tb.dst /\ taken.written = tb.written
  BY <1>1 DEF TableFields
<1>3. NoFilterIn(tb'.dst) /\ Bodies(tb'.dst)
  <2>1. CASE SepPanics(last, k)
    BY <1>2, <2>1 DEF DiesInWrite, Filtering
  <2>2. CASE ~SepPanics(last, k)
    <3>1. PICK n \in Accepted(len) :
             tb' = [WriteBlock(taken, "data", n, ctype, len, kvs) EXCEPT
                       !.prev_block_last_key = last]
      BY <2>2 DEF DiesInWrite
    <3> DEFINE u   == WriteBlock(taken, "data", n, ctype, len, kvs)
               seg == Segment(taken, "data", n, ctype, len, kvs)
    <3> HIDE DEF taken
    <3>2. DOMAIN u = TableFields /\ u.dst = Append(taken.dst, seg)
      BY <1>2, WriteBlockFields
    <3> HIDE DEF u
    <3>3. tb'.dst = u.dst
      BY <3>1, <3>2 DEF TableFields, u
    <3>4. NoFilterIn(Append(tb.dst, seg)) /\ Bodies(Append(tb.dst, seg))
      BY <1>2, WrittenSegment
    <3> QED BY <1>2, <3>2, <3>3, <3>4
  <2> QED BY <2>1, <2>2
<1> QED BY <1>3, NothingToAnswer DEF FilterInv

\* add() keeps the filters.
LEMMA AddFiltering ==
    ASSUME BlockRestartInterval > 0, ~ShortWrites, FilterLen > 0, Inv, FilterInv,
           NEW k \in Keys, NEW v \in Vals, add(k, v)
    PROVE  FilterInv'
<1>1. /\ pc = "open" /\ Filling(tb) /\ tb.written = tb.offset
      /\ Filtering(tb) /\ Bodies(tb.dst) /\ AnswersIn(tb.dst)
      /\ KeysOf(tb.data_block.kvs) \subseteq tb.filter_block.keys
  BY DEF add, Inv, FilterInv, Working
<1>2. DOMAIN tb = TableFields /\ tb.data_block.kvs \in Seq(KeyValue)
  BY <1>1 DEF Filling, Holds
<1>3. CASE BelowPrevBlock(tb, k)
  BY <1>1, <1>3 DEF add, FilterInv
<1>4. CASE ~BelowPrevBlock(tb, k) /\ ~BlockFull(tb)
  <2>1. AddPair(tb, k, v)
    BY <1>4 DEF add
  <2> QED BY <1>1, <1>2, <2>1, AddPairFiltering
<1>5. CASE ~BelowPrevBlock(tb, k) /\ BlockFull(tb) /\ WriteDataBlockPanics(tb, k)
  <2>1. pc' = "panic" /\ DiesInWrite(tb, k)
    BY <1>5 DEF add
  <2> QED BY <1>1, <2>1, DiesFiltering
<1>6. CASE ~BelowPrevBlock(tb, k) /\ BlockFull(tb) /\ ~WriteDataBlockPanics(tb, k)
  <2>1. PICK n \in Accepted(StoredLen(tb.data_block)) : AddPair(WriteDataBlock(tb, n, k), k, v)
    BY <1>6 DEF add
  <2> DEFINE w == WriteDataBlock(tb, n, k)
  <2>2. DOMAIN w = TableFields /\ Filtering(w) /\ Bodies(w.dst) /\ w.data_block = NewBlock
    BY <1>1, <1>6, WriteFiltering
  <2>3. AddPair(w, k, v)
    BY <2>1
  <2> HIDE DEF w
  <2>4. w.data_block.kvs = <<>> /\ KeysOf(w.data_block.kvs) \subseteq w.filter_block.keys
    BY <2>2 DEF NewBlock, KeysOf
  <2>5. w.data_block.kvs \in Seq(KeyValue)
    BY <2>4
  <2> QED BY <1>1, <2>2, <2>3, <2>4, <2>5, AddPairFiltering
<1> QED BY <1>3, <1>4, <1>5, <1>6

\* So does the first step of finish().
LEMMA FinishFiltering ==
    ASSUME BlockRestartInterval > 0, ~ShortWrites, FilterLen > 0, Inv, FilterInv, finish
    PROVE  FilterInv'
<1> DEFINE past == find_short_succ(tb.data_block.bb.last_key)
<1>1. /\ pc = "open" /\ Filling(tb) /\ tb.written = tb.offset
      /\ Filtering(tb) /\ Bodies(tb.dst) /\ AnswersIn(tb.dst)
      /\ KeysOf(tb.data_block.kvs) \subseteq tb.filter_block.keys
  BY DEF finish, Inv, FilterInv, Working
<1>2. CASE ~Pending(tb)
  <2>1. pc' = "filter" /\ tb' = tb
    BY <1>2 DEF finish
  <2> QED BY <1>1, <2>1 DEF FilterInv
<1>3. CASE Pending(tb) /\ WriteDataBlockPanics(tb, past)
  <2>1. pc' = "panic" /\ DiesInWrite(tb, past)
    BY <1>3 DEF finish
  <2> QED BY <1>1, <2>1, DiesFiltering
<1>4. CASE Pending(tb) /\ ~WriteDataBlockPanics(tb, past)
  <2>1. /\ pc' = "filter"
        /\ \E n \in Accepted(StoredLen(tb.data_block)) : tb' = WriteDataBlock(tb, n, past)
    BY <1>4 DEF finish
  <2>2. PICK n \in Accepted(StoredLen(tb.data_block)) : tb' = WriteDataBlock(tb, n, past)
    BY <2>1
  <2>3. Filtering(tb') /\ Bodies(tb'.dst)
    BY <1>1, <1>4, <2>2, WriteFiltering
  <2>4. AnswersIn(tb'.dst)
    BY <2>3, NothingToAnswer DEF Filtering
  <2> QED BY <2>1, <2>3, <2>4 DEF FilterInv
<1> QED BY <1>2, <1>3, <1>4

\* A segment after the data blocks, the filter block apart.
LEMMA LaterSegment ==
    ASSUME IsSeq(tb.dst), Bodies(tb.dst), AnswersIn(tb.dst), pc' \notin {"open", "filter"},
           NEW seg, tb'.dst = Append(tb.dst, seg), seg.kind \notin {"data", "filter"}
    PROVE  FilterInv'
<1>1. Bodies(Append(tb.dst, seg))
  BY AppendSegment
<1>2. AnswersIn(Append(tb.dst, seg))
  BY AnswersAppend
<1> QED BY <1>1, <1>2 DEF FilterInv

\* What finish() appends when it writes a block.
LEMMA FinishStepSegment ==
    ASSUME ~ShortWrites, Inv, NEW from, NEW to, NEW kind, NEW ct, NEW len, NEW body,
           FinishStep(from, to, kind, ct, len, body)
    PROVE  /\ pc = from /\ pc' = to /\ IsSeq(tb.dst)
           /\ \E seg : /\ tb'.dst = Append(tb.dst, seg)
                       /\ seg.kind = kind /\ seg.body = body /\ seg.at = tb.written
<1> DEFINE stored == Stored(ct, len)
           h == HandleFor(tb, stored)
<1>1. PICK n \in Accepted(stored) :
         tb' = [WriteBlock(tb, kind, n, ct, stored, body) EXCEPT !.handles[kind] = h]
  BY DEF FinishStep
<1>2. DOMAIN tb = TableFields /\ IsSeq(tb.dst) /\ pc = from /\ pc' = to
  BY DEF Inv, FinishStep
<1> DEFINE u   == WriteBlock(tb, kind, n, ct, stored, body)
           seg == Segment(tb, kind, n, ct, stored, body)
<1>3. n = stored
  BY <1>1 DEF Accepted
<1> HIDE DEF stored, h
<1>4. DOMAIN u = TableFields /\ u.dst = Append(tb.dst, seg)
  BY <1>2, WriteBlockFields
<1>5. seg.kind = kind /\ seg.body = body /\ seg.at = tb.written
  BY <1>3 DEF Segment
<1> HIDE DEF u, seg
<1>6. tb'.dst = u.dst
  BY <1>1, <1>4 DEF TableFields, u
<1> QED BY <1>2, <1>4, <1>5, <1>6

\* The filter block answers for every block.
LEMMA WriteFilterFiltering ==
    ASSUME ~ShortWrites, FilterLen > 0, Inv, FilterInv, writeFilter
    PROVE  FilterInv'
<1> DEFINE r == FinishFilters(tb.filter_block)
<1>1. /\ pc = "filter" /\ pc' = "metaindex" /\ IsSeq(tb.dst)
      /\ \E seg : /\ tb'.dst = Append(tb.dst, seg)
                  /\ seg.kind = "filter" /\ seg.body = r /\ seg.at = tb.written
  BY FinishStepSegment DEF writeFilter
<1>2. PICK seg : /\ tb'.dst = Append(tb.dst, seg)
                 /\ seg.kind = "filter" /\ seg.body = r /\ seg.at = tb.written
  BY <1>1
<1>3. /\ Filtering(tb) /\ Bodies(tb.dst) /\ AnswersIn(tb.dst)
      /\ tb.offset \in Nat /\ tb.written = tb.offset /\ FiltersUpTo(tb.filter_block, tb.offset)
  BY <1>1 DEF FilterInv, Inv, Working
<1>4. ASSUME Askable(seg), NEW j \in 1 .. Len(tb.dst), tb.dst[j].kind = "data",
             HasKeys(tb.dst, get_filter_index(tb.dst[j].at))
      PROVE  /\ ~MatchPanics(r, tb.dst[j].at)
             /\ \A k \in KeysOf(tb.dst[j].body) : MustMatch(r, tb.dst[j].at, k)
  <2> DEFINE l == Len(tb.filter_block.filter_offsets)
  <2>1. Indexable(tb.offset) /\ ~Garbled(r)
    BY <1>2, <1>3, <1>4 DEF Askable
  <2>2. l = tb.offset \div FilterBase /\ FitsU32(l + 1)
    BY <1>3, <2>1 DEF FiltersUpTo, Indexable
  <2>3. FilterType(tb.filter_block) /\ Covered(tb.filter_block, tb.dst)
    BY <1>3, <2>1 DEF Filtering
  <2> QED BY <1>4, <2>1, <2>2, <2>3, FinishAnswers
<1> HIDE DEF r
<1>5. AnswersIn(tb'.dst)
  BY <1>1, <1>2, <1>3, <1>4, AnswersAppend
<1>6. Bodies(tb'.dst)
  BY <1>1, <1>2, <1>3, AppendSegment
<1> QED BY <1>1, <1>5, <1>6 DEF FilterInv

\* Every step keeps the invariant about filters.
LEMMA NextFiltering ==
    ASSUME BlockRestartInterval > 0, ~ShortWrites, FilterLen > 0, Inv, FilterInv, [Next]_vars
    PROVE  FilterInv'
<1>1. DOMAIN tb = TableFields /\ IsSeq(tb.dst) /\ Bodies(tb.dst) /\ AnswersIn(tb.dst)
  BY DEF Inv, FilterInv
<1>2. ASSUME NEW k \in Keys, NEW v \in Vals, add(k, v) PROVE FilterInv'
  BY <1>2, AddFiltering
<1>3. ASSUME NEW k \in Keys, addFails(k) PROVE FilterInv'
  <2>1. PICK n : tb' = [TornBlock(tb, n, tb.data_block.kvs) EXCEPT
                           !.prev_block_last_key = tb.data_block.bb.last_key,
                           !.data_block = NewBlock]
    BY <1>3 DEF addFails
  <2> DEFINE u   == TornBlock(tb, n, tb.data_block.kvs)
             seg == Segment(tb, "torn", n, ctype, n, tb.data_block.kvs)
  <2>2. DOMAIN u = TableFields /\ u.dst = Append(tb.dst, seg)
    BY <1>1, TornBlockFields
  <2>3. seg.kind = "torn"
    BY SegmentFields
  <2> HIDE DEF u, seg
  <2>4. tb'.dst = u.dst
    BY <2>1, <2>2 DEF TableFields, u
  <2>5. pc' = "broken"
    BY <1>3 DEF addFails
  <2> QED BY <1>1, <2>2, <2>3, <2>4, <2>5, LaterSegment
<1>4. CASE useBroken
  BY <1>1, <1>4 DEF useBroken, FilterInv
<1>5. CASE finish
  BY <1>5, FinishFiltering
<1>6. CASE writeFilter
  BY <1>6, WriteFilterFiltering
<1>7. CASE writeMetaindex /\ HandleTooLong(tb.handles["filter"])
  BY <1>1, <1>7 DEF writeMetaindex, FilterInv
<1>11. CASE (writeMetaindex /\ ~HandleTooLong(tb.handles["filter"])) \/ writeIndex
  <2>1. /\ pc' \in {"index", "footer"}
        /\ \E seg : tb'.dst = Append(tb.dst, seg) /\ seg.kind \in {"metaindex", "index"}
    BY <1>11, FinishStepSegment DEF writeMetaindex, writeIndex
  <2> QED BY <1>1, <2>1, LaterSegment
<1>8. CASE writeFooter
  <2> DEFINE body == H!EncodeFooter([meta_index |-> tb.handles["metaindex"],
                                     index      |-> tb.handles["index"]])
             seg(n) == Segment(tb, "footer", n, 0, FooterLen, body)
  <2> HIDE DEF body
  <2>1. PICK n \in Accepted(FooterLen) :
           tb' = [tb EXCEPT !.dst = Append(@, seg(n)), !.written = @ + n,
                            !.offset = @ + FooterSize(n)]
    BY <1>8 DEF writeFooter, body
  <2>2. seg(n).kind \in {"footer", "torn"}
    BY SegmentFields
  <2> HIDE DEF seg
  <2>3. tb'.dst = Append(tb.dst, seg(n))
    BY <1>1, <2>1 DEF TableFields
  <2>4. pc' = "finished"
    BY <1>8 DEF writeFooter
  <2> QED BY <1>1, <2>2, <2>3, <2>4, LaterSegment
<1>9. CASE finishFails
  <2> DEFINE seg == Segment(tb, "torn", 0, ctype, 0, <<>>)
  <2>1. pc' = "failed" /\ tb'.dst = Append(tb.dst, seg)
    BY <1>1, <1>9, TornBlockFields DEF finishFails
  <2>2. seg.kind = "torn"
    BY SegmentFields
  <2> HIDE DEF seg
  <2> QED BY <1>1, <2>1, <2>2, LaterSegment
<1>10. CASE UNCHANGED vars
  BY <1>10 DEF FilterInv, vars
<1> QED BY <1>2, <1>3, <1>4, <1>5, <1>6, <1>7, <1>8, <1>9, <1>10, <1>11 DEF Next, Finishing

\* FilterBlockBuilder and FilterBlockReader: for any keys, block sizes and sizes
\* of filters and their ranges, the filter block denies no key of a data block
\* and is asked only within its offsets, unless all keys of a range are empty.
\* FilterLen = 0 is NoFilterPolicy, whose filter blocks cannot be asked, as
\* their offsets are all the same; with ShortWrites a block need not lie where the
\* builder takes it to be; with more than 4 GiB of filters, or 2^32 ranges, the
\* offsets and the indices are cut.
THEOREM FiltersAlwaysAnswer ==
    ASSUME BlockRestartInterval > 0, FilterLen > 0, ~ShortWrites
    PROVE  Spec => [](SmallFilters => FilterAnswers)
<1>1. Init => FilterInv
  BY FilterInit
<1>2. Inv /\ FilterInv /\ [Next]_vars => FilterInv'
  BY NextFiltering
<1>3. FilterInv => (SmallFilters => FilterAnswers)
  BY AnswersAgree DEF FilterInv
<1> QED BY <1>1, <1>2, <1>3, InvHolds, PTL DEF Spec
=============================================================================
