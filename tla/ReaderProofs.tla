---------------------------- MODULE ReaderProofs ----------------------------
(***************************************************************************)
(* What the reader of a table finds, for tables of any number of blocks,   *)
(* whichever of them are damaged: get(), approx_offset_of() and the moves  *)
(* of TableIterator.                                                       *)
(*                                                                         *)
(* BlockSize is at least the eight bytes of an empty block: below that the *)
(* first block of a table has no entries, and its separator may be the     *)
(* first key, which get() and seek() then do not find.  Blocks are below   *)
(* 4 GiB (BlockBuilder).                                                   *)
(***************************************************************************)
EXTENDS TableProofs

\* No block of the index is empty, and every separator divides the entries of
\* its block from those of later blocks.
Divides(t) ==
    \A i \in 1 .. Len(t.index_block.kvs) :
        LET sep  == t.index_block.kvs[i].key
            body == t.dst[i].body
        IN  /\ sep \in ByteString /\ body \in Seq(KeyValue) /\ body # <<>>
            /\ \A m \in 1 .. Len(body) : Less(body[m].key, sep)
            /\ \A j \in i + 1 .. Len(t.index_block.kvs) : \A m \in 1 .. Len(t.dst[j].body) :
                  NotBelow(body, sep, t.dst[j].body[m].key)

\* The filter block is not compressed, the metaindex has one entry.
Plain(dst) ==
    \A i \in 1 .. Len(dst) : /\ dst[i].kind = "filter" => dst[i].ctype = 0
                             /\ dst[i].kind = "metaindex" => Len(dst[i].body) = 1

\* What the writer of a table keeps, beside Inv and FileInv, for a caller who
\* adds the keys in order.
OrderInv ==
    /\ ordered /\ Ascending(added)
    /\ pc \in Working \union {"finished"} => Plain(tb.dst)
    /\ pc = "open" => \A i \in 1 .. Len(tb.dst) : tb.dst[i].body # <<>>
    /\ pc \in (Working \ {"open"}) \union {"finished"} => Divides(tb)

\* A key above all others at the end.
LEMMA AscendingAppend ==
    ASSUME NEW kvs, IsSeq(kvs), Ascending(kvs), NEW e,
           \A i \in 1 .. Len(kvs) : Less(kvs[i].key, e.key)
    PROVE  Ascending(Append(kvs, e))
<1> DEFINE d == Append(kvs, e)
<1>1. /\ Len(kvs) \in Nat /\ Len(d) = Len(kvs) + 1 /\ d[Len(kvs) + 1] = e
      /\ \A i \in 1 .. Len(kvs) : d[i] = kvs[i]
  BY AppendAny
<1> HIDE DEF d
<1>2. ASSUME NEW i \in 1 .. Len(d), NEW j \in 1 .. Len(d), i < j
      PROVE  Less(d[i].key, d[j].key)
  <2>1. i \in 1 .. Len(kvs) /\ (j \in 1 .. Len(kvs) \/ j = Len(kvs) + 1)
    BY <1>1, <1>2
  <2>2. CASE j \in 1 .. Len(kvs)
    BY <1>1, <1>2, <2>1, <2>2 DEF Ascending
  <2>3. CASE j = Len(kvs) + 1
    BY <1>1, <2>1, <2>3
  <2> QED BY <2>1, <2>2, <2>3
<1> QED BY <1>2 DEF Ascending, d

\* A segment of another kind, a filter block without compression, or a metaindex
\* of one entry.
LEMMA PlainAppend ==
    ASSUME NEW dst, IsSeq(dst), Plain(dst), NEW seg,
           seg.kind = "filter" => seg.ctype = 0,
           seg.kind = "metaindex" => Len(seg.body) = 1
    PROVE  Plain(Append(dst, seg))
<1> DEFINE d == Append(dst, seg)
<1>1. /\ Len(dst) \in Nat /\ Len(d) = Len(dst) + 1 /\ d[Len(dst) + 1] = seg
      /\ \A i \in 1 .. Len(dst) : d[i] = dst[i]
  BY AppendAny
<1> HIDE DEF d
<1>2. ASSUME NEW i \in 1 .. Len(d)
      PROVE  /\ d[i].kind = "filter" => d[i].ctype = 0
             /\ d[i].kind = "metaindex" => Len(d[i].body) = 1
  <2>1. i \in 1 .. Len(dst) \/ i = Len(dst) + 1
    BY <1>1
  <2> QED BY <1>1, <2>1 DEF Plain
<1> QED BY <1>2 DEF Plain, d

\* Only the blocks of the index matter to it.
LEMMA DividesAppend ==
    ASSUME NEW t, IsSeq(t.dst), Divides(t), Entered(t.dst, t.index_block.kvs), NEW seg,
           NEW w, w.index_block = t.index_block, w.dst = Append(t.dst, seg)
    PROVE  Divides(w)
<1> DEFINE kvs == t.index_block.kvs
           d   == Append(t.dst, seg)
<1>1. \A i \in 1 .. Len(t.dst) : d[i] = t.dst[i]
  BY AppendAny
<1>2. \A i \in 1 .. Len(kvs) : d[i] = t.dst[i]
  BY <1>1 DEF Entered
<1>3. Len(kvs) \in Nat
  BY NonEmptySeq DEF Entered, IsSeq
<1> HIDE DEF d
<1>4. w.index_block.kvs = kvs /\ \A i \in 1 .. Len(kvs) : w.dst[i] = t.dst[i]
  BY <1>2 DEF d
<1> HIDE DEF kvs
<1>5. \A i \in 1 .. Len(kvs) : \A j \in i + 1 .. Len(kvs) : j \in 1 .. Len(kvs)
  BY <1>3
<1>6. Divides(t) <=>
        \A i \in 1 .. Len(kvs) :
            /\ kvs[i].key \in ByteString /\ t.dst[i].body \in Seq(KeyValue) /\ t.dst[i].body # <<>>
            /\ \A m \in 1 .. Len(t.dst[i].body) : Less(t.dst[i].body[m].key, kvs[i].key)
            /\ \A j \in i + 1 .. Len(kvs) : \A m \in 1 .. Len(t.dst[j].body) :
                  NotBelow(t.dst[i].body, kvs[i].key, t.dst[j].body[m].key)
  BY DEF Divides, kvs
<1> QED BY <1>4, <1>5, <1>6 DEF Divides

\* A table whose keys are in order and whose blocks have entries is divided by its
\* index.
LEMMA SortedDivides ==
    ASSUME NEW t, Filling(t), NEW hist, Sorted(t, hist),
           \A i \in 1 .. Len(t.dst) : t.dst[i].body # <<>>
    PROVE  Divides(t)
<1>1. /\ Len(t.index_block.kvs) = Len(t.dst)
      /\ \A i \in 1 .. Len(t.dst) : t.index_block.kvs[i].key \in ByteString
      /\ \A i \in 1 .. Len(t.dst) : t.dst[i].body \in Seq(KeyValue)
  BY DEF Filling, IndexHolds
<1> QED BY <1>1 DEF Sorted, Separates, Divides

\* A block that is full has entries, if an empty one is not.
LEMMA FullHasEntries ==
    ASSUME BlockSize >= 8, NEW t, Filling(t), BlockFull(t)
    PROVE  t.data_block.kvs # <<>>
<1> SUFFICES ASSUME t.data_block.kvs = <<>> PROVE FALSE
  OBVIOUS
<1>1. t.data_block = NewBlock
  BY DEF Filling
<1>2. BlockLen(NewBlock) = 8
  <2>1. NewBlock.bb = NewBlockBuilder
    BY DEF NewBlock
  <2>2. NewBlockBuilder.bytes = 0 /\ NewBlockBuilder.restarts = <<0>>
    BY DEF NewBlockBuilder
  <2>3. Len(<<0>>) = 1
    OBVIOUS
  <2> QED BY <2>1, <2>2, <2>3 DEF BlockLen, SizeEstimate
<1> QED BY <1>1, <1>2, TableAssumption DEF BlockFull

\* The end of add(), on the table as it was or with the block closed.
LEMMA AddPairOrder ==
    ASSUME ordered, Ascending(added), added \in Seq(Pairs), pc = "open", ordered' = ordered,
           NEW k, InOrder(k), NEW v, NEW t, DOMAIN t = TableFields, Plain(t.dst),
           \A i \in 1 .. Len(t.dst) : t.dst[i].body # <<>>, AddPair(t, k, v)
    PROVE  OrderInv'
<1> DEFINE e == [key |-> k, val |-> v]
<1>1. CASE AddPanics(t.data_block.bb, k)
  <2>1. pc' = "panic" /\ added' = added
    BY <1>1 DEF AddPair
  <2> QED BY <2>1 DEF OrderInv, Working
<1>2. CASE ~AddPanics(t.data_block.bb, k)
  <2>1. tb' = Paired(t, k, v) /\ added' = Append(added, e) /\ pc' = "open"
    BY <1>2 DEF AddPair, Paired
  <2>2. tb'.dst = t.dst
    BY <2>1, PairedFields
  <2>3. Ascending(Append(added, e))
    <3>1. e.key = k
      OBVIOUS
    <3>2. IsSeq(added)
      BY DEF IsSeq
    <3> HIDE DEF e
    <3> QED BY <3>1, <3>2, AscendingAppend DEF InOrder
  <2> QED BY <2>1, <2>2, <2>3 DEF OrderInv, Working
<1> QED BY <1>1, <1>2

\* add() of a key in order.
LEMMA AddOrder ==
    ASSUME BlockRestartInterval > 0, ~ShortWrites, BlockSize >= 8, Inv, OrderInv,
           NEW k \in Keys, NEW v \in Vals, InOrder(k), add(k, v)
    PROVE  OrderInv'
<1>1. /\ pc = "open" /\ Filling(tb) /\ DOMAIN tb = TableFields /\ IsSeq(tb.dst)
      /\ added \in Seq(Pairs) /\ ordered /\ ordered' = ordered /\ Ascending(added)
      /\ Plain(tb.dst) /\ \A i \in 1 .. Len(tb.dst) : tb.dst[i].body # <<>>
  BY DEF add, Inv, OrderInv, Working
<1>2. CASE pc' = "panic" /\ added' = added
  BY <1>1, <1>2 DEF OrderInv, Working
<1>3. CASE ~BelowPrevBlock(tb, k) /\ ~BlockFull(tb)
  <2>1. AddPair(tb, k, v)
    BY <1>3 DEF add
  <2> QED BY <1>1, <2>1, AddPairOrder
<1>4. CASE ~BelowPrevBlock(tb, k) /\ BlockFull(tb) /\ ~WriteDataBlockPanics(tb, k)
  <2>1. PICK n \in Accepted(StoredLen(tb.data_block)) : AddPair(WriteDataBlock(tb, n, k), k, v)
    BY <1>4 DEF add
  <2> DEFINE w   == WriteDataBlock(tb, n, k)
             seg == Segment(tb, "data", n, ctype, StoredLen(tb.data_block), tb.data_block.kvs)
  <2>2. DOMAIN w = TableFields /\ w.dst = Append(tb.dst, seg)
    BY <1>1, WriteDataBlockFields
  <2>3. seg.kind \in {"data", "torn"} /\ seg.body = tb.data_block.kvs
    BY SegmentFields
  <2>4. AddPair(w, k, v)
    BY <2>1
  <2> HIDE DEF w, seg
  <2>5. seg.body # <<>>
    BY <1>1, <1>4, <2>3, FullHasEntries
  <2>6. Plain(Append(tb.dst, seg))
    BY <1>1, <2>3, PlainAppend
  <2>7. \A i \in 1 .. Len(w.dst) : w.dst[i].body # <<>>
    <3>1. /\ Len(tb.dst) \in Nat /\ Len(w.dst) = Len(tb.dst) + 1 /\ w.dst[Len(tb.dst) + 1] = seg
          /\ \A i \in 1 .. Len(tb.dst) : w.dst[i] = tb.dst[i]
      BY <1>1, <2>2, AppendAny
    <3>2. ASSUME NEW i \in 1 .. Len(w.dst) PROVE i \in 1 .. Len(tb.dst) \/ i = Len(tb.dst) + 1
      BY <3>1
    <3> QED BY <1>1, <2>5, <3>1, <3>2
  <2> QED BY <1>1, <2>2, <2>4, <2>6, <2>7, AddPairOrder
<1> QED BY <1>2, <1>3, <1>4 DEF add

\* The first step of finish().
LEMMA FinishOrder ==
    ASSUME BlockRestartInterval > 0, ~ShortWrites, Inv, OrderInv, finish
    PROVE  OrderInv'
<1>1. /\ pc = "open" /\ Filling(tb) /\ Started(tb) /\ Sorted(tb, added)
      /\ DOMAIN tb = TableFields /\ IsSeq(tb.dst)
      /\ ordered /\ ordered' = ordered /\ added' = added /\ Ascending(added)
      /\ Plain(tb.dst) /\ \A i \in 1 .. Len(tb.dst) : tb.dst[i].body # <<>>
  BY DEF finish, Inv, OrderInv, Working
<1> DEFINE last == tb.data_block.bb.last_key
           past == find_short_succ(last)
<1>2. /\ tb.data_block.kvs \in Seq(KeyValue) /\ last = KeyOfLast(tb.data_block.kvs)
      /\ Len(tb.data_block.bb.buffer) = Len(tb.data_block.kvs)
  BY <1>1 DEF Filling, Holds, KeyOfLast
<1>3. past \in ByteString /\ Less(last, past)
  BY <1>2, LastKeyOf, SuccessorIsKey
<1>4. CASE ~Pending(tb)
  <2>1. pc' = "filter" /\ tb' = tb
    BY <1>4 DEF finish
  <2>2. Divides(tb)
    BY <1>1, SortedDivides
  <2> QED BY <1>1, <2>1, <2>2 DEF OrderInv, Working
<1>5. CASE pc' = "panic"
  BY <1>1, <1>5 DEF OrderInv, Working
<1>6. CASE Pending(tb) /\ ~WriteDataBlockPanics(tb, past)
  <2>1. pc' = "filter" /\ \E n : tb' = WriteDataBlock(tb, n, past)
    BY <1>6 DEF finish
  <2>2. PICK n : tb' = WriteDataBlock(tb, n, past)
    BY <2>1
  <2> DEFINE w   == WriteDataBlock(tb, n, past)
             seg == Segment(tb, "data", n, ctype, StoredLen(tb.data_block), tb.data_block.kvs)
             d   == Len(tb.dst)
  <2> HIDE DEF past
  <2>3. /\ Filling(w) /\ d \in Nat /\ Len(w.dst) = d + 1
        /\ w.dst[d + 1].body = tb.data_block.kvs /\ \A i \in 1 .. d : w.dst[i] = tb.dst[i]
    BY <1>1, <1>3, WriteHolds
  <2>4. Sorted(w, added)
    BY <1>1, <1>2, <1>3, WriteSorted
  <2>5. w.dst = Append(tb.dst, seg)
    BY <1>1, WriteDataBlockFields
  <2>6. seg.kind \in {"data", "torn"}
    BY SegmentFields
  <2>7. tb' = w
    BY <2>2
  <2> HIDE DEF w, seg, d
  <2>8. tb.data_block.kvs # <<>>
    BY <1>2, <1>6 DEF Pending, Entries
  <2>9. \A i \in 1 .. Len(w.dst) : w.dst[i].body # <<>>
    <3>1. ASSUME NEW i \in 1 .. Len(w.dst) PROVE i \in 1 .. d \/ i = d + 1
      BY <2>3
    <3> QED BY <1>1, <2>3, <2>8, <3>1 DEF d
  <2>10. Divides(w)
    BY <2>3, <2>4, <2>9, SortedDivides
  <2>11. Plain(Append(tb.dst, seg))
    BY <1>1, <2>6, PlainAppend
  <2> QED BY <1>1, <2>1, <2>5, <2>7, <2>10, <2>11 DEF OrderInv, Working
<1> QED BY <1>4, <1>5, <1>6 DEF finish

\* What finish() appends when it writes a block.
LEMMA FinishStepOrder ==
    ASSUME ~ShortWrites, Inv, FileInv, OrderInv, NEW from \in Working \ {"open"},
           NEW to \in Working \ {"open"}, NEW kind, NEW ct, NEW len, NEW body,
           FinishStep(from, to, kind, ct, len, body),
           kind = "filter" => ct = 0, kind = "metaindex" => Len(body) = 1
    PROVE  OrderInv'
<1> DEFINE stored == Stored(ct, len)
           h == HandleFor(tb, stored)
<1>1. PICK n \in Accepted(stored) :
         tb' = [WriteBlock(tb, kind, n, ct, stored, body) EXCEPT !.handles[kind] = h]
  BY DEF FinishStep
<1>2. /\ DOMAIN tb = TableFields /\ IsSeq(tb.dst) /\ pc = from /\ pc' = to
      /\ ordered /\ ordered' = ordered /\ added' = added /\ Ascending(added)
      /\ Plain(tb.dst) /\ Divides(tb) /\ Entered(tb.dst, tb.index_block.kvs)
  BY DEF Inv, FinishStep, OrderInv, FileInv, Sound
<1> DEFINE u   == WriteBlock(tb, kind, n, ct, stored, body)
           seg == Segment(tb, kind, n, ct, stored, body)
<1>3. n = stored
  BY <1>1 DEF Accepted
<1> HIDE DEF stored, h
<1>4. DOMAIN u = TableFields /\ u.dst = Append(tb.dst, seg) /\ u.index_block = tb.index_block
  BY <1>2, WriteBlockFields
<1>5. seg.kind = kind /\ seg.body = body /\ seg.ctype = ct
  BY <1>3 DEF Segment
<1> HIDE DEF u, seg
<1>6. tb'.dst = u.dst /\ tb'.index_block = u.index_block
  BY <1>1, <1>4 DEF TableFields, u
<1>7. Plain(Append(tb.dst, seg))
  BY <1>2, <1>5, PlainAppend
<1>8. Divides(tb')
  BY <1>2, <1>4, <1>6, DividesAppend
<1> QED BY <1>2, <1>4, <1>6, <1>7, <1>8 DEF OrderInv, Working

\* The last step of finish().
LEMMA FooterOrder ==
    ASSUME Inv, FileInv, OrderInv, writeFooter
    PROVE  OrderInv'
<1>1. /\ DOMAIN tb = TableFields /\ IsSeq(tb.dst) /\ pc' = "finished"
      /\ ordered /\ ordered' = ordered /\ added' = added /\ Ascending(added)
      /\ Plain(tb.dst) /\ Divides(tb) /\ Entered(tb.dst, tb.index_block.kvs)
  BY DEF Inv, writeFooter, OrderInv, FileInv, Sound, Working
<1> DEFINE body == H!EncodeFooter([meta_index |-> tb.handles["metaindex"],
                                   index      |-> tb.handles["index"]])
<1>2. PICK n \in Accepted(FooterLen) :
         tb' = [tb EXCEPT !.dst = Append(@, Segment(tb, "footer", n, 0, FooterLen, body)),
                          !.written = @ + n, !.offset = @ + FooterSize(n)]
  BY DEF writeFooter
<1> DEFINE seg == Segment(tb, "footer", n, 0, FooterLen, body)
<1> HIDE DEF body
<1>3. seg.kind \in {"footer", "torn"}
  BY SegmentFields
<1> HIDE DEF seg
<1>4. tb'.dst = Append(tb.dst, seg) /\ tb'.index_block = tb.index_block
  BY <1>1, <1>2 DEF TableFields, seg
<1>5. Plain(Append(tb.dst, seg))
  BY <1>1, <1>3, PlainAppend
<1>6. Divides(tb')
  BY <1>1, <1>4, DividesAppend
<1> QED BY <1>1, <1>4, <1>5, <1>6 DEF OrderInv, Working

\* Every step keeps the order.
LEMMA NextOrder ==
    ASSUME BlockRestartInterval > 0, ~ShortWrites, BlockSize >= 8, Inv, FileInv, OrderInv,
           [TableNext]_tableVars
    PROVE  OrderInv'
<1>1. CASE UNCHANGED vars
  <2>1. UNCHANGED <<pc, tb, added, ordered>>
    BY <1>1 DEF vars
  <2>2. Divides(tb)' <=> Divides(tb)
    BY <2>1 DEF Divides
  <2> QED BY <2>1, <2>2 DEF OrderInv
<1>2. CASE Write
  <2>1. ASSUME NEW k \in Keys, NEW v \in Vals, InOrder(k), add(k, v) PROVE OrderInv'
    BY <2>1, AddOrder
  <2>2. CASE finish
    BY <2>2, FinishOrder
  <2>3. CASE writeFilter
    <3>1. FinishStep("filter", "metaindex", "filter", 0,
                     FilterBlockLen(FinishFilters(tb.filter_block)), FinishFilters(tb.filter_block))
      BY <2>3 DEF writeFilter
    <3>2. "filter" \in Working \ {"open"} /\ "metaindex" \in Working \ {"open"}
      BY DEF Working
    <3> QED BY <3>1, <3>2, FinishStepOrder
  <2>4. CASE writeMetaindex
    <3> DEFINE val  == H!encode_to(tb.handles["filter"])
               meta == AddTo(NewBlock, FilterName, val)
    <3>0. CASE HandleTooLong(tb.handles["filter"])
      <4>1. pc = "metaindex" /\ pc' = "panic" /\ UNCHANGED <<tb, added, ordered>>
        BY <2>4, <3>0 DEF writeMetaindex
      <4> QED BY <4>1 DEF OrderInv, Divides, Working
    <3> SUFFICES ASSUME ~HandleTooLong(tb.handles["filter"]) PROVE OrderInv'
      BY <3>0
    <3>1. FinishStep("metaindex", "index", "metaindex", ctype, BlockLen(meta), meta.kvs)
      BY <2>4 DEF writeMetaindex
    <3>2. "metaindex" \in Working \ {"open"} /\ "index" \in Working \ {"open"}
      BY DEF Working
    <3>3. meta.kvs = Append(<<>>, [key |-> FilterName, val |-> val])
      BY DEF AddTo, NewBlock
    <3> HIDE DEF meta, val
    <3>4. Len(meta.kvs) = 1
      BY <3>3, EmptyIsSeq, AppendAny
    <3> QED BY <3>1, <3>2, <3>4, FinishStepOrder
  <2>5. CASE writeIndex
    <3>1. FinishStep("index", "footer", "index", ctype, BlockLen(tb.index_block), tb.index_block.kvs)
      BY <2>5 DEF writeIndex
    <3>2. "index" \in Working \ {"open"} /\ "footer" \in Working \ {"open"}
      BY DEF Working
    <3> QED BY <3>1, <3>2, FinishStepOrder
  <2>6. CASE writeFooter
    BY <2>6, FooterOrder
  <2> QED BY <1>2, <2>1, <2>2, <2>3, <2>4, <2>5, <2>6 DEF Write, Finishing
<1> QED BY <1>1, <1>2
        DEF TableNext, tableVars, New, advance, advanceStep, seek, prev, prevPanics, reset, Does

\* An empty table is in order.
LEMMA OrderInit ==
    ASSUME Init
    PROVE  OrderInv
<1>1. pc = "open" /\ ordered /\ added = <<>> /\ tb.dst = <<>>
  BY DEF Init, NewTable
<1> QED BY <1>1, EmptyIsSeq DEF OrderInv, Ascending, Plain, Working

-----------------------------------------------------------------------------

\* The sequences that are joined up to each of them.
LEMMA JoinedSeqs ==
    ASSUME NEW n \in Nat, NEW t, NEW S, \A i \in 1 .. n : t[i] \in Seq(S)
    PROVE  /\ \A b \in 0 .. n : Joined(t, b) \in Seq(S)
           /\ \A b \in 1 .. n : Joined(t, b) = Joined(t, b - 1) \o t[b]
<1>1. Joined(t, 0) \in Seq(S)
  BY DEF Joined
<1>2. ASSUME NEW b \in 1 .. n, Joined(t, b - 1) \in Seq(S)
      PROVE  Joined(t, b) \in Seq(S) /\ Joined(t, b) = Joined(t, b - 1) \o t[b]
  <2> DEFINE a == b - 1
  <2>1. a \in Nat /\ a + 1 = b /\ \A i \in 1 .. a + 1 : i \in 1 .. n
    OBVIOUS
  <2>2. Joined(t, a) \in Seq(S)
    BY <1>2
  <2> HIDE DEF a
  <2>3. Joined(t, a + 1) = Joined(t, a) \o t[a + 1] /\ Joined(t, a + 1) \in Seq(S)
    BY <2>1, <2>2, JoinedMore
  <2> QED BY <2>1, <2>3 DEF a
<1> DEFINE bad == {b \in 0 .. n : Joined(t, b) \notin Seq(S)}
<1>3. bad = {}
  <2> SUFFICES ASSUME bad # {} PROVE FALSE
    OBVIOUS
  <2>0. bad \in SUBSET Nat
    OBVIOUS
  <2> HIDE DEF bad
  <2>1. PICK x \in bad : \A y \in bad : x <= y
    BY <2>0, LeastElement
  <2> USE DEF bad
  <2>2. x \in 1 .. n /\ x - 1 \in 0 .. n /\ x - 1 \notin bad
    BY <1>1, <2>1
  <2> QED BY <1>2, <2>1, <2>2
<1>4. \A b \in 1 .. n : b - 1 \in 0 .. n
  OBVIOUS
<1> QED BY <1>2, <1>3, <1>4

\* What is joined first comes first.
LEMMA JoinedPrefix ==
    ASSUME NEW n \in Nat, NEW t, NEW S, \A i \in 1 .. n : t[i] \in Seq(S), NEW b \in 0 .. n
    PROVE  /\ Len(Joined(t, b)) \in Nat /\ Len(Joined(t, b)) <= Len(Joined(t, n))
           /\ \A x \in 1 .. Len(Joined(t, b)) : Joined(t, n)[x] = Joined(t, b)[x]
<1> DEFINE J(i) == Joined(t, i)
           P(i) == Len(J(i)) <= Len(J(n)) /\ \A x \in 1 .. Len(J(i)) : J(n)[x] = J(i)[x]
<1>0. /\ \A i \in 0 .. n : J(i) \in Seq(S)
      /\ \A i \in 1 .. n : J(i) = J(i - 1) \o t[i]
  BY JoinedSeqs
<1> HIDE DEF J
<1>1. /\ \A i \in 0 .. n : J(i) \in Seq(S) /\ Len(J(i)) \in Nat
      /\ \A i \in 1 .. n : J(i) = J(i - 1) \o t[i]
  BY <1>0, LenProperties
<1>2. P(n)
  BY <1>1
<1>3. ASSUME NEW i \in 1 .. n, P(i) PROVE P(i - 1)
  <2>0. i - 1 \in 0 .. n /\ n \in 0 .. n
    OBVIOUS
  <2>1. /\ J(i - 1) \in Seq(S) /\ t[i] \in Seq(S) /\ J(i) = J(i - 1) \o t[i]
        /\ Len(J(n)) \in Nat /\ Len(J(i - 1)) \in Nat
    BY <1>1, <2>0
  <2> DEFINE p == Len(J(i - 1))
             q == Len(t[i])
             r == Len(J(i))
  <2>2. r = p + q /\ q \in Nat /\ p \in Nat
    BY <2>1, ConcatProperties
  <2>3. \A x \in 1 .. p : J(i)[x] = J(i - 1)[x]
    BY <2>1, ConcatProperties
  <2> HIDE DEF p, q, r
  <2>4. \A x \in 1 .. p : x \in 1 .. r
    BY <2>2
  <2>5. r <= Len(J(n)) /\ \A x \in 1 .. r : J(n)[x] = J(i)[x]
    BY <1>3 DEF r
  <2>6. p <= Len(J(n))
    BY <2>1, <2>2, <2>5
  <2>7. \A x \in 1 .. p : J(n)[x] = J(i - 1)[x]
    BY <2>3, <2>4, <2>5
  <2> QED BY <2>6, <2>7 DEF p
<1> HIDE DEF P
<1> DEFINE bad == {c \in 0 .. n : ~P(n - c)}
<1>4. bad = {}
  <2> SUFFICES ASSUME bad # {} PROVE FALSE
    OBVIOUS
  <2>0. bad \in SUBSET Nat
    OBVIOUS
  <2> HIDE DEF bad
  <2>1. PICK x \in bad : \A y \in bad : x <= y
    BY <2>0, LeastElement
  <2> USE DEF bad
  <2>2. x # 0
    BY <1>2, <2>1
  <2> DEFINE i == n - (x - 1)
  <2>3. x - 1 \in 0 .. n /\ i \in 1 .. n /\ i - 1 = n - x /\ ~(x <= x - 1)
    BY <2>1, <2>2
  <2>4. x - 1 \notin bad
    BY <2>1, <2>3
  <2>5. P(i)
    BY <2>3, <2>4
  <2> HIDE DEF i
  <2>6. P(i - 1)
    BY <1>3, <2>3, <2>5
  <2> QED BY <2>1, <2>3, <2>6
<1>5. n - b \in 0 .. n /\ n - (n - b) = b
  OBVIOUS
<1>6. P(b)
  BY <1>4, <1>5
<1> QED BY <1>1, <1>6 DEF P, J

\* The first of the elements of sequence b among all, and where all are.
LEMMA JoinedEntries ==
    ASSUME NEW n \in Nat, NEW t, NEW S, \A i \in 1 .. n : t[i] \in Seq(S)
    PROVE  LET L(b) == Len(Joined(t, b))
           IN  /\ L(0) = 0 /\ \A b \in 0 .. n : L(b) \in Nat
               /\ \A b \in 1 .. n :
                     /\ L(b) = L(b - 1) + Len(t[b]) /\ L(b) <= L(n)
                     /\ \A m \in 1 .. Len(t[b]) : Joined(t, n)[L(b - 1) + m] = t[b][m]
               /\ \A a, b \in 0 .. n : a <= b => L(a) <= L(b)
               /\ \A x \in 1 .. L(n) : \E b \in 1 .. n : L(b - 1) < x /\ x <= L(b)
<1> DEFINE J(i) == Joined(t, i)
           L(i) == Len(J(i))
<1>0. /\ \A i \in 0 .. n : J(i) \in Seq(S)
      /\ \A i \in 1 .. n : J(i) = J(i - 1) \o t[i]
  BY JoinedSeqs
<1>1. /\ \A i \in 0 .. n : J(i) \in Seq(S) /\ L(i) \in Nat
      /\ \A i \in 1 .. n : J(i) = J(i - 1) \o t[i]
  <2> HIDE DEF J
  <2> QED BY <1>0, LenProperties
<1>2. L(0) = 0
  BY DEF Joined
<1>3. \A b \in 0 .. n : /\ L(b) <= L(n)
                        /\ \A x \in 1 .. L(b) : J(n)[x] = J(b)[x]
  BY JoinedPrefix
<1>4. ASSUME NEW a \in 0 .. n, NEW b \in 0 .. n, a <= b PROVE L(a) <= L(b)
  <2>1. b \in Nat /\ a \in 0 .. b /\ \A i \in 1 .. b : t[i] \in Seq(S)
    BY <1>4
  <2> QED BY <2>1, JoinedPrefix
<1> HIDE DEF J
<1>5. ASSUME NEW b \in 1 .. n
      PROVE  /\ L(b) = L(b - 1) + Len(t[b]) /\ L(b) <= L(n)
             /\ \A m \in 1 .. Len(t[b]) : J(n)[L(b - 1) + m] = t[b][m]
  <2>0. b - 1 \in 0 .. n /\ b \in 0 .. n
    OBVIOUS
  <2>1. /\ J(b - 1) \in Seq(S) /\ t[b] \in Seq(S) /\ J(b) = J(b - 1) \o t[b] /\ b \in 0 .. n
    BY <1>1, <2>0
  <2>2. /\ L(b) = L(b - 1) + Len(t[b]) /\ Len(t[b]) \in Nat /\ L(b - 1) \in Nat
        /\ \A m \in 1 .. Len(t[b]) : J(b)[L(b - 1) + m] = t[b][m]
    BY <2>1, ConcatProperties
  <2>3. \A m \in 1 .. Len(t[b]) : L(b - 1) + m \in 1 .. L(b)
    BY <2>2
  <2> QED BY <1>3, <2>1, <2>2, <2>3
<1>6. ASSUME NEW x \in 1 .. L(n) PROVE \E b \in 1 .. n : L(b - 1) < x /\ x <= L(b)
  <2> DEFINE T == {b \in 1 .. n : x <= L(b)}
  <2>1. n \in 1 .. n /\ x <= L(n)
    BY <1>1, <1>2
  <2>2. PICK b \in T : \A y \in T : b <= y
    <3>1. T \in SUBSET Nat /\ n \in T
      BY <2>1
    <3> HIDE DEF T
    <3> QED BY <3>1, LeastElement
  <2>3. CASE b = 1
    BY <1>2, <2>2, <2>3
  <2>4. CASE b > 1
    <3>1. b - 1 \in 1 .. n /\ b - 1 \notin T /\ L(b - 1) \in Nat
      BY <1>1, <2>2, <2>4
    <3> QED BY <2>2, <3>1
  <2> QED BY <2>2, <2>3, <2>4
<1> QED BY <1>1, <1>2, <1>4, <1>5, <1>6 DEF J

-----------------------------------------------------------------------------

\* o is a table of the file that t wrote: it has the index, the blocks at their
\* places, the metaindex, and for every policy the filter block or none.
Faithful(t, o) ==
    /\ o.index_block = t.index_block.kvs
    /\ \A i \in 1 .. Len(t.index_block.kvs) :
          o.blocks[i].place = i /\ o.blocks[i].offset = t.dst[i].at
    /\ \E j \in 1 .. Len(t.dst) : t.dst[j].kind = "metaindex" /\ o.meta_index.offset = t.dst[j].at
    /\ \A name \in PolicyNames :
          \/ o.filters[name] = 0
          \/ o.filters[name] \in 1 .. Len(t.dst) /\ t.dst[o.filters[name]].kind = "filter"

\* read_filter_block finds the filter block, or nothing.
LEMMA ReadFilterIs ==
    ASSUME Inv, FileInv, OrderInv, tb.written <= MaxOffset, pc = "finished",
           NEW j \in 1 .. Len(tb.dst), tb.dst[j].kind = "metaindex", NEW name
    PROVE  LET f == read_filter_block(tb.dst[j].body, name)
           IN  f = 0 \/ (f \in 1 .. Len(tb.dst) /\ tb.dst[f].kind = "filter")
<1> DEFINE metaix == tb.dst[j].body
           x == ItSeek(metaix, ItNew, name)
           e == metaix[1]
           f == read_filter_block(metaix, name)
<1>1. /\ IsSeq(tb.dst) /\ tb.written \in Nat /\ Placed(tb.dst, tb.written)
      /\ MetaLinked(tb.dst) /\ Len(metaix) = 1
  BY DEF Inv, FileInv, Sound, OrderInv, Plain
<1>2. PICK h : Points(tb.dst, h, "filter") /\ e.val = HandleBytes(128, h)
  BY <1>1 DEF MetaLinked
<1>3. PICK i \in 1 .. Len(tb.dst) : tb.dst[i].kind = "filter" /\ h = Where(tb.dst[i])
  BY <1>2 DEF Points
<1> HIDE DEF e
<1>4. HandleOf(e) = [offset |-> tb.dst[i].at, size |-> tb.dst[i].len]
  BY <1>1, <1>2, <1>3, EntryResolves
<1>5. HandleOf(e).offset = tb.dst[i].at /\ HandleOf(e).size = tb.dst[i].len
  BY <1>4
<1>6. PlaceOf(HandleOf(e)) = i
  BY <1>1, <1>5, PlaceOfWhere
<1>7. x.on => x.cur = 0
  <2> DEFINE S == AtOrAbove(metaix, name)
  <2>1. S \subseteq {0}
    BY <1>1 DEF AtOrAbove
  <2>2. S \in SUBSET Nat
    BY <2>1
  <2> HIDE DEF S, metaix
  <2>3. S # {} => Min(S) = 0
    BY <2>1, <2>2, MinOf
  <2> QED BY <2>3 DEF ItSeek, S
<1>8. f = IF x.on THEN PlaceOf(HandleOf(metaix[x.cur + 1])) ELSE 0
  BY DEF read_filter_block
<1> HIDE DEF x, f, metaix
<1>9. x.on => metaix[x.cur + 1] = e
  BY <1>7 DEF e, metaix
<1>10. f = i \/ f = 0
  BY <1>6, <1>8, <1>9
<1>11. read_filter_block(tb.dst[j].body, name) = f
  BY DEF f, metaix
<1> QED BY <1>3, <1>10, <1>11

\* The Table that Table::new makes.
LEMMA OpenedIs ==
    ASSUME Inv, FileInv, OrderInv, tb.written <= MaxOffset, pc = "finished"
    PROVE  Faithful(tb, Opened)
<1> DEFINE kvs == tb.index_block.kvs
           n == Len(tb.dst)
           footer == H!DecodeFooter(Last(tb.dst).body)
           index  == tb.dst[PlaceOf(footer.index)].body
           metaix == tb.dst[PlaceOf(footer.meta_index)].body
           blocks == [i \in 1 .. Len(index) |->
                         [offset |-> HandleOf(index[i]).offset, place |-> PlaceOf(HandleOf(index[i]))]]
           filters == [name \in PolicyNames |-> read_filter_block(metaix, name)]
<1>1. /\ IsSeq(tb.dst) /\ tb.written \in Nat /\ Placed(tb.dst, tb.written)
      /\ Entered(tb.dst, kvs) /\ Ends(tb.dst, kvs)
  BY DEF Inv, FileInv, Sound
<1>2. Opened = [meta_index |-> footer.meta_index, index_block |-> index,
                blocks |-> blocks, filters |-> filters]
  BY DEF Opened
<1>3. /\ Opened.index_block = index /\ Opened.blocks = blocks /\ Opened.filters = filters
      /\ Opened.meta_index = footer.meta_index
  <2> HIDE DEF index, blocks, footer, filters
  <2> QED BY <1>2
<1>4. PICK m, x : /\ Points(tb.dst, m, "metaindex") /\ IndexAt(tb.dst, kvs, x)
                  /\ tb.dst[n].kind = "footer" /\ n > 0
                  /\ \A i \in 1 .. n : tb.dst[i].kind = "footer" => tb.dst[i].body = FooterOf(m, x)
  BY <1>1 DEF Ends
<1>5. Last(tb.dst).body = FooterOf(m, x)
  <2>1. n \in Nat
    BY <1>1 DEF IsSeq
  <2>2. n \in 1 .. n
    BY <1>4, <2>1
  <2> QED BY <1>4, <2>2 DEF Last
<1>6. PICK l \in 1 .. n : tb.dst[l].kind = "index" /\ tb.dst[l].body = kvs /\ x = Where(tb.dst[l])
  BY <1>4 DEF IndexAt
<1>7. PICK j \in 1 .. n : tb.dst[j].kind = "metaindex" /\ m = Where(tb.dst[j])
  BY <1>4 DEF Points
<1>8. /\ Small(m) /\ Small(x) /\ m.offset = tb.dst[j].at /\ m.size = tb.dst[j].len
  BY <1>1, <1>6, <1>7, SmallWhere
<1>9. footer = [meta_index |-> [offset |-> m.offset, size |-> m.size],
                index      |-> [offset |-> x.offset, size |-> x.size]]
  BY <1>5, <1>8, FooterOfReads
<1> DEFINE h == footer.meta_index
<1>10. h = [offset |-> m.offset, size |-> m.size]
  BY <1>9
<1>11. h.offset = tb.dst[j].at /\ h.size = tb.dst[j].len
  BY <1>8, <1>10
<1>12. metaix = tb.dst[j].body
  <2> HIDE DEF h
  <2>1. PlaceOf(h) = j
    BY <1>1, <1>11, PlaceOfWhere
  <2> QED BY <2>1 DEF h
<1>13. Opened.meta_index.offset = tb.dst[j].at
  <2> HIDE DEF footer
  <2> QED BY <1>3, <1>11
<1>14. index = kvs
  <2>1. Opened.index_block = kvs
    BY OpenedIsComplete
  <2> HIDE DEF index
  <2> QED BY <1>3, <2>1
<1> HIDE DEF index, metaix, footer
<1>15. ASSUME NEW i \in 1 .. Len(kvs)
       PROVE  blocks[i].place = i /\ blocks[i].offset = tb.dst[i].at
  <2> DEFINE e == kvs[i]
             g == HandleOf(e)
  <2>1. i \in 1 .. n /\ e.val = HandleBytes(128, Where(tb.dst[i]))
    BY <1>1 DEF Entered
  <2> HIDE DEF e
  <2>2. g = [offset |-> tb.dst[i].at, size |-> tb.dst[i].len]
    BY <1>1, <2>1, EntryResolves
  <2>3. g.offset = tb.dst[i].at /\ g.size = tb.dst[i].len
    BY <2>2
  <2> HIDE DEF g
  <2>4. PlaceOf(g) = i
    BY <1>1, <2>1, <2>3, PlaceOfWhere
  <2>5. blocks[i] = [offset |-> g.offset, place |-> PlaceOf(g)]
    BY <1>14 DEF g, e
  <2> QED BY <2>3, <2>4, <2>5
<1>16. ASSUME NEW name \in PolicyNames
       PROVE  \/ filters[name] = 0
              \/ filters[name] \in 1 .. Len(tb.dst) /\ tb.dst[filters[name]].kind = "filter"
  <2>1. filters[name] = read_filter_block(tb.dst[j].body, name)
    BY <1>12
  <2> HIDE DEF filters
  <2> QED BY <1>7, <2>1, ReadFilterIs
<1> HIDE DEF blocks, filters
<1> QED BY <1>3, <1>7, <1>13, <1>14, <1>15, <1>16 DEF Faithful

\* A file opens once, when it is finished, and the table stays as it was made.
OpenInv ==
    opened = "yes" => pc = "finished" /\ (tb.written <= MaxOffset => Faithful(tb, table))

\* The reader's steps leave the file and the table alone.
LEMMA NextOpen ==
    ASSUME Inv, FileInv, OrderInv, OpenInv, [TableNext]_tableVars
    PROVE  OpenInv'
<1>1. CASE UNCHANGED <<vars, opened, table>>
  <2>1. tb' = tb /\ pc' = pc /\ opened' = opened /\ table' = table
    BY <1>1 DEF vars
  <2>2. Faithful(tb, table)' <=> Faithful(tb, table)
    BY <2>1 DEF Faithful
  <2> QED BY <2>1, <2>2 DEF OpenInv
<1>2. CASE Write
  BY <1>2 DEF Write, readerVars, OpenInv
<1>3. CASE New
  <2>1. /\ UNCHANGED vars
        /\ \E n \in 0 .. Len(tb.dst) :
              IF HasFooter(n)
              THEN \E d \in Damage :
                      /\ damaged' = d
                      /\ IF d \intersect Places({"metaindex", "index"}) # {}
                         THEN opened' = "error" /\ UNCHANGED table
                         ELSE opened' = "yes" /\ table' = Opened
              ELSE opened' \in NoFooterEnds(n) /\ UNCHANGED <<table, damaged>>
    BY <1>3 DEF New
  <2>2. PICK n \in 0 .. Len(tb.dst) :
           opened' # "yes" \/ (HasFooter(n) /\ table' = Opened)
    BY <2>1 DEF NoFooterEnds
  <2>3. HasFooter(n) => pc = "finished"
    <3> SUFFICES ASSUME HasFooter(n) PROVE pc = "finished"
      OBVIOUS
    <3>1. n \in 1 .. Len(tb.dst) /\ tb.dst[n].kind = "footer"
      BY DEF HasFooter
    <3> QED BY <3>1 DEF FileInv, Writable, NoKind
  <2>4. pc' = pc /\ tb' = tb
    BY <2>1 DEF vars
  <2>5. CASE opened' # "yes"
    BY <2>5 DEF OpenInv
  <2>6. CASE HasFooter(n) /\ table' = Opened
    <3>1. tb.written <= MaxOffset => Faithful(tb, Opened)
      BY <2>3, <2>6, OpenedIs
    <3>2. tb'.written <= MaxOffset => Faithful(tb', table')
      BY <2>4, <2>6, <3>1
    <3> QED BY <2>3, <2>4, <2>6, <3>2 DEF OpenInv
  <2> QED BY <2>2, <2>5, <2>6
<1> QED BY <1>1, <1>2, <1>3
        DEF TableNext, tableVars, readerVars, advance, advanceStep, seek, prev, prevPanics, reset, Does

-----------------------------------------------------------------------------

\* A table as its reader finds it: the blocks have entries, one after the other
\* those that were added, and the separators of the index divide them.
Laid ==
    /\ IsSeq(Index) /\ added \in Seq(KeyValue) /\ Ascending(added)
    /\ \A b \in 1 .. Len(Index) :
          /\ Content(b) \in Seq(KeyValue) /\ Content(b) # <<>> /\ Index[b].key \in ByteString
          /\ EntriesBefore(b) \in Nat /\ (b = 1 => EntriesBefore(b) = 0)
          /\ EntriesBefore(b) + Len(Content(b)) <= Len(added)
          /\ \A m \in 1 .. Len(Content(b)) :
                /\ added[EntriesBefore(b) + m] = Content(b)[m]
                /\ Less(Content(b)[m].key, Index[b].key)
          /\ \A c \in b + 1 .. Len(Index) :
                /\ EntriesBefore(b) + Len(Content(b)) <= EntriesBefore(c)
                /\ c = b + 1 => EntriesBefore(c) = EntriesBefore(b) + Len(Content(b))
                /\ \A m \in 1 .. Len(Content(c)) :
                      NotBelow(Content(b), Index[b].key, Content(c)[m].key)
    /\ \A n \in 1 .. Len(added) : \E b \in 1 .. Len(Index) :
          EntriesBefore(b) < n /\ n <= EntriesBefore(b) + Len(Content(b))

\* What Table::new made of the file, in the table's own words.
LEMMA TableIsLaid ==
    ASSUME Inv, FileInv, OrderInv, OpenInv, tb.written <= MaxOffset, opened = "yes"
    PROVE  Laid
<1> DEFINE kvs == tb.index_block.kvs
           N == Len(kvs)
           t == BodyOf(tb.dst)
           L(b) == Len(Joined(t, b))
<1>1. /\ pc = "finished" /\ Faithful(tb, table) /\ Divides(tb)
      /\ Entered(tb.dst, kvs) /\ EntriesOf(tb.dst, N) = added
      /\ added \in Seq(Pairs) /\ Ascending(added)
  BY DEF OpenInv, OrderInv, Inv, FileInv, Sound, Indexed, Working
<1>2. Index = kvs /\ IsSeq(kvs) /\ N \in Nat
  BY <1>1 DEF Faithful, Index, Entered, IsSeq
<1>3. added \in Seq(KeyValue)
  <2>1. Pairs \subseteq KeyValue
    BY TableAssumption DEF Pairs, KeyValue
  <2> QED BY <1>1, <2>1, SeqMonotonic
<1>4. \A b \in 1 .. N : Content(b) = tb.dst[b].body /\ t[b] = tb.dst[b].body
  BY <1>1 DEF Faithful, Content, Entered, BodyOf
<1> HIDE DEF t
<1>5. \A b \in 1 .. N : /\ t[b] \in Seq(KeyValue) /\ t[b] # <<>> /\ kvs[b].key \in ByteString
                        /\ \A m \in 1 .. Len(t[b]) : Less(t[b][m].key, kvs[b].key)
  BY <1>1, <1>4 DEF Divides
<1>6. \A b \in 1 .. N : \A c \in b + 1 .. N : \A m \in 1 .. Len(t[c]) :
         NotBelow(t[b], kvs[b].key, t[c][m].key)
  <2>1. \A b \in 1 .. N : \A c \in b + 1 .. N : c \in 1 .. N
    BY <1>2
  <2> QED BY <1>1, <1>4, <2>1 DEF Divides
<1>7. ASSUME NEW b \in 1 .. N PROVE EntriesBefore(b) = L(b - 1)
  <2> DEFINE s == [j \in 1 .. b - 1 |-> Content(j)]
             S == {Content(j) : j \in 1 .. b - 1}
  <2>1. b - 1 \in Nat /\ \A j \in 1 .. b - 1 : j \in 1 .. N
    BY <1>2
  <2>2. \A j \in 1 .. b - 1 : s[j] = t[j]
    BY <1>4, <2>1
  <2>3. s \in Seq(S) /\ Len(s) = b - 1
    BY <2>1
  <2> HIDE DEF s, S
  <2>4. FlattenSeq(s) = Joined(t, b - 1)
    BY <2>1, <2>2, <2>3, FlattenIs DEF IsSeq
  <2> QED BY <2>4 DEF EntriesBefore, s
<1>8. Joined(t, N) = added
  BY <1>1 DEF EntriesOf, t
<1>9. /\ L(0) = 0 /\ \A b \in 0 .. N : L(b) \in Nat
      /\ \A b \in 1 .. N : /\ L(b) = L(b - 1) + Len(t[b]) /\ L(b) <= L(N)
                           /\ \A m \in 1 .. Len(t[b]) : Joined(t, N)[L(b - 1) + m] = t[b][m]
      /\ \A a, b \in 0 .. N : a <= b => L(a) <= L(b)
      /\ \A x \in 1 .. L(N) : \E b \in 1 .. N : L(b - 1) < x /\ x <= L(b)
  BY <1>2, <1>5, JoinedEntries
<1> HIDE DEF L, N, kvs
<1>10. L(N) = Len(added)
  BY <1>8 DEF L
<1>11. ASSUME NEW b \in 1 .. N
       PROVE  /\ b - 1 \in 0 .. N /\ EntriesBefore(b) \in Nat /\ (b = 1 => EntriesBefore(b) = 0)
              /\ EntriesBefore(b) + Len(Content(b)) = L(b)
              /\ EntriesBefore(b) + Len(Content(b)) <= Len(added)
              /\ \A m \in 1 .. Len(Content(b)) : added[EntriesBefore(b) + m] = Content(b)[m]
  <2>1. b - 1 \in 0 .. N /\ (b = 1 => b - 1 = 0)
    BY <1>2
  <2>2. Content(b) = t[b] /\ EntriesBefore(b) = L(b - 1)
    BY <1>4, <1>7
  <2>3. EntriesBefore(b) \in Nat /\ (b = 1 => EntriesBefore(b) = 0)
    BY <1>9, <2>1, <2>2
  <2>4. EntriesBefore(b) + Len(Content(b)) = L(b)
    BY <1>9, <2>2
  <2>5. L(b) <= Len(added)
    BY <1>9, <1>10
  <2>6. \A m \in 1 .. Len(Content(b)) : added[EntriesBefore(b) + m] = Content(b)[m]
    BY <1>8, <1>9, <2>2
  <2> QED BY <2>1, <2>3, <2>4, <2>5, <2>6
<1>12. ASSUME NEW b \in 1 .. N, NEW c \in b + 1 .. N
       PROVE  /\ c \in 1 .. N
              /\ EntriesBefore(b) + Len(Content(b)) <= EntriesBefore(c)
              /\ c = b + 1 => EntriesBefore(c) = EntriesBefore(b) + Len(Content(b))
  <2>1. c \in 1 .. N /\ b \in 0 .. N /\ c - 1 \in 0 .. N /\ b <= c - 1 /\ (c = b + 1 => c - 1 = b)
    BY <1>2
  <2>2. EntriesBefore(c) = L(c - 1) /\ EntriesBefore(b) + Len(Content(b)) = L(b)
    BY <1>7, <1>11, <2>1
  <2>3. L(b) <= L(c - 1)
    BY <1>9, <2>1
  <2> QED BY <2>1, <2>2, <2>3
<1>13. ASSUME NEW n \in 1 .. Len(added)
       PROVE  \E b \in 1 .. N : EntriesBefore(b) < n /\ n <= EntriesBefore(b) + Len(Content(b))
  <2>1. PICK b \in 1 .. N : L(b - 1) < n /\ n <= L(b)
    BY <1>9, <1>10
  <2> QED BY <1>7, <1>11, <2>1
<1>14. Len(Index) = N
  BY <1>2 DEF N
<1>15. \A b \in 1 .. N : Index[b].key = kvs[b].key
  BY <1>2
<1>16. \A b \in 1 .. N :
          /\ Content(b) \in Seq(KeyValue) /\ Content(b) # <<>> /\ Index[b].key \in ByteString
          /\ \A m \in 1 .. Len(Content(b)) : Less(Content(b)[m].key, Index[b].key)
  BY <1>4, <1>5, <1>15
<1>17. \A b \in 1 .. N : \A c \in b + 1 .. N : \A m \in 1 .. Len(Content(c)) :
          NotBelow(Content(b), Index[b].key, Content(c)[m].key)
  BY <1>4, <1>6, <1>12, <1>15
<1>18. IsSeq(Index)
  BY <1>2
<1> QED BY <1>1, <1>3, <1>11, <1>12, <1>13, <1>14, <1>16, <1>17, <1>18 DEF Laid

\* The sizes and keys of a block.
LEMMA LaidBlock ==
    ASSUME Laid, NEW b \in 1 .. Len(Index)
    PROVE  /\ Len(Index) \in Nat /\ Len(Content(b)) \in Nat /\ Len(Content(b)) > 0
           /\ Content(b) \in Seq(KeyValue) /\ Index[b].key \in ByteString
           /\ EntriesBefore(b) \in Nat
           /\ \A m \in 1 .. Len(Content(b)) : Content(b)[m].key \in ByteString
<1>1. IsSeq(Index)
  BY DEF Laid
<1>2. Content(b) \in Seq(KeyValue) /\ Content(b) # <<>> /\ Index[b].key \in ByteString
      /\ EntriesBefore(b) \in Nat
  BY DEF Laid
<1>3. Len(Content(b)) \in Nat /\ Len(Content(b)) > 0
  BY <1>2, NonEmptySeq DEF IsSeq
<1>4. \A m \in 1 .. Len(Content(b)) : Content(b)[m] \in KeyValue
  BY <1>2
<1>5. Len(Index) \in Nat
  BY <1>1 DEF IsSeq
<1> QED BY <1>2, <1>3, <1>4, <1>5 DEF KeyValue

\* The number of the entry at place m of block b.
LEMMA EntryAt ==
    ASSUME Laid, NEW b \in 1 .. Len(Index), NEW m \in 1 .. Len(Content(b))
    PROVE  /\ EntriesBefore(b) + m \in 1 .. Len(added)
           /\ added[EntriesBefore(b) + m] = Content(b)[m]
           /\ added[EntriesBefore(b) + m].key \in ByteString
           /\ BlockOf(EntriesBefore(b) + m) = b
<1> DEFINE n == EntriesBefore(b) + m
           In(c) == EntriesBefore(c) < n /\ n <= EntriesBefore(c) + Len(Content(c))
<1>1. /\ EntriesBefore(b) \in Nat /\ Len(Content(b)) \in Nat /\ Len(added) \in Nat
      /\ EntriesBefore(b) + Len(Content(b)) <= Len(added) /\ added \in Seq(KeyValue)
      /\ added[n] = Content(b)[m]
  BY DEF Laid
<1>2. n \in 1 .. Len(added) /\ In(b)
  BY <1>1
<1>3. ASSUME NEW c \in 1 .. Len(Index), In(c) PROVE c = b
  <2>1. Len(Index) \in Nat /\ EntriesBefore(c) \in Nat /\ Len(Content(c)) \in Nat
    BY LaidBlock
  <2>2. CASE c < b
    <3>1. b \in c + 1 .. Len(Index)
      BY <2>1, <2>2
    <3>2. EntriesBefore(c) + Len(Content(c)) <= EntriesBefore(b)
      BY <3>1 DEF Laid
    <3> QED BY <1>1, <1>2, <1>3, <2>1, <3>2
  <2>3. CASE b < c
    <3>1. c \in b + 1 .. Len(Index)
      BY <2>1, <2>3
    <3>2. EntriesBefore(b) + Len(Content(b)) <= EntriesBefore(c)
      BY <3>1 DEF Laid
    <3> QED BY <1>1, <1>2, <1>3, <2>1, <3>2
  <2> QED BY <2>1, <2>2, <2>3
<1>4. BlockOf(n) = CHOOSE c \in 1 .. Len(Index) : In(c)
  BY DEF BlockOf
<1> HIDE DEF In
<1>5. BlockOf(n) = b
  BY <1>2, <1>3, <1>4
<1>6. added[n].key \in ByteString
  BY <1>1, LaidBlock
<1> QED BY <1>1, <1>2, <1>5, <1>6

\* Every entry is in a block.
LEMMA EntryIn ==
    ASSUME Laid, NEW n \in 1 .. Len(added)
    PROVE  LET b == BlockOf(n)
           IN  /\ b \in 1 .. Len(Index) /\ n - EntriesBefore(b) \in 1 .. Len(Content(b))
               /\ EntriesBefore(b) \in Nat /\ n = EntriesBefore(b) + (n - EntriesBefore(b))
               /\ added[n] = Content(b)[n - EntriesBefore(b)] /\ added[n].key \in ByteString
<1>1. PICK b \in 1 .. Len(Index) : EntriesBefore(b) < n /\ n <= EntriesBefore(b) + Len(Content(b))
  BY DEF Laid
<1>2. EntriesBefore(b) \in Nat /\ Len(Content(b)) \in Nat
  BY DEF Laid
<1> DEFINE m == n - EntriesBefore(b)
<1>3. m \in 1 .. Len(Content(b)) /\ n = EntriesBefore(b) + m
  BY <1>1, <1>2
<1> HIDE DEF m
<1>4. BlockOf(n) = b /\ added[n] = Content(b)[m] /\ added[n].key \in ByteString
  BY <1>3, EntryAt
<1> QED BY <1>2, <1>3, <1>4 DEF m

-----------------------------------------------------------------------------

\* seek() over entries that begin with a key, or of which it skips the first: the
\* first entry at or above the key sought.
LEMMA SeekIs ==
    ASSUME NEW s, IsSeq(s), NEW x, NEW to, ~StopsAtEmpty(s, to)
    PROVE  LET y == ItSeek(s, x, to)
           IN  /\ y.on \in BOOLEAN
               /\ y.on => /\ y = [cur |-> y.cur, on |-> TRUE]
                          /\ y.cur \in Nat /\ y.cur + 1 \in 1 .. Len(s)
                          /\ ~Less(s[y.cur + 1].key, to)
                          /\ \A i \in 1 .. y.cur : Less(s[i].key, to)
               /\ ~y.on => \A i \in 1 .. Len(s) : Less(s[i].key, to)
<1> DEFINE S == AtOrAbove(s, to)
           y == ItSeek(s, x, to)
           N == Len(s)
<1>1. N \in Nat
  BY DEF IsSeq
<1>2. S \in SUBSET Nat /\ \A i \in S : i + 1 \in 1 .. N /\ ~Less(s[i + 1].key, to)
  BY <1>1 DEF AtOrAbove
<1>3. ASSUME NEW i \in 1 .. N, ~Less(s[i].key, to) PROVE i - 1 \in S
  <2>1. i - 1 \in 0 .. N - 1 /\ (i - 1) + 1 = i
    BY <1>1
  <2> QED BY <1>3, <2>1 DEF AtOrAbove
<1> HIDE DEF S
<1>4. CASE S # {}
  <2> DEFINE c == Min(S)
  <2>1. c \in S /\ \A i \in S : c <= i
    BY <1>2, <1>4, MinOf
  <2>2. y = [cur |-> c, on |-> TRUE]
    BY <1>4 DEF ItSeek, S
  <2> HIDE DEF c, y
  <2>3. y.cur = c /\ y.on = TRUE
    BY <2>2
  <2>4. c \in Nat /\ c + 1 \in 1 .. N /\ ~Less(s[c + 1].key, to)
    BY <1>2, <2>1
  <2>5. ASSUME NEW i \in 1 .. c PROVE Less(s[i].key, to)
    <3>1. i \in 1 .. N /\ ~(c <= i - 1)
      BY <1>1, <2>4
    <3> QED BY <1>3, <2>1, <3>1
  <2>6. y = [cur |-> y.cur, on |-> TRUE]
    BY <2>2, <2>3
  <2> QED BY <2>3, <2>4, <2>5, <2>6 DEF y
<1>5. CASE S = {}
  <2>1. y.on = FALSE
    BY <1>5 DEF ItSeek, S
  <2> HIDE DEF y
  <2> QED BY <1>3, <1>5, <2>1 DEF y
<1> QED BY <1>4, <1>5

\* What FirstFrom finds.
LEMMA FirstFromIs ==
    ASSUME Laid, NEW to
    PROVE  LET n == FirstFrom(to)
           IN  /\ n = 0 \/ n \in 1 .. Len(added)
               /\ n # 0 => /\ ~Less(added[n].key, to)
                           /\ \A i \in 1 .. n - 1 : Less(added[i].key, to)
               /\ n = 0 => \A i \in 1 .. Len(added) : Less(added[i].key, to)
<1> DEFINE found == {n \in 1 .. Len(added) : ~Less(added[n].key, to)}
<1>1. Len(added) \in Nat
  BY DEF Laid
<1>2. FirstFrom(to) = IF found = {} THEN 0 ELSE Min(found)
  BY DEF FirstFrom
<1>3. CASE found = {}
  BY <1>2, <1>3
<1>4. CASE found # {}
  <2> DEFINE n == Min(found)
  <2>1. found \in SUBSET Nat
    OBVIOUS
  <2>2. n \in found /\ \A i \in found : n <= i
    <3> HIDE DEF found
    <3> QED BY <1>4, <2>1, MinOf
  <2> HIDE DEF n
  <2>3. n \in 1 .. Len(added) /\ ~Less(added[n].key, to) /\ n # 0
    BY <2>2
  <2>4. ASSUME NEW i \in 1 .. n - 1 PROVE Less(added[i].key, to)
    <3>1. i \in 1 .. Len(added) /\ ~(n <= i)
      BY <1>1, <2>3
    <3> QED BY <2>2, <3>1
  <2>5. FirstFrom(to) = n
    BY <1>2, <1>4 DEF n
  <2> QED BY <2>3, <2>4, <2>5
<1> QED BY <1>3, <1>4

\* A key that was added is found.
LEMMA KeyIsFirst ==
    ASSUME Laid, NEW n \in 1 .. Len(added)
    PROVE  FirstFrom(added[n].key) = n
<1> DEFINE k == added[n].key
           f == FirstFrom(k)
<1>1. /\ Len(added) \in Nat /\ Ascending(added)
      /\ \A i \in 1 .. Len(added) : added[i].key \in ByteString
  <2>1. \A i \in 1 .. Len(added) : added[i].key \in ByteString
    BY EntryIn
  <2> QED BY <2>1 DEF Laid
<1>2. /\ f = 0 \/ f \in 1 .. Len(added)
      /\ f # 0 => ~Less(added[f].key, k) /\ \A i \in 1 .. f - 1 : Less(added[i].key, k)
      /\ f = 0 => \A i \in 1 .. Len(added) : Less(added[i].key, k)
  BY FirstFromIs
<1>3. ~Less(k, k)
  BY <1>1, LessIsTotal
<1> HIDE DEF f
<1>4. f \in 1 .. Len(added)
  BY <1>2, <1>3
<1>5. ~(f < n)
  BY <1>1, <1>2, <1>4 DEF Ascending
<1>6. ~(n < f)
  <2> SUFFICES ASSUME n < f PROVE FALSE
    OBVIOUS
  <2>1. n \in 1 .. f - 1 /\ f # 0
    BY <1>4
  <2> QED BY <1>2, <1>3, <2>1
<1>7. f = n
  BY <1>4, <1>5, <1>6
<1> QED BY <1>7 DEF f

\* What comes after a separator is not below what the separator is at or above.
LEMMA NotBelowOrder ==
    ASSUME NEW body, NEW sep \in ByteString, NEW k \in ByteString, NEW to \in ByteString,
           NotBelow(body, sep, k), ~Less(sep, to)
    PROVE  /\ ~Less(k, to) /\ ~Less(k, sep)
           /\ k = to /\ body # <<>> => k = Append(Last(body).key, 0)
<1>1. CASE Less(sep, k)
  <2>1. ~Less(k, to)
    BY <1>1, LessTransitive
  <2>2. ~Less(k, sep)
    BY <1>1, LessIsTotal
  <2> QED BY <1>1, <2>1, <2>2
<1>2. CASE sep = k /\ ~Less(sep, k)
  BY <1>2 DEF NotBelow
<1> QED BY <1>1, <1>2, LessIsTotal DEF NotBelow

\* The keys of the index are not empty: seek() in it does what it should.
LEMMA IndexNotEmpty ==
    ASSUME Laid, NEW to
    PROVE  ~StopsAtEmpty(Index, to)
<1> SUFFICES ASSUME Index # <<>>, Index[1].key = <<>> PROVE FALSE
  BY DEF StopsAtEmpty
<1>1. Len(Index) \in Nat /\ Len(Index) > 0
  BY NonEmptySeq DEF Laid, IsSeq
<1>2. 1 \in 1 .. Len(Index)
  BY <1>1
<1>3. Len(Content(1)) \in Nat /\ Len(Content(1)) > 0
  BY <1>2, LaidBlock
<1>4. 1 \in 1 .. Len(Content(1))
  BY <1>3
<1>5. Less(Content(1)[1].key, Index[1].key) /\ Content(1)[1].key \in ByteString
  BY <1>2, <1>4, LaidBlock DEF Laid
<1> QED BY <1>5, NothingBelowEmpty

\* The last entry of a block, and the first of the next.
LEMMA NextBlock ==
    ASSUME Laid, NEW b \in 1 .. Len(Index)
    PROVE  LET l == EntriesBefore(b) + Len(Content(b))
           IN  /\ l \in 1 .. Len(added) /\ BlockOf(l) = b /\ added[l] = Last(Content(b))
               /\ \A c \in b + 1 .. Len(Index) :
                     /\ b + 1 \in 1 .. Len(Index) /\ EntriesBefore(b + 1) = l
                     /\ l + 1 \in 1 .. Len(added) /\ BlockOf(l + 1) = b + 1
                     /\ added[l + 1] = Content(b + 1)[1] /\ l <= EntriesBefore(c)
<1> DEFINE l == EntriesBefore(b) + Len(Content(b))
<1>1. /\ Len(Index) \in Nat /\ Len(Content(b)) \in Nat /\ Len(Content(b)) > 0
      /\ EntriesBefore(b) \in Nat
  BY LaidBlock
<1>2. Len(Content(b)) \in 1 .. Len(Content(b))
  BY <1>1
<1>3. l \in 1 .. Len(added) /\ BlockOf(l) = b /\ added[l] = Last(Content(b))
  BY <1>2, EntryAt DEF Last
<1>4. ASSUME NEW c \in b + 1 .. Len(Index)
      PROVE  /\ b + 1 \in 1 .. Len(Index) /\ EntriesBefore(b + 1) = l
             /\ l + 1 \in 1 .. Len(added) /\ BlockOf(l + 1) = b + 1
             /\ added[l + 1] = Content(b + 1)[1] /\ l <= EntriesBefore(c)
  <2>1. b + 1 \in b + 1 .. Len(Index) /\ b + 1 \in 1 .. Len(Index)
    BY <1>1
  <2>2. EntriesBefore(b + 1) = l /\ l <= EntriesBefore(c)
    BY <2>1 DEF Laid
  <2>3. Len(Content(b + 1)) \in Nat /\ Len(Content(b + 1)) > 0
    BY <2>1, LaidBlock
  <2>4. 1 \in 1 .. Len(Content(b + 1))
    BY <2>3
  <2> QED BY <2>1, <2>2, <2>4, EntryAt
<1> QED BY <1>3, <1>4

\* Where seek() in the index leads: to the block of the first entry at or above
\* the key; or, if the key lies in a gap between blocks or is a separator, to the
\* block before that entry; or beyond all.
LEMMA SeekFinds ==
    ASSUME Laid, NEW x, NEW to \in ByteString
    PROVE  LET y == ItSeek(Index, x, to)
               b == y.cur + 1
               n == FirstFrom(to)
           IN  /\ ~y.on => n = 0
               /\ y.on => /\ b \in 1 .. Len(Index) /\ y = [cur |-> b - 1, on |-> TRUE]
                          /\ ~Less(Index[b].key, to)
                          /\ \/ n # 0 /\ BlockOf(n) = b
                             \/ /\ \A m \in 1 .. Len(Content(b)) : Less(Content(b)[m].key, to)
                                /\ n # 0 => /\ n > 1 /\ BlockOf(n - 1) = b /\ BlockOf(n) # b
                                            /\ ~Less(added[n].key, Index[b].key)
                                            /\ added[n].key = to => IsSeparator(n)
<1> DEFINE y == ItSeek(Index, x, to)
           b == y.cur + 1
           n == FirstFrom(to)
<1>1. ~StopsAtEmpty(Index, to) /\ IsSeq(Index)
  BY IndexNotEmpty DEF Laid
<1>2. /\ y.on => /\ y = [cur |-> y.cur, on |-> TRUE]
                 /\ y.cur \in Nat /\ b \in 1 .. Len(Index)
                 /\ ~Less(Index[b].key, to)
                 /\ \A i \in 1 .. y.cur : Less(Index[i].key, to)
      /\ ~y.on => \A i \in 1 .. Len(Index) : Less(Index[i].key, to)
  BY <1>1, SeekIs
<1>3. /\ n = 0 \/ n \in 1 .. Len(added)
      /\ n # 0 => ~Less(added[n].key, to) /\ \A i \in 1 .. n - 1 : Less(added[i].key, to)
      /\ n = 0 => \A i \in 1 .. Len(added) : Less(added[i].key, to)
  BY FirstFromIs
<1> HIDE DEF y, n
<1>4. ASSUME n # 0
      PROVE  /\ BlockOf(n) \in 1 .. Len(Index) /\ ~Less(Index[BlockOf(n)].key, to)
             /\ added[n].key \in ByteString
  <2> DEFINE c == BlockOf(n)
             m == n - EntriesBefore(c)
  <2>1. n \in 1 .. Len(added)
    BY <1>3, <1>4
  <2>2. c \in 1 .. Len(Index) /\ m \in 1 .. Len(Content(c)) /\ added[n] = Content(c)[m]
        /\ added[n].key \in ByteString
    BY <2>1, EntryIn
  <2> HIDE DEF c, m
  <2>3. Less(Content(c)[m].key, Index[c].key) /\ Index[c].key \in ByteString
    BY <2>2, LaidBlock DEF Laid
  <2>4. ~Less(Index[c].key, to)
    BY <1>3, <1>4, <2>2, <2>3, LessTransitive
  <2> QED BY <2>2, <2>4 DEF c
<1>5. ~y.on => n = 0
  BY <1>2, <1>4
<1>6. ASSUME y.on
      PROVE  \/ n # 0 /\ BlockOf(n) = b
             \/ /\ \A m \in 1 .. Len(Content(b)) : Less(Content(b)[m].key, to)
                /\ n # 0 => /\ n > 1 /\ BlockOf(n - 1) = b /\ BlockOf(n) # b
                            /\ ~Less(added[n].key, Index[b].key)
                            /\ added[n].key = to => IsSeparator(n)
  <2> DEFINE l == EntriesBefore(b) + Len(Content(b))
  <2>1. /\ b \in 1 .. Len(Index) /\ ~Less(Index[b].key, to) /\ y.cur \in Nat
        /\ \A i \in 1 .. y.cur : Less(Index[i].key, to)
    BY <1>2, <1>6
  <2>2. /\ EntriesBefore(b) \in Nat /\ Len(Content(b)) \in Nat /\ Index[b].key \in ByteString
        /\ Len(Index) \in Nat /\ Content(b) # <<>>
    BY <2>1, LaidBlock DEF Laid
  <2>3. \A m \in 1 .. Len(Content(b)) : /\ EntriesBefore(b) + m \in 1 .. Len(added)
                                        /\ added[EntriesBefore(b) + m] = Content(b)[m]
    BY <2>1, EntryAt
  <2>4. CASE n = 0
    BY <1>3, <2>3, <2>4
  <2>5. CASE n # 0 /\ BlockOf(n) # b
    <3> DEFINE c == BlockOf(n)
    <3>1. c \in 1 .. Len(Index) /\ ~Less(Index[c].key, to) /\ added[n].key \in ByteString
          /\ n \in 1 .. Len(added)
      BY <1>3, <1>4, <2>5
    <3>2. EntriesBefore(c) \in Nat /\ EntriesBefore(c) < n
      <4>1. n - EntriesBefore(c) \in 1 .. Len(Content(c)) /\ EntriesBefore(c) \in Nat
            /\ Len(Content(c)) \in Nat
        BY <3>1, EntryIn, LaidBlock
      <4> HIDE DEF c
      <4> QED BY <3>1, <4>1
    <3> HIDE DEF c
    <3>3. c \notin 1 .. y.cur
      BY <2>1, <3>1
    <3>4. c # b
      BY <2>5 DEF c
    <3>5. c \in b + 1 .. Len(Index)
      <4> HIDE DEF l
      <4> QED BY <2>1, <2>2, <3>1, <3>3, <3>4
    <3>6. /\ b + 1 \in 1 .. Len(Index) /\ l \in 1 .. Len(added) /\ BlockOf(l) = b
          /\ added[l] = Last(Content(b))
          /\ l + 1 \in 1 .. Len(added) /\ BlockOf(l + 1) = b + 1
          /\ added[l + 1] = Content(b + 1)[1] /\ l <= EntriesBefore(c)
      BY <2>1, <3>5, NextBlock
    <3>7. NotBelow(Content(b), Index[b].key, added[l + 1].key) /\ added[l + 1].key \in ByteString
      <4>1. b + 1 \in b + 1 .. Len(Index) /\ Len(Content(b + 1)) \in Nat
            /\ Len(Content(b + 1)) > 0
        BY <2>2, <3>6, LaidBlock
      <4>2. 1 \in 1 .. Len(Content(b + 1))
        BY <4>1
      <4>3. Content(b + 1)[1].key \in ByteString
        BY <3>6, <4>2, LaidBlock
      <4> HIDE DEF l
      <4> QED BY <2>1, <3>6, <4>1, <4>2, <4>3 DEF Laid
    <3>8. /\ ~Less(added[l + 1].key, to) /\ ~Less(added[l + 1].key, Index[b].key)
          /\ added[l + 1].key = to => added[l + 1].key = Append(added[l].key, 0)
      <4> DEFINE k == added[l + 1].key
                 body == Content(b)
                 sep == Index[b].key
      <4>1. /\ NotBelow(body, sep, k) /\ k \in ByteString /\ sep \in ByteString
            /\ ~Less(sep, to) /\ body # <<>>
        BY <2>1, <2>2, <3>7
      <4> HIDE DEF k, body, sep
      <4>2. ~Less(k, to) /\ ~Less(k, sep) /\ (k = to => k = Append(Last(body).key, 0))
        BY <4>1, NotBelowOrder
      <4>3. Last(body).key = added[l].key
        BY <3>6 DEF body
      <4> QED BY <4>2, <4>3 DEF k, sep
    <3>9. l \in Nat /\ l >= 1 /\ \A m \in 1 .. Len(Content(b)) : EntriesBefore(b) + m <= l
      BY <2>2, <3>6
    <3> HIDE DEF l
    <3>10. l + 1 <= n /\ l + 1 \notin 1 .. n - 1
      BY <1>3, <2>5, <3>1, <3>2, <3>6, <3>8, <3>9
    <3>11. n = l + 1 /\ n > 1 /\ n - 1 = l
      BY <3>1, <3>9, <3>10
    <3>12. BlockOf(n - 1) = b /\ BlockOf(n) = b + 1 /\ BlockOf(n) # b
      BY <2>5, <3>6, <3>11
    <3>13. added[n].key = to => IsSeparator(n)
      BY <3>8, <3>11, <3>12 DEF IsSeparator
    <3>14. \A m \in 1 .. Len(Content(b)) : EntriesBefore(b) + m \in 1 .. n - 1
      BY <2>3, <3>9, <3>11
    <3> QED BY <1>3, <2>3, <2>5, <3>8, <3>11, <3>12, <3>13, <3>14
  <2> QED BY <2>4, <2>5
<1>7. y.on => y = [cur |-> b - 1, on |-> TRUE]
  <2> SUFFICES ASSUME y.on PROVE y = [cur |-> b - 1, on |-> TRUE]
    OBVIOUS
  <2>1. y = [cur |-> y.cur, on |-> TRUE] /\ b - 1 = y.cur
    BY <1>2
  <2> QED BY <2>1
<1> QED BY <1>2, <1>5, <1>6, <1>7 DEF y, n

\* An empty key is the first of all, and what is before it in its block nothing.
LEMMA EmptyIsFirst ==
    ASSUME Laid, NEW n \in 1 .. Len(added), added[n].key = <<>>
    PROVE  n = 1 /\ BehindEmpty(n)
<1>1. Len(added) \in Nat /\ Ascending(added)
  BY DEF Laid
<1>2. 1 \in 1 .. Len(added)
  BY <1>1
<1>3. added[1].key \in ByteString
  BY <1>2, EntryIn
<1>4. n = 1
  <2>1. ~(1 < n)
    BY <1>1, <1>2, <1>3, NothingBelowEmpty DEF Ascending
  <2> QED BY <2>1
<1> DEFINE b == BlockOf(n)
<1>5. /\ n - EntriesBefore(b) \in 1 .. Len(Content(b)) /\ EntriesBefore(b) \in Nat
      /\ added[n] = Content(b)[n - EntriesBefore(b)]
  BY EntryIn
<1>6. n - EntriesBefore(b) = 1
  <2> HIDE DEF b
  <2> QED BY <1>4, <1>5
<1>7. Content(b)[1].key = <<>>
  BY <1>5, <1>6
<1> QED BY <1>4, <1>7, RestartIntervalAssumption DEF BehindEmpty

\* What seek() in a block finds.
LEMMA BlockFinds ==
    ASSUME Laid, NEW b \in 1 .. Len(Index), NEW to \in ByteString, NEW x
    PROVE  LET s == Content(b)
               z == ItSeek(s, x, to)
               n == FirstFrom(to)
           IN  /\ StopsAtEmpty(s, to) =>
                     /\ z = [cur |-> 0, on |-> TRUE] /\ s[1].key = <<>>
                     /\ n # 0 /\ BlockOf(n) = b => BehindEmpty(n)
               /\ ~StopsAtEmpty(s, to) /\ n # 0 /\ BlockOf(n) = b =>
                     /\ z.on /\ z.cur \in Nat /\ z.cur + 1 \in 1 .. Len(s)
                     /\ EntriesBefore(b) + z.cur + 1 = n
               /\ ~StopsAtEmpty(s, to) /\ (\A m \in 1 .. Len(s) : Less(s[m].key, to)) => ~z.on
<1> DEFINE s == Content(b)
           z == ItSeek(s, x, to)
           n == FirstFrom(to)
           e == EntriesBefore(b)
<1>1. /\ e \in Nat /\ Len(s) \in Nat /\ Len(s) > 0 /\ IsSeq(s)
  BY LaidBlock DEF IsSeq
<1>2. \A m \in 1 .. Len(s) : e + m \in 1 .. Len(added) /\ added[e + m] = s[m]
  BY EntryAt
<1>3. /\ n = 0 \/ n \in 1 .. Len(added)
      /\ n # 0 => ~Less(added[n].key, to) /\ \A i \in 1 .. n - 1 : Less(added[i].key, to)
  BY FirstFromIs
<1>4. ASSUME n # 0, BlockOf(n) = b
      PROVE  n - e \in 1 .. Len(s) /\ added[n] = s[n - e] /\ n \in 1 .. Len(added)
  BY <1>3, <1>4, EntryIn
<1>5. ASSUME StopsAtEmpty(s, to)
      PROVE  /\ z = [cur |-> 0, on |-> TRUE] /\ s[1].key = <<>>
             /\ n # 0 /\ BlockOf(n) = b => BehindEmpty(n)
  <2>1. s[1].key = <<>>
    BY <1>5 DEF StopsAtEmpty
  <2>2. z = [cur |-> 0, on |-> TRUE]
    BY <1>5 DEF ItSeek
  <2>3. e = 0
    <3>1. 1 \in 1 .. Len(s)
      BY <1>1
    <3>2. e + 1 \in 1 .. Len(added) /\ added[e + 1].key = <<>>
      BY <1>2, <2>1, <3>1
    <3>3. e + 1 = 1
      BY <3>2, EmptyIsFirst
    <3> HIDE DEF e
    <3> QED BY <1>1, <3>3
  <2>4. ASSUME n # 0, BlockOf(n) = b PROVE BehindEmpty(n)
    <3>1. n - e \in 1 .. Len(s) /\ n \in 1 .. Len(added)
      BY <1>4, <2>4
    <3> HIDE DEF n, s, e
    <3>2. n \in 1 .. Len(s) /\ n \in Nat
      BY <2>3, <3>1
    <3> DEFINE r == BlockRestartInterval
    <3>3. CASE Len(s) <= r
      <4>1. n <= r + 1
        BY <1>1, <3>2, <3>3, RestartIntervalAssumption
      <4> QED BY <2>1, <2>4, <4>1 DEF BehindEmpty, s
    <3>4. CASE ~(Len(s) <= r) /\ ~Less(s[r + 1].key, to)
      <4>1. r + 1 \in 1 .. Len(s) /\ r \in Nat
        BY <1>1, <3>4, RestartIntervalAssumption
      <4>2. added[e + (r + 1)] = s[r + 1] /\ e + (r + 1) = r + 1
        BY <1>2, <2>3, <4>1
      <4>3. r + 1 \notin 1 .. n - 1
        BY <1>3, <2>4, <3>4, <4>2
      <4>4. n <= r + 1
        BY <3>2, <4>1, <4>3
      <4> QED BY <2>1, <2>4, <4>4 DEF BehindEmpty, s
    <3> QED BY <1>5, <3>3, <3>4 DEF StopsAtEmpty
  <2> QED BY <2>1, <2>2, <2>4
<1>6. ASSUME ~StopsAtEmpty(s, to)
      PROVE  /\ z.on => /\ z.cur \in Nat /\ z.cur + 1 \in 1 .. Len(s)
                        /\ ~Less(s[z.cur + 1].key, to)
                        /\ \A i \in 1 .. z.cur : Less(s[i].key, to)
             /\ ~z.on => \A i \in 1 .. Len(s) : Less(s[i].key, to)
  BY <1>1, <1>6, SeekIs
<1>7. ASSUME ~StopsAtEmpty(s, to), n # 0, BlockOf(n) = b
      PROVE  /\ z.on /\ z.cur \in Nat /\ z.cur + 1 \in 1 .. Len(s)
             /\ EntriesBefore(b) + z.cur + 1 = n
  <2> DEFINE m == n - e
  <2>1. m \in 1 .. Len(s) /\ added[n] = s[m] /\ n \in 1 .. Len(added) /\ ~Less(s[m].key, to)
    BY <1>3, <1>4, <1>7
  <2>2. z.on
    BY <1>6, <1>7, <2>1
  <2> HIDE DEF z, n, s, e
  <2>3. z.cur \in Nat /\ z.cur + 1 \in 1 .. Len(s) /\ ~Less(s[z.cur + 1].key, to) /\ m \notin 1 .. z.cur
    BY <1>6, <1>7, <2>1, <2>2
  <2>4. e + (z.cur + 1) \notin 1 .. n - 1
    BY <1>2, <1>3, <1>7, <2>3
  <2>5. e + z.cur + 1 = n
    <3> DEFINE c == z.cur
    <3>1. c \in Nat /\ n \in Nat /\ e \in Nat /\ m \in Nat /\ m >= 1 /\ c + 1 >= 1
      BY <1>1, <2>1, <2>3
    <3>2. ~(m <= c) /\ ~(e + (c + 1) <= n - 1)
      <4> HIDE DEF c
      <4> QED BY <2>3, <2>4, <3>1 DEF c
    <3> HIDE DEF c
    <3>3. e + c + 1 = n
      BY <3>1, <3>2
    <3> QED BY <3>3 DEF c
  <2> QED BY <2>2, <2>3, <2>5 DEF e
<1>8. ASSUME ~StopsAtEmpty(s, to), \A m \in 1 .. Len(s) : Less(s[m].key, to) PROVE ~z.on
  BY <1>6, <1>8
<1> QED BY <1>5, <1>7, <1>8

\* seek() finds the entry, or is invalid for one of the reasons.
LEMMA SeekStep ==
    ASSUME Laid, IsIterator(ti), NEW to \in ByteString, seek(to)
    PROVE  LET n == FirstFrom(to)
           IN  \/ Pos(ti') = n /\ InStep(ti') /\ (n # 0 => Readable(BlockOf(n)))
               \/ /\ ~Valid(ti')
                  /\ n # 0 =>
                        \/ ~Readable(BlockOf(n)) \/ BehindEmpty(n)
                        \/ n > 1 /\ BlockOf(n - 1) # BlockOf(n)
                               /\ (added[n].key = to => IsSeparator(n))
<1> DEFINE n == FirstFrom(to)
           y == ItSeek(Index, ti.index, to)
           b == y.cur + 1
           x == [ti EXCEPT !.index = y]
           z == ItSeek(Content(b), ItNew, to)
<1>1. IsPosition(y)
  BY PositionsStay DEF IsIterator, Laid
<1>2. /\ ~y.on => n = 0
      /\ y.on => /\ b \in 1 .. Len(Index) /\ y = [cur |-> b - 1, on |-> TRUE]
                 /\ ~Less(Index[b].key, to)
                 /\ \/ n # 0 /\ BlockOf(n) = b
                    \/ /\ \A m \in 1 .. Len(Content(b)) : Less(Content(b)[m].key, to)
                       /\ n # 0 => /\ n > 1 /\ BlockOf(n - 1) = b /\ BlockOf(n) # b
                                   /\ added[n].key = to => IsSeparator(n)
  BY SeekFinds
<1>3. ti' = SeekIn(x, to)
  BY DEF seek, Does
<1> HIDE DEF y, n
<1>4. IsIterator(x) /\ x.index = y
  BY <1>1, IndexMoves
<1> HIDE DEF x
<1>5. CASE ~(y.on /\ Readable(b))
  <2>1. ti' = ResetTo(x)
    BY <1>3, <1>4, <1>5 DEF SeekIn
  <2>2. ti'.block = 0
    BY <1>4, <2>1 DEF ResetTo, IsIterator, IterFields
  <2>3. ~Valid(ti')
    BY <2>2 DEF Valid
  <2> QED BY <1>2, <1>5, <2>3 DEF n
<1>6. CASE y.on /\ Readable(b)
  <2>1. ti' = Loaded(x, z)
    BY <1>3, <1>4, <1>6 DEF SeekIn
  <2>2. ti'.iter = z /\ ti'.index = y /\ ti'.block = b
    <3> HIDE DEF z
    <3> QED BY <1>4, <1>6, <2>1, LoadedIs
  <2>3. /\ b \in 1 .. Len(Index) /\ b # 0 /\ y = [cur |-> b - 1, on |-> TRUE]
    BY <1>2, <1>6
  <2>4. /\ StopsAtEmpty(Content(b), to) =>
              /\ z = [cur |-> 0, on |-> TRUE] /\ Content(b)[1].key = <<>>
              /\ n # 0 /\ BlockOf(n) = b => BehindEmpty(n)
        /\ ~StopsAtEmpty(Content(b), to) /\ n # 0 /\ BlockOf(n) = b =>
              /\ z.on /\ z.cur \in Nat /\ z.cur + 1 \in 1 .. Len(Content(b))
              /\ EntriesBefore(b) + z.cur + 1 = n
        /\ ~StopsAtEmpty(Content(b), to) /\ (\A m \in 1 .. Len(Content(b)) : Less(Content(b)[m].key, to))
              => ~z.on
    BY <2>3, BlockFinds DEF n
  <2> HIDE DEF z, b
  <2>5. CASE StopsAtEmpty(Content(b), to)
    <3>1. z.cur + 1 = 1
      BY <2>4, <2>5
    <3>2. ~Valid(ti')
      BY <2>2, <2>4, <2>5, <3>1 DEF Valid, ItValid
    <3> QED BY <1>2, <1>6, <2>4, <2>5, <3>2 DEF n, b
  <2>6. CASE ~StopsAtEmpty(Content(b), to) /\ n # 0 /\ BlockOf(n) = b
    <3>1. Pos(ti') = n
      BY <2>2, <2>3, <2>4, <2>6 DEF Pos
    <3>2. InStep(ti')
      BY <2>2, <2>3, <2>4, <2>6 DEF InStep
    <3> QED BY <1>6, <2>6, <3>1, <3>2 DEF n
  <2>7. CASE ~StopsAtEmpty(Content(b), to) /\ ~(n # 0 /\ BlockOf(n) = b)
    <3>1. ~z.on
      BY <1>2, <1>6, <2>4, <2>7 DEF b
    <3>2. ~Valid(ti')
      BY <2>2, <3>1 DEF Valid, ItValid
    <3> QED BY <1>2, <1>6, <2>7, <3>2 DEF n, b
  <2> QED BY <2>5, <2>6, <2>7
<1> QED BY <1>5, <1>6

\* An iterator's types, and the invariants of the file and the table.
LEMMA TableInvs ==
    ASSUME BlockRestartInterval > 0, ~ShortWrites, BlockSize >= 8
    PROVE  TableSpec => []Inv /\ []FileInv /\ []OrderInv /\ []OpenInv
<1>1. TableSpec => []Inv /\ []FileInv
  BY TableWrites, InvHolds, FileInvHolds, PTL
<1>2. TableInit => OrderInv /\ OpenInv
  BY OrderInit DEF TableInit, OpenInv
<1>3. Inv /\ FileInv /\ OrderInv /\ OpenInv /\ [TableNext]_tableVars => OrderInv' /\ OpenInv'
  BY NextOrder, NextOpen
<1> QED BY <1>1, <1>2, <1>3, PTL DEF TableSpec

\* The same for ReaderInv.
LEMMA TableReads ==
    ASSUME BlockRestartInterval > 0, ~ShortWrites
    PROVE  TableSpec /\ [](tb.written <= MaxOffset) => [](ReaderInv /\ CallsOpen)
<1>1. TableInit => ReaderInv /\ CallsOpen
  <2>1. IsPosition(ItNew)
    BY DEF IsPosition, ItNew
  <2>2. IsIterator(NewTableIter)
    <3> HIDE DEF ItNew
    <3> QED BY <2>1 DEF IsIterator, IterFields, NewTableIter
  <2> QED BY <2>2 DEF TableInit, ReaderInv, CallsOpen
<1>2. /\ Inv /\ FileInv /\ tb.written <= MaxOffset /\ ReaderInv /\ CallsOpen
      /\ [TableNext]_tableVars
      => ReaderInv' /\ CallsOpen'
  BY NextReads
<1>3. TableSpec => []Inv /\ []FileInv
  BY TableWrites, InvHolds, FileInvHolds, PTL
<1> QED BY <1>1, <1>2, <1>3, PTL DEF TableSpec

\* table_reader.rs, TableIterator::seek: over any table of sorted keys, whichever
\* of its blocks are damaged, it finds the first entry at or above the key or is
\* invalid, and that only when there is none, its block is damaged, the key lies
\* in the gap before the block's first entry or is its separator, or an empty key
\* stops the scan.
THEOREM SeekAlwaysSound ==
    ASSUME BlockRestartInterval > 0, ~ShortWrites, BlockSize >= 8
    PROVE  TableSpec /\ [](tb.written <= MaxOffset) => SeekSound
<1> DEFINE A == \A to \in Keys : seek(to) =>
               LET n == FirstFrom(to)
               IN  \/ Pos(ti') = n /\ InStep(ti') /\ (n # 0 => Readable(BlockOf(n)))
                   \/ /\ ~Valid(ti')
                      /\ n # 0 =>
                            \/ ~Readable(BlockOf(n)) \/ BehindEmpty(n)
                            \/ n > 1 /\ BlockOf(n - 1) # BlockOf(n)
                                   /\ (added[n].key = to => IsSeparator(n))
<1>1. ASSUME Inv, FileInv, OrderInv, OpenInv, tb.written <= MaxOffset, ReaderInv PROVE A
  <2> SUFFICES ASSUME NEW to \in Keys, seek(to)
               PROVE  LET n == FirstFrom(to)
                      IN  \/ Pos(ti') = n /\ InStep(ti') /\ (n # 0 => Readable(BlockOf(n)))
                          \/ /\ ~Valid(ti')
                             /\ n # 0 =>
                                   \/ ~Readable(BlockOf(n)) \/ BehindEmpty(n)
                                   \/ n > 1 /\ BlockOf(n - 1) # BlockOf(n)
                                          /\ (added[n].key = to => IsSeparator(n))
    OBVIOUS
  <2>1. opened = "yes" /\ IsIterator(ti) /\ to \in ByteString
    BY <1>1, TableAssumption DEF seek, Does, ReaderInv
  <2>2. Laid
    BY <1>1, <2>1, TableIsLaid
  <2> QED BY <2>1, <2>2, SeekStep
<1>2. SeekSound <=> [][A]_tableVars
  BY DEF SeekSound
<1> HIDE DEF A
<1>3. Inv /\ FileInv /\ OrderInv /\ OpenInv /\ tb.written <= MaxOffset /\ ReaderInv => [A]_tableVars
  BY <1>1
<1> QED BY <1>2, <1>3, TableInvs, TableReads, PTL DEF TableSpec

-----------------------------------------------------------------------------

\* The offsets of the blocks ascend up to that of the metaindex.
Ascend ==
    /\ table.meta_index.offset \in Nat
    /\ \A b \in 1 .. Len(Index) :
          /\ table.blocks[b].offset \in Nat /\ table.blocks[b].offset <= table.meta_index.offset
          /\ \A c \in 1 .. Len(Index) : b <= c => table.blocks[b].offset <= table.blocks[c].offset

\* The blocks of the table are the first segments of its file.
LEMMA FirstSegments ==
    ASSUME Inv, FileInv, OpenInv, tb.written <= MaxOffset, opened = "yes"
    PROVE  /\ Len(Index) \in Nat /\ Len(tb.dst) \in Nat
           /\ \A b \in 1 .. Len(Index) :
                 /\ b \in 1 .. Len(tb.dst) /\ tb.dst[b].kind = "data" /\ Content(b) = tb.dst[b].body
                 /\ table.blocks[b].offset = tb.dst[b].at
           /\ \A j \in 1 .. Len(tb.dst) : tb.dst[j].kind # "data" => j > Len(Index)
<1>1. /\ Faithful(tb, table) /\ Entered(tb.dst, tb.index_block.kvs) /\ IsSeq(tb.dst)
  BY DEF OpenInv, FileInv, Sound, Inv
<1>2. Index = tb.index_block.kvs /\ IsSeq(Index)
  BY <1>1 DEF Faithful, Index, Entered
<1>3. Len(Index) \in Nat /\ Len(tb.dst) \in Nat
  BY <1>1, <1>2 DEF IsSeq
<1>4. \A b \in 1 .. Len(Index) :
         /\ b \in 1 .. Len(tb.dst) /\ tb.dst[b].kind = "data" /\ Content(b) = tb.dst[b].body
         /\ table.blocks[b].offset = tb.dst[b].at
  BY <1>1, <1>2 DEF Faithful, Content, Entered
<1>5. ASSUME NEW j \in 1 .. Len(tb.dst), tb.dst[j].kind # "data" PROVE j > Len(Index)
  <2>1. j \notin 1 .. Len(Index)
    BY <1>4, <1>5
  <2> QED BY <1>3, <2>1
<1> QED BY <1>3, <1>4, <1>5

\* Segments lie one after the other.
LEMMA OffsetsAscend ==
    ASSUME Inv, FileInv, OpenInv, tb.written <= MaxOffset, opened = "yes"
    PROVE  Ascend
<1>1. Placed(tb.dst, tb.written) /\ Faithful(tb, table)
  BY DEF FileInv, Sound, OpenInv
<1>2. PICK j \in 1 .. Len(tb.dst) : tb.dst[j].kind = "metaindex" /\ table.meta_index.offset = tb.dst[j].at
  BY <1>1 DEF Faithful
<1>3. /\ Len(Index) \in Nat /\ j > Len(Index)
      /\ \A b \in 1 .. Len(Index) :
            b \in 1 .. Len(tb.dst) /\ table.blocks[b].offset = tb.dst[b].at
  BY <1>2, FirstSegments
<1>4. /\ \A i \in 1 .. Len(tb.dst) : tb.dst[i].at \in Nat
      /\ \A i, l \in 1 .. Len(tb.dst) : i < l => tb.dst[i].at < tb.dst[l].at
  BY <1>1 DEF Placed
<1>5. ASSUME NEW b \in 1 .. Len(Index)
      PROVE  /\ table.blocks[b].offset \in Nat /\ table.blocks[b].offset <= table.meta_index.offset
             /\ \A c \in 1 .. Len(Index) : b <= c => table.blocks[b].offset <= table.blocks[c].offset
  <2>1. b < j /\ b \in 1 .. Len(tb.dst) /\ table.blocks[b].offset = tb.dst[b].at
    BY <1>3
  <2>2. tb.dst[b].at \in Nat /\ tb.dst[j].at \in Nat /\ tb.dst[b].at < tb.dst[j].at
    BY <1>4, <2>1
  <2>3. ASSUME NEW c \in 1 .. Len(Index), b <= c
        PROVE  table.blocks[b].offset <= table.blocks[c].offset
    <3>1. c \in 1 .. Len(tb.dst) /\ table.blocks[c].offset = tb.dst[c].at /\ tb.dst[c].at \in Nat
      BY <1>3, <1>4
    <3>2. CASE b = c
      BY <2>1, <2>2, <3>2
    <3>3. CASE b < c
      <4>1. tb.dst[b].at < tb.dst[c].at
        BY <1>4, <2>1, <3>1, <3>3
      <4> QED BY <2>1, <2>2, <3>1, <4>1
    <3> QED BY <2>3, <3>2, <3>3
  <2> QED BY <1>2, <2>1, <2>2, <2>3
<1> QED BY <1>2, <1>4, <1>5 DEF Ascend

\* approx_offset_of() of a key that was added, and of keys in order.
LEMMA OffsetsStep ==
    ASSUME Laid, Ascend
    PROVE  /\ \A n \in 1 .. Len(added) : ~IsSeparator(n) =>
                 approx_offset_of(added[n].key) = table.blocks[BlockOf(n)].offset
           /\ \A k, l \in Keys : Less(k, l) => approx_offset_of(k) <= approx_offset_of(l)
<1> DEFINE y(k) == ItSeek(Index, ItNew, k)
<1>1. \A k : approx_offset_of(k) =
         IF y(k).on THEN table.blocks[y(k).cur + 1].offset ELSE table.meta_index.offset
  BY DEF approx_offset_of
<1>2. ASSUME NEW n \in 1 .. Len(added), ~IsSeparator(n)
      PROVE  approx_offset_of(added[n].key) = table.blocks[BlockOf(n)].offset
  <2> DEFINE k == added[n].key
  <2>1. k \in ByteString /\ FirstFrom(k) = n /\ n # 0
    BY EntryIn, KeyIsFirst
  <2> HIDE DEF k
  <2>2. y(k).on /\ (BlockOf(n) = y(k).cur + 1 \/ (added[n].key = k => IsSeparator(n)))
    BY <2>1, SeekFinds
  <2> QED BY <1>1, <1>2, <2>2 DEF k
<1>3. ASSUME NEW k \in Keys, NEW l \in Keys, Less(k, l)
      PROVE  approx_offset_of(k) <= approx_offset_of(l)
  <2>1. k \in ByteString /\ l \in ByteString /\ IsSeq(Index)
    BY TableAssumption DEF Laid
  <2> DEFINE p == y(k)
             q == y(l)
  <2>2. /\ ~StopsAtEmpty(Index, k) /\ ~StopsAtEmpty(Index, l)
    BY IndexNotEmpty
  <2>3. /\ p.on => /\ p.cur \in Nat /\ p.cur + 1 \in 1 .. Len(Index)
                   /\ \A i \in 1 .. p.cur : Less(Index[i].key, k)
        /\ ~p.on => \A i \in 1 .. Len(Index) : Less(Index[i].key, k)
    BY <2>1, <2>2, SeekIs
  <2>4. q.on => q.cur \in Nat /\ q.cur + 1 \in 1 .. Len(Index) /\ ~Less(Index[q.cur + 1].key, l)
    BY <2>1, <2>2, SeekIs
  <2>5. /\ approx_offset_of(k) = IF p.on THEN table.blocks[p.cur + 1].offset ELSE table.meta_index.offset
        /\ approx_offset_of(l) = IF q.on THEN table.blocks[q.cur + 1].offset ELSE table.meta_index.offset
    BY <1>1
  <2> HIDE DEF p, q
  <2>6. CASE ~q.on
    BY <2>3, <2>5, <2>6 DEF Ascend
  <2>7. CASE q.on
    <3> DEFINE c == q.cur + 1
    <3>1. c \in 1 .. Len(Index) /\ ~Less(Index[c].key, l) /\ Index[c].key \in ByteString
      BY <2>4, <2>7, LaidBlock
    <3>2. ~Less(Index[c].key, k)
      BY <1>3, <2>1, <3>1, LessTransitive
    <3>3. p.on /\ c \notin 1 .. p.cur
      BY <2>3, <3>1, <3>2
    <3>4. p.cur \in Nat /\ p.cur + 1 \in 1 .. Len(Index)
      BY <2>3, <3>3
    <3> HIDE DEF c
    <3>5. p.cur + 1 <= c
      BY <3>1, <3>3, <3>4
    <3>6. table.blocks[p.cur + 1].offset <= table.blocks[c].offset
      BY <3>1, <3>4, <3>5 DEF Ascend
    <3> QED BY <2>5, <2>7, <3>3, <3>6 DEF c
  <2> QED BY <2>6, <2>7
<1> QED BY <1>2, <1>3

\* table_reader.rs, Table::approx_offset_of: in a table of sorted keys it is where
\* the block of a key that was added begins, unless the key is a separator, and it
\* never decreases from a key to a greater one.
THEOREM OffsetsAlwaysExact ==
    ASSUME BlockRestartInterval > 0, ~ShortWrites, BlockSize >= 8
    PROVE  TableSpec => [](tb.written <= MaxOffset => OffsetsExact)
<1>1. Inv /\ FileInv /\ OrderInv /\ OpenInv => (tb.written <= MaxOffset => OffsetsExact)
  <2> SUFFICES ASSUME Inv, FileInv, OrderInv, OpenInv, tb.written <= MaxOffset, opened = "yes"
               PROVE  OffsetsExact
    BY DEF OffsetsExact
  <2>1. Laid /\ Ascend
    BY TableIsLaid, OffsetsAscend
  <2> QED BY <2>1, OffsetsStep DEF OffsetsExact
<1> QED BY <1>1, TableInvs, PTL

-----------------------------------------------------------------------------

\* The key was added.
Present(k) == FirstFrom(k) # 0 /\ added[FirstFrom(k)].key = k

\* The filter may mislead a reader with this policy.
Misled(p) == table.filters[p] \in damaged \/ Foreign(p)

\* What get() may return, for a reader with policy p.
MayReturn(p, k, r) ==
    LET n == FirstFrom(k)
    IN  CASE r[1] = "some"  -> Present(k) /\ added[n].val = r[2]
          [] r[1] = "none"  -> Present(k) => IsSeparator(n) \/ BehindEmpty(n) \/ Misled(p)
          [] r[1] = "error" -> \E b \in 1 .. Len(Index) : ~Readable(b) /\ WouldBeIn(k, b)
          [] r[1] = "panic" -> Misled(p) \/ NoFilterMade(RoutedTo(k))

\* get() returns none without looking for separators only, and otherwise looks in
\* the block of the key.
LEMMA RoutedIs ==
    ASSUME Laid, NEW k \in ByteString
    PROVE  LET n == FirstFrom(k)
               b == RoutedTo(k)
           IN  /\ b = 0 /\ Present(k) => IsSeparator(n)
               /\ b # 0 => b \in 1 .. Len(Index) /\ (Present(k) => BlockOf(n) = b)
<1> DEFINE n == FirstFrom(k)
           x == ItSeek(Index, ItNew, k)
           c == x.cur + 1
<1>1. /\ ~x.on => n = 0
      /\ x.on => /\ c \in 1 .. Len(Index) /\ ~Less(Index[c].key, k)
                 /\ \/ n # 0 /\ BlockOf(n) = c
                    \/ n # 0 => /\ ~Less(added[n].key, Index[c].key)
                                /\ added[n].key = k => IsSeparator(n)
  BY SeekFinds
<1>2. RoutedTo(k) = IF x.on /\ Less(k, Index[c].key) THEN c ELSE 0
  BY DEF RoutedTo
<1>3. n = 0 \/ n \in 1 .. Len(added)
  BY FirstFromIs
<1> HIDE DEF n, x
<1>4. CASE ~x.on
  BY <1>1, <1>2, <1>4 DEF Present, n
<1>5. CASE x.on /\ Less(k, Index[c].key)
  <2>1. c \in 1 .. Len(Index) /\ RoutedTo(k) = c /\ c # 0
    BY <1>1, <1>2, <1>5
  <2>2. Present(k) => BlockOf(n) = c
    BY <1>1, <1>5 DEF Present, n
  <2> QED BY <2>1, <2>2 DEF n
<1>6. CASE x.on /\ ~Less(k, Index[c].key)
  <2>1. RoutedTo(k) = 0
    BY <1>2, <1>6
  <2>2. Index[c].key = k
    BY <1>1, <1>6, LaidBlock, LessIsTotal
  <2>3. ASSUME Present(k), BlockOf(n) = c PROVE FALSE
    <3> DEFINE m == n - EntriesBefore(c)
    <3>1. n \in 1 .. Len(added) /\ added[n].key = k
      BY <1>3, <2>3 DEF Present, n
    <3>2. m \in 1 .. Len(Content(c)) /\ added[n] = Content(c)[m] /\ c \in 1 .. Len(Index)
      BY <2>3, <3>1, EntryIn
    <3> HIDE DEF m
    <3>3. Less(Content(c)[m].key, Index[c].key)
      BY <3>2 DEF Laid
    <3>4. Less(k, k)
      BY <2>2, <3>1, <3>2, <3>3
    <3> QED BY <3>4, LessIsTotal
  <2> QED BY <1>1, <1>6, <2>1, <2>3 DEF Present, n
<1> QED BY <1>4, <1>5, <1>6

\* The block that get() looks in is the only one that the key could be in.
LEMMA RoutedBlock ==
    ASSUME Laid, NEW k \in ByteString, RoutedTo(k) # 0
    PROVE  RoutedTo(k) \in 1 .. Len(Index) /\ WouldBeIn(k, RoutedTo(k))
<1> DEFINE x == ItSeek(Index, ItNew, k)
           b == x.cur + 1
<1>1. RoutedTo(k) = b /\ x.on /\ Less(k, Index[b].key)
  BY DEF RoutedTo
<1>2. IsSeq(Index) /\ ~StopsAtEmpty(Index, k)
  BY IndexNotEmpty DEF Laid
<1>3. x.cur \in Nat /\ b \in 1 .. Len(Index) /\ \A i \in 1 .. x.cur : Less(Index[i].key, k)
  BY <1>1, <1>2, SeekIs
<1> HIDE DEF x
<1>4. ASSUME NEW c \in 1 .. Len(Index), NEW e \in ToSet(Content(c))
      PROVE  (c < b => Less(e.key, k)) /\ (c > b => Less(k, e.key))
  <2>1. Content(c) \in Seq(KeyValue)
    BY LaidBlock
  <2>2. PICK m \in 1 .. Len(Content(c)) : e = Content(c)[m]
    BY <2>1 DEF ToSet
  <2>3. e.key \in ByteString /\ Index[c].key \in ByteString /\ Index[b].key \in ByteString
    BY <1>3, <2>2, LaidBlock
  <2>4. ASSUME c < b PROVE Less(e.key, k)
    <3>1. c \in 1 .. x.cur
      BY <1>3, <2>4
    <3>2. Less(e.key, Index[c].key)
      BY <2>2 DEF Laid
    <3> QED BY <1>3, <2>3, <3>1, <3>2, LessTransitive
  <2>5. ASSUME c > b PROVE Less(k, e.key)
    <3>1. c \in b + 1 .. Len(Index)
      BY <1>3, <2>5
    <3> HIDE DEF b
    <3>2. NotBelow(Content(b), Index[b].key, e.key)
      BY <1>3, <2>2, <3>1 DEF Laid
    <3> QED BY <1>1, <2>3, <3>2, LessTransitive DEF NotBelow
  <2> QED BY <2>4, <2>5
<1> QED BY <1>1, <1>3, <1>4 DEF WouldBeIn

\* Looking a key up in its block.
LEMMA LookupIs ==
    ASSUME Laid, NEW k \in ByteString, NEW b \in 1 .. Len(Index), Readable(b),
           Present(k) => BlockOf(FirstFrom(k)) = b
    PROVE  \/ \E v : Lookup(b, k) = <<"some", v>> /\ Present(k) /\ added[FirstFrom(k)].val = v
           \/ Lookup(b, k) = <<"none">> /\ (Present(k) => BehindEmpty(FirstFrom(k)))
<1> DEFINE s == Content(b)
           n == FirstFrom(k)
           z == ItSeek(s, ItNew, k)
           e == EntriesBefore(b)
           hit == ItValid(s, z) /\ s[z.cur + 1].key = k
<1>1. Lookup(b, k) = IF hit THEN <<"some", s[z.cur + 1].val>> ELSE <<"none">>
  BY DEF Lookup
<1>2. /\ StopsAtEmpty(s, k) => /\ z = [cur |-> 0, on |-> TRUE] /\ s[1].key = <<>>
                               /\ n # 0 /\ BlockOf(n) = b => BehindEmpty(n)
      /\ ~StopsAtEmpty(s, k) /\ n # 0 /\ BlockOf(n) = b =>
            /\ z.on /\ z.cur \in Nat /\ z.cur + 1 \in 1 .. Len(s)
            /\ e + z.cur + 1 = n
  BY BlockFinds
<1>3. IsSeq(s) /\ e \in Nat
  BY LaidBlock DEF IsSeq
<1>4. ~StopsAtEmpty(s, k) /\ z.on => z.cur \in Nat /\ z.cur + 1 \in 1 .. Len(s)
  BY <1>3, SeekIs
<1> HIDE DEF z, n
<1>5. StopsAtEmpty(s, k) => ~hit
  <2> SUFFICES ASSUME StopsAtEmpty(s, k) PROVE ~hit
    OBVIOUS
  <2>1. z.cur + 1 = 1 /\ s[1].key = <<>>
    BY <1>2
  <2> QED BY <2>1 DEF ItValid
<1>6. CASE hit
  <2> DEFINE m == z.cur + 1
  <2>1. m \in 1 .. Len(s) /\ s[m].key = k
    BY <1>4, <1>5, <1>6 DEF ItValid
  <2>2. e + m \in 1 .. Len(added) /\ added[e + m] = s[m]
    BY <2>1, EntryAt
  <2>3. FirstFrom(added[e + m].key) = e + m
    BY <2>2, KeyIsFirst
  <2>4. n = e + m /\ added[n].key = k /\ n # 0 /\ added[n].val = s[m].val
    BY <2>1, <2>2, <2>3 DEF n
  <2> QED BY <1>1, <1>6, <2>4 DEF Present, n
<1>7. CASE ~hit
  <2>1. ASSUME Present(k) PROVE BehindEmpty(n)
    <3>1. n # 0 /\ BlockOf(n) = b /\ added[n].key = k /\ n \in 1 .. Len(added)
      BY <2>1, FirstFromIs DEF Present, n
    <3>2. CASE StopsAtEmpty(s, k)
      BY <1>2, <3>1, <3>2
    <3>3. CASE ~StopsAtEmpty(s, k)
      <4> DEFINE m == z.cur + 1
      <4>1. z.on /\ z.cur \in Nat /\ m \in 1 .. Len(s) /\ e + z.cur + 1 = n
        BY <1>2, <3>1, <3>3
      <4>2. e + m = n
        BY <1>3, <4>1
      <4>3. added[e + m] = s[m]
        BY <4>1, EntryAt
      <4>4. s[m].key = k
        BY <3>1, <4>2, <4>3
      <4>5. k = <<>>
        BY <1>7, <4>1, <4>4 DEF ItValid
      <4> QED BY <3>1, <4>5, EmptyIsFirst
    <3> QED BY <3>2, <3>3
  <2> QED BY <1>1, <1>7, <2>1 DEF n
<1> QED BY <1>6, <1>7

\* The filter block that a reader finds: it is not compressed, it denies no key of
\* a block, and can be asked unless the filter was not made.
LEMMA FilterOf ==
    ASSUME Inv, FileInv, OrderInv, OpenInv, FilterInv, tb.written <= MaxOffset, opened = "yes",
           SmallFilters, NEW b \in 1 .. Len(Index), NEW p \in PolicyNames, table.filters[p] # 0
    PROVE  LET f  == table.filters[p]
               at == table.blocks[b].offset
           IN  /\ tb.dst[f].ctype = 0 /\ ~Garbled(tb.dst[f].body)
               /\ MatchPanics(tb.dst[f].body, at) => NoFilterMade(b)
               /\ \A m \in 1 .. Len(Content(b)) :
                     Content(b)[m].key # <<>> => MustMatch(tb.dst[f].body, at, Content(b)[m].key)
<1> DEFINE f  == table.filters[p]
           at == table.blocks[b].offset
           r  == tb.dst[f].body
           x  == get_filter_index(at)
<1>1. /\ f \in 1 .. Len(tb.dst) /\ tb.dst[f].kind = "filter" /\ AnswersIn(tb.dst)
      /\ Plain(tb.dst)
  BY DEF OpenInv, Faithful, FilterInv, OrderInv
<1>2. /\ Len(Index) \in Nat /\ f > Len(Index)
      /\ \A c \in 1 .. Len(Index) :
            /\ c \in 1 .. Len(tb.dst) /\ tb.dst[c].kind = "data" /\ Content(c) = tb.dst[c].body
            /\ table.blocks[c].offset = tb.dst[c].at
  BY <1>1, FirstSegments
<1>3. Laid
  BY TableIsLaid
<1>4. tb.dst[f].ctype = 0 /\ Askable(tb.dst[f])
  BY <1>1 DEF Plain, SmallFilters
<1>5. b \in 1 .. f - 1
  <2> HIDE DEF f
  <2> QED BY <1>1, <1>2
<1>6. HasKeys(tb.dst, x) =>
         /\ ~MatchPanics(r, at)
         /\ \A k \in KeysOf(Content(b)) : MustMatch(r, at, k)
  BY <1>1, <1>2, <1>4, <1>5 DEF AnswersIn
<1>7. ASSUME NEW c \in 1 .. Len(Index), NEW m \in 1 .. Len(Content(c)),
             get_filter_index(table.blocks[c].offset) = x, Content(c)[m].key # <<>>
      PROVE  HasKeys(tb.dst, x)
  BY <1>2, <1>7 DEF HasKeys
<1> HIDE DEF x, r, at
<1>8. ASSUME MatchPanics(r, at) PROVE NoFilterMade(b)
  <2>1. ASSUME NEW c \in 1 .. Len(Index), get_filter_index(table.blocks[c].offset) = x,
               NEW e \in ToSet(Content(c))
        PROVE  e.key = <<>>
    <3>1. Content(c) \in Seq(KeyValue)
      BY <1>3, LaidBlock
    <3>2. PICK m \in 1 .. Len(Content(c)) : e = Content(c)[m]
      BY <3>1 DEF ToSet
    <3> QED BY <1>6, <1>7, <1>8, <2>1, <3>2
  <2> QED BY <2>1 DEF NoFilterMade, x, at
<1>9. ASSUME NEW m \in 1 .. Len(Content(b)), Content(b)[m].key # <<>>
      PROVE  MustMatch(r, at, Content(b)[m].key)
  <2>1. HasKeys(tb.dst, x)
    BY <1>7, <1>9 DEF x, at
  <2> QED BY <1>6, <2>1 DEF KeysOf
<1> QED BY <1>4, <1>8, <1>9 DEF r, at, Askable

\* The answers of the filter: where it says no or panics, there is a reason.
LEMMA FilterReasons ==
    ASSUME FilterLen > 0, Inv, FileInv, OrderInv, OpenInv, FilterInv, tb.written <= MaxOffset,
           SmallFilters, opened = "yes", NEW k \in ByteString, NEW p \in PolicyNames,
           NEW b \in 1 .. Len(Index),
           Present(k) => BlockOf(FirstFrom(k)) = b
    PROVE  /\ FilterSays(p, b, k) \subseteq {"yes", "no", "panic"}
           /\ "no" \in FilterSays(p, b, k) /\ Present(k) => BehindEmpty(FirstFrom(k)) \/ Misled(p)
           /\ "panic" \in FilterSays(p, b, k) => Misled(p) \/ NoFilterMade(b)
<1> DEFINE at == table.blocks[b].offset
           f  == table.filters[p]
           r  == tb.dst[f].body
           n  == FirstFrom(k)
<1>1. FilterSays(p, b, k) =
         IF f = 0 THEN {"yes"}
         ELSE IF f \in damaged \/ tb.dst[f].ctype # 0 \/ Garbled(r) THEN {"yes", "no", "panic"}
         ELSE IF MatchPanics(r, at) THEN {"panic"}
         ELSE IF p = NoFilterName THEN {"yes"}
         ELSE IF Foreign(p) THEN {"yes", "no", "panic"}
         ELSE IF MustMatch(r, at, k) THEN {"yes"} ELSE {"yes", "no"}
  BY DEF FilterSays
<1>2. f # 0 => /\ tb.dst[f].ctype = 0 /\ ~Garbled(r)
               /\ MatchPanics(r, at) => NoFilterMade(b)
               /\ \A m \in 1 .. Len(Content(b)) :
                     Content(b)[m].key # <<>> => MustMatch(r, at, Content(b)[m].key)
  BY FilterOf
<1>3. Laid
  BY TableIsLaid
<1> HIDE DEF f, r, at
<1>4. ASSUME f # 0, ~MustMatch(r, at, k), Present(k) PROVE BehindEmpty(n)
  <2> DEFINE m == n - EntriesBefore(b)
  <2>1. n \in 1 .. Len(added) /\ added[n].key = k /\ BlockOf(n) = b
    BY <1>3, <1>4, FirstFromIs DEF Present
  <2>2. m \in 1 .. Len(Content(b)) /\ added[n] = Content(b)[m]
    BY <1>3, <2>1, EntryIn
  <2> HIDE DEF m, n
  <2>3. k = <<>>
    BY <1>2, <1>4, <2>1, <2>2
  <2> QED BY <1>3, <2>1, <2>3, EmptyIsFirst
<1>5. Misled(p) <=> f \in damaged \/ Foreign(p)
  BY DEF Misled, f
<1> HIDE DEF n
<1> QED BY <1>1, <1>2, <1>4, <1>5 DEF n

\* The results of get().
LEMMA GetStep ==
    ASSUME FilterLen > 0, Inv, FileInv, OrderInv, OpenInv, FilterInv, tb.written <= MaxOffset,
           SmallFilters, opened = "yes", NEW k \in ByteString, NEW p \in PolicyNames,
           NEW r \in get(p, k)
    PROVE  MayReturn(p, k, r)
<1> DEFINE n == FirstFrom(k)
           b == RoutedTo(k)
<1>1. Laid
  BY TableIsLaid
<1>2. /\ b = 0 /\ Present(k) => IsSeparator(n)
      /\ b # 0 => b \in 1 .. Len(Index) /\ (Present(k) => BlockOf(n) = b)
  BY <1>1, RoutedIs
<1>3. get(p, k) = IF b = 0 THEN {<<"none">>}
                  ELSE {CASE f = "yes"   -> Lookup(b, k)
                          [] f = "no"    -> <<"none">>
                          [] f = "panic" -> <<"panic">> : f \in FilterSays(p, b, k)}
  BY DEF get
<1> HIDE DEF b, n
<1>4. ASSUME r = <<"none">>, Present(k) => IsSeparator(n) \/ BehindEmpty(n) \/ Misled(p)
      PROVE  MayReturn(p, k, r)
  BY <1>4 DEF MayReturn, n
<1>5. CASE b = 0
  <2>1. r = <<"none">>
    BY <1>3, <1>5
  <2> QED BY <1>2, <1>4, <1>5, <2>1
<1>6. CASE b # 0
  <2>1. PICK f \in FilterSays(p, b, k) : r = CASE f = "yes"   -> Lookup(b, k)
                                               [] f = "no"    -> <<"none">>
                                               [] f = "panic" -> <<"panic">>
    BY <1>3, <1>6
  <2>2. /\ b \in 1 .. Len(Index) /\ (Present(k) => BlockOf(FirstFrom(k)) = b)
    BY <1>2, <1>6 DEF n
  <2>3. /\ FilterSays(p, b, k) \subseteq {"yes", "no", "panic"}
        /\ "no" \in FilterSays(p, b, k) /\ Present(k) => BehindEmpty(n) \/ Misled(p)
        /\ "panic" \in FilterSays(p, b, k) => Misled(p) \/ NoFilterMade(b)
    BY <2>2, FilterReasons DEF n
  <2>4. CASE f = "panic"
    <3>1. r = <<"panic">> /\ (Misled(p) \/ NoFilterMade(b))
      BY <2>1, <2>3, <2>4
    <3> QED BY <3>1 DEF MayReturn, b
  <2>5. CASE f = "no"
    <3>1. r = <<"none">>
      BY <2>1, <2>5
    <3> QED BY <1>4, <2>3, <2>5, <3>1
  <2>6. CASE f = "yes" /\ ~Readable(b)
    <3>1. r = <<"error">>
      BY <2>1, <2>6 DEF Lookup
    <3>2. WouldBeIn(k, b)
      BY <1>1, <1>6, RoutedBlock DEF b
    <3> QED BY <2>2, <2>6, <3>1, <3>2 DEF MayReturn
  <2>7. CASE f = "yes" /\ Readable(b)
    <3>1. r = Lookup(b, k)
      BY <2>1, <2>7
    <3>2. \/ \E v : Lookup(b, k) = <<"some", v>> /\ Present(k) /\ added[n].val = v
          \/ Lookup(b, k) = <<"none">> /\ (Present(k) => BehindEmpty(n))
      BY <1>1, <2>2, <2>7, LookupIs DEF n
    <3>3. ASSUME NEW v, r = <<"some", v>>, Present(k), added[n].val = v PROVE MayReturn(p, k, r)
      BY <3>3 DEF MayReturn, n
    <3> QED BY <1>4, <3>1, <3>2, <3>3
  <2> QED BY <2>3, <2>4, <2>5, <2>6, <2>7
<1> QED BY <1>5, <1>6

\* table_reader.rs, Table::get: over any table of sorted keys it returns no value
\* that was not added under the key; none for a key that was added only for a
\* separator, behind an empty key, or by a filter block that is damaged or another
\* policy's; an error only for the key's damaged block; and panics only on such a
\* filter, or for an empty key whose filter was not made.  The filter block must
\* have offsets and indices that fit into u32.
THEOREM GetAlwaysExact ==
    ASSUME BlockRestartInterval > 0, ~ShortWrites, BlockSize >= 8, FilterLen > 0
    PROVE  TableSpec => [](tb.written <= MaxOffset /\ SmallFilters => GetExact)
<1>1. Inv /\ FileInv /\ OrderInv /\ OpenInv /\ FilterInv =>
         (tb.written <= MaxOffset /\ SmallFilters => GetExact)
  <2> SUFFICES ASSUME Inv, FileInv, OrderInv, OpenInv, FilterInv, tb.written <= MaxOffset,
                      SmallFilters, opened = "yes"
               PROVE  GetExact
    BY DEF GetExact
  <2>1. \A p \in PolicyNames, k \in Keys : \A r \in get(p, k) : MayReturn(p, k, r)
    BY GetStep, TableAssumption
  <2> QED BY <2>1 DEF GetExact, MayReturn, Present, Misled
<1>2. Spec => []FilterInv
  <2>1. Init => FilterInv
    BY FilterInit
  <2>2. Inv /\ FilterInv /\ [Next]_vars => FilterInv'
    BY NextFiltering
  <2> QED BY <2>1, <2>2, InvHolds, PTL DEF Spec
<1> QED BY <1>1, <1>2, TableWrites, TableInvs, PTL

-----------------------------------------------------------------------------

\* A position among entries, or the one before the first of none.
Within(content, y) ==
    /\ IsPosition(y) /\ y.cur >= 0
    /\ y.cur = 0 \/ y.cur < Len(content)
    /\ y.on => y.cur < Len(content)

\* The iterator is within the index, and within a block that can be read.
Inside(x) ==
    /\ DOMAIN x = IterFields /\ Within(Index, x.index) /\ x.block \in 0 .. Len(Index)
    /\ x.block # 0 => Within(Content(x.block), x.iter) /\ Readable(x.block)

\* How far advance() has come from an iterator in step: not at all; or beyond its
\* block and all the blocks that cannot be read up to the one the index is on,
\* which cannot be read either or is about to be entered.
Searching ==
    \/ ti = start
    \/ /\ ~MoreInBlock(start) /\ ti.index.on /\ start.block <= ti.index.cur
       /\ \A b \in start.block + 1 .. ti.index.cur : ~Readable(b)
       /\ \/ ti.block = 0 /\ ~Readable(ti.index.cur + 1)
          \/ ti.block = ti.index.cur + 1 /\ ti.iter = ItNew

\* Between calls an iterator without a block has an index that is off, so that
\* advance() begins with the first block.
IterInv ==
    /\ opened # "yes" => ti = NewTableIter /\ call # "advance"
    /\ opened = "yes" => Inside(ti) /\ (call = "none" /\ ti.block = 0 => ~ti.index.on)
    /\ call = "advance" => /\ Inside(start) /\ (start.block = 0 => ~start.index.on)
                           /\ InStep(start) => Searching

\* An iterator's moves stay within the entries.
LEMMA WithinMoves ==
    ASSUME NEW s, IsSeq(s), NEW y, Within(s, y)
    PROVE  /\ Within(s, ItReset(y)) /\ Within(s, ItPrev(y)) /\ Within(s, ItAdvance(s, y))
           /\ \A to : Within(s, ItSeek(s, y, to))
<1>1. Len(s) \in Nat /\ y.cur \in Int /\ y.on \in BOOLEAN /\ IsPosition(y)
  BY DEF IsSeq, Within, IsPosition
<1>2. Within(s, ItReset(y))
  <2>1. ItReset(y).cur = y.cur /\ ~ItReset(y).on
    BY DEF ItReset
  <2> QED BY <1>1, <2>1, PositionsStay DEF Within
<1>3. Within(s, ItPrev(y))
  <2>1. CASE y.cur = 0
    BY <1>2, <2>1 DEF ItPrev
  <2>2. CASE y.cur # 0
    <3>1. ItPrev(y).cur = y.cur - 1
      BY <2>2 DEF ItPrev
    <3> QED BY <1>1, <2>2, <3>1, PositionsStay DEF Within
  <2> QED BY <2>1, <2>2
<1>4. Within(s, ItAdvance(s, y))
  <2> DEFINE next == IF y.on THEN y.cur + 1 ELSE 0
  <2>1. next \in Int /\ next >= 0
    BY <1>1 DEF Within
  <2>2. ItAdvance(s, y) = IF next < Len(s) THEN [cur |-> next, on |-> TRUE] ELSE ItReset(y)
    BY DEF ItAdvance
  <2> HIDE DEF next
  <2>3. CASE next < Len(s)
    <3>1. ItAdvance(s, y).cur = next
      BY <2>2, <2>3
    <3> QED BY <1>1, <2>1, <2>3, <3>1, PositionsStay DEF Within
  <2>4. CASE ~(next < Len(s))
    BY <1>2, <2>2, <2>4
  <2> QED BY <2>3, <2>4
<1>5. ASSUME NEW to PROVE Within(s, ItSeek(s, y, to))
  <2> DEFINE z == ItSeek(s, y, to)
  <2>1. IsPosition(z)
    BY <1>1, PositionsStay
  <2>2. s # <<>> => Len(s) > 0
    BY <1>1 DEF IsSeq
  <2>3. CASE StopsAtEmpty(s, to)
    <3>1. z.cur = 0 /\ s # <<>>
      BY <2>3 DEF ItSeek, StopsAtEmpty
    <3> QED BY <1>1, <2>1, <2>2, <3>1 DEF Within
  <2>4. CASE ~StopsAtEmpty(s, to) /\ AtOrAbove(s, to) # {}
    <3>1. AtOrAbove(s, to) \in SUBSET Nat /\ \A i \in AtOrAbove(s, to) : i < Len(s)
      BY <1>1 DEF AtOrAbove
    <3>2. Min(AtOrAbove(s, to)) \in AtOrAbove(s, to)
      BY <2>4, <3>1, MinOf
    <3>3. z.cur = Min(AtOrAbove(s, to))
      BY <2>4 DEF ItSeek
    <3>4. z.cur \in Nat /\ z.cur < Len(s)
      BY <3>1, <3>2, <3>3
    <3> QED BY <2>1, <3>4 DEF Within
  <2>5. CASE ~StopsAtEmpty(s, to) /\ AtOrAbove(s, to) = {}
    <3>1. z.cur = (IF s = <<>> THEN y.cur ELSE Len(s) - 1) /\ ~z.on
      BY <2>5 DEF ItSeek
    <3> QED BY <1>1, <2>1, <2>2, <3>1 DEF Within
  <2> QED BY <2>3, <2>4, <2>5
<1> QED BY <1>2, <1>3, <1>4, <1>5

\* An iterator before the first entry, and one on the last.
LEMMA WithinEnds ==
    ASSUME NEW s, IsSeq(s)
    PROVE  /\ Within(s, ItNew)
           /\ Len(s) > 0 => Within(s, ItLast(s))
<1>1. Len(s) \in Nat
  BY DEF IsSeq
<1>2. Within(s, ItNew)
  BY <1>1 DEF ItNew, Within, IsPosition
<1>3. ASSUME Len(s) > 0 PROVE Within(s, ItLast(s))
  <2> DEFINE c == Len(s) - 1
  <2>1. c \in Nat /\ c < Len(s)
    BY <1>1, <1>3
  <2>2. ItLast(s) = [cur |-> c, on |-> TRUE]
    BY DEF ItLast
  <2> HIDE DEF c
  <2> QED BY <2>1, <2>2 DEF Within, IsPosition
<1> QED BY <1>2, <1>3

\* The iterator's parts.
LEMMA InsideIs ==
    ASSUME Laid, NEW x, Inside(x)
    PROVE  /\ IsIterator(x) /\ x.index.cur \in Nat /\ x.index.on \in BOOLEAN
           /\ x.index.on => x.index.cur + 1 \in 1 .. Len(Index)
           /\ IsSeq(Index) /\ Len(Index) \in Nat
           /\ x.block # 0 => /\ x.block \in 1 .. Len(Index) /\ IsSeq(Content(x.block))
                             /\ x.iter.cur \in Nat /\ x.iter.on \in BOOLEAN
                             /\ x.iter.on => x.iter.cur + 1 \in 1 .. Len(Content(x.block))
<1>1. IsSeq(Index) /\ Len(Index) \in Nat
  BY DEF Laid, IsSeq
<1>2. Within(Index, x.index) /\ x.block \in 0 .. Len(Index)
  BY DEF Inside
<1>3. /\ IsIterator(x) /\ x.index.cur \in Nat /\ x.index.on \in BOOLEAN
      /\ x.index.on => x.index.cur + 1 \in 1 .. Len(Index)
  BY <1>1, <1>2 DEF Inside, IsIterator, Within, IsPosition
<1>4. ASSUME x.block # 0
      PROVE  /\ x.block \in 1 .. Len(Index) /\ IsSeq(Content(x.block))
             /\ x.iter.cur \in Nat /\ x.iter.on \in BOOLEAN
             /\ x.iter.on => x.iter.cur + 1 \in 1 .. Len(Content(x.block))
  <2>1. x.block \in 1 .. Len(Index)
    BY <1>1, <1>2, <1>4
  <2>2. Len(Content(x.block)) \in Nat /\ Content(x.block) \in Seq(KeyValue)
    BY <2>1, LaidBlock
  <2>3. Within(Content(x.block), x.iter)
    BY <1>4 DEF Inside
  <2>4. IsSeq(Content(x.block))
    <3> HIDE DEF Content
    <3> QED BY <2>2 DEF IsSeq
  <2> QED BY <2>1, <2>2, <2>3, <2>4 DEF Within, IsPosition
<1> QED BY <1>1, <1>3, <1>4

\* reset(), and a block that is dropped.
LEMMA ResetInside ==
    ASSUME Laid, NEW x, IsIterator(x), Within(Index, x.index)
    PROVE  /\ Inside(ResetTo(x)) /\ ResetTo(x).block = 0 /\ ~ResetTo(x).index.on
           /\ LET y == [x EXCEPT !.block = 0, !.iter = ItNew]
              IN  Inside(y) /\ y.block = 0 /\ y.index = x.index
<1>1. IsSeq(Index) /\ Len(Index) \in Nat
  BY DEF Laid, IsSeq
<1>2. Within(Index, ItReset(x.index)) /\ ~ItReset(x.index).on
  BY <1>1, WithinMoves DEF ItReset
<1> DEFINE i == ItReset(x.index)
           r == ResetTo(x)
           y == [x EXCEPT !.block = 0, !.iter = ItNew]
<1>3. DOMAIN r = IterFields /\ r.index = i /\ r.block = 0
  BY DEF ResetTo, IsIterator, IterFields
<1>4. DOMAIN y = IterFields /\ y.index = x.index /\ y.block = 0
  BY DEF IsIterator, IterFields
<1>5. 0 \in 0 .. Len(Index)
  BY <1>1
<1> HIDE DEF i, r, y
<1>6. Inside(r) /\ ~r.index.on
  BY <1>2, <1>3, <1>5 DEF Inside, i
<1>7. Inside(y)
  BY <1>4, <1>5 DEF Inside
<1> QED BY <1>3, <1>4, <1>6, <1>7 DEF r, y

\* A block that is loaded.
LEMMA LoadedInside ==
    ASSUME Laid, NEW x, IsIterator(x), Within(Index, x.index), x.index.on,
           Readable(x.index.cur + 1), NEW iter, Within(Content(x.index.cur + 1), iter)
    PROVE  LET y == Loaded(x, iter)
           IN  Inside(y) /\ y.block = x.index.cur + 1 /\ y.block # 0 /\ y.iter = iter
               /\ y.index = x.index
<1> DEFINE y == Loaded(x, iter)
           b == x.index.cur + 1
<1>1. Len(Index) \in Nat /\ x.index.cur \in Int
  BY DEF Laid, IsSeq, IsIterator, IsPosition
<1>2. b \in 1 .. Len(Index) /\ b \in 0 .. Len(Index) /\ b # 0
  BY <1>1 DEF Within
<1>3. IsIterator(y) /\ y.block = b /\ y.iter = iter /\ y.index = x.index
  BY LoadedIs
<1> HIDE DEF y, b
<1>4. Readable(b) /\ Within(Content(b), iter)
  BY DEF b
<1>5. Inside(y)
  BY <1>2, <1>3, <1>4 DEF Inside, IsIterator
<1> QED BY <1>2, <1>3, <1>5 DEF y, b

\* The part of prev() after which it is in the block before, in the first block,
\* or nowhere.
LEMMA PrevInside ==
    ASSUME Laid, Inside(ti), prev
    PROVE  Inside(ti') /\ (ti'.block = 0 => ~ti'.index.on)
<1> DEFINE x == PrevInBlock(ti)
           y == PrevInIndex(ti)
           i == ItPrev(ti.index)
           c == y.index.cur + 1
<1>1. /\ IsIterator(ti) /\ IsSeq(Index) /\ Len(Index) \in Nat /\ Within(Index, ti.index)
      /\ ti.block # 0 => /\ ti.block \in 1 .. Len(Index) /\ IsSeq(Content(ti.block))
                         /\ Within(Content(ti.block), ti.iter) /\ Readable(ti.block)
  BY InsideIs DEF Inside
<1>2. IsIterator(x) /\ Inside(x) /\ x.index = ti.index /\ x.block = ti.block
  <2>1. CASE ti.block = 0
    BY <1>1, <2>1 DEF PrevInBlock
  <2>2. CASE ti.block # 0
    <3> DEFINE j == ItPrev(ti.iter)
    <3>1. x = [ti EXCEPT !.iter = j]
      BY <2>2 DEF PrevInBlock
    <3>2. Within(Content(ti.block), j)
      BY <1>1, <2>2, WithinMoves
    <3> HIDE DEF j, x
    <3>3. IsIterator(x) /\ x.index = ti.index /\ x.block = ti.block /\ x.iter = j
      BY <1>1, <3>1, IterMoves
    <3> QED BY <1>1, <2>2, <3>2, <3>3 DEF Inside, IsIterator
  <2> QED BY <2>1, <2>2
<1>3. Within(Index, i) /\ IsPosition(i)
  BY <1>1, WithinMoves DEF Within
<1>4. y = [x EXCEPT !.index = i]
  BY <1>2 DEF PrevInIndex
<1> HIDE DEF x, i
<1>5. IsIterator(y) /\ y.index = i /\ y.block = x.block /\ y.iter = x.iter
  BY <1>2, <1>3, <1>4, IndexMoves
<1> HIDE DEF y
<1>6. Inside(y)
  BY <1>2, <1>3, <1>5 DEF Inside, IsIterator
<1>7. ti' = IF ~LeavesBlock(ti) THEN x ELSE IF y.index.on THEN BlockBefore(y) ELSE y
  BY DEF prev, Does, x, y
<1>8. CASE ~LeavesBlock(ti)
  BY <1>2, <1>7, <1>8 DEF LeavesBlock
<1>9. CASE LeavesBlock(ti) /\ ~y.index.on
  BY <1>6, <1>7, <1>9
<1>10. CASE LeavesBlock(ti) /\ y.index.on /\ ~Readable(c)
  <2>1. ti' = ResetTo(y)
    BY <1>7, <1>10 DEF BlockBefore
  <2> QED BY <1>3, <1>5, <2>1, ResetInside
<1>11. CASE LeavesBlock(ti) /\ y.index.on /\ Readable(c)
  <2> DEFINE l == ItLast(Content(c))
  <2>1. ti' = Loaded(y, l)
    BY <1>7, <1>11 DEF BlockBefore
  <2>2. c \in 1 .. Len(Index)
    BY <1>6, <1>11, InsideIs
  <2>3. Content(c) \in Seq(KeyValue) /\ Len(Content(c)) > 0
    BY <2>2, LaidBlock
  <2>4. IsSeq(Content(c))
    <3> HIDE DEF Content
    <3> QED BY <2>3 DEF IsSeq
  <2>5. Within(Content(c), l)
    BY <2>3, <2>4, WithinEnds
  <2> HIDE DEF l
  <2>6. Inside(Loaded(y, l)) /\ Loaded(y, l).block # 0
    BY <1>3, <1>5, <1>11, <2>5, LoadedInside
  <2> QED BY <2>1, <2>6
<1> QED BY <1>8, <1>9, <1>10, <1>11

\* Where seek() leads is within the table.
LEMMA SeekInside ==
    ASSUME Laid, Inside(ti), NEW to, seek(to)
    PROVE  Inside(ti') /\ (ti'.block = 0 => ~ti'.index.on)
<1> DEFINE i == ItSeek(Index, ti.index, to)
           x == [ti EXCEPT !.index = i]
           b == x.index.cur + 1
           l == ItSeek(Content(b), ItNew, to)
<1>1. IsIterator(ti) /\ IsSeq(Index) /\ Len(Index) \in Nat /\ Within(Index, ti.index)
  BY InsideIs DEF Inside
<1>2. Within(Index, i) /\ IsPosition(i)
  BY <1>1, WithinMoves DEF Within
<1>3. ti' = SeekIn(x, to)
  BY DEF seek, Does
<1> HIDE DEF i
<1>4. IsIterator(x) /\ x.index = i
  BY <1>1, <1>2, IndexMoves
<1> HIDE DEF x
<1>5. CASE ~(x.index.on /\ Readable(b))
  <2>1. ti' = ResetTo(x)
    BY <1>3, <1>5 DEF SeekIn
  <2> QED BY <1>2, <1>4, <2>1, ResetInside
<1>6. CASE x.index.on /\ Readable(b)
  <2>1. ti' = Loaded(x, l)
    BY <1>3, <1>6 DEF SeekIn
  <2>2. b \in 1 .. Len(Index)
    BY <1>1, <1>2, <1>4, <1>6 DEF Within, IsPosition
  <2>3. Content(b) \in Seq(KeyValue)
    BY <2>2, LaidBlock
  <2>4. IsSeq(Content(b))
    <3> HIDE DEF Content
    <3> QED BY <2>3 DEF IsSeq
  <2>5. Within(Content(b), l)
    BY <2>4, WithinEnds, WithinMoves
  <2> HIDE DEF l
  <2>6. Inside(Loaded(x, l)) /\ Loaded(x, l).block # 0
    BY <1>2, <1>4, <1>6, <2>5, LoadedInside
  <2> QED BY <2>1, <2>6
<1> QED BY <1>5, <1>6

\* Where the index goes, and what becomes of the iterator, when advance() leaves
\* its block.
LEMMA SkipInside ==
    ASSUME Laid, Inside(ti), advanceStep, ~MoreInBlock(ti)
    PROVE  LET i == ItAdvance(Index, ti.index)
           IN  /\ Inside(ti')
               /\ ~i.on => /\ call' = "none" /\ start' = NewTableIter
                           /\ ti'.block = 0 /\ ~ti'.index.on
               /\ i.on => /\ UNCHANGED <<call, start>> /\ ti'.index = i
                          /\ \/ ti'.block = 0 /\ ~Readable(i.cur + 1)
                             \/ ti'.block = i.cur + 1 /\ ti'.iter = ItNew
<1> DEFINE i == ItAdvance(Index, ti.index)
           x == [ti EXCEPT !.index = i]
           b == x.index.cur + 1
<1>1. IsIterator(ti) /\ IsSeq(Index) /\ Len(Index) \in Nat /\ Within(Index, ti.index)
  BY InsideIs DEF Inside
<1>2. Within(Index, i) /\ IsPosition(i)
  BY <1>1, WithinMoves DEF Within
<1>3. /\ ti' = SkipTo(x)
      /\ IF GivesUp(x) THEN call' = "none" /\ start' = NewTableIter ELSE UNCHANGED <<call, start>>
  BY DEF advanceStep
<1> HIDE DEF i
<1>4. IsIterator(x) /\ x.index = i
  BY <1>1, <1>2, IndexMoves
<1> HIDE DEF x
<1>5. CASE ~i.on
  <2>1. ti' = ResetTo(x) /\ GivesUp(x)
    BY <1>3, <1>4, <1>5 DEF SkipTo, GivesUp
  <2>2. Inside(ti') /\ ti'.block = 0 /\ ~ti'.index.on
    BY <1>2, <1>4, <2>1, ResetInside
  <2> QED BY <1>3, <1>5, <2>1, <2>2 DEF i
<1>6. CASE i.on /\ ~Readable(b)
  <2>1. ti' = [x EXCEPT !.block = 0, !.iter = ItNew] /\ ~GivesUp(x)
    BY <1>3, <1>4, <1>6 DEF SkipTo, GivesUp
  <2>2. Inside(ti') /\ ti'.block = 0 /\ ti'.index = i
    BY <1>2, <1>4, <2>1, ResetInside
  <2> QED BY <1>3, <1>4, <1>6, <2>1, <2>2 DEF i
<1>7. CASE i.on /\ Readable(b)
  <2>1. ti' = Loaded(x, ItNew) /\ ~GivesUp(x)
    BY <1>3, <1>4, <1>7 DEF SkipTo, GivesUp
  <2>2. b \in 1 .. Len(Index)
    BY <1>1, <1>2, <1>4, <1>7 DEF Within, IsPosition
  <2>3. Content(b) \in Seq(KeyValue)
    BY <2>2, LaidBlock
  <2>4. IsSeq(Content(b))
    <3> HIDE DEF Content
    <3> QED BY <2>3 DEF IsSeq
  <2>5. Within(Content(b), ItNew)
    BY <2>4, WithinEnds
  <2>6. /\ Inside(ti') /\ ti'.block = b /\ ti'.iter = ItNew /\ ti'.index = i
    <3> HIDE DEF ItNew
    <3> QED BY <1>2, <1>4, <1>7, <2>1, <2>5, LoadedInside
  <2> QED BY <1>3, <1>4, <1>7, <2>1, <2>6 DEF i
<1> QED BY <1>4, <1>5, <1>6, <1>7

\* The next entry of the block.
LEMMA MoreInside ==
    ASSUME Laid, Inside(ti), advanceStep, MoreInBlock(ti)
    PROVE  LET b    == ti.block
               next == IF ti.iter.on THEN ti.iter.cur + 1 ELSE 0
           IN  /\ Inside(ti') /\ call' = "none" /\ start' = NewTableIter
               /\ b \in 1 .. Len(Index) /\ b # 0 /\ ti'.block = b /\ ti'.index = ti.index
               /\ next + 1 \in 1 .. Len(Content(b)) /\ ti'.iter = [cur |-> next, on |-> TRUE]
<1> DEFINE b    == ti.block
           next == IF ti.iter.on THEN ti.iter.cur + 1 ELSE 0
           j    == ItAdvance(Content(b), ti.iter)
<1>1. b # 0 /\ j.on
  BY DEF MoreInBlock
<1>2. /\ IsIterator(ti) /\ b \in 1 .. Len(Index) /\ IsSeq(Content(b)) /\ ti.iter.cur \in Nat
      /\ ti.iter.on \in BOOLEAN
  BY <1>1, InsideIs
<1>3. Len(Content(b)) \in Nat
  BY <1>2, LaidBlock
<1>4. /\ ti' = [ti EXCEPT !.iter = j] /\ call' = "none" /\ start' = NewTableIter
  BY DEF advanceStep
<1>5. Within(Content(b), j)
  BY <1>1, <1>2, WithinMoves DEF Inside
<1>6. j = [cur |-> next, on |-> TRUE] /\ next + 1 \in 1 .. Len(Content(b))
  <2>1. next \in Nat
    BY <1>2
  <2>2. j = IF next < Len(Content(b)) THEN [cur |-> next, on |-> TRUE] ELSE ItReset(ti.iter)
    BY DEF ItAdvance
  <2>3. ~ItReset(ti.iter).on
    BY DEF ItReset
  <2> HIDE DEF next, j
  <2>4. next < Len(Content(b))
    BY <1>1, <2>2, <2>3
  <2> QED BY <1>3, <2>1, <2>2, <2>4
<1> HIDE DEF j
<1>7. IsIterator(ti') /\ ti'.index = ti.index /\ ti'.block = b /\ ti'.iter = j
  BY <1>2, <1>4, IterMoves
<1>8. Inside(ti')
  BY <1>1, <1>5, <1>7 DEF Inside, IsIterator
<1> QED BY <1>1, <1>2, <1>4, <1>6, <1>7, <1>8

\* An iterator about to enter a block has entries before it.
LEMMA EntersBlock ==
    ASSUME Laid, NEW x, x.block \in 1 .. Len(Index), x.iter = ItNew
    PROVE  MoreInBlock(x)
<1>1. Len(Content(x.block)) \in Nat /\ Len(Content(x.block)) > 0
  BY LaidBlock
<1>2. ItAdvance(Content(x.block), ItNew) = [cur |-> 0, on |-> TRUE]
  BY <1>1 DEF ItAdvance, ItNew
<1>3. x.block # 0
  BY LaidBlock
<1> QED BY <1>2, <1>3 DEF MoreInBlock

\* An index that is on goes on to the next block, or is off after the last; an
\* index that is off begins with the first.
LEMMA IndexAdvances ==
    ASSUME Laid, NEW x, Inside(x)
    PROVE  LET i    == ItAdvance(Index, x.index)
               next == IF x.index.on THEN x.index.cur + 1 ELSE 0
           IN  /\ i.on \in BOOLEAN /\ next \in Nat
               /\ i.on => i.cur = next /\ next < Len(Index)
               /\ ~i.on => Len(Index) <= next
<1> DEFINE i    == ItAdvance(Index, x.index)
           next == IF x.index.on THEN x.index.cur + 1 ELSE 0
<1>1. x.index.cur \in Nat /\ x.index.on \in BOOLEAN /\ Len(Index) \in Nat
  BY InsideIs
<1>2. next \in Nat
  BY <1>1
<1>3. i = IF next < Len(Index) THEN [cur |-> next, on |-> TRUE] ELSE ItReset(x.index)
  BY DEF ItAdvance
<1>4. ~ItReset(x.index).on /\ ItReset(x.index).on \in BOOLEAN
  BY DEF ItReset
<1> HIDE DEF next, i
<1>5. CASE next < Len(Index)
  <2>1. i.cur = next /\ i.on /\ i.on \in BOOLEAN
    BY <1>3, <1>5
  <2> QED BY <1>2, <1>5, <2>1 DEF next, i
<1>6. CASE ~(next < Len(Index))
  <2>1. ~i.on /\ i.on \in BOOLEAN
    BY <1>3, <1>4, <1>6
  <2>2. Len(Index) <= next
    BY <1>1, <1>2, <1>6
  <2> QED BY <1>2, <2>1, <2>2 DEF next, i
<1> QED BY <1>5, <1>6

\* Where a call of advance() looks for a block: the first after the one it began
\* in, all those before it cannot be read.
LEMMA SearchMoves ==
    ASSUME Laid, Inside(ti), Inside(start), start.block = 0 => ~start.index.on,
           InStep(start), Searching, ~MoreInBlock(ti)
    PROVE  LET next == IF ti.index.on THEN ti.index.cur + 1 ELSE 0
           IN  /\ ~MoreInBlock(start) /\ start.block <= next
               /\ \A b \in start.block + 1 .. next : ~Readable(b)
<1> DEFINE next == IF ti.index.on THEN ti.index.cur + 1 ELSE 0
<1>1. /\ ti.index.cur \in Nat /\ ti.index.on \in BOOLEAN /\ Len(Index) \in Nat
      /\ ti.index.on => ti.index.cur + 1 \in 1 .. Len(Index)
      /\ start.block \in Nat
  BY InsideIs DEF Inside
<1>2. CASE ti = start
  <2>1. CASE start.block = 0
    <3>1. next = 0
      BY <1>2, <2>1
    <3> QED BY <1>2, <2>1, <3>1
  <2>2. CASE start.block # 0
    <3>1. start.index.on /\ start.index.cur = start.block - 1
      BY <2>2 DEF InStep
    <3>2. next = start.block
      BY <1>1, <1>2, <3>1
    <3> QED BY <1>1, <1>2, <3>2
  <2> QED BY <2>1, <2>2
<1>3. CASE ti # start
  <2>1. /\ ~MoreInBlock(start) /\ ti.index.on /\ start.block <= ti.index.cur
        /\ \A b \in start.block + 1 .. ti.index.cur : ~Readable(b)
        /\ \/ ti.block = 0 /\ ~Readable(ti.index.cur + 1)
           \/ ti.block = ti.index.cur + 1 /\ ti.iter = ItNew
    BY <1>3 DEF Searching
  <2>2. ~Readable(ti.index.cur + 1)
    <3>1. CASE ti.block = ti.index.cur + 1 /\ ti.iter = ItNew
      <4>1. ti.block \in 1 .. Len(Index)
        BY <1>1, <2>1, <3>1
      <4> QED BY <3>1, <4>1, EntersBlock
    <3> QED BY <2>1, <3>1
  <2>3. next = ti.index.cur + 1
    BY <2>1
  <2>4. ASSUME NEW b \in start.block + 1 .. next PROVE ~Readable(b)
    <3>1. b \in start.block + 1 .. ti.index.cur \/ b = ti.index.cur + 1
      BY <1>1, <2>3
    <3> QED BY <2>1, <2>2, <3>1
  <2> QED BY <1>1, <2>1, <2>3, <2>4
<1> QED BY <1>2, <1>3

\* A step of advance() that goes on.
LEMMA SearchGoesOn ==
    ASSUME Laid, opened = "yes", IterInv, advanceStep, call' = "advance"
    PROVE  Inside(ti') /\ UNCHANGED start /\ (InStep(start) => Searching')
<1> DEFINE i    == ItAdvance(Index, ti.index)
           next == IF ti.index.on THEN ti.index.cur + 1 ELSE 0
<1>1. /\ Inside(ti) /\ Inside(start) /\ (start.block = 0 => ~start.index.on)
      /\ InStep(start) => Searching
  BY DEF IterInv, advanceStep
<1>2. ~MoreInBlock(ti)
  BY DEF advanceStep
<1>3. /\ Inside(ti') /\ i.on /\ UNCHANGED start /\ ti'.index = i
      /\ \/ ti'.block = 0 /\ ~Readable(i.cur + 1)
         \/ ti'.block = i.cur + 1 /\ ti'.iter = ItNew
  BY <1>1, <1>2, SkipInside
<1>4. next \in Nat /\ i.cur = next
  BY <1>1, <1>3, IndexAdvances
<1>5. UNCHANGED <<tb, table, damaged>>
  BY DEF advanceStep, vars
<1> HIDE DEF i, next
<1>6. ASSUME InStep(start) PROVE Searching'
  <2>1. /\ ~MoreInBlock(start) /\ start.block <= next
        /\ \A b \in start.block + 1 .. next : ~Readable(b)
    BY <1>1, <1>2, <1>6, SearchMoves DEF next
  <2>2. \A b : Readable(b)' <=> Readable(b)
    BY <1>5 DEF Readable
  <2>3. ~MoreInBlock(start)'
    BY <1>3, <1>5, <2>1 DEF MoreInBlock, Content
  <2>4. /\ ti'.index.on /\ ti'.index.cur = next /\ start'.block = start.block
    BY <1>3, <1>4
  <2>5. \A b \in start'.block + 1 .. ti'.index.cur : ~Readable(b)'
    BY <2>1, <2>2, <2>4
  <2>6. \/ ti'.block = 0 /\ ~Readable(ti.index.cur + 1)'
        \/ ti'.block = ti'.index.cur + 1 /\ ti'.iter = ItNew
    <3>1. Readable(ti.index.cur + 1)' <=> Readable(ti'.index.cur + 1)
      BY <1>5 DEF Readable
    <3> QED BY <1>3, <3>1
  <2> QED BY <2>1, <2>3, <2>4, <2>5, <2>6 DEF Searching
<1> QED BY <1>3, <1>6

\* The table stays, and so does what is inside it.
LEMMA InsideStays ==
    ASSUME UNCHANGED <<tb, table, damaged>>, Inside(ti')
    PROVE  Inside(ti)'
<1>1. Index' = Index
  BY DEF Index
<1>2. Content(ti.block)' = Content(ti'.block) /\ Readable(ti.block)' = Readable(ti'.block)
  BY DEF Content, Readable
<1>3. /\ DOMAIN ti' = IterFields /\ Within(Index, ti'.index) /\ ti'.block \in 0 .. Len(Index)
      /\ ti'.block # 0 => Within(Content(ti'.block), ti'.iter) /\ Readable(ti'.block)
  BY DEF Inside
<1> QED BY <1>1, <1>2, <1>3 DEF Inside, Within, IsPosition

\* The same for the iterator that advance() was called with.
LEMMA StartStays ==
    ASSUME UNCHANGED <<tb, table, damaged>>, Inside(start')
    PROVE  Inside(start)'
<1>1. Index' = Index
  BY DEF Index
<1>2. /\ Content(start.block)' = Content(start'.block)
      /\ Readable(start.block)' = Readable(start'.block)
  BY DEF Content, Readable
<1>3. /\ DOMAIN start' = IterFields /\ Within(Index, start'.index)
      /\ start'.block \in 0 .. Len(Index)
      /\ start'.block # 0 => Within(Content(start'.block), start'.iter) /\ Readable(start'.block)
  BY DEF Inside
<1> QED BY <1>1, <1>2, <1>3 DEF Inside, Within, IsPosition

\* A new iterator is before the first block.
LEMMA NewInside ==
    ASSUME IsSeq(Index)
    PROVE  Inside(NewTableIter)
<1>1. Within(Index, ItNew) /\ 0 \in 0 .. Len(Index)
  BY WithinEnds DEF IsSeq
<1>2. /\ DOMAIN NewTableIter = IterFields /\ NewTableIter.index = ItNew
      /\ NewTableIter.block = 0
  BY DEF NewTableIter, IterFields
<1> QED BY <1>1, <1>2 DEF Inside

\* Every step keeps the iterator inside the table.
LEMMA NextIter ==
    ASSUME opened = "yes" => Laid, ReaderInv', IterInv, [TableNext]_tableVars
    PROVE  IterInv'
<1>1. CASE UNCHANGED tableVars
  <2>1. UNCHANGED <<tb, table, damaged, opened, ti, call, start>>
    BY <1>1 DEF tableVars, vars, readerVars
  <2>2. opened = "yes" => Inside(ti)'
    BY <2>1, InsideStays DEF IterInv
  <2>3. call = "advance" => Inside(start)'
    BY <2>1, StartStays DEF IterInv
  <2>4. InStep(start)' <=> InStep(start)
    BY <2>1 DEF InStep
  <2>5. Searching => Searching'
    BY <2>1 DEF Searching, MoreInBlock, Content, Readable
  <2> QED BY <2>1, <2>2, <2>3, <2>4, <2>5 DEF IterInv
<1>2. CASE Write
  <2>1. UNCHANGED <<opened, ti, call>> /\ opened = "no"
    BY <1>2 DEF Write, readerVars
  <2> QED BY <2>1 DEF IterInv
<1>3. CASE New
  <2>1. UNCHANGED <<ti, call, start>> /\ opened = "no"
    BY <1>3 DEF New
  <2>2. ti' = NewTableIter /\ call' # "advance"
    BY <2>1 DEF IterInv
  <2>3. ASSUME opened' = "yes" PROVE Inside(ti)' /\ ~ti'.index.on
    <3>1. IsSeq(Index)'
      BY <2>3 DEF ReaderInv, Index, IsSeq
    <3>2. Inside(NewTableIter)'
      BY <3>1, NewInside, PTL
    <3> QED BY <2>2, <3>2 DEF Inside, NewTableIter, ItNew
  <2> QED BY <2>2, <2>3 DEF IterInv
<1>4. ASSUME opened = "yes", call = "none", Inside(ti'), ti'.block = 0 => ~ti'.index.on,
             UNCHANGED <<vars, opened, table, damaged, call, start>>
      PROVE  IterInv'
  <2>1. UNCHANGED <<tb, table, damaged>>
    BY <1>4 DEF vars
  <2> QED BY <1>4, <2>1, InsideStays DEF IterInv
<1>5. CASE \E to \in Keys : seek(to)
  <2>1. PICK to \in Keys : seek(to)
    BY <1>5
  <2>2. opened = "yes" /\ call = "none" /\ UNCHANGED <<vars, opened, table, damaged, call, start>>
    BY <2>1 DEF seek, Does
  <2>3. Inside(ti)
    BY <2>2 DEF IterInv
  <2> QED BY <1>4, <2>1, <2>2, <2>3, SeekInside
<1>6. CASE prev
  <2>1. opened = "yes" /\ call = "none" /\ UNCHANGED <<vars, opened, table, damaged, call, start>>
    BY <1>6 DEF prev, Does
  <2>2. Inside(ti)
    BY <2>1 DEF IterInv
  <2> QED BY <1>4, <1>6, <2>1, <2>2, PrevInside
<1>7. CASE reset
  <2>1. /\ opened = "yes" /\ call = "none" /\ UNCHANGED <<vars, opened, table, damaged, call, start>>
        /\ ti' = ResetTo(ti)
    BY <1>7 DEF reset, Does
  <2>2. Inside(ti)
    BY <2>1 DEF IterInv
  <2>3. IsIterator(ti) /\ Within(Index, ti.index)
    BY <2>1, <2>2, InsideIs DEF Inside
  <2> QED BY <1>4, <2>1, <2>3, ResetInside
<1>8. CASE prevPanics
  <2>1. /\ opened = "yes" /\ call' = "panic" /\ UNCHANGED <<vars, opened, table, damaged, ti, start>>
    BY <1>8 DEF prevPanics
  <2>2. UNCHANGED <<tb, table, damaged>> /\ Inside(ti')
    BY <2>1 DEF vars, IterInv
  <2> QED BY <2>1, <2>2, InsideStays DEF IterInv
<1>9. CASE advance
  <2>1. /\ opened = "yes" /\ call = "none" /\ call' = "advance" /\ start' = ti
        /\ UNCHANGED <<vars, opened, table, damaged, ti>>
    BY <1>9 DEF advance
  <2>2. UNCHANGED <<tb, table, damaged>> /\ Inside(ti') /\ (ti.block = 0 => ~ti.index.on)
    BY <2>1 DEF vars, IterInv
  <2>3. Inside(ti)' /\ Inside(start)'
    BY <2>1, <2>2, InsideStays, StartStays
  <2>4. Searching'
    BY <2>1 DEF Searching
  <2> QED BY <2>1, <2>2, <2>3, <2>4 DEF IterInv
<1>10. CASE advanceStep
  <2>1. call = "advance" /\ UNCHANGED <<tb, table, damaged, opened>>
    BY <1>10 DEF advanceStep, vars
  <2>2. opened = "yes" /\ opened' = "yes" /\ Inside(ti) /\ Inside(start)
    BY <2>1 DEF IterInv
  <2>3. CASE MoreInBlock(ti)
    <3>1. Inside(ti') /\ call' = "none" /\ ti'.block # 0
      BY <1>10, <2>2, <2>3, MoreInside
    <3> QED BY <2>1, <2>2, <3>1, InsideStays DEF IterInv
  <2>4. CASE ~MoreInBlock(ti) /\ call' # "advance"
    <3>1. Inside(ti') /\ (ti'.block = 0 => ~ti'.index.on)
      BY <1>10, <2>1, <2>2, <2>4, SkipInside
    <3> QED BY <2>1, <2>2, <2>4, <3>1, InsideStays DEF IterInv
  <2>5. CASE ~MoreInBlock(ti) /\ call' = "advance"
    <3>1. Inside(ti') /\ UNCHANGED start /\ (InStep(start) => Searching')
      BY <1>10, <2>2, <2>5, SearchGoesOn
    <3>2. Inside(ti)' /\ Inside(start)'
      BY <2>1, <2>2, <3>1, InsideStays, StartStays
    <3>3. start'.block = 0 => ~start'.index.on
      BY <2>1, <3>1 DEF IterInv
    <3>4. InStep(start)' => Searching'
      BY <3>1 DEF InStep
    <3> QED BY <2>2, <2>5, <3>2, <3>3, <3>4 DEF IterInv
  <2> QED BY <2>3, <2>4, <2>5
<1> QED BY <1>1, <1>2, <1>3, <1>5, <1>6, <1>7, <1>8, <1>9, <1>10 DEF TableNext

-----------------------------------------------------------------------------

\* The iterator's entry, and the one before.
LEMMA PrevStep ==
    ASSUME Laid, Inside(ti), prev, Pos(ti) # 0, InStep(ti)
    PROVE  LET n == Pos(ti) - 1
           IN  Pos(ti') = IF n > 0 /\ Readable(BlockOf(n)) THEN n ELSE 0
<1> DEFINE b == ti.block
           k == ti.iter.cur
           n == Pos(ti) - 1
           x == PrevInBlock(ti)
           y == PrevInIndex(ti)
           i == ItPrev(ti.index)
           j == ItPrev(ti.iter)
<1>1. b # 0 /\ ti.iter.on
  BY DEF Pos
<1>2. /\ IsIterator(ti) /\ b \in 1 .. Len(Index) /\ k \in Nat /\ k + 1 \in 1 .. Len(Content(b))
      /\ IsSeq(Index) /\ Len(Index) \in Nat /\ Readable(b)
      /\ Within(Index, ti.index) /\ ti.index = [cur |-> b - 1, on |-> TRUE]
  BY <1>1, InsideIs DEF Inside, InStep
<1>3. EntriesBefore(b) \in Nat /\ Len(Content(b)) \in Nat
  BY <1>2, LaidBlock
<1>4. n = EntriesBefore(b) + k
  BY <1>1, <1>2, <1>3 DEF Pos
<1>5. x = [ti EXCEPT !.iter = j]
  BY <1>1 DEF PrevInBlock
<1> HIDE DEF j, x
<1>6. IsIterator(x) /\ x.index = ti.index /\ x.block = b /\ x.iter = j
  BY <1>2, <1>5, IterMoves
<1>7. ti' = IF ~LeavesBlock(ti) THEN x ELSE IF y.index.on THEN BlockBefore(y) ELSE y
  BY DEF prev, Does, x
<1>8. LeavesBlock(ti) <=> ~j.on
  BY <1>1, <1>6 DEF LeavesBlock, x
<1>9. CASE k # 0
  <2>1. j = [cur |-> k - 1, on |-> TRUE]
    BY <1>9 DEF ItPrev, j
  <2>2. ti' = x
    BY <1>7, <1>8, <2>1
  <2>3. Pos(ti') = EntriesBefore(b) + (k - 1) + 1
    BY <1>1, <1>6, <2>1, <2>2 DEF Pos
  <2>4. k \in 1 .. Len(Content(b))
    BY <1>2, <1>3, <1>9
  <2>5. BlockOf(n) = b
    BY <1>2, <1>4, <2>4, EntryAt
  <2> HIDE DEF n
  <2> QED BY <1>2, <1>3, <1>4, <1>9, <2>3, <2>5 DEF n
<1>10. CASE k = 0
  <2>1. ~j.on
    BY <1>10 DEF ItPrev, ItReset, j
  <2>2. ti' = IF y.index.on THEN BlockBefore(y) ELSE y
    BY <1>7, <1>8, <2>1
  <2>3. IsPosition(i) /\ Within(Index, i)
    BY <1>2, WithinMoves DEF Within
  <2>4. y = [x EXCEPT !.index = i]
    BY <1>6 DEF PrevInIndex, x
  <2> HIDE DEF i
  <2>5. IsIterator(y) /\ y.index = i /\ y.block = b /\ y.iter = j
    BY <1>6, <2>3, <2>4, IndexMoves
  <2> HIDE DEF y
  <2>6. CASE b = 1
    <3>1. ~i.on
      BY <1>2, <2>6 DEF ItPrev, ItReset, i
    <3>2. ti' = y
      BY <2>2, <2>5, <3>1
    <3>3. Pos(ti') = 0
      BY <2>1, <2>5, <3>2, NowhereIs
    <3>4. EntriesBefore(b) = 0
      BY <1>2, <2>6 DEF Laid
    <3>5. n = 0
      BY <1>4, <1>10, <3>4
    <3> HIDE DEF n
    <3> QED BY <3>3, <3>5 DEF n
  <2>7. CASE b # 1
    <3> DEFINE a == b - 1
    <3>1. a \in 1 .. Len(Index) /\ a \in Nat /\ b \in a + 1 .. Len(Index) /\ a + 1 = b
      BY <1>2, <2>7
    <3>2. i = [cur |-> a - 1, on |-> TRUE] /\ i.cur + 1 = a
      BY <1>2, <2>7, <3>1 DEF ItPrev, i
    <3> HIDE DEF a
    <3>3. /\ EntriesBefore(a) \in Nat /\ Len(Content(a)) \in Nat /\ Len(Content(a)) > 0
      BY <3>1, LaidBlock
    <3>4. /\ EntriesBefore(b) = EntriesBefore(a) + Len(Content(a))
          /\ BlockOf(EntriesBefore(a) + Len(Content(a))) = a
      <4> DEFINE l == EntriesBefore(a) + Len(Content(a))
      <4>1. BlockOf(l) = a /\ \A c \in a + 1 .. Len(Index) : EntriesBefore(a + 1) = l
        BY <3>1, NextBlock
      <4> HIDE DEF l
      <4>2. EntriesBefore(a + 1) = l
        BY <3>1, <4>1
      <4> QED BY <3>1, <4>1, <4>2 DEF l
    <3>5. n = EntriesBefore(a) + Len(Content(a)) /\ n > 0
      BY <1>3, <1>4, <1>10, <3>3, <3>4
    <3>6. BlockOf(n) = a
      BY <3>4, <3>5
    <3>7. ti' = BlockBefore(y)
      BY <2>2, <2>5, <3>2
    <3> HIDE DEF n
    <3>8. CASE ~Readable(a)
      <4>1. ti' = ResetTo(y)
        BY <2>5, <3>2, <3>7, <3>8 DEF BlockBefore
      <4>2. ti'.block = 0
        BY <2>3, <2>5, <4>1, ResetInside
      <4>3. Pos(ti') = 0
        BY <4>2, NowhereIs
      <4> QED BY <3>6, <3>8, <4>3 DEF n
    <3>9. CASE Readable(a)
      <4> DEFINE l == ItLast(Content(a))
      <4>1. ti' = Loaded(y, l)
        BY <2>5, <3>2, <3>7, <3>9 DEF BlockBefore
      <4>2. l.on /\ l.cur = Len(Content(a)) - 1
        BY DEF ItLast
      <4> HIDE DEF l
      <4>3. ti'.iter = l /\ ti'.block = a
        BY <2>5, <3>2, <4>1, LoadedIs
      <4>4. Pos(ti') = EntriesBefore(a) + (Len(Content(a)) - 1) + 1
        BY <3>1, <4>2, <4>3 DEF Pos
      <4>5. Pos(ti') = n
        BY <3>3, <3>5, <4>4
      <4> QED BY <3>5, <3>6, <3>9, <4>5 DEF n
    <3> QED BY <3>8, <3>9
  <2> QED BY <2>6, <2>7
<1> QED BY <1>9, <1>10

\* The entries after the last of a block are in later blocks.
LEMMA LaterBlocks ==
    ASSUME Laid, NEW s, Inside(s), InStep(s), ~MoreInBlock(s), NEW m \in Pos(s) + 1 .. Len(added)
    PROVE  Pos(s) \in Nat /\ m \in 1 .. Len(added) /\ BlockOf(m) \in s.block + 1 .. Len(Index)
<1>1. Len(added) \in Nat /\ Len(Index) \in Nat /\ s.block \in Nat
  BY InsideIs DEF Laid, Inside
<1>2. CASE s.block = 0
  <2>1. Pos(s) = 0
    BY <1>2, NowhereIs
  <2>2. m \in 1 .. Len(added)
    BY <2>1
  <2> QED BY <1>2, <2>1, <2>2, EntryIn
<1>3. CASE s.block # 0
  <2> DEFINE b == s.block
             c == BlockOf(m)
  <2>1. /\ b \in 1 .. Len(Index) /\ s.iter.on /\ s.iter.cur \in Nat
        /\ s.iter.cur + 1 \in 1 .. Len(Content(b))
    BY <1>3, InsideIs DEF InStep
  <2>2. EntriesBefore(b) \in Nat /\ Len(Content(b)) \in Nat
    BY <2>1, LaidBlock
  <2>3. s.iter.cur + 1 = Len(Content(b))
    <3>1. ~ItAdvance(Content(b), s.iter).on
      BY <1>3 DEF MoreInBlock
    <3>2. ~(s.iter.cur + 1 < Len(Content(b)))
      BY <2>1, <3>1 DEF ItAdvance
    <3> QED BY <2>1, <2>2, <3>2
  <2>4. Pos(s) = EntriesBefore(b) + Len(Content(b))
    BY <1>3, <2>1, <2>2, <2>3 DEF Pos
  <2>5. m \in 1 .. Len(added) /\ m > EntriesBefore(b) + Len(Content(b)) /\ Pos(s) \in Nat
    BY <1>1, <2>2, <2>4
  <2>6. /\ c \in 1 .. Len(Index) /\ EntriesBefore(c) \in Nat
        /\ m - EntriesBefore(c) \in 1 .. Len(Content(c))
    BY <2>5, EntryIn
  <2> HIDE DEF c, b
  <2>7. c > b
    <3>1. Len(Content(c)) \in Nat
      BY <2>6, LaidBlock
    <3>2. c # b
      BY <2>2, <2>5, <2>6
    <3>3. CASE c < b
      <4>1. b \in c + 1 .. Len(Index)
        BY <1>1, <2>1, <2>6, <3>3
      <4>2. EntriesBefore(c) + Len(Content(c)) <= EntriesBefore(b)
        BY <2>6, <4>1 DEF Laid
      <4> QED BY <2>2, <2>5, <2>6, <3>1, <4>2
    <3> QED BY <1>1, <2>1, <2>6, <3>2, <3>3
  <2> QED BY <1>1, <2>1, <2>5, <2>6, <2>7 DEF b, c
<1> QED BY <1>2, <1>3

\* What NextReadable finds.
LEMMA NextReadableIs ==
    ASSUME Laid, NEW p \in Nat
    PROVE  /\ \A n \in p + 1 .. Len(added) :
                 Readable(BlockOf(n)) /\ (\A m \in p + 1 .. n - 1 : ~Readable(BlockOf(m)))
                    => NextReadable(p) = n
           /\ (\A m \in p + 1 .. Len(added) : ~Readable(BlockOf(m))) => NextReadable(p) = 0
<1> DEFINE later == {m \in p + 1 .. Len(added) : Readable(BlockOf(m))}
<1>1. Len(added) \in Nat
  BY DEF Laid
<1>2. NextReadable(p) = IF later = {} THEN 0 ELSE Min(later)
  BY DEF NextReadable
<1>3. ASSUME NEW n \in p + 1 .. Len(added), Readable(BlockOf(n)),
             \A m \in p + 1 .. n - 1 : ~Readable(BlockOf(m))
      PROVE  NextReadable(p) = n
  <2>1. later \in SUBSET Nat /\ n \in later
    BY <1>1, <1>3
  <2>2. \A m \in later : m \in Nat /\ n <= m
    <3> SUFFICES ASSUME NEW m \in later PROVE m \in Nat /\ n <= m
      OBVIOUS
    <3>1. m \in p + 1 .. Len(added) /\ Readable(BlockOf(m))
      OBVIOUS
    <3>2. ~(m \in p + 1 .. n - 1)
      BY <1>3, <3>1
    <3> QED BY <1>1, <3>1, <3>2
  <2> HIDE DEF later
  <2> DEFINE q == Min(later)
  <2>3. q \in later /\ q <= n
    BY <2>1, MinOf
  <2> HIDE DEF q
  <2>4. q \in Nat /\ n \in Nat /\ n <= q
    BY <2>1, <2>2, <2>3
  <2>5. q = n
    BY <2>3, <2>4
  <2> QED BY <1>2, <2>1, <2>5 DEF q
<1>4. ASSUME \A m \in p + 1 .. Len(added) : ~Readable(BlockOf(m)) PROVE NextReadable(p) = 0
  <2>1. later = {}
    BY <1>4
  <2> QED BY <1>2, <2>1
<1> QED BY <1>3, <1>4

\* advance() that returns: on the next entry of the block, on the first of the
\* next block that can be read, or after all.
LEMMA AdvanceStep ==
    ASSUME Laid, opened = "yes", IterInv, advanceStep, call' = "none", InStep(start)
    PROVE  Pos(ti') = NextReadable(Pos(start)) /\ InStep(ti')
<1>1. /\ Inside(ti) /\ Inside(start) /\ (start.block = 0 => ~start.index.on) /\ Searching
      /\ call = "advance"
  BY DEF IterInv, advanceStep
<1>2. Len(added) \in Nat /\ Len(Index) \in Nat
  BY <1>1, InsideIs DEF Laid
<1> DEFINE p == Pos(start)
<1>3. p \in Nat
  <2>1. CASE start.block # 0 /\ start.iter.on
    <3>1. EntriesBefore(start.block) \in Nat /\ start.iter.cur \in Nat
      BY <1>1, <2>1, InsideIs, LaidBlock
    <3> QED BY <2>1, <3>1 DEF Pos
  <2>2. CASE start.block = 0 \/ ~start.iter.on
    BY <2>2, NowhereIs
  <2> QED BY <2>1, <2>2
<1>4. CASE MoreInBlock(ti) /\ ti = start
  <2> DEFINE b == ti.block
             k == ti.iter.cur + 1
  <2>1. ti.iter.on /\ ti.index = [cur |-> b - 1, on |-> TRUE]
    BY <1>4 DEF MoreInBlock, InStep
  <2>2. /\ b \in 1 .. Len(Index) /\ b # 0 /\ ti'.block = b /\ ti'.index = ti.index
        /\ k + 1 \in 1 .. Len(Content(b)) /\ ti'.iter = [cur |-> k, on |-> TRUE]
    BY <1>1, <1>4, <2>1, MoreInside
  <2>3. EntriesBefore(b) \in Nat /\ k \in Nat /\ ti.iter.cur \in Nat
    BY <1>1, <2>2, InsideIs, LaidBlock
  <2>4. p = EntriesBefore(b) + k
    <3>1. p = EntriesBefore(b) + ti.iter.cur + 1
      BY <1>4, <2>1, <2>2 DEF Pos
    <3> HIDE DEF p
    <3> QED BY <2>3, <3>1
  <2>5. Pos(ti') = EntriesBefore(b) + k + 1 /\ InStep(ti')
    BY <2>1, <2>2 DEF Pos, InStep
  <2>6. EntriesBefore(b) + (k + 1) \in 1 .. Len(added) /\ BlockOf(EntriesBefore(b) + (k + 1)) = b
    BY <2>2, EntryAt
  <2>7. Readable(b)
    BY <1>1, <2>2 DEF Inside
  <2> HIDE DEF p, b, k
  <2>8. EntriesBefore(b) + (k + 1) = p + 1
    BY <2>3, <2>4
  <2>9. p + 1 \in p + 1 .. Len(added) /\ Readable(BlockOf(p + 1))
    BY <1>2, <1>3, <2>6, <2>7, <2>8
  <2>10. \A m \in p + 1 .. (p + 1) - 1 : ~Readable(BlockOf(m))
    BY <1>3
  <2>11. NextReadable(p) = p + 1
    BY <1>3, <2>9, <2>10, NextReadableIs
  <2>12. Pos(ti') = p + 1
    BY <2>3, <2>4, <2>5
  <2> QED BY <2>5, <2>11, <2>12 DEF p
<1>5. CASE MoreInBlock(ti) /\ ti # start
  <2> DEFINE k == ti.index.cur
             b == ti.block
             e == EntriesBefore(b)
  <2>1. /\ ~MoreInBlock(start) /\ ti.index.on /\ start.block <= k
        /\ \A c \in start.block + 1 .. k : ~Readable(c)
        /\ b = k + 1 /\ ti.iter = ItNew
    BY <1>1, <1>5 DEF Searching, MoreInBlock
  <2>2. ~ti.iter.on
    BY <2>1 DEF ItNew
  <2>3. /\ b \in 1 .. Len(Index) /\ b # 0 /\ ti'.block = b /\ ti'.index = ti.index
        /\ 1 \in 1 .. Len(Content(b)) /\ ti'.iter = [cur |-> 0, on |-> TRUE]
    BY <1>1, <1>5, <2>2, MoreInside
  <2>4. e \in Nat /\ k \in Nat /\ start.block \in Nat /\ Readable(b) /\ IsPosition(ti.index)
    BY <1>1, <2>3, InsideIs, LaidBlock DEF Inside, Within
  <2>5. Pos(ti') = e + 1
    BY <2>3, <2>4 DEF Pos
  <2>6. InStep(ti')
    <3>1. ti.index = [cur |-> k, on |-> TRUE] /\ k = b - 1
      BY <2>1, <2>4 DEF IsPosition
    <3> QED BY <2>3, <3>1 DEF InStep
  <2>7. e + 1 \in 1 .. Len(added) /\ BlockOf(e + 1) = b
    BY <2>3, EntryAt
  <2>8. p <= e
    <3>1. CASE start.block # 0 /\ start.iter.on
      <4> DEFINE a == start.block
      <4>1. a \in 1 .. Len(Index) /\ start.iter.cur \in Nat /\ start.iter.cur + 1 \in 1 .. Len(Content(a))
        BY <1>1, <3>1, InsideIs
      <4>2. EntriesBefore(a) \in Nat /\ Len(Content(a)) \in Nat
        BY <4>1, LaidBlock
      <4>3. b \in a + 1 .. Len(Index)
        BY <2>1, <2>3, <2>4
      <4>4. EntriesBefore(a) + Len(Content(a)) <= e
        BY <4>1, <4>3 DEF Laid
      <4>5. p = EntriesBefore(a) + start.iter.cur + 1
        BY <3>1 DEF Pos
      <4> HIDE DEF p, e, a
      <4> QED BY <2>4, <4>1, <4>2, <4>4, <4>5
    <3>2. CASE start.block = 0 \/ ~start.iter.on
      <4>1. p = 0
        BY <3>2, NowhereIs
      <4> QED BY <2>4, <4>1
    <3> QED BY <3>1, <3>2
  <2> HIDE DEF p, e, k, b
  <2>9. e + 1 \in p + 1 .. Len(added) /\ Readable(BlockOf(e + 1))
    BY <1>2, <1>3, <2>4, <2>7, <2>8
  <2>10. ASSUME NEW m \in p + 1 .. (e + 1) - 1 PROVE ~Readable(BlockOf(m))
    <3> DEFINE c == BlockOf(m)
    <3>1. m \in p + 1 .. Len(added) /\ m \in Nat /\ m <= e
      BY <1>2, <1>3, <2>4, <2>7
    <3>2. m \in 1 .. Len(added) /\ c \in start.block + 1 .. Len(Index)
      BY <1>1, <2>1, <3>1, LaterBlocks DEF p
    <3>3. c \in 1 .. Len(Index) /\ EntriesBefore(c) \in Nat /\ m - EntriesBefore(c) \in 1 .. Len(Content(c))
      BY <3>2, EntryIn
    <3> HIDE DEF c
    <3>4. EntriesBefore(c) < m /\ Len(Content(c)) \in Nat
      BY <3>1, <3>3, LaidBlock
    <3>5. ~(c \in b + 1 .. Len(Index)) /\ c # b
      <4>1. c # b
        BY <2>4, <3>1, <3>3, <3>4 DEF e
      <4>2. ASSUME c \in b + 1 .. Len(Index) PROVE FALSE
        <5>1. e + Len(Content(b)) <= EntriesBefore(c) /\ Len(Content(b)) \in Nat
          BY <2>3, <4>2, LaidBlock DEF Laid, e
        <5> QED BY <2>4, <3>1, <3>3, <3>4, <5>1
      <4> QED BY <4>1, <4>2
    <3>6. c \in start.block + 1 .. k
      BY <1>2, <2>1, <2>3, <2>4, <3>2, <3>5
    <3> QED BY <2>1, <3>6 DEF c, k
  <2>11. NextReadable(p) = e + 1
    BY <1>3, <2>9, <2>10, NextReadableIs
  <2> QED BY <2>5, <2>6, <2>11 DEF p
<1>6. CASE ~MoreInBlock(ti)
  <2> DEFINE i    == ItAdvance(Index, ti.index)
             next == IF ti.index.on THEN ti.index.cur + 1 ELSE 0
  <2>1. ~i.on /\ ti'.block = 0
    BY <1>1, <1>6, SkipInside
  <2>2. next \in Nat /\ Len(Index) <= next
    BY <1>1, <2>1, IndexAdvances
  <2>3. /\ ~MoreInBlock(start)
        /\ \A b \in start.block + 1 .. next : ~Readable(b)
    BY <1>1, <1>6, SearchMoves
  <2> HIDE DEF next, p
  <2>4. ASSUME NEW m \in p + 1 .. Len(added) PROVE ~Readable(BlockOf(m))
    <3>1. BlockOf(m) \in start.block + 1 .. Len(Index) /\ start.block \in Nat
      BY <1>1, <2>3, LaterBlocks DEF p, Inside
    <3> DEFINE c == BlockOf(m)
    <3> HIDE DEF c
    <3>2. c \in start.block + 1 .. next
      BY <1>2, <2>2, <3>1 DEF c
    <3> QED BY <2>3, <3>2 DEF c
  <2>5. NextReadable(p) = 0
    BY <1>3, <2>4, NextReadableIs
  <2>6. Pos(ti') = 0 /\ InStep(ti')
    BY <2>1, NowhereIs DEF InStep
  <2> QED BY <2>5, <2>6 DEF p
<1> QED BY <1>4, <1>5, <1>6

\* The iterator of a table that is open stays inside it.
LEMMA TableIters ==
    ASSUME BlockRestartInterval > 0, ~ShortWrites, BlockSize >= 8
    PROVE  TableSpec /\ [](tb.written <= MaxOffset) => []IterInv
<1>1. TableInit => IterInv
  BY DEF TableInit, IterInv
<1>2. /\ Inv /\ FileInv /\ OrderInv /\ OpenInv /\ tb.written <= MaxOffset /\ ReaderInv' /\ IterInv
      /\ [TableNext]_tableVars
      => IterInv'
  BY TableIsLaid, NextIter
<1> QED BY <1>1, <1>2, TableInvs, TableReads, PTL DEF TableSpec

\* table_reader.rs, TableIterator::prev: from any entry of any table of sorted
\* keys it goes to the entry before, within its block or into the block before,
\* unless that block is damaged, and before the first entry it is invalid.
THEOREM PrevIsAlwaysPrevious ==
    ASSUME BlockRestartInterval > 0, ~ShortWrites, BlockSize >= 8
    PROVE  TableSpec /\ [](tb.written <= MaxOffset) => PrevIsPrevious
<1> DEFINE A == prev /\ Pos(ti) # 0 /\ InStep(ti) =>
                    LET n == Pos(ti) - 1
                    IN  n = 0 \/ Readable(BlockOf(n)) => Pos(ti') = n
<1>1. ASSUME Inv, FileInv, OrderInv, OpenInv, tb.written <= MaxOffset, IterInv PROVE A
  <2> SUFFICES ASSUME prev, Pos(ti) # 0, InStep(ti)
               PROVE  LET n == Pos(ti) - 1
                      IN  n = 0 \/ Readable(BlockOf(n)) => Pos(ti') = n
    OBVIOUS
  <2>1. opened = "yes"
    BY DEF prev, Does
  <2>2. Laid /\ Inside(ti)
    BY <1>1, <2>1, TableIsLaid DEF IterInv
  <2> DEFINE n == Pos(ti) - 1
  <2>3. Pos(ti') = IF n > 0 /\ Readable(BlockOf(n)) THEN n ELSE 0
    BY <2>2, PrevStep
  <2>4. n \in Nat
    <3>1. ti.block # 0 /\ ti.iter.on
      BY DEF Pos
    <3>2. ti.block \in 1 .. Len(Index) /\ ti.iter.cur \in Nat
      BY <2>2, <3>1, InsideIs
    <3>3. EntriesBefore(ti.block) \in Nat
      BY <2>2, <3>2, LaidBlock
    <3> QED BY <3>1, <3>2, <3>3 DEF Pos
  <2> HIDE DEF n
  <2>5. n = 0 \/ Readable(BlockOf(n)) => Pos(ti') = n
    BY <2>3, <2>4
  <2> QED BY <2>5 DEF n
<1>2. PrevIsPrevious <=> [][A]_tableVars
  BY DEF PrevIsPrevious
<1> HIDE DEF A
<1>3. Inv /\ FileInv /\ OrderInv /\ OpenInv /\ tb.written <= MaxOffset /\ IterInv => [A]_tableVars
  BY <1>1
<1> QED BY <1>2, <1>3, TableInvs, TableIters, PTL DEF TableSpec

\* table_reader.rs, TableIterator::advance: over any table of sorted keys, any
\* number of whose blocks are damaged, a call that returns is on the first entry
\* after the one it began at whose block can be read, or invalid if there is none:
\* a scan returns every entry that can be read, once and in order.
THEOREM AdvanceIsAlwaysNext ==
    ASSUME BlockRestartInterval > 0, ~ShortWrites, BlockSize >= 8
    PROVE  TableSpec /\ [](tb.written <= MaxOffset) => AdvanceIsNext
<1> DEFINE A == call = "advance" /\ call' = "none" /\ InStep(start) =>
                    Pos(ti') = NextReadable(Pos(start)) /\ InStep(ti')
<1>1. ASSUME Inv, FileInv, OrderInv, OpenInv, tb.written <= MaxOffset, IterInv, TableNext PROVE A
  <2> SUFFICES ASSUME call = "advance", call' = "none", InStep(start)
               PROVE  Pos(ti') = NextReadable(Pos(start)) /\ InStep(ti')
    OBVIOUS
  <2>1. opened = "yes"
    BY <1>1 DEF IterInv
  <2>2. advanceStep
    BY <1>1, <2>1 DEF TableNext, Write, New, advance, seek, prev, prevPanics, reset, Does
  <2>3. Laid
    BY <1>1, <2>1, TableIsLaid
  <2> QED BY <1>1, <2>1, <2>2, <2>3, AdvanceStep
<1>2. AdvanceIsNext <=> [][A]_tableVars
  BY DEF AdvanceIsNext
<1> HIDE DEF A
<1>3. /\ Inv /\ FileInv /\ OrderInv /\ OpenInv /\ tb.written <= MaxOffset /\ IterInv
      /\ [TableNext]_tableVars
      => [A]_tableVars
  BY <1>1
<1> QED BY <1>2, <1>3, TableInvs, TableIters, PTL DEF TableSpec
=============================================================================
