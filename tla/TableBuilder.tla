---------------------------- MODULE TableBuilder ----------------------------
(***************************************************************************)
(* TableBuilder (src/src/table_builder.rs) and the file it writes.         *)
(*                                                                         *)
(* A table under construction is a record `tb`; its data block and index   *)
(* block are BlockBuilders paired with the entries added to them, which is *)
(* what an iterator over the finished block yields (BlockIter).  The file  *)
(* is the sequence of the segments written to it, each with the place it   *)
(* really begins at, so that a handle can be compared with what lies       *)
(* where it points.  Handles and the footer are written as BlockHandle     *)
(* encodes them.                                                           *)
(*                                                                         *)
(* Writing may fail: an error, after which the file ends in the middle of  *)
(* a segment, or, if ShortWrites, a write that takes only part of the data *)
(* and reports success, as Write::write may.                               *)
(***************************************************************************)
EXTENDS BlockBuilder, FilterBlock, SequencesExt

CONSTANTS Keys, Vals,   \* the keys and values that callers use
          BlockSize,    \* Options::block_size
          Compressed,   \* Options::compression_type is CompressionSnappy
          FilterName,   \* the key under which the metaindex has the filter block
          MaxAdds,      \* bound on the entries of a table
          ShortWrites,  \* the destination may write less than it was given
          FlushFails    \* its flush() may report an error though it has the data

ASSUME TableAssumption ==
    /\ Keys \subseteq ByteString /\ Vals \subseteq Seq(Nat)
    /\ BlockSize \in Nat /\ MaxAdds \in Nat
    /\ Compressed \in BOOLEAN /\ ShortWrites \in BOOLEAN /\ FlushFails \in BOOLEAN
    /\ FilterName \in ByteString

H == INSTANCE BlockHandle WITH VarBase <- 128, VarMaxLen <- 10, FooterLength <- 40

FooterLen == H!FullFooterLength

TrailerLen == 5         \* compression type and checksum of a block

\* Options::compression_type, as it is written after a block
ctype == IF Compressed THEN 1 ELSE 0

\* the bytes that are written for contents of this length; Snappy adds a header
\* to contents as short as these
Stored(ct, len) == IF ct = 1 THEN len + 2 ELSE len

NoHandle == [offset |-> 0, size |-> 0]

NewBlock == [bb |-> NewBlockBuilder, kvs |-> <<>>]

\* BlockBuilder::add on a block and its entries
AddTo(blk, key, val) ==
    [bb |-> AddEntry(blk.bb, key, val), kvs |-> Append(blk.kvs, [key |-> key, val |-> val])]

\* bytes of the block once finished, and as it is written
BlockLen(blk) == SizeEstimate(blk.bb)

StoredLen(blk) == Stored(ctype, BlockLen(blk))

NewTable ==
    [offset |-> 0, prev_block_last_key |-> <<>>, data_block |-> NewBlock,
     index_block |-> NewBlock, filter_block |-> NewFilterBuilder,
     handles |-> [kind \in {"filter", "metaindex", "index"} |-> NoHandle],
     dst |-> <<>>, written |-> 0]

\* the bytes of one segment of which the destination takes n of len
Segment(t, kind, n, ct, len, body) ==
    [kind |-> IF n = len THEN kind ELSE "torn", at |-> t.written, len |-> n, ctype |-> ct, body |-> body]

\* how many bytes of a block the destination may take when it reports success
Accepted(len) == IF ShortWrites THEN {0, len} ELSE {len}

\* (deliberately wrong, for the mutant of HandleFor: taken after the offset has
\* moved past the block)
HandleFor_AfterBlock(t, len) == [offset |-> t.offset + len + TrailerLen, size |-> len]

\* the handle write_block returns
HandleFor(t, len) == [offset |-> t.offset, size |-> len]

\* write_block, when all three writes report success: data, compression type
\* and checksum
WriteBlock(t, kind, n, ct, len, body) ==
    [t EXCEPT !.dst = Append(@, Segment(t, kind, n, ct, len, body)),
              !.written = @ + n + TrailerLen,
              !.offset = @ + len + TrailerLen]

\* write_block, when one of the three writes is refused
TornBlock(t, n, body) ==
    [t EXCEPT !.dst = Append(@, Segment(t, "torn", n, ctype, n, body)),
              !.written = @ + n]

\* (deliberately wrong, for the mutant of Separator: the last key itself)
Separator_LastKey(t, next_key) == t.data_block.bb.last_key

\* the separator write_data_block computes
Separator(t, next_key) == find_shortest_sep(t.data_block.bb.last_key, next_key)

\* the assertion of encode_to fails: the code gives it 16 bytes of room
HandleTooLong(h) == Len(H!encode_to(h)) > 16

\* an assertion fails in write_data_block: in find_shortest_sep, in encode_to, in
\* the index block's add, or in start_block
WriteDataBlockPanics(t, next_key) ==
    \/ SepPanics(t.data_block.bb.last_key, next_key)
    \/ HandleTooLong(HandleFor(t, StoredLen(t.data_block)))
    \/ AddPanics(t.index_block.bb, Separator(t, next_key))
    \/ StartBlockPanics(t.filter_block, t.offset + StoredLen(t.data_block) + TrailerLen)

\* write_data_block, when the block is written
WriteDataBlock(t, n, next_key) ==
    LET len == StoredLen(t.data_block)
        w   == WriteBlock(t, "data", n, ctype, len, t.data_block.kvs)
        h   == HandleFor(t, len)
    IN  [w EXCEPT !.prev_block_last_key = t.data_block.bb.last_key,
                  !.index_block = AddTo(@, Separator(t, next_key), H!encode_to(h)),
                  !.data_block = NewBlock,
                  !.filter_block = start_block(@, w.offset)]

-----------------------------------------------------------------------------

VARIABLES pc,           \* what the builder can still do
          tb,           \* the TableBuilder and its destination
          added,        \* history: the entries for which add() returned Ok
          ordered,      \* history: every key passed to add() was above all others
          result        \* what finish() returned, -1 before and for an error

vars == <<pc, tb, added, ordered, result>>

Init ==
    /\ pc = "open" /\ tb = NewTable
    /\ added = <<>> /\ ordered = TRUE
    /\ result = -1

\* the end of TableBuilder::add, on the state t left by a block change
AddPair(t, k, v) ==
    IF AddPanics(t.data_block.bb, k)
    THEN /\ pc' = "panic"
         /\ tb' = [t EXCEPT !.filter_block = add_key(@, k)]
         /\ UNCHANGED added
    ELSE /\ tb' = [t EXCEPT !.filter_block = add_key(@, k),
                            !.data_block = AddTo(@, k, v)]
         /\ added' = Append(added, [key |-> k, val |-> v])
         /\ UNCHANGED pc

\* the panic of write_data_block, which has taken the block away: all but the
\* first of its assertions come after the block is in the file
DiesInWrite(t, next_key) ==
    LET len   == StoredLen(t.data_block)
        taken == [t EXCEPT !.data_block = NewBlock]
    IN  IF SepPanics(t.data_block.bb.last_key, next_key) THEN tb' = taken
        ELSE \E n \in Accepted(len) :
                tb' = [WriteBlock(taken, "data", n, ctype, len, t.data_block.kvs) EXCEPT
                          !.prev_block_last_key = t.data_block.bb.last_key]

\* the caller's side of the contract: "The entries have to be added in sorted
\* order" (README)
InOrder(k) == \A i \in 1 .. Len(added) : Less(added[i].key, k)

BlockFull(t) == BlockLen(t.data_block) > BlockSize

\* (deliberately wrong, for the mutant of BelowPrevBlock: not checked)
BelowPrevBlock_Unchecked(t, k) == FALSE

\* the assertion at the head of add() fails: it looks at the last key of the
\* block before the one being filled, and takes an empty one for none
BelowPrevBlock(t, k) ==
    t.prev_block_last_key # <<>> /\ ~Less(t.prev_block_last_key, k)

\* TableBuilder::add
add(k, v) ==
    /\ pc = "open"
    /\ Len(added) < MaxAdds
    /\ \/ /\ BelowPrevBlock(tb, k)
          /\ pc' = "panic"
          /\ UNCHANGED <<tb, added>>
       \/ /\ ~BelowPrevBlock(tb, k)
          /\ IF ~BlockFull(tb) THEN AddPair(tb, k, v)
             ELSE IF WriteDataBlockPanics(tb, k)
                  THEN pc' = "panic" /\ DiesInWrite(tb, k) /\ UNCHANGED added
                  ELSE \E n \in Accepted(StoredLen(tb.data_block)) :
                           AddPair(WriteDataBlock(tb, n, k), k, v)
    /\ ordered' = (ordered /\ InOrder(k))
    /\ UNCHANGED result

\* add() returns an error: the block could not be written, and is lost
addFails(k) ==
    /\ pc = "open"
    /\ Len(added) < MaxAdds
    /\ ~BelowPrevBlock(tb, k)
    /\ BlockFull(tb)
    /\ ~SepPanics(tb.data_block.bb.last_key, k)
    /\ \E n \in {0, StoredLen(tb.data_block)} :
          tb' = [TornBlock(tb, n, tb.data_block.kvs) EXCEPT
                    !.prev_block_last_key = tb.data_block.bb.last_key,
                    !.data_block = NewBlock]
    /\ pc' = "broken"
    /\ ordered' = (ordered /\ InOrder(k))
    /\ UNCHANGED <<added, result>>

\* after that, data_block is None: add() and finish() fail their assertion
useBroken == pc = "broken" /\ pc' = "panic" /\ UNCHANGED <<tb, added, ordered, result>>

\* (deliberately wrong, for the mutant of Pending: off by one)
Pending_OffByOne(t) == Entries(t.data_block.bb) > 1

\* there is a data block left to write
Pending(t) == Entries(t.data_block.bb) > 0

\* TableBuilder::finish, write by write
finish ==
    /\ pc = "open"
    /\ IF Pending(tb)
       THEN LET past == find_short_succ(tb.data_block.bb.last_key)
            IN  IF WriteDataBlockPanics(tb, past)
                THEN pc' = "panic" /\ DiesInWrite(tb, past)
                ELSE /\ \E n \in Accepted(StoredLen(tb.data_block)) :
                            tb' = WriteDataBlock(tb, n, past)
                     /\ pc' = "filter"
       ELSE pc' = "filter" /\ UNCHANGED tb
    /\ UNCHANGED <<added, ordered, result>>

\* one of the blocks that finish() writes after the data
FinishStep(from, to, kind, ct, len, body) ==
    LET stored == Stored(ct, len)
    IN  /\ pc = from
        /\ \E n \in Accepted(stored) :
              tb' = [WriteBlock(tb, kind, n, ct, stored, body) EXCEPT
                        !.handles[kind] = HandleFor(tb, stored)]
        /\ pc' = to
        /\ UNCHANGED <<added, ordered, result>>

\* the filter block is never compressed
writeFilter ==
    LET r == FinishFilters(tb.filter_block)
    IN  FinishStep("filter", "metaindex", "filter", 0, FilterBlockLen(r), r)

\* the metaindex block's one entry names the filter block
writeMetaindex ==
    LET meta == AddTo(NewBlock, FilterName, H!encode_to(tb.handles["filter"]))
    IN  IF HandleTooLong(tb.handles["filter"])
        THEN pc = "metaindex" /\ pc' = "panic" /\ UNCHANGED <<tb, added, ordered, result>>
        ELSE FinishStep("metaindex", "index", "metaindex", ctype, BlockLen(meta), meta.kvs)

writeIndex ==
    FinishStep("index", "footer", "index", ctype, BlockLen(tb.index_block), tb.index_block.kvs)

\* (deliberately wrong, for the mutant of FooterSize: the footer is not counted)
FooterSize_Zero(n) == 0

\* what the footer adds to the size that finish() returns: the bytes taken
FooterSize(n) == n

\* the footer names the metaindex and the index block; flush() comes after it
writeFooter ==
    /\ pc = "footer"
    /\ \E n \in Accepted(FooterLen) :
          /\ tb' = [tb EXCEPT
                       !.dst = Append(@, Segment(tb, "footer", n, 0, FooterLen,
                                     H!EncodeFooter([meta_index |-> tb.handles["metaindex"],
                                                     index      |-> tb.handles["index"]]))),
                       !.written = @ + n,
                       !.offset = @ + FooterSize(n)]
          /\ \/ result' = tb.offset + FooterSize(n)
             \/ FlushFails /\ result' = -1
    /\ pc' = "finished"
    /\ UNCHANGED <<added, ordered>>

\* finish() returns an error: one of its writes was refused
finishFails ==
    /\ \/ pc = "open" /\ Pending(tb)
       \/ pc \in {"filter", "metaindex", "index", "footer"}
    /\ tb' = TornBlock(tb, 0, <<>>)
    /\ pc' = "failed"
    /\ UNCHANGED <<added, ordered, result>>

Finishing == finish \/ writeFilter \/ writeMetaindex \/ writeIndex \/ writeFooter

Next ==
    \/ \E k \in Keys, v \in Vals : add(k, v) \/ addFails(k)
    \/ useBroken
    \/ Finishing
    \/ finishFails

Spec == Init /\ [][Next]_vars

-----------------------------------------------------------------------------

\* the file has a segment of this kind
Has(kind) == \E i \in 1 .. Len(tb.dst) : tb.dst[i].kind = kind

\* the segment that a handle, or the two numbers of an index entry, point at
Resolves(kind, h) ==
    \E i \in 1 .. Len(tb.dst) :
        LET seg == tb.dst[i] IN seg.kind = kind /\ seg.at = h.offset /\ seg.len = h.size

\* BlockHandle::decode of an entry's value
HandleOf(e) == H!decode(e.val, 1)

\* What a reader of the finished file, or of what a crash left of it, follows
\* leads somewhere: each entry of the index to a whole data block, the
\* metaindex to the filter block, the footer to index and metaindex.
HandlesResolve ==
    /\ \A i \in 1 .. Len(tb.index_block.kvs) :
          Resolves("data", HandleOf(tb.index_block.kvs[i]))
    /\ \A i \in 1 .. Len(tb.dst) :
          /\ tb.dst[i].kind = "metaindex" => Resolves("filter", HandleOf(tb.dst[i].body[1]))
          /\ tb.dst[i].kind = "footer" =>
                LET f == H!DecodeFooter(tb.dst[i].body)
                IN  /\ ~H!DecodeFooterPanics(tb.dst[i].body)
                    /\ Resolves("metaindex", f.meta_index) /\ Resolves("index", f.index)

\* The index divides the keys of a caller who adds them in order: what a block
\* holds lies below its separator, what comes after it, in later blocks or in
\* the one being filled, lies above, and may equal the separator only where
\* nothing lies between the two blocks.  (A block without entries comes first
\* if BlockSize is below the size of such a block.)
IndexSeparates ==
    LET sep(i)  == tb.index_block.kvs[i].key
        body(i) == tb.dst[i].body
        Above(i, e) == \/ Less(sep(i), e.key)
                       \/ /\ sep(i) = e.key
                          /\ body(i) # <<>> => e.key = Append(Last(body(i)).key, 0)
    IN  ordered /\ pc = "open" =>
          \A i \in 1 .. Len(tb.index_block.kvs) :
              /\ \A m \in 1 .. Len(body(i)) : Less(body(i)[m].key, sep(i))
              /\ \A j \in i + 1 .. Len(tb.dst) :
                    \A m \in 1 .. Len(body(j)) : Above(i, body(j)[m])
              /\ \A m \in 1 .. Len(tb.data_block.kvs) : Above(i, tb.data_block.kvs[m])

\* The entries a reader finds by way of the index
ReadBack ==
    LET body(e) == (CHOOSE i \in 1 .. Len(tb.dst) :
                       tb.dst[i].kind = "data" /\ tb.dst[i].at = HandleOf(e).offset)
    IN  FlattenSeq([i \in 1 .. Len(tb.index_block.kvs) |->
                       tb.dst[body(tb.index_block.kvs[i])].body])

\* A footer, without which no file opens, is on a file only when all that
\* add() accepted is there, in the order it was added, and no write before it
\* had been refused: a crash or a failed write leaves no table that opens with
\* entries missing.
FooterMeansComplete ==
    Has("footer") => ReadBack = added /\ ~Has("torn")

\* some key of the range that the block at this place begins in is not empty
FilterMade(at) ==
    \E i \in 1 .. Len(tb.dst) :
        /\ tb.dst[i].kind = "data" /\ get_filter_index(tb.dst[i].at) = get_filter_index(at)
        /\ \E e \in ToSet(tb.dst[i].body) : e.key # <<>>

\* The filter block denies no key that a data block holds, and is never asked
\* outside its offsets: neither when several blocks share a filter nor when a
\* block spans several, with filters of length 0 in between.  Only for an empty
\* key with a range to itself there is no filter.
FilterAnswers ==
    \A i \in 1 .. Len(tb.dst) : tb.dst[i].kind = "filter" =>
        \A j \in 1 .. i - 1 : tb.dst[j].kind = "data" /\ FilterMade(tb.dst[j].at) =>
            /\ ~MatchPanics(tb.dst[i].body, tb.dst[j].at)
            /\ \A e \in ToSet(tb.dst[j].body) :
                  MustMatch(tb.dst[i].body, tb.dst[j].at, e.key)

\* A caller who adds keys in order meets no assertion, unless they go on after
\* a write had failed.
OrderedNeverPanics == ordered /\ pc = "panic" => Has("torn")

\* table_builder.rs:330, "The returned length should be the same as the data
\* size"
ResultIsFileSize == pc = "finished" /\ result # -1 => result = tb.written

\* What add() enforces of the order of the keys, whoever calls it: within a
\* block the keys ascend, and all but the block's first key lie above the last
\* key of the block before.  One key out of order at the start of a block is
\* all that gets through.
DisorderOnlyAtBlockStart ==
    LET before(i) == IF i = 1 THEN <<>> ELSE tb.dst[i - 1].body
        Ascends(i, kvs) ==
            \A j \in 2 .. Len(kvs) :
                /\ Less(kvs[j - 1].key, kvs[j].key)
                /\ before(i) # <<>> => Less(Last(before(i)).key, kvs[j].key)
    IN  /\ \A i \in 1 .. Len(tb.dst) :
              tb.dst[i].kind = "data" => Ascends(i, tb.dst[i].body)
        /\ pc = "open" => Ascends(Len(tb.dst) + 1, tb.data_block.kvs)

\* README, "The entries have to be added in sorted order", and the test
\* table_builder.rs:342, "Test two equal consecutive keys", which add() is to
\* refuse by a panic: what it accepts is in strictly ascending order.
AcceptsOnlySorted ==
    \A i, j \in 1 .. Len(added) : i < j => Less(added[i].key, added[j].key)
=============================================================================
