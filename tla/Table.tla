------------------------------- MODULE Table --------------------------------
(***************************************************************************)
(* Table and TableIterator (src/src/table_reader.rs) over a file that      *)
(* TableBuilder wrote, some of whose blocks may have been damaged since.   *)
(*                                                                         *)
(* The index block and the data blocks are read through BlockIters, taken  *)
(* here by what they implement (IterOps).  advance() calls itself once per *)
(* block it skips; every call is a step.  The other operations are one     *)
(* step each.  advance() and prev() return whether the iterator stands on  *)
(* an entry, which valid() denies for an entry with the empty key.         *)
(*                                                                         *)
(* read_block finds a block by its offset, in the cache (Cache) or in the  *)
(* file, and fails when the checksum does; the damage is there from the    *)
(* time the table is opened, so both agree.  A read that fails once and    *)
(* succeeds when it is tried again is not modelled here (BlockCache has    *)
(* it).  The filter block has no checksum that is looked at.               *)
(***************************************************************************)
EXTENDS TableBuilder, IterOps

CONSTANT PolicyNames    \* the names of the policies that the table is read with

\* the name of NoFilterPolicy, below that of BloomPolicy
NoFilterName == <<0>>

ASSUME PolicyAssumption ==
    PolicyNames \subseteq ByteString /\ (FilterLen = 0 <=> FilterName = NoFilterName)

VARIABLES opened,       \* what became of Table::new: "no", "yes", "error", "panic"
          table,        \* the Table that it made
          damaged,      \* places in the file of the blocks that were damaged
          ti,           \* the TableIterator
          call,         \* "advance" while advance() runs, "panic" after a panic
          start         \* the iterator when advance() was called

readerVars == <<opened, table, damaged, ti, call, start>>

NoTable == [meta_index |-> NoHandle, index_block |-> <<>>, blocks |-> <<>>, filters |-> <<>>]

\* index_block, the number of current_block (0 for None) and its iterator
NewTableIter == [index |-> ItNew, block |-> 0, iter |-> ItNew]

TableInit ==
    /\ Init
    /\ opened = "no" /\ table = NoTable /\ damaged = {}
    /\ ti = NewTableIter /\ call = "none" /\ start = NewTableIter

\* the place in the file of the segment that a handle points at
PlaceOf(h) == CHOOSE i \in 1 .. Len(tb.dst) : tb.dst[i].at = h.offset /\ tb.dst[i].len = h.size

\* the filter block that Table::read_filter_block finds for a policy, 0 if none:
\* the key found is not compared with the name sought
read_filter_block(metaix, name) ==
    LET x == ItSeek(metaix, ItNew, name)
    IN  IF x.on THEN PlaceOf(HandleOf(metaix[x.cur + 1])) ELSE 0

\* the Table that Table::new makes from the footer, with the handles of the
\* index decoded and the filter block that each policy would find
Opened ==
    LET footer == H!DecodeFooter(Last(tb.dst).body)
        index  == tb.dst[PlaceOf(footer.index)].body
        metaix == tb.dst[PlaceOf(footer.meta_index)].body
    IN  [meta_index  |-> footer.meta_index,
         index_block |-> index,
         blocks      |-> [i \in 1 .. Len(index) |->
                             [offset |-> HandleOf(index[i]).offset,
                              place  |-> PlaceOf(HandleOf(index[i]))]],
         filters     |-> [name \in PolicyNames |-> read_filter_block(metaix, name)]]

Index == table.index_block

\* the block of index entry i, and whether read_block returns it
Content(i) == tb.dst[table.blocks[i].place].body

Readable(i) == table.blocks[i].place \notin damaged

-----------------------------------------------------------------------------

Places(kinds) == {i \in 1 .. Len(tb.dst) : tb.dst[i].kind \in kinds}

\* any of the data blocks may be damaged, or one of the others
Damage == SUBSET Places({"data"}) \union {{i} : i \in Places({"filter", "metaindex", "index"})}

\* of a file that ends after its nth segment, or within the next one, the last
\* bytes are a footer
HasFooter(n) == n > 0 /\ tb.dst[n].kind = "footer" /\ ~H!DecodeFooterPanics(tb.dst[n].body)

\* how Table::new may end without a footer: Footer::decode asserts the magic
\* number; below the length of a footer the subtraction overflows, or the read
\* at the place it wraps to fails
NoFooterEnds(n) ==
    IF n = 0 \/ tb.dst[n].at + tb.dst[n].len < FooterLen THEN {"panic", "error"} ELSE {"panic"}

\* Table::new on the file or on the part of it that was kept: the index and the
\* metaindex are read with their checksums
New ==
    /\ opened = "no"
    /\ \E n \in 0 .. Len(tb.dst) :
          IF HasFooter(n)
          THEN \E d \in Damage :
                  /\ damaged' = d
                  /\ IF d \intersect Places({"metaindex", "index"}) # {}
                     THEN opened' = "error" /\ UNCHANGED table
                     ELSE opened' = "yes" /\ table' = Opened
          ELSE opened' \in NoFooterEnds(n) /\ UNCHANGED <<table, damaged>>
    /\ UNCHANGED <<vars, ti, call, start>>

\* a call on the iterator that is a single step
Does(x) ==
    /\ opened = "yes" /\ call = "none"
    /\ ti' = x
    /\ UNCHANGED <<vars, opened, table, damaged, call, start>>

\* TableIterator::reset
ResetTo(x) == [x EXCEPT !.index = ItReset(@), !.block = 0, !.iter = ItNew]

reset == Does(ResetTo(ti))

\* load_block on the entry the index stands on, when the block can be read
Loaded(x, iter) == [x EXCEPT !.block = x.index.cur + 1, !.iter = iter]

\* the current block has a next entry
MoreInBlock(x) == x.block # 0 /\ ItAdvance(Content(x.block), x.iter).on

\* TableIterator::advance is called ...
advance ==
    /\ opened = "yes" /\ call = "none"
    /\ call' = "advance" /\ start' = ti
    /\ UNCHANGED <<vars, opened, table, damaged, ti>>

\* (deliberately wrong, for the mutant of SkipTo: the new block is entered at
\* its first entry, which the call of advance() that follows leaves)
SkipTo_PastFirst(x) ==
    IF ~x.index.on THEN ResetTo(x)
    ELSE IF Readable(x.index.cur + 1)
         THEN Loaded(x, ItAdvance(Content(x.index.cur + 1), ItNew))
         ELSE [x EXCEPT !.block = 0, !.iter = ItNew]

\* (deliberately wrong, for the mutant of SkipTo: a block that cannot be read is
\* tried again)
SkipTo_Retries(x) ==
    IF ~x.index.on THEN ResetTo(x)
    ELSE IF Readable(x.index.cur + 1) THEN Loaded(x, ItNew)
         ELSE [x EXCEPT !.block = 0, !.iter = ItNew,
                        !.index = IF @.cur = 0 THEN ItReset(@) ELSE ItPrev(@)]

\* skip_to_next_entry and the match on its result, after index_block.next()
SkipTo(x) ==
    IF ~x.index.on THEN ResetTo(x)
    ELSE IF Readable(x.index.cur + 1) THEN Loaded(x, ItNew)
         ELSE [x EXCEPT !.block = 0, !.iter = ItNew]

\* there is no next block: advance() returns false
GivesUp(x) == ~x.index.on

\* ... and one of its calls of itself
advanceStep ==
    /\ call = "advance"
    /\ \/ /\ MoreInBlock(ti)
          /\ ti' = [ti EXCEPT !.iter = ItAdvance(Content(ti.block), @)]
          /\ call' = "none" /\ start' = NewTableIter
       \/ /\ ~MoreInBlock(ti)
          /\ LET x == [ti EXCEPT !.index = ItAdvance(Index, @)]
             IN  /\ ti' = SkipTo(x)
                 /\ IF GivesUp(x)
                    THEN call' = "none" /\ start' = NewTableIter
                    ELSE UNCHANGED <<call, start>>
    /\ UNCHANGED <<vars, opened, table, damaged>>

\* (deliberately wrong, for the mutant of SeekIn: the current block is kept)
SeekIn_KeepsBlock(x, to) ==
    IF x.index.on /\ Readable(x.index.cur + 1)
    THEN Loaded(x, ItSeek(Content(IF x.block = 0 THEN x.index.cur + 1 ELSE x.block), ItNew, to))
    ELSE ResetTo(x)

\* the part of seek() after the index was sought in: the separator found is at
\* or above the key, so that the comparison with it always succeeds
SeekIn(x, to) ==
    IF x.index.on /\ Readable(x.index.cur + 1)
    THEN Loaded(x, ItSeek(Content(x.index.cur + 1), ItNew, to))
    ELSE ResetTo(x)

\* TableIterator::seek
seek(to) == Does(SeekIn([ti EXCEPT !.index = ItSeek(Index, @, to)], to))

\* (deliberately wrong, for the mutant of BlockBefore: the block is entered at
\* its first entry)
BlockBefore_First(x) ==
    IF ~Readable(x.index.cur + 1) THEN ResetTo(x)
    ELSE Loaded(x, ItAdvance(Content(x.index.cur + 1), ItNew))

\* (deliberately wrong, for the mutant of BlockBefore: the index stays where it
\* was)
BlockBefore_IndexStays(x) ==
    IF ~Readable(x.index.cur + 1) THEN ResetTo(x)
    ELSE [Loaded(x, ItLast(Content(x.index.cur + 1))) EXCEPT !.index.cur = @ + 1]

\* the last entry of the block that the index has stepped back to
BlockBefore(x) ==
    IF ~Readable(x.index.cur + 1) THEN ResetTo(x)
    ELSE Loaded(x, ItLast(Content(x.index.cur + 1)))

\* prev() in the current block, and then in the index
PrevInBlock(x) == IF x.block = 0 THEN x ELSE [x EXCEPT !.iter = ItPrev(@)]

PrevInIndex(x) == [PrevInBlock(x) EXCEPT !.index = ItPrev(@)]

LeavesBlock(x) == x.block = 0 \/ ~PrevInBlock(x).iter.on

\* seek_to_last fails its assertion in the block before
PrevPanics(x) ==
    LET y == PrevInIndex(x)
    IN  /\ LeavesBlock(x) /\ y.index.on
        /\ Readable(y.index.cur + 1) /\ LastPanics(Content(y.index.cur + 1))

\* TableIterator::prev
prev ==
    /\ ~PrevPanics(ti)
    /\ Does(IF ~LeavesBlock(ti) THEN PrevInBlock(ti)
            ELSE IF PrevInIndex(ti).index.on THEN BlockBefore(PrevInIndex(ti))
            ELSE PrevInIndex(ti))

prevPanics ==
    /\ opened = "yes" /\ call = "none"
    /\ PrevPanics(ti)
    /\ call' = "panic"
    /\ UNCHANGED <<vars, opened, table, damaged, ti, start>>

-----------------------------------------------------------------------------

\* (deliberately wrong, for the mutant of RoutedTo: the entry before the one
\* sought, as if the index held first keys)
RoutedTo_Before(key) ==
    LET x == ItSeek(Index, ItNew, key)
    IN  IF x.on /\ Less(key, Index[x.cur + 1].key)
        THEN IF x.cur = 0 THEN 1 ELSE x.cur
        ELSE 0

\* the block that get() looks in, 0 if it returns None without looking
RoutedTo(key) ==
    LET x == ItSeek(Index, ItNew, key)
    IN  IF x.on /\ Less(key, Index[x.cur + 1].key) THEN x.cur + 1 ELSE 0

\* the filter that a policy finds is another policy's
Foreign(name) == table.filters[name] # 0 /\ name \notin {FilterName, NoFilterName}

\* the answers that the filter may give for block b; of a damaged or garbled
\* filter block nothing is known, the assertions on its offsets may fail, and
\* the filter block is not decompressed
FilterSays(name, b, key) ==
    LET at == table.blocks[b].offset
        f  == table.filters[name]
        r  == tb.dst[f].body
    IN  IF f = 0 THEN {"yes"}
        ELSE IF f \in damaged \/ tb.dst[f].ctype # 0 \/ Garbled(r) THEN {"yes", "no", "panic"}
        ELSE IF MatchPanics(r, at) THEN {"panic"}
        ELSE IF name = NoFilterName THEN {"yes"}
        ELSE IF Foreign(name) THEN {"yes", "no", "panic"}
        ELSE IF MustMatch(r, at, key) THEN {"yes"} ELSE {"yes", "no"}

\* looking a key up in block b
Lookup(b, key) ==
    LET x == ItSeek(Content(b), ItNew, key)
    IN  IF ~Readable(b) THEN <<"error">>
        ELSE IF ItValid(Content(b), x) /\ Content(b)[x.cur + 1].key = key THEN <<"some", Content(b)[x.cur + 1].val>>
        ELSE <<"none">>

\* Table::get: the results it may have, for a reader with this policy
get(name, key) ==
    LET b == RoutedTo(key)
    IN  IF b = 0 THEN {<<"none">>}
        ELSE {CASE f = "yes"   -> Lookup(b, key)
                [] f = "no"    -> <<"none">>
                [] f = "panic" -> <<"panic">> : f \in FilterSays(name, b, key)}

\* (deliberately wrong, for the mutant of approx_offset_of: beyond the last
\* block, the start of the file)
approx_offset_of_Zero(key) ==
    LET x == ItSeek(Index, ItNew, key)
    IN  IF x.on THEN table.blocks[x.cur + 1].offset ELSE 0

\* Table::approx_offset_of
approx_offset_of(key) ==
    LET x == ItSeek(Index, ItNew, key)
    IN  IF x.on THEN table.blocks[x.cur + 1].offset ELSE table.meta_index.offset

-----------------------------------------------------------------------------

\* the file is written; where its writer stops early it stays as it is
Write ==
    /\ opened = "no"
    /\ \/ \E k \in Keys, v \in Vals : InOrder(k) /\ add(k, v)
       \/ Finishing
    /\ UNCHANGED readerVars

TableNext ==
    \/ Write
    \/ New
    \/ advance
    \/ advanceStep
    \/ \E to \in Keys : seek(to)
    \/ prev \/ prevPanics
    \/ reset

tableVars == <<vars, readerVars>>

TableSpec == TableInit /\ [][TableNext]_tableVars

\* a call of advance() goes on until it returns
FairTableSpec == TableSpec /\ WF_tableVars(advanceStep)

-----------------------------------------------------------------------------

\* TableIterator::valid
Valid(x) == x.block # 0 /\ ItValid(Content(x.block), x.iter)

EntriesBefore(b) == Len(FlattenSeq([j \in 1 .. b - 1 |-> Content(j)]))

\* which of the table's entries the iterator stands on, 0 for none
Pos(x) == IF x.block # 0 /\ x.iter.on THEN EntriesBefore(x.block) + x.iter.cur + 1 ELSE 0

\* the block that the table's nth entry is in
BlockOf(n) ==
    CHOOSE b \in 1 .. Len(Index) :
        EntriesBefore(b) < n /\ n <= EntriesBefore(b) + Len(Content(b))

\* the first entry after n that is not lost, 0 if there is none
NextReadable(n) ==
    LET later == {m \in n + 1 .. Len(added) : Readable(BlockOf(m))}
    IN  IF later = {} THEN 0 ELSE Min(later)

\* the last entry before n that is not lost, 0 if there is none
LastReadable(n) ==
    LET earlier == {m \in 1 .. n - 1 : Readable(BlockOf(m))}
    IN  IF earlier = {} THEN 0 ELSE Max(earlier)

\* the first entry at or above a key, 0 if there is none
FirstFrom(to) ==
    LET found == {n \in 1 .. Len(added) : ~Less(added[n].key, to)}
    IN  IF found = {} THEN 0 ELSE Min(found)

\* the index stands on the block that is iterated over
InStep(x) ==
    x.block = 0 \/ (x.iter.on /\ x.index = [cur |-> x.block - 1, on |-> TRUE])

\* the first entry of a block whose key follows the one before it directly, so
\* that it is also the separator of the two blocks
IsSeparator(n) ==
    n > 1 /\ BlockOf(n - 1) # BlockOf(n) /\ added[n].key = Append(added[n - 1].key, 0)

\* the block of the nth entry begins with the empty key, and seek() scans from
\* there to find the entry
BehindEmpty(n) ==
    Content(BlockOf(n))[1].key = <<>> /\ n <= BlockRestartInterval + 1

\* the filter for block b was not made, for all its keys are empty
NoFilterMade(b) ==
    \A c \in 1 .. Len(Index) :
        get_filter_index(table.blocks[c].offset) = get_filter_index(table.blocks[b].offset) =>
            \A e \in ToSet(Content(c)) : e.key = <<>>

\* advance() goes to the next of the entries that add() accepted, over any
\* number of damaged blocks, or is invalid after the last: a scan returns every
\* readable entry once and in order.  It holds for iterators in step with
\* their index.
AdvanceIsNext ==
    [][call = "advance" /\ call' = "none" /\ InStep(start) =>
           Pos(ti') = NextReadable(Pos(start)) /\ InStep(ti')]_tableVars

\* prev() on an entry goes to the entry before, in the same block or at the end
\* of the previous one, and is invalid before the first entry.  Nothing is said
\* of an entry before that lies in a damaged block: see PrevSkipsDefective.
PrevIsPrevious ==
    [][prev /\ Pos(ti) # 0 /\ InStep(ti) =>
           LET n == Pos(ti) - 1
           IN  n = 0 \/ Readable(BlockOf(n)) => Pos(ti') = n]_tableVars

\* seek() finds the first entry at or above the key, or is invalid: past the
\* last entry, when the entry's block is damaged, when the entry is the first of
\* its block and the key lies in the gap before it (or is the separator), and
\* when an empty key stops the scan for it.
SeekSound ==
    [][\A to \in Keys : seek(to) =>
           LET n == FirstFrom(to)
           IN  \/ Pos(ti') = n /\ InStep(ti') /\ (n # 0 => Readable(BlockOf(n)))
               \/ /\ ~Valid(ti')
                  /\ n # 0 =>
                        \/ ~Readable(BlockOf(n)) \/ BehindEmpty(n)
                        \/ n > 1 /\ BlockOf(n - 1) # BlockOf(n)
                               /\ (added[n].key = to => IsSeparator(n))]_tableVars

\* The index and the current block get out of step in one way only: by a seek()
\* or a prev() that leaves the iterator invalid.
StepLostOnlyByFailure ==
    [][call' = "none" /\ InStep(ti) /\ ~InStep(ti') =>
           call = "none" /\ Pos(ti') = 0]_tableVars

\* the keys of the blocks before b lie below k, those of the blocks after b above
WouldBeIn(k, b) ==
    \A c \in 1 .. Len(Index) : \A e \in ToSet(Content(c)) :
        (c < b => Less(e.key, k)) /\ (c > b => Less(k, e.key))

\* get() never returns a value that was not added under the key, whatever the
\* reader's policy; it returns none for a key that was added only if the key is
\* its block's separator, is the empty key or behind it, or the filter block,
\* which has no checksum, is damaged or another policy's; it fails only on the
\* damaged block that the key would be in, and panics only on such a filter and
\* where the empty key has a filter to itself, which is not made.
GetExact ==
    opened = "yes" /\ ti = NewTableIter =>
        \A p \in PolicyNames, k \in Keys : \A r \in get(p, k) :
            LET n == FirstFrom(k)
                present == n # 0 /\ added[n].key = k
                misled == table.filters[p] \in damaged \/ Foreign(p)
            IN  CASE r[1] = "some"  -> present /\ added[n].val = r[2]
                  [] r[1] = "none"  -> present => IsSeparator(n) \/ BehindEmpty(n) \/ misled
                  [] r[1] = "error" -> \E b \in 1 .. Len(Index) : ~Readable(b) /\ WouldBeIn(k, b)
                  [] r[1] = "panic" -> misled \/ NoFilterMade(RoutedTo(k))

\* What opens is complete: of a file that a crash, a failed write or a truncation
\* left behind Table::new makes no table, and a table that it makes leads to all
\* that add() accepted.
OpensOnlyComplete ==
    opened = "yes" =>
        /\ pc = "finished"
        /\ FlattenSeq([i \in 1 .. Len(Index) |-> Content(i)]) = added

\* approx_offset_of() is where the block of a key in the table begins, and
\* never decreases from a key to a greater one, the end of the data included.
OffsetsExact ==
    opened = "yes" /\ ti = NewTableIter =>
        /\ \A n \in 1 .. Len(added) : ~IsSeparator(n) =>
              approx_offset_of(added[n].key) = table.blocks[BlockOf(n)].offset
        /\ \A k, l \in Keys : Less(k, l) => approx_offset_of(k) <= approx_offset_of(l)

\* advance() returns: its calls of itself, one for each damaged block, come to an
\* end.  (That the stack has room for them is not part of the model.)
AdvanceReturns == call = "advance" ~> call = "none"

-----------------------------------------------------------------------------

\* types.rs:74, "Seek the iterator to `key` or the next bigger key"
SeekFindsNextBigger ==
    [][\A to \in Keys : seek(to) /\ damaged = {} => Pos(ti') = FirstFrom(to)]_tableVars

\* src/README.md:28, "If there's data corruption in the files on disk, defective blocks
\* will be skipped": prev() goes to the last entry before that can be read.
PrevSkipsDefective ==
    [][prev /\ Pos(ti) # 0 /\ InStep(ti) => Pos(ti') = LastReadable(Pos(ti))]_tableVars

\* types.rs:66, "Advances the position of the iterator by one element"
AdvanceByOne ==
    [][call = "advance" /\ call' = "none" /\ damaged = {} /\ Pos(start) # 0 =>
           Pos(ti') = NextReadable(Pos(start))]_tableVars

\* table_reader.rs:641, "Test that all of the table's entries are reachable via
\* get()"
AllReachableByGet ==
    opened = "yes" /\ damaged = {} =>
        \A n \in 1 .. Len(added) : get(FilterName, added[n].key) = {<<"some", added[n].val>>}
=============================================================================
