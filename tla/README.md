# A verification project for `sstable`

`sstable` is a Rust crate that writes immutable, sorted string-to-string maps to
a file and reads them back. This directory models it in TLA+: modules translated
from the code, TLC configurations that check them on small instances, and proofs
that TLAPS checks. Paths are relative to the repository, which is mounted as
`src/`; `src/src/block.rs` is the crate's `block.rs`. `PROJECT.json` maps every
definition that models code to the lines it models.

## The system

| Part | State | Operations | What makes it correct |
|---|---|---|---|
| `DefaultCmp` (`cmp.rs`) | none | `cmp`, `find_shortest_sep`, `find_short_succ` | a separator lies between two blocks, a successor above the last key |
| `BlockBuilder` (`block_builder.rs`) | buffer, restart points, last key, restart counter | `add`, `size_estimate`, `finish` | the entries can be put together again from the compressed prefixes |
| `Block`, `BlockIter` (`block.rs`) | offset, offset of the current entry, restart index, assembled key, value offset | `advance`, `prev`, `seek`, `seek_to_last`, `reset`, `valid`, `current` | it behaves like an iterator over the list of entries, whatever the mixture of calls; every call returns |
| `FilterBlockBuilder/Reader` (`filter_block.rs`) | filters, offsets, pending keys | `add_key`, `start_block`, `finish`; `key_may_match` | no key that a block holds is denied; no read outside the offsets |
| `FilterPolicy` (`filter.rs`) | none | `create_filter`, `key_may_match` | no false negatives |
| `TableBuilder` (`table_builder.rs`) | offset, last key of the block before, the data, index and filter builders, the destination | `add`, `finish` | index, metaindex and footer lead to what is in the file; a file that opens is complete |
| `Table` (`table_reader.rs`, `table_block.rs`) | footer, index block, filters, cache id | `new`, `get`, `approx_offset_of`, `iter` | `get` returns what was added |
| `TableIterator` (`table_reader.rs`) | index iterator, current block's iterator | `advance`, `seek`, `prev`, `reset`, `valid` | a scan returns every entry that can be read, once and in order |
| `Cache`, `LRUList` (`cache.rs`) | a hash map, a doubly linked list with raw back pointers, a count, an id | `get`, `insert`, `remove`, `new_cache_id` | list and map agree, no pointer dangles, evictions are least recently used first |
| `BlockHandle`, `Footer` (`blockhandle.rs`, `table_builder.rs`) | none | encode, decode | what is read is what was written, at every size |
| checksums, compression (`table_block.rs`, `types.rs`) | none | `mask_crc`, `unmask_crc`, compression type | a block is read as it was written, or not at all |
| the shared cache (`Options::block_cache`, `table_reader.rs`) | a lock, poisoned or not; the cache id of each table | `read_block`, the end of `Table::new` | every call gets its own table's block, and returns |
| errors, `RandomAccess` | none | | |

A `TableBuilder` calls one `BlockBuilder` at a time for data, one for the index
and a `FilterBlockBuilder`, and writes to the caller's `Write`. A `Table` reads
blocks through `read_block`, which takes the write lock of the cache shared by
all tables with the same `Options`, looks the block up, reads it from the file
if it is not there, and inserts it, all under that lock. Iterators are used by
one thread each.

What is hard to test in this code is little concurrency and much hidden state:
iterators keep several offsets that have to fit together after any mixture of
calls, and two iterators (index and block) that have to stay in step when blocks
cannot be read; separators have to fit between adjacent keys; a write may fail
or a process die between any two writes; the list of the cache lives on raw
pointers. `PROJECT.json` lists these hazards with the lines where they bite and
the properties that would notice.

## The modules

```
Cmp ── BlockBuilder ── BlockIter ─(implements)─ EntryIter ── IterOps
          │                                                    │
          ├── TableBuilder ── FilterBlock ── Words             │
          │        │  └────── BlockHandle                      │
          │        └──────────── Table ────────────────────────┤
          └────────────────────────────────────────────────────┘
Bloom ── Words
BlockCache ── Cache ─(implements)─ LRU
proofs: BytesProofs (of Cmp, varints) ── FormatsProofs (of MCFormats)
             └── BlockBuilderProofs ── BlockIterProofs
                        └── TableBuilderProofs (and FilterBlock)
                                 └── TableProofs ── ReaderProofs
        CacheProofs (of Cache and BlockCache)
```

* **Cmp**: the order and the two key-shortening functions as operators. Bytes
  are `0..MaxByte`; the code has 255. `MCCmp` grows two strings byte by byte and
  so reaches every pair up to `MaxLen`; `MCFormats` extends it and checks the
  pure functions of the file format on each pair.
* **BlockBuilder**: operators on the builder's record. The buffer is the sequence
  of its entries (shared prefix length, suffix, value), so offsets are entry
  numbers; the length in bytes, which decides where blocks end, is kept beside
  it, with one byte per varint (lengths below 128). Restart points are entry
  numbers and are not cut to 32 bits as the code's offsets are: blocks below 4 GiB.
* **BlockIter**: builds a block with `AddKey`, closes it with `FinishBlock`, and
  moves an iterator over it. The iterator has the code's five fields. The loops
  of `prev` (`WalkBack`, `PrevStep`), `seek` (`SearchStep`, `ScanStep`) and
  `seek_to_last` (`LastStep`) take one iteration per step, the other calls one
  step. `pc = "panic"` stands for a failed assertion.
* **IterOps**, **EntryIter**: what an `SSIterator` over a list of entries does,
  as operators on a position and as a specification. An iterator that is off
  remembers its position for `prev` but not for `advance`: that is what
  `BlockIter` implements, since `reset` leaves `current_entry_offset` alone. On
  an entry with the empty key, which can only be a block's first, an iterator
  stands without being valid; a `seek` that scans from there stops on it
  (`StopsAtEmpty`), a `seek_to_last` whose restart point it is fails an assertion
  (`LastPanics`). The restart interval is taken to be at least 1.
* **FilterBlock**: builder and reader as operators, with the arithmetic of ranges
  and offsets. A filter is the set of the keys it was made of: a key of the set
  must match, any other may. `FilterLen = 0` is `NoFilterPolicy`; a Bloom filter
  with the default of ten bits per key takes nine bytes for up to six keys, and
  `FilterLen = 9` in the runs, whose tables have five. Indices, offsets and
  `offsets_offset` are cut to `u32` where the code cuts them (`AsU32`); a reader
  whose `offsets_offset` was cut looks in the wrong place and may find anything
  (`Garbled`).
* **Words**, **Bloom**: `u32` arithmetic on four bytes, the masking of checksums,
  and `BloomPolicy`: the hash, the number of probes, the walk over the
  concatenated keys, the filter as the set of its bits with its length and `k`.
  `MCFormats` asserts the vectors of the tests in `filter.rs` of it. The number
  of bits wraps around at 2^32, as in a release build.
* **BlockHandle**: varints (a library, modelled by what it does), handles and the
  footer as bytes, with the padding and the magic number, and where encoding and
  decoding panic. The base of the varints, their greatest length and that of the
  footer are constants: 128, 10 and 40 in TableBuilder; 4, 3 and 12 in
  `MCFormats`, so that every number occurs.
* **TableBuilder**: `add` with its block change, and `finish` write by write
  (`finish`, `writeFilter`, `writeMetaindex`, `writeIndex`, `writeFooter`). Any
  write may be refused (`addFails`, `finishFails`); after a refused data block
  the builder is unusable (`useBroken`). If `ShortWrites`, a write may take part
  of the data and report success; if `FlushFails`, `finish` may return the error
  of the `flush` after its last write (`result = -1`). A handle that does not fit
  into 16 bytes (`HandleTooLong`) is a panic. The file is the sequence of segments written,
  each with the place it really begins at. Values of the index and the metaindex
  and the footer are encoded by BlockHandle. If `Compressed`, all blocks but the
  filter block are stored with Snappy, of which only the length is modelled. Keys
  come in any order; the history variable `ordered` says whether the caller kept
  to ascending order.
* **Table**: extends TableBuilder. `Write` builds a file, `New` opens it at any
  time, complete or not, whole or cut off after any segment, with any set of data
  blocks damaged, or one of the filter, metaindex and index blocks. `table` is
  what it made of the file: the index with its handles decoded, and the filter
  block that each policy in `PolicyNames` would find in the metaindex by its name. A damaged block is one whose checksum
  fails; the filter block's is never looked at, so a damaged one answers
  anything. `advance` is a loop of `advanceStep`, one per call of itself; `seek`,
  `prev` and `reset` are single steps. `get` and `approx_offset_of` change
  nothing and are operators; `get` is the set of results that the filter allows
  for a reader's policy.
* **Cache**: the list pointer by pointer, in the order of the code's assignments
  and swaps, and the map. `clock` and `stamp` record when a node was last put to
  the front. `Spec` is the cache as `read_block` uses it: a key is inserted only
  after a `get` under the same lock has missed it, and nothing is removed.
  `RemoveSpec` adds `remove`. **LRU** is the abstract cache.
* **BlockCache**: extends Cache with threads, tables and the lock. `Table::new`
  is `open` and, under the lock, `openId`; `read_block` is a call that waits for
  the lock, then a `hit`, or a `miss` that keeps the lock while the block is read
  and ends in `fill`, `readError` or `readPanics`. A panic poisons the lock;
  after that every call that needs it is a `lockError`. A cached element is known
  by the table and the offset it was read from.

Every definition named `X_Something` that is marked "deliberately wrong" is a
plausible bug of `X`; replacing `X` by it must break the property `PROJECT.json`
pairs it with.

## The runs

Runs that pass:

| Run | Bounds | Shows |
|---|---|---|
| `MCFormats` | 4 byte values, keys up to 3 bytes, filters of 10 and 30 bits per key, varints of up to 3 digits to the base 4 | `TotalOrder`; `Separates`: the separator of two blocks, and the assertion inside `find_shortest_sep`; `Succeeds`: the successor is the shortest key above, with all bytes at the maximum too; `NoFalseNegatives` of Bloom filters; `FooterRoundTrip`, `MaskRoundTrip` |
| `MCBlockIter` | blocks of up to 5 of 6 keys, the empty key among them, restart interval 2, two values | `CurrentIsEntry`, `OnlyCallerPanics`, `CallReturns`, `ImplementsEntryIter` |
| `MCTableBuilder` | up to 5 entries in any order, the empty key among them, blocks of one or two entries, filters of 16 bytes of file | `HandlesResolve`, `IndexSeparates`, `FooterMeansComplete`, `FilterAnswers`, `OrderedNeverPanics`, `ResultIsFileSize`, `DisorderOnlyAtBlockStart` |
| `MCTable` | up to 5 entries in up to 3 compressed data blocks, every set of them damaged; four reader's policies | `OpensOnlyComplete`, `GetExact`, `OffsetsExact`, `AdvanceIsNext`, `PrevIsPrevious`, `SeekSound`, `StepLostOnlyByFailure`, `AdvanceReturns` |
| `MCBlockCache` | 2 threads, 2 tables of 2 blocks, capacity 3, 5 calls of `read_block` | of the cache: `NeverPanics`, `ListOK`, `MapListAgree`, `ImplementsLRU`; of the threads: `ReadsRight`, `MissStaysMiss`, `PoisonIsFinal`, `CallEnds` |

The bounds are chosen so that the cases that differ occur: keys that are
prefixes of each other, that differ by one, and that leave room for a separator;
an entry that starts a restart group, ends one and lies within; a first, a last
and a middle block; blocks that share a filter and blocks that span several;
a list with a first, a last and a middle node, each of which is hit, and
evictions from it when it is full; a thread that waits while another reads, and
one more block than the cache holds; a reader's policy that is the writer's, is
`NoFilterPolicy`, and whose name comes before or after the writer's.
Of each property the comment beside it says what it excepts. `OnlyCallerPanics`
excepts two mistakes of a caller: an `add` of a key that is not above the last, and
`seek_to_last` on a block without entries or with one restart point, at the empty
key. The assertion on the restart counter is not excepted. `PrevIsPrevious` says
nothing of an entry before that lies in a damaged block; `MCTablePrev` does.
`GetExact` allows an error only if a damaged block is the one the key would be in:
all keys of the blocks before it are below, of those after it above
(`WouldBeIn`). `ResultIsFileSize` is about a `finish` that returns a size.
`AdvanceReturns` says that the calls of `advance` by itself end, not how deep the
stack gets.
The bounds `MaxEntries`, `MaxAdds`, `MaxLen`, `MaxUses`, `MaxIds`, `MaxCalls` only
limit how long the behaviours are.

Runs that are violated, each by something the code does that a comment, a test or
the README says it does not:

| Run | What happens |
|---|---|
| `MCTableBuilderDisorder` | the first key of a block may be equal to or below the last key of the block before: at a block boundary `add` compares with the wrong key |
| `MCTableBuilderShortWrite` | `write_block` uses `Write::write` and ignores how much was written; sizes and handles no longer fit the file |
| `MCTablePrev` | `prev` does not skip a damaged block: it resets the iterator, though entries before that block can be read (`src/README.md:28`) |
| `MCTableSeek` | a key between the last key of a block and the block's separator is not found by `seek`, though a bigger key follows in the next block |
| `MCTableAdvance` | after `prev` has moved past the first entry, a forward scan goes through the first block twice |
| `MCTableGet` | a block's first key that equals the last key of the block before plus a zero byte is the separator itself, and `get` returns `None` for it |
| `MCCacheRemove` | after `Cache::remove` a later insertion panics |

What else the code does differently from what is said of it, visible in the
definitions and in the conditions of the properties that hold: `prev` after `reset`, or
after the end of a scan, goes to an entry (`ItPrev`; `types.rs:77`); an entry
with the empty key is not `valid` (`valid`; `types.rs:79`), `seek` and `get` do
not find the keys behind it in its restart interval (`BehindEmpty` in `SeekSound`
and `GetExact`), `prev` into a block that begins with it panics (`prevPanics`),
and `get` panics where it has a filter range to itself (`NoFilterMade`); a policy
whose name comes before the writer's reads the writer's filter (`Foreign`);
a filter block of `NoFilterPolicy` cannot be asked, since its filters are empty and
`key_may_match` asserts `filter_begin < filter_end`, though two consecutive offsets
"may be the same" (`filter_block.rs:23`): `get` panics for every key that the index
sends to a block, and with `FilterLen = 0` TLC finds `FilterAnswers` violated;
`add` refuses equal keys, which its comment allows (`table_builder.rs:151`);
`find_shortest_sep`
does not return the shortest separator where bytes differ by one (`cmp.rs:9`);
`Cache::insert` of a key that is already cached leaves two nodes for one entry
(`Cache!Next` does not do it, as `read_block` does not).

**Fairness.** `FairSpec` of BlockIter and `FairTableSpec` assume weak fairness of
the steps of a call that is under way, nothing else: these are the iterations of
a loop (or calls of a function by itself) of one thread that waits for nothing.
`FairBlockCacheSpec` assumes weak fairness of each thread's steps inside a call:
the scheduler runs a thread that can run, and a read of a file returns, fails or
panics. Nothing is assumed of the order in which the lock is given, so that a
thread could wait for as long as others keep coming; `CallEnds` holds since the
others' calls are finitely many (`MaxCalls`). No caller is assumed to make any call. Deadlock is not checked in
any run since all of these are libraries: a caller may stop calling, a file that
was not finished stays so, and the bounds end the behaviours.

## What is proved

`CacheProofs` proves of `Cache!Spec`, for any sets of keys, elements and
addresses and any positive capacity:

* `CacheInvariant`: `IInv == TypeOK /\ NeverPanics /\ ListOK /\ MapListAgree` is
  an invariant;
* `ListAndMap`, `CacheNeverPanics`: its parts;
* `CacheImplementsLRU`: the pointer-level cache implements LRU, by the refinement
  mapping that reads a key's last use off the stamp of its node.

Assumed are only that the capacity is positive (asserted by `Cache::new`), that
the head is not the address of a node, and that `None` is no node, key or
element.

The argument: `Chain` says that `next` and `prev` are inverse on the allocated
nodes, that `head.prev` is the one node without successor, and that stamps
decrease along the list. No induction over the list is needed to say that it is
one list: a cycle off the head would have no node with the greatest stamp, and
`LastIsOldest` takes the oldest node and shows that it is the last. The
stamps are what makes `Chain` inductive, and the same fact is what makes an
eviction an eviction of LRU. `ReinsertFrontHeap` computes what the three swaps
of `reinsert_front` amount to; `ReinsertFrontChain`, `ListInsertChain` and
`RemoveLastChain` show that each list operation keeps the chain; `Agree` relates
map and list, and `EvictAgrees` and `PutFirstInv` keep it through an insertion.

Of `BlockCacheSpec` it proves, for any number of threads, tables
and blocks:

* `ThreadsUseCache`: the threads' steps are steps of `Cache!Spec`, so that
  `SharedCacheIsSound` and `SharedCacheIsLRU` follow from the theorems above;
* `HitsAreRight`, `MissesStay`, `PoisonStays`, `BlockCacheTypes`: the properties
  `ReadsRight`, `MissStaysMiss`, `PoisonIsFinal` and `BlockCacheTypeOK`.

Assumed are that a cache key is an id and an offset, that an element is known by
the table and the offset it was read from, that `None` is no table and that the
bounds are natural numbers. The argument is one of assumption and guarantee: the
cache is sound if no cached key is inserted, and no cached key is inserted since
the lock is kept from the miss to the insertion. The two sides hold each other
up, so one invariant, `BInv`, carries both: `IInv` of the cache, that the thread
that reads is the only one inside the lock (`OneReader`), that tables have ids of
their own (`IdsDiffer`), that no key of the cache has an id that was not given
yet (`CachedIdsGiven`, without which a new table could hit on a block inserted
before it was opened), that a thread inside `Table::new` is the only one that
knows its table (`CallsMakeSense`), and the two properties themselves.

`BytesProofs` holds the lemmas about byte strings, and `FormatsProofs` states what
they give for the properties of `MCFormats`, for strings of any length:

* `OrderIsTotal`, `SeparatorsSeparate`, `SuccessorsSucceed`, over any alphabet of
  more than one byte value. Two keys have exactly one first difference
  (`SharedLenStops`, `FirstDifferenceUnique`), the order is decided there
  (`LessAtDifference`), hence it is total; `AppendAbove` and `BumpAbove` say what
  the two ways to make a longer or bigger key do, and the separator and the
  successor are one or the other.
* `ChecksumsSurviveMasking`, for `MaxByte <= 255`, since words have bytes of
  eight bits: rotating by 15 and by 17 is the identity, and the subtraction
  wraps around where the addition did.
* `FiltersDenyNoKey`, for any numbers of bits per key that are naturals: the
  pieces that `create_filter` cuts out of the concatenated keys are the keys, and
  the probes of reader and writer are the same.
* `FootersAreRead`, for any base, provided that four of the longest varints fit
  into a footer (`4 * VarMaxLen <= FooterLength`; the code has 10 and 40, and a
  shorter footer would fail the assertion of `Footer::encode`).

The varints are recursive functions. That such a function is what its definition
says, and that a varint is read as it was written, is shown without induction:
from a first number where it fails, which has a predecessor where it does not
(`LeastElement`).

`BlockIterProofs` proves of `BlockIter!Spec`, for blocks of any number of entries, any keys and
values and any positive restart interval, `TypesHold`, `CurrentIsAlwaysEntry`,
`OnlyCallersPanic` and the refinement `BlockIterRefines`. With an interval of 0,
which `Options` does not exclude, `BlockBuilder::add` fails its assertion at the
second entry. `BlockBuilderProofs` shows what the builder's record holds
(`Holds`: each entry is compressed against the key before it, the restart points
ascend from 0 and share nothing). `Inv` says for each place of a running call how
far it has come (`PlaceHolds`): `prev` is before the entry it started from; the
binary search of `seek` keeps its target between the restart points `left` and
`right + 1` (`SearchHolds`); the scan of `seek` has the key of the entry before its
offset assembled and has passed only entries below the target (`ScanHolds`). Each
step then keeps `Inv` and is a step of EntryIter, the one in which a call
returns, or none.

`TableBuilderProofs` proves of `TableBuilder!Spec`, for tables of any number of
blocks over any keys, with any write refused:

* `InvHolds`, and from it `OrderedCallersNeverPanic`, `IndexAlwaysSeparates`,
  `OnlyBlockStartsDisordered`: with or without short writes. `Inv` carries the
  order from block to block: keys ascend within every block, and after the last
  key of the block before except for a block's first (`Follows`);
  `prev_block_last_key` is that last key; and while the caller keeps the order
  every separator divides its block from the later ones and from the block being
  filled (`Sorted`).
  `OrderedCallersNeverPanic` holds as long as the file is short enough for the
  code's number types (`SmallFile`): the index of a filter fits into `u32`, up to
  almost 2^43 bytes of file with `FILTER_BASE_LOG2` = 11, and a handle into 16 bytes,
  which `HandleFits` shows for offsets and sizes below 2^50.
* `ResultIsAlwaysFileSize`, where writes take all of their data
  (`~ShortWrites`); the run `MCTableBuilderShortWrite` shows that it fails
  otherwise.
* `FiltersAlwaysAnswer`, for `~ShortWrites` and filters that are not empty
  (`FilterLen > 0`, see `NoFilterPolicy` above) and have offsets and indices that fit into `u32` (`SmallFilters`: 4 GiB of
  filters). `FilterInv` says that the keys of every written data block are in the
  filter of the range of the file in which it begins, or among those that wait
  for the filter of the range being filled (`Covered`), and that the filter of a
  range with keys is not empty.

`TableProofs` proves, for `~ShortWrites` and a positive restart interval, about the
file and what reads it:

* `FileInvHolds`: `FileInv` says that the segments lie one after another at
  ascending places, that the i-th entry of the index has the handle of the i-th
  data block, that the metaindex has the filter block's, that the entries of the
  written blocks followed by those of the block being filled are what was added,
  and that there is a footer only in a finished file, as its last segment.
* `HandlesAlwaysResolve`, `FooterAlwaysMeansComplete`: the properties
  `HandlesResolve` and `FooterMeansComplete`, as long as the file is not longer
  than `usize::MAX`, which no file is: handles are `usize` in the code, and
  `TenBytes` shows that up to there a varint takes no more than its ten bytes.
* `OnlyCompleteOpens`: the same of every table that `Table::new` makes, of a
  file that was cut off anywhere and damaged. No shorter file ends in a footer,
  so the table was made of the finished one.
* `StepOnlyLostByFailure`: `StepLostOnlyByFailure` of TableIterator. `ReaderInv`
  gives the types of the two iterators; only a finished file has an open table
  (`OnlyCompleteOpens`), so the index does not change under them.

`ReaderProofs` proves what a reader finds in a table of any number of blocks, any
of them damaged: `GetAlwaysExact`, `OffsetsAlwaysExact`, `SeekAlwaysSound`,
`PrevIsAlwaysPrevious` and `AdvanceIsAlwaysNext`, that is the properties `GetExact`,
`OffsetsExact`, `SeekSound`, `PrevIsPrevious` and `AdvanceIsNext`. The argument has
four parts:

* `OrderInv`, beside `Inv` and `FileInv`, for the caller of `Table!Write`, who keeps
  the order: no block is empty and every separator divides its block from all later
  ones (`Divides`); the filter block is stored without compression and the metaindex
  has one entry (`Plain`).
* `OpenInv`: the table that `Table::new` made stays `Faithful` to the file: its i-th
  block is the i-th segment, its metaindex is the file's, and the filter of a policy
  is the filter block or none.
* `Laid` says the same in the terms of the properties: the entries of block `b` are
  those of `added` after the first `EntriesBefore(b)`, every entry is in one block,
  and separators divide. `EntriesBefore` is a fold over the blocks before;
  `JoinedSeqs`, `JoinedPrefix` and `JoinedEntries` unfold it block by block.
  `TableIsLaid` gets it from the three invariants, and the rest needs only this:
  `SeekFinds` says which block a seek in the index leads to, `BlockFinds` what a seek
  in that block finds, `RoutedIs`, `LookupIs` and `FilterReasons` what `get` makes of
  them.
* `IterInv`, for `prev` and `advance`: an iterator is `Inside` the table (both
  positions within what they go over, the current block one that can be read), an
  iterator without a block has an index that is off between calls, so that
  `advance` starts with the first block, and while `advance` runs it is
  `Searching`: it has not moved, or has passed the end of the block it began in and
  only blocks that cannot be read. Without the second part, `advance` after a failed
  call would skip blocks; without the third nothing relates the last call of
  `advance` by itself to the first.

Assumed are `~ShortWrites`, a positive restart interval, a file no longer than
`usize::MAX`, for `get` filters that are not empty (`FilterLen > 0`)
and fit into `u32` (`SmallFilters`), and `BlockSize >= 8`. The last is needed: below the eight
bytes of an empty block the first `add` closes one, the separator after no entry may
be the first key itself, and `get` and `seek` do not find it. TLC
finds `GetExact`, `OffsetsExact` and `SeekSound` violated with `BlockSize = 7`.
`Options` excludes no `block_size`; its default is 4096.

`PrevIsAlwaysPrevious` has the exception of `PrevIsPrevious`: an entry before in a
damaged block.

So every safety property of a run that passes is also stated by a theorem, under the
assumptions above. Out of the prover's reach and left to TLC are the liveness properties `CallReturns`,
`AdvanceReturns` and `CallEnds`, and the value of recursive computations such as the
hash of a Bloom filter (the proof about filters needs only that both sides compute
the same one).

## What is not modelled

* The CRC, Snappy and varints are library code: a block is damaged or it is not,
  compression adds to the length and is undone, varints are modelled by what they
  do. The runs have numbers below 2^31, the proofs all up to `usize::MAX`.
* Blocks of 4 GiB and more, whose restart offsets (`block_builder.rs:67`) would be
  cut to `u32`. The other cuts are in the model (`AsU32`, `HandleTooLong`), but far
  beyond the runs: what is known of them are the theorems with `SmallFile` and
  `SmallFilters`.
* Errors that come and go: in Table a block is damaged from the opening on, or not at
  all. A read that fails once, and not the next time, is in BlockCache (`readError`).
* The depth of the stack: `advance` calls itself once per damaged block, so that very
  many of them in a row could overflow it.
* A footer that is damaged but has its magic number; it has no checksum, and its
  handles may lead anywhere. A value that contains a whole table, so that a file
  cut off after it ends in a footer.
* `Table::new_from_file`, `seek_to_first`, `next` and the adaptors of the
  iterators are sequences of operations that are modelled; `entries` and
  `size_estimate` of TableBuilder only read.
* No run has a `block_size` below the eight bytes of an empty block, where a table
  gets an empty first block; the proofs about the writer and the file cover it
  (`Started`), those of ReaderProofs exclude it, and `OnlyCallerPanics` says what
  `seek_to_last` does to such a block.
* I/O of `RandomAccess`, error values, test support, examples and benchmarks.

## Plan

1. Done: Cmp, BlockBuilder, BlockIter with its abstract iterator, FilterBlock,
   TableBuilder, Table, Cache with LRU, the threads on the shared cache, the
   formats of handles, footer, checksum and Bloom filter, the empty key, filters
   of other policies, compression, files that were cut off.
2. Done: proofs about the formats, BlockIter with its refinement, TableBuilder,
   the file and its handles, Table::new, and that TableIterator's two iterators
   stay in step.
3. Done: proofs for tables of any number of blocks of what `get`, `approx_offset_of` and
   TableIterator find.
