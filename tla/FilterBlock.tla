---------------------------- MODULE FilterBlock -----------------------------
(***************************************************************************)
(* FilterBlockBuilder and FilterBlockReader (src/src/filter_block.rs) as   *)
(* operators on their records.                                             *)
(*                                                                         *)
(* There is one filter per FilterBase bytes of the file, for the keys of   *)
(* the data blocks that start in that range.  A filter is the set of keys  *)
(* it was made from and takes FilterLen bytes: what a policy guarantees is *)
(* only that a key of the set matches.  FilterLen = 0 is NoFilterPolicy.   *)
(* Indices and offsets are cut to u32 where the code casts them.           *)
(***************************************************************************)
EXTENDS Words

CONSTANTS FilterBase,   \* 2 to the power FILTER_BASE_LOG2
          FilterLen     \* bytes of a filter made by the policy

ASSUME FilterAssumption == FilterBase \in Nat \ {0} /\ FilterLen \in Nat

get_filter_index(offset) == AsU32(offset \div FilterBase)

\* filters holds each filter with the place it begins at; bytes is
\* filters.len() and keys are the keys added since the last filter
NewFilterBuilder == [filters |-> <<>>, bytes |-> 0, filter_offsets |-> <<>>, keys |-> {}]

add_key(fb, key) == [fb EXCEPT !.keys = @ \union {key}]

\* self.keys.is_empty(): no bytes have been added, though perhaps an empty key
NoKeyBytes(fb) == fb.keys \subseteq {<<>>}

\* generate_filter, and then n - 1 times again: only the first filter is not
\* empty
GenerateFilters(fb, n) ==
    LET made  == n > 0 /\ ~NoKeyBytes(fb)
        after == IF made THEN fb.bytes + FilterLen ELSE fb.bytes
    IN  [filters        |-> IF made THEN Append(fb.filters, [begin |-> fb.bytes, keys |-> fb.keys])
                            ELSE fb.filters,
         bytes          |-> after,
         filter_offsets |-> fb.filter_offsets \o
                                [i \in 1 .. n |-> IF i = 1 THEN fb.bytes ELSE after],
         keys           |-> IF made THEN {} ELSE fb.keys]

\* the number of filters so far, as start_block compares it
Count(fb) == AsU32(Len(fb.filter_offsets))

\* the assertion of start_block
StartBlockPanics(fb, offset) == get_filter_index(offset) < Count(fb)

\* (deliberately wrong, for the mutant of FiltersDue: the filter of the range
\* that is still being filled is closed too early)
FiltersDue_OneMore(fb, offset) == get_filter_index(offset) + 1 - Count(fb)

\* how often start_block calls generate_filter
FiltersDue(fb, offset) == get_filter_index(offset) - Count(fb)

start_block(fb, offset) == GenerateFilters(fb, FiltersDue(fb, offset))

\* FilterBlockBuilder::finish, as FilterBlockReader::new reads it back, and the
\* bytes that the filters really take
FinishFilters(fb) ==
    LET f == IF NoKeyBytes(fb) THEN fb ELSE GenerateFilters(fb, 1)
    IN  [filters        |-> f.filters,
         bytes          |-> f.bytes,
         offsets        |-> [i \in 1 .. Len(f.filter_offsets) |-> AsU32(f.filter_offsets[i])],
         offsets_offset |-> AsU32(f.bytes)]

\* the length of a finished filter block in bytes
FilterBlockLen(r) == r.bytes + 4 * Len(r.offsets) + 5

\* the reader looks for the offsets in the wrong place, and may find anything
Garbled(r) == r.offsets_offset # r.bytes

\* FilterBlockReader::offset_of: the word after the last offset is
\* offsets_offset, the one after that lies outside the block
HasOffset(r, i) == i <= Len(r.offsets)

offset_of(r, i) == IF i < Len(r.offsets) THEN r.offsets[i + 1] ELSE r.offsets_offset

\* key_may_match gives up and answers true: no filter for the block
NoFilterFor(r, blk_offset) == get_filter_index(blk_offset) > AsU32(Len(r.offsets))

\* key_may_match reads outside the block or fails its assertions, which it also
\* does when the index after its own wraps to 0, and may do when it is garbled
MatchPanics(r, blk_offset) ==
    LET ix == get_filter_index(blk_offset)
    IN  /\ ~NoFilterFor(r, blk_offset)
        /\ \/ Garbled(r)
           \/ AsU32(ix + 1) = 0
           \/ ~HasOffset(r, ix + 1)
           \/ offset_of(r, ix) >= offset_of(r, ix + 1)
           \/ offset_of(r, ix + 1) > r.offsets_offset

\* a key of the filter for blk_offset: key_may_match must answer true; for any
\* other key it may
MustMatch(r, blk_offset, key) ==
    \/ NoFilterFor(r, blk_offset)
    \/ \E i \in 1 .. Len(r.filters) :
          /\ r.filters[i].begin = offset_of(r, get_filter_index(blk_offset))
          /\ key \in r.filters[i].keys
=============================================================================
