------------------------------ MODULE IterOps -------------------------------
(***************************************************************************)
(* The operations of an SSIterator (src/src/types.rs) over a sorted        *)
(* sequence of entries, as operators on a position `cur` (0-based) and     *)
(* whether the iterator stands on it.  BlockIter is shown to implement     *)
(* them; the iterator of a table is built on them.                         *)
(*                                                                         *)
(* An iterator that is off has forgotten where it was for advance(), which *)
(* starts over, but not for prev(), which steps back from the last         *)
(* position: BlockIter::reset() leaves current_entry_offset alone.         *)
(*                                                                         *)
(* On an entry whose key is empty, as a first key may be, the iterator     *)
(* stands but is not valid: valid() takes an empty key for no entry.       *)
(***************************************************************************)
EXTENDS BlockBuilder

IterType == [cur : Nat, on : BOOLEAN]

ItNew == [cur |-> 0, on |-> FALSE]

\* valid(), and current() returns an entry
ItValid(content, x) == x.on /\ content[x.cur + 1].key # <<>>

ItReset(x) == [cur |-> x.cur, on |-> FALSE]

ItAdvance(content, x) ==
    LET next == IF x.on THEN x.cur + 1 ELSE 0
    IN  IF next < Len(content) THEN [cur |-> next, on |-> TRUE] ELSE ItReset(x)

ItPrev(x) == IF x.cur = 0 THEN ItReset(x) ELSE [cur |-> x.cur - 1, on |-> TRUE]

\* the positions whose keys are at or above `to`
AtOrAbove(content, to) == {i \in 0 .. Len(content) - 1 : ~Less(content[i + 1].key, to)}

\* seek() scans from the first entry, and that has an empty key: next() returns
\* None there, which ends the scan
StopsAtEmpty(content, to) ==
    /\ content # <<>> /\ content[1].key = <<>>
    /\ \/ Len(content) <= BlockRestartInterval
       \/ ~Less(content[BlockRestartInterval + 1].key, to)

\* the first entry at or above `to`, or none and the last entry remembered
ItSeek(content, x, to) ==
    IF StopsAtEmpty(content, to) THEN [cur |-> 0, on |-> TRUE]
    ELSE IF AtOrAbove(content, to) # {}
    THEN [cur |-> Min(AtOrAbove(content, to)), on |-> TRUE]
    ELSE [cur |-> IF content = <<>> THEN x.cur ELSE Len(content) - 1, on |-> FALSE]

\* the assertion that the entry at the last restart point is valid fails
LastPanics(content) ==
    content = <<>> \/ (content[1].key = <<>> /\ Len(content) <= BlockRestartInterval)

ItLast(content) == [cur |-> Len(content) - 1, on |-> TRUE]
=============================================================================
