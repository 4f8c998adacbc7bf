-------------------------------- MODULE Cmp --------------------------------
(***************************************************************************)
(* DefaultCmp (src/src/cmp.rs): the bytewise order on keys and the two     *)
(* operators that shorten the keys of the index block.                     *)
(*                                                                         *)
(* Bytes are 0..MaxByte; the code has MaxByte = 255, the runs take a       *)
(* smaller alphabet.  Sequences are 1-based here, slices 0-based there.    *)
(***************************************************************************)
EXTENDS Integers, Sequences, FiniteSetsExt

CONSTANT MaxByte        \* the largest byte, 0xff in the code

ASSUME MaxByteAssumption == MaxByte \in Nat \ {0}

Byte == 0 .. MaxByte

ByteString == Seq(Byte)

\* the length both strings reach: `min` in the code
Shorter(a, b) == IF Len(a) < Len(b) THEN Len(a) ELSE Len(b)

\* the first n bytes of a and b are the same
Agree(a, b, n) == \A i \in 1 .. n : a[i] = b[i]

\* where the loop `while i < min && a[i] == b[i] { i += 1 }` stops
SharedLen(a, b) ==
    CHOOSE n \in 0 .. Shorter(a, b) :
        /\ Agree(a, b, n)
        /\ n < Shorter(a, b) => a[n + 1] # b[n + 1]

\* (deliberately wrong, for the mutant of Less: not the first difference but
\* any decides)
Less_AnyByte(a, b) ==
    \/ Agree(a, b, Shorter(a, b)) /\ Len(a) < Len(b)
    \/ \E i \in 1 .. Shorter(a, b) : a[i] < b[i]

\* cmp(a, b) == Ordering::Less: a is a proper prefix of b, or smaller at the
\* first byte where they differ
Less(a, b) ==
    \E n \in 0 .. Shorter(a, b) :
        /\ Agree(a, b, n)
        /\ \/ n = Len(a) /\ n < Len(b)
           \/ n < Len(a) /\ n < Len(b) /\ a[n + 1] < b[n + 1]

\* (deliberately wrong, for the mutant of Gaps: off by one)
Gaps_Adjacent(a, b) ==
    {j \in SharedLen(a, b) + 1 .. Shorter(a, b) :
        a[j] < MaxByte /\ a[j] + 1 <= b[j]}

\* the places, from the first difference on, where a byte fits in between
Gaps(a, b) ==
    {j \in SharedLen(a, b) + 1 .. Shorter(a, b) :
        a[j] < MaxByte /\ a[j] + 1 < b[j]}

\* a up to place j, with the byte at j incremented
Bump(a, j) == Append(SubSeq(a, 1, j - 1), a[j] + 1)

find_shortest_sep(a, b) ==
    IF a = b THEN a
    ELSE IF Gaps(a, b) = {} THEN Append(a, 0)
         ELSE Bump(a, Min(Gaps(a, b)))

\* the assertion inside find_shortest_sep: a bumped separator is below b
SepPanics(a, b) ==
    a # b /\ Gaps(a, b) # {} /\ ~Less(find_shortest_sep(a, b), b)

\* (deliberately wrong, for the mutant of find_short_succ: the first byte is
\* incremented whatever it is)
find_short_succ_Wraps(a) ==
    IF a = <<>> THEN <<MaxByte>> ELSE <<(a[1] + 1) % (MaxByte + 1)>>

find_short_succ(a) ==
    LET below == {i \in 1 .. Len(a) : a[i] # MaxByte}
    IN  IF below = {} THEN Append(a, MaxByte) ELSE Bump(a, Min(below))

-----------------------------------------------------------------------------

\* A separator of an index block: every key of the block it closes is at most
\* `a` and must be found below it, every key of the next block is at least
\* `b` and must not be.  The one pair of keys with nothing in between is b =
\* a \o <<0>>, where the separator is b itself; the readers of the index have
\* to cope with that case.
SeparatorOK(a, b, sep) ==
    /\ Less(a, sep)
    /\ \/ Less(sep, b)
       \/ sep = b /\ b = Append(a, 0)

\* The key of the last index entry is above every key of the last block, and
\* no longer than it has to be: nothing shorter compares above a.
SuccessorOK(a, succ) ==
    /\ Less(a, succ)
    /\ \A n \in 0 .. Len(succ) - 1 : \A s \in [1 .. n -> Byte] : ~Less(a, s)
=============================================================================
