------------------------------- MODULE MCCmp -------------------------------
(***************************************************************************)
(* Enumerates the pairs of byte strings up to MaxLen by growing two        *)
(* strings byte by byte, and checks the operators of Cmp on each pair.     *)
(***************************************************************************)
EXTENDS Cmp

CONSTANT MaxLen         \* bound on the length of the keys

VARIABLES a, b

Init == a = <<>> /\ b = <<>>

GrowA == \E x \in Byte : Len(a) < MaxLen /\ a' = Append(a, x) /\ b' = b

GrowB == \E x \in Byte : Len(b) < MaxLen /\ b' = Append(b, x) /\ a' = a

Spec == Init /\ [][GrowA \/ GrowB]_<<a, b>>

-----------------------------------------------------------------------------

\* find_shortest_sep as TableBuilder::write_data_block calls it (a below b):
\* the result separates the two blocks, and the assertion it makes on the way
\* (cmp.rs:50) holds.  Equal keys give the key back.
Separates ==
    /\ Less(a, b) => SeparatorOK(a, b, find_shortest_sep(a, b)) /\ ~SepPanics(a, b)
    /\ a = b => find_shortest_sep(a, b) = a

\* find_short_succ, the key of the index's last entry, is the shortest string
\* above the table's last key, all-0xff keys included.
Succeeds == SuccessorOK(a, find_short_succ(a))

\* The bytewise order is total: seek and get treat "not Less" as "greater or
\* equal", and BlockBuilder::add's assertion rejects both equal and greater.
TotalOrder ==
    /\ ~(Less(a, b) /\ Less(b, a))
    /\ a = b <=> ~Less(a, b) /\ ~Less(b, a)
=============================================================================
