----------------------------- MODULE EntryIter ------------------------------
(***************************************************************************)
(* What an SSIterator over a sorted sequence of entries promises: the      *)
(* entries are added, then iterated over by the operations of IterOps.     *)
(***************************************************************************)
EXTENDS IterOps

CONSTANTS Keys, Vals    \* the keys and values that callers use

KeyVal == [key : Keys, val : Vals]

-----------------------------------------------------------------------------

VARIABLES entries,      \* the entries, in order
          opened,       \* the entries are complete and iterated over
          iter,         \* the iterator
          ret           \* what the last advance() or prev() returned

vars == <<entries, opened, iter, ret>>

Init == entries = <<>> /\ opened = FALSE /\ iter = ItNew /\ ret = FALSE

\* an entry is added, above all others
Add(kv) ==
    /\ ~opened
    /\ \A i \in 1 .. Len(entries) : Less(entries[i].key, kv.key)
    /\ entries' = Append(entries, kv)
    /\ UNCHANGED <<opened, iter, ret>>

Open == opened' = TRUE /\ UNCHANGED <<entries, iter, ret>>

\* advance() and prev() say whether they found an entry
Step(x) == opened /\ iter' = x /\ ret' = x.on /\ UNCHANGED <<entries, opened>>

Move(x) == opened /\ iter' = x /\ UNCHANGED <<entries, opened, ret>>

Next ==
    \/ \E kv \in KeyVal : Add(kv)
    \/ Open
    \/ Step(ItAdvance(entries, iter))
    \/ Step(ItPrev(iter))
    \/ Move(ItReset(iter))
    \/ \E to \in Keys : Move(ItSeek(entries, iter, to))
    \/ ~LastPanics(entries) /\ Move(ItLast(entries))

Spec == Init /\ [][Next]_vars
=============================================================================
