---------------------------- MODULE BlockBuilder ----------------------------
(***************************************************************************)
(* BlockBuilder (src/src/block_builder.rs) as operators on its record.     *)
(*                                                                         *)
(* The buffer is the sequence of the entries written to it, so an offset   *)
(* into it is the number of entries before it (0-based); its length in     *)
(* bytes, which decides where a table's blocks end, is kept in `bytes`.    *)
(* The three varints of an entry's header take one byte each: lengths      *)
(* below 128.  A restart point is an entry's number and is not cut to 32   *)
(* bits as its offset in the code is: blocks below 4 GiB.                  *)
(***************************************************************************)
EXTENDS Cmp

CONSTANT BlockRestartInterval      \* Options::block_restart_interval

ASSUME RestartIntervalAssumption == BlockRestartInterval \in Nat

\* a value is a sequence of bytes; the checker's values need not be below
\* MaxByte
Entry == [shared : Nat, suffix : ByteString, val : Seq(Nat)]

BuilderType ==
    [buffer : Seq(Entry), bytes : Nat, restarts : Seq(Nat),
     last_key : ByteString, restart_counter : Nat]

NewBlockBuilder ==
    [buffer |-> <<>>, bytes |-> 0, restarts |-> <<0>>,
     last_key |-> <<>>, restart_counter |-> 0]

\* BlockBuilder::entries
Entries(bb) == Len(bb.buffer)

\* BlockBuilder::size_estimate, in bytes
SizeEstimate(bb) == bb.bytes + 4 * Len(bb.restarts) + 4

\* (deliberately wrong, for the mutant of AddPanics: off by one)
AddPanics_AtLimit(bb, key) ==
    \/ bb.restart_counter >= BlockRestartInterval
    \/ bb.buffer # <<>> /\ ~Less(bb.last_key, key)

\* the two assertions at the head of BlockBuilder::add
AddPanics(bb, key) ==
    \/ bb.restart_counter > BlockRestartInterval
    \/ bb.buffer # <<>> /\ ~Less(bb.last_key, key)

\* a restart point is due every BlockRestartInterval entries
RestartDue(bb) == bb.restart_counter >= BlockRestartInterval

\* (deliberately wrong, for the mutant of SharedWithLast: the restart entry is
\* compressed like the others)
SharedWithLast_AtRestart(bb, key) == SharedLen(bb.last_key, key)

\* the length of the prefix that is not written again; none at a restart point
SharedWithLast(bb, key) == IF RestartDue(bb) THEN 0 ELSE SharedLen(bb.last_key, key)

\* BlockBuilder::add
AddEntry(bb, key, val) ==
    LET shared == SharedWithLast(bb, key)
    IN  [buffer          |-> Append(bb.buffer, [shared |-> shared,
                                                suffix |-> SubSeq(key, shared + 1, Len(key)),
                                                val    |-> val]),
         bytes           |-> bb.bytes + 3 + (Len(key) - shared) + Len(val),
         restarts        |-> IF RestartDue(bb) THEN Append(bb.restarts, Len(bb.buffer))
                             ELSE bb.restarts,
         last_key        |-> key,
         restart_counter |-> IF RestartDue(bb) THEN 1 ELSE bb.restart_counter + 1]

\* BlockBuilder::finish: the entries, then the restart points and their number
Finish(bb) == [entries |-> bb.buffer, restarts |-> bb.restarts]
=============================================================================
