----------------------------- MODULE BlockIter ------------------------------
(***************************************************************************)
(* Block and BlockIter (src/src/block.rs) over a block that BlockBuilder   *)
(* built: entries are added, the block is finished, and one iterator is    *)
(* moved over it.                                                          *)
(*                                                                         *)
(* Offsets are entry numbers, as in BlockBuilder: the entry at offset i is *)
(* entries[i + 1], and restarts_off is the number of entries.  val_offset  *)
(* is the number of the entry whose value it points at plus one, so it is  *)
(* 0 only before the first parse, and val_offset = offset says that        *)
(* block[val_offset..offset] is that entry's value.                        *)
(*                                                                         *)
(* A call that loops runs one iteration per step: `pc` says where it is    *)
(* and `call` holds its local variables.                                   *)
(***************************************************************************)
EXTENDS BlockBuilder

CONSTANTS Keys, Vals,   \* the keys and values that callers use
          MaxEntries    \* bound on the entries of the block

ASSUME KeysAssumption == Keys \subseteq ByteString /\ Vals \subseteq Seq(Nat)

NoKey == <<>>

ItType ==
    [offset : Nat, current_entry_offset : Nat, current_restart_ix : Nat,
     key : ByteString, val_offset : Nat]

\* Block::iter
NewIter ==
    [offset |-> 0, current_entry_offset |-> 0, current_restart_ix |-> 0,
     key |-> NoKey, val_offset |-> 0]

restarts_off(b) == Len(b.entries)

number_restarts(b) == Len(b.restarts)

get_restart_point(b, ix) == b.restarts[ix + 1]

valid(b, x) == x.key # <<>> /\ x.val_offset > 0 /\ x.val_offset <= restarts_off(b)

parse_entry_and_advance(x) == [x EXCEPT !.val_offset = x.offset + 1, !.offset = x.offset + 1]

\* (deliberately wrong, for the mutant of Truncate: the old key's tail stays)
Truncate_Missing(s, n) == s

Truncate(s, n) == IF n < Len(s) THEN SubSeq(s, 1, n) ELSE s

assemble_key(b, off, x) ==
    [x EXCEPT !.key = Truncate(@, b.entries[off + 1].shared) \o b.entries[off + 1].suffix]

reset(x) == [x EXCEPT !.offset = 0, !.val_offset = 0, !.current_restart_ix = 0, !.key = <<>>]

\* the loop that lets current_restart_ix catch up with the entry
CatchUp(b, x) ==
    CHOOSE r \in x.current_restart_ix .. number_restarts(b) :
        /\ \A q \in x.current_restart_ix + 1 .. r :
              q < number_restarts(b) /\ get_restart_point(b, q) < x.current_entry_offset
        /\ r + 1 < number_restarts(b) =>
              get_restart_point(b, r + 1) >= x.current_entry_offset

\* advance() returns true
advance_ok(b, x) == x.offset < restarts_off(b)

advance(b, x) ==
    IF ~advance_ok(b, x) THEN reset(x)
    ELSE LET y == assemble_key(b, x.offset, parse_entry_and_advance(
                      [x EXCEPT !.current_entry_offset = x.offset]))
         IN  [y EXCEPT !.current_restart_ix = CatchUp(b, y)]

seek_to_restart_point(b, x, ix) ==
    LET off == get_restart_point(b, ix)
    IN  assemble_key(b, off, parse_entry_and_advance(
            [x EXCEPT !.offset = off, !.current_entry_offset = off,
                      !.current_restart_ix = ix]))

\* the assertions of seek_to_restart_point; a restart point of an empty block
\* points at the restart area itself, which parses as an empty key
restart_panics(b, x, ix) ==
    \/ get_restart_point(b, ix) >= restarts_off(b)
    \/ b.entries[get_restart_point(b, ix) + 1].shared # 0
    \/ ~valid(b, seek_to_restart_point(b, x, ix))

-----------------------------------------------------------------------------

VARIABLES builder,      \* the BlockBuilder; finish() turns it into the block
          added,        \* history: the entries that were added
          pc,           \* where the running call is
          it,           \* the iterator
          call,         \* the local variables of the running call
          ret           \* what the last advance() or prev() returned

vars == <<builder, added, pc, it, call, ret>>

block == Finish(builder)

CallType ==
    [op : {"none", "add", "prev", "seek", "seek_to_last"}, to : ByteString,
     left : Nat, right : Int, orig : Nat, pre : ItType]

NoCall ==
    [op |-> "none", to |-> NoKey, left |-> 0, right |-> 0, orig |-> 0, pre |-> NewIter]

TypeOK ==
    /\ builder \in BuilderType
    /\ added \in Seq([key : Keys, val : Vals])
    /\ pc \in {"build", "idle", "walk", "back", "bsearch", "scan", "last", "panic"}
    /\ it \in ItType
    /\ call \in CallType
    /\ ret \in BOOLEAN

Init ==
    /\ builder = NewBlockBuilder
    /\ added = <<>>
    /\ pc = "build"
    /\ it = NewIter
    /\ call = NoCall
    /\ ret = FALSE

AddKey(k, v) ==
    /\ pc = "build"
    /\ Len(added) < MaxEntries
    /\ IF AddPanics(builder, k)
       THEN /\ pc' = "panic"
            /\ call' = [NoCall EXCEPT !.op = "add", !.to = k]
            /\ UNCHANGED <<builder, added>>
       ELSE /\ builder' = AddEntry(builder, k, v)
            /\ added' = Append(added, [key |-> k, val |-> v])
            /\ UNCHANGED <<pc, call>>
    /\ UNCHANGED <<it, ret>>

FinishBlock ==
    /\ pc = "build"
    /\ pc' = "idle"
    /\ UNCHANGED <<builder, added, it, call, ret>>

\* a call that returns at once
Advance ==
    /\ pc = "idle"
    /\ it' = advance(block, it)
    /\ ret' = advance_ok(block, it)
    /\ UNCHANGED <<builder, added, pc, call>>

Reset ==
    /\ pc = "idle"
    /\ it' = reset(it)
    /\ UNCHANGED <<builder, added, pc, call, ret>>

\* (deliberately wrong, for the mutant of Prev: the position before is computed
\* without a check for the first entry)
Prev_Unchecked ==
    /\ pc = "idle"
    /\ pc' = "walk"
    /\ call' = [NoCall EXCEPT !.op = "prev", !.orig = it.current_entry_offset - 1,
                              !.pre = it]
    /\ UNCHANGED <<builder, added, it, ret>>

Prev ==
    /\ pc = "idle"
    /\ IF it.current_entry_offset = 0
       THEN it' = reset(it) /\ ret' = FALSE /\ UNCHANGED <<pc, call>>
       ELSE /\ pc' = "walk"
            /\ call' = [NoCall EXCEPT !.op = "prev", !.orig = it.current_entry_offset,
                                      !.pre = it]
            /\ UNCHANGED <<it, ret>>
    /\ UNCHANGED <<builder, added>>

\* prev: one restart point back until one lies before the original entry.
\* Past the first restart point the code reads N_RESTARTS as an offset.
WalkBack ==
    /\ pc = "walk"
    /\ LET ix == it.current_restart_ix
       IN  IF get_restart_point(block, ix) < call.orig
           THEN pc' = "back" /\ it' = [it EXCEPT !.offset = get_restart_point(block, ix)]
           ELSE IF ix = 0
                THEN pc' = "panic" /\ it' = [it EXCEPT !.offset = restarts_off(block)]
                ELSE pc' = pc /\ it' = [it EXCEPT !.current_restart_ix = ix - 1]
    /\ UNCHANGED <<builder, added, call, ret>>

\* (deliberately wrong, for the mutant of BackAtOriginal: off by one)
BackAtOriginal_Late(x, orig) == x.offset > orig

BackAtOriginal(x, orig) == x.offset >= orig

\* prev: advance until the next entry would be the original one
PrevStep ==
    /\ pc = "back"
    /\ it' = advance(block, it)
    /\ IF BackAtOriginal(it', call.orig)
       THEN pc' = "idle" /\ ret' = advance_ok(block, it) /\ call' = NoCall
       ELSE UNCHANGED <<pc, ret, call>>
    /\ UNCHANGED <<builder, added>>

Seek(to) ==
    /\ pc = "idle"
    /\ it' = reset(it)
    /\ pc' = "bsearch"
    /\ call' = [NoCall EXCEPT !.op = "seek", !.to = to, !.right = number_restarts(block) - 1,
                              !.pre = it]
    /\ UNCHANGED <<builder, added, ret>>

Middle(left, right) == (left + right + 1) \div 2

\* seek: one round of the binary search over the restart points, or its end
SearchStep ==
    /\ pc = "bsearch"
    /\ IF call.left < call.right
       THEN LET middle == Middle(call.left, call.right)
            IN  /\ it' = seek_to_restart_point(block, it, middle)
                /\ IF restart_panics(block, it, middle)
                   THEN pc' = "panic" /\ UNCHANGED call
                   ELSE /\ pc' = pc
                        /\ call' = IF Less(it'.key, call.to)
                                   THEN [call EXCEPT !.left = middle]
                                   ELSE [call EXCEPT !.right = middle - 1]
       ELSE /\ IF call.left = call.right THEN pc' = "scan" ELSE pc' = "panic"
            /\ it' = [it EXCEPT !.current_restart_ix = call.left,
                                !.offset = get_restart_point(block, call.left)]
            /\ UNCHANGED call
    /\ UNCHANGED <<builder, added, ret>>

\* seek: next() until a key at or above the target, or until there is none;
\* next() also ends the loop at an entry that current() refuses
ScanStep ==
    /\ pc = "scan"
    /\ it' = advance(block, it)
    /\ IF valid(block, it') /\ Less(it'.key, call.to)
       THEN UNCHANGED <<pc, call>>
       ELSE pc' = "idle" /\ call' = NoCall
    /\ UNCHANGED <<builder, added, ret>>

SeekToLast ==
    /\ pc = "idle"
    /\ LET ix == number_restarts(block) - 1
       IN  IF restart_panics(block, it, ix)
           THEN pc' = "panic" /\ UNCHANGED it
           ELSE pc' = "last" /\ it' = seek_to_restart_point(block, it, ix)
    /\ call' = [NoCall EXCEPT !.op = "seek_to_last", !.pre = it]
    /\ UNCHANGED <<builder, added, ret>>

\* (deliberately wrong, for the mutant of BeforeEnd: off by one)
BeforeEnd_Inclusive(b, x) == x.offset <= restarts_off(b)

BeforeEnd(b, x) == x.offset < restarts_off(b)

\* seek_to_last: advance while another entry follows
LastStep ==
    /\ pc = "last"
    /\ IF BeforeEnd(block, it)
       THEN it' = advance(block, it) /\ UNCHANGED <<pc, call>>
       ELSE /\ IF valid(block, it) THEN pc' = "idle" /\ call' = NoCall
                                  ELSE pc' = "panic" /\ UNCHANGED call
            /\ UNCHANGED it
    /\ UNCHANGED <<builder, added, ret>>

\* the steps of a call that is under way
RunCall == WalkBack \/ PrevStep \/ SearchStep \/ ScanStep \/ LastStep

Next ==
    \/ \E k \in Keys, v \in Vals : AddKey(k, v)
    \/ FinishBlock
    \/ Advance \/ Reset \/ Prev \/ SeekToLast
    \/ \E to \in Keys : Seek(to)
    \/ RunCall

Spec == Init /\ [][Next]_vars

\* A call, once made, runs: it is one thread's code with nothing to wait for.
FairSpec == Spec /\ WF_vars(RunCall)

-----------------------------------------------------------------------------

Running == {"walk", "back", "bsearch", "scan", "last"}

\* the iterator has read an entry; valid() does not say so of an empty key
Stands(b, x) == x.val_offset > 0 /\ x.val_offset <= restarts_off(b)

\* What a caller reads between calls is an entry as it was added: the key put
\* together from the compressed prefixes is that entry's key whatever mixture
\* of advance, prev, seek, seek_to_last and reset led there, the value slice
\* block[val_offset..offset] is its value, and the position prev() goes back
\* from is its position.
CurrentIsEntry ==
    pc = "idle" /\ Stands(block, it) =>
        /\ it.offset = it.val_offset
        /\ it.val_offset = it.current_entry_offset + 1
        /\ it.key = added[it.val_offset].key
        /\ block.entries[it.val_offset].val = added[it.val_offset].val

\* No assertion of the block code fails on a block of its own builder, except
\* for BlockBuilder::add of a key that is not above the last one added, and for
\* seek_to_last() on a block without entries, whose only restart point points
\* past its data, or with one restart point, at an entry with the empty key.
\* The restart counter's assertion in add() never fails, nor do those of prev
\* and seek.
OnlyCallerPanics ==
    pc = "panic" =>
        \/ /\ call.op = "add"
           /\ added # <<>> /\ ~Less(added[Len(added)].key, call.to)
        \/ /\ call.op = "seek_to_last"
           /\ \/ added = <<>>
              \/ added[1].key = <<>> /\ number_restarts(block) = 1

\* Every call returns: the binary search over the restart points shrinks, and
\* the linear scans of prev, seek and seek_to_last reach their end.
CallReturns == pc \in Running ~> pc = "idle"

\* The iterator as EntryIter sees it: a call takes effect when it returns.
AbsIter ==
    LET x == IF pc \in Running THEN call.pre ELSE it
    IN  [cur |-> x.current_entry_offset, on |-> Stands(block, x)]

Abs == INSTANCE EntryIter WITH
           entries <- added, opened <- pc # "build", iter <- AbsIter, ret <- ret

\* BlockIter over restart points and compressed prefixes implements the plain
\* iterator over the added entries: seek finds the first entry at or above the
\* target, prev and advance move by one entry, across restart points too, and
\* their results say whether there was one.  A first entry with the empty key
\* changes one thing: seek stops there when it scans from it.
ImplementsEntryIter == Abs!Spec
=============================================================================
