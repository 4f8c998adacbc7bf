--------------------------- MODULE BlockIterProofs ---------------------------
(***************************************************************************)
(* BlockIter over any block that BlockBuilder builds, of any number of     *)
(* entries and restart points (in the code: below 4 GiB, so that the       *)
(* restart points fit into u32): an inductive invariant that ties every    *)
(* place of a running call to the entries that were added, and from it the *)
(* safety invariants and the refinement of EntryIter.                      *)
(***************************************************************************)
EXTENDS BlockIter, BlockBuilderProofs

\* b is a block with the entries kvs: every entry is put together from the key
\* before it, the restart points ascend from 0 and share nothing.
BlockHolds(b, kvs) ==
    /\ kvs \in Seq(KeyValue)
    /\ restarts_off(b) = Len(kvs)
    /\ \A i \in 1 .. Len(kvs) :
          /\ b.entries[i].shared \in Nat /\ b.entries[i].suffix \in ByteString
          /\ b.entries[i].val = kvs[i].val
          /\ Truncate(KeyBefore(kvs, i), b.entries[i].shared) \o b.entries[i].suffix
                 = kvs[i].key
          /\ b.entries[i].shared = 0 => b.entries[i].suffix = kvs[i].key
    /\ Ascending(kvs)
    /\ number_restarts(b) \in Nat \ {0}
    /\ get_restart_point(b, 0) = 0
    /\ \A ix \in 0 .. number_restarts(b) - 1 :
          /\ get_restart_point(b, ix) \in Nat
          /\ Len(kvs) > 0 => /\ get_restart_point(b, ix) < Len(kvs)
                             /\ b.entries[get_restart_point(b, ix) + 1].shared = 0
    /\ \A i, j \in 0 .. number_restarts(b) - 1 :
          i < j => get_restart_point(b, i) < get_restart_point(b, j)
    /\ number_restarts(b) > 1 =>
          get_restart_point(b, 1) = BlockRestartInterval /\ BlockRestartInterval < Len(kvs)
    /\ number_restarts(b) = 1 => Len(kvs) <= BlockRestartInterval
    /\ Len(kvs) = 0 => number_restarts(b) = 1

\* Cutting at the shared length is what the builder's prefix is.
LEMMA TruncateIsPrefix ==
    ASSUME NEW s \in ByteString, NEW n \in Nat
    PROVE  /\ Truncate(s, n) \in ByteString
           /\ n <= Len(s) => Truncate(s, n) = SubSeq(s, 1, n)
           /\ Truncate(s, 0) = <<>>
<1>1. Len(s) \in Nat
  BY BytesOf
<1>2. CASE n < Len(s)
  <2>1. SubSeq(s, 1, n) \in ByteString
    BY <1>1, <1>2, SubSeqProperties DEF ByteString
  <2>2. SubSeq(s, 1, 0) = <<>>
    BY DEF ByteString
  <2>3. Len(s) = 0 => s = <<>>
    BY DEF ByteString
  <2> QED BY <1>1, <1>2, <2>1, <2>2, <2>3 DEF Truncate
<1>3. CASE ~(n < Len(s))
  <2>1. Truncate(s, n) = s
    BY <1>3 DEF Truncate
  <2>2. n <= Len(s) => n = Len(s)
    BY <1>1, <1>3
  <2>3. SubSeq(s, 1, Len(s)) = s
    <3> DEFINE t == SubSeq(s, 1, Len(s))
    <3>1. t \in ByteString /\ Len(t) = Len(s) /\ \A i \in 1 .. Len(s) : t[i] = s[i]
      BY <1>1, SubSeqProperties DEF ByteString
    <3> HIDE DEF t
    <3>2. t = s
      BY <3>1, SameBytes
    <3> QED BY <3>2 DEF t
  <2>4. SubSeq(s, 1, 0) = <<>>
    BY DEF ByteString
  <2>5. Len(s) = 0 => s = <<>>
    BY DEF ByteString
  <2>6. Truncate(s, 0) = <<>>
    BY <1>1, <2>4, <2>5 DEF Truncate
  <2> QED BY <2>1, <2>2, <2>3, <2>6
<1> QED BY <1>2, <1>3

\* BlockBuilder::finish makes such a block.
LEMMA FinishHolds ==
    ASSUME BlockRestartInterval > 0, NEW bb, NEW kvs, Holds(bb, kvs)
    PROVE  BlockHolds(Finish(bb), kvs)
<1> DEFINE b  == Finish(bb)
           n  == Len(kvs)
           rs == bb.restarts
           nr == Len(rs)
<1>1. b.entries = bb.buffer /\ b.restarts = rs
  BY DEF Finish
<1>2. /\ bb \in BuilderType /\ kvs \in Seq(KeyValue) /\ n \in Nat /\ Len(bb.buffer) = n
      /\ bb.buffer \in Seq(Entry) /\ rs \in Seq(Nat) /\ nr \in Nat
  BY DEF Holds, BuilderType
<1>3. RestartsHold(rs, bb.restart_counter, bb.buffer, n)
  BY DEF Holds
<1>4. ASSUME NEW i \in 1 .. n
      PROVE  /\ b.entries[i].shared \in Nat /\ b.entries[i].suffix \in ByteString
             /\ b.entries[i].val = kvs[i].val
             /\ Truncate(KeyBefore(kvs, i), b.entries[i].shared) \o b.entries[i].suffix
                    = kvs[i].key
             /\ b.entries[i].shared = 0 => b.entries[i].suffix = kvs[i].key
  <2> DEFINE e == bb.buffer[i]
  <2>1. e \in Entry
    BY <1>2
  <2>2. EntryHolds(e, KeyBefore(kvs, i), kvs[i])
    BY DEF Holds
  <2> HIDE DEF e
  <2>3. KeyBefore(kvs, i) \in ByteString
    <3>1. CASE i = 1
      BY <3>1 DEF KeyBefore, ByteString
    <3>2. CASE i # 1
      <4>1. i - 1 \in 1 .. n
        BY <3>2, <1>2
      <4>2. kvs[i - 1] \in KeyValue
        BY <4>1, <1>2
      <4> QED BY <3>2, <4>2 DEF KeyBefore, KeyValue
    <3> QED BY <3>1, <3>2
  <2>4. e.shared \in Nat /\ e.suffix \in ByteString
    BY <2>1 DEF Entry
  <2>5. Truncate(KeyBefore(kvs, i), e.shared) = SubSeq(KeyBefore(kvs, i), 1, e.shared)
    BY <2>2, <2>3, <2>4, TruncateIsPrefix DEF EntryHolds
  <2> QED BY <1>1, <2>2, <2>4, <2>5 DEF EntryHolds, e
<1>5. /\ nr > 0 /\ rs[1] = 0
      /\ \A r \in 2 .. nr : rs[r] < n
      /\ \A r, s \in 1 .. nr : r < s => rs[r] < rs[s]
      /\ \A r \in 1 .. nr : rs[r] < n => bb.buffer[rs[r] + 1].shared = 0
      /\ nr > 1 => rs[2] = BlockRestartInterval
      /\ bb.restart_counter = n - rs[nr]
      /\ bb.restart_counter <= BlockRestartInterval
  BY <1>3 DEF RestartsHold
<1>6. number_restarts(b) = nr /\ restarts_off(b) = n
  BY <1>1, <1>2 DEF number_restarts, restarts_off
<1>7. Ascending(kvs)
  BY DEF Holds
<1>8. \A r \in 1 .. nr : rs[r] \in Nat
  BY <1>2
<1> HIDE DEF n, nr, rs
<1>9. ASSUME NEW ix \in 0 .. nr - 1
      PROVE  /\ get_restart_point(b, ix) = rs[ix + 1] /\ ix + 1 \in 1 .. nr
             /\ rs[ix + 1] \in Nat
             /\ n > 0 => rs[ix + 1] < n
  <2>1. ix + 1 \in 1 .. nr /\ (ix = 0 \/ ix + 1 \in 2 .. nr)
    BY <1>2
  <2>2. ix = 0 => rs[ix + 1] = 0
    BY <1>5
  <2> QED BY <2>1, <2>2, <1>1, <1>5, <1>8 DEF get_restart_point
<1>10. \A ix \in 0 .. nr - 1 :
          /\ get_restart_point(b, ix) \in Nat
          /\ n > 0 => /\ get_restart_point(b, ix) < n
                      /\ b.entries[get_restart_point(b, ix) + 1].shared = 0
  BY <1>1, <1>5, <1>9
<1>11. \A i, j \in 0 .. nr - 1 :
          i < j => get_restart_point(b, i) < get_restart_point(b, j)
  <2> SUFFICES ASSUME NEW i \in 0 .. nr - 1, NEW j \in 0 .. nr - 1, i < j
               PROVE  rs[i + 1] < rs[j + 1]
    BY <1>9
  <2>1. i + 1 \in 1 .. nr /\ j + 1 \in 1 .. nr /\ i + 1 < j + 1
    BY <1>2
  <2> QED BY <2>1, <1>5
<1>12. 0 \in 0 .. nr - 1 /\ (nr > 1 => 1 \in 0 .. nr - 1 /\ 2 \in 2 .. nr)
  BY <1>2, <1>5
<1>13. get_restart_point(b, 0) = 0
  BY <1>5, <1>9, <1>12
<1>14. nr > 1 => get_restart_point(b, 1) = BlockRestartInterval /\ BlockRestartInterval < n
  BY <1>5, <1>9, <1>12
<1>15. nr = 1 => n <= BlockRestartInterval
  BY <1>2, <1>5, RestartIntervalAssumption
<1>16. n = 0 => nr = 1
  <2> SUFFICES ASSUME n = 0, nr # 1 PROVE FALSE
    OBVIOUS
  <2>1. nr > 1
    BY <1>2, <1>5
  <2> QED BY <2>1, <1>14, RestartIntervalAssumption
<1>17. nr \in Nat \ {0}
  BY <1>2, <1>5
<1> QED BY <1>2, <1>4, <1>6, <1>7, <1>10, <1>11, <1>13, <1>14, <1>15, <1>16, <1>17
        DEF BlockHolds, n

\* What the lemmas below need of a block, in one place.
LEMMA BlockFacts ==
    ASSUME NEW b, NEW kvs, BlockHolds(b, kvs)
    PROVE  /\ Len(kvs) \in Nat /\ restarts_off(b) = Len(kvs)
           /\ \A i \in 1 .. Len(kvs) : kvs[i].key \in ByteString
           /\ \A i, j \in 1 .. Len(kvs) : i < j => Less(kvs[i].key, kvs[j].key)
           /\ number_restarts(b) \in Nat /\ number_restarts(b) > 0
           /\ \A ix \in 0 .. number_restarts(b) - 1 :
                 get_restart_point(b, ix) \in Nat
           /\ \A ix \in 0 .. number_restarts(b) - 1 :
                 Len(kvs) > 0 => get_restart_point(b, ix) < Len(kvs)
<1>1. \A i \in 1 .. Len(kvs) : kvs[i].key \in ByteString
  <2> SUFFICES ASSUME NEW i \in 1 .. Len(kvs) PROVE kvs[i].key \in ByteString
    OBVIOUS
  <2>1. kvs[i] \in KeyValue
    BY DEF BlockHolds
  <2> QED BY <2>1 DEF KeyValue
<1>2. Len(kvs) \in Nat
  BY DEF BlockHolds
<1> QED BY <1>1, <1>2 DEF BlockHolds, Ascending

\* Only the first key can be empty.
LEMMA OnlyFirstEmpty ==
    ASSUME NEW b, NEW kvs, BlockHolds(b, kvs), NEW i \in 1 .. Len(kvs), kvs[i].key = <<>>
    PROVE  i = 1
<1> SUFFICES ASSUME i # 1 PROVE FALSE
  OBVIOUS
<1>1. 1 \in 1 .. Len(kvs) /\ 1 < i
  BY BlockFacts
<1>2. Less(kvs[1].key, <<>>) /\ kvs[1].key \in ByteString
  BY <1>1, BlockFacts
<1> QED BY <1>2, NothingBelowEmpty

\* The iterator stands on an entry.
On(kvs, x) ==
    /\ x.val_offset = x.offset
    /\ x.offset = x.current_entry_offset + 1
    /\ x.offset <= Len(kvs)
    /\ x.key = kvs[x.offset].key

\* The iterator is before the first entry, and remembers one if there is one.
Off(kvs, x) ==
    /\ x.offset = 0 /\ x.val_offset = 0 /\ x.key = <<>>
    /\ x.current_entry_offset = 0 \/ x.current_entry_offset < Len(kvs)

\* The iterator between calls.
IterHolds(b, kvs, x) ==
    /\ x \in ItType
    /\ x.current_restart_ix < number_restarts(b)
    /\ On(kvs, x) \/ Off(kvs, x)

\* The entry at the iterator's offset, put together with the iterator's key,
\* gives that entry's key.
Ready(b, kvs, x) ==
    /\ x \in ItType
    /\ x.current_restart_ix < number_restarts(b)
    /\ x.offset <= Len(kvs)
    /\ x.offset < Len(kvs) =>
          Truncate(x.key, b.entries[x.offset + 1].shared) \o b.entries[x.offset + 1].suffix
              = kvs[x.offset + 1].key

\* The types of the iterator's fields.
LEMMA ItFields ==
    ASSUME NEW x \in ItType
    PROVE  /\ x.offset \in Nat /\ x.current_entry_offset \in Nat /\ x.current_restart_ix \in Nat
           /\ x.key \in ByteString /\ x.val_offset \in Nat
BY DEF ItType

\* Between calls advance() can read on.
LEMMA IterReady ==
    ASSUME NEW b, NEW kvs, BlockHolds(b, kvs), NEW x, IterHolds(b, kvs, x)
    PROVE  Ready(b, kvs, x)
<1>1. x \in ItType /\ x.current_restart_ix < number_restarts(b)
  BY DEF IterHolds
<1>2. x.offset \in Nat /\ x.current_entry_offset \in Nat /\ Len(kvs) \in Nat
  BY <1>1, ItFields, BlockFacts
<1>3. x.offset <= Len(kvs)
  BY <1>2 DEF IterHolds, On, Off
<1>4. ASSUME x.offset < Len(kvs)
      PROVE  Truncate(x.key, b.entries[x.offset + 1].shared) \o b.entries[x.offset + 1].suffix
                 = kvs[x.offset + 1].key
  <2>1. x.offset + 1 \in 1 .. Len(kvs) /\ (x.offset + 1) - 1 = x.offset
    BY <1>2, <1>4
  <2>2. x.key = KeyBefore(kvs, x.offset + 1)
    <3>1. CASE On(kvs, x)
      <4>1. x.offset + 1 # 1
        BY <1>2, <3>1 DEF On
      <4> QED BY <2>1, <3>1, <4>1 DEF On, KeyBefore
    <3>2. CASE Off(kvs, x)
      <4>1. x.offset + 1 = 1
        BY <3>2 DEF Off
      <4> QED BY <3>2, <4>1 DEF Off, KeyBefore
    <3> QED BY <3>1, <3>2 DEF IterHolds
  <2> QED BY <2>1, <2>2 DEF BlockHolds
<1> QED BY <1>1, <1>3, <1>4 DEF Ready

\* At a restart point any key the iterator holds will do.
LEMMA RestartReady ==
    ASSUME NEW b, NEW kvs, BlockHolds(b, kvs), NEW x \in ItType,
           NEW ix \in 0 .. number_restarts(b) - 1,
           x.current_restart_ix < number_restarts(b), x.offset = get_restart_point(b, ix)
    PROVE  /\ Ready(b, kvs, x)
           /\ Len(kvs) > 0 => x.offset < Len(kvs)
<1>1. Len(kvs) \in Nat /\ x.offset \in Nat /\ x.key \in ByteString
  BY BlockFacts, ItFields
<1>2. Len(kvs) > 0 => x.offset < Len(kvs)
  BY DEF BlockHolds
<1>3. Len(kvs) = 0 => x.offset = 0
  <2>1. Len(kvs) = 0 => number_restarts(b) = 1 /\ get_restart_point(b, 0) = 0
    BY DEF BlockHolds
  <2> QED BY <2>1
<1>4. ASSUME x.offset < Len(kvs)
      PROVE  Truncate(x.key, b.entries[x.offset + 1].shared) \o b.entries[x.offset + 1].suffix
                 = kvs[x.offset + 1].key
  <2> DEFINE e == b.entries[x.offset + 1]
  <2>1. x.offset + 1 \in 1 .. Len(kvs) /\ Len(kvs) > 0
    BY <1>1, <1>4
  <2>2. e.shared = 0 /\ e.suffix = kvs[x.offset + 1].key /\ e.suffix \in ByteString
    BY <2>1 DEF BlockHolds
  <2> HIDE DEF e
  <2>3. Truncate(x.key, e.shared) = <<>>
    BY <1>1, <2>2, TruncateIsPrefix
  <2>4. <<>> \o e.suffix = e.suffix
    BY <2>2 DEF ByteString
  <2> QED BY <2>2, <2>3, <2>4 DEF e
<1>5. x.offset <= Len(kvs)
  BY <1>1, <1>2, <1>3
<1> QED BY <1>2, <1>4, <1>5 DEF Ready

\* The loop that lets current_restart_ix catch up ends at a restart point.
LEMMA CatchUpInside ==
    ASSUME NEW b, NEW kvs, BlockHolds(b, kvs), NEW x \in ItType,
           x.current_restart_ix < number_restarts(b)
    PROVE  CatchUp(b, x) \in Nat /\ CatchUp(b, x) < number_restarts(b)
<1> DEFINE ix == x.current_restart_ix
           nr == number_restarts(b)
           c  == x.current_entry_offset
           rp(q) == get_restart_point(b, q)
           P(r) == /\ \A q \in ix + 1 .. r : q < nr /\ rp(q) < c
                   /\ r + 1 < nr => rp(r + 1) >= c
           S == {r \in ix .. nr - 1 : r + 1 < nr => rp(r + 1) >= c}
<1>1. ix \in Nat /\ nr \in Nat /\ ix < nr /\ c \in Nat /\ \A q \in 0 .. nr - 1 : rp(q) \in Nat
  BY BlockFacts, ItFields
<1>2. \E r \in ix .. nr : P(r)
  <2> HIDE DEF ix, nr, c, rp
  <2>1. nr - 1 \in S /\ S \in SUBSET Nat
    BY <1>1
  <2>2. PICK r \in S : \A q \in S : r <= q
    BY <2>1, LeastElement
  <2>3. r \in ix .. nr - 1 /\ r \in ix .. nr /\ (r + 1 < nr => rp(r + 1) >= c)
    BY <1>1
  <2>4. ASSUME NEW q \in ix + 1 .. r PROVE q < nr /\ rp(q) < c
    <3>1. q - 1 \in ix .. nr - 1 /\ q - 1 < r /\ q < nr /\ (q - 1) + 1 = q /\ q \in 0 .. nr - 1
      BY <1>1, <2>3
    <3>2. q - 1 \notin S
      BY <2>2, <3>1
    <3>3. ~(rp(q) >= c)
      BY <3>1, <3>2
    <3> QED BY <1>1, <3>1, <3>3
  <2> QED BY <2>3, <2>4
<1>3. CatchUp(b, x) = CHOOSE r \in ix .. nr : P(r)
  BY DEF CatchUp
<1>4. CatchUp(b, x) \in ix .. nr /\ P(CatchUp(b, x))
  BY <1>2, <1>3
<1> HIDE DEF ix, nr, c, rp
<1>5. CatchUp(b, x) # nr
  <2> SUFFICES ASSUME CatchUp(b, x) = nr PROVE FALSE
    OBVIOUS
  <2>1. nr \in ix + 1 .. nr
    BY <1>1
  <2> QED BY <1>1, <1>4, <2>1
<1>6. CatchUp(b, x) \in Nat /\ CatchUp(b, x) < nr
  BY <1>1, <1>4, <1>5
<1> QED BY <1>6 DEF nr

\* What parse_entry_and_advance assigns.
LEMMA ParseFields ==
    ASSUME NEW x \in ItType
    PROVE  LET y == parse_entry_and_advance(x)
           IN  /\ y \in ItType /\ y.offset = x.offset + 1 /\ y.val_offset = x.offset + 1
               /\ y.current_entry_offset = x.current_entry_offset
               /\ y.current_restart_ix = x.current_restart_ix /\ y.key = x.key
<1> DEFINE m == x.offset + 1
           y == [x EXCEPT !.val_offset = m, !.offset = m]
<1>1. m \in Nat
  BY ItFields
<1>2. parse_entry_and_advance(x) = y
  BY DEF parse_entry_and_advance
<1> HIDE DEF m
<1>3. y \in ItType
  BY <1>1 DEF ItType
<1>4. y.offset = m /\ y.val_offset = m
  BY DEF ItType
<1>5. /\ y.current_entry_offset = x.current_entry_offset
      /\ y.current_restart_ix = x.current_restart_ix /\ y.key = x.key
  BY DEF ItType
<1> QED BY <1>2, <1>3, <1>4, <1>5 DEF m

\* advance() from a place where the next entry can be put together.
LEMMA AdvanceReads ==
    ASSUME NEW b, NEW kvs, BlockHolds(b, kvs), NEW x, Ready(b, kvs, x), x.offset < Len(kvs)
    PROVE  LET y == advance(b, x)
           IN  /\ advance_ok(b, x)
               /\ IterHolds(b, kvs, y) /\ On(kvs, y)
               /\ y.offset = x.offset + 1 /\ y.current_entry_offset = x.offset
<1> DEFINE e  == b.entries[x.offset + 1]
           x1 == [x EXCEPT !.current_entry_offset = x.offset]
           x2 == parse_entry_and_advance(x1)
           x3 == assemble_key(b, x.offset, x2)
           y  == [x3 EXCEPT !.current_restart_ix = CatchUp(b, x3)]
<1>1. x \in ItType /\ x.current_restart_ix < number_restarts(b)
  BY DEF Ready
<1>2. x.offset \in Nat /\ x.key \in ByteString /\ Len(kvs) \in Nat /\ x.offset + 1 \in 1 .. Len(kvs)
  BY <1>1, ItFields, BlockFacts
<1>3. /\ x1 \in ItType /\ x1.offset = x.offset /\ x1.current_entry_offset = x.offset
      /\ x1.current_restart_ix = x.current_restart_ix /\ x1.key = x.key
  BY <1>1 DEF ItType
<1> HIDE DEF x1
<1>4. /\ x2 \in ItType /\ x2.offset = x.offset + 1 /\ x2.val_offset = x.offset + 1
      /\ x2.current_entry_offset = x.offset
      /\ x2.current_restart_ix = x.current_restart_ix /\ x2.key = x.key
  BY <1>3, ParseFields
<1> HIDE DEF x2
<1>5. /\ e.shared \in Nat /\ e.suffix \in ByteString
      /\ Truncate(x.key, e.shared) \o e.suffix = kvs[x.offset + 1].key
      /\ kvs[x.offset + 1].key \in ByteString
  <2>1. e.shared \in Nat /\ e.suffix \in ByteString
    BY <1>2 DEF BlockHolds
  <2> QED BY <1>2, <2>1, BlockFacts DEF Ready
<1>6. /\ x3 \in ItType /\ x3.offset = x.offset + 1 /\ x3.val_offset = x.offset + 1
      /\ x3.current_entry_offset = x.offset
      /\ x3.current_restart_ix = x.current_restart_ix /\ x3.key = kvs[x.offset + 1].key
  BY <1>4, <1>5 DEF ItType, assemble_key
<1> HIDE DEF x3
<1>7. CatchUp(b, x3) \in Nat /\ CatchUp(b, x3) < number_restarts(b)
  BY <1>1, <1>6, CatchUpInside
<1>8. /\ y \in ItType /\ y.offset = x.offset + 1 /\ y.val_offset = x.offset + 1
      /\ y.current_entry_offset = x.offset
      /\ y.current_restart_ix = CatchUp(b, x3) /\ y.key = kvs[x.offset + 1].key
  BY <1>6, <1>7 DEF ItType
<1>9. advance_ok(b, x)
  BY BlockFacts DEF advance_ok
<1>10. advance(b, x) = y
  BY <1>9 DEF advance, x3, x2, x1
<1> HIDE DEF y
<1>11. On(kvs, y)
  BY <1>2, <1>8 DEF On
<1> QED BY <1>7, <1>8, <1>9, <1>10, <1>11 DEF IterHolds

\* reset() keeps only the position that prev() goes back from.
LEMMA ResetFields ==
    ASSUME NEW x \in ItType
    PROVE  /\ reset(x) \in ItType /\ reset(x).offset = 0 /\ reset(x).val_offset = 0
           /\ reset(x).current_restart_ix = 0 /\ reset(x).key = <<>>
           /\ reset(x).current_entry_offset = x.current_entry_offset
<1>1. <<>> \in ByteString
  BY DEF ByteString
<1>2. reset(x) \in ItType
  BY <1>1 DEF ItType, reset
<1>3. reset(x).offset = 0 /\ reset(x).val_offset = 0
  BY DEF ItType, reset
<1>4. reset(x).current_restart_ix = 0 /\ reset(x).key = <<>>
  BY DEF ItType, reset
<1>5. reset(x).current_entry_offset = x.current_entry_offset
  BY DEF ItType, reset
<1> QED BY <1>2, <1>3, <1>4, <1>5

\* reset() leaves an iterator that stands nowhere.
LEMMA ResetHolds ==
    ASSUME NEW b, NEW kvs, BlockHolds(b, kvs), NEW x \in ItType,
           x.current_entry_offset = 0 \/ x.current_entry_offset < Len(kvs)
    PROVE  IterHolds(b, kvs, reset(x)) /\ Off(kvs, reset(x))
BY ResetFields, BlockFacts DEF IterHolds, Off

\* advance() at the end of the block is reset().
LEMMA AdvanceEnds ==
    ASSUME NEW b, NEW kvs, BlockHolds(b, kvs), NEW x, x.offset \in Nat, ~(x.offset < Len(kvs))
    PROVE  ~advance_ok(b, x) /\ advance(b, x) = reset(x)
BY BlockFacts DEF advance, advance_ok

\* seek_to_restart_point reads the entry there, whatever it stood on.
LEMMA RestartReads ==
    ASSUME NEW b, NEW kvs, BlockHolds(b, kvs), NEW x \in ItType, Len(kvs) > 0,
           NEW ix \in 0 .. number_restarts(b) - 1
    PROVE  LET y == seek_to_restart_point(b, x, ix)
           IN  /\ IterHolds(b, kvs, y) /\ On(kvs, y)
               /\ y.current_entry_offset = get_restart_point(b, ix)
               /\ y.key = kvs[get_restart_point(b, ix) + 1].key
               /\ restart_panics(b, x, ix) <=> y.key = <<>>
<1> DEFINE off == get_restart_point(b, ix)
           e   == b.entries[off + 1]
           x1  == [x EXCEPT !.offset = off, !.current_entry_offset = off,
                            !.current_restart_ix = ix]
           x2  == parse_entry_and_advance(x1)
           y   == assemble_key(b, off, x2)
<1>1. /\ off \in Nat /\ off < Len(kvs) /\ Len(kvs) \in Nat /\ ix \in Nat
      /\ ix < number_restarts(b) /\ restarts_off(b) = Len(kvs)
  BY BlockFacts
<1>2. off + 1 \in 1 .. Len(kvs)
  BY <1>1
<1>3. /\ e.shared = 0 /\ e.suffix \in ByteString /\ e.suffix = kvs[off + 1].key
  BY <1>2 DEF BlockHolds
<1>4. seek_to_restart_point(b, x, ix) = y
  BY DEF seek_to_restart_point
<1>5. restart_panics(b, x, ix) <=> off >= restarts_off(b) \/ e.shared # 0 \/ ~valid(b, y)
  BY <1>4 DEF restart_panics
<1> HIDE DEF off, e
<1>6. /\ x1 \in ItType /\ x1.offset = off /\ x1.current_entry_offset = off
      /\ x1.current_restart_ix = ix /\ x1.key = x.key
  BY <1>1 DEF ItType
<1> HIDE DEF x1
<1>7. /\ x2 \in ItType /\ x2.offset = off + 1 /\ x2.val_offset = off + 1
      /\ x2.current_entry_offset = off
      /\ x2.current_restart_ix = ix /\ x2.key = x.key
  BY <1>6, ParseFields
<1> HIDE DEF x2
<1>8. Truncate(x.key, e.shared) \o e.suffix = e.suffix
  <2>1. Truncate(x.key, e.shared) = <<>>
    BY <1>3, ItFields, TruncateIsPrefix
  <2>2. <<>> \o e.suffix = e.suffix
    BY <1>3 DEF ByteString
  <2> QED BY <2>1, <2>2
<1>9. /\ y \in ItType /\ y.offset = off + 1 /\ y.val_offset = off + 1
      /\ y.current_entry_offset = off
      /\ y.current_restart_ix = ix /\ y.key = kvs[off + 1].key
  BY <1>3, <1>7, <1>8 DEF ItType, assemble_key, e
<1> HIDE DEF y
<1>10. On(kvs, y)
  BY <1>1, <1>9 DEF On
<1>11. valid(b, y) <=> y.key # <<>>
  BY <1>1, <1>9 DEF valid
<1>12. restart_panics(b, x, ix) <=> y.key = <<>>
  BY <1>1, <1>3, <1>5, <1>11
<1> QED BY <1>1, <1>4, <1>9, <1>10, <1>12 DEF IterHolds, off

-----------------------------------------------------------------------------

\* EntryIter compares keys as BlockIter does.
LEMMA AbsLess ==
    ASSUME NEW s, NEW t
    PROVE  Abs!Less(s, t) <=> Less(s, t)
BY DEF Abs!Less, Less, Abs!Agree, Agree, Abs!Shorter, Shorter

\* An iterator as EntryIter sees it.
View(b, x) == [cur |-> x.current_entry_offset, on |-> Stands(b, x)]

\* The position that the refinement mapping reads off the iterator.
LEMMA AbsIterIs ==
    /\ pc \in Running => AbsIter = View(block, call.pre)
    /\ pc \notin Running => AbsIter = View(block, it)
BY DEF AbsIter, View

\* An iterator stands where On says so.
LEMMA ViewOf ==
    ASSUME NEW b, NEW kvs, BlockHolds(b, kvs), NEW x \in ItType
    PROVE  /\ On(kvs, x) => View(b, x) = [cur |-> x.current_entry_offset, on |-> TRUE]
           /\ Off(kvs, x) => View(b, x) = [cur |-> x.current_entry_offset, on |-> FALSE]
<1>1. /\ x.val_offset \in Nat /\ x.offset \in Nat /\ x.current_entry_offset \in Nat
      /\ Len(kvs) \in Nat /\ restarts_off(b) = Len(kvs)
  BY ItFields, BlockFacts
<1>2. ASSUME On(kvs, x) PROVE Stands(b, x) = TRUE
  BY <1>1, <1>2 DEF On, Stands
<1>3. ASSUME Off(kvs, x) PROVE Stands(b, x) = FALSE
  BY <1>1, <1>3 DEF Off, Stands
<1> QED BY <1>2, <1>3 DEF View

\* advance() is EntryIter's.
LEMMA AdvanceView ==
    ASSUME NEW b, NEW kvs, BlockHolds(b, kvs), NEW x, IterHolds(b, kvs, x)
    PROVE  /\ IterHolds(b, kvs, advance(b, x))
           /\ View(b, advance(b, x)) = Abs!ItAdvance(kvs, View(b, x))
           /\ Abs!ItAdvance(kvs, View(b, x)).on = advance_ok(b, x)
<1>1. x \in ItType /\ Ready(b, kvs, x)
  BY IterReady DEF IterHolds
<1>2. x.offset \in Nat /\ x.current_entry_offset \in Nat /\ Len(kvs) \in Nat
  BY <1>1, ItFields, BlockFacts
<1> DEFINE y == advance(b, x)
           next == IF View(b, x).on THEN View(b, x).cur + 1 ELSE 0
<1>3. next = x.offset
  <2>1. CASE On(kvs, x)
    <3>1. View(b, x) = [cur |-> x.current_entry_offset, on |-> TRUE]
      BY <1>1, <2>1, ViewOf
    <3> QED BY <2>1, <3>1 DEF On
  <2>2. CASE Off(kvs, x)
    <3>1. View(b, x) = [cur |-> x.current_entry_offset, on |-> FALSE]
      BY <1>1, <2>2, ViewOf
    <3> QED BY <2>2, <3>1 DEF Off
  <2> QED BY <2>1, <2>2 DEF IterHolds
<1>4. Abs!ItAdvance(kvs, View(b, x)) =
          IF x.offset < Len(kvs) THEN [cur |-> x.offset, on |-> TRUE]
          ELSE Abs!ItReset(View(b, x))
  BY <1>3 DEF Abs!ItAdvance
<1> HIDE DEF next
<1>5. CASE x.offset < Len(kvs)
  <2>1. /\ advance_ok(b, x) = TRUE /\ IterHolds(b, kvs, y) /\ On(kvs, y)
        /\ y.current_entry_offset = x.offset
    BY <1>1, <1>5, AdvanceReads DEF advance_ok
  <2>2. y \in ItType
    BY <2>1 DEF IterHolds
  <2> HIDE DEF y
  <2>3. View(b, y) = [cur |-> x.offset, on |-> TRUE]
    BY <2>1, <2>2, ViewOf
  <2> QED BY <1>4, <1>5, <2>1, <2>3 DEF y
<1>6. CASE ~(x.offset < Len(kvs))
  <2>1. y = reset(x) /\ advance_ok(b, x) = FALSE
    BY <1>2, <1>6, AdvanceEnds DEF advance_ok
  <2>2. x.current_entry_offset = 0 \/ x.current_entry_offset < Len(kvs)
    BY <1>2 DEF IterHolds, On, Off
  <2>3. IterHolds(b, kvs, reset(x)) /\ Off(kvs, reset(x)) /\ reset(x) \in ItType
    BY <1>1, <2>2, ResetHolds DEF IterHolds
  <2>4. View(b, reset(x)) = [cur |-> x.current_entry_offset, on |-> FALSE]
    BY <1>1, <2>3, ViewOf, ResetFields
  <2>5. Abs!ItReset(View(b, x)) = [cur |-> x.current_entry_offset, on |-> FALSE]
    BY DEF Abs!ItReset, View
  <2>6. Abs!ItAdvance(kvs, View(b, x)) = [cur |-> x.current_entry_offset, on |-> FALSE]
    BY <1>4, <1>6, <2>5
  <2> HIDE DEF y
  <2>7. IterHolds(b, kvs, y) /\ View(b, y) = Abs!ItAdvance(kvs, View(b, x))
    BY <2>1, <2>3, <2>4, <2>6
  <2>8. Abs!ItAdvance(kvs, View(b, x)).on = FALSE
    BY <2>6
  <2> QED BY <2>1, <2>7, <2>8 DEF y
<1> QED BY <1>5, <1>6

\* reset() is EntryIter's, and so is prev() on the first entry.
LEMMA ResetView ==
    ASSUME NEW b, NEW kvs, BlockHolds(b, kvs), NEW x, IterHolds(b, kvs, x)
    PROVE  /\ IterHolds(b, kvs, reset(x))
           /\ View(b, reset(x)) = Abs!ItReset(View(b, x))
           /\ Abs!ItReset(View(b, x)).on = FALSE
           /\ x.current_entry_offset = 0 => Abs!ItPrev(View(b, x)) = Abs!ItReset(View(b, x))
           /\ reset(x) \in ItType
<1>1. x \in ItType
  BY DEF IterHolds
<1>2. x.offset \in Nat /\ x.current_entry_offset \in Nat /\ Len(kvs) \in Nat
  BY <1>1, ItFields, BlockFacts
<1>3. x.current_entry_offset = 0 \/ x.current_entry_offset < Len(kvs)
  BY <1>2 DEF IterHolds, On, Off
<1>4. IterHolds(b, kvs, reset(x)) /\ Off(kvs, reset(x)) /\ reset(x) \in ItType
  BY <1>1, <1>3, ResetHolds DEF IterHolds
<1>5. View(b, reset(x)) = [cur |-> x.current_entry_offset, on |-> FALSE]
  BY <1>1, <1>4, ViewOf, ResetFields
<1>6. Abs!ItReset(View(b, x)) = [cur |-> x.current_entry_offset, on |-> FALSE]
  BY DEF Abs!ItReset, View
<1>7. x.current_entry_offset = 0 => Abs!ItPrev(View(b, x)) = Abs!ItReset(View(b, x))
  BY DEF Abs!ItPrev, View
<1> QED BY <1>4, <1>5, <1>6, <1>7

\* A step of prev() from a place before the original entry: the next entry, and
\* at the end the one before the original.
LEMMA PrevView ==
    ASSUME NEW b, NEW kvs, BlockHolds(b, kvs), NEW x, Ready(b, kvs, x),
           NEW orig \in Nat, x.offset < orig, orig < Len(kvs),
           NEW pre \in ItType, pre.current_entry_offset = orig
    PROVE  LET y == advance(b, x)
           IN  /\ IterHolds(b, kvs, y) /\ Ready(b, kvs, y) /\ advance_ok(b, x)
               /\ BackAtOriginal(y, orig) =>
                     View(b, y) = Abs!ItPrev(View(b, pre)) /\ Abs!ItPrev(View(b, pre)).on = TRUE
               /\ ~BackAtOriginal(y, orig) => y.offset < orig
<1> DEFINE y == advance(b, x)
<1>1. x \in ItType /\ x.offset \in Nat /\ Len(kvs) \in Nat /\ x.offset < Len(kvs)
  BY ItFields, BlockFacts DEF Ready
<1>2. /\ advance_ok(b, x) /\ IterHolds(b, kvs, y) /\ On(kvs, y)
      /\ y.offset = x.offset + 1 /\ y.current_entry_offset = x.offset
  BY <1>1, AdvanceReads
<1>3. y \in ItType
  BY <1>2 DEF IterHolds
<1> HIDE DEF y
<1>4. View(b, y) = [cur |-> x.offset, on |-> TRUE]
  BY <1>2, <1>3, ViewOf
<1>5. orig # 0
  BY <1>1
<1>6. Abs!ItPrev(View(b, pre)) = [cur |-> orig - 1, on |-> TRUE]
  BY <1>5 DEF Abs!ItPrev, View
<1>7. BackAtOriginal(y, orig) => x.offset = orig - 1
  BY <1>1, <1>2 DEF BackAtOriginal
<1>8. ~BackAtOriginal(y, orig) => y.offset < orig
  BY <1>1, <1>2 DEF BackAtOriginal
<1>9. Ready(b, kvs, y)
  BY <1>2, IterReady
<1>10. BackAtOriginal(y, orig) =>
           View(b, y) = Abs!ItPrev(View(b, pre)) /\ Abs!ItPrev(View(b, pre)).on = TRUE
  <2>1. Abs!ItPrev(View(b, pre)).on = TRUE
    BY <1>6
  <2>2. BackAtOriginal(y, orig) => View(b, y) = Abs!ItPrev(View(b, pre))
    BY <1>4, <1>6, <1>7
  <2> QED BY <2>1, <2>2
<1> QED BY <1>2, <1>8, <1>9, <1>10 DEF y

\* The key of the entry at a restart point.
RestartKey(b, kvs, ix) == kvs[get_restart_point(b, ix) + 1].key

\* The binary search of seek() keeps the entry it looks for between the restart
\* points left and right + 1.
SearchHolds(b, kvs, left, right, to) ==
    /\ left \in Nat /\ right \in Nat /\ left <= right /\ right < number_restarts(b)
    /\ left = 0 \/ Less(RestartKey(b, kvs, left), to)
    /\ right = number_restarts(b) - 1 \/ ~Less(RestartKey(b, kvs, right + 1), to)

\* The scan of seek() is past entries below the target only, remembers the last
\* of them, and is before the first entry when an empty key there stops it.
ScanHolds(b, kvs, x, to) ==
    /\ Ready(b, kvs, x)
    /\ \A i \in 1 .. x.offset : Less(kvs[i].key, to)
    /\ Len(kvs) = 0 => x.current_entry_offset = 0
    /\ Len(kvs) > 0 /\ x.offset = Len(kvs) => x.current_entry_offset = Len(kvs) - 1
    /\ Abs!StopsAtEmpty(kvs, to) => x.offset = 0
    /\ x.offset = 0 /\ Len(kvs) > 0 /\ kvs[1].key = <<>> => Abs!StopsAtEmpty(kvs, to)

\* A round of the binary search: the middle restart point lies strictly above
\* left, so its key is not empty and the assertions in seek_to_restart_point
\* hold.
LEMMA SearchRound ==
    ASSUME NEW b, NEW kvs, BlockHolds(b, kvs), NEW x \in ItType, NEW to,
           NEW left, NEW right, SearchHolds(b, kvs, left, right, to), left < right
    PROVE  LET m == Middle(left, right)
               y == seek_to_restart_point(b, x, m)
           IN  /\ ~restart_panics(b, x, m) /\ y \in ItType /\ Len(kvs) > 0
               /\ Less(y.key, to) => SearchHolds(b, kvs, m, right, to)
               /\ ~Less(y.key, to) => SearchHolds(b, kvs, left, m - 1, to)
<1> DEFINE nr == number_restarts(b)
           m  == Middle(left, right)
           y  == seek_to_restart_point(b, x, m)
<1>1. left \in Nat /\ right \in Nat /\ right < nr /\ nr \in Nat /\ Len(kvs) \in Nat
  BY BlockFacts DEF SearchHolds
<1>2. m \in Nat /\ left < m /\ m <= right /\ m - 1 \in Nat /\ left <= m - 1 /\ m - 1 < nr
  BY <1>1 DEF Middle
<1>3. Len(kvs) > 0
  <2>1. nr # 1
    BY <1>1
  <2> QED BY <1>1, <2>1 DEF BlockHolds
<1> HIDE DEF m
<1>4. m \in 0 .. nr - 1 /\ 0 \in 0 .. nr - 1 /\ m > 0 /\ (m - 1) + 1 = m /\ m < nr
  BY <1>1, <1>2
<1>5. /\ y \in ItType /\ y.key = RestartKey(b, kvs, m)
      /\ restart_panics(b, x, m) <=> y.key = <<>>
  BY <1>3, <1>4, RestartReads DEF IterHolds, RestartKey
<1> HIDE DEF y
<1>6. y.key # <<>>
  <2> DEFINE p == get_restart_point(b, m)
  <2>1. get_restart_point(b, 0) = 0 /\ get_restart_point(b, 0) < p
    BY <1>4 DEF BlockHolds
  <2>2. p \in Nat /\ p < Len(kvs)
    BY <1>3, <1>4, BlockFacts
  <2>3. RestartKey(b, kvs, m) = kvs[p + 1].key
    BY DEF RestartKey
  <2> HIDE DEF p
  <2>4. p + 1 \in 1 .. Len(kvs) /\ p + 1 # 1
    BY <1>1, <2>1, <2>2
  <2> QED BY <1>5, <2>3, <2>4, OnlyFirstEmpty
<1>7. Less(y.key, to) => SearchHolds(b, kvs, m, right, to)
  BY <1>1, <1>2, <1>5 DEF SearchHolds
<1>8. ~Less(y.key, to) => SearchHolds(b, kvs, left, m - 1, to)
  BY <1>1, <1>2, <1>4, <1>5 DEF SearchHolds
<1> QED BY <1>3, <1>5, <1>6, <1>7, <1>8 DEF y, m

\* The entries before one that is below the target are below it too.
LEMMA BelowBefore ==
    ASSUME NEW b, NEW kvs, BlockHolds(b, kvs), NEW to \in ByteString,
           NEW i \in 1 .. Len(kvs), NEW j \in 1 .. Len(kvs), i <= j, Less(kvs[j].key, to)
    PROVE  Less(kvs[i].key, to)
<1>1. kvs[i].key \in ByteString /\ kvs[j].key \in ByteString
  BY BlockFacts
<1>2. i = j \/ Less(kvs[i].key, kvs[j].key)
  BY BlockFacts
<1> QED BY <1>1, <1>2, LessTransitive

\* The end of the binary search: the scan may start at the restart point left.
LEMMA SearchEnds ==
    ASSUME NEW b, NEW kvs, BlockHolds(b, kvs), NEW x \in ItType, NEW to \in ByteString,
           NEW left, SearchHolds(b, kvs, left, left, to),
           Len(kvs) = 0 => x.current_entry_offset = 0
    PROVE  ScanHolds(b, kvs, [x EXCEPT !.current_restart_ix = left,
                                       !.offset = get_restart_point(b, left)], to)
<1> DEFINE nr == number_restarts(b)
           n  == Len(kvs)
           p  == get_restart_point(b, left)
           y  == [x EXCEPT !.current_restart_ix = left, !.offset = p]
<1>1. /\ left \in Nat /\ left < nr /\ nr \in Nat /\ n \in Nat /\ nr > 0
      /\ left = 0 \/ Less(RestartKey(b, kvs, left), to)
      /\ left = nr - 1 \/ ~Less(RestartKey(b, kvs, left + 1), to)
  BY BlockFacts DEF SearchHolds
<1>2. left \in 0 .. nr - 1 /\ 0 \in 0 .. nr - 1
  BY <1>1
<1>3. p \in Nat
  BY <1>2, BlockFacts
<1>4. y \in ItType
  BY <1>1, <1>3 DEF ItType
<1>5. y.current_restart_ix = left /\ y.offset = p
  BY DEF ItType
<1>6. y.current_entry_offset = x.current_entry_offset
  BY DEF ItType
<1>7. RestartKey(b, kvs, left) = kvs[p + 1].key
  BY DEF RestartKey
<1>8. left = 0 => p = 0
  BY DEF BlockHolds
<1> HIDE DEF y
<1>9. Ready(b, kvs, y) /\ (n > 0 => p < n)
  BY <1>1, <1>2, <1>4, <1>5, RestartReady
<1>10. ASSUME left > 0
       PROVE  /\ n > 0 /\ BlockRestartInterval <= p /\ nr > 1
              /\ get_restart_point(b, 1) = BlockRestartInterval /\ BlockRestartInterval < n
  <2>1. nr > 1 /\ 1 \in 0 .. nr - 1 /\ (left = 1 \/ 1 < left)
    BY <1>1, <1>10
  <2>2. get_restart_point(b, 1) = BlockRestartInterval /\ BlockRestartInterval < n
    BY <2>1 DEF BlockHolds
  <2>3. left = 1 \/ get_restart_point(b, 1) < p
    BY <1>2, <2>1 DEF BlockHolds
  <2> HIDE DEF p, n
  <2>4. BlockRestartInterval <= p
    BY <1>3, <2>2, <2>3, RestartIntervalAssumption DEF p
  <2> QED BY <1>1, <2>1, <2>2, <2>4, RestartIntervalAssumption
<1> HIDE DEF p
<1>11. \A i \in 1 .. p : Less(kvs[i].key, to)
  <2> SUFFICES ASSUME NEW i \in 1 .. p PROVE Less(kvs[i].key, to)
    OBVIOUS
  <2>1. left > 0
    BY <1>1, <1>3, <1>8
  <2>2. p + 1 \in 1 .. n /\ i \in 1 .. n /\ i <= p + 1
    BY <2>1, <1>1, <1>3, <1>9, <1>10
  <2>3. Less(kvs[p + 1].key, to)
    BY <2>1, <1>1, <1>7
  <2> QED BY <2>2, <2>3, BelowBefore
<1>12. n > 0 => p # n
  BY <1>1, <1>3, <1>9
<1>13. ASSUME Abs!StopsAtEmpty(kvs, to) PROVE p = 0
  <2> SUFFICES ASSUME left > 0 PROVE FALSE
    BY <1>1, <1>8
  <2>1. BlockRestartInterval < n /\ BlockRestartInterval <= p
    BY <1>10
  <2>2. ~Less(kvs[BlockRestartInterval + 1].key, to)
    BY <1>1, <1>13, <2>1, RestartIntervalAssumption, AbsLess DEF Abs!StopsAtEmpty
  <2>3. /\ p + 1 \in 1 .. n /\ BlockRestartInterval + 1 \in 1 .. n
        /\ BlockRestartInterval + 1 <= p + 1
    BY <2>1, <1>1, <1>3, <1>9, <1>10, RestartIntervalAssumption
  <2>4. Less(kvs[p + 1].key, to)
    BY <1>1, <1>7
  <2> QED BY <2>2, <2>3, <2>4, BelowBefore
<1>14. ASSUME p = 0, n > 0, kvs[1].key = <<>> PROVE Abs!StopsAtEmpty(kvs, to)
  <2>1. left = 0
    <3> SUFFICES ASSUME left > 0 PROVE FALSE
      BY <1>1
    <3>1. 0 < p
      BY <1>2, <1>3 DEF BlockHolds, p
    <3> QED BY <3>1, <1>14
  <2>2. kvs # <<>>
    BY <1>14
  <2>3. n <= BlockRestartInterval \/ ~Less(kvs[BlockRestartInterval + 1].key, to)
    <3>1. CASE nr = 1
      BY <3>1 DEF BlockHolds
    <3>2. CASE nr # 1
      <4>1. nr > 1 /\ left # nr - 1 /\ left + 1 = 1
        BY <1>1, <2>1, <3>2
      <4>2. get_restart_point(b, 1) = BlockRestartInterval
        BY <4>1 DEF BlockHolds
      <4> QED BY <1>1, <4>1, <4>2 DEF RestartKey
    <3> QED BY <3>1, <3>2
  <2> QED BY <1>14, <2>2, <2>3, AbsLess DEF Abs!StopsAtEmpty
<1>15. n = 0 => y.current_entry_offset = 0
  BY <1>6
<1>16. ScanHolds(b, kvs, y, to)
  BY <1>5, <1>9, <1>11, <1>12, <1>13, <1>14, <1>15 DEF ScanHolds
<1> QED BY <1>16 DEF y, p

\* A step of the scan: past one more entry below the target, or the end, with
\* the result of EntryIter's seek.
LEMMA ScanView ==
    ASSUME NEW b, NEW kvs, BlockHolds(b, kvs), NEW to \in ByteString, NEW x,
           ScanHolds(b, kvs, x, to),
           NEW v, kvs = <<>> => v.cur = 0
    PROVE  LET y == advance(b, x)
           IN  IF valid(b, y) /\ Less(y.key, to) THEN ScanHolds(b, kvs, y, to)
               ELSE IterHolds(b, kvs, y) /\ View(b, y) = Abs!ItSeek(kvs, v, to)
<1> DEFINE y == advance(b, x)
           n == Len(kvs)
           A == Abs!AtOrAbove(kvs, to)
<1>1. /\ Ready(b, kvs, x) /\ x \in ItType /\ x.offset \in Nat /\ n \in Nat /\ x.offset <= n
      /\ x.current_entry_offset \in Nat
  BY ItFields, BlockFacts DEF ScanHolds, Ready
<1>2. /\ \A i \in 1 .. x.offset : Less(kvs[i].key, to)
      /\ n = 0 => x.current_entry_offset = 0
      /\ n > 0 /\ x.offset = n => x.current_entry_offset = n - 1
      /\ Abs!StopsAtEmpty(kvs, to) => x.offset = 0
      /\ x.offset = 0 /\ n > 0 /\ kvs[1].key = <<>> => Abs!StopsAtEmpty(kvs, to)
  BY DEF ScanHolds
<1>3. n > 0 <=> kvs # <<>>
  BY DEF BlockHolds
<1>4. /\ A \in SUBSET Nat /\ \A i \in A : i >= x.offset
      /\ \A i \in Nat : i \in A <=> i < n /\ ~Less(kvs[i + 1].key, to)
  <2>1. A = {i \in 0 .. n - 1 : ~Less(kvs[i + 1].key, to)}
    BY AbsLess DEF Abs!AtOrAbove
  <2> HIDE DEF A, n
  <2>2. A \in SUBSET Nat /\ \A i \in Nat : i \in A <=> i < n /\ ~Less(kvs[i + 1].key, to)
    BY <1>1, <2>1
  <2>3. ASSUME NEW i \in A, ~(i >= x.offset) PROVE FALSE
    <3>1. i \in Nat /\ ~Less(kvs[i + 1].key, to)
      BY <2>2
    <3>2. i + 1 \in 1 .. x.offset
      BY <3>1, <1>1, <2>3
    <3> QED BY <1>2, <3>1, <3>2
  <2> QED BY <2>2, <2>3
<1>5. CASE x.offset < n
  <2>1. /\ IterHolds(b, kvs, y) /\ On(kvs, y)
        /\ y.offset = x.offset + 1 /\ y.current_entry_offset = x.offset
    BY <1>1, <1>5, AdvanceReads
  <2>2. y \in ItType
    BY <2>1 DEF IterHolds
  <2> HIDE DEF y, A
  <2>3. View(b, y) = [cur |-> x.offset, on |-> TRUE]
    BY <2>1, <2>2, ViewOf
  <2>4. y.key = kvs[x.offset + 1].key /\ x.offset + 1 \in 1 .. n /\ n > 0
    BY <1>1, <1>5, <2>1 DEF On
  <2>5. valid(b, y) <=> y.key # <<>>
    <3>1. restarts_off(b) = n
      BY BlockFacts
    <3>2. y.val_offset = x.offset + 1
      BY <2>1 DEF On
    <3> QED BY <1>1, <1>5, <3>1, <3>2 DEF valid
  <2>6. Abs!StopsAtEmpty(kvs, to) => x.offset = 0 /\ y.key = <<>>
    <3>1. Abs!StopsAtEmpty(kvs, to) => kvs[1].key = <<>>
      BY DEF Abs!StopsAtEmpty
    <3> QED BY <1>2, <2>4, <3>1
  <2>7. y.key = <<>> => x.offset = 0 /\ Abs!StopsAtEmpty(kvs, to)
    <3> SUFFICES ASSUME y.key = <<>> PROVE x.offset = 0 /\ Abs!StopsAtEmpty(kvs, to)
      OBVIOUS
    <3>1. x.offset + 1 = 1
      BY <2>4, OnlyFirstEmpty
    <3>2. x.offset = 0 /\ kvs[1].key = <<>>
      BY <1>1, <2>4, <3>1
    <3> QED BY <1>2, <2>4, <3>2
  <2>8. CASE y.key = <<>>
    <3>1. Abs!ItSeek(kvs, v, to) = [cur |-> 0, on |-> TRUE]
      BY <2>7, <2>8 DEF Abs!ItSeek
    <3>2. View(b, y) = Abs!ItSeek(kvs, v, to)
      BY <2>3, <2>7, <2>8, <3>1
    <3> QED BY <2>1, <2>5, <2>8, <3>2 DEF y
  <2>9. CASE y.key # <<>> /\ Less(y.key, to)
    <3>1. \A i \in 1 .. y.offset : Less(kvs[i].key, to)
      <4>1. \A i \in 1 .. y.offset : i \in 1 .. x.offset \/ i = x.offset + 1
        BY <1>1, <2>1
      <4> QED BY <1>2, <2>4, <2>9, <4>1
    <3>2. Ready(b, kvs, y)
      BY <2>1, IterReady
    <3>3. y.offset = n => y.current_entry_offset = n - 1
      BY <1>1, <2>1
    <3>4. y.offset # 0
      BY <1>1, <2>1
    <3>5. ScanHolds(b, kvs, y, to)
      BY <2>4, <2>6, <2>9, <3>1, <3>2, <3>3, <3>4 DEF ScanHolds
    <3> QED BY <2>5, <2>9, <3>5 DEF y
  <2>10. CASE y.key # <<>> /\ ~Less(y.key, to)
    <3>1. ~Abs!StopsAtEmpty(kvs, to)
      BY <2>6, <2>10
    <3>2. x.offset \in A
      BY <1>1, <1>4, <1>5, <2>4, <2>10
    <3>3. Abs!Min(A) = x.offset
      <4>1. Abs!Min(A) = CHOOSE i \in A : \A j \in A : i <= j
        BY DEF Abs!Min
      <4>2. \A i \in A : (\A j \in A : i <= j) => i = x.offset
        BY <1>1, <1>4, <3>2
      <4>3. \A j \in A : x.offset <= j
        BY <1>1, <1>4
      <4> QED BY <3>2, <4>1, <4>2, <4>3
    <3>4. Abs!ItSeek(kvs, v, to) = [cur |-> x.offset, on |-> TRUE]
      BY <3>1, <3>2, <3>3 DEF Abs!ItSeek, A
    <3>5. View(b, y) = Abs!ItSeek(kvs, v, to)
      BY <2>3, <3>4
    <3> QED BY <2>1, <2>10, <3>5 DEF y
  <2> QED BY <2>8, <2>9, <2>10
<1>6. CASE x.offset = n
  <2>1. y = reset(x)
    BY <1>1, <1>6, AdvanceEnds
  <2>2. x.current_entry_offset = 0 \/ x.current_entry_offset < n
    BY <1>1, <1>2, <1>6
  <2>3. IterHolds(b, kvs, y) /\ Off(kvs, y) /\ y \in ItType
    BY <1>1, <2>1, <2>2, ResetHolds DEF IterHolds
  <2>4. View(b, y) = [cur |-> x.current_entry_offset, on |-> FALSE]
    BY <1>1, <2>1, <2>3, ViewOf, ResetFields
  <2>5. ~valid(b, y)
    BY <2>3 DEF valid, Off
  <2>6. A = {}
    <3> HIDE DEF A, n
    <3> SUFFICES ASSUME NEW i \in A PROVE FALSE
      OBVIOUS
    <3>1. i \in Nat /\ i < n /\ i >= x.offset
      BY <1>4
    <3> QED BY <3>1, <1>1, <1>6
  <2>7. ~Abs!StopsAtEmpty(kvs, to)
    <3> SUFFICES ASSUME Abs!StopsAtEmpty(kvs, to) PROVE FALSE
      OBVIOUS
    <3>1. kvs # <<>>
      BY DEF Abs!StopsAtEmpty
    <3> QED BY <1>1, <1>2, <1>3, <1>6, <3>1
  <2>8. x.current_entry_offset = IF kvs = <<>> THEN v.cur ELSE n - 1
    <3>1. kvs = <<>> => n = 0
      BY <1>1, <1>3
    <3> QED BY <1>1, <1>2, <1>3, <1>6, <3>1
  <2>9. Abs!ItSeek(kvs, v, to) = [cur |-> x.current_entry_offset, on |-> FALSE]
    BY <2>6, <2>7, <2>8 DEF Abs!ItSeek
  <2> HIDE DEF y
  <2>10. View(b, y) = Abs!ItSeek(kvs, v, to)
    BY <2>4, <2>9
  <2> QED BY <2>3, <2>5, <2>10 DEF y
<1> QED BY <1>1, <1>5, <1>6

\* seek_to_last() fails its assertion exactly where EntryIter says so, and
\* otherwise reads the entry at the last restart point.
LEMMA LastBegins ==
    ASSUME NEW b, NEW kvs, BlockHolds(b, kvs), NEW x \in ItType,
           NEW ix, ix = number_restarts(b) - 1
    PROVE  LET y == seek_to_restart_point(b, x, ix)
           IN  /\ restart_panics(b, x, ix) => \/ kvs = <<>>
                                              \/ kvs[1].key = <<>> /\ number_restarts(b) = 1
               /\ ~restart_panics(b, x, ix) =>
                     /\ ~Abs!LastPanics(kvs) /\ IterHolds(b, kvs, y) /\ On(kvs, y)
<1> DEFINE nr == number_restarts(b)
           y  == seek_to_restart_point(b, x, ix)
           p  == get_restart_point(b, ix)
<1>1. nr \in Nat /\ nr > 0 /\ Len(kvs) \in Nat /\ restarts_off(b) = Len(kvs)
  BY BlockFacts
<1>2. ix \in 0 .. nr - 1 /\ 0 \in 0 .. nr - 1
  BY <1>1
<1>3. Len(kvs) = 0 <=> kvs = <<>>
  BY DEF BlockHolds
<1>4. p \in Nat
  BY <1>2, BlockFacts
<1>5. CASE Len(kvs) = 0
  <2>1. p >= restarts_off(b)
    BY <1>1, <1>4, <1>5
  <2>2. restart_panics(b, x, ix)
    BY <2>1 DEF restart_panics
  <2> QED BY <1>3, <1>5, <2>2
<1>6. CASE Len(kvs) > 0
  <2>1. /\ IterHolds(b, kvs, y) /\ On(kvs, y) /\ y.key = kvs[p + 1].key
        /\ restart_panics(b, x, ix) <=> y.key = <<>>
    BY <1>2, <1>6, RestartReads
  <2>2. p + 1 \in 1 .. Len(kvs)
    BY <1>1, <1>2, <1>4, <1>6, BlockFacts
  <2>3. nr = 1 => p = 0
    BY DEF BlockHolds
  <2>4. nr > 1 => p > 0
    <3> SUFFICES ASSUME nr > 1 PROVE p > 0
      OBVIOUS
    <3>1. 0 < ix
      BY <1>1
    <3> QED BY <1>2, <3>1 DEF BlockHolds
  <2>5. nr = 1 => Len(kvs) <= BlockRestartInterval
    BY DEF BlockHolds
  <2>6. nr > 1 => BlockRestartInterval < Len(kvs)
    BY DEF BlockHolds
  <2> HIDE DEF y, p
  <2>7. ASSUME restart_panics(b, x, ix) PROVE kvs[1].key = <<>> /\ nr = 1
    <3>1. p + 1 = 1
      BY <2>1, <2>2, <2>7, OnlyFirstEmpty
    <3> QED BY <1>1, <1>4, <2>1, <2>4, <2>7, <3>1
  <2>8. ASSUME ~restart_panics(b, x, ix) PROVE ~Abs!LastPanics(kvs)
    <3> SUFFICES ASSUME Abs!LastPanics(kvs) PROVE FALSE
      OBVIOUS
    <3>1. kvs[1].key = <<>> /\ Len(kvs) <= BlockRestartInterval
      BY <1>3, <1>6 DEF Abs!LastPanics
    <3>2. nr = 1
      BY <1>1, <2>6, <3>1, RestartIntervalAssumption
    <3> QED BY <2>1, <2>3, <2>8, <3>1, <3>2
  <2> QED BY <2>1, <2>7, <2>8 DEF y
<1> QED BY <1>1, <1>5, <1>6

\* The end of seek_to_last(): its last assertion holds, and the iterator stands
\* on the last entry.
LEMMA LastEnds ==
    ASSUME BlockRestartInterval > 0,
           NEW b, NEW kvs, BlockHolds(b, kvs), NEW x, IterHolds(b, kvs, x), On(kvs, x),
           ~Abs!LastPanics(kvs), ~BeforeEnd(b, x)
    PROVE  valid(b, x) /\ View(b, x) = Abs!ItLast(kvs)
<1>1. /\ x \in ItType /\ x.offset \in Nat /\ x.current_entry_offset \in Nat
      /\ Len(kvs) \in Nat /\ restarts_off(b) = Len(kvs)
  BY ItFields, BlockFacts DEF IterHolds
<1>2. /\ x.offset = Len(kvs) /\ x.current_entry_offset = Len(kvs) - 1
      /\ Len(kvs) > 0 /\ Len(kvs) \in 1 .. Len(kvs) /\ x.val_offset = Len(kvs)
  BY <1>1 DEF On, BeforeEnd
<1>3. x.key = kvs[Len(kvs)].key
  BY <1>2 DEF On
<1>4. x.key # <<>>
  <2> SUFFICES ASSUME x.key = <<>> PROVE FALSE
    OBVIOUS
  <2>1. Len(kvs) = 1
    BY <1>2, <1>3, OnlyFirstEmpty
  <2>2. Len(kvs) <= BlockRestartInterval
    BY <2>1, RestartIntervalAssumption
  <2> QED BY <1>3, <2>1, <2>2 DEF Abs!LastPanics
<1>5. View(b, x) = [cur |-> Len(kvs) - 1, on |-> TRUE]
  BY <1>1, <1>2, ViewOf
<1> QED BY <1>1, <1>2, <1>4, <1>5 DEF valid, Abs!ItLast

-----------------------------------------------------------------------------

\* prev() has an entry to go back to.
PrevHolds ==
    /\ call.op = "prev"
    /\ call.orig = call.pre.current_entry_offset
    /\ call.orig > 0 /\ call.orig < Len(added)

SeekHolds == call.op = "seek" /\ call.to \in Keys

\* What every place of a call knows of the block, the iterator and the local
\* variables.
PlaceHolds ==
    /\ pc = "build" => it = NewIter /\ call = NoCall
    /\ pc = "idle" => IterHolds(block, added, it) /\ call = NoCall
    /\ pc \in Running => IterHolds(block, added, call.pre)
    /\ pc = "walk" => PrevHolds /\ it.current_restart_ix < number_restarts(block)
    /\ pc = "back" => PrevHolds /\ Ready(block, added, it) /\ it.offset < call.orig
    /\ pc = "bsearch" => /\ SeekHolds
                         /\ Len(added) = 0 => it.current_entry_offset = 0
                         /\ SearchHolds(block, added, call.left, call.right, call.to)
    /\ pc = "scan" => SeekHolds /\ ScanHolds(block, added, it, call.to)
    /\ pc = "last" => /\ call.op = "seek_to_last"
                      /\ IterHolds(block, added, it) /\ On(added, it)
                      /\ ~Abs!LastPanics(added)
    /\ OnlyCallerPanics

\* The inductive invariant.
Inv ==
    /\ Holds(builder, added)
    /\ added \in Seq([key : Keys, val : Vals])
    /\ pc \in {"build", "idle", "walk", "back", "bsearch", "scan", "last", "panic"}
    /\ it \in ItType
    /\ call \in CallType
    /\ ret \in BOOLEAN
    /\ PlaceHolds

\* A step of BlockIter, seen as a step of EntryIter.
AbsNext == [Abs!Next]_(Abs!vars)

\* A step that changes neither the entries nor what is seen of the iterator.
LEMMA Unseen ==
    ASSUME pc # "build", pc' # "build", added' = added, ret' = ret, AbsIter' = AbsIter
    PROVE  AbsNext
BY DEF AbsNext, Abs!vars

\* A call that returns advance()'s or prev()'s result.
LEMMA SeenStep ==
    ASSUME pc # "build", pc' # "build", added' = added, NEW y, AbsIter' = y, ret' = y.on,
           y = Abs!ItAdvance(added, AbsIter) \/ y = Abs!ItPrev(AbsIter)
    PROVE  AbsNext
<1>1. Abs!Step(y)
  BY DEF Abs!Step
<1> QED BY <1>1 DEF AbsNext, Abs!Next

\* A call that returns nothing.
LEMMA SeenMove ==
    ASSUME pc # "build", pc' # "build", added' = added, NEW y, AbsIter' = y, ret' = ret,
           \/ y = Abs!ItReset(AbsIter)
           \/ \E to \in Keys : y = Abs!ItSeek(added, AbsIter, to)
           \/ ~Abs!LastPanics(added) /\ y = Abs!ItLast(added)
    PROVE  AbsNext
<1>1. Abs!Move(y)
  BY DEF Abs!Move
<1> QED BY <1>1 DEF AbsNext, Abs!Next

\* No entries, no call: the invariant holds at first.
LEMMA InvInit ==
    ASSUME BlockRestartInterval > 0, Init
    PROVE  Inv /\ Abs!Init
<1>1. NewIter \in ItType
  BY DEF NewIter, ItType, NoKey, ByteString
<1>2. NoCall \in CallType
  BY <1>1 DEF NoCall, CallType, NoKey, ByteString
<1>3. Holds(builder, added)
  BY NewHolds DEF Init
<1>4. PlaceHolds
  BY DEF Init, PlaceHolds, Running, OnlyCallerPanics
<1>5. AbsIter = [cur |-> 0, on |-> FALSE]
  <2>1. AbsIter = View(block, NewIter)
    BY AbsIterIs DEF Init, Running
  <2>2. Stands(block, NewIter) = FALSE
    BY DEF Stands, NewIter
  <2> QED BY <2>1, <2>2 DEF View, NewIter
<1>6. Abs!Init
  BY <1>5 DEF Init, Abs!Init, Abs!ItNew
<1>7. added \in Seq([key : Keys, val : Vals])
  BY DEF Init
<1>8. it \in ItType /\ call \in CallType /\ ret \in BOOLEAN /\ pc = "build"
  BY <1>1, <1>2 DEF Init
<1> QED BY <1>3, <1>4, <1>6, <1>7, <1>8 DEF Inv

\* The block an invariant state reads from.
LEMMA InvBlock ==
    ASSUME BlockRestartInterval > 0, Inv
    PROVE  BlockHolds(block, added)
BY FinishHolds DEF Inv, block

\* Where the block stays, so do the facts that mention nothing but it.
LEMMA InvKept ==
    ASSUME Inv, UNCHANGED <<builder, added>>,
           pc' \in {"build", "idle", "walk", "back", "bsearch", "scan", "last", "panic"},
           it' \in ItType, call' \in CallType, ret' \in BOOLEAN, PlaceHolds'
    PROVE  Inv'
BY DEF Inv

\* The position after a step.
LEMMA AbsIterNext ==
    /\ pc' \in Running => AbsIter' = View(block', call'.pre)
    /\ pc' \notin Running => AbsIter' = View(block', it')
BY DEF AbsIter, View

\* What callers pass in are byte strings.
LEMMA KeyIsBytes ==
    ASSUME NEW k \in Keys, NEW v \in Vals
    PROVE  k \in ByteString /\ v \in Seq(Nat)
BY KeysAssumption

\* What is kept when no call is running.
LEMMA NoCallFields ==
    /\ NoCall \in CallType
    /\ NoCall.op = "none" /\ NoCall.left = 0
<1>1. NewIter \in ItType
  BY DEF NewIter, ItType, NoKey, ByteString
<1> QED BY <1>1 DEF NoCall, CallType, NoKey, ByteString

\* Adding an entry keeps the invariant, and the abstract iterator gets it too.
LEMMA AddKeyStep ==
    ASSUME BlockRestartInterval > 0, Inv, NEW k \in Keys, NEW v \in Vals, AddKey(k, v)
    PROVE  Inv' /\ AbsNext
<1>1. pc = "build" /\ it = NewIter /\ call = NoCall /\ UNCHANGED <<it, ret>>
  BY DEF AddKey, Inv, PlaceHolds
<1>2. AbsIter = View(block, NewIter)
  BY <1>1, AbsIterIs DEF Running
<1>3. CASE AddPanics(builder, k)
  <2> DEFINE c == [NoCall EXCEPT !.op = "add", !.to = k]
  <2>1. pc' = "panic" /\ UNCHANGED <<builder, added>> /\ call' = c
    BY <1>3 DEF AddKey
  <2>2. block' = block
    BY <2>1 DEF block
  <2>3. c \in CallType /\ c.op = "add" /\ c.to = k
    <3>1. k \in ByteString
      BY KeysAssumption
    <3> QED BY <3>1, NoCallFields DEF CallType
  <2> HIDE DEF c
  <2>4. added # <<>> /\ ~Less(added[Len(added)].key, k)
    BY <1>3, PanicsOnDisorder DEF Inv
  <2>5. PlaceHolds'
    BY <2>1, <2>3, <2>4 DEF PlaceHolds, Running, OnlyCallerPanics
  <2>6. Inv'
    BY <1>1, <2>1, <2>3, <2>5 DEF Inv
  <2>7. AbsIter' = AbsIter
    BY <1>1, <1>2, <2>1, <2>2, AbsIterNext DEF Running
  <2>8. Abs!Open
    BY <1>1, <2>1, <2>7 DEF Abs!Open
  <2> QED BY <2>6, <2>8 DEF AbsNext, Abs!Next
<1>4. CASE ~AddPanics(builder, k)
  <2> DEFINE kv == [key |-> k, val |-> v]
  <2>1. /\ pc' = pc /\ call' = call /\ builder' = AddEntry(builder, k, v)
        /\ added' = Append(added, kv)
    BY <1>4 DEF AddKey
  <2>2. Holds(builder, added) /\ added \in Seq([key : Keys, val : Vals])
    BY DEF Inv
  <2>3. Holds(builder', added')
    BY <1>4, <2>1, <2>2, AddHolds, KeyIsBytes
  <2>4. kv \in [key : Keys, val : Vals] /\ kv.key = k
    OBVIOUS
  <2> HIDE DEF kv
  <2>5. added' \in Seq([key : Keys, val : Vals])
    BY <2>1, <2>2, <2>4
  <2>6. PlaceHolds'
    BY <1>1, <2>1 DEF PlaceHolds, Running, OnlyCallerPanics
  <2>7. Inv'
    <3>1. it' \in ItType /\ call' \in CallType /\ ret' \in BOOLEAN
      BY <1>1, <2>1 DEF Inv
    <3> QED BY <1>1, <2>1, <2>3, <2>5, <2>6, <3>1 DEF Inv
  <2>8. AbsIter' = AbsIter
    <3>1. AbsIter' = View(block', NewIter)
      BY <1>1, <2>1, AbsIterNext DEF Running
    <3>2. Stands(block', NewIter) = FALSE /\ Stands(block, NewIter) = FALSE
      BY DEF Stands, NewIter
    <3> QED BY <1>2, <3>1, <3>2 DEF View
  <2>9. \A i \in 1 .. Len(added) : Less(added[i].key, k)
    <3> DEFINE n == Len(added)
    <3>1. /\ n \in Nat /\ Len(added') = n + 1 /\ added'[n + 1] = kv
          /\ \A i \in 1 .. n : added'[i] = added[i]
      BY <2>1, <2>2, <2>4, AppendProperties
    <3>2. \A i, j \in 1 .. Len(added') : i < j => Less(added'[i].key, added'[j].key)
      BY <2>3 DEF Holds, Ascending
    <3> HIDE DEF n
    <3>3. \A i \in 1 .. n : i \in 1 .. n + 1 /\ n + 1 \in 1 .. n + 1 /\ i < n + 1
      BY <3>1
    <3>4. \A i \in 1 .. n : Less(added[i].key, k)
      BY <2>4, <3>1, <3>2, <3>3
    <3> QED BY <3>4 DEF n
  <2>10. Abs!Add(kv)
    <3>1. (pc' # "build") = (pc # "build") /\ ~(pc # "build") /\ ret' = ret
      BY <1>1, <2>1
    <3> QED BY <2>1, <2>4, <2>8, <2>9, <3>1, AbsLess DEF Abs!Add
  <2>11. kv \in Abs!KeyVal
    BY <2>4 DEF Abs!KeyVal
  <2> QED BY <2>7, <2>10, <2>11 DEF AbsNext, Abs!Next
<1> QED BY <1>3, <1>4

\* So does closing the block.
LEMMA FinishStep ==
    ASSUME BlockRestartInterval > 0, Inv, FinishBlock
    PROVE  Inv' /\ AbsNext
<1>1. /\ pc = "build" /\ it = NewIter /\ call = NoCall /\ pc' = "idle"
      /\ UNCHANGED <<builder, added, it, call, ret>>
  BY DEF FinishBlock, Inv, PlaceHolds
<1>2. block' = block /\ BlockHolds(block, added)
  BY <1>1, InvBlock DEF block
<1>3. IterHolds(block, added, NewIter)
  <2>1. NewIter \in ItType
    BY <1>1 DEF Inv
  <2> QED BY <1>2, <2>1, BlockFacts DEF IterHolds, Off, NewIter, NoKey
<1>4. PlaceHolds'
  BY <1>1, <1>2, <1>3 DEF PlaceHolds, Running, OnlyCallerPanics
<1>5. Inv'
  BY <1>1, <1>4 DEF Inv
<1>6. AbsIter' = AbsIter
  BY <1>1, <1>2, AbsIterIs, AbsIterNext DEF Running
<1>7. Abs!Open
  BY <1>1, <1>6 DEF Abs!Open
<1> QED BY <1>5, <1>7 DEF AbsNext, Abs!Next

\* What an operation finds between calls.
LEMMA IdleFacts ==
    ASSUME BlockRestartInterval > 0, Inv, pc = "idle"
    PROVE  /\ BlockHolds(block, added) /\ IterHolds(block, added, it) /\ it \in ItType
           /\ call = NoCall /\ AbsIter = View(block, it)
           /\ it.current_entry_offset \in Nat /\ Len(added) \in Nat
           /\ it.current_entry_offset = 0 \/ it.current_entry_offset < Len(added)
<1>1. BlockHolds(block, added) /\ IterHolds(block, added, it) /\ it \in ItType /\ call = NoCall
  BY InvBlock DEF Inv, PlaceHolds
<1>2. AbsIter = View(block, it)
  BY AbsIterIs DEF Running
<1>3. it.current_entry_offset \in Nat /\ Len(added) \in Nat /\ it.offset \in Nat
  BY <1>1, ItFields, BlockFacts
<1>4. it.current_entry_offset = 0 \/ it.current_entry_offset < Len(added)
  BY <1>1, <1>3 DEF IterHolds, On, Off
<1> QED BY <1>1, <1>2, <1>3, <1>4

\* A call has returned.
LEMMA Returned ==
    ASSUME Inv, UNCHANGED <<builder, added>>, pc' = "idle", call' = NoCall,
           IterHolds(block, added, it'), ret' \in BOOLEAN
    PROVE  Inv' /\ AbsIter' = View(block, it')
<1>1. block' = block /\ it' \in ItType
  BY DEF block, IterHolds
<1>2. NoCall \in CallType
  <2>1. NewIter \in ItType
    BY DEF NewIter, ItType, NoKey, ByteString
  <2> QED BY <2>1 DEF NoCall, CallType, NoKey, ByteString
<1>3. PlaceHolds'
  BY <1>1 DEF PlaceHolds, Running, OnlyCallerPanics
<1>4. Inv'
  BY <1>1, <1>2, <1>3 DEF Inv
<1> QED BY <1>1, <1>4, AbsIterNext DEF Running

\* BlockIter::advance is the abstract iterator's.
LEMMA AdvanceStep ==
    ASSUME BlockRestartInterval > 0, Inv, Advance
    PROVE  Inv' /\ AbsNext
<1>1. /\ pc = "idle" /\ pc' = "idle" /\ UNCHANGED <<builder, added, call>>
      /\ it' = advance(block, it) /\ ret' = advance_ok(block, it)
  BY DEF Advance
<1>2. BlockHolds(block, added) /\ IterHolds(block, added, it) /\ call = NoCall
      /\ AbsIter = View(block, it)
  BY <1>1, IdleFacts
<1>3. /\ IterHolds(block, added, it')
      /\ View(block, it') = Abs!ItAdvance(added, AbsIter)
      /\ Abs!ItAdvance(added, AbsIter).on = ret'
  BY <1>1, <1>2, AdvanceView
<1>4. ret' \in BOOLEAN
  BY <1>1 DEF advance_ok
<1>5. Inv' /\ AbsIter' = View(block, it')
  BY <1>1, <1>2, <1>3, <1>4, Returned
<1>6. AbsNext
  BY <1>1, <1>3, <1>5, SeenStep
<1> QED BY <1>5, <1>6

\* BlockIter::reset is the abstract iterator's.
LEMMA ResetStep ==
    ASSUME BlockRestartInterval > 0, Inv, Reset
    PROVE  Inv' /\ AbsNext
<1>1. /\ pc = "idle" /\ pc' = "idle" /\ UNCHANGED <<builder, added, call, ret>>
      /\ it' = reset(it)
  BY DEF Reset
<1>2. BlockHolds(block, added) /\ IterHolds(block, added, it) /\ call = NoCall
      /\ AbsIter = View(block, it)
  BY <1>1, IdleFacts
<1>3. IterHolds(block, added, it') /\ View(block, it') = Abs!ItReset(AbsIter)
  BY <1>1, <1>2, ResetView
<1>4. ret' \in BOOLEAN
  BY <1>1 DEF Inv
<1>5. Inv' /\ AbsIter' = View(block, it')
  BY <1>1, <1>2, <1>3, <1>4, Returned
<1>6. AbsNext
  BY <1>1, <1>3, <1>5, SeenMove
<1> QED BY <1>5, <1>6

\* The types of what a running call keeps.
LEMMA CallFields ==
    ASSUME NEW c \in CallType
    PROVE  /\ c.op \in {"none", "add", "prev", "seek", "seek_to_last"} /\ c.to \in ByteString
           /\ c.left \in Nat /\ c.right \in Int /\ c.orig \in Nat /\ c.pre \in ItType
BY DEF CallType

\* A call is under way, and its caller sees the iterator it called on.
LEMMA Calling ==
    ASSUME Inv, UNCHANGED <<builder, added, ret>>, pc' \in Running, it' \in ItType,
           call' \in CallType, PlaceHolds', pc # "build",
           AbsIter = View(block, call'.pre)
    PROVE  Inv' /\ AbsNext
<1>1. block' = block
  BY DEF block
<1>2. Inv'
  BY DEF Inv, Running
<1>3. AbsIter' = AbsIter
  BY <1>1, AbsIterNext
<1>4. pc' # "build"
  BY DEF Running
<1> QED BY <1>2, <1>3, <1>4, Unseen

\* What a step of a running call finds.
LEMMA RunningFacts ==
    ASSUME BlockRestartInterval > 0, Inv, pc \in Running
    PROVE  /\ BlockHolds(block, added) /\ IterHolds(block, added, call.pre) /\ it \in ItType
           /\ call \in CallType /\ AbsIter = View(block, call.pre)
           /\ pc # "build" /\ ret \in BOOLEAN
BY InvBlock, AbsIterIs DEF Inv, PlaceHolds, Running

\* The call of prev() and its walk to a restart point before the entry: no abstract step.
LEMMA PrevBegins ==
    ASSUME BlockRestartInterval > 0, Inv, Prev
    PROVE  Inv' /\ AbsNext
<1>1. pc = "idle" /\ UNCHANGED <<builder, added>> /\ block' = block
  BY DEF Prev, block
<1>2. /\ BlockHolds(block, added) /\ IterHolds(block, added, it) /\ it \in ItType
      /\ call = NoCall /\ AbsIter = View(block, it)
      /\ it.current_entry_offset \in Nat /\ Len(added) \in Nat
      /\ it.current_entry_offset = 0 \/ it.current_entry_offset < Len(added)
  BY <1>1, IdleFacts
<1>3. CASE it.current_entry_offset = 0
  <2>1. it' = reset(it) /\ ret' = FALSE /\ UNCHANGED <<pc, call>>
    BY <1>3 DEF Prev
  <2>2. /\ IterHolds(block, added, it')
        /\ View(block, it') = Abs!ItPrev(AbsIter)
        /\ Abs!ItPrev(AbsIter).on = ret'
    BY <1>2, <1>3, <2>1, ResetView
  <2>3. Inv' /\ AbsIter' = View(block, it')
    BY <1>1, <1>2, <2>1, <2>2, Returned
  <2>4. AbsNext
    BY <1>1, <2>1, <2>2, <2>3, SeenStep
  <2> QED BY <2>3, <2>4
<1>4. CASE it.current_entry_offset # 0
  <2> DEFINE c == [NoCall EXCEPT !.op = "prev", !.orig = it.current_entry_offset, !.pre = it]
  <2>1. pc' = "walk" /\ call' = c /\ UNCHANGED <<it, ret>>
    BY <1>4 DEF Prev
  <2>2. c \in CallType
    BY <1>2, NoCallFields DEF CallType
  <2>3. c.op = "prev" /\ c.orig = it.current_entry_offset /\ c.pre = it
    BY NoCallFields DEF CallType
  <2> HIDE DEF c
  <2>4. PrevHolds'
    BY <1>1, <1>2, <1>4, <2>1, <2>3 DEF PrevHolds
  <2>5. it.current_restart_ix < number_restarts(block)
    BY <1>2 DEF IterHolds
  <2>6. PlaceHolds'
    BY <1>1, <1>2, <2>1, <2>3, <2>4, <2>5 DEF PlaceHolds, Running, OnlyCallerPanics
  <2> QED BY <1>1, <1>2, <2>1, <2>2, <2>3, <2>6, Calling DEF Running
<1> QED BY <1>3, <1>4

\* Another restart point back.
LEMMA WalkStep ==
    ASSUME BlockRestartInterval > 0, Inv, WalkBack
    PROVE  Inv' /\ AbsNext
<1> DEFINE ix == it.current_restart_ix
           p  == get_restart_point(block, ix)
<1>1. /\ pc = "walk" /\ pc \in Running
      /\ UNCHANGED <<builder, added, call, ret>> /\ block' = block
  BY DEF WalkBack, block, Running
<1>2. /\ BlockHolds(block, added) /\ IterHolds(block, added, call.pre) /\ it \in ItType
      /\ call \in CallType /\ AbsIter = View(block, call.pre) /\ pc # "build"
  BY <1>1, RunningFacts
<1>3. PrevHolds /\ ix < number_restarts(block)
  BY <1>1 DEF Inv, PlaceHolds
<1>4. ix \in Nat /\ ix \in 0 .. number_restarts(block) - 1
  BY <1>2, <1>3, ItFields, BlockFacts
<1>5. p \in Nat /\ call.orig \in Nat /\ call.orig > 0
  BY <1>2, <1>3, <1>4, BlockFacts, CallFields DEF PrevHolds
<1>6. PrevHolds'
  BY <1>1, <1>3 DEF PrevHolds
<1>7. CASE p < call.orig
  <2> DEFINE y == [it EXCEPT !.offset = p]
  <2>1. pc' = "back" /\ it' = y
    BY <1>7 DEF WalkBack
  <2>2. y \in ItType /\ y.offset = p /\ y.current_restart_ix = ix
    BY <1>2, <1>5 DEF ItType
  <2> HIDE DEF y
  <2>3. Ready(block, added, y)
    BY <1>2, <1>3, <1>4, <2>2, RestartReady
  <2>4. PlaceHolds'
    BY <1>1, <1>2, <1>6, <1>7, <2>1, <2>2, <2>3 DEF PlaceHolds, Running, OnlyCallerPanics
  <2> QED BY <1>1, <1>2, <2>1, <2>2, <2>4, Calling DEF Running
<1>8. CASE ~(p < call.orig)
  <2> DEFINE y == [it EXCEPT !.current_restart_ix = ix - 1]
  <2>1. ix # 0
    <3>1. get_restart_point(block, 0) = 0
      BY <1>2 DEF BlockHolds
    <3> QED BY <1>5, <1>8, <3>1
  <2>2. pc' = pc /\ it' = y
    BY <1>8, <2>1 DEF WalkBack
  <2>3. ix - 1 \in Nat /\ ix - 1 < number_restarts(block)
    BY <1>2, <1>3, <1>4, <2>1, BlockFacts
  <2>4. y \in ItType /\ y.current_restart_ix = ix - 1
    BY <1>2, <2>3 DEF ItType
  <2> HIDE DEF y
  <2>5. PlaceHolds'
    BY <1>1, <1>2, <1>6, <2>2, <2>3, <2>4 DEF PlaceHolds, Running, OnlyCallerPanics
  <2> QED BY <1>1, <1>2, <2>2, <2>4, <2>5, Calling
<1> QED BY <1>7, <1>8

\* The walk forward to the entry before: the last step is the abstract iterator's prev.
LEMMA BackStep ==
    ASSUME BlockRestartInterval > 0, Inv, PrevStep
    PROVE  Inv' /\ AbsNext
<1>1. /\ pc = "back" /\ pc \in Running /\ UNCHANGED <<builder, added>> /\ block' = block
      /\ it' = advance(block, it)
  BY DEF PrevStep, block, Running
<1>2. /\ BlockHolds(block, added) /\ IterHolds(block, added, call.pre) /\ it \in ItType
      /\ call \in CallType /\ AbsIter = View(block, call.pre) /\ pc # "build"
  BY <1>1, RunningFacts
<1>3. PrevHolds /\ Ready(block, added, it) /\ it.offset < call.orig
  BY <1>1 DEF Inv, PlaceHolds
<1>4. /\ call.orig \in Nat /\ call.orig < Len(added) /\ call.pre \in ItType
      /\ call.pre.current_entry_offset = call.orig
  BY <1>2, <1>3, CallFields DEF PrevHolds
<1>5. /\ IterHolds(block, added, it') /\ Ready(block, added, it') /\ advance_ok(block, it)
      /\ BackAtOriginal(it', call.orig) =>
            /\ View(block, it') = Abs!ItPrev(AbsIter)
            /\ Abs!ItPrev(AbsIter).on = TRUE
      /\ ~BackAtOriginal(it', call.orig) => it'.offset < call.orig
  <2> DEFINE x == it
             y == advance(block, x)
             o == call.orig
  <2>1. /\ IterHolds(block, added, y) /\ Ready(block, added, y) /\ advance_ok(block, x)
        /\ BackAtOriginal(y, o) =>
              /\ View(block, y) = Abs!ItPrev(View(block, call.pre))
              /\ Abs!ItPrev(View(block, call.pre)).on = TRUE
        /\ ~BackAtOriginal(y, o) => y.offset < o
    <3> HIDE DEF x, o
    <3>1. Ready(block, added, x) /\ x.offset < o /\ o \in Nat /\ o < Len(added)
      BY <1>3, <1>4 DEF x, o
    <3>2. call.pre \in ItType /\ call.pre.current_entry_offset = o
      BY <1>4 DEF o
    <3> QED BY <1>2, <3>1, <3>2, PrevView
  <2> QED BY <1>1, <1>2, <2>1
<1>6. it' \in ItType
  BY <1>5 DEF IterHolds
<1>7. CASE BackAtOriginal(it', call.orig)
  <2>1. pc' = "idle" /\ ret' = TRUE /\ call' = NoCall
    <3>1. pc' = "idle" /\ ret' = advance_ok(block, it) /\ call' = NoCall
      BY <1>7 DEF PrevStep
    <3>2. advance_ok(block, it) = TRUE
      BY <1>5 DEF advance_ok
    <3> QED BY <3>1, <3>2
  <2>2. Inv' /\ AbsIter' = View(block, it')
    BY <1>1, <1>5, <2>1, Returned
  <2>3. AbsNext
    BY <1>1, <1>2, <1>5, <1>7, <2>1, <2>2, SeenStep
  <2> QED BY <2>2, <2>3
<1>8. CASE ~BackAtOriginal(it', call.orig)
  <2>1. UNCHANGED <<pc, ret, call>>
    BY <1>8 DEF PrevStep
  <2>2. PrevHolds'
    BY <1>1, <1>3, <2>1 DEF PrevHolds
  <2>3. PlaceHolds'
    BY <1>1, <1>2, <1>5, <1>8, <2>1, <2>2 DEF PlaceHolds, Running, OnlyCallerPanics
  <2> QED BY <1>1, <1>2, <1>6, <2>1, <2>3, Calling
<1> QED BY <1>7, <1>8

\* The call of seek().
LEMMA SeekBegins ==
    ASSUME BlockRestartInterval > 0, Inv, NEW to \in Keys, Seek(to)
    PROVE  Inv' /\ AbsNext
<1> DEFINE r == number_restarts(block) - 1
           c == [NoCall EXCEPT !.op = "seek", !.to = to, !.right = r, !.pre = it]
<1>1. /\ pc = "idle" /\ pc' = "bsearch" /\ UNCHANGED <<builder, added, ret>> /\ block' = block
      /\ it' = reset(it) /\ call' = c
  BY DEF Seek, block
<1>2. /\ BlockHolds(block, added) /\ IterHolds(block, added, it) /\ it \in ItType
      /\ AbsIter = View(block, it) /\ it.current_entry_offset \in Nat /\ Len(added) \in Nat
      /\ it.current_entry_offset = 0 \/ it.current_entry_offset < Len(added)
  BY <1>1, IdleFacts
<1>3. r \in Nat /\ number_restarts(block) \in Nat /\ r < number_restarts(block)
  BY <1>2, BlockFacts
<1> HIDE DEF r
<1>4. c \in CallType
  <2>1. to \in ByteString /\ r \in Int
    BY <1>3, KeysAssumption
  <2> QED BY <1>2, <2>1, NoCallFields DEF CallType
<1>5. c.op = "seek" /\ c.to = to /\ c.right = r /\ c.pre = it
  BY NoCallFields DEF CallType
<1>6. c.left = 0
  BY NoCallFields DEF CallType
<1> HIDE DEF c
<1>7. it' \in ItType /\ (Len(added) = 0 => it'.current_entry_offset = 0)
  BY <1>1, <1>2, ResetFields
<1>8. SearchHolds(block, added, c.left, c.right, to)
  BY <1>3, <1>5, <1>6 DEF SearchHolds, r
<1>9. PlaceHolds'
  BY <1>1, <1>2, <1>5, <1>7, <1>8 DEF PlaceHolds, SeekHolds, Running, OnlyCallerPanics
<1> QED BY <1>1, <1>2, <1>4, <1>5, <1>7, <1>9, Calling DEF Running

\* An iteration of the binary search keeps the target between left and right.
LEMMA SearchStepHolds ==
    ASSUME BlockRestartInterval > 0, Inv, SearchStep
    PROVE  Inv' /\ AbsNext
<1> DEFINE left  == call.left
           right == call.right
           m     == Middle(left, right)
<1>1. /\ pc = "bsearch" /\ pc \in Running /\ UNCHANGED <<builder, added, ret>>
      /\ block' = block
  BY DEF SearchStep, block, Running
<1>2. /\ BlockHolds(block, added) /\ IterHolds(block, added, call.pre) /\ it \in ItType
      /\ call \in CallType /\ AbsIter = View(block, call.pre) /\ pc # "build"
  BY <1>1, RunningFacts
<1>3. /\ SeekHolds /\ (Len(added) = 0 => it.current_entry_offset = 0)
      /\ SearchHolds(block, added, left, right, call.to)
  BY <1>1 DEF Inv, PlaceHolds
<1>4. call.to \in ByteString /\ call.to \in Keys /\ call.op = "seek"
  BY <1>2, <1>3, CallFields DEF SeekHolds
<1>5. left \in Nat /\ right \in Nat /\ left <= right
  BY <1>3 DEF SearchHolds
<1>6. CASE left < right
  <2> DEFINE y  == seek_to_restart_point(block, it, m)
             cl == [call EXCEPT !.left = m]
             cr == [call EXCEPT !.right = m - 1]
  <2>1. /\ ~restart_panics(block, it, m) /\ y \in ItType /\ Len(added) > 0
        /\ Less(y.key, call.to) => SearchHolds(block, added, m, right, call.to)
        /\ ~Less(y.key, call.to) => SearchHolds(block, added, left, m - 1, call.to)
    BY <1>2, <1>3, <1>6, SearchRound
  <2>2. it' = y /\ pc' = pc /\ call' = IF Less(it'.key, call.to) THEN cl ELSE cr
    BY <1>6, <2>1 DEF SearchStep
  <2>3. m \in Nat /\ m - 1 \in Int
    BY <1>5, <1>6 DEF Middle
  <2> HIDE DEF y, m
  <2>4. /\ cl \in CallType /\ cl.op = "seek" /\ cl.to = call.to /\ cl.left = m
        /\ cl.right = right /\ cl.pre = call.pre
    BY <1>2, <1>4, <2>3 DEF CallType
  <2>5. /\ cr \in CallType /\ cr.op = "seek" /\ cr.to = call.to /\ cr.left = left
        /\ cr.right = m - 1 /\ cr.pre = call.pre
    BY <1>2, <1>4, <2>3 DEF CallType
  <2> HIDE DEF cl, cr
  <2>6. /\ call' \in CallType /\ call'.op = "seek" /\ call'.to = call.to
        /\ call'.pre = call.pre
        /\ SearchHolds(block, added, call'.left, call'.right, call.to)
    <3>1. CASE Less(y.key, call.to)
      <4>1. call' = cl
        BY <2>2, <3>1
      <4> QED BY <4>1, <2>1, <2>4, <3>1
    <3>2. CASE ~Less(y.key, call.to)
      <4>1. call' = cr
        BY <2>2, <3>2
      <4> QED BY <4>1, <2>1, <2>5, <3>2
    <3> QED BY <3>1, <3>2
  <2>7. Len(added) # 0
    BY <2>1
  <2>8. PlaceHolds'
    BY <1>1, <1>2, <1>4, <2>2, <2>6, <2>7
       DEF PlaceHolds, SeekHolds, Running, OnlyCallerPanics
  <2> QED BY <1>1, <1>2, <2>1, <2>2, <2>6, <2>8, Calling
<1>7. CASE ~(left < right)
  <2> DEFINE y == [it EXCEPT !.current_restart_ix = left,
                             !.offset = get_restart_point(block, left)]
  <2>1. left = right
    BY <1>5, <1>7
  <2>2. pc' = "scan" /\ it' = y /\ call' = call
    BY <1>7, <2>1 DEF SearchStep
  <2>3. SearchHolds(block, added, left, left, call.to)
    BY <1>3, <2>1
  <2>4. ScanHolds(block, added, y, call.to)
    BY <1>2, <1>3, <1>4, <2>3, SearchEnds
  <2> HIDE DEF y
  <2>5. y \in ItType
    BY <2>4 DEF ScanHolds, Ready
  <2>6. PlaceHolds'
    BY <1>1, <1>2, <1>3, <2>2, <2>4 DEF PlaceHolds, SeekHolds, Running, OnlyCallerPanics
  <2> QED BY <1>1, <1>2, <2>2, <2>5, <2>6, Calling DEF Running
<1> QED BY <1>6, <1>7

\* The scan from the restart point: the step that ends it is the abstract iterator's seek.
LEMMA ScanStepHolds ==
    ASSUME BlockRestartInterval > 0, Inv, ScanStep
    PROVE  Inv' /\ AbsNext
<1>1. /\ pc = "scan" /\ pc \in Running /\ UNCHANGED <<builder, added, ret>>
      /\ block' = block /\ it' = advance(block, it)
  BY DEF ScanStep, block, Running
<1>2. /\ BlockHolds(block, added) /\ IterHolds(block, added, call.pre) /\ it \in ItType
      /\ call \in CallType /\ AbsIter = View(block, call.pre) /\ pc # "build"
      /\ ret \in BOOLEAN
  BY <1>1, RunningFacts
<1>3. SeekHolds /\ ScanHolds(block, added, it, call.to)
  BY <1>1 DEF Inv, PlaceHolds
<1>4. call.to \in ByteString /\ call.to \in Keys
  BY <1>2, <1>3, CallFields DEF SeekHolds
<1>5. added = <<>> => AbsIter.cur = 0
  <2>1. call.pre \in ItType /\ (added = <<>> => Len(added) = 0)
    BY <1>2 DEF IterHolds
  <2>2. call.pre.current_entry_offset \in Nat /\ call.pre.offset \in Nat
    BY <2>1, ItFields
  <2>3. added = <<>> => call.pre.current_entry_offset = 0
    BY <1>2, <2>1, <2>2 DEF IterHolds, On, Off
  <2> QED BY <1>2, <2>3 DEF View
<1>6. IF valid(block, it') /\ Less(it'.key, call.to)
      THEN ScanHolds(block, added, it', call.to)
      ELSE IterHolds(block, added, it') /\ View(block, it') = Abs!ItSeek(added, AbsIter, call.to)
  BY <1>1, <1>2, <1>3, <1>4, <1>5, ScanView
<1>7. CASE valid(block, it') /\ Less(it'.key, call.to)
  <2>1. UNCHANGED <<pc, call>>
    BY <1>1, <1>7 DEF ScanStep
  <2>2. ScanHolds(block, added, it', call.to) /\ it' \in ItType
    BY <1>6, <1>7 DEF ScanHolds, Ready
  <2>3. PlaceHolds'
    BY <1>1, <1>2, <1>3, <2>1, <2>2 DEF PlaceHolds, SeekHolds, Running, OnlyCallerPanics
  <2> QED BY <1>1, <1>2, <2>1, <2>2, <2>3, Calling
<1>8. CASE ~(valid(block, it') /\ Less(it'.key, call.to))
  <2>1. pc' = "idle" /\ call' = NoCall
    BY <1>1, <1>8 DEF ScanStep
  <2>2. IterHolds(block, added, it') /\ View(block, it') = Abs!ItSeek(added, AbsIter, call.to)
    BY <1>6, <1>8
  <2>3. Inv' /\ AbsIter' = View(block, it')
    BY <1>1, <1>2, <2>1, <2>2, Returned
  <2>4. AbsNext
    BY <1>1, <1>2, <1>4, <2>1, <2>2, <2>3, SeenMove
  <2> QED BY <2>3, <2>4
<1> QED BY <1>7, <1>8

\* The call of seek_to_last().
LEMMA SeekToLastBegins ==
    ASSUME BlockRestartInterval > 0, Inv, SeekToLast
    PROVE  Inv' /\ AbsNext
<1> DEFINE ix == number_restarts(block) - 1
           y  == seek_to_restart_point(block, it, ix)
           c  == [NoCall EXCEPT !.op = "seek_to_last", !.pre = it]
<1>1. /\ pc = "idle" /\ UNCHANGED <<builder, added, ret>> /\ block' = block /\ call' = c
  BY DEF SeekToLast, block
<1>2. /\ BlockHolds(block, added) /\ IterHolds(block, added, it) /\ it \in ItType
      /\ AbsIter = View(block, it)
  BY <1>1, IdleFacts
<1>3. c \in CallType /\ c.op = "seek_to_last" /\ c.pre = it
  BY <1>2, NoCallFields DEF CallType
<1> HIDE DEF c
<1>4. /\ restart_panics(block, it, ix) =>
            \/ added = <<>>
            \/ added[1].key = <<>> /\ number_restarts(block) = 1
      /\ ~restart_panics(block, it, ix) =>
            ~Abs!LastPanics(added) /\ IterHolds(block, added, y) /\ On(added, y)
  <2>1. ix = number_restarts(block) - 1
    OBVIOUS
  <2> HIDE DEF ix
  <2> QED BY <1>2, <2>1, LastBegins
<1>5. CASE restart_panics(block, it, ix)
  <2>1. pc' = "panic" /\ it' = it
    BY <1>5 DEF SeekToLast
  <2>2. OnlyCallerPanics'
    BY <1>1, <1>3, <1>4, <1>5 DEF OnlyCallerPanics
  <2>3. PlaceHolds'
    BY <2>1, <2>2 DEF PlaceHolds, Running
  <2>4. Inv'
    BY <1>1, <1>2, <1>3, <2>1, <2>3 DEF Inv
  <2>5. AbsIter' = AbsIter
    BY <1>1, <1>2, <2>1, AbsIterNext DEF Running
  <2>6. AbsNext
    BY <1>1, <2>1, <2>5, Unseen
  <2> QED BY <2>4, <2>6
<1>6. CASE ~restart_panics(block, it, ix)
  <2>1. pc' = "last" /\ it' = y
    BY <1>6 DEF SeekToLast
  <2>2. y \in ItType
    BY <1>4, <1>6 DEF IterHolds
  <2> HIDE DEF y
  <2>3. PlaceHolds'
    BY <1>1, <1>2, <1>3, <1>4, <1>6, <2>1 DEF PlaceHolds, Running, OnlyCallerPanics
  <2> QED BY <1>1, <1>2, <1>3, <2>1, <2>2, <2>3, Calling DEF Running
<1> QED BY <1>5, <1>6

\* The scan of seek_to_last() to the end of the block.
LEMMA LastStepHolds ==
    ASSUME BlockRestartInterval > 0, Inv, LastStep
    PROVE  Inv' /\ AbsNext
<1>1. /\ pc = "last" /\ pc \in Running /\ UNCHANGED <<builder, added, ret>> /\ block' = block
  BY DEF LastStep, block, Running
<1>2. /\ BlockHolds(block, added) /\ IterHolds(block, added, call.pre) /\ it \in ItType
      /\ call \in CallType /\ AbsIter = View(block, call.pre) /\ pc # "build"
      /\ ret \in BOOLEAN
  BY <1>1, RunningFacts
<1>3. /\ call.op = "seek_to_last" /\ IterHolds(block, added, it) /\ On(added, it)
      /\ ~Abs!LastPanics(added)
  BY <1>1 DEF Inv, PlaceHolds
<1>4. CASE BeforeEnd(block, it)
  <2>1. it' = advance(block, it) /\ UNCHANGED <<pc, call>>
    BY <1>4 DEF LastStep
  <2>2. it.offset < Len(added) /\ Ready(block, added, it)
    BY <1>2, <1>3, <1>4, BlockFacts, IterReady DEF BeforeEnd
  <2>3. IterHolds(block, added, it') /\ On(added, it') /\ it' \in ItType
    BY <1>2, <2>1, <2>2, AdvanceReads DEF IterHolds
  <2>4. PlaceHolds'
    BY <1>1, <1>2, <1>3, <2>1, <2>3 DEF PlaceHolds, Running, OnlyCallerPanics
  <2> QED BY <1>1, <1>2, <2>1, <2>3, <2>4, Calling
<1>5. CASE ~BeforeEnd(block, it)
  <2>1. valid(block, it) /\ View(block, it) = Abs!ItLast(added)
    BY <1>2, <1>3, <1>5, LastEnds
  <2>2. pc' = "idle" /\ call' = NoCall /\ it' = it
    BY <1>5, <2>1 DEF LastStep
  <2>3. Inv' /\ AbsIter' = View(block, it')
    BY <1>1, <1>2, <1>3, <2>2, Returned
  <2>4. AbsNext
    BY <1>1, <1>2, <1>3, <2>1, <2>2, <2>3, SeenMove
  <2> QED BY <2>3, <2>4
<1> QED BY <1>4, <1>5

\* Steps that change nothing.
LEMMA StutterStep ==
    ASSUME Inv, UNCHANGED vars
    PROVE  Inv' /\ AbsNext
<1>1. block' = block /\ UNCHANGED <<builder, added, pc, it, call, ret>>
  BY DEF vars, block
<1>2. PlaceHolds'
  BY <1>1 DEF Inv, PlaceHolds, PrevHolds, SeekHolds, OnlyCallerPanics
<1>3. Inv'
  BY <1>1, <1>2 DEF Inv
<1>4. AbsIter' = AbsIter
  BY <1>1, AbsIterIs, AbsIterNext
<1>5. UNCHANGED Abs!vars
  BY <1>1, <1>4 DEF Abs!vars
<1> QED BY <1>3, <1>5 DEF AbsNext

\* Every step keeps the invariant and is a step of the abstract iterator, or none.
LEMMA InvNext ==
    ASSUME BlockRestartInterval > 0, Inv, [Next]_vars
    PROVE  Inv' /\ AbsNext
BY AddKeyStep, FinishStep, AdvanceStep, ResetStep, PrevBegins, SeekToLastBegins, SeekBegins,
   WalkStep, BackStep, SearchStepHolds, ScanStepHolds, LastStepHolds, StutterStep
   DEF Next, RunCall

-----------------------------------------------------------------------------

\* The invariant holds in every state.  block_restart_interval = 0 is left out:
\* BlockBuilder::add then panics at the second entry, and a block of one entry
\* has two restart points at it.
LEMMA InvAlways ==
    ASSUME BlockRestartInterval > 0
    PROVE  Spec => []Inv
<1>1. Init => Inv
  BY InvInit
<1>2. Inv /\ [Next]_vars => Inv'
  BY InvNext
<1> QED BY <1>1, <1>2, PTL DEF Spec

\* Type correctness of the builder, the iterator and the local variables of
\* every call: offsets never run below 0, nor does `right` of the search.
THEOREM TypesHold ==
    ASSUME BlockRestartInterval > 0
    PROVE  Spec => []TypeOK
<1>1. Inv => TypeOK
  BY DEF Inv, TypeOK, Holds
<1> QED BY <1>1, InvAlways, PTL

\* What is read between calls is an entry as it was added, for blocks of any
\* size: prefix compression and restart points lose nothing.
THEOREM CurrentIsAlwaysEntry ==
    ASSUME BlockRestartInterval > 0
    PROVE  Spec => []CurrentIsEntry
<1>1. ASSUME Inv PROVE CurrentIsEntry
  <2> SUFFICES ASSUME pc = "idle", Stands(block, it)
               PROVE  /\ it.offset = it.val_offset
                      /\ it.val_offset = it.current_entry_offset + 1
                      /\ it.key = added[it.val_offset].key
                      /\ block.entries[it.val_offset].val = added[it.val_offset].val
    BY DEF CurrentIsEntry
  <2>1. BlockHolds(block, added) /\ IterHolds(block, added, it)
    BY <1>1, IdleFacts
  <2>2. On(added, it)
    BY <2>1 DEF IterHolds, Stands, Off
  <2>3. it.offset \in 1 .. Len(added) /\ it.offset = it.val_offset
    BY <2>1, <2>2, ItFields, BlockFacts DEF IterHolds, On
  <2>4. block.entries[it.offset].val = added[it.offset].val
    BY <2>1, <2>3 DEF BlockHolds
  <2> QED BY <2>2, <2>3, <2>4 DEF On
<1> QED BY <1>1, InvAlways, PTL

\* The assertions of the block code fail for its caller's mistakes only: a key
\* that is not above the last one added, and seek_to_last() on a block that has
\* no last entry it can stand on.
THEOREM OnlyCallersPanic ==
    ASSUME BlockRestartInterval > 0
    PROVE  Spec => []OnlyCallerPanics
<1>1. Inv => OnlyCallerPanics
  BY DEF Inv, PlaceHolds
<1> QED BY <1>1, InvAlways, PTL

\* BlockIter implements the iterator over the plain entries, over blocks of any
\* size and for any keys: every call takes effect when it returns, and does what
\* EntryIter says.
THEOREM BlockIterRefines ==
    ASSUME BlockRestartInterval > 0
    PROVE  Spec => ImplementsEntryIter
<1>1. Init => Abs!Init
  BY InvInit
<1>2. Inv /\ [Next]_vars => [Abs!Next]_(Abs!vars)
  BY InvNext DEF AbsNext
<1> QED BY <1>1, <1>2, InvAlways, PTL DEF Spec, ImplementsEntryIter, Abs!Spec
=============================================================================
