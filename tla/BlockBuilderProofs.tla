------------------------- MODULE BlockBuilderProofs -------------------------
(***************************************************************************)
(* BlockBuilder: what its record holds after any entries were added to it. *)
(***************************************************************************)
EXTENDS BlockBuilder, BytesProofs

KeyValue == [key : ByteString, val : Seq(Nat)]

\* The keys strictly ascend.
Ascending(kvs) == \A i, j \in 1 .. Len(kvs) : i < j => Less(kvs[i].key, kvs[j].key)

KeyBefore(kvs, i) == IF i = 1 THEN <<>> ELSE kvs[i - 1].key

\* e is kv, compressed against the key before it.
EntryHolds(e, before, kv) ==
    /\ e.val = kv.val
    /\ e.shared <= Len(before)
    /\ SubSeq(before, 1, e.shared) \o e.suffix = kv.key
    /\ e.shared = 0 => e.suffix = kv.key

\* The restart points rs of n entries buf ascend from 0, lie inside the block,
\* at entries that share nothing with the entry before, and the counter ctr
\* counts from the last of them.
RestartsHold(rs, ctr, buf, n) ==
    /\ Len(rs) > 0 /\ rs[1] = 0
    /\ \A r \in 2 .. Len(rs) : rs[r] < n
    /\ \A r, s \in 1 .. Len(rs) : r < s => rs[r] < rs[s]
    /\ \A r \in 1 .. Len(rs) : rs[r] < n => buf[rs[r] + 1].shared = 0
    /\ Len(rs) > 1 => rs[2] = BlockRestartInterval
    /\ ctr = n - rs[Len(rs)]
    /\ ctr <= BlockRestartInterval

\* bb is a builder to which the entries kvs were added.
Holds(bb, kvs) ==
    /\ bb \in BuilderType
    /\ kvs \in Seq(KeyValue)
    /\ Len(bb.buffer) = Len(kvs)
    /\ bb.last_key = KeyBefore(kvs, Len(kvs) + 1)
    /\ \A i \in 1 .. Len(kvs) : EntryHolds(bb.buffer[i], KeyBefore(kvs, i), kvs[i])
    /\ Ascending(kvs)
    /\ RestartsHold(bb.restarts, bb.restart_counter, bb.buffer, Len(kvs))

\* BlockBuilder::new makes a builder without entries.
LEMMA NewHolds ==
    ASSUME BlockRestartInterval > 0
    PROVE  Holds(NewBlockBuilder, <<>>)
<1>1. NewBlockBuilder \in BuilderType
  BY DEF NewBlockBuilder, BuilderType, ByteString
<1>2. RestartsHold(<<0>>, 0, <<>>, 0)
  BY RestartIntervalAssumption DEF RestartsHold
<1> QED BY <1>1, <1>2 DEF Holds, NewBlockBuilder, KeyBefore, Ascending

\* Cutting a key where it parts from another loses nothing.
LEMMA PrefixAndRest ==
    ASSUME NEW s \in ByteString, NEW t \in ByteString, NEW n \in 0 .. Shorter(s, t),
           Agree(s, t, n)
    PROVE  /\ SubSeq(t, n + 1, Len(t)) \in ByteString
           /\ SubSeq(s, 1, n) \o SubSeq(t, n + 1, Len(t)) = t
           /\ n <= Len(s)
           /\ n = 0 => SubSeq(t, n + 1, Len(t)) = t
<1>1. Len(s) \in Nat /\ Len(t) \in Nat /\ n \in Nat /\ n <= Len(s) /\ n <= Len(t)
  BY BytesOf DEF Shorter
<1> DEFINE p == SubSeq(s, 1, n)
           q == SubSeq(t, n + 1, Len(t))
<1>2. p \in ByteString /\ Len(p) = n /\ \A i \in 1 .. n : p[i] = s[i]
  BY <1>1, SubSeqProperties DEF ByteString
<1>3. q \in ByteString /\ Len(q) = Len(t) - n /\ \A i \in 1 .. Len(t) - n : q[i] = t[n + i]
  BY <1>1, SubSeqProperties DEF ByteString
<1> HIDE DEF p, q
<1> DEFINE w == p \o q
<1>4. /\ w \in ByteString /\ Len(w) = Len(t)
      /\ \A i \in 1 .. Len(t) : w[i] = IF i <= n THEN p[i] ELSE q[i - n]
  <2>1. p \in Seq(Byte) /\ q \in Seq(Byte) /\ Len(p) + Len(q) = Len(t) /\ Len(p) = n
    BY <1>1, <1>2, <1>3 DEF ByteString
  <2> QED BY <2>1, ConcatProperties DEF ByteString
<1> HIDE DEF w
<1>5. \A i \in 1 .. Len(t) : w[i] = t[i]
  BY <1>1, <1>2, <1>3, <1>4 DEF Agree
<1>6. w = t
  BY <1>4, <1>5, SameBytes
<1>7. n = 0 => q = t
  BY <1>1, <1>3, SameBytes
<1> QED BY <1>1, <1>3, <1>6, <1>7 DEF p, q, w

\* The fields of the builder after BlockBuilder::add.
LEMMA AddEntryFields ==
    ASSUME NEW bb \in BuilderType, NEW key \in ByteString, NEW val \in Seq(Nat)
    PROVE  LET c == AddEntry(bb, key, val)
               n == SharedWithLast(bb, key)
           IN  /\ n \in 0 .. Shorter(bb.last_key, key) /\ Agree(bb.last_key, key, n)
               /\ RestartDue(bb) => n = 0
               /\ c \in BuilderType
               /\ c.buffer = Append(bb.buffer, [shared |-> n,
                                                suffix |-> SubSeq(key, n + 1, Len(key)),
                                                val    |-> val])
               /\ c.restarts = IF RestartDue(bb) THEN Append(bb.restarts, Len(bb.buffer))
                               ELSE bb.restarts
               /\ c.last_key = key
               /\ c.restart_counter = IF RestartDue(bb) THEN 1 ELSE bb.restart_counter + 1
<1> DEFINE c == AddEntry(bb, key, val)
           n == SharedWithLast(bb, key)
           e == [shared |-> n, suffix |-> SubSeq(key, n + 1, Len(key)), val |-> val]
<1>1. bb.last_key \in ByteString /\ Len(key) \in Nat /\ Len(bb.last_key) \in Nat
  BY BytesOf DEF BuilderType
<1>2. n \in 0 .. Shorter(bb.last_key, key) /\ Agree(bb.last_key, key, n)
  BY <1>1, SharedLenStops DEF SharedWithLast, FirstDifference, Shorter, Agree
<1>3. n \in Nat /\ Len(key) - n \in Nat
  BY <1>1, <1>2 DEF Shorter
<1>4. /\ c.buffer = Append(bb.buffer, e)
      /\ c.bytes = bb.bytes + 3 + (Len(key) - n) + Len(val)
      /\ c.restarts = IF RestartDue(bb) THEN Append(bb.restarts, Len(bb.buffer)) ELSE bb.restarts
      /\ c.last_key = key
      /\ c.restart_counter = IF RestartDue(bb) THEN 1 ELSE bb.restart_counter + 1
  BY DEF AddEntry
<1>5. e \in Entry
  BY <1>1, <1>2, <1>3, PrefixAndRest DEF Entry
<1>6. c \in BuilderType
  <2> DEFINE buf == Append(bb.buffer, e)
             byt == bb.bytes + 3 + (Len(key) - n) + Len(val)
             res == IF RestartDue(bb) THEN Append(bb.restarts, Len(bb.buffer)) ELSE bb.restarts
             ctr == IF RestartDue(bb) THEN 1 ELSE bb.restart_counter + 1
  <2>1. buf \in Seq(Entry) /\ byt \in Nat /\ res \in Seq(Nat) /\ ctr \in Nat
    <3>1. bb.buffer \in Seq(Entry) /\ bb.bytes \in Nat /\ bb.restarts \in Seq(Nat)
          /\ bb.restart_counter \in Nat /\ Len(bb.buffer) \in Nat
      BY DEF BuilderType
    <3>2. byt \in Nat
      BY <3>1, <1>3
    <3> HIDE DEF e
    <3>3. buf \in Seq(Entry) /\ res \in Seq(Nat) /\ ctr \in Nat
      BY <3>1, <1>5
    <3> QED BY <3>2, <3>3
  <2>2. c = [buffer |-> buf, bytes |-> byt, restarts |-> res, last_key |-> key,
             restart_counter |-> ctr]
    BY DEF AddEntry
  <2> HIDE DEF c, buf, byt, res, ctr
  <2> QED BY <2>1, <2>2 DEF BuilderType
<1> QED BY <1>2, <1>4, <1>6 DEF SharedWithLast

\* The entry written to the buffer stands for the key and value added.
LEMMA NewEntryHolds ==
    ASSUME NEW bb \in BuilderType, NEW key \in ByteString, NEW val \in Seq(Nat), NEW sh,
           sh \in 0 .. Shorter(bb.last_key, key), Agree(bb.last_key, key, sh)
    PROVE  LET e == [shared |-> sh, suffix |-> SubSeq(key, sh + 1, Len(key)), val |-> val]
           IN  e \in Entry /\ EntryHolds(e, bb.last_key, [key |-> key, val |-> val])
<1>1. bb.last_key \in ByteString
  BY DEF BuilderType
<1>2. Shorter(bb.last_key, key) \in Nat
  BY <1>1, BytesOf DEF Shorter
<1>3. sh \in Nat
  BY <1>2
<1>5. SubSeq(key, sh + 1, Len(key)) \in ByteString
  BY <1>1, PrefixAndRest
<1>4. EntryHolds([shared |-> sh, suffix |-> SubSeq(key, sh + 1, Len(key)), val |-> val],
                 bb.last_key, [key |-> key, val |-> val])
  BY <1>1, PrefixAndRest DEF EntryHolds
<1> QED BY <1>3, <1>4, <1>5 DEF Entry

\* One more entry, that needs no restart point of its own.
LEMMA RestartsStay ==
    ASSUME NEW rs \in Seq(Nat), NEW ctr \in Nat, NEW n \in Nat, NEW buf, NEW more,
           RestartsHold(rs, ctr, buf, n), ctr < BlockRestartInterval,
           \A i \in 1 .. n : more[i] = buf[i],
           n = 0 => more[1].shared = 0
    PROVE  RestartsHold(rs, ctr + 1, more, n + 1)
<1> DEFINE last == Len(rs)
<1>1. last \in Nat /\ \A r \in 1 .. last : rs[r] \in Nat
  OBVIOUS
<1>2. /\ last > 0 /\ rs[1] = 0
      /\ \A r \in 2 .. last : rs[r] < n
      /\ \A r, s \in 1 .. last : r < s => rs[r] < rs[s]
      /\ \A r \in 1 .. last : rs[r] < n => buf[rs[r] + 1].shared = 0
      /\ last > 1 => rs[2] = BlockRestartInterval
      /\ ctr = n - rs[last] /\ ctr <= BlockRestartInterval
  BY DEF RestartsHold
<1> HIDE DEF last
<1>3. ASSUME NEW r \in 1 .. last, rs[r] < n + 1
      PROVE  more[rs[r] + 1].shared = 0
  <2>1. CASE rs[r] < n
    <3>1. rs[r] + 1 \in 1 .. n
      BY <2>1, <1>1
    <3> QED BY <2>1, <3>1, <1>2
  <2>2. CASE ~(rs[r] < n)
    <3>1. rs[r] = n
      BY <1>1, <1>3, <2>2
    <3>2. r = 1
      BY <3>1, <1>1, <1>2
    <3>3. n = 0 /\ rs[r] + 1 = 1
      BY <3>1, <3>2, <1>2
    <3> QED BY <3>3
  <2> QED BY <2>1, <2>2
<1>4. \A r \in 2 .. last : rs[r] < n + 1
  <2> SUFFICES ASSUME NEW r \in 2 .. last PROVE rs[r] < n + 1
    OBVIOUS
  <2>1. r \in 1 .. last /\ rs[r] < n
    BY <1>1, <1>2
  <2> QED BY <2>1, <1>1
<1>5. last \in 1 .. last /\ rs[last] \in Nat
  BY <1>1, <1>2
<1>6. ctr + 1 = (n + 1) - rs[last] /\ ctr + 1 <= BlockRestartInterval
  BY <1>2, <1>5, RestartIntervalAssumption
<1> QED BY <1>2, <1>3, <1>4, <1>6 DEF RestartsHold, last

\* One more entry, that is a restart point.
LEMMA RestartsGrow ==
    ASSUME BlockRestartInterval > 0,
           NEW rs \in Seq(Nat), NEW ctr \in Nat, NEW n \in Nat, NEW buf, NEW more,
           RestartsHold(rs, ctr, buf, n), ctr >= BlockRestartInterval,
           \A i \in 1 .. n : more[i] = buf[i],
           more[n + 1].shared = 0
    PROVE  RestartsHold(Append(rs, n), 1, more, n + 1)
<1> DEFINE last == Len(rs)
           new  == Append(rs, n)
<1>1. last \in Nat /\ \A r \in 1 .. last : rs[r] \in Nat
  OBVIOUS
<1>2. /\ last > 0 /\ rs[1] = 0
      /\ \A r, s \in 1 .. last : r < s => rs[r] < rs[s]
      /\ \A r \in 1 .. last : rs[r] < n => buf[rs[r] + 1].shared = 0
      /\ last > 1 => rs[2] = BlockRestartInterval
      /\ ctr = n - rs[last] /\ ctr <= BlockRestartInterval
  BY DEF RestartsHold
<1>3. /\ Len(new) = last + 1 /\ new[last + 1] = n
      /\ \A r \in 1 .. last : new[r] = rs[r]
  BY AppendProperties
<1> HIDE DEF last, new
<1>4. last \in 1 .. last /\ 1 \in 1 .. last /\ rs[last] \in Nat
  BY <1>1, <1>2
<1>5. rs[last] < n
  BY <1>2, <1>4, RestartIntervalAssumption
<1>6. \A r \in 1 .. last : rs[r] < n
  <2> SUFFICES ASSUME NEW r \in 1 .. last PROVE rs[r] < n
    OBVIOUS
  <2>1. r = last \/ rs[r] < rs[last]
    BY <1>1, <1>2, <1>4
  <2> QED BY <2>1, <1>1, <1>4, <1>5
<1>7. \A r \in 1 .. last + 1 : r \in 1 .. last \/ r = last + 1
  BY <1>1
<1>8. ASSUME NEW r \in 1 .. last + 1
      PROVE  more[new[r] + 1].shared = 0 /\ new[r] < n + 1
  <2>1. CASE r \in 1 .. last
    <3>1. rs[r] + 1 \in 1 .. n /\ rs[r] < n + 1 /\ rs[r] < n
      BY <2>1, <1>1, <1>6
    <3>2. more[rs[r] + 1].shared = 0
      BY <2>1, <3>1, <1>2
    <3> QED BY <2>1, <3>1, <3>2, <1>3
  <2>2. CASE r = last + 1
    BY <2>2, <1>3
  <2> QED BY <2>1, <2>2, <1>7
<1>9. \A r, s \in 1 .. last + 1 : r < s => new[r] < new[s]
  <2> SUFFICES ASSUME NEW r \in 1 .. last + 1, NEW s \in 1 .. last + 1, r < s
               PROVE  new[r] < new[s]
    OBVIOUS
  <2>1. r \in 1 .. last
    BY <1>1
  <2>2. CASE s \in 1 .. last
    BY <2>1, <2>2, <1>2, <1>3
  <2>3. CASE s = last + 1
    BY <2>1, <2>3, <1>3, <1>6
  <2> QED BY <2>2, <2>3, <1>7
<1>10. /\ last + 1 > 0 /\ new[1] = 0
       /\ 1 = (n + 1) - new[last + 1]
       /\ 1 <= BlockRestartInterval
  BY <1>1, <1>2, <1>3, <1>4, RestartIntervalAssumption
<1>11. \A r \in 2 .. last + 1 : r \in 1 .. last + 1
  BY <1>1
<1>12. new[2] = BlockRestartInterval
  <2>1. CASE last = 1
    BY <2>1, <1>2, <1>3, RestartIntervalAssumption
  <2>2. CASE last > 1
    <3>1. 2 \in 1 .. last
      BY <2>2, <1>1
    <3> QED BY <2>2, <3>1, <1>2, <1>3
  <2> QED BY <2>1, <2>2, <1>1, <1>2
<1> QED BY <1>3, <1>8, <1>9, <1>10, <1>11, <1>12 DEF RestartsHold, new

\* BlockBuilder::add, where its assertions hold, adds the entry and nothing
\* else: the entries before are read back as they were.
LEMMA AddHolds ==
    ASSUME BlockRestartInterval > 0,
           NEW bb, NEW kvs, Holds(bb, kvs),
           NEW key \in ByteString, NEW val \in Seq(Nat), ~AddPanics(bb, key)
    PROVE  Holds(AddEntry(bb, key, val), Append(kvs, [key |-> key, val |-> val]))
<1> DEFINE c    == AddEntry(bb, key, val)
           sh   == SharedWithLast(bb, key)
           e    == [shared |-> sh, suffix |-> SubSeq(key, sh + 1, Len(key)), val |-> val]
           kv   == [key |-> key, val |-> val]
           more == Append(kvs, kv)
           n    == Len(kvs)
<1>1. /\ bb \in BuilderType /\ kvs \in Seq(KeyValue) /\ n \in Nat /\ Len(bb.buffer) = n
      /\ bb.buffer \in Seq(Entry) /\ bb.restarts \in Seq(Nat) /\ bb.last_key \in ByteString
      /\ bb.restart_counter \in Nat
  BY DEF Holds, BuilderType
<1>2. /\ sh \in 0 .. Shorter(bb.last_key, key) /\ Agree(bb.last_key, key, sh)
      /\ RestartDue(bb) => sh = 0
      /\ c \in BuilderType
      /\ c.buffer = Append(bb.buffer, e)
      /\ c.restarts = IF RestartDue(bb) THEN Append(bb.restarts, Len(bb.buffer)) ELSE bb.restarts
      /\ c.last_key = key
      /\ c.restart_counter = IF RestartDue(bb) THEN 1 ELSE bb.restart_counter + 1
  BY <1>1, AddEntryFields
<1>3. e \in Entry /\ EntryHolds(e, bb.last_key, kv)
  BY <1>1, <1>2, NewEntryHolds
<1>4. kv \in KeyValue /\ kv.key = key /\ e.shared = sh
  BY DEF KeyValue
<1> HIDE DEF c, e, kv, sh
<1>5. /\ more \in Seq(KeyValue) /\ Len(more) = n + 1
      /\ more[n + 1] = kv /\ \A i \in 1 .. n : more[i] = kvs[i]
  BY <1>1, <1>4, AppendProperties
<1>6. /\ Len(c.buffer) = n + 1
      /\ c.buffer[n + 1] = e /\ \A i \in 1 .. n : c.buffer[i] = bb.buffer[i]
  BY <1>1, <1>2, <1>3, AppendProperties
<1>7. /\ bb.last_key = KeyBefore(kvs, n + 1)
      /\ \A i \in 1 .. n : EntryHolds(bb.buffer[i], KeyBefore(kvs, i), kvs[i])
      /\ Ascending(kvs)
      /\ RestartsHold(bb.restarts, bb.restart_counter, bb.buffer, n)
  BY DEF Holds
<1>8. \A i, j \in 1 .. n : i < j => Less(kvs[i].key, kvs[j].key)
  BY <1>7 DEF Ascending
<1>9. \A i \in 1 .. n : kvs[i].key \in ByteString
  <2> SUFFICES ASSUME NEW i \in 1 .. n PROVE kvs[i].key \in ByteString
    OBVIOUS
  <2>1. kvs[i] \in KeyValue
    BY <1>1
  <2> QED BY <2>1 DEF KeyValue
<1>10. n > 0 => Less(bb.last_key, key)
  <2>1. n > 0 => bb.buffer # <<>>
    BY <1>1
  <2> QED BY <2>1 DEF AddPanics
<1> HIDE DEF more, n
<1>11. /\ n + 1 - 1 = n /\ n + 2 - 1 = n + 1 /\ n + 2 # 1 /\ n + 1 + 1 = n + 2
       /\ n > 0 => n + 1 # 1 /\ n \in 1 .. n
       /\ n = 0 \/ n > 0
       /\ n = 0 => n + 1 = 1
  BY <1>1
<1>12. KeyBefore(more, n + 2) = key
  BY <1>4, <1>5, <1>11 DEF KeyBefore
<1>13. KeyBefore(more, n + 1) = bb.last_key
  <2>1. CASE n = 0
    BY <2>1, <1>7, <1>11 DEF KeyBefore
  <2>2. CASE n > 0
    <3>1. more[n] = kvs[n]
      BY <2>2, <1>5, <1>11
    <3> QED BY <2>2, <3>1, <1>7, <1>11 DEF KeyBefore
  <2> QED BY <1>11, <2>1, <2>2
<1>14. \A i \in 1 .. n + 1 : EntryHolds(c.buffer[i], KeyBefore(more, i), more[i])
  <2>1. ASSUME NEW i \in 1 .. n
        PROVE  EntryHolds(c.buffer[i], KeyBefore(more, i), more[i])
    <3>1. i # 1 => i - 1 \in 1 .. n
      BY <1>1
    <3>2. KeyBefore(more, i) = KeyBefore(kvs, i)
      BY <3>1, <1>5 DEF KeyBefore
    <3> QED BY <3>2, <1>5, <1>6, <1>7
  <2>2. EntryHolds(c.buffer[n + 1], KeyBefore(more, n + 1), more[n + 1])
    BY <1>3, <1>5, <1>6, <1>13
  <2>3. \A i \in 1 .. n + 1 : i \in 1 .. n \/ i = n + 1
    BY <1>1
  <2> QED BY <2>1, <2>2, <2>3
<1>15. \A i, j \in 1 .. n + 1 : i < j => Less(more[i].key, more[j].key)
  <2>1. \A i \in 1 .. n : Less(kvs[i].key, key)
    <3> SUFFICES ASSUME NEW i \in 1 .. n PROVE Less(kvs[i].key, key)
      OBVIOUS
    <3>1. n > 0 /\ (i # n => i < n)
      BY <1>1
    <3>2. bb.last_key = kvs[n].key /\ Less(kvs[n].key, key)
      BY <3>1, <1>7, <1>10, <1>11 DEF KeyBefore
    <3>3. i # n => Less(kvs[i].key, kvs[n].key)
      BY <3>1, <1>8, <1>11
    <3> QED BY <3>1, <3>2, <3>3, <1>9, <1>11, LessTransitive
  <2>2. \A i, j \in 1 .. n + 1 : i < j => i \in 1 .. n /\ (j \in 1 .. n \/ j = n + 1)
    BY <1>1
  <2> QED BY <2>1, <2>2, <1>4, <1>5, <1>8
<1>16. RestartsHold(c.restarts, c.restart_counter, c.buffer, n + 1)
  <2>1. n = 0 => sh = 0
    <3>1. n = 0 => bb.last_key = <<>>
      BY <1>7, <1>11 DEF KeyBefore
    <3>2. Len(key) \in Nat
      BY BytesOf
    <3> QED BY <3>1, <3>2, <1>2 DEF Shorter
  <2>2. CASE ~RestartDue(bb)
    <3>1. c.restarts = bb.restarts /\ c.restart_counter = bb.restart_counter + 1
      BY <2>2, <1>2
    <3>2. bb.restart_counter < BlockRestartInterval
      BY <2>2, <1>1, RestartIntervalAssumption DEF RestartDue
    <3>3. n = 0 => c.buffer[1].shared = 0
      BY <2>1, <1>4, <1>6, <1>11
    <3> QED BY <3>1, <3>2, <3>3, <1>1, <1>6, <1>7, RestartsStay
  <2>3. CASE RestartDue(bb)
    <3>1. c.restarts = Append(bb.restarts, n) /\ c.restart_counter = 1
      BY <2>3, <1>1, <1>2
    <3>2. bb.restart_counter >= BlockRestartInterval
      BY <2>3 DEF RestartDue
    <3>3. c.buffer[n + 1].shared = 0
      BY <2>3, <1>2, <1>4, <1>6
    <3>4. RestartsHold(Append(bb.restarts, n), 1, c.buffer, n + 1)
      BY <3>2, <3>3, <1>1, <1>6, <1>7, RestartsGrow
    <3> QED BY <3>1, <3>4, Zenon
  <2> QED BY <2>2, <2>3
<1>17. Ascending(more) /\ c.last_key = KeyBefore(more, Len(more) + 1)
  BY <1>2, <1>5, <1>11, <1>12, <1>15 DEF Ascending
<1> QED BY <1>2, <1>5, <1>6, <1>14, <1>16, <1>17 DEF Holds, more, c, kv

\* BlockBuilder::add panics on a key that is not above the last one, and on no
\* other: the restart counter never passes the interval.
LEMMA PanicsOnDisorder ==
    ASSUME BlockRestartInterval > 0, NEW bb, NEW kvs, Holds(bb, kvs), NEW key,
           AddPanics(bb, key)
    PROVE  kvs # <<>> /\ ~Less(kvs[Len(kvs)].key, key)
<1> DEFINE n == Len(kvs)
<1>1. /\ bb.restart_counter \in Nat /\ bb.restart_counter <= BlockRestartInterval
      /\ bb.buffer \in Seq(Entry) /\ kvs \in Seq(KeyValue) /\ Len(bb.buffer) = n /\ n \in Nat
      /\ bb.last_key = KeyBefore(kvs, n + 1)
  BY DEF Holds, RestartsHold, BuilderType
<1>2. bb.buffer # <<>> /\ ~Less(bb.last_key, key)
  BY <1>1, RestartIntervalAssumption DEF AddPanics
<1>3. n > 0 /\ kvs # <<>>
  BY <1>1, <1>2
<1> HIDE DEF n
<1>4. n + 1 # 1 /\ n + 1 - 1 = n
  BY <1>1, <1>3
<1>5. bb.last_key = kvs[n].key
  BY <1>1, <1>4 DEF KeyBefore
<1> QED BY <1>2, <1>3, <1>5 DEF n
=============================================================================
