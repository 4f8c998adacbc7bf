------------------------------- MODULE Bloom --------------------------------
(***************************************************************************)
(* BloomPolicy (src/src/filter.rs): the filter for a set of keys that are  *)
(* given as one array and the places in it where each key begins.          *)
(*                                                                         *)
(* A filter is the set of the bits that are set in it, the number of its   *)
(* bytes and, in the last of them, k.                                      *)
(***************************************************************************)
EXTENDS Words

BLOOM_SEED == <<52, 29, 159, 188>>

Multiplier == <<147, 167, 164, 198>>

\* a piece of data of at most four bytes as a word
WordOf(data, from, to) ==
    Bytes(LAMBDA i : IF from + i - 1 <= to THEN data[from + i - 1] ELSE 0)

NumberWord(n) == Bytes(LAMBDA i : (n \div 256 ^ (i - 1)) % 256)

\* one step of the hash, over four bytes or, at the end, what is left of them
HashStep(h, w, shift) ==
    LET g == WordMul(WordAdd(h, w), Multiplier) IN WordXor(g, ShiftBytes(g, shift))

bloom_hash(data) ==
    LET limit == Len(data)
        whole == limit \div 4
        h[n \in 0 .. whole] ==
            IF n = 0 THEN WordXor(BLOOM_SEED, WordMul(NumberWord(limit), Multiplier))
            ELSE HashStep(h[n - 1], WordOf(data, 4 * n - 3, 4 * n), 2)
    IN  IF limit % 4 = 0 THEN h[whole]
        ELSE HashStep(h[whole], WordOf(data, 4 * whole + 1, limit), 3)

\* BloomPolicy::new: bits_per_key * 0.69, from 1 to 30
ProbesFor(bits_per_key) ==
    LET k == (69 * bits_per_key) \div 100
    IN  IF k < 1 THEN 1 ELSE IF k > 30 THEN 30 ELSE k

\* the bits that the loops of create_filter and key_may_match look at
Probes(key, k, bits) ==
    LET h     == bloom_hash(key)
        delta == RotateRight17(h)
        at[n \in 0 .. k - 1] == IF n = 0 THEN h ELSE WordAdd(at[n - 1], delta)
    IN  {WordMod(at[n], bits) : n \in 0 .. k - 1}

\* offset_data_iterate
Pieces(data, offsets) ==
    {SubSeq(data, offsets[i] + 1, IF i = Len(offsets) THEN Len(data) ELSE offsets[i + 1]) :
        i \in 1 .. Len(offsets)}

\* the bytes of the filter, without k
FilterBytes(n, bits_per_key) ==
    IF n * bits_per_key < 64 THEN 8 ELSE (n * bits_per_key + 7) \div 8

\* BloomPolicy::create_filter
create_filter(bits_per_key, keys, key_offsets) ==
    LET bytes == FilterBytes(Len(key_offsets), bits_per_key)
        k     == ProbesFor(bits_per_key)
    IN  [bits |-> UNION {Probes(key, k, AsU32(8 * bytes)) : key \in Pieces(keys, key_offsets)},
         len  |-> bytes + 1,
         k    |-> k]

\* NoFilterPolicy::create_filter
NoFilter == [bits |-> {}, len |-> 0, k |-> 0]

\* (deliberately wrong, for the mutant of key_may_match: the byte that holds k is
\* counted among the bits)
key_may_match_WithK(key, filter) ==
    \/ filter.len = 0
    \/ filter.k > 30
    \/ Probes(key, filter.k, AsU32(8 * AsU32(filter.len))) \subseteq filter.bits

\* BloomPolicy::key_may_match, on the filter of any policy that takes k from it;
\* the number of bits wraps, as it does in a release build
key_may_match(key, filter) ==
    \/ filter.len = 0
    \/ filter.k > 30
    \/ Probes(key, filter.k, AsU32(8 * AsU32(filter.len - 1))) \subseteq filter.bits
=============================================================================
