----------------------------- MODULE MCFormats ------------------------------
(***************************************************************************)
(* The conversions of the file format on all pairs of byte strings up to   *)
(* MaxLen: the order and the separators of MCCmp, Bloom filters of both    *)
(* strings, checksums, handles and footers of the numbers they spell.      *)
(***************************************************************************)
EXTENDS MCCmp, Bloom, BlockHandle

CONSTANT BitsPerKey     \* the bits_per_key of the policies looked at

\* A filter denies none of the keys it was made for: neither keys that occur
\* twice nor empty ones, and whatever the number of bytes and probes that the
\* policy has chosen, which the reader takes from the filter.
NoFalseNegatives ==
    \A p \in BitsPerKey :
        LET keys   == <<a, b, b \o a>>
            filter == create_filter(p, a \o b \o b \o a, <<0, Len(a), Len(a) + Len(b)>>)
        IN  \A i \in 1 .. Len(keys) : key_may_match(keys[i], filter)

\* the number that a string spells
Spelt(s) == IF s = <<>> THEN 0 ELSE VarsBefore(s, Len(s))[1]

\* the numbers of up to VarMaxLen digits, as those of the code are: the first and
\* the last, and those that the two strings spell
Numbers ==
    {n \in {0, Spelt([i \in 1 .. VarMaxLen |-> VarBase - 1]), Spelt(a), Spelt(b)} :
        Len(encode_var[n]) <= VarMaxLen}

\* The footer has room for handles of any size, and reading it returns the
\* handles that were written: Table::new follows what TableBuilder::finish
\* meant.
FooterRoundTrip ==
    \A m, n \in Numbers : {Spelt(a), Spelt(b)} \subseteq Numbers =>
        LET f == [meta_index |-> [offset |-> m, size |-> Spelt(a)],
                  index      |-> [offset |-> Spelt(b), size |-> n]]
        IN  /\ ~EncodeFooterPanics(f)
            /\ ~DecodeFooterPanics(EncodeFooter(f))
            /\ DecodeFooter(EncodeFooter(f)) = f

\* A reader's unmask_crc undoes the writer's mask_crc, wherever the rotation and
\* the addition carry over.
MaskRoundTrip ==
    LET c == WordOf(a \o b, 1, Len(a) + Len(b))
    IN  \A top \in {0, 128, 255} :
            LET w == <<c[1], c[2], c[3], top>> IN unmask_crc(mask_crc(w)) = w

\* src/src/filter.rs, test_filter_bloom_hash
ASSUME BloomHashVectors ==
    /\ bloom_hash(<<98>>) = <<196, 69, 19, 239>>
    /\ bloom_hash(<<195, 151>>) = <<20, 56, 102, 91>>
    /\ bloom_hash(<<226, 153, 165>>) = <<143, 7, 60, 50>>
    /\ bloom_hash(<<225, 128, 185, 50>>) = <<58, 99, 33, 237>>

\* src/src/filter.rs, create_filter of the tests: four keys, 12 bits per key
TestData ==
    <<97, 98, 99, 49, 50, 51, 100, 101, 102, 52, 53, 54, 120, 120, 120, 49,
      49, 49, 120, 120, 120, 50, 50, 50, 97, 98, 48, 48, 99, 100, 48, 48, 97,
      98, 57, 48, 56, 48, 55, 48, 54, 48, 53, 48, 52, 48, 51, 48, 50, 48, 49,
      48>>

ASSUME BloomFilterVector ==
    LET filter == create_filter(12, TestData, <<0, 12, 24, 34>>)
        bytes  == <<194, 148, 129, 140, 192, 196, 132, 164>>
    IN  filter = [bits |-> {n \in 0 .. 63 : (bytes[(n \div 8) + 1] \div 2 ^ (n % 8)) % 2 = 1}, len |-> 9, k |-> 8]
=============================================================================
