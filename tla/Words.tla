------------------------------- MODULE Words --------------------------------
(***************************************************************************)
(* 32-bit words (u32) as their four bytes, the lowest first, and the       *)
(* masking of checksums (src/src/types.rs).                                *)
(***************************************************************************)
EXTENDS Integers, Sequences

\* n as u32, for a natural number n: its last 32 bits, in two halves
AsU32(n) == (65536 * ((n \div 65536) % 65536)) + (n % 65536)

\* the word with byte F(i) at place i
Bytes(F(_)) == <<F(1), F(2), F(3), F(4)>>

\* the word whose digits to the base 256 these are, those above 255 carried
\* over: what lies beyond the fourth byte is lost
Carried(d) ==
    LET c2 == d[2] + (d[1] \div 256)
        c3 == d[3] + (c2 \div 256)
        c4 == d[4] + (c3 \div 256)
    IN  <<d[1] % 256, c2 % 256, c3 % 256, c4 % 256>>

WordAdd(u, v) == Carried(Bytes(LAMBDA i : u[i] + v[i]))

WordSub(u, v) == Carried(Bytes(LAMBDA i : u[i] + 255 - v[i] + (IF i = 1 THEN 1 ELSE 0)))

WordMul(u, v) ==
    Carried(<<u[1] * v[1],
              u[1] * v[2] + u[2] * v[1],
              u[1] * v[3] + u[2] * v[2] + u[3] * v[1],
              u[1] * v[4] + u[2] * v[3] + u[3] * v[2] + u[4] * v[1]>>)

\* the exclusive or of two bytes
Xor[x \in 0 .. 255, y \in 0 .. 255] ==
    IF x = 0 THEN y ELSE ((x + y) % 2) + 2 * Xor[x \div 2, y \div 2]

WordXor(u, v) == Bytes(LAMBDA i : Xor[u[i], v[i]])

\* w >> (8 * n)
ShiftBytes(w, n) == Bytes(LAMBDA i : IF i + n <= 4 THEN w[i + n] ELSE 0)

\* the word's bytes, from any place on and around
Around(w, i) == w[((i - 1) % 4) + 1]

\* (w >> 17) | (w << 15)
RotateRight17(w) ==
    Bytes(LAMBDA i : (Around(w, i + 2) \div 2) + 128 * (Around(w, i + 3) % 2))

\* (w >> 15) | (w << 17)
RotateRight15(w) ==
    Bytes(LAMBDA i : ((2 * Around(w, i + 2)) % 256) + (Around(w, i + 1) \div 128))

\* w % n
WordMod(w, n) ==
    LET high == (w[4] * 256 + w[3]) % n
    IN  (((high * 256 + w[2]) % n) * 256 + w[1]) % n

MASK_DELTA == <<216, 234, 130, 162>>

mask_crc(c) == WordAdd(RotateRight15(c), MASK_DELTA)

\* (deliberately wrong, for the mutant of unmask_crc: rotated as mask_crc does)
unmask_crc_SameWay(mc) == RotateRight15(WordSub(mc, MASK_DELTA))

unmask_crc(mc) == RotateRight17(WordSub(mc, MASK_DELTA))
=============================================================================
