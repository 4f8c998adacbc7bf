----------------------------- MODULE BlockHandle ----------------------------
(***************************************************************************)
(* BlockHandle (src/src/blockhandle.rs) and Footer                         *)
(* (src/src/table_builder.rs): how the places of blocks are written into   *)
(* the index, the metaindex and the footer, and read back.                 *)
(*                                                                         *)
(* A number is written as a varint: digits to the base VarBase, the lowest *)
(* first, of which all but the last have VarBase added.                    *)
(***************************************************************************)
EXTENDS Integers, Sequences, FiniteSetsExt

CONSTANTS VarBase,      \* 128
          VarMaxLen,    \* the bytes of the longest varint: 10
          FooterLength  \* FOOTER_LENGTH, 40: the footer without its magic number

ASSUME BlockHandleAssumption ==
    /\ VarBase \in Nat \ {0, 1}
    /\ VarMaxLen \in Nat \ {0} /\ FooterLength \in Nat

\* VarInt::encode_var
encode_var[n \in Nat] ==
    IF n < VarBase THEN <<n>> ELSE <<VarBase + (n % VarBase)>> \o encode_var[n \div VarBase]

\* VarInt::decode_var on the bytes from a place on: where the number ends, 0 if
\* it does not, which is decode_var's None
VarEnd(bytes, from) ==
    LET ends == {i \in from .. Len(bytes) : bytes[i] < VarBase}
    IN  IF ends = {} \/ Min(ends) >= from + VarMaxLen THEN 0 ELSE Min(ends)

\* the numbers that begin at each place up to the end of one
VarsBefore(bytes, end) ==
    LET value[i \in 1 .. end] ==
            IF i = end THEN bytes[i] ELSE (bytes[i] % VarBase) + VarBase * value[i + 1]
    IN  value

VarValue(bytes, from) ==
    IF VarEnd(bytes, from) = 0 THEN 0 ELSE VarsBefore(bytes, VarEnd(bytes, from))[from]

\* BlockHandle::encode_to
encode_to(h) == encode_var[h.offset] \o encode_var[h.size]

\* BlockHandle::decode on the bytes from a place on: unwrap() fails, or the
\* handle and the place after it
DecodePanics(bytes, from) ==
    VarEnd(bytes, from) = 0 \/ VarEnd(bytes, VarEnd(bytes, from) + 1) = 0

decode(bytes, from) ==
    [offset |-> VarValue(bytes, from), size |-> VarValue(bytes, VarEnd(bytes, from) + 1)]

AfterHandle(bytes, from) == VarEnd(bytes, VarEnd(bytes, from) + 1) + 1

-----------------------------------------------------------------------------

MAGIC_FOOTER_ENCODED == <<87, 251, 128, 139, 36, 117, 71, 219>>

FullFooterLength == FooterLength + 8

\* Footer::encode: handles that leave no room for the padding would be
\* overwritten by the magic number
EncodeFooter(f) ==
    LET handles == encode_to(f.meta_index) \o encode_to(f.index)
    IN  [i \in 1 .. FullFooterLength |->
            IF i > FooterLength THEN MAGIC_FOOTER_ENCODED[i - FooterLength]
            ELSE IF i <= Len(handles) THEN handles[i] ELSE 0]

\* the assertions of encode_to and Footer::encode fail
EncodeFooterPanics(f) ==
    Len(encode_to(f.meta_index) \o encode_to(f.index)) > FullFooterLength

\* (deliberately wrong, for the mutant of IndexBegins: the second handle is
\* looked for at the middle of the footer)
IndexBegins_Middle(bytes) == FooterLength \div 2 + 1

\* where Footer::decode looks for the second handle
IndexBegins(bytes) == AfterHandle(bytes, 1)

\* Footer::decode
DecodeFooterPanics(bytes) ==
    \/ Len(bytes) < FullFooterLength
    \/ SubSeq(bytes, FooterLength + 1, Len(bytes)) # MAGIC_FOOTER_ENCODED
    \/ DecodePanics(bytes, 1)
    \/ DecodePanics(bytes, IndexBegins(bytes))

DecodeFooter(bytes) == [meta_index |-> decode(bytes, 1), index |-> decode(bytes, IndexBegins(bytes))]
=============================================================================
