------------------------------- MODULE MCCache ------------------------------
(***************************************************************************)
(* Cache with a few keys more than its capacity and one address more than  *)
(* it needs, so that addresses are reused at once and later.               *)
(***************************************************************************)
EXTENDS Cache, TLC

\* keys, elements and addresses are only compared
MCSymmetry == Permutations(Key) \union Permutations(Addr)
=============================================================================
