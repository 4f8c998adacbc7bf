---------------------------- MODULE MCBlockCache ----------------------------
(***************************************************************************)
(* Two threads, two tables of two blocks, and a cache too small for all of *)
(* them.                                                                   *)
(***************************************************************************)
EXTENDS BlockCache

MCKey == (1 .. MaxIds) \X Offset

MCVal == Table \X Offset
=============================================================================
