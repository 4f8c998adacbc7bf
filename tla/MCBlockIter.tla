---------------------------- MODULE MCBlockIter ----------------------------
(***************************************************************************)
(* BlockIter on small blocks.                                              *)
(***************************************************************************)
EXTENDS BlockIter

\* the empty key, and keys that share prefixes of every length with their neighbours
MCKeys == {<<>>, <<0>>, <<0, 0>>, <<0, 0, 1>>, <<0, 1>>, <<1>>}

MCVals == {<<>>, <<1>>}
=============================================================================
