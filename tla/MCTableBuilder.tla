--------------------------- MODULE MCTableBuilder ---------------------------
(***************************************************************************)
(* TableBuilder with blocks of one or two entries.                         *)
(***************************************************************************)
EXTENDS TableBuilder

\* neighbours with and without room for a separator in between
MCKeys == {<<>>, <<0>>, <<0, 0>>, <<0, 1>>, <<1>>, <<1, 1>>, <<3>>}

MCProperKeys == MCKeys \ {<<>>}

MCFilterName == <<2>>

MCVals == {<<>>, <<1, 1, 1, 1, 1, 1>>}
=============================================================================
