------------------------------ MODULE MCTable -------------------------------
(***************************************************************************)
(* Table over files of up to three data blocks.                            *)
(***************************************************************************)
EXTENDS Table

\* neighbours with nothing in between, with room for a separator, and with
\* room for a key between the last key of a block and the separator
MCKeys == {<<>>, <<0>>, <<0, 0>>, <<1>>, <<1, 3>>, <<3>>}

MCProperKeys == MCKeys \ {<<>>}

MCFilterName == <<2>>

\* NoFilterPolicy, one below the writer's, the same, one above
MCPolicyNames == {<<0>>, <<1>>, <<2>>, <<3>>}

MCVals == {<<>>, <<1, 1, 1, 1, 1, 1>>}
=============================================================================
