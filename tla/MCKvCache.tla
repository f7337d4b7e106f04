------------------------------ MODULE MCKvCache ------------------------------
(***************************************************************************)
(* A context of 8 positions in 9 cells, 6 of them for prompts: small       *)
(* enough to be shifted several times, with batches that have to be        *)
(* scattered over the free cells.                                          *)
(***************************************************************************)
EXTENDS KvCache

\* Within one batch, several batches, exactly the maximum, beyond it.
MCSystemSizes == {2, 6, 7}
MCUserSizes == {1, 3, 5, 7}
MCPredictLengths == {0, 2, 6}
==============================================================================
