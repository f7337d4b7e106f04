--------------------------- MODULE MCModelDownload ---------------------------
(***************************************************************************)
(* Two files of one name, of different lengths, for the run with one       *)
(* thread, and one file for the run in which a cancelled download meets    *)
(* its successor.                                                          *)
(***************************************************************************)
EXTENDS ModelDownload, TLC

CONSTANTS a, b, w1, w2

TwoFiles == {a, b}
OneFile == {a}
TwoSizes == (a :> 3) @@ (b :> 2)
OneSize == (a :> 2)
TwoThreads == {w1, w2}
OneThread == {w1}
Symmetry == Permutations(TwoThreads)
==============================================================================
