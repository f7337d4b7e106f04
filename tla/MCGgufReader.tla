---------------------------- MODULE MCGgufReader ------------------------------
(***************************************************************************)
(* Files of up to ten cells.  An Int has three bits here: 4 narrows to -4, *)
(* 8 to 0 and 9 to 1, and a string of 4 is too long to be kept, although   *)
(* it may be in the file.                                                  *)
(***************************************************************************)
EXTENDS GgufReader

MCCells == {-1, 0, 1, 2, 3, 4, 8, 9}
==============================================================================
