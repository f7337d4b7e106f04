----------------------------- MODULE MCThreadPool -----------------------------
(***************************************************************************)
(* Three threads, two graphs.                                              *)
(***************************************************************************)
EXTENDS ThreadPool

MCGraphs == { <<"product", "empty", "plain">> }
==============================================================================
