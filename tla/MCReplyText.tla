----------------------------- MODULE MCReplyText ------------------------------
(***************************************************************************)
(* Pieces that are whole characters, single bytes, that end inside of a    *)
(* character, that begin there, and that no text contains.                 *)
(***************************************************************************)
EXTENDS ReplyText

MCPieces == { <<>>, <<"ascii">>, <<"cont">>, <<"lead2">>, <<"lead3">>, <<"lead4">>,
              <<"lead2", "cont">>, <<"ascii", "lead3">>, <<"cont", "cont">>,
              <<"cont", "lead2">>, <<"cont", "ascii">>, <<"bad">>, <<"nul">>,
              <<"ascii", "nul", "ascii">> }
==============================================================================
