--------------------------- MODULE MCResponsesStream ---------------------------
(* Every stream of up to three output items.                               *)
EXTENDS ResponsesStream

(* Lists of every kind that can come with the completion.                  *)
MCOutputs ==
    {<<>>, <<"message">>, <<"reasoning", "message">>, <<"message", "reasoning">>,
     <<"message", "message">>, <<"message", "function_call">>,
     <<"malformed_call", "ill_typed">>, <<"function_call", "no_object">>, <<"nothing">>}
===============================================================================
