----------------------------- MODULE ModelResponse -----------------------------
(***************************************************************************)
(* The response of a model, between the provider that parses it and the    *)
(* loop that handles it (runtime/actions.py, runtime/model/response.py).   *)
(* An item is its type; a reasoning summary is a message, for the loop     *)
(* keeps both alike.                                                       *)
(***************************************************************************)
EXTENDS Naturals, Sequences, FiniteSets

ResponseItem == {"message", "tool_call", "final_answer"}

(* ModelResponse.__post_init__ does not raise.                             *)
ValidResponse(items) ==
    LET finals == {i \in DOMAIN items : items[i] = "final_answer"}
    IN  /\ items # <<>>
        /\ Cardinality(finals) <= 1
        /\ finals # {} => \A i \in DOMAIN items : items[i] # "tool_call"
===============================================================================
