------------------------------ MODULE MCAgentLoop ------------------------------
(* Small runs of the agent loop for TLC.                                   *)
EXTENDS AgentLoop

(* Every kind of turn: talk, one call, two calls after a text, an answer.  *)
TurnsOfEachKind ==
    {<<"message">>, <<"tool_call">>, <<"message", "tool_call", "tool_call">>,
     <<"message", "final_answer">>}

(* Turns whose calls are adjacent, as every test of the repository has them. *)
AdjacentCalls ==
    {<<"message">>, <<"tool_call">>, <<"message", "tool_call", "tool_call">>,
     <<"final_answer">>}

(* A turn with a text between or after its calls, which ModelResponse      *)
(* allows and the loop handles in its order.                               *)
ScatteredCalls == {<<"tool_call", "message", "tool_call">>, <<"message">>}

NoCompaction == {"none"}
BothPolicies == {"sliding_window", "full_summary"}
WindowOnly == {"sliding_window"}
==============================================================================
