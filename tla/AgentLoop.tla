------------------------------- MODULE AgentLoop -------------------------------
(***************************************************************************)
(* One run of AgentLoop.run (runtime/loop.py): the loop over model turns,  *)
(* the retries of a model request, the tools of a turn, the verification   *)
(* of a final answer, cancellation at every await, and exceptions, also    *)
(* those of the trace writer, at every step.                               *)
(*                                                                         *)
(* Out of the state are the texts, the statistics (context_stats, budget,  *)
(* usage) and all events but agent_stopped: nothing reads them back.       *)
(***************************************************************************)
EXTENDS ContextWindow, ModelResponse

CONSTANTS MaxSteps,         \* RunConfig.max_steps
          MaxAttempts,      \* ModelRetryPolicy.max_attempts
          TokenBudget,      \* its max_estimated_input_tokens
          Compactions,      \* the compaction policies a run may have
          Responses,        \* the responses a model may give: item types
          ResultSizes,      \* the tokens a rendered tool result may have
          TraceMayFail      \* whether writing the trace may raise

ASSUME LoopAssumption ==
    /\ MaxSteps \in Nat /\ MaxAttempts \in Nat \ {0} /\ TokenBudget \in Nat \ {0}
    /\ Compactions \subseteq {"none", "sliding_window", "full_summary"}
    /\ Responses \subseteq Seq(ResponseItem)
    /\ \A items \in Responses : ValidResponse(items)
    /\ ResultSizes \subseteq Nat
    /\ TraceMayFail \in BOOLEAN

VARIABLES
    config,       \* verifier: is there one; compaction: the policy's name
    status, step, messages,             \* of AgentState
    final_answer,                       \* BOOLEAN: is it set
    verdicts,     \* verification_history: passed or not
    tool_history, \* the calls whose result is recorded
    pc,           \* where run() is
    request,      \* the context of the current model request
    attempt,      \* its attempt
    response,     \* the items of the response not handled yet
    pending,      \* pending_tool_calls not run yet
    executed,     \* the calls handed to a tool, in order
    stops         \* the number of agent_stopped events

loop == <<config, status, step>>
conversation == <<messages, final_answer, verdicts>>
tools == <<pending, executed, tool_history>>
model == <<request, attempt, response>>
vars == <<config, status, step, messages, final_answer, verdicts, tool_history,
          pc, request, attempt, response, pending, executed, stops>>

Init ==
    /\ config \in [verifier : BOOLEAN, compaction : Compactions]
    /\ status = "running" /\ step = 0 /\ messages = <<>>
    /\ final_answer = FALSE /\ verdicts = <<>> /\ tool_history = <<>>
    /\ pc = "top" /\ request = <<>> /\ attempt = 1 /\ response = <<>>
    /\ pending = <<>> /\ executed = <<>> /\ stops = 0

NextId == Len(messages) + 1

------------------------------------------------------------------------------
(* The top of the loop and the model request.                              *)

ExceedMaxSteps ==
    /\ pc = "top"
    /\ step >= MaxSteps
    /\ status' = "failed"
    /\ stops' = stops + 1
    /\ pc' = "result"
    /\ UNCHANGED <<config, step, conversation, tools, model>>

(* ContextBuilder.build, and compaction when the budget demands it.        *)
BuildContext ==
    LET context == Mandatory \o messages
        compact == ShouldCompact(context) /\ config.compaction # "none"
        summarize == compact /\ config.compaction = "full_summary"
    IN  /\ pc = "top"
        /\ step < MaxSteps
        /\ attempt' = 1
        /\ IF summarize /\ NeedsSummary(context)
             THEN request' = context /\ pc' = "summarize"
             ELSE /\ pc' = "request"
                  /\ request' = CASE ~compact  -> context
                                  [] summarize -> WithoutSummary(context)
                                  [] OTHER     -> SlidingWindow(context)
        /\ UNCHANGED <<loop, conversation, tools, response, stops>>

(* The summarizer answers, or fails in a way that makes the policy fall    *)
(* back: an exception, an empty summary, one beyond its budget.            *)
Summarize ==
    /\ pc = "summarize"
    /\ \/ request' = WithoutSummary(request)
       \/ \E tokens \in 1..SummaryBudget(request) :
              request' = WithSummary(request, tokens)
    /\ pc' = "request"
    /\ UNCHANGED <<loop, conversation, tools, attempt, response, stops>>

SendRequest ==
    /\ pc = "request"
    /\ pc' = "generate"
    /\ UNCHANGED <<loop, conversation, tools, model, stops>>

Respond ==
    /\ pc = "generate"
    /\ response' \in Responses
    /\ pc' = "items"
    /\ UNCHANGED <<loop, conversation, tools, request, attempt, stops>>

(* Variants of the next definitions, as a slip in the code would make them. *)
RetryWithinAttempts == attempt <= MaxAttempts
RetryWithinBudget ==
    attempt < MaxAttempts /\ attempt * Tokens(request) <= TokenBudget

(* ModelRetryPolicy.evaluate for an error marked retryable.                *)
RetryAllowed ==
    /\ attempt < MaxAttempts
    /\ (attempt + 1) * Tokens(request) <= TokenBudget

(* A ModelProviderError: wait and try again, or give up.                   *)
ProviderFails(retryable) ==
    /\ pc = "generate"
    /\ pc' = IF retryable /\ RetryAllowed THEN "backoff" ELSE "failing"
    /\ UNCHANGED <<loop, conversation, tools, model, stops>>

(* A variant of the next definition: the attempts are not counted.         *)
BackoffUncounted ==
    /\ pc = "backoff"
    /\ pc' = "request"
    /\ UNCHANGED <<loop, conversation, tools, model, stops>>

Backoff ==
    /\ pc = "backoff"
    /\ attempt' = attempt + 1
    /\ pc' = "request"
    /\ UNCHANGED <<loop, conversation, tools, request, response, stops>>

------------------------------------------------------------------------------
(* The items of a response.                                                *)

AppendMessage(type, call, tokens) ==
    messages' = Append(messages, Item(NextId, type, call, tokens))

HandleMessage ==
    /\ pc = "items" /\ response # <<>> /\ Head(response) = "message"
    /\ AppendMessage("assistant", 0, 1)
    /\ response' = Tail(response)
    /\ UNCHANGED <<loop, final_answer, verdicts, tools, pc, request, attempt, stops>>

HandleToolCall ==
    /\ pc = "items" /\ response # <<>> /\ Head(response) = "tool_call"
    /\ AppendMessage("tool_call", NextId, 1)
    /\ pending' = Append(pending, NextId)
    /\ response' = Tail(response)
    /\ UNCHANGED <<loop, final_answer, verdicts, executed, tool_history, pc,
                   request, attempt, stops>>

HandleFinalAnswer ==
    /\ pc = "items" /\ response # <<>> /\ Head(response) = "final_answer"
    /\ response' = Tail(response)
    /\ IF config.verifier
         THEN pc' = "verify" /\ UNCHANGED <<final_answer, status>>
         ELSE final_answer' = TRUE /\ status' = "completed" /\ UNCHANGED pc
    /\ UNCHANGED <<config, step, messages, verdicts, tools, request, attempt, stops>>

Verify ==
    /\ pc = "verify"
    /\ \E passed \in BOOLEAN : verdicts' = Append(verdicts, passed)
    /\ pc' = "verdict"
    /\ UNCHANGED <<loop, messages, final_answer, tools, model, stops>>

(* A variant of the next definition: the answer is kept whatever the verdict. *)
ApplyVerdictAnyway ==
    /\ pc = "verdict"
    /\ final_answer' = TRUE
    /\ status' = "completed"
    /\ pc' = "items"
    /\ UNCHANGED <<config, step, messages, verdicts, tools, model, stops>>

ApplyVerdict ==
    /\ pc = "verdict"
    /\ IF Last(verdicts)
         THEN final_answer' = TRUE /\ status' = "completed" /\ UNCHANGED messages
         ELSE /\ messages' = messages \o
                    <<Item(NextId, "assistant", 0, 1),
                      Item(NextId + 1, "verification", 0, 1)>>
              /\ UNCHANGED <<final_answer, status>>
    /\ pc' = "items"
    /\ UNCHANGED <<config, step, verdicts, tools, model, stops>>

------------------------------------------------------------------------------
(* The tools of a response, after all its items.                           *)

ToolsCanRun == pc = "items" /\ response = <<>> /\ pending # <<>>

(* The policy allows the call: it is in the tool's hands until it returns. *)
StartTool ==
    /\ ToolsCanRun
    /\ executed' = Append(executed, Head(pending))
    /\ pc' = "tool"
    /\ UNCHANGED <<loop, conversation, pending, tool_history, model, stops>>

(* The tool returns, whether it succeeded or not.                          *)
ToolReturns ==
    /\ pc = "tool"
    /\ tool_history' = Append(tool_history, Head(pending))
    /\ pc' = "recorded"
    /\ UNCHANGED <<loop, conversation, pending, executed, model, stops>>

(* The policy requires approval or denies the call: a failed result.       *)
RefuseTool ==
    /\ ToolsCanRun
    /\ tool_history' = Append(tool_history, Head(pending))
    /\ pc' = "recorded"
    /\ UNCHANGED <<loop, conversation, pending, executed, model, stops>>

(* A variant of the next definition: the call stays in the list.           *)
AppendResultKeepsCall ==
    /\ pc = "recorded"
    /\ \E tokens \in ResultSizes : AppendMessage("tool_result", Head(pending), tokens)
    /\ pc' = "items"
    /\ UNCHANGED <<loop, final_answer, verdicts, pending, executed, tool_history,
                   model, stops>>

AppendResult ==
    /\ pc = "recorded"
    /\ \E tokens \in ResultSizes : AppendMessage("tool_result", Head(pending), tokens)
    /\ pending' = Tail(pending)
    /\ pc' = "items"
    /\ UNCHANGED <<loop, final_answer, verdicts, executed, tool_history, model, stops>>

EndStep ==
    /\ pc = "items" /\ response = <<>> /\ pending = <<>>
    /\ step' = step + 1
    /\ IF status = "completed"
         THEN stops' = stops + 1 /\ pc' = "result"
         ELSE pc' = "top" /\ UNCHANGED stops
    /\ UNCHANGED <<config, status, conversation, tools, model>>

------------------------------------------------------------------------------
(* The ends of a run.                                                      *)

(* A variant of the next definition: the failure is reported and forgotten. *)
FailContinues ==
    /\ pc = "failing"
    /\ stops' = stops + 1
    /\ pc' = "top"
    /\ response' = <<>> /\ pending' = <<>>
    /\ UNCHANGED <<loop, conversation, executed, tool_history, request, attempt>>

(* The handler of Exception.                                               *)
Fail ==
    /\ pc = "failing"
    /\ status' = "failed"
    /\ stops' = stops + 1
    /\ pc' = "result"
    /\ UNCHANGED <<config, step, conversation, tools, model>>

WriteResult ==
    /\ pc = "result"
    /\ pc' = "returned"
    /\ UNCHANGED <<loop, conversation, tools, model, stops>>

Awaiting == pc \in {"summarize", "generate", "backoff", "verify", "tool"}

(* A variant of the next definition: the run goes on after a cancelled tool. *)
CancelSkipsTool ==
    /\ pc = "tool"
    /\ pending' = Tail(pending)
    /\ pc' = "items"
    /\ UNCHANGED <<loop, conversation, executed, tool_history, model, stops>>

(* The caller cancels the task: CancelledError is raised at the await that *)
(* the run is suspended in.                                                *)
Cancel ==
    /\ Awaiting
    /\ status' = "cancelled"
    /\ stops' = stops + 1
    /\ pc' = "result"
    /\ UNCHANGED <<config, step, conversation, tools, model>>

(* The model, a tool or the verifier raises something unexpected (the      *)
(* summarizer's exceptions are caught by its policy).                      *)
Raise ==
    /\ pc \in {"generate", "verify", "tool"}
    /\ pc' = "failing"
    /\ UNCHANGED <<loop, conversation, tools, model, stops>>

(* Writing the trace raises: inside the try block the handler takes over.  *)
(* An agent_stopped event is counted before it is written.                 *)
TraceFails ==
    /\ TraceMayFail
    /\ \/ pc \in {"request", "items", "verdict", "recorded"}
       \/ pc = "top" /\ step < MaxSteps
    /\ pc' = "failing"
    /\ IF pc = "items" /\ response = <<>> /\ pending = <<>>
         THEN /\ status = "completed"        \* else EndStep writes nothing
              /\ step' = step + 1 /\ stops' = stops + 1
         ELSE UNCHANGED <<step, stops>>
    /\ UNCHANGED <<config, status, conversation, tools, model>>

(* Outside of it, in a handler or in write_result, the exception leaves    *)
(* run().                                                                  *)
TraceFailsOutside ==
    /\ TraceMayFail
    /\ \/ pc = "top" /\ step >= MaxSteps /\ status' = "failed"
       \/ pc = "failing" /\ status' = "failed"
       \/ Awaiting /\ status' = "cancelled"
       \/ pc = "result" /\ UNCHANGED status
    /\ pc' = "raised"
    /\ UNCHANGED <<config, step, conversation, tools, model, stops>>

LoopStep ==
    \/ ExceedMaxSteps \/ BuildContext \/ Summarize \/ SendRequest \/ Respond
    \/ \E retryable \in BOOLEAN : ProviderFails(retryable)
    \/ Backoff \/ HandleMessage \/ HandleToolCall \/ HandleFinalAnswer \/ Verify
    \/ ApplyVerdict
    \/ StartTool \/ ToolReturns \/ RefuseTool \/ AppendResult \/ EndStep
    \/ Fail \/ WriteResult

Next == LoopStep \/ Cancel \/ Raise \/ TraceFails \/ TraceFailsOutside

(* Every await ends: requests, commands and verification have timeouts.    *)
Spec == Init /\ [][Next]_vars /\ WF_vars(LoopStep)

------------------------------------------------------------------------------
(* Properties.                                                             *)

Ids == 1..Len(messages)

IdsOf(type) == {i \in Ids : messages[i].type = type}

Increasing(s) == \A i, j \in DOMAIN s : i < j => s[i] < s[j]

(* The model is, or is about to be, asked about the whole conversation.    *)
Asking == pc \in {"summarize", "request", "generate", "backoff"}

(* Every variable has its type; a message's id is its position.            *)
TypeOK ==
    /\ config \in [verifier : BOOLEAN, compaction : Compactions]
    /\ status \in {"running", "completed", "failed", "cancelled"}
    /\ step \in 0..MaxSteps
    /\ messages \in Seq(ContextItem) /\ \A i \in Ids : messages[i].id = i
    /\ final_answer \in BOOLEAN
    /\ verdicts \in Seq(BOOLEAN)
    /\ tool_history \in Seq(Nat) /\ executed \in Seq(Nat) /\ pending \in Seq(Nat)
    /\ pc \in {"top", "summarize", "request", "generate", "backoff", "items",
               "verify", "verdict", "tool", "recorded", "failing", "result",
               "returned", "raised"}
    /\ request \in Seq(ContextItem)
    /\ attempt \in 1..MaxAttempts
    /\ response \in Seq(ResponseItem)
    /\ stops \in Nat

(* Whenever the model is asked, each call of the conversation has exactly  *)
(* one result, a batch of calls is followed by its results and not mixed   *)
(* with them, and each verdict against an answer has been told: no turn,   *)
(* however it went, leaves a call open (loop.py 158-161, 276-283; docs/    *)
(* openai-responses-provider.md on the order of calls and outputs).        *)
ConversationIsClosed ==
    LET calls == IdsOf("tool_call")
        results == IdsOf("tool_result")
        closed(c, end) == {r \in results : c < r /\ r < end /\ messages[r].call = c}
    IN  Asking =>
            /\ \A c \in calls : Cardinality(closed(c, Len(messages) + 1)) = 1
            /\ \A r \in results : messages[r].call \in calls
            /\ \A c, d \in calls, r \in results :
                   c < r /\ r < d => closed(c, d) # {}
            /\ Len(verdicts) = Cardinality(IdsOf("verification"))

(* No call is handed to its tool twice, nor before an earlier one; a call  *)
(* that was handed out is recorded, except the last one while it runs or   *)
(* when it ended the run; and what the model is told of is recorded.       *)
ToolsRunOnce ==
    LET recorded == ToSet(tool_history)
        open == ToSet(executed) \ recorded
    IN  /\ Increasing(executed) /\ Increasing(tool_history)
        /\ open # {} => /\ open = {Last(executed)}
                        /\ pc \in {"tool", "failing", "result", "returned", "raised"}
        /\ \A r \in IdsOf("tool_result") : messages[r].call \in recorded

(* A run with a verifier has an answer only by a verdict for it, which is  *)
(* the last one; a completed run has an answer (loop.py 239-283).          *)
AnswersAreVerified ==
    /\ status = "completed" => final_answer
    /\ final_answer /\ config.verifier => verdicts # <<>> /\ Last(verdicts)
    /\ \A i \in 1..(Len(verdicts) - 1) : ~verdicts[i]

(* A request is sent again only within both limits of the retry policy:    *)
(* the attempts, and the tokens of all the attempts together               *)
(* (policies/retry.py 46-92).                                             *)
RetriesStayInBudget ==
    Asking /\ attempt > 1 => /\ attempt <= MaxAttempts
                             /\ attempt * Tokens(request) <= TokenBudget

(* A run that returns has ended one way and says so once.  The exception:  *)
(* a completed run that cannot write so becomes a failed one with an       *)
(* answer, and says so twice (loop.py 164-166, 183-193).                   *)
EndsOnce ==
    pc = "returned" =>
        /\ status # "running"
        /\ stops = 1 \/ (stops = 2 /\ TraceMayFail /\ status = "failed" /\ final_answer)

(* Once the end of the run is announced nothing is said, run or verified.  *)
NothingFollowsTheEnd ==
    [][stops > 0 => UNCHANGED <<messages, verdicts, executed, tool_history>>]_vars

(* Retries, tools, verdicts and failures notwithstanding, every run ends.  *)
RunEnds == <>(pc \in {"returned", "raised"})

------------------------------------------------------------------------------
(* Properties of the request, the view of the conversation that is sent.   *)

(* Compaction keeps the instruction, the task and at least the latest      *)
(* units, and reorders nothing; what it drops is the oldest part, and      *)
(* there may be a summary in its place (policies/compaction.py).           *)
RequestIsView == pc = "generate" => IsView(request, messages)

(* The request has no half of a tool interaction (sliding-window-compaction.md). *)
RequestIsWhole == pc = "generate" => WholeInteractions(request)

(* A compacted request fits the target, unless what must be kept does not. *)
RequestFits ==
    pc = "generate" /\ config.compaction # "none" /\ ShouldCompact(Mandatory \o messages) =>
        \/ Tokens(request) <= Target
        \/ Len(group_context_units(History(request))) <= MinRecentUnits

(* "the largest recent contiguous unit suffix that fits" (compaction.py    *)
(* 59): the request does not drop a unit that would have fit.              *)
WindowIsLargest ==
    LET units == group_context_units(messages)
        kept == Len(group_context_units(History(request)))
    IN  pc = "generate" /\ config.compaction = "sliding_window" /\ kept < Len(units) =>
            Tokens(request) + Tokens(units[Len(units) - kept]) > Target
==============================================================================
