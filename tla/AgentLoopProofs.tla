---------------------------- MODULE AgentLoopProofs ----------------------------
(***************************************************************************)
(* What holds of AgentLoop for every bound, every set of responses and     *)
(* every way tools, verifiers, providers and the trace may behave: first   *)
(* the ends of a run, its answers and its retries, then its tools and the  *)
(* conversation they leave.  What is sent to the model is the subject of   *)
(* AgentRequestProofs.                                                     *)
(***************************************************************************)
EXTENDS AgentLoop, FiniteSetTheorems, TLAPS

(* The types that do not depend on what compaction computes.               *)
ControlType ==
    /\ config \in [verifier : BOOLEAN, compaction : Compactions]
    /\ status \in {"running", "completed", "failed", "cancelled"}
    /\ step \in Nat
    /\ final_answer \in BOOLEAN
    /\ verdicts \in Seq(BOOLEAN)
    /\ pc \in {"top", "summarize", "request", "generate", "backoff", "items",
               "verify", "verdict", "tool", "recorded", "failing", "result",
               "returned", "raised"}
    /\ attempt \in Nat
    /\ response \in Seq(ResponseItem)
    /\ stops \in Nat

(* Where a run is after its last turn.                                     *)
Ending == {"failing", "result", "returned", "raised"}

(* The items of a response, while they are handled one by one.             *)
HasAnswer(items) == \E i \in DOMAIN items : items[i] = "final_answer"

OneAnswer(items) ==
    \A i, j \in DOMAIN items :
        items[i] = "final_answer" /\ items[j] = "final_answer" => i = j

(* No answer yet, and no verdict for one.                                  *)
Unanswered ==
    /\ status = "running"
    /\ ~final_answer
    /\ \A i \in DOMAIN verdicts : ~verdicts[i]

(* Why only a verified answer counts: while the run can still ask there is *)
(* none, and the response that brings one has no second.                   *)
AnswerInv ==
    /\ pc \in {"top", "summarize", "request", "generate", "backoff"} => Unanswered
    /\ pc \in {"items", "tool", "recorded"} =>
           /\ OneAnswer(response)
           /\ \/ Unanswered
              \/ status = "completed" /\ ~HasAnswer(response)
    /\ pc \in {"verify", "verdict"} => config.verifier /\ ~HasAnswer(response)
    /\ pc = "verify" => Unanswered
    /\ pc = "verdict" =>
           /\ verdicts # <<>>
           /\ status = "running"
           /\ ~final_answer
           /\ \A i \in 1..(Len(verdicts) - 1) : ~verdicts[i]

(* What has been announced.                                                *)
StopInv ==
    /\ pc \notin Ending => stops = 0
    /\ pc = "failing" =>
           stops = 0 \/ (stops = 1 /\ TraceMayFail /\ final_answer)
    /\ pc \in {"result", "returned"} =>
           /\ status # "running"
           /\ stops = 1 \/ (stops = 2 /\ TraceMayFail /\ status = "failed" /\ final_answer)

(* A run waits before a retry only when the retry is allowed.              *)
RetryInv ==
    /\ RetriesStayInBudget
    /\ pc = "summarize" => attempt = 1
    /\ pc = "backoff" => RetryAllowed

LoopInv ==
    ControlType /\ AnswersAreVerified /\ AnswerInv /\ StopInv /\ RetryInv

------------------------------------------------------------------------------
(* The items of a response and the verdicts.                               *)

(* A valid response brings at most one answer: ModelResponse refuses more. *)
LEMMA ResponseHasOneAnswer ==
    ASSUME NEW items \in Responses
    PROVE  items \in Seq(ResponseItem) /\ OneAnswer(items)
<1> DEFINE finals == {i \in DOMAIN items : items[i] = "final_answer"}
<1>1. items \in Seq(ResponseItem)
  BY LoopAssumption
<1>2. IsFiniteSet(finals)
  <2>1. IsFiniteSet(1..Len(items))
    BY <1>1, FS_Interval
  <2>2. finals \subseteq 1..Len(items)
    BY <1>1
  <2> QED BY <2>1, <2>2, FS_Subset
<1>3. Cardinality(finals) <= 1
  BY LoopAssumption DEF ValidResponse
<1>4. ASSUME NEW i \in finals, NEW j \in finals, i # j
      PROVE  FALSE
  <2>1. Cardinality({i}) = 1 /\ IsFiniteSet({i})
    BY FS_Singleton
  <2>2. {i} \subseteq finals /\ {i} # finals
    BY <1>4
  <2>3. Cardinality(finals) \in Nat
    BY <1>2, FS_CardinalityType
  <2>4. Cardinality({i}) <= Cardinality(finals) /\ Cardinality({i}) # Cardinality(finals)
    <3> HIDE DEF finals
    <3>1. {i} \in SUBSET finals
      BY <2>2
    <3> QED BY <3>1, <1>2, <2>2, FS_Subset
  <2> QED BY <1>3, <2>1, <2>3, <2>4
<1> QED BY <1>1, <1>4 DEF OneAnswer

(* Handling an item leaves at most the answer that was there, and none if  *)
(* the item was the answer.                                                *)
LEMMA TailOfResponse ==
    ASSUME NEW items \in Seq(ResponseItem), items # <<>>, OneAnswer(items)
    PROVE  /\ Tail(items) \in Seq(ResponseItem)
           /\ OneAnswer(Tail(items))
           /\ HasAnswer(Tail(items)) => HasAnswer(items)
           /\ Head(items) = "final_answer" => ~HasAnswer(Tail(items))
           /\ Head(items) = "final_answer" => HasAnswer(items)
<1>1. Tail(items) \in Seq(ResponseItem) /\ DOMAIN Tail(items) = 1..(Len(items) - 1)
  OBVIOUS
<1>2. \A i \in DOMAIN Tail(items) :
          i + 1 \in DOMAIN items /\ Tail(items)[i] = items[i + 1] /\ i + 1 # 1
  OBVIOUS
<1>3. 1 \in DOMAIN items /\ Head(items) = items[1]
  OBVIOUS
<1>4. OneAnswer(Tail(items))
  <2>1. ASSUME NEW i \in DOMAIN Tail(items), NEW j \in DOMAIN Tail(items),
               Tail(items)[i] = "final_answer", Tail(items)[j] = "final_answer"
        PROVE  i = j
    <3>1. i + 1 = j + 1
      BY <2>1, <1>2 DEF OneAnswer
    <3> QED BY <3>1, <1>1
  <2> QED BY <2>1 DEF OneAnswer
<1> QED BY <1>1, <1>2, <1>3, <1>4 DEF OneAnswer, HasAnswer

(* The verdicts after one more, when all before were against the answer.   *)
LEMMA VerdictAppended ==
    ASSUME NEW s \in Seq(BOOLEAN), NEW passed \in BOOLEAN,
           \A i \in DOMAIN s : ~s[i]
    PROVE  /\ Append(s, passed) \in Seq(BOOLEAN)
           /\ Append(s, passed) # <<>>
           /\ \A i \in 1..(Len(Append(s, passed)) - 1) : ~Append(s, passed)[i]
<1>1. Append(s, passed) \in Seq(BOOLEAN) /\ Append(s, passed) # <<>>
  OBVIOUS
<1>2. 1..(Len(Append(s, passed)) - 1) = DOMAIN s
  OBVIOUS
<1>3. \A i \in DOMAIN s : Append(s, passed)[i] = s[i]
  OBVIOUS
<1> QED BY <1>1, <1>2, <1>3

(* When the last verdict is against the answer, too, they all are.         *)
LEMMA AllVerdictsAgainst ==
    ASSUME NEW s \in Seq(BOOLEAN), s # <<>>, ~Last(s),
           \A i \in 1..(Len(s) - 1) : ~s[i]
    PROVE  \A i \in DOMAIN s : ~s[i]
<1>1. DOMAIN s = 1..Len(s) /\ Len(s) \in Nat /\ Len(s) # 0
  OBVIOUS
<1>2. \A i \in DOMAIN s : i \in 1..(Len(s) - 1) \/ i = Len(s)
  BY <1>1
<1>3. ~s[Len(s)]
  BY DEF Last
<1> QED BY <1>2, <1>3

------------------------------------------------------------------------------
(* The invariant holds initially and every step keeps it.                  *)

(* A run begins unanswered, unannounced and at its first attempt.          *)
LEMMA InitLoopInv == Init => LoopInv
<1> SUFFICES ASSUME Init PROVE LoopInv
  OBVIOUS
<1> USE LoopAssumption DEF Init
<1>1. verdicts \in Seq(BOOLEAN) /\ DOMAIN verdicts = {} /\ Len(verdicts) = 0
  OBVIOUS
<1>2. ControlType
  <2>1. final_answer \in BOOLEAN
    BY Zenon
  <2>2. response \in Seq(ResponseItem)
    OBVIOUS
  <2> QED BY <1>1, <2>1, <2>2 DEF ControlType
<1>3. AnswersAreVerified
  BY <1>1 DEF AnswersAreVerified
<1>4. AnswerInv
  BY <1>1 DEF AnswerInv, Unanswered
<1>5. StopInv
  BY DEF StopInv, Ending
<1>6. RetryInv
  BY DEF RetryInv, RetriesStayInBudget, Asking
<1> QED BY <1>2, <1>3, <1>4, <1>5, <1>6 DEF LoopInv

(* Every step keeps the types of the control state.                        *)
LEMMA ControlTypeStep ==
    ASSUME LoopInv, [Next]_vars
    PROVE  ControlType'
<1> USE DEF LoopInv, ControlType, loop, conversation, tools, model, Awaiting, ToolsCanRun
<1>1. CASE ExceedMaxSteps BY <1>1 DEF ExceedMaxSteps
<1>2. CASE BuildContext BY <1>2 DEF BuildContext
<1>3. CASE Summarize BY <1>3 DEF Summarize
<1>4. CASE SendRequest BY <1>4 DEF SendRequest
<1>5. CASE Respond BY <1>5, ResponseHasOneAnswer DEF Respond
<1>6. ASSUME NEW retryable \in BOOLEAN, ProviderFails(retryable) PROVE ControlType'
  BY <1>6 DEF ProviderFails
<1>7. CASE Backoff BY <1>7 DEF Backoff
<1>8. CASE HandleMessage BY <1>8 DEF HandleMessage
<1>9. CASE HandleToolCall BY <1>9 DEF HandleToolCall
<1>10. CASE HandleFinalAnswer
  <2>1. response' \in Seq(ResponseItem)
    BY <1>10 DEF HandleFinalAnswer
  <2>2. final_answer' \in BOOLEAN
    BY <1>10, Zenon DEF HandleFinalAnswer
  <2> QED BY <1>10, <2>1, <2>2 DEF HandleFinalAnswer
<1>11. CASE Verify BY <1>11 DEF Verify
<1>12. CASE ApplyVerdict BY <1>12 DEF ApplyVerdict
<1>13. CASE StartTool BY <1>13 DEF StartTool
<1>14. CASE ToolReturns BY <1>14 DEF ToolReturns
<1>15. CASE RefuseTool BY <1>15 DEF RefuseTool
<1>16. CASE AppendResult BY <1>16 DEF AppendResult
<1>17. CASE EndStep BY <1>17 DEF EndStep
<1>18. CASE Fail BY <1>18 DEF Fail
<1>19. CASE WriteResult BY <1>19 DEF WriteResult
<1>20. CASE Cancel BY <1>20 DEF Cancel
<1>21. CASE Raise BY <1>21 DEF Raise
<1>22. CASE TraceFails BY <1>22 DEF TraceFails
<1>23. CASE TraceFailsOutside BY <1>23 DEF TraceFailsOutside
<1>24. CASE UNCHANGED vars BY <1>24 DEF vars
<1> QED BY <1>1, <1>2, <1>3, <1>4, <1>5, <1>6, <1>7, <1>8, <1>9, <1>10, <1>11,
           <1>12, <1>13, <1>14, <1>15, <1>16, <1>17, <1>18, <1>19, <1>20, <1>21,
           <1>22, <1>23, <1>24 DEF Next, LoopStep

(* Every step keeps the account of what has been announced.                *)
LEMMA StopStep ==
    ASSUME LoopInv, [Next]_vars
    PROVE  StopInv'
<1> USE DEF LoopInv, ControlType, StopInv, Ending, AnswersAreVerified, AnswerInv,
            Unanswered, loop, conversation, tools, model, Awaiting, ToolsCanRun
<1>1. CASE ExceedMaxSteps BY <1>1 DEF ExceedMaxSteps
<1>2. CASE BuildContext BY <1>2 DEF BuildContext
<1>3. CASE Summarize BY <1>3 DEF Summarize
<1>4. CASE SendRequest BY <1>4 DEF SendRequest
<1>5. CASE Respond BY <1>5 DEF Respond
<1>6. ASSUME NEW retryable \in BOOLEAN, ProviderFails(retryable) PROVE StopInv'
  BY <1>6 DEF ProviderFails
<1>7. CASE Backoff BY <1>7 DEF Backoff
<1>8. CASE HandleMessage BY <1>8 DEF HandleMessage
<1>9. CASE HandleToolCall BY <1>9 DEF HandleToolCall
<1>10. CASE HandleFinalAnswer BY <1>10 DEF HandleFinalAnswer
<1>11. CASE Verify BY <1>11 DEF Verify
<1>12. CASE ApplyVerdict BY <1>12 DEF ApplyVerdict
<1>13. CASE StartTool BY <1>13 DEF StartTool
<1>14. CASE ToolReturns BY <1>14 DEF ToolReturns
<1>15. CASE RefuseTool BY <1>15 DEF RefuseTool
<1>16. CASE AppendResult BY <1>16 DEF AppendResult
<1>17. CASE EndStep BY <1>17 DEF EndStep
<1>18. CASE Fail BY <1>18 DEF Fail
<1>19. CASE WriteResult BY <1>19 DEF WriteResult
<1>20. CASE Cancel BY <1>20 DEF Cancel
<1>21. CASE Raise BY <1>21 DEF Raise
<1>22. CASE TraceFails BY <1>22 DEF TraceFails
<1>23. CASE TraceFailsOutside BY <1>23 DEF TraceFailsOutside
<1>24. CASE UNCHANGED vars BY <1>24 DEF vars
<1> QED BY <1>1, <1>2, <1>3, <1>4, <1>5, <1>6, <1>7, <1>8, <1>9, <1>10, <1>11,
           <1>12, <1>13, <1>14, <1>15, <1>16, <1>17, <1>18, <1>19, <1>20, <1>21,
           <1>22, <1>23, <1>24 DEF Next, LoopStep

(* Every step keeps the account of the answer and its verdicts.            *)
LEMMA AnswerStep ==
    ASSUME LoopInv, [Next]_vars
    PROVE  AnswersAreVerified' /\ AnswerInv'
<1> USE DEF LoopInv, ControlType, AnswersAreVerified, AnswerInv,
            Unanswered, loop, conversation, tools, model, Awaiting, ToolsCanRun
<1> DEFINE Inv == AnswersAreVerified /\ AnswerInv
<1>1. CASE ExceedMaxSteps BY <1>1 DEF ExceedMaxSteps
<1>2. CASE BuildContext BY <1>2 DEF BuildContext
<1>3. CASE Summarize BY <1>3 DEF Summarize
<1>4. CASE SendRequest BY <1>4 DEF SendRequest
<1>5. CASE Respond BY <1>5, ResponseHasOneAnswer DEF Respond
<1>6. ASSUME NEW retryable \in BOOLEAN, ProviderFails(retryable) PROVE Inv'
  BY <1>6 DEF ProviderFails
<1>7. CASE Backoff BY <1>7 DEF Backoff
<1>8. CASE HandleMessage BY <1>8, TailOfResponse DEF HandleMessage
<1>9. CASE HandleToolCall BY <1>9, TailOfResponse DEF HandleToolCall
<1>10. CASE HandleFinalAnswer BY <1>10, TailOfResponse DEF HandleFinalAnswer
<1>11. CASE Verify BY <1>11, VerdictAppended DEF Verify
<1>12. CASE ApplyVerdict BY <1>12, AllVerdictsAgainst DEF ApplyVerdict, OneAnswer, HasAnswer
<1>13. CASE StartTool BY <1>13 DEF StartTool
<1>14. CASE ToolReturns BY <1>14 DEF ToolReturns
<1>15. CASE RefuseTool BY <1>15 DEF RefuseTool
<1>16. CASE AppendResult BY <1>16 DEF AppendResult
<1>17. CASE EndStep BY <1>17 DEF EndStep
<1>18. CASE Fail BY <1>18 DEF Fail
<1>19. CASE WriteResult BY <1>19 DEF WriteResult
<1>20. CASE Cancel BY <1>20 DEF Cancel
<1>21. CASE Raise BY <1>21 DEF Raise
<1>22. CASE TraceFails BY <1>22 DEF TraceFails
<1>23. CASE TraceFailsOutside BY <1>23 DEF TraceFailsOutside
<1>24. CASE UNCHANGED vars BY <1>24 DEF vars
<1> QED BY <1>1, <1>2, <1>3, <1>4, <1>5, <1>6, <1>7, <1>8, <1>9, <1>10, <1>11,
           <1>12, <1>13, <1>14, <1>15, <1>16, <1>17, <1>18, <1>19, <1>20, <1>21,
           <1>22, <1>23, <1>24 DEF Next, LoopStep

(* Only BuildContext, Summarize and Backoff change what is asked, or how   *)
(* often; no other step but SendRequest and ProviderFails leads to asking. *)
LEMMA RetryStep ==
    ASSUME LoopInv, [Next]_vars
    PROVE  RetryInv'
<1> USE DEF LoopInv, RetryInv, RetriesStayInBudget, Asking, RetryAllowed,
            loop, conversation, tools, model, Awaiting, ToolsCanRun
<1>1. CASE ExceedMaxSteps BY <1>1 DEF ExceedMaxSteps
<1>2. CASE BuildContext BY <1>2 DEF BuildContext
<1>3. CASE Summarize BY <1>3 DEF Summarize
<1>4. CASE SendRequest BY <1>4 DEF SendRequest
<1>5. CASE Respond BY <1>5 DEF Respond
<1>6. ASSUME NEW retryable \in BOOLEAN, ProviderFails(retryable) PROVE RetryInv'
  BY <1>6 DEF ProviderFails
<1>7. CASE Backoff BY <1>7, LoopAssumption DEF Backoff, ControlType
<1>8. CASE HandleMessage BY <1>8 DEF HandleMessage
<1>9. CASE HandleToolCall BY <1>9 DEF HandleToolCall
<1>10. CASE HandleFinalAnswer BY <1>10 DEF HandleFinalAnswer
<1>11. CASE Verify BY <1>11 DEF Verify
<1>12. CASE ApplyVerdict BY <1>12 DEF ApplyVerdict
<1>13. CASE StartTool BY <1>13 DEF StartTool
<1>14. CASE ToolReturns BY <1>14 DEF ToolReturns
<1>15. CASE RefuseTool BY <1>15 DEF RefuseTool
<1>16. CASE AppendResult BY <1>16 DEF AppendResult
<1>17. CASE EndStep BY <1>17 DEF EndStep
<1>18. CASE Fail BY <1>18 DEF Fail
<1>19. CASE WriteResult BY <1>19 DEF WriteResult
<1>20. CASE Cancel BY <1>20 DEF Cancel
<1>21. CASE Raise BY <1>21 DEF Raise
<1>22. CASE TraceFails BY <1>22 DEF TraceFails
<1>23. CASE TraceFailsOutside BY <1>23 DEF TraceFailsOutside
<1>24. CASE UNCHANGED vars BY <1>24 DEF vars
<1> QED BY <1>1, <1>2, <1>3, <1>4, <1>5, <1>6, <1>7, <1>8, <1>9, <1>10, <1>11,
           <1>12, <1>13, <1>14, <1>15, <1>16, <1>17, <1>18, <1>19, <1>20, <1>21,
           <1>22, <1>23, <1>24 DEF Next, LoopStep

(* The invariant of a run.                                                 *)
LEMMA LoopInvHolds == Spec => []LoopInv
<1>1. LoopInv /\ [Next]_vars => LoopInv'
  BY ControlTypeStep, AnswerStep, StopStep, RetryStep DEF LoopInv
<1> QED BY InitLoopInv, <1>1, PTL DEF Spec

------------------------------------------------------------------------------
(* The properties.                                                         *)

(* However turns, tools, verdicts and failures interleave, an answer       *)
(* counts only by its own verdict, and a completed run has one.            *)
THEOREM AnswersStayVerified == Spec => []AnswersAreVerified
BY LoopInvHolds, PTL DEF LoopInv

(* No request is sent again beyond the attempts or the token budget.       *)
THEOREM RetriesAreBudgeted == Spec => []RetriesStayInBudget
BY LoopInvHolds, PTL DEF LoopInv, RetryInv

(* A run that returns has ended, and said so once.                         *)
THEOREM RunsEndOnce == Spec => []EndsOnce
<1>1. LoopInv => EndsOnce
  BY DEF LoopInv, StopInv, EndsOnce
<1> QED BY LoopInvHolds, <1>1, PTL

(* After the end is announced nothing is said, run or verified.            *)
THEOREM NothingFollowsStops == Spec => NothingFollowsTheEnd
<1> DEFINE Said == <<messages, verdicts, executed, tool_history>>
<1>1. LoopInv /\ [Next]_vars => [stops > 0 => UNCHANGED Said]_vars
  <2> SUFFICES ASSUME LoopInv, Next, stops > 0
               PROVE  UNCHANGED Said
    OBVIOUS
  <2>1. pc \in Ending
    BY DEF LoopInv, StopInv
  <2>2. Fail \/ WriteResult \/ TraceFailsOutside
    BY <2>1 DEF Ending, Next, LoopStep, ExceedMaxSteps, BuildContext, Summarize,
          SendRequest, Respond, ProviderFails, Backoff, HandleMessage, HandleToolCall,
          HandleFinalAnswer, Verify, ApplyVerdict, StartTool, ToolReturns, RefuseTool,
          AppendResult, EndStep, Cancel, Raise, TraceFails, Awaiting, ToolsCanRun
  <2> QED BY <2>2 DEF Fail, WriteResult, TraceFailsOutside, conversation, tools
<1> QED BY LoopInvHolds, <1>1, PTL DEF Spec, NothingFollowsTheEnd

------------------------------------------------------------------------------
(* No tool call is run twice or out of order, and none is left without its *)
(* result, for every conversation.                                         *)
(*                                                                         *)
(* A call's id is the position of its message.  The invariant places the   *)
(* ids that were handed out and recorded before the ones still pending,    *)
(* but for the call being worked on, which is the first of them; and all   *)
(* of them within the conversation, so that a new call comes last.  The    *)
(* second invariant says of each call that it is pending and has no result *)
(* or is not and has one, and of each batch that its results close it.     *)

Before(s, t) == \A i \in DOMAIN s, j \in DOMAIN t : s[i] < t[j]

UpTo(s, n) == \A i \in DOMAIN s : s[i] <= n

Recorded(call) == \E j \in DOMAIN tool_history : tool_history[j] = call

ToolType ==
    /\ messages \in Seq(ContextItem)
    /\ pending \in Seq(Nat) /\ executed \in Seq(Nat) /\ tool_history \in Seq(Nat)
    /\ response \in Seq(ResponseItem)
    /\ Increasing(pending) /\ Increasing(executed) /\ Increasing(tool_history)

WithinConversation ==
    /\ UpTo(pending, Len(messages))
    /\ UpTo(executed, Len(messages))
    /\ UpTo(tool_history, Len(messages))

(* Where the call being worked on, the head of pending, stands.            *)
HeadStarted ==
    /\ pending # <<>> /\ executed # <<>>
    /\ Last(executed) = Head(pending)
    /\ UpTo(executed, Head(pending))
    /\ Before(tool_history, pending)

HeadRecorded ==
    /\ pending # <<>> /\ tool_history # <<>>
    /\ Last(tool_history) = Head(pending)
    /\ UpTo(executed, Head(pending))
    /\ UpTo(tool_history, Head(pending))

CallsInOrder ==
    /\ pc = "tool" => HeadStarted
    /\ pc = "recorded" => HeadRecorded
    /\ pc \notin {"tool", "recorded"} \cup Ending =>
           Before(executed, pending) /\ Before(tool_history, pending)

(* Only the last call may be handed out and not recorded.                  *)
ExecutedIsRecorded ==
    \A i \in DOMAIN executed :
        \/ Recorded(executed[i])
        \/ i = Len(executed) /\ pc \in {"tool"} \cup Ending

ResultsAreRecorded ==
    \A r \in 1..Len(messages) :
        messages[r].type = "tool_result" => Recorded(messages[r].call)

ToolInv ==
    /\ ToolType
    /\ WithinConversation
    /\ CallsInOrder
    /\ ExecutedIsRecorded
    /\ ResultsAreRecorded

------------------------------------------------------------------------------
(* Increasing sequences.                                                   *)

(* A larger number at its end keeps a sequence increasing.                 *)
LEMMA AppendIncreasing ==
    ASSUME NEW s \in Seq(Nat), NEW n \in Nat, Increasing(s),
           \A i \in DOMAIN s : s[i] < n
    PROVE  /\ Append(s, n) \in Seq(Nat) /\ Append(s, n) # <<>>
           /\ Increasing(Append(s, n))
           /\ Last(Append(s, n)) = n
           /\ Len(Append(s, n)) = Len(s) + 1
           /\ DOMAIN Append(s, n) = 1..(Len(s) + 1)
           /\ Append(s, n)[Len(s) + 1] = n
           /\ \A i \in DOMAIN s : i \in 1..Len(s) /\ Append(s, n)[i] = s[i]
           /\ UpTo(Append(s, n), n)
<1>1. /\ Append(s, n) \in Seq(Nat) /\ Append(s, n) # <<>>
      /\ Len(Append(s, n)) = Len(s) + 1
      /\ DOMAIN Append(s, n) = 1..(Len(s) + 1)
      /\ Append(s, n)[Len(s) + 1] = n
      /\ \A i \in DOMAIN s : i \in 1..Len(s) /\ Append(s, n)[i] = s[i]
  OBVIOUS
<1>2. \A i \in DOMAIN Append(s, n) : i \in DOMAIN s \/ i = Len(s) + 1
  OBVIOUS
<1>3. Increasing(Append(s, n))
  BY <1>1, <1>2 DEF Increasing
<1>4. UpTo(Append(s, n), n)
  BY <1>1, <1>2 DEF UpTo
<1> QED BY <1>1, <1>3, <1>4 DEF Last

(* What comes after the head of an increasing sequence is larger.          *)
LEMMA TailIncreasing ==
    ASSUME NEW s \in Seq(Nat), s # <<>>, Increasing(s)
    PROVE  /\ Tail(s) \in Seq(Nat) /\ Head(s) \in Nat
           /\ Increasing(Tail(s))
           /\ \A i \in DOMAIN Tail(s) : Head(s) < Tail(s)[i]
           /\ \A i \in DOMAIN Tail(s) : \E j \in DOMAIN s : Tail(s)[i] = s[j]
           /\ 1 \in DOMAIN s /\ Head(s) = s[1]
           /\ \A i \in DOMAIN s : Head(s) <= s[i]
<1>1. /\ Tail(s) \in Seq(Nat) /\ DOMAIN Tail(s) = 1..(Len(s) - 1)
      /\ 1 \in DOMAIN s /\ Head(s) = s[1] /\ Head(s) \in Nat
  OBVIOUS
<1>2. \A i \in DOMAIN Tail(s) :
          i + 1 \in DOMAIN s /\ Tail(s)[i] = s[i + 1] /\ 1 < i + 1 /\ i \in Nat
  OBVIOUS
<1>3. Increasing(Tail(s))
  <2>1. ASSUME NEW i \in DOMAIN Tail(s), NEW j \in DOMAIN Tail(s), i < j
        PROVE  Tail(s)[i] < Tail(s)[j]
    <3>1. i + 1 < j + 1
      BY <1>2, <2>1
    <3> QED BY <1>2, <3>1 DEF Increasing
  <2> QED BY <2>1 DEF Increasing
<1>4. \A i \in DOMAIN Tail(s) : Head(s) < Tail(s)[i]
  BY <1>1, <1>2 DEF Increasing
<1>5. \A i \in DOMAIN s : Head(s) <= s[i]
  <2>1. \A i \in DOMAIN s : i = 1 \/ 1 < i
    OBVIOUS
  <2>2. \A i \in DOMAIN s : s[i] \in Nat
    OBVIOUS
  <2> QED BY <1>1, <2>1, <2>2 DEF Increasing
<1> QED BY <1>1, <1>2, <1>3, <1>4, <1>5

------------------------------------------------------------------------------
(* Steps that leave the calls alone.                                       *)

Quiet == UNCHANGED <<messages, pending, executed, tool_history>>

(* A step that changes none of the four sequences keeps the invariant if   *)
(* it does not leave the work on a call in the middle.                     *)
LEMMA QuietStep ==
    ASSUME ToolInv, Quiet, response' \in Seq(ResponseItem),
           \/ pc' = pc
           \/ pc' \in Ending
           \/ /\ pc \notin {"tool", "recorded"} \cup Ending
              /\ pc' \notin {"tool", "recorded"} \cup Ending
    PROVE  ToolInv'
<1> USE DEF Quiet
<1>1. ToolType'
  BY DEF ToolInv, ToolType, Increasing
<1>2. WithinConversation'
  BY DEF ToolInv, WithinConversation, UpTo
<1>3. CallsInOrder'
  BY DEF ToolInv, CallsInOrder, HeadStarted, HeadRecorded, UpTo, Before, Ending, Last
<1>4. ExecutedIsRecorded'
  BY DEF ToolInv, ExecutedIsRecorded, Recorded, Ending
<1>5. ResultsAreRecorded'
  BY DEF ToolInv, ResultsAreRecorded, Recorded
<1> QED BY <1>1, <1>2, <1>3, <1>4, <1>5 DEF ToolInv

(* A step that only adds to the conversation items that are no results,    *)
(* between the turns of tools, keeps the invariant.                        *)
LEMMA TellingStep ==
    ASSUME ToolInv, NEW new \in Seq(ContextItem), messages' = messages \o new,
           \A k \in DOMAIN new : new[k].type # "tool_result",
           UNCHANGED <<pending, executed, tool_history>>,
           response' \in Seq(ResponseItem),
           pc \notin {"tool", "recorded"} \cup Ending,
           pc' \notin {"tool", "recorded"} \cup Ending
    PROVE  ToolInv'
<1>1. /\ messages \in Seq(ContextItem) /\ messages' \in Seq(ContextItem)
      /\ Len(messages) \in Nat /\ Len(messages) <= Len(messages')
  BY DEF ToolInv, ToolType
<1>2. ToolType'
  BY <1>1 DEF ToolInv, ToolType, Increasing
<1>3. WithinConversation'
  BY <1>1 DEF ToolInv, ToolType, WithinConversation, UpTo
<1>4. CallsInOrder'
  BY DEF ToolInv, CallsInOrder, Before
<1>5. ExecutedIsRecorded'
  BY DEF ToolInv, ExecutedIsRecorded, Recorded
<1>6. ResultsAreRecorded'
  <2>1. \A r \in 1..Len(messages') :
            \/ r \in 1..Len(messages) /\ messages'[r] = messages[r]
            \/ messages'[r].type # "tool_result"
    <3> SUFFICES ASSUME NEW r \in 1..Len(messages'), r \notin 1..Len(messages)
                 PROVE  messages'[r].type # "tool_result"
      BY <1>1
    <3>1. r - Len(messages) \in DOMAIN new /\ messages'[r] = new[r - Len(messages)]
      BY <1>1
    <3> QED BY <3>1
  <2> QED BY <2>1 DEF ToolInv, ResultsAreRecorded, Recorded
<1> QED BY <1>2, <1>3, <1>4, <1>5, <1>6 DEF ToolInv

------------------------------------------------------------------------------
(* The steps of a call.                                                    *)

(* A call is appended to the conversation and to what is pending.          *)
LEMMA CallIsAsked == ToolInv /\ HandleToolCall => ToolInv'
<1> SUFFICES ASSUME ToolInv, HandleToolCall PROVE ToolInv'
  OBVIOUS
<1> USE DEF HandleToolCall, AppendMessage, tools, loop
<1> DEFINE new == Item(NextId, "tool_call", NextId, 1)
<1>1. messages \in Seq(ContextItem) /\ NextId \in Nat /\ Len(messages) \in Nat
  BY DEF ToolInv, ToolType, NextId
<1>2. new \in ContextItem /\ new.type = "tool_call"
  BY <1>1 DEF Item, ContextItem, ContextItemType
<1>3. /\ messages' = Append(messages, new) /\ messages' \in Seq(ContextItem)
      /\ Len(messages') = NextId
      /\ messages'[NextId] = new
      /\ \A r \in 1..Len(messages) : messages'[r] = messages[r]
  <2> HIDE DEF new
  <2>1. messages' = Append(messages, new)
    BY DEF new
  <2> QED BY <1>1, <1>2, <2>1 DEF NextId
<1>4. \A i \in DOMAIN pending : pending[i] < NextId
  BY <1>1 DEF ToolInv, ToolType, WithinConversation, UpTo, NextId
<1>5. /\ pending' \in Seq(Nat) /\ Increasing(pending') /\ UpTo(pending', NextId)
      /\ \A j \in DOMAIN pending' :
            \/ j \in DOMAIN pending /\ pending'[j] = pending[j]
            \/ pending'[j] = NextId
  <2>1. \A j \in DOMAIN pending' : j \in DOMAIN pending \/ j = Len(pending) + 1
    BY DEF ToolInv, ToolType
  <2> QED BY <1>1, <1>4, <2>1, AppendIncreasing DEF ToolInv, ToolType
<1>6. ToolType'
  BY <1>3, <1>5 DEF ToolInv, ToolType, Increasing
<1>7. \A t \in {executed, tool_history} : \A i \in DOMAIN t : t[i] \in Nat /\ t[i] < NextId
  BY <1>1 DEF ToolInv, ToolType, WithinConversation, UpTo, NextId
<1>8. WithinConversation'
  BY <1>1, <1>3, <1>5, <1>7 DEF WithinConversation, UpTo
<1>9. CallsInOrder'
  <2>1. Before(executed, pending) /\ Before(tool_history, pending)
    BY DEF ToolInv, CallsInOrder, Ending
  <2>2. Before(executed, pending)' /\ Before(tool_history, pending)'
    BY <1>5, <1>7, <2>1 DEF Before
  <2> QED BY <2>2 DEF CallsInOrder
<1>10. ExecutedIsRecorded'
  BY DEF ToolInv, ExecutedIsRecorded, Recorded
<1>11. ResultsAreRecorded'
  BY <1>1, <1>2, <1>3 DEF ToolInv, ResultsAreRecorded, Recorded, NextId
<1> QED BY <1>6, <1>8, <1>9, <1>10, <1>11 DEF ToolInv

(* The first pending call, with all that was handed out or recorded before. *)
LEMMA HeadIsNext ==
    ASSUME ToolInv, ToolsCanRun
    PROVE  /\ Head(pending) \in Nat /\ pending # <<>>
           /\ Head(pending) <= Len(messages)
           /\ \A i \in DOMAIN executed : executed[i] < Head(pending)
           /\ \A i \in DOMAIN tool_history : tool_history[i] < Head(pending)
           /\ Before(executed, pending) /\ Before(tool_history, pending)
<1>1. Before(executed, pending) /\ Before(tool_history, pending) /\ pending # <<>>
  BY DEF ToolInv, CallsInOrder, ToolsCanRun, Ending
<1>2. 1 \in DOMAIN pending /\ Head(pending) = pending[1] /\ Head(pending) \in Nat
  BY <1>1, TailIncreasing DEF ToolInv, ToolType
<1> QED BY <1>1, <1>2 DEF Before, ToolInv, WithinConversation, UpTo

(* The head is handed to its tool.                                         *)
LEMMA CallIsStarted == ToolInv /\ StartTool => ToolInv'
<1> SUFFICES ASSUME ToolInv, StartTool PROVE ToolInv'
  OBVIOUS
<1> USE DEF StartTool, conversation, model
<1>1. /\ executed' \in Seq(Nat) /\ Increasing(executed') /\ executed' # <<>>
      /\ Last(executed') = Head(pending) /\ UpTo(executed', Head(pending))
      /\ \A i \in DOMAIN executed' :
             \/ i \in DOMAIN executed /\ executed'[i] = executed[i]
             \/ i = Len(executed')
  <2>1. \A i \in DOMAIN executed' : i \in DOMAIN executed \/ i = Len(executed')
    BY DEF ToolInv, ToolType
  <2> QED BY <2>1, HeadIsNext, AppendIncreasing DEF ToolInv, ToolType
<1>2. ToolType'
  BY <1>1 DEF ToolInv, ToolType, Increasing
<1>3. WithinConversation'
  <2>1. UpTo(executed', Len(messages))
    BY <1>1, HeadIsNext DEF ToolInv, ToolType, UpTo
  <2> QED BY <2>1 DEF ToolInv, WithinConversation, UpTo
<1>4. CallsInOrder'
  BY <1>1, HeadIsNext DEF CallsInOrder, HeadStarted, UpTo, Before, Last, Ending
<1>5. ExecutedIsRecorded'
  BY <1>1 DEF ToolInv, ExecutedIsRecorded, Recorded, ToolsCanRun, Ending
<1>6. ResultsAreRecorded'
  BY DEF ToolInv, ResultsAreRecorded, Recorded
<1> QED BY <1>2, <1>3, <1>4, <1>5, <1>6 DEF ToolInv

(* What it is to record the head: by its tool's return or by a refusal.    *)
LEMMA HeadIsRecorded ==
    ASSUME ToolInv, pending # <<>>, Before(tool_history, pending),
           UpTo(executed, Head(pending)),
           \A i \in DOMAIN executed : Recorded(executed[i]) \/ executed[i] = Head(pending),
           tool_history' = Append(tool_history, Head(pending)),
           pc' = "recorded",
           UNCHANGED <<messages, pending, executed, response>>
    PROVE  ToolInv'
<1>1. 1 \in DOMAIN pending /\ Head(pending) = pending[1] /\ Head(pending) \in Nat
  BY TailIncreasing DEF ToolInv, ToolType
<1>2. \A i \in DOMAIN tool_history : tool_history[i] < Head(pending)
  BY <1>1 DEF Before
<1>3. /\ tool_history' \in Seq(Nat) /\ Increasing(tool_history') /\ tool_history' # <<>>
      /\ Last(tool_history') = Head(pending) /\ UpTo(tool_history', Head(pending))
      /\ Len(tool_history) + 1 \in DOMAIN tool_history'
      /\ tool_history'[Len(tool_history) + 1] = Head(pending)
      /\ \A i \in DOMAIN tool_history :
             i \in DOMAIN tool_history' /\ tool_history'[i] = tool_history[i]
  <2>1. \A i \in DOMAIN tool_history : i \in DOMAIN tool_history'
    BY DEF ToolInv, ToolType
  <2>2. Len(tool_history) + 1 \in DOMAIN tool_history'
    BY DEF ToolInv, ToolType
  <2> QED BY <1>1, <1>2, <2>1, <2>2, AppendIncreasing DEF ToolInv, ToolType
<1>4. \A call : Recorded(call) \/ call = Head(pending) => Recorded(call)'
  BY <1>3 DEF Recorded
<1>5. ToolType'
  BY <1>3 DEF ToolInv, ToolType, Increasing
<1>6. WithinConversation'
  <2>1. Head(pending) <= Len(messages) /\ Len(messages) \in Nat
    BY <1>1 DEF ToolInv, ToolType, WithinConversation, UpTo
  <2>2. UpTo(tool_history', Len(messages))
    BY <1>1, <1>3, <2>1 DEF UpTo
  <2> QED BY <2>2 DEF ToolInv, WithinConversation, UpTo
<1>7. CallsInOrder'
  BY <1>3 DEF CallsInOrder, HeadRecorded, UpTo, Last, Ending
<1>8. ExecutedIsRecorded'
  BY <1>4 DEF ExecutedIsRecorded
<1>9. ResultsAreRecorded'
  BY <1>4 DEF ToolInv, ResultsAreRecorded
<1> QED BY <1>5, <1>6, <1>7, <1>8, <1>9 DEF ToolInv

(* The tool returns.                                                       *)
LEMMA CallIsReturned == ToolInv /\ ToolReturns => ToolInv'
<1> SUFFICES ASSUME ToolInv, ToolReturns PROVE ToolInv'
  OBVIOUS
<1> USE DEF ToolReturns, conversation, model
<1>1. HeadStarted
  BY DEF ToolInv, CallsInOrder
<1>2. \A i \in DOMAIN executed : Recorded(executed[i]) \/ executed[i] = Head(pending)
  BY <1>1 DEF ToolInv, ExecutedIsRecorded, HeadStarted, Last
<1> QED BY <1>1, <1>2, HeadIsRecorded DEF HeadStarted

(* The call is refused without being handed out.                           *)
LEMMA CallIsRefused == ToolInv /\ RefuseTool => ToolInv'
<1> SUFFICES ASSUME ToolInv, RefuseTool PROVE ToolInv'
  OBVIOUS
<1> USE DEF RefuseTool, conversation, model
<1>1. pending # <<>> /\ Before(tool_history, pending)
  BY HeadIsNext
<1>2. UpTo(executed, Head(pending))
  BY HeadIsNext DEF ToolInv, ToolType, UpTo
<1>3. \A i \in DOMAIN executed : Recorded(executed[i])
  BY DEF ToolInv, ExecutedIsRecorded, ToolsCanRun, Ending
<1> QED BY <1>1, <1>2, <1>3, HeadIsRecorded

(* The model is told of the result, and the call is no longer pending.     *)
LEMMA ResultIsTold == ToolInv /\ AppendResult => ToolInv'
<1> SUFFICES ASSUME ToolInv, AppendResult PROVE ToolInv'
  OBVIOUS
<1> USE DEF AppendResult, AppendMessage, loop, model
<1>1. HeadRecorded /\ pending \in Seq(Nat) /\ Increasing(pending)
  BY DEF ToolInv, CallsInOrder, ToolType
<1>2. messages \in Seq(ContextItem) /\ NextId \in Nat /\ Len(messages) \in Nat
  BY DEF ToolInv, ToolType, NextId
<1>3. PICK tokens \in ResultSizes :
          messages' = Append(messages, Item(NextId, "tool_result", Head(pending), tokens))
  OBVIOUS
<1> DEFINE new == Item(NextId, "tool_result", Head(pending), tokens)
<1>4. new \in ContextItem /\ new.call = Head(pending)
  <2>1. Head(pending) \in Nat /\ tokens \in Nat
    BY <1>1, LoopAssumption, TailIncreasing DEF HeadRecorded
  <2> QED BY <1>2, <2>1 DEF Item, ContextItem, ContextItemType
<1>5. /\ messages' \in Seq(ContextItem) /\ Len(messages') = NextId
      /\ messages'[NextId] = new
      /\ \A r \in 1..Len(messages) : messages'[r] = messages[r]
  <2> HIDE DEF new
  <2>1. messages' = Append(messages, new)
    BY <1>3 DEF new
  <2> QED BY <1>2, <1>4, <2>1 DEF NextId
<1>6. /\ pending' \in Seq(Nat) /\ Increasing(pending')
      /\ \A j \in DOMAIN pending' : Head(pending) < pending'[j]
      /\ \A j \in DOMAIN pending' : \E k \in DOMAIN pending : pending'[j] = pending[k]
      /\ Head(pending) \in Nat
  BY <1>1, TailIncreasing DEF HeadRecorded
<1>7. ToolType'
  BY <1>5, <1>6 DEF ToolInv, ToolType, Increasing
<1>8. WithinConversation'
  <2>1. UpTo(pending', Len(messages))
    BY <1>6 DEF ToolInv, WithinConversation, UpTo
  <2>2. \A n \in Nat : n <= Len(messages) => n <= Len(messages')
    BY <1>2, <1>5 DEF NextId
  <2>3. UpTo(pending', Len(messages'))
    BY <1>6, <2>1, <2>2 DEF UpTo
  <2>4. \A t \in {executed, tool_history} : UpTo(t, Len(messages'))
    BY <2>2 DEF ToolInv, ToolType, WithinConversation, UpTo
  <2> QED BY <2>3, <2>4 DEF WithinConversation, UpTo
<1>9. CallsInOrder'
  <2>1. \A t \in {executed, tool_history} : t \in Seq(Nat) /\ UpTo(t, Head(pending))
    BY <1>1 DEF HeadRecorded, ToolInv, ToolType
  <2>2. ASSUME NEW t \in {executed, tool_history}
        PROVE  Before(t, pending')
    <3> SUFFICES ASSUME NEW i \in DOMAIN t, NEW j \in DOMAIN pending'
                 PROVE  t[i] < pending'[j]
      BY DEF Before
    <3>1. t[i] \in Nat /\ t[i] <= Head(pending)
      BY <2>1 DEF UpTo
    <3>2. pending'[j] \in Nat /\ Head(pending) < pending'[j]
      BY SMTT(20), <1>6
    <3> QED BY SMTT(20), <1>6, <3>1, <3>2
  <2> QED BY <2>2 DEF CallsInOrder, Before
<1>10. ExecutedIsRecorded'
  BY DEF ToolInv, ExecutedIsRecorded, Recorded, Ending
<1>11. ResultsAreRecorded'
  <2>1. Recorded(Head(pending))
    BY <1>1 DEF HeadRecorded, Recorded, Last, ToolInv, ToolType
  <2>2. \A r \in 1..Len(messages') : r \in 1..Len(messages) \/ r = NextId
    BY <1>2, <1>5 DEF NextId
  <2> QED BY <1>4, <1>5, <2>1, <2>2 DEF ToolInv, ResultsAreRecorded, Recorded
<1> QED BY <1>7, <1>8, <1>9, <1>10, <1>11 DEF ToolInv

------------------------------------------------------------------------------
(* The invariant.                                                          *)

(* A run begins with no call said, handed out or recorded.                 *)
LEMMA InitToolInv == Init => ToolInv
<1> SUFFICES ASSUME Init PROVE ToolInv
  OBVIOUS
<1> USE DEF Init
<1>1. ToolType
  BY DEF ToolType, Increasing
<1>2. WithinConversation /\ CallsInOrder
  BY DEF WithinConversation, UpTo, CallsInOrder, Before, Ending
<1>3. ExecutedIsRecorded /\ ResultsAreRecorded
  BY DEF ExecutedIsRecorded, ResultsAreRecorded
<1> QED BY <1>1, <1>2, <1>3 DEF ToolInv

(* What a tail and a response of the model are.                            *)
LEMMA ResponseType ==
    ASSUME ToolInv
    PROVE  /\ response # <<>> => Tail(response) \in Seq(ResponseItem)
           /\ response \in Seq(ResponseItem)
           /\ Responses \subseteq Seq(ResponseItem)
  BY LoopAssumption DEF ToolInv, ToolType

(* A message of the model or a verdict against an answer is added.         *)
LEMMA ModelIsTold ==
    ToolInv /\ (HandleMessage \/ ApplyVerdict) => ToolInv'
<1> SUFFICES ASSUME ToolInv, HandleMessage \/ ApplyVerdict PROVE ToolInv'
  OBVIOUS
<1> USE DEF loop, tools, model
<1>1. NextId \in Nat /\ NextId + 1 \in Nat /\ messages \in Seq(ContextItem)
  BY DEF ToolInv, ToolType, NextId
<1>2. \A id \in Nat, type \in {"assistant", "verification"} :
          /\ Item(id, type, 0, 1) \in ContextItem
          /\ Item(id, type, 0, 1).type # "tool_result"
  BY DEF Item, ContextItem, ContextItemType
<1>3. CASE HandleMessage
  <2> DEFINE said == Item(NextId, "assistant", 0, 1)
  <2>1. said \in ContextItem /\ said.type # "tool_result"
    BY <1>1, <1>2
  <2>2. messages' = Append(messages, said)
    BY <1>3 DEF HandleMessage, AppendMessage
  <2> HIDE DEF said
  <2>3. messages' = messages \o <<said>> /\ <<said>> \in Seq(ContextItem)
    BY <1>1, <2>1, <2>2
  <2>4. \A k \in DOMAIN <<said>> : <<said>>[k].type # "tool_result"
    BY <2>1
  <2> QED BY <1>3, <2>3, <2>4, TellingStep, ResponseType DEF HandleMessage, Ending
<1>4. CASE ApplyVerdict /\ Last(verdicts)
  BY <1>4, QuietStep, ResponseType DEF ApplyVerdict, Quiet, Ending
<1>5. CASE ApplyVerdict /\ ~Last(verdicts)
  <2> DEFINE answer == Item(NextId, "assistant", 0, 1)
             verdict == Item(NextId + 1, "verification", 0, 1)
  <2>1. /\ answer \in ContextItem /\ answer.type # "tool_result"
        /\ verdict \in ContextItem /\ verdict.type # "tool_result"
    BY <1>1, <1>2
  <2>2. messages' = messages \o <<answer, verdict>>
    BY <1>5 DEF ApplyVerdict
  <2> HIDE DEF answer, verdict
  <2>3. <<answer, verdict>> \in Seq(ContextItem)
    BY <2>1
  <2>4. \A k \in DOMAIN <<answer, verdict>> :
            <<answer, verdict>>[k].type # "tool_result"
    BY <2>1
  <2> QED BY <1>5, <2>2, <2>3, <2>4, TellingStep, ResponseType DEF ApplyVerdict, Ending
<1> QED BY <1>3, <1>4, <1>5

(* The steps that leave the calls alone.                                   *)
LEMMA OtherStepsAreQuiet ==
    ASSUME ToolInv,
           \/ ExceedMaxSteps \/ BuildContext \/ Summarize \/ SendRequest \/ Respond
           \/ \E retryable \in BOOLEAN : ProviderFails(retryable)
           \/ Backoff \/ HandleFinalAnswer \/ Verify \/ EndStep \/ Fail \/ WriteResult
           \/ Cancel \/ Raise \/ TraceFails \/ TraceFailsOutside
           \/ UNCHANGED vars
    PROVE  ToolInv'
<1> USE QuietStep, ResponseType DEF Quiet, Ending, loop, conversation, tools, model
<1>1. CASE ExceedMaxSteps
  BY <1>1 DEF ExceedMaxSteps
<1>2. CASE BuildContext
  <2>1. pc = "top" /\ pc' \in {"summarize", "request"} /\ response' = response /\ Quiet
    BY <1>2 DEF BuildContext
  <2> QED BY <2>1
<1>3. CASE Summarize
  BY <1>3 DEF Summarize
<1>4. CASE SendRequest
  BY <1>4 DEF SendRequest
<1>5. CASE Respond
  BY <1>5 DEF Respond
<1>6. CASE \E retryable \in BOOLEAN : ProviderFails(retryable)
  BY <1>6 DEF ProviderFails
<1>7. CASE Backoff
  BY <1>7 DEF Backoff
<1>8. CASE HandleFinalAnswer
  BY <1>8 DEF HandleFinalAnswer
<1>9. CASE Verify
  BY <1>9 DEF Verify
<1>10. CASE EndStep
  BY <1>10 DEF EndStep
<1>11. CASE Fail
  BY <1>11 DEF Fail
<1>12. CASE WriteResult
  BY <1>12 DEF WriteResult
<1>13. CASE Cancel
  BY <1>13 DEF Cancel
<1>14. CASE Raise
  BY <1>14 DEF Raise
<1>15. CASE TraceFails
  BY <1>15 DEF TraceFails
<1>16. CASE TraceFailsOutside
  BY <1>16 DEF TraceFailsOutside
<1>17. CASE UNCHANGED vars
  BY <1>17 DEF vars
<1> QED BY <1>1, <1>2, <1>3, <1>4, <1>5, <1>6, <1>7, <1>8, <1>9, <1>10, <1>11,
           <1>12, <1>13, <1>14, <1>15, <1>16, <1>17

(* One step of the run, whichever it is.                                   *)
LEMMA NextToolInv == ToolInv /\ [Next]_vars => ToolInv'
<1> SUFFICES ASSUME ToolInv, [Next]_vars PROVE ToolInv'
  OBVIOUS
<1>1. CASE HandleMessage \/ ApplyVerdict
  BY <1>1, ModelIsTold
<1>2. CASE HandleToolCall
  BY <1>2, CallIsAsked
<1>3. CASE StartTool
  BY <1>3, CallIsStarted
<1>4. CASE ToolReturns
  BY <1>4, CallIsReturned
<1>5. CASE RefuseTool
  BY <1>5, CallIsRefused
<1>6. CASE AppendResult
  BY <1>6, ResultIsTold
<1> QED BY <1>1, <1>2, <1>3, <1>4, <1>5, <1>6, OtherStepsAreQuiet DEF Next, LoopStep

(* The invariant says of sequences what the property says of sets.         *)
LEMMA ToolInvIsEnough == ToolInv => ToolsRunOnce
<1> SUFFICES ASSUME ToolInv PROVE ToolsRunOnce
  OBVIOUS
<1> DEFINE recorded == ToSet(tool_history)
           open == ToSet(executed) \ recorded
<1>1. \A call : Recorded(call) <=> call \in recorded
  BY DEF Recorded, ToSet
<1>2. \A call \in open : call = Last(executed) /\ pc \in {"tool"} \cup Ending
  BY <1>1 DEF ToolInv, ExecutedIsRecorded, ToSet, Last
<1>3. open # {} => /\ open = {Last(executed)}
                   /\ pc \in {"tool", "failing", "result", "returned", "raised"}
  BY <1>2 DEF Ending
<1>4. \A r \in IdsOf("tool_result") : messages[r].call \in recorded
  BY <1>1 DEF ToolInv, ResultsAreRecorded, IdsOf, Ids
<1>5. Increasing(executed) /\ Increasing(tool_history)
  BY DEF ToolInv, ToolType
<1> QED BY <1>3, <1>4, <1>5 DEF ToolsRunOnce

(* However long the conversation is and wherever it is interrupted, a call *)
(* is handed to its tool at most once and in the order it was asked for,   *)
(* only the last one handed out may lack a record, and the model is told   *)
(* of no result that is not recorded (loop.py, _execute_tools).            *)
THEOREM ToolsAreRunOnce == Spec => []ToolsRunOnce
<1>1. Init => ToolInv
  BY InitToolInv
<1>2. ToolInv /\ [Next]_vars => ToolInv'
  BY NextToolInv
<1>3. ToolInv => ToolsRunOnce
  BY ToolInvIsEnough
<1> QED BY <1>1, <1>2, <1>3, PTL DEF Spec
------------------------------------------------------------------------------
(* Every call is answered once before the model is asked again.            *)

IsCall(c) == c \in Ids /\ messages[c].type = "tool_call"

IsResult(r) == r \in Ids /\ messages[r].type = "tool_result"

Answers(c) == {r \in Ids : IsResult(r) /\ messages[r].call = c}

Awaited(c) == \E i \in DOMAIN pending : pending[i] = c

(* A call is pending and has no result, or it has the one that followed.   *)
CallsHaveResults ==
    /\ \A c : Awaited(c) => IsCall(c) /\ Answers(c) = {}
    /\ \A c : IsCall(c) /\ ~Awaited(c) => \E r \in Ids : c < r /\ Answers(c) = {r}
    /\ \A r, c : IsResult(r) /\ messages[r].call = c => IsCall(c)

(* The calls of a response come after all results of the ones before.      *)
BatchesAreClosed ==
    /\ \A c, d, r : IsCall(c) /\ IsCall(d) /\ IsResult(r) /\ c < r /\ r < d =>
           \E a \in Answers(c) : c < a /\ a < d
    /\ response # <<>> => \A c, r : Awaited(c) /\ IsResult(r) => r < c

(* A verdict is told in the step after it is given, or accepts the answer. *)
VerdictsAreTold ==
    status = "running" =>
        LET told == Cardinality(IdsOf("verification"))
        IN  Len(verdicts) = IF pc = "verdict" THEN told + 1 ELSE told

(* Nothing is pending when the model is asked, nor a response being read   *)
(* while tools run.                                                        *)
TurnsEnd ==
    /\ status \in {"running", "completed"}
    /\ pc = "top" \/ Asking => pending = <<>> /\ status = "running"
    /\ pc \in {"tool", "recorded"} => response = <<>>

ClosedInv ==
    /\ verdicts \in Seq(BOOLEAN)
    /\ pc \notin Ending =>
           CallsHaveResults /\ BatchesAreClosed /\ VerdictsAreTold /\ TurnsEnd

(* What is appended to the conversation leaves the rest of it.             *)
LEMMA ConversationGrows ==
    ASSUME messages \in Seq(ContextItem),
           NEW new \in Seq(ContextItem), messages' = messages \o new
    PROVE  /\ \A i \in Ids : i \in Ids' /\ messages'[i] = messages[i]
           /\ \A i \in Ids' : \/ i \in Ids
                              \/ /\ i > Len(messages)
                                 /\ i - Len(messages) \in DOMAIN new
                                 /\ messages'[i] = new[i - Len(messages)]
           /\ Len(messages') = Len(messages) + Len(new)
BY DEF Ids

(* There are finitely many messages of a type.                             *)
LEMMA IdsAreFinite ==
    ASSUME messages \in Seq(ContextItem), NEW type
    PROVE  IsFiniteSet(IdsOf(type)) /\ Cardinality(IdsOf(type)) \in Nat
<1>1. Len(messages) \in Nat
  OBVIOUS
<1>2. IsFiniteSet(1..Len(messages))
  BY <1>1, FS_Interval
<1>3. IdsOf(type) \in SUBSET (1..Len(messages))
  BY DEF IdsOf, Ids
<1> QED BY <1>2, <1>3, FS_Subset, FS_CardinalityType

(* Items that are neither calls nor results leave the calls as they are.   *)
LEMMA CallsStay ==
    ASSUME \A i \in Ids : i \in Ids' /\ messages'[i] = messages[i],
           \A i \in Ids' : \/ i \in Ids
                           \/ messages'[i].type \notin {"tool_call", "tool_result"},
           UNCHANGED pending, response' = <<>> \/ response # <<>> \/ pending = <<>>,
           CallsHaveResults, BatchesAreClosed
    PROVE  CallsHaveResults' /\ BatchesAreClosed'
<1>1. \A c : IsCall(c)' <=> IsCall(c)
  BY DEF IsCall
<1>2. \A r : IsResult(r)' <=> IsResult(r)
  BY DEF IsResult
<1>3. \A r : IsResult(r) => messages'[r] = messages[r]
  BY DEF IsResult
<1>4. \A c : Answers(c)' = Answers(c)
  BY <1>2, <1>3 DEF Answers, IsResult
<1>5. \A c : Awaited(c)' <=> Awaited(c)
  BY DEF Awaited
<1>6. CallsHaveResults'
  BY <1>1, <1>2, <1>3, <1>4, <1>5 DEF CallsHaveResults
<1>7. BatchesAreClosed'
  <2>1. response' # <<>> => \A c, r : Awaited(c)' /\ IsResult(r)' => r < c
    BY <1>2, <1>5 DEF BatchesAreClosed, Awaited
  <2> QED BY <1>1, <1>2, <1>4, <2>1 DEF BatchesAreClosed
<1> QED BY <1>6, <1>7

(* A new call is awaited, and comes after every result.                    *)
LEMMA CallOpens ==
    ASSUME ToolInv, ClosedInv, HandleToolCall
    PROVE  ClosedInv'
<1> DEFINE new == Item(NextId, "tool_call", NextId, 1)
<1>1. messages \in Seq(ContextItem) /\ pending \in Seq(Nat) /\ Len(messages) \in Nat
      /\ NextId = Len(messages) + 1 /\ response \in Seq(ResponseItem)
  BY DEF ToolInv, ToolType, NextId
<1>2. new \in ContextItem /\ new.type = "tool_call"
  BY <1>1 DEF Item, ContextItem, ContextItemType
<1>3. messages' = messages \o <<new>> /\ <<new>> \in Seq(ContextItem)
  <2>1. messages' = Append(messages, new)
    BY DEF HandleToolCall, AppendMessage
  <2> HIDE DEF new
  <2> QED BY <1>1, <1>2, <2>1
<1>4. \A i \in Ids : i \in Ids' /\ messages'[i] = messages[i]
  BY <1>1, <1>3, ConversationGrows
<1>5. /\ \A i \in Ids' : i \in Ids \/ i = NextId
      /\ NextId \in Ids' /\ messages'[NextId] = new
      /\ \A i \in Ids : i \in Nat /\ i < NextId
  <2> HIDE DEF new
  <2> QED BY <1>1, <1>2, <1>3 DEF Ids
<1>6. \A c : IsCall(c)' <=> IsCall(c) \/ c = NextId
  BY <1>2, <1>4, <1>5 DEF IsCall
<1>7. \A r : (IsResult(r)' <=> IsResult(r)) /\ (IsResult(r) => messages'[r] = messages[r])
  BY <1>2, <1>4, <1>5 DEF IsResult
<1>8. \A c : Answers(c)' = Answers(c)
  BY <1>4, <1>7 DEF Answers, IsResult
<1>9. \A c : Awaited(c)' <=> Awaited(c) \/ c = NextId
  <2>1. pending' = Append(pending, NextId)
    BY DEF HandleToolCall
  <2>2. /\ DOMAIN pending' = DOMAIN pending \cup {Len(pending) + 1}
        /\ \A i \in DOMAIN pending : pending'[i] = pending[i]
        /\ pending'[Len(pending) + 1] = NextId
    BY <1>1, <2>1
  <2> QED BY <2>2 DEF Awaited
<1>10. /\ pc \notin Ending /\ pc' = pc /\ response # <<>> /\ status' = status
       /\ pc = "items" /\ verdicts' = verdicts
  BY DEF HandleToolCall, loop, Ending
<1>11. CallsHaveResults /\ BatchesAreClosed /\ VerdictsAreTold /\ TurnsEnd
  BY <1>10 DEF ClosedInv
<1>12. Answers(NextId) = {}
  BY <1>1, <1>5, <1>11 DEF Answers, CallsHaveResults, IsCall
<1>13. CallsHaveResults'
  <2>1. \A c : Awaited(c)' => IsCall(c)' /\ Answers(c)' = {}
    BY <1>6, <1>8, <1>9, <1>11, <1>12 DEF CallsHaveResults
  <2>2. \A c : IsCall(c)' /\ ~Awaited(c)' => \E r \in Ids' : c < r /\ Answers(c)' = {r}
    BY <1>4, <1>6, <1>8, <1>9, <1>11 DEF CallsHaveResults
  <2>3. \A r, c : IsResult(r)' /\ messages'[r].call = c => IsCall(c)'
    BY <1>6, <1>7, <1>11 DEF CallsHaveResults
  <2> QED BY <2>1, <2>2, <2>3 DEF CallsHaveResults
<1>14. BatchesAreClosed'
  <2>1. ASSUME NEW c, NEW d, NEW r, IsCall(c)', IsCall(d)', IsResult(r)', c < r, r < d
        PROVE  \E a \in Answers(c)' : c < a /\ a < d
    <3>1. IsResult(r) /\ IsCall(c) /\ r \in Ids /\ c \in Ids
      BY <1>1, <1>5, <1>6, <1>7, <2>1 DEF IsResult, IsCall
    <3>2. CASE IsCall(d)
      BY <1>8, <1>11, <2>1, <3>1, <3>2 DEF BatchesAreClosed
    <3>3. CASE d = NextId
      <4>1. ~Awaited(c)
        <5>1. Awaited(c) => r < c
          BY <1>10, <1>11, <3>1 DEF BatchesAreClosed
        <5>2. c \in Nat /\ r \in Nat
          BY <1>5, <3>1
        <5> QED BY <2>1, <5>1, <5>2
      <4>2. PICK a \in Ids : c < a /\ Answers(c) = {a}
        BY <1>11, <3>1, <4>1 DEF CallsHaveResults
      <4> QED BY <1>5, <1>8, <3>3, <4>2
    <3> QED BY <1>6, <2>1, <3>2, <3>3
  <2>2. \A c, r : Awaited(c)' /\ IsResult(r)' => r < c
    BY <1>5, <1>7, <1>9, <1>10, <1>11 DEF BatchesAreClosed, IsResult
  <2> QED BY <2>1, <2>2 DEF BatchesAreClosed
<1>15. VerdictsAreTold'
  <2>1. IdsOf("verification")' = IdsOf("verification")
    BY <1>2, <1>4, <1>5 DEF IdsOf
  <2> QED BY <1>10, <1>11, <2>1 DEF VerdictsAreTold
<1>16. TurnsEnd'
  BY <1>10, <1>11 DEF TurnsEnd, Asking
<1> QED BY <1>10, <1>13, <1>14, <1>15, <1>16 DEF ClosedInv

(* A result closes the first call that is awaited.                         *)
LEMMA ResultCloses ==
    ASSUME ToolInv, ClosedInv, AppendResult
    PROVE  ClosedInv'
<1>1. /\ messages \in Seq(ContextItem) /\ pending \in Seq(Nat) /\ Len(messages) \in Nat
      /\ NextId = Len(messages) + 1 /\ pending # <<>> /\ Increasing(pending)
  BY DEF ToolInv, ToolType, NextId, CallsInOrder, HeadRecorded, AppendResult
<1> DEFINE h == Head(pending)
<1>2. PICK tokens \in ResultSizes :
          messages' = Append(messages, Item(NextId, "tool_result", h, tokens))
  BY DEF AppendResult, AppendMessage
<1> DEFINE new == Item(NextId, "tool_result", h, tokens)
<1>3. new \in ContextItem /\ new.type = "tool_result" /\ new.call = h
  <2>1. h \in Nat /\ tokens \in Nat
    BY <1>1, LoopAssumption, TailIncreasing
  <2> QED BY <1>1, <2>1 DEF Item, ContextItem, ContextItemType
<1>4. messages' = messages \o <<new>> /\ <<new>> \in Seq(ContextItem)
  <2>1. messages' = Append(messages, new)
    BY <1>2
  <2> HIDE DEF new
  <2> QED BY <1>1, <1>3, <2>1
<1>5. \A i \in Ids : i \in Ids' /\ messages'[i] = messages[i]
  BY <1>1, <1>4, ConversationGrows
<1>6. /\ \A i \in Ids' : i \in Ids \/ i = NextId
      /\ NextId \in Ids' /\ messages'[NextId] = new
      /\ \A i \in Ids : i \in Nat /\ i < NextId
  <2> HIDE DEF new
  <2> QED BY <1>1, <1>3, <1>4 DEF Ids
<1>7. \A c : IsCall(c)' <=> IsCall(c)
  BY <1>3, <1>5, <1>6 DEF IsCall
<1>8. /\ \A r : IsResult(r)' <=> IsResult(r) \/ r = NextId
      /\ \A r : IsResult(r) => messages'[r] = messages[r]
  BY <1>3, <1>5, <1>6 DEF IsResult
<1>9. \A c : Answers(c)' = IF c = h THEN Answers(c) \cup {NextId} ELSE Answers(c)
  BY <1>3, <1>5, <1>6, <1>8 DEF Answers, IsResult
<1>10. \A c : Awaited(c)' <=> Awaited(c) /\ c # h
  <2>1. pending' = Tail(pending)
    BY DEF AppendResult
  <2>2. /\ \A i \in DOMAIN pending' : h < pending'[i] /\ pending'[i] \in Nat
        /\ \A i \in DOMAIN pending' : \E j \in DOMAIN pending : pending'[i] = pending[j]
        /\ h \in Nat
    BY <1>1, <2>1, TailIncreasing
  <2>3. \A j \in DOMAIN pending : pending[j] = h \/ \E i \in DOMAIN pending' : pending'[i] = pending[j]
    <3> SUFFICES ASSUME NEW j \in DOMAIN pending, j # 1
                 PROVE  \E i \in DOMAIN pending' : pending'[i] = pending[j]
      BY <1>1
    <3>1. j - 1 \in DOMAIN pending' /\ pending'[j - 1] = pending[j]
      BY <1>1, <2>1
    <3> QED BY <3>1
  <2> QED BY <2>2, <2>3 DEF Awaited
<1>11. Awaited(h)
  BY <1>1, TailIncreasing DEF Awaited
<1>12. /\ pc \notin Ending /\ pc = "recorded" /\ pc' = "items" /\ response' = response
       /\ status' = status /\ verdicts' = verdicts
  BY DEF AppendResult, loop, model, Ending
<1>13. CallsHaveResults /\ BatchesAreClosed /\ VerdictsAreTold /\ TurnsEnd
  BY <1>12 DEF ClosedInv
<1>14. response' = <<>>
  BY <1>12, <1>13 DEF TurnsEnd
<1>15. IsCall(h) /\ Answers(h) = {} /\ h \in Ids
  BY <1>11, <1>13 DEF CallsHaveResults, IsCall
<1> HIDE DEF h, new
<1>16. CallsHaveResults'
  <2>1. \A c : Awaited(c)' => IsCall(c)' /\ Answers(c)' = {}
    BY <1>7, <1>9, <1>10, <1>13 DEF CallsHaveResults
  <2>2. ASSUME NEW c, IsCall(c)', ~Awaited(c)'
        PROVE  \E r \in Ids' : c < r /\ Answers(c)' = {r}
    <3>1. CASE c = h
      <4>1. Answers(c)' = {NextId} /\ c < NextId
        BY <1>6, <1>9, <1>15, <3>1
      <4> QED BY <1>6, <4>1
    <3>2. CASE c # h
      <4>1. PICK r \in Ids : c < r /\ Answers(c) = {r}
        BY <1>7, <1>10, <1>13, <2>2, <3>2 DEF CallsHaveResults
      <4> QED BY <1>5, <1>9, <3>2, <4>1
    <3> QED BY <3>1, <3>2
  <2>3. \A r, c : IsResult(r)' /\ messages'[r].call = c => IsCall(c)'
    BY <1>3, <1>6, <1>7, <1>8, <1>13, <1>15 DEF CallsHaveResults
  <2> QED BY <2>1, <2>2, <2>3 DEF CallsHaveResults
<1>17. BatchesAreClosed'
  <2>1. ASSUME NEW c, NEW d, NEW r, IsCall(c)', IsCall(d)', IsResult(r)', c < r, r < d
        PROVE  \E a \in Answers(c)' : c < a /\ a < d
    <3>1. IsResult(r) /\ IsCall(c) /\ IsCall(d)
      BY <1>1, <1>6, <1>7, <1>8, <2>1 DEF IsCall
    <3>2. PICK a \in Answers(c) : c < a /\ a < d
      BY <1>13, <2>1, <3>1 DEF BatchesAreClosed
    <3>3. a \in Answers(c)'
      BY <1>9
    <3> QED BY <3>2, <3>3
  <2> QED BY <1>14, <2>1 DEF BatchesAreClosed
<1>18. VerdictsAreTold'
  <2>1. IdsOf("verification")' = IdsOf("verification")
    BY <1>3, <1>5, <1>6 DEF IdsOf
  <2> QED BY <1>12, <1>13, <2>1 DEF VerdictsAreTold
<1>19. TurnsEnd'
  BY <1>12, <1>13 DEF TurnsEnd, Asking
<1> QED BY <1>12, <1>16, <1>17, <1>18, <1>19 DEF ClosedInv

(* A step that says nothing: what it must not do is lose the place in the  *)
(* turn.                                                                   *)
LEMMA QuietStepStaysClosed ==
    ASSUME ClosedInv, UNCHANGED <<messages, pending, verdicts>>,
           pc' \notin Ending =>
               /\ pc \notin Ending
               /\ response' = <<>> \/ response # <<>> \/ pending = <<>>
               /\ status' = "running" =>
                      status = "running" /\ (pc' = "verdict" <=> pc = "verdict")
               /\ TurnsEnd => TurnsEnd'
    PROVE  ClosedInv'
<1>1. verdicts' \in Seq(BOOLEAN)
  BY DEF ClosedInv
<1>2. ASSUME pc' \notin Ending
      PROVE  CallsHaveResults' /\ BatchesAreClosed' /\ VerdictsAreTold' /\ TurnsEnd'
  <2>1. CallsHaveResults /\ BatchesAreClosed /\ VerdictsAreTold /\ TurnsEnd
    BY <1>2 DEF ClosedInv
  <2>2. CallsHaveResults' /\ BatchesAreClosed'
    <3>1. /\ \A i \in Ids : i \in Ids' /\ messages'[i] = messages[i]
          /\ \A i \in Ids' : i \in Ids
      BY DEF Ids
    <3> QED BY <1>2, <2>1, <3>1, CallsStay
  <2>3. IdsOf("verification")' = IdsOf("verification")
    BY DEF IdsOf, Ids
  <2>4. VerdictsAreTold'
    BY <1>2, <2>1, <2>3 DEF VerdictsAreTold
  <2> QED BY <1>2, <2>1, <2>2, <2>4
<1> QED BY <1>1, <1>2 DEF ClosedInv

(* The steps that add nothing to the conversation or the verdicts.         *)
LEMMA QuietStepsStayClosed ==
    ASSUME ToolInv, ClosedInv,
           \/ ExceedMaxSteps \/ BuildContext \/ Summarize \/ SendRequest \/ Respond
           \/ \E retryable \in BOOLEAN : ProviderFails(retryable)
           \/ Backoff \/ HandleFinalAnswer \/ StartTool \/ ToolReturns \/ RefuseTool
           \/ EndStep \/ Fail \/ WriteResult
           \/ Cancel \/ Raise \/ TraceFails \/ TraceFailsOutside
           \/ UNCHANGED vars
    PROVE  ClosedInv'
<1> USE QuietStepStaysClosed DEF TurnsEnd, Ending, Asking, loop, conversation, tools, model
<1>1. CASE ExceedMaxSteps
  BY <1>1 DEF ExceedMaxSteps
<1>2. CASE BuildContext
  <2>1. /\ pc = "top" /\ pc' \in {"summarize", "request"}
        /\ UNCHANGED <<response, status, messages, pending, verdicts>>
    BY <1>2 DEF BuildContext
  <2> QED BY <2>1
<1>3. CASE Summarize
  BY <1>3 DEF Summarize
<1>4. CASE SendRequest
  BY <1>4 DEF SendRequest
<1>5. CASE Respond
  <2>1. pc \notin Ending /\ Asking
    BY <1>5 DEF Respond
  <2>2. pending = <<>> /\ status = "running"
    BY <2>1 DEF ClosedInv
  <2> QED BY <1>5, <2>2 DEF Respond
<1>6. CASE \E retryable \in BOOLEAN : ProviderFails(retryable)
  BY <1>6 DEF ProviderFails
<1>7. CASE Backoff
  BY <1>7 DEF Backoff
<1>8. CASE HandleFinalAnswer
  BY <1>8 DEF HandleFinalAnswer
<1>9. CASE StartTool
  BY <1>9 DEF StartTool, ToolsCanRun
<1>10. CASE ToolReturns
  BY <1>10 DEF ToolReturns
<1>11. CASE RefuseTool
  BY <1>11 DEF RefuseTool, ToolsCanRun
<1>12. CASE EndStep
  BY <1>12 DEF EndStep
<1>13. CASE Fail
  BY <1>13 DEF Fail
<1>14. CASE WriteResult
  BY <1>14 DEF WriteResult
<1>15. CASE Cancel
  BY <1>15 DEF Cancel
<1>16. CASE Raise
  BY <1>16 DEF Raise
<1>17. CASE TraceFails
  BY <1>17 DEF TraceFails
<1>18. CASE TraceFailsOutside
  BY <1>18 DEF TraceFailsOutside
<1>19. CASE UNCHANGED vars
  BY <1>19 DEF vars
<1> QED BY <1>1, <1>2, <1>3, <1>4, <1>5, <1>6, <1>7, <1>8, <1>9, <1>10, <1>11,
           <1>12, <1>13, <1>14, <1>15, <1>16, <1>17, <1>18, <1>19

(* A message of the model leaves the calls and the verdicts as they are.   *)
LEMMA MessageStaysClosed ==
    ASSUME ToolInv, ClosedInv, HandleMessage
    PROVE  ClosedInv'
<1> DEFINE said == Item(NextId, "assistant", 0, 1)
<1>1. /\ messages \in Seq(ContextItem) /\ Len(messages) \in Nat
      /\ NextId = Len(messages) + 1
  BY DEF ToolInv, ToolType, NextId
<1>2. said \in ContextItem /\ said.type = "assistant"
  BY <1>1 DEF Item, ContextItem, ContextItemType
<1>3. messages' = messages \o <<said>> /\ <<said>> \in Seq(ContextItem)
  <2>1. messages' = Append(messages, said)
    BY DEF HandleMessage, AppendMessage
  <2> HIDE DEF said
  <2> QED BY <1>1, <1>2, <2>1
<1>4. \A i \in Ids : i \in Ids' /\ messages'[i] = messages[i]
  BY <1>1, <1>3, ConversationGrows
<1>5. \A i \in Ids' : i \in Ids \/ messages'[i].type = "assistant"
  <2> HIDE DEF said
  <2> QED BY <1>1, <1>2, <1>3 DEF Ids
<1>6. /\ pc \notin Ending /\ pc' = pc /\ response # <<>> /\ pc = "items"
      /\ UNCHANGED <<status, verdicts, pending>>
  BY DEF HandleMessage, loop, tools, Ending
<1>7. CallsHaveResults /\ BatchesAreClosed /\ VerdictsAreTold /\ TurnsEnd
      /\ verdicts \in Seq(BOOLEAN)
  BY <1>6 DEF ClosedInv
<1>8. CallsHaveResults' /\ BatchesAreClosed'
  BY <1>4, <1>5, <1>6, <1>7, CallsStay
<1>9. VerdictsAreTold'
  <2>1. IdsOf("verification")' = IdsOf("verification")
    BY <1>4, <1>5 DEF IdsOf
  <2> QED BY <1>6, <1>7, <2>1 DEF VerdictsAreTold
<1>10. TurnsEnd'
  BY <1>6, <1>7 DEF TurnsEnd, Asking
<1> QED BY <1>6, <1>7, <1>8, <1>9, <1>10 DEF ClosedInv

(* A verdict waits to be told.                                             *)
LEMMA VerdictStaysClosed ==
    ASSUME ToolInv, ClosedInv, Verify
    PROVE  ClosedInv'
<1>1. PICK passed \in BOOLEAN : verdicts' = Append(verdicts, passed)
  BY DEF Verify
<1>2. /\ pc = "verify" /\ pc' = "verdict" /\ pc \notin Ending
      /\ UNCHANGED <<status, messages, pending, response>>
  BY DEF Verify, loop, tools, model, Ending
<1>3. CallsHaveResults /\ BatchesAreClosed /\ VerdictsAreTold /\ TurnsEnd
      /\ verdicts \in Seq(BOOLEAN)
  BY <1>2 DEF ClosedInv
<1>4. verdicts' \in Seq(BOOLEAN) /\ Len(verdicts') = Len(verdicts) + 1
      /\ Len(verdicts) \in Nat
  BY <1>1, <1>3
<1>5. CallsHaveResults' /\ BatchesAreClosed'
  <2>1. /\ \A i \in Ids : i \in Ids' /\ messages'[i] = messages[i]
        /\ \A i \in Ids' : i \in Ids
    BY <1>2 DEF Ids
  <2> QED BY <1>2, <1>3, <2>1, CallsStay
<1>6. VerdictsAreTold'
  <2>1. IdsOf("verification")' = IdsOf("verification")
    BY <1>2 DEF IdsOf, Ids
  <2>2. status = "running" => Len(verdicts) = Cardinality(IdsOf("verification"))
    BY <1>2, <1>3 DEF VerdictsAreTold
  <2> QED BY <1>2, <1>4, <2>1, <2>2 DEF VerdictsAreTold
<1>7. TurnsEnd'
  BY <1>2, <1>3 DEF TurnsEnd, Asking
<1> QED BY <1>4, <1>5, <1>6, <1>7 DEF ClosedInv

(* A verdict is told, or the answer is kept.                               *)
LEMMA VerdictIsTold ==
    ASSUME ToolInv, ClosedInv, ApplyVerdict
    PROVE  ClosedInv'
<1>1. CASE Last(verdicts)
  <2>1. /\ pc = "verdict" /\ pc' = "items" /\ status' = "completed"
        /\ UNCHANGED <<messages, pending, verdicts, response>>
    BY <1>1 DEF ApplyVerdict, tools, model
  <2> QED BY <2>1, QuietStepStaysClosed DEF TurnsEnd, Ending, Asking
<1>2. CASE ~Last(verdicts)
  <2> DEFINE answer == Item(NextId, "assistant", 0, 1)
             verdict == Item(NextId + 1, "verification", 0, 1)
  <2>1. /\ messages \in Seq(ContextItem) /\ Len(messages) \in Nat
        /\ NextId = Len(messages) + 1
    BY DEF ToolInv, ToolType, NextId
  <2>2. /\ answer \in ContextItem /\ answer.type = "assistant"
        /\ verdict \in ContextItem /\ verdict.type = "verification"
    BY <2>1 DEF Item, ContextItem, ContextItemType
  <2>3. messages' = messages \o <<answer, verdict>>
    BY <1>2 DEF ApplyVerdict
  <2> HIDE DEF answer, verdict
  <2>4. <<answer, verdict>> \in Seq(ContextItem)
    BY <2>2
  <2>5. \A i \in Ids : i \in Ids' /\ messages'[i] = messages[i]
    BY <2>1, <2>3, <2>4, ConversationGrows
  <2>6. /\ Ids' = Ids \cup {NextId, NextId + 1} /\ NextId + 1 \notin Ids
        /\ messages'[NextId] = answer /\ messages'[NextId + 1] = verdict
    BY SMTT(20), <2>1, <2>3, <2>4 DEF Ids
  <2>7. /\ pc = "verdict" /\ pc' = "items" /\ pc \notin Ending
        /\ UNCHANGED <<status, verdicts, pending, response>>
    BY <1>2 DEF ApplyVerdict, tools, model, Ending
  <2>8. CallsHaveResults /\ BatchesAreClosed /\ VerdictsAreTold /\ TurnsEnd
        /\ verdicts \in Seq(BOOLEAN)
    BY <2>7 DEF ClosedInv
  <2>9. CallsHaveResults' /\ BatchesAreClosed'
    <3>1. \A i \in Ids' : i \in Ids \/ messages'[i].type \notin {"tool_call", "tool_result"}
      BY <2>2, <2>6
    <3> QED BY <2>5, <2>7, <2>8, <3>1, CallsStay
  <2>10. VerdictsAreTold'
    <3> DEFINE told == IdsOf("verification")
    <3>1. told' = told \cup {NextId + 1} /\ NextId + 1 \notin told
      BY <2>2, <2>5, <2>6 DEF IdsOf
    <3>2. IsFiniteSet(told)
      BY <2>1, IdsAreFinite
    <3>3. Cardinality(told \cup {NextId + 1}) = Cardinality(told) + 1
      <4> HIDE DEF told
      <4> QED BY <3>1, <3>2, FS_AddElement
    <3>4. status = "running" => Len(verdicts) = Cardinality(told) + 1
      BY <2>7, <2>8 DEF VerdictsAreTold
    <3>5. status' = "running" => Len(verdicts') = Cardinality(told')
      BY <2>7, <3>1, <3>3, <3>4
    <3> QED BY <2>7, <3>5 DEF VerdictsAreTold
  <2>11. TurnsEnd'
    BY <2>7, <2>8 DEF TurnsEnd, Asking
  <2> QED BY <2>7, <2>8, <2>9, <2>10, <2>11 DEF ClosedInv
<1> QED BY <1>1, <1>2

(* At the start nothing was said.                                          *)
LEMMA InitClosedInv == Init => ClosedInv
<1> SUFFICES ASSUME Init PROVE ClosedInv
  OBVIOUS
<1>1. /\ messages = <<>> /\ pending = <<>> /\ response = <<>> /\ verdicts = <<>>
      /\ pc = "top" /\ status = "running" /\ Ids = {}
  BY DEF Init, Ids
<1>2. CallsHaveResults /\ BatchesAreClosed
  BY <1>1 DEF CallsHaveResults, BatchesAreClosed, IsCall, IsResult, Awaited
<1>3. VerdictsAreTold
  <2>1. IdsOf("verification") = {}
    BY <1>1 DEF IdsOf
  <2> QED BY <1>1, <2>1, FS_EmptySet DEF VerdictsAreTold
<1>4. TurnsEnd /\ verdicts \in Seq(BOOLEAN)
  BY <1>1 DEF TurnsEnd
<1> QED BY <1>2, <1>3, <1>4 DEF ClosedInv

(* One step of the run, whichever it is.                                   *)
LEMMA NextClosedInv == ToolInv /\ ClosedInv /\ [Next]_vars => ClosedInv'
<1> SUFFICES ASSUME ToolInv, ClosedInv, [Next]_vars PROVE ClosedInv'
  OBVIOUS
<1>1. CASE HandleMessage
  BY <1>1, MessageStaysClosed
<1>2. CASE HandleToolCall
  BY <1>2, CallOpens
<1>3. CASE Verify
  BY <1>3, VerdictStaysClosed
<1>4. CASE ApplyVerdict
  BY <1>4, VerdictIsTold
<1>5. CASE AppendResult
  BY <1>5, ResultCloses
<1> QED BY <1>1, <1>2, <1>3, <1>4, <1>5, QuietStepsStayClosed DEF Next, LoopStep

(* While the model is asked no call is awaited, so each has its result.    *)
LEMMA ClosedInvIsEnough == ToolInv /\ ClosedInv => ConversationIsClosed
<1> SUFFICES ASSUME ToolInv, ClosedInv, Asking PROVE ConversationIsClosed
  BY DEF ConversationIsClosed
<1> DEFINE calls == IdsOf("tool_call")
           results == IdsOf("tool_result")
           closed(c, end) == {r \in results : c < r /\ r < end /\ messages[r].call = c}
<1>1. CallsHaveResults /\ BatchesAreClosed /\ VerdictsAreTold /\ TurnsEnd
  BY DEF ClosedInv, Asking, Ending
<1>2. pending = <<>> /\ status = "running" /\ pc # "verdict"
  BY <1>1 DEF TurnsEnd, Asking
<1>3. \A c : ~Awaited(c)
  BY <1>2 DEF Awaited
<1>4. Len(messages) \in Nat /\ \A r \in Ids : r \in Nat /\ r < Len(messages) + 1
  BY DEF ToolInv, ToolType, Ids
<1>5. ASSUME NEW c \in calls
      PROVE  Cardinality(closed(c, Len(messages) + 1)) = 1
  <2>1. IsCall(c)
    BY DEF IsCall, IdsOf
  <2>2. PICK r \in Ids : c < r /\ Answers(c) = {r}
    BY <1>1, <1>3, <2>1 DEF CallsHaveResults
  <2>3. closed(c, Len(messages) + 1) = {r}
    BY <1>4, <2>2 DEF Answers, IsResult, IdsOf
  <2> HIDE DEF closed
  <2> QED BY <2>3, FS_Singleton
<1>6. \A r \in results : messages[r].call \in calls
  BY <1>1 DEF CallsHaveResults, IsResult, IsCall, IdsOf
<1>7. ASSUME NEW c \in calls, NEW d \in calls, NEW r \in results, c < r, r < d
      PROVE  closed(c, d) # {}
  <2>1. PICK a \in Answers(c) : c < a /\ a < d
    BY <1>1, <1>7 DEF BatchesAreClosed, IsCall, IsResult, IdsOf
  <2>2. a \in closed(c, d)
    BY <2>1 DEF Answers, IsResult, IdsOf
  <2> QED BY <2>2
<1>8. Len(verdicts) = Cardinality(IdsOf("verification"))
  BY <1>1, <1>2 DEF VerdictsAreTold
<1> HIDE DEF closed, calls, results
<1>9. /\ \A c \in calls : Cardinality(closed(c, Len(messages) + 1)) = 1
      /\ \A r \in results : messages[r].call \in calls
      /\ \A c, d \in calls, r \in results : c < r /\ r < d => closed(c, d) # {}
  BY <1>5, <1>6, <1>7
<1> USE DEF closed, calls, results
<1> QED BY <1>8, <1>9 DEF ConversationIsClosed

(* Whenever the model is asked, and however the turns before went, every   *)
(* call of the conversation has exactly one result, which follows it, a    *)
(* batch of calls has its results before the next one begins, and every    *)
(* verdict against an answer has been told (loop.py, run and               *)
(* _execute_tools).                                                        *)
THEOREM ConversationStaysClosed == Spec => []ConversationIsClosed
<1>1. Init => ToolInv /\ ClosedInv
  BY InitToolInv, InitClosedInv
<1>2. (ToolInv /\ ClosedInv) /\ [Next]_vars => (ToolInv /\ ClosedInv)'
  BY NextToolInv, NextClosedInv
<1>3. ToolInv /\ ClosedInv => ConversationIsClosed
  BY ClosedInvIsEnough
<1> QED BY <1>1, <1>2, <1>3, PTL DEF Spec
==============================================================================
