---------------------------- MODULE ResponsesStream ----------------------------
(***************************************************************************)
(* One request of ResponsesModelClient.generate                            *)
(* (runtime/model/openai_responses.py): the connection, the events of the  *)
(* stream in any order a server may send them, its end or failure at any   *)
(* point, cancellation at every await, and the close in the finally block, *)
(* which a second cancellation leaves to run in the background.            *)
(*                                                                         *)
(* Texts, usage and request ids are left out; the SDK and the server are   *)
(* what the code can observe of them.                                      *)
(***************************************************************************)
EXTENDS ModelResponse, Selection, SequencesExt

CONSTANTS Indexes,          \* the values of output_index
          Outputs,          \* the lists "response.completed" may carry
          None

(* What _response_items distinguishes.  "nothing" is an item without text  *)
(* or of another type; the parser does not look at an item of IllTyped     *)
(* without an exception of its own: "ill_typed" has a summary, content or  *)
(* arguments that are null or of another type than it expects.             *)
IllTyped == {"ill_typed", "no_object"}

RawItem == {"reasoning", "message", "function_call", "malformed_call", "nothing"}
               \cup IllTyped

(* The response that comes with the completion: its output, None when that *)
(* is null or the response is no object; and whether its id and its usage  *)
(* can be read.                                                            *)
Completion == [output : Outputs \cup {None}, usable : BOOLEAN]

ASSUME StreamAssumption ==
    /\ Indexes \subseteq Nat /\ Outputs \subseteq Seq(RawItem)
    /\ None \notin Outputs /\ None \notin Completion

VARIABLES
    pc,                \* where generate() is
    stream,            \* "none", "open", "exhausted", "closed"
    stream_completed,
    completed,         \* the response of the last response.completed, or None
    output_items,      \* by output_index
    outcome,           \* what is returned or raised, once that is decided
    closing            \* is close() running without being awaited

vars == <<pc, stream, stream_completed, completed, output_items, outcome, closing>>

received == <<stream_completed, completed, output_items>>

Outcome(kind) == [kind |-> kind, items |-> <<>>]

(* A response; a ModelProviderError that is marked retryable, or not; the  *)
(* cancellation; any other exception.                                      *)
OutcomeKinds == {"undecided", "response", "retryable", "error", "cancelled", "exception"}

Init ==
    /\ pc = "connect" /\ stream = "none" /\ stream_completed = FALSE
    /\ completed = None /\ output_items = [i \in {} |-> "nothing"]
    /\ outcome = Outcome("undecided") /\ closing = FALSE

------------------------------------------------------------------------------
(* What a complete list of output items is parsed to.                      *)

Kept(raws) == Selected(raws, {i \in DOMAIN raws : raws[i] # "nothing"})

(* _response_items asks all items for their type, and then goes through    *)
(* them in their order: the exception of the first leaves it.              *)
ParseRaises(raws) ==
    \/ "no_object" \in ToSet(raws)
    \/ \E i \in DOMAIN raws :
          raws[i] = "ill_typed" /\ \A j \in DOMAIN raws : j < i => raws[j] # "malformed_call"

(* Its two protocol errors, when nothing else is raised.                   *)
ParseFails(raws) == "malformed_call" \in ToSet(raws) \/ Kept(raws) = <<>>

(* _response_items: without a call the last message is the answer.         *)
Parsed(raws) ==
    LET kept == Kept(raws)
        isLastMessage(i) ==
            /\ kept[i] = "message"
            /\ \A j \in DOMAIN kept : j > i => kept[j] # "message"
    IN  [i \in DOMAIN kept |->
            CASE kept[i] = "function_call" -> "tool_call"
              [] isLastMessage(i) /\ "function_call" \notin ToSet(raws)
                                           -> "final_answer"
              [] OTHER                     -> "message"]

(* No event brought an item and there is no list with the completion.      *)
OutputMissing == DOMAIN output_items = {} /\ completed.output = None

(* A variant of the next definition: what the events brought comes after   *)
(* the list of the completion and not instead of it.                       *)
OutputRepeated ==
    (IF completed.output = None THEN <<>> ELSE completed.output)
        \o Selected(output_items, DOMAIN output_items)

(* The items of the events in the order of their index, or the list that   *)
(* came with the completion when there were no such events.                *)
Output ==
    IF DOMAIN output_items = {} THEN completed.output
    ELSE Selected(output_items, DOMAIN output_items)

------------------------------------------------------------------------------
(* Every way out of the try block passes the finally block: the stream is  *)
(* closed unless response.completed was read.                              *)
Leave(kind) ==
    /\ outcome' = Outcome(kind)
    /\ pc' = IF stream # "none" /\ ~stream_completed THEN "close" ELSE "ended"

Connect ==
    /\ pc = "connect"
    /\ stream' = "open"
    /\ pc' = "read"
    /\ UNCHANGED <<received, outcome, closing>>

(* Timeouts, lost connections and some HTTP states are marked retryable;   *)
(* other states, SDK errors and an unusable context are not.               *)
ConnectFails ==
    /\ pc = "connect"
    /\ \E kind \in {"retryable", "error"} : Leave(kind)
    /\ UNCHANGED <<stream, received, closing>>

ReceiveItem ==
    /\ pc = "read"
    /\ \E i \in Indexes, raw \in RawItem :
          output_items' = [k \in DOMAIN output_items \cup {i} |->
                              IF k = i THEN raw ELSE output_items[k]]
    /\ UNCHANGED <<pc, stream, stream_completed, completed, outcome, closing>>

(* The response it carries may be null.                                    *)
ReceiveCompleted ==
    /\ pc = "read"
    /\ completed' \in Completion \cup {None}
    /\ stream_completed' = TRUE
    /\ UNCHANGED <<pc, stream, output_items, outcome, closing>>

(* A variant of the next definition: the error is noted, the reading goes on. *)
ReadFailsContinues ==
    /\ pc = "read"
    /\ \E kind \in {"error", "retryable", "exception"} : outcome' = Outcome(kind)
    /\ UNCHANGED <<pc, stream, received, closing>>

(* response.failed, response.incomplete or error; or the stream raises     *)
(* (the SDK, the connection); or an event is not what it should be.        *)
ReadFails ==
    /\ pc = "read"
    /\ \E kind \in {"error", "retryable", "exception"} : Leave(kind)
    /\ UNCHANGED <<stream, received, closing>>

(* Only the errors of the provider are caught around the parser: what else *)
(* it raises leaves generate() as it is, and so does what a null output,   *)
(* the id or the usage raise, and ModelResponse.                           *)
EndOfStream ==
    /\ pc = "read"
    /\ stream' = "exhausted"
    /\ UNCHANGED <<received, closing>>
    /\ IF completed = None THEN Leave("retryable")
       ELSE /\ pc' = "ended"
            /\ outcome' =
                 IF OutputMissing \/ ParseRaises(Output) THEN Outcome("exception")
                 ELSE IF ParseFails(Output) THEN Outcome("error")
                 ELSE IF completed.usable /\ ValidResponse(Parsed(Output))
                   THEN [kind |-> "response", items |-> Parsed(Output)]
                   ELSE Outcome("exception")

(* Raised at the await of the connection or of the next event.             *)
Cancel ==
    /\ pc \in {"connect", "read"}
    /\ Leave("cancelled")
    /\ UNCHANGED <<stream, received, closing>>

(* close() returns, or its exception takes the place of the first one.     *)
Close ==
    /\ pc = "close"
    /\ stream' = "closed"
    /\ outcome' \in {outcome, Outcome("exception")}
    /\ pc' = "ended"
    /\ UNCHANGED <<received, closing>>

(* A variant of the next definition: close() is not shielded.              *)
CancelUnshieldedClose ==
    /\ pc = "close"
    /\ outcome' = Outcome("cancelled")
    /\ pc' = "ended"
    /\ UNCHANGED <<stream, received, closing>>

(* The await of close() is cancelled; close() itself is shielded.          *)
CancelClose ==
    /\ pc = "close"
    /\ closing' = TRUE
    /\ outcome' = Outcome("cancelled")
    /\ pc' = "ended"
    /\ UNCHANGED <<stream, received>>

CloseInBackground ==
    /\ closing
    /\ stream' = "closed"
    /\ closing' = FALSE
    /\ UNCHANGED <<pc, received, outcome>>

Next ==
    \/ Connect \/ ConnectFails \/ ReceiveItem \/ ReceiveCompleted \/ ReadFails
    \/ EndOfStream \/ Cancel \/ Close \/ CancelClose \/ CloseInBackground

(* A close that was begun ends; the server need not send anything.         *)
Spec == Init /\ [][Next]_vars /\ WF_vars(Close \/ CloseInBackground)

------------------------------------------------------------------------------

TypeOK ==
    /\ pc \in {"connect", "read", "close", "ended"}
    /\ stream \in {"none", "open", "exhausted", "closed"}
    /\ stream_completed \in BOOLEAN /\ closing \in BOOLEAN
    /\ completed \in Completion \cup {None}
    /\ output_items \in UNION {[D -> RawItem] : D \in SUBSET Indexes}
    /\ outcome.kind \in OutcomeKinds /\ outcome.items \in Seq(ResponseItem)
    /\ outcome.kind = "undecided" <=> pc \in {"connect", "read"}

Count(type, s) == Cardinality({i \in DOMAIN s : s[i] = type})

(* The events brought the items of the completion's list, or none of them. *)
EventsAgree ==
    \/ DOMAIN output_items = {}
    \/ /\ completed.output # None
       /\ output_items = [k \in {i - 1 : i \in DOMAIN completed.output} |->
                             completed.output[k + 1]]

(* Everything that came is of the type that the parser expects.            *)
WellTyped ==
    /\ completed.usable /\ completed.output # None
    /\ IllTyped \cap ToSet(completed.output) = {}
    /\ \A k \in DOMAIN output_items : output_items[k] \notin IllTyped

(* What is handed to the loop was read to its end and completed, in a form *)
(* ModelResponse takes.  When the events agree with the list of the        *)
(* completion, in whatever order and however often they came, it has each  *)
(* call of that list, one answer if there is a text and no call, and none  *)
(* otherwise.  And what is well typed gives a response or an error of the  *)
(* provider: ModelResponse refuses nothing that the parser made of it      *)
(* (openai_responses.py 57-66, 123-147, 188-234, model/response.py 25-32). *)
(* It says nothing of the calls when the events brought other items than   *)
(* the completion: its list is not looked at then.                         *)
ResponsesAreValid ==
    /\ outcome.kind = "response" =>
           /\ completed # None /\ stream = "exhausted"
           /\ ValidResponse(outcome.items)
           /\ EventsAgree =>
                  LET list == completed.output
                  IN  /\ Count("tool_call", outcome.items) = Count("function_call", list)
                      /\ Count("final_answer", outcome.items) =
                            IF Count("message", list) > 0 /\ Count("function_call", list) = 0
                              THEN 1 ELSE 0
    /\ pc = "ended" /\ stream = "exhausted" /\ completed # None =>
           (WellTyped => outcome.kind \in {"response", "error"})

(* A stream that was not read to its completion is closed, also when the   *)
(* cancellation comes while it is being closed (openai_responses.py        *)
(* 117-121).                                                               *)
StreamIsClosed ==
    (stream = "open" /\ pc = "ended" /\ ~stream_completed) ~> (stream = "closed")

(* Only a request that brought no complete response may be sent again:     *)
(* "a break in the middle" is an end before response.completed             *)
(* (docs/openai-responses-provider.md).                                    *)
OnlyIncompleteIsRetried ==
    outcome.kind = "retryable" => completed = None \/ ~WellTyped
===============================================================================
