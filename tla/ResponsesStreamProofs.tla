------------------------- MODULE ResponsesStreamProofs -------------------------
(***************************************************************************)
(* What generate() hands to the loop is a valid response, and the one that *)
(* the server completed where its events agree with the completion, for    *)
(* every output and every order of the events.                             *)
(***************************************************************************)
EXTENDS ResponsesStream, CommonLemmas

(* What the parser makes of a list it accepts: the calls of the list, and  *)
(* one answer if there is a message and no call (openai_responses.py       *)
(* 188-234).                                                               *)
LEMMA ParsedIsValid ==
    ASSUME NEW raws \in Seq(RawItem), ~ParseRaises(raws), ~ParseFails(raws)
    PROVE  /\ Parsed(raws) \in Seq(ResponseItem)
           /\ ValidResponse(Parsed(raws))
           /\ Count("tool_call", Parsed(raws)) = Count("function_call", raws)
           /\ Count("final_answer", Parsed(raws)) =
                  IF Count("message", raws) > 0 /\ Count("function_call", raws) = 0
                    THEN 1 ELSE 0
<1> DEFINE P == {i \in DOMAIN raws : raws[i] # "nothing"}
           kept == Kept(raws)
           n == Cardinality(P)
           parsed == Parsed(raws)
           IsAnswer(i) == /\ kept[i] = "message"
                          /\ \A j \in DOMAIN kept : j > i => kept[j] # "message"
           Finals == {i \in DOMAIN parsed : parsed[i] = "final_answer"}
           Calls(s, type) == {i \in DOMAIN s : s[i] = type}
<1>1. /\ DOMAIN raws = 1..Len(raws) /\ Len(raws) \in Nat
      /\ \A i \in DOMAIN raws : raws[i] \in RawItem
  OBVIOUS
<1>2. IsFiniteSet(DOMAIN raws)
  BY <1>1, FS_Interval
<1>3. P \in SUBSET Nat /\ IsFiniteSet(P) /\ n \in Nat
  <2>1. P \in SUBSET Nat /\ P \in SUBSET DOMAIN raws
    BY <1>1
  <2> HIDE DEF P
  <2> QED BY <1>2, <2>1, FS_Subset, FS_CardinalityType
<1>4. kept = Selected(raws, P) /\ kept # <<>>
  BY DEF ParseFails, Kept
<1> HIDE DEF kept
<1>5. /\ kept \in Seq(RawItem) /\ DOMAIN kept = 1..n /\ Len(kept) = n
      /\ \A k \in 1..n : \E p \in P : kept[k] = raws[p]
  <2>1. \A p \in P : raws[p] \in RawItem
    BY <1>1
  <2> HIDE DEF P
  <2> QED BY <1>3, <1>4, <2>1, SelectedType
<1>6. n >= 1
  <2>1. Len(kept) # 0
    BY <1>4, <1>5
  <2> QED BY <1>3, <1>5, <2>1
<1>7. \A k \in 1..n : /\ kept[k] \in {"reasoning", "message", "function_call"}
                      /\ \E i \in DOMAIN raws : kept[k] = raws[i]
  <2> SUFFICES ASSUME NEW k \in 1..n
               PROVE  /\ kept[k] \in {"reasoning", "message", "function_call"}
                      /\ \E i \in DOMAIN raws : kept[k] = raws[i]
    OBVIOUS
  <2>1. PICK p \in P : kept[k] = raws[p]
    BY <1>5
  <2>2. /\ raws[p] # "malformed_call" /\ raws[p] # "nothing" /\ raws[p] \in RawItem
        /\ \A j \in DOMAIN raws : raws[j] # "malformed_call"
    BY <1>1 DEF ParseFails, ToSet
  <2>3. p \in DOMAIN raws /\ raws[p] \notin IllTyped
    BY <2>2 DEF ParseRaises, IllTyped, ToSet
  <2> QED BY <2>1, <2>2, <2>3 DEF RawItem
<1>8. ASSUME NEW v \in {"message", "function_call"}
      PROVE  Cardinality(Calls(kept, v)) = Count(v, raws)
  <2>1. {p \in P : raws[p] = v} = {i \in DOMAIN raws : raws[i] = v}
    OBVIOUS
  <2> HIDE DEF P
  <2>2. P \in SUBSET Nat /\ IsFiniteSet(P)
    BY <1>3
  <2>3. Cardinality(Places(Selected(raws, P), DOMAIN Selected(raws, P), v))
            = Cardinality(Places(raws, P, v))
    BY ONLY <2>2, SelectedCount
  <2> QED BY <1>4, <2>1, <2>3 DEF Count, Places
<1> HIDE DEF n, P
<1> DEFINE Called == "function_call" \in ToSet(raws)
<1>9. parsed = [i \in DOMAIN kept |->
                 CASE kept[i] = "function_call" -> "tool_call"
                   [] IsAnswer(i) /\ ~Called       -> "final_answer"
                   [] OTHER                    -> "message"]
  BY DEF Parsed, kept
<1> HIDE DEF parsed, Called, IsAnswer
<1>10. DOMAIN parsed = 1..n
  BY <1>5, <1>9
<1>11. ASSUME NEW i \in 1..n
       PROVE  /\ parsed[i] \in ResponseItem
              /\ parsed[i] = "tool_call" <=> kept[i] = "function_call"
              /\ parsed[i] = "final_answer" <=> IsAnswer(i) /\ ~Called
  <2>1. parsed[i] = CASE kept[i] = "function_call" -> "tool_call"
                      [] IsAnswer(i) /\ ~Called       -> "final_answer"
                      [] OTHER                    -> "message"
    BY <1>5, <1>9
  <2>2. IsAnswer(i) => kept[i] # "function_call"
    BY DEF IsAnswer
  <2> QED BY <2>1, <2>2 DEF ResponseItem
<1>12. parsed \in Seq(ResponseItem)
  <2>1. parsed \in [1..n -> ResponseItem]
    BY <1>5, <1>9, <1>10, <1>11
  <2> QED BY <1>3, <2>1
<1>13. Count("tool_call", parsed) = Count("function_call", raws)
  <2>1. Calls(parsed, "tool_call") = Calls(kept, "function_call")
    BY <1>5, <1>10, <1>11
  <2> QED BY <1>8, <2>1 DEF Count
<1>14. /\ IsFiniteSet(Calls(raws, "function_call"))
       /\ IsFiniteSet(Calls(raws, "message"))
  BY <1>2, FS_Subset
<1>15. Called <=> Calls(raws, "function_call") # {}
  BY DEF Called, ToSet
<1>16. Called <=> Count("function_call", raws) # 0
  BY <1>14, <1>15, FS_EmptySet DEF Count
<1>17. Count("message", raws) \in Nat /\ Count("function_call", raws) \in Nat
  BY <1>14, FS_CardinalityType DEF Count
<1>18. parsed # <<>>
  <2>1. 1 \in DOMAIN parsed
    BY <1>3, <1>6, <1>10
  <2> QED BY <2>1
<1>19. CASE Called
  <2>1. Finals = {}
    BY <1>10, <1>11, <1>19
  <2>2. Cardinality(Finals) = 0 /\ Count("final_answer", parsed) = 0
    BY <2>1, FS_EmptySet DEF Count
  <2>3. ValidResponse(parsed)
    BY <1>18, <2>1, <2>2 DEF ValidResponse
  <2> QED BY <1>12, <1>13, <1>16, <1>19, <2>2, <2>3 DEF parsed
<1>20. CASE ~Called
  <2>1. \A i \in DOMAIN parsed : parsed[i] # "tool_call"
    <3> SUFFICES ASSUME NEW i \in 1..n, kept[i] = "function_call" PROVE Called
      BY <1>10, <1>11, <1>20
    <3> QED BY <1>7 DEF Called, ToSet
  <2> DEFINE M == Calls(kept, "message")
  <2>2. Cardinality(M) = Count("message", raws) /\ IsFiniteSet(M) /\ M \in SUBSET (0..n)
    <3>1. M \in SUBSET (1..n)
      BY <1>5
    <3>2. IsFiniteSet(1..n)
      BY <1>3, FS_Interval
    <3>3. IsFiniteSet(M)
      <4> HIDE DEF M
      <4> QED BY <3>1, <3>2, FS_Subset
    <3>4. Cardinality(M) = Count("message", raws)
      BY <1>8
    <3> HIDE DEF M
    <3> QED BY <1>3, <3>1, <3>3, <3>4
  <2>3. Cardinality(Finals) = (IF Count("message", raws) > 0 THEN 1 ELSE 0)
    <3>1. CASE M = {}
      <4>1. Finals = {}
        BY <1>5, <1>10, <1>11, <3>1 DEF IsAnswer
      <4>2. Cardinality(M) = 0
        BY <3>1, FS_EmptySet
      <4>3. Cardinality(Finals) = 0
        BY <4>1, FS_EmptySet
      <4> QED BY <2>2, <4>2, <4>3
    <3>2. CASE M # {}
      <4>1. PICK x \in M : \A y \in M : y <= x
        <5> HIDE DEF M
        <5> QED BY <1>3, <2>2, <3>2, GreatestNumber
      <4>2. ASSUME NEW i \in 1..n PROVE IsAnswer(i) <=> i = x
        <5>1. x \in 1..n /\ kept[x] = "message"
          BY <1>5
        <5>2. \A j \in 1..n : kept[j] = "message" => j <= x
          BY <1>5, <4>1
        <5>3. i \in Int /\ x \in Int /\ \A j \in 1..n : j \in Int
          BY <5>1
        <5>4. IsAnswer(i) => i = x
          BY <1>5, <5>1, <5>2, <5>3 DEF IsAnswer
        <5>5. IsAnswer(x)
          BY <1>5, <5>1, <5>2, <5>3 DEF IsAnswer
        <5> QED BY <5>4, <5>5
      <4>3. Finals = {x}
        <5>1. x \in 1..n
          BY <1>5
        <5> QED BY <1>10, <1>11, <1>20, <4>2, <5>1
      <4>4. Cardinality(Finals) = 1
        BY <4>3, FS_Singleton
      <4>5. Cardinality(M) # 0
        BY <2>2, <3>2, FS_EmptySet
      <4> QED BY <1>17, <2>2, <4>4, <4>5
    <3> QED BY <3>1, <3>2
  <2>4. ValidResponse(parsed)
    <3>1. Cardinality(Finals) <= 1
      BY <2>3
    <3> QED BY <1>18, <2>1, <3>1 DEF ValidResponse
  <2> QED BY <1>12, <1>13, <1>16, <1>20, <2>3, <2>4 DEF parsed, Count
<1> QED BY <1>19, <1>20

------------------------------------------------------------------------------
(* The stream is closed only when nothing complete was read; and the       *)
(* response is the parsed output.                                          *)
Inv ==
    /\ TypeOK
    /\ IsFiniteSet(DOMAIN output_items)
    /\ completed # None => stream_completed
    /\ pc = "connect" => stream = "none" /\ completed = None
    /\ pc = "read" => stream = "open"
    /\ pc = "close" => completed = None
    /\ closing => pc = "ended"
    /\ pc = "close" \/ closing => outcome.kind # "response"
    /\ outcome.kind = "response" =>
           /\ completed # None /\ stream = "exhausted"
           /\ ~OutputMissing /\ ~ParseRaises(Output) /\ ~ParseFails(Output)
           /\ outcome.items = Parsed(Output)
    /\ pc = "ended" /\ stream = "exhausted" /\ completed # None =>
           \/ outcome.kind \in {"response", "error"}
           \/ OutputMissing \/ ParseRaises(Output) \/ ~completed.usable

(* What the invariant says of the completion and of the items.             *)
LEMMA ReceivedTypes ==
    ASSUME Inv, completed # None
    PROVE  /\ completed.output \in Seq(RawItem) \/ completed.output = None
           /\ IsFiniteSet(DOMAIN output_items) /\ DOMAIN output_items \in SUBSET Nat
           /\ \A i \in DOMAIN output_items : output_items[i] \in RawItem
<1>1. /\ completed \in Completion /\ IsFiniteSet(DOMAIN output_items)
      /\ \E D \in SUBSET Indexes : output_items \in [D -> RawItem]
  BY DEF Inv, TypeOK
<1>2. completed.output \in Outputs \cup {None}
  BY <1>1 DEF Completion
<1> QED BY <1>1, <1>2, StreamAssumption

(* The output is a list of the items that came.                            *)
LEMMA OutputIsList ==
    ASSUME Inv, completed # None, ~OutputMissing
    PROVE  Output \in Seq(RawItem)
<1>1. DOMAIN output_items = {} => completed.output \in Seq(RawItem)
  BY ReceivedTypes DEF OutputMissing
<1>2. Selected(output_items, DOMAIN output_items) \in Seq(RawItem)
  BY ReceivedTypes, SelectedType
<1> QED BY <1>1, <1>2 DEF Output

(* When the events agree with the completion, the output is its list.      *)
LEMMA OutputIsCompleted ==
    ASSUME Inv, completed # None, ~OutputMissing, EventsAgree
    PROVE  Output = completed.output
<1>1. CASE DOMAIN output_items = {}
  BY <1>1 DEF Output
<1>2. CASE DOMAIN output_items # {}
  <2> DEFINE list == completed.output
             n == Len(list)
  <2>1. /\ list \in Seq(RawItem)
        /\ output_items = [k \in {i - 1 : i \in DOMAIN list} |-> list[k + 1]]
    BY <1>2, ReceivedTypes DEF EventsAgree
  <2> HIDE DEF list
  <2>2. n \in Nat /\ DOMAIN list = 1..n /\ DOMAIN output_items = {i - 1 : i \in 1..n}
    <3>1. n \in Nat /\ DOMAIN list = 1..n
      BY <2>1
    <3>2. DOMAIN output_items = {i - 1 : i \in DOMAIN list}
      BY <2>1
    <3> QED BY <3>1, <3>2
  <2>3. n # 0
    BY <1>2, <2>2
  <2>4. DOMAIN output_items = 0..(n - 1) /\ n - 1 \in Nat
    <3>1. n - 1 \in Nat
      BY <2>2, <2>3
    <3>2. ASSUME NEW k PROVE k \in {i - 1 : i \in 1..n} <=> k \in 0..(n - 1)
      <4>1. k \in 0..(n - 1) => k + 1 \in 1..n /\ k = (k + 1) - 1
        BY <2>2
      <4>2. ASSUME NEW i \in 1..n PROVE i - 1 \in 0..(n - 1)
        BY <2>2
      <4> QED BY <4>1, <4>2
    <3> QED BY <2>2, <3>1, <3>2
  <2>5. Selected(output_items, 0..(n - 1)) = Slice(output_items, 0, n - 1)
    <3>1. 0 <= (n - 1) + 1
      BY <2>4
    <3> QED BY <2>4, <3>1, SelectedInterval
  <2>6. Slice(output_items, 0, n - 1) = [k \in 1..n |-> list[k]]
    <3>1. Slice(output_items, 0, n - 1) = [k \in 1..n |-> output_items[k - 1]]
      BY <2>2 DEF Slice
    <3>2. ASSUME NEW k \in 1..n PROVE output_items[k - 1] = list[k]
      <4>1. k - 1 \in DOMAIN output_items /\ (k - 1) + 1 = k
        BY <2>2, <2>4
      <4> QED BY <2>1, <4>1
    <3> QED BY <3>1, <3>2
  <2>7. list = [k \in 1..n |-> list[k]]
    BY <2>1, <2>2
  <2>8. Output = Selected(output_items, DOMAIN output_items)
    BY <1>2 DEF Output
  <2> QED BY <2>4, <2>5, <2>6, <2>7, <2>8 DEF list
<1> QED BY <1>1, <1>2

(* The parser meets only what came.                                        *)
LEMMA WellTypedIsParsed ==
    ASSUME Inv, completed # None, WellTyped
    PROVE  ~OutputMissing /\ completed.usable /\ ~ParseRaises(Output)
<1>1. completed.usable /\ ~OutputMissing /\ completed.output \in Seq(RawItem)
  BY ReceivedTypes DEF WellTyped, OutputMissing
<1> DEFINE V == RawItem \ IllTyped
<1>2. \A i \in DOMAIN output_items : output_items[i] \in V
  BY ReceivedTypes DEF WellTyped
<1>3. \A i \in DOMAIN completed.output : completed.output[i] \notin IllTyped
  BY DEF WellTyped, ToSet
<1>4. ASSUME NEW i \in DOMAIN Output PROVE Output[i] \notin IllTyped
  <2>1. CASE DOMAIN output_items = {}
    BY <1>3, <2>1 DEF Output
  <2>2. CASE DOMAIN output_items # {}
    <3>1. Output = Selected(output_items, DOMAIN output_items)
      BY <2>2 DEF Output
    <3>2. Selected(output_items, DOMAIN output_items) \in Seq(V)
      <4> HIDE DEF V
      <4> QED BY <1>2, ReceivedTypes, SelectedType
    <3> QED BY <3>1, <3>2
  <2> QED BY <2>1, <2>2
<1> QED BY <1>1, <1>4 DEF ParseRaises, IllTyped, ToSet

(* Leaving the stream with an error keeps the invariant.                   *)
LEMMA LeaveKeepsInv ==
    ASSUME Inv, pc \in {"connect", "read"},
           NEW kind \in OutcomeKinds \ {"undecided", "response"},
           Leave(kind), UNCHANGED <<stream, received, closing>>
    PROVE  Inv'
<1> USE DEF Inv, TypeOK
<1>1. outcome' = [kind |-> kind, items |-> <<>>] /\ pc' \in {"close", "ended"}
  BY DEF Leave, Outcome
<1>2. outcome'.kind = kind /\ outcome'.items = <<>> /\ <<>> \in Seq(ResponseItem)
  BY <1>1
<1>3. UNCHANGED <<stream, stream_completed, completed, output_items, closing>>
  BY DEF received
<1>4. ~closing /\ stream # "exhausted"
  OBVIOUS
<1>5. TypeOK'
  BY <1>1, <1>2, <1>3 DEF OutcomeKinds
<1>6. pc' = "close" => completed = None
  BY DEF Leave
<1>7. ~(stream' = "exhausted") /\ outcome'.kind # "response"
  BY <1>2, <1>3, <1>4
<1> QED BY <1>1, <1>2, <1>3, <1>4, <1>5, <1>6, <1>7

(* A request begins with nothing received.                                 *)
LEMMA InvInit == Init => Inv
<1> SUFFICES ASSUME Init PROVE Inv
  OBVIOUS
<1> USE DEF Init
<1>1. outcome.kind = "undecided" /\ outcome.items = <<>> /\ <<>> \in Seq(ResponseItem)
  BY DEF Outcome
<1>2. DOMAIN output_items = {} /\ output_items \in [{} -> RawItem]
  OBVIOUS
<1>3. IsFiniteSet(DOMAIN output_items)
  BY <1>2, FS_EmptySet
<1>4. output_items \in UNION {[D -> RawItem] : D \in SUBSET Indexes}
  BY <1>2
<1>5. TypeOK
  BY <1>1, <1>4 DEF TypeOK, OutcomeKinds
<1> QED BY <1>1, <1>3, <1>5 DEF Inv

(* Every step keeps the invariant.                                         *)
LEMMA InvStep == Inv /\ [Next]_vars => Inv'
<1> SUFFICES ASSUME Inv, [Next]_vars PROVE Inv'
  OBVIOUS
<1>0. None \notin Completion
  BY StreamAssumption
<1>1. CASE Connect
  <2>1. UNCHANGED <<stream_completed, completed, output_items, outcome, closing>>
    BY <1>1 DEF Connect, received
  <2>2. pc = "connect" /\ pc' = "read" /\ stream' = "open" /\ outcome.kind = "undecided" /\ completed = None
    BY <1>1 DEF Connect, Inv, TypeOK
  <2>3. TypeOK'
    BY <2>1, <2>2 DEF Inv, TypeOK
  <2> QED BY <2>1, <2>2, <2>3 DEF Inv
<1>2. CASE ConnectFails
  <2>1. PICK kind \in {"retryable", "error"} : Leave(kind)
    BY <1>2 DEF ConnectFails
  <2>2. kind \in OutcomeKinds \ {"undecided", "response"}
    BY DEF OutcomeKinds
  <2> QED BY <1>2, <2>1, <2>2, LeaveKeepsInv DEF ConnectFails
<1>3. CASE ReceiveItem
  <2>1. PICK i \in Indexes, raw \in RawItem :
            output_items' = [k \in DOMAIN output_items \cup {i} |->
                                IF k = i THEN raw ELSE output_items[k]]
    BY <1>3 DEF ReceiveItem
  <2>2. UNCHANGED <<pc, stream, stream_completed, completed, outcome, closing>>
    BY <1>3 DEF ReceiveItem
  <2>3. pc = "read" /\ outcome.kind = "undecided"
    BY <1>3 DEF ReceiveItem, Inv, TypeOK
  <2>4. PICK D \in SUBSET Indexes : output_items \in [D -> RawItem]
    BY DEF Inv, TypeOK
  <2>5. /\ output_items' \in [(D \cup {i}) -> RawItem]
        /\ DOMAIN output_items' = DOMAIN output_items \cup {i}
    BY <2>1, <2>4
  <2>6. IsFiniteSet(DOMAIN output_items')
    BY <2>5, FS_AddElement DEF Inv
  <2>7. TypeOK'
    BY <2>2, <2>5 DEF Inv, TypeOK
  <2> QED BY <2>2, <2>3, <2>6, <2>7 DEF Inv
<1>4. CASE ReceiveCompleted
  <2>1. UNCHANGED <<pc, stream, output_items, outcome, closing>>
    BY <1>4 DEF ReceiveCompleted
  <2>2. completed' \in Completion \cup {None} /\ stream_completed' = TRUE /\ pc = "read" /\ outcome.kind = "undecided"
    BY <1>4 DEF ReceiveCompleted, Inv, TypeOK
  <2>3. TypeOK'
    BY <2>1, <2>2 DEF Inv, TypeOK
  <2> QED BY <1>0, <2>1, <2>2, <2>3 DEF Inv
<1>5. CASE ReadFails
  <2>1. PICK kind \in {"error", "retryable", "exception"} : Leave(kind)
    BY <1>5 DEF ReadFails
  <2>2. kind \in OutcomeKinds \ {"undecided", "response"}
    BY DEF OutcomeKinds
  <2> QED BY <1>5, <2>1, <2>2, LeaveKeepsInv DEF ReadFails
<1>6. CASE EndOfStream
  <2>1. /\ pc = "read" /\ stream' = "exhausted" /\ stream = "open"
        /\ UNCHANGED <<stream_completed, completed, output_items, closing>>
        /\ outcome.kind = "undecided" /\ ~closing
    BY <1>6 DEF EndOfStream, received, Inv, TypeOK
  <2>2. CASE completed = None
    <3>1. outcome' = [kind |-> "retryable", items |-> <<>>] /\ pc' \in {"close", "ended"}
      BY <1>6, <2>2 DEF EndOfStream, Leave, Outcome
    <3>2. outcome'.kind = "retryable" /\ outcome'.items = <<>> /\ <<>> \in Seq(ResponseItem)
      BY <3>1
    <3>3. TypeOK'
      BY <2>1, <3>1, <3>2 DEF Inv, TypeOK, OutcomeKinds
    <3> QED BY <2>1, <2>2, <3>1, <3>2, <3>3 DEF Inv
  <2> DEFINE raises == OutputMissing \/ ParseRaises(Output)
  <2>3. (OutputMissing)' = OutputMissing /\ Output' = Output /\ raises' = raises
    <3>1. Output' = Output
      BY <2>1 DEF Output
    <3>2. (OutputMissing)' = OutputMissing
      BY <2>1 DEF OutputMissing
    <3> QED BY <3>1, <3>2 DEF ParseRaises
  <2>4. ASSUME completed # None, NEW kind \in {"error", "exception"}, pc' = "ended",
               outcome' = Outcome(kind),
               kind = "exception" => raises \/ ~completed.usable
        PROVE  Inv'
    <3>1. outcome'.kind = kind /\ outcome'.items = <<>> /\ <<>> \in Seq(ResponseItem)
      BY <2>4 DEF Outcome
    <3>2. TypeOK'
      BY <2>1, <2>4, <3>1 DEF Inv, TypeOK, OutcomeKinds
    <3>3. \/ outcome'.kind \in {"response", "error"}
          \/ (OutputMissing)' \/ ParseRaises(Output)' \/ ~completed'.usable
      BY <2>1, <2>3, <2>4, <3>1
    <3> QED BY <2>1, <2>4, <3>1, <3>2, <3>3 DEF Inv
  <2>5. CASE completed # None /\ raises
    <3>1. outcome' = Outcome("exception") /\ pc' = "ended"
      BY <1>6, <2>5 DEF EndOfStream
    <3> QED BY <2>4, <2>5, <3>1
  <2>6. CASE completed # None /\ ~raises /\ ParseFails(Output)
    <3>1. outcome' = Outcome("error") /\ pc' = "ended"
      BY <1>6, <2>6 DEF EndOfStream
    <3> QED BY <2>4, <2>6, <3>1
  <2>7. CASE completed # None /\ ~raises /\ ~ParseFails(Output) /\ ~completed.usable
    <3>1. outcome' = Outcome("exception") /\ pc' = "ended"
      BY <1>6, <2>7 DEF EndOfStream
    <3> QED BY <2>4, <2>7, <3>1
  <2>8. CASE completed # None /\ ~raises /\ ~ParseFails(Output) /\ completed.usable
    <3>1. ValidResponse(Parsed(Output)) /\ Parsed(Output) \in Seq(ResponseItem)
      BY <2>8, OutputIsList, ParsedIsValid
    <3>2. outcome' = [kind |-> "response", items |-> Parsed(Output)] /\ pc' = "ended"
      BY <1>6, <2>8, <3>1 DEF EndOfStream
    <3>3. outcome'.kind = "response" /\ outcome'.items = Parsed(Output)
      BY <3>2
    <3>4. TypeOK'
      BY <2>1, <3>1, <3>2, <3>3 DEF Inv, TypeOK, OutcomeKinds
    <3>5. /\ ~ParseFails(Output)' /\ outcome'.items = Parsed(Output)'
          /\ ~(OutputMissing)' /\ ~ParseRaises(Output)'
      BY <2>3, <2>8, <3>3 DEF ParseFails, ParseRaises, Parsed, Kept
    <3> QED BY <2>1, <2>8, <3>2, <3>3, <3>4, <3>5 DEF Inv
  <2> QED BY <2>2, <2>5, <2>6, <2>7, <2>8
<1>7. CASE Cancel
  <2>1. "cancelled" \in OutcomeKinds \ {"undecided", "response"}
    BY DEF OutcomeKinds
  <2> QED BY <1>7, <2>1, LeaveKeepsInv DEF Cancel
<1>8. CASE Close
  <2>1. /\ pc = "close" /\ pc' = "ended" /\ stream' = "closed"
        /\ UNCHANGED <<stream_completed, completed, output_items, closing>>
        /\ outcome' \in {outcome, [kind |-> "exception", items |-> <<>>]}
    BY <1>8 DEF Close, received, Outcome
  <2>2. /\ outcome'.kind \in OutcomeKinds \ {"response", "undecided"}
        /\ outcome'.items \in Seq(ResponseItem)
    <3>1. CASE outcome' = outcome
      BY <2>1, <3>1 DEF Inv, TypeOK
    <3>2. CASE outcome' = [kind |-> "exception", items |-> <<>>]
      BY <3>2 DEF OutcomeKinds
    <3> QED BY <2>1, <3>1, <3>2
  <2>3. TypeOK'
    BY <2>1, <2>2 DEF Inv, TypeOK
  <2> QED BY <2>1, <2>2, <2>3 DEF Inv
<1>9. CASE CancelClose
  <2>1. /\ pc = "close" /\ pc' = "ended" /\ closing' = TRUE
        /\ UNCHANGED <<stream, stream_completed, completed, output_items>>
        /\ outcome' = [kind |-> "cancelled", items |-> <<>>]
    BY <1>9 DEF CancelClose, received, Outcome
  <2>2. outcome'.kind = "cancelled" /\ outcome'.items = <<>> /\ <<>> \in Seq(ResponseItem)
    BY <2>1
  <2>3. TypeOK'
    BY <2>1, <2>2 DEF Inv, TypeOK, OutcomeKinds
  <2>4. ~(stream' = "exhausted" /\ completed' # None)
    BY <2>1 DEF Inv
  <2> QED BY <2>1, <2>2, <2>3, <2>4 DEF Inv
<1>10. CASE CloseInBackground
  <2>1. /\ closing /\ closing' = FALSE /\ stream' = "closed"
        /\ UNCHANGED <<pc, stream_completed, completed, output_items, outcome>>
    BY <1>10 DEF CloseInBackground, received
  <2>2. TypeOK'
    BY <2>1 DEF Inv, TypeOK
  <2> QED BY <2>1, <2>2 DEF Inv
<1>11. CASE UNCHANGED vars
  <2>1. UNCHANGED <<pc, stream, stream_completed, completed, output_items, outcome, closing>>
    BY <1>11 DEF vars
  <2>2. Output' = Output /\ (OutputMissing)' = OutputMissing
    BY <2>1 DEF Output, OutputMissing
  <2>3. /\ ParseFails(Output)' = ParseFails(Output) /\ Parsed(Output)' = Parsed(Output)
        /\ ParseRaises(Output)' = ParseRaises(Output)
    BY <2>2 DEF ParseFails, ParseRaises, Parsed, Kept
  <2>4. TypeOK'
    BY <2>1 DEF Inv, TypeOK
  <2> QED BY <2>1, <2>2, <2>3, <2>4 DEF Inv
<1> QED BY <1>1, <1>2, <1>3, <1>4, <1>5, <1>6, <1>7, <1>8, <1>9, <1>10, <1>11 DEF Next

(* The invariant holds in every state.                                     *)
LEMMA InvAlways == Spec => []Inv
BY InvInit, InvStep, PTL DEF Spec

(* Type correctness of the request (openai_responses.py 39-121).           *)
THEOREM ResponseTypes == Spec => []TypeOK
<1>1. Inv => TypeOK
  BY DEF Inv
<1> QED BY <1>1, InvAlways, PTL

(* Every response is valid; where the events agree with the completion it  *)
(* has the calls and the answer of the completion's list; and a completed  *)
(* stream in which all is well typed gives a response or an error of the   *)
(* provider (openai_responses.py 57-66, 123-147, 186-220,                  *)
(* model/response.py 25-32).                                               *)
THEOREM ResponsesAreComplete == Spec => []ResponsesAreValid
<1>1. Inv => ResponsesAreValid
  <2> SUFFICES ASSUME Inv PROVE ResponsesAreValid
    OBVIOUS
  <2>1. ASSUME outcome.kind = "response"
        PROVE  /\ completed # None /\ stream = "exhausted"
               /\ Output \in Seq(RawItem) /\ ~ParseRaises(Output) /\ ~ParseFails(Output)
               /\ outcome.items = Parsed(Output)
               /\ EventsAgree => Output = completed.output
    BY <2>1, OutputIsList, OutputIsCompleted DEF Inv
  <2>2. pc = "ended" /\ stream = "exhausted" /\ completed # None =>
            (WellTyped => outcome.kind \in {"response", "error"})
    BY WellTypedIsParsed DEF Inv
  <2> QED BY <2>1, <2>2, ParsedIsValid DEF ResponsesAreValid
<1> QED BY <1>1, InvAlways, PTL
===============================================================================
