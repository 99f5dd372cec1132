------------------------ MODULE DurableEvidenceProofs ------------------------
(***************************************************************************)
(* What DurableSessionProofs is good for: the receipts behind every        *)
(* completed node are on disk, a resume is never refused what the runtime  *)
(* itself wrote, and a session opens with the state after the last event.  *)
(*                                                                         *)
(* The invariant adds to LogInv that the completion a call is about to     *)
(* append names receipts that vouch for the node, each stored already or   *)
(* still in the queue of receipts to be stored; nothing but the stored     *)
(* ones is left when the event is appended, and no stored one changes.     *)
(***************************************************************************)
EXTENDS DurableSessionProofs

Stored(r) == receipts[r.id] = r

Queued(r) == \E i \in DOMAIN call.queue : call.queue[i] = r

(* given are the receipts that the completion e of a node of the task of   *)
(* s names, and they vouch for the node.                                   *)
Vouch(given, s, e) ==
    /\ e.data.evidence = {r.id : r \in given}
    /\ \A r \in given : ValidForNode(s, e.data.node, r)
    /\ AcceptanceVerified(s, e.data.node, given)

CallHasEvidence ==
    (call.pc = "append" /\ call.event.data.type = "task_node_completed") =>
        \E given \in SUBSET Receipts :
            /\ Vouch(given, session[call.handle], call.event)
            /\ \A r \in given : Stored(r) \/ Queued(r)

EvidenceInv == CompletedIsEvidenced /\ CallHasEvidence

------------------------------------------------------------------------------
(* A step changes no stored receipt.                                       *)
ReceiptsGrow ==
    \A id \in ReceiptIds : receipts[id] # None => receipts'[id] = receipts[id]

(* No step changes a receipt that is stored.                               *)
LEMMA StepKeepsReceipts == TypeOK /\ [Next]_vars => ReceiptsGrow
<1> SUFFICES ASSUME TypeOK, [Next]_vars PROVE ReceiptsGrow
  OBVIOUS
<1>1. CASE SaveReceipt
  <2>1. CASE receipts[Head(call.queue).id] \in {None, Head(call.queue)}
    BY <1>1, <2>1 DEF SaveReceipt, TypeOK, ReceiptsGrow
  <2>2. CASE receipts[Head(call.queue).id] \notin {None, Head(call.queue)}
    BY <1>1, <2>2 DEF SaveReceipt, ReceiptsGrow
  <2> QED BY <2>1, <2>2
<1>2. CallBegins => receipts' = receipts
  BY ZenonT(30) DEF CallBegins, Create, Record, Complete, SaveCheckpoint, Resume
<1>3. CASE CallStep /\ ~SaveReceipt
  BY <1>3 DEF CallStep, AppendEvent, AppendRefused, Publish, ReplayEvent,
     FinishResume, ReceiptsGrow
<1>4. CASE Fault
  BY <1>4 DEF Fault, AppendInterrupted, CreateFails, CallFails, Crash, ReceiptsGrow
<1>5. CASE UNCHANGED vars
  BY <1>5 DEF vars, ReceiptsGrow
<1> QED BY <1>1, <1>2, <1>3, <1>4, <1>5 DEF Next, ReceiptsGrow

(* A step leaves the log alone or appends the event of the call, once all  *)
(* its receipts are stored.                                                *)
AppendsOfCall ==
    /\ call.pc = "append" /\ call.queue = <<>> /\ AppendAllowed
    /\ log' = Append(log, call.event) /\ history' = Append(history, call.next)
    /\ receipts' = receipts /\ call'.pc \in {"publish", "idle"}

(* A step leaves the log alone or appends the event of the call.           *)
LEMMA StepExtendsLog ==
    TypeOK /\ [Next]_vars => UNCHANGED <<log, history>> \/ AppendsOfCall
<1> SUFFICES ASSUME TypeOK, [Next]_vars
             PROVE  UNCHANGED <<log, history>> \/ AppendsOfCall
  OBVIOUS
<1>1. CASE AppendEvent
  <2>1. call' = [call EXCEPT !.pc = "publish"] /\ call.pc = "append"
    BY <1>1 DEF AppendEvent
  <2>2. call'.pc = "publish"
    BY <2>1 DEF TypeOK, Call, Idle
  <2> QED BY <1>1, <2>1, <2>2 DEF AppendEvent, AppendsOfCall
<1>2. CASE AppendInterrupted
  BY <1>2 DEF AppendInterrupted, AppendsOfCall, Idle
<1>3. CallBegins => UNCHANGED <<log, history>>
  BY ZenonT(30) DEF CallBegins, Create, Record, Complete, SaveCheckpoint, Resume
<1>4. CASE CallStep /\ ~AppendEvent
  BY <1>4 DEF CallStep, SaveReceipt, AppendRefused, Publish, ReplayEvent, FinishResume
<1>5. CASE CreateFails \/ CallFails \/ Crash
  BY <1>5 DEF CreateFails, CallFails, Crash
<1>6. CASE UNCHANGED vars
  BY <1>6 DEF vars
<1> QED BY <1>1, <1>2, <1>3, <1>4, <1>5, <1>6 DEF Next, Fault

------------------------------------------------------------------------------
(* Evidence survives: the receipts of a state stay valid when others are   *)
(* stored, and a step of the reducer needs receipts only to complete.      *)

(* A completed node keeps its evidence while the receipts only grow.       *)
LEMMA EvidenceStays ==
    ASSUME TypeOK, ReceiptsGrow, NEW s \in DurableTaskState, EvidenceHolds(s)
    PROVE  EvidenceHolds(s)'
<1>1. \A n \in DOMAIN s.plan : s.plan[n].evidence \subseteq ReceiptIds
  BY StateFields, PlanIsFunction DEF TaskNode
<1>2. \A n \in DOMAIN s.plan : \A id \in s.plan[n].evidence :
          receipts[id] # None /\ receipts'[id] = receipts[id]
  BY <1>1 DEF EvidenceHolds, ValidForNode, ReceiptsGrow
<1>3. \A n \in DOMAIN s.plan :
          {receipts'[id] : id \in s.plan[n].evidence}
              = {receipts[id] : id \in s.plan[n].evidence}
  BY <1>2
<1> QED BY <1>2, <1>3 DEF EvidenceHolds, ValidForNode, AcceptanceVerified

(* A task begins with no node completed.                                   *)
LEMMA InitialStateEvidenced ==
    ASSUME NEW e \in DomainEvent, CanInitialize(e)
    PROVE  EvidenceHolds(InitialState(e))
<1>1. DOMAIN InitialState(e).plan = {}
  BY InitialStateType DEF NoPlan
<1> QED BY <1>1 DEF EvidenceHolds

(* An event keeps the evidence if a completion has stored receipts.        *)
LEMMA ReduceEvidenced ==
    ASSUME NEW s \in DurableTaskState, NEW e \in DomainEvent, CanReduce(s, e),
           EvidenceHolds(s),
           e.data.type = "task_node_completed" =>
               \E given \in SUBSET Receipts :
                   Vouch(given, s, e) /\ \A r \in given : Stored(r)
    PROVE  EvidenceHolds(Reduce(s, e))
<1> DEFINE t == Reduce(s, e)
<1>0. /\ t.task = s.task /\ Progress(s, e, t)
      /\ e.data \in Payload /\ s.plan \in PlanProgress
  BY ReduceType, StateFields DEF DomainEvent
<1> HIDE DEF t
<1>1. CASE e.data.type = "plan_accepted"
  <2>1. t.plan = NodesOfPlan(e.data.plan) /\ e.data.plan \in PlanSpec
    BY <1>0, <1>1, PayloadFields DEF Progress
  <2> QED BY <2>1, NodesOfPlanNodes DEF EvidenceHolds, t
<1>2. CASE e.data.type = "task_node_started"
  <2> DEFINE n == e.data.node
  <2>1. t.plan = StartedPlan(s.plan, n) /\ n \in DOMAIN s.plan
    BY <1>0, <1>2 DEF Progress, CanReduce, CanStartNode
  <2> HIDE DEF n
  <2>2. /\ DOMAIN t.plan = DOMAIN s.plan
        /\ \A m \in DOMAIN s.plan :
               /\ t.plan[m].evidence = s.plan[m].evidence
               /\ t.plan[m].criteria = s.plan[m].criteria
               /\ t.plan[m].status = "completed" => s.plan[m].status = "completed"
    BY <1>0, <2>1, StartedPlanNodes
  <2> QED BY <1>0, <2>2 DEF EvidenceHolds, ValidForNode, AcceptanceVerified, t
<1>3. CASE e.data.type = "task_node_completed"
  <2> DEFINE n == e.data.node
             ids == e.data.evidence
  <2>1. /\ t.plan = CompletedPlan(s.plan, n, ids) /\ n \in DOMAIN s.plan
        /\ ids \in SUBSET ReceiptIds
    BY <1>0, <1>3, PayloadFields DEF Progress, CanReduce
  <2>2. PICK given \in SUBSET Receipts :
            /\ ids = {r.id : r \in given}
            /\ \A r \in given : ValidForNode(s, n, r) /\ receipts[r.id] = r
            /\ AcceptanceVerified(s, n, given)
    BY <1>3 DEF Vouch, Stored
  <2> HIDE DEF n, ids
  <2>3. /\ DOMAIN t.plan = DOMAIN s.plan
        /\ \A m \in DOMAIN s.plan :
               /\ t.plan[m].evidence = IF m = n THEN ids ELSE s.plan[m].evidence
               /\ t.plan[m].criteria = s.plan[m].criteria
               /\ m # n => t.plan[m].status = s.plan[m].status
    BY <1>0, <2>1, CompletedPlanNodes
  <2>4. /\ \A id \in ids : ValidForNode(s, n, receipts[id])
        /\ {receipts[id] : id \in ids} = given
    BY <2>2
  <2>5. \A m \in DOMAIN s.plan :
            /\ \A id \in t.plan[m].evidence : ValidForNode(t, m, receipts[id])
            /\ t.plan[m].status = "completed" =>
                   AcceptanceVerified(t, m, {receipts[id] : id \in t.plan[m].evidence})
    <3> TAKE m \in DOMAIN s.plan
    <3>1. CASE m = n
      BY <1>0, <2>2, <2>3, <2>4, <3>1 DEF ValidForNode, AcceptanceVerified
    <3>2. CASE m # n
      BY <1>0, <2>3, <3>2 DEF EvidenceHolds, ValidForNode, AcceptanceVerified
    <3> QED BY <3>1, <3>2
  <2> QED BY <2>3, <2>5 DEF EvidenceHolds, t
<1>4. CASE e.data.type \in {"blocker_added", "blocker_resolved", "next_action_set"}
  BY <1>0, <1>4 DEF Progress, EvidenceHolds, ValidForNode, AcceptanceVerified, t
<1> QED BY <1>1, <1>2, <1>3, <1>4 DEF CanReduce

------------------------------------------------------------------------------
(* At the start there is no state to hold evidence for.                    *)
LEMMA InitEvidenceInv == Init => EvidenceInv
BY DEF Init, EvidenceInv, CompletedIsEvidenced, CallHasEvidence, Idle

(* Every step keeps the states of the log evidenced.                       *)
LEMMA LogStaysEvidenced ==
    ASSUME LogInv, EvidenceInv, [Next]_vars
    PROVE  CompletedIsEvidenced'
<1>0. TypeOK /\ call \in Call /\ history \in Seq(DurableTaskState)
  BY DEF LogInv, TypeOK
<1>1. ReceiptsGrow
  BY <1>0, StepKeepsReceipts
<1>2. \A i \in 1..Len(history) :
          history[i] \in DurableTaskState /\ EvidenceHolds(history[i])
  BY <1>0 DEF EvidenceInv, CompletedIsEvidenced
<1>3. CASE UNCHANGED <<log, history>>
  BY <1>0, <1>1, <1>2, <1>3, EvidenceStays DEF CompletedIsEvidenced
<1>4. CASE AppendsOfCall
  <2> DEFINE e == call.event
             next == call.next
  <2>1. /\ call.pc = "append" /\ e \in DomainEvent /\ next \in DurableTaskState
        /\ call.handle \in Handles /\ Follows(e, next)
    BY <1>0, <1>4, CallFields DEF AppendsOfCall, LogInv, CallIsConsistent
  <2>2. EvidenceHolds(next)
    <3>1. CASE CanInitialize(e) /\ next = InitialState(e)
      BY <2>1, <3>1, InitialStateEvidenced
    <3>2. CASE /\ session[call.handle] # None
               /\ CanReduce(session[call.handle], e)
               /\ next = Reduce(session[call.handle], e)
      <4> DEFINE s == session[call.handle]
      <4>1. s \in DurableTaskState /\ IsDurable(s)
        BY <1>0, <2>1, <3>2 DEF TypeOK, LogInv, PublishedIsDurable, Open
      <4>2. EvidenceHolds(s)
        BY <1>0, <1>2, <4>1 DEF IsDurable, TypeOK
      <4>3. e.data.type = "task_node_completed" =>
                \E given \in SUBSET Receipts :
                    Vouch(given, s, e) /\ \A r \in given : Stored(r)
        BY <1>4, <2>1 DEF AppendsOfCall, EvidenceInv, CallHasEvidence, Queued
      <4> HIDE DEF s
      <4>4. CanReduce(s, e) /\ next = Reduce(s, e)
        BY <3>2 DEF s
      <4> QED BY <2>1, <4>1, <4>2, <4>3, <4>4, ReduceEvidenced
    <3> QED BY <2>1, <3>1, <3>2 DEF Follows
  <2>3. \A i \in 1..Len(history') :
            \/ i \in 1..Len(history) /\ history'[i] = history[i]
            \/ history'[i] = next
    BY <1>0, <1>4, <2>1 DEF AppendsOfCall
  <2> HIDE DEF next, e
  <2>4. \A i \in 1..Len(history') :
            history'[i] \in DurableTaskState /\ EvidenceHolds(history'[i])
    BY <1>2, <2>1, <2>2, <2>3
  <2>5. receipts' = receipts
    BY <1>4 DEF AppendsOfCall
  <2> QED BY <2>4, <2>5 DEF CompletedIsEvidenced, EvidenceHolds
<1> QED BY <1>0, <1>3, <1>4, StepExtendsLog

(* Every step keeps the evidence of the call that is under way.            *)
LEMMA CallStaysEvidenced ==
    ASSUME LogInv, EvidenceInv, [Next]_vars
    PROVE  CallHasEvidence'
<1>0. TypeOK /\ call \in Call
  BY DEF LogInv, TypeOK
<1>1. ASSUME NEW h \in Handles, NEW t \in TaskIds, Create(h, t)
      PROVE  CallHasEvidence'
  <2> DEFINE e == [sequence |-> 1, data |-> Created(t)]
             none == <<>>
  <2>1. call' = Writing(h, e, InitialState(e), none) /\ none \in Seq(Receipts)
    BY <1>1 DEF Create
  <2>2. e \in DomainEvent /\ CanInitialize(e) /\ e.data.type = "task_created"
    BY CreateEventType DEF CanInitialize
  <2> HIDE DEF e, none
  <2>3. call'.event = e
    BY <2>1, <2>2, InitialStateType, WritingType
  <2> QED BY <2>2, <2>3 DEF CallHasEvidence
<1>2. ASSUME NEW h \in Handles, NEW d \in Recordable, Record(h, d)
      PROVE  CallHasEvidence'
  <2> DEFINE e == NextEvent(h, d)
             none == <<>>
  <2>1. /\ Open(h) /\ CanReduce(session[h], e) /\ none \in Seq(Receipts)
        /\ call' = Writing(h, e, Reduce(session[h], e), none)
    BY <1>2 DEF Record
  <2>2. e \in DomainEvent /\ e.data = d /\ d.type # "task_node_completed"
    BY <1>0, <2>1, RecordableType, NextEventType
  <2>3. session[h] \in DurableTaskState
    BY <1>0, <2>1 DEF TypeOK, Open
  <2> HIDE DEF e, none
  <2>4. call'.event = e
    BY <2>1, <2>2, <2>3, ReduceType, WritingType
  <2> QED BY <2>2, <2>4 DEF CallHasEvidence
<1>3. ASSUME NEW h \in Handles, NEW n \in NodeIds, NEW rs \in ReceiptTuples,
             Complete(h, n, rs)
      PROVE  CallHasEvidence'
  <2> DEFINE given == {rs[i] : i \in DOMAIN rs}
             d == NodeCompleted(n, {r.id : r \in given})
             e == NextEvent(h, d)
             s == session[h]
  <2>1. /\ Open(h) /\ CanReduce(s, e)
        /\ \A r \in given : ValidForNode(s, n, r)
        /\ AcceptanceVerified(s, n, given)
        /\ call' = Writing(h, e, Reduce(s, e), rs)
        /\ UNCHANGED <<receipts, session>>
    BY <1>3 DEF Complete
  <2>2. /\ rs \in Seq(Receipts) /\ given \in SUBSET Receipts /\ d \in Payload
        /\ d.node = n /\ d.evidence = {r.id : r \in given}
    BY CompletionType DEF NodeCompleted
  <2>3. \A r \in given : \E i \in DOMAIN rs : rs[i] = r
    OBVIOUS
  <2> HIDE DEF d, given
  <2>4. e \in DomainEvent /\ e.data = d /\ s \in DurableTaskState
    BY <1>0, <2>1, <2>2, NextEventType DEF TypeOK, Open
  <2> HIDE DEF e
  <2>5. call'.event = e /\ call'.handle = h /\ call'.queue = rs
    BY <2>1, <2>2, <2>4, ReduceType, WritingType
  <2>6. Vouch(given, s, e)
    BY <2>1, <2>2, <2>4 DEF Vouch
  <2>7. session'[call'.handle] = s
    BY <2>1, <2>5
  <2> HIDE DEF s
  <2>8. Vouch(given, session'[call'.handle], call'.event)
    BY <2>5, <2>6, <2>7
  <2>9. \A r \in given : Queued(r)'
    BY <2>3, <2>5 DEF Queued
  <2> QED BY <2>2, <2>8, <2>9 DEF CallHasEvidence, Vouch
<1>4. CASE SaveReceipt
  <2>0. /\ call.pc = "append" /\ call.queue # <<>> /\ call.queue \in Seq(Receipts)
        /\ session' = session
    BY <1>0, <1>4, CallFields DEF SaveReceipt
  <2>1. PICK q \in Receipts : q = Head(call.queue) /\ q.id \in ReceiptIds
    BY <2>0, ReceiptsAssumption DEF ExecutionReceipt
  <2>2. CASE receipts[q.id] \in {None, q}
    <3>1. /\ receipts' = [receipts EXCEPT ![q.id] = q]
          /\ call' = [call EXCEPT !.queue = Tail(call.queue)]
      BY <1>4, <2>1, <2>2 DEF SaveReceipt
    <3>2. /\ call'.pc = "append" /\ call'.event = call.event
          /\ call'.handle = call.handle /\ call'.queue = Tail(call.queue)
      BY <1>0, <2>0, <3>1 DEF Call, Idle
    <3>3. Stored(q)'
      BY <1>0, <2>1, <3>1 DEF TypeOK, Stored
    <3>4. ASSUME NEW r \in Receipts, Queued(r)
          PROVE  r = q \/ Queued(r)'
      <4>1. PICK i \in DOMAIN call.queue : call.queue[i] = r
        BY <3>4 DEF Queued
      <4>2. CASE i = 1
        BY <2>0, <2>1, <4>1, <4>2
      <4>3. CASE i # 1
        <5>1. i - 1 \in DOMAIN Tail(call.queue) /\ Tail(call.queue)[i - 1] = r
          BY <2>0, <4>1, <4>3
        <5> QED BY <3>2, <5>1 DEF Queued
      <4> QED BY <4>2, <4>3
    <3>5. ASSUME NEW r \in Receipts, Stored(r)
          PROVE  Stored(r)'
      <4>1. r.id \in ReceiptIds /\ receipts[r.id] # None
        BY <3>5, ReceiptsAssumption DEF Stored, ExecutionReceipt
      <4> QED BY <1>0, <3>5, <4>1, StepKeepsReceipts DEF Stored, ReceiptsGrow
    <3> QED BY <2>0, <3>2, <3>3, <3>4, <3>5 DEF EvidenceInv, CallHasEvidence, Vouch
  <2>3. CASE receipts[q.id] \notin {None, q}
    BY <1>4, <2>1, <2>3 DEF SaveReceipt, Idle, CallHasEvidence
  <2> QED BY <2>2, <2>3
<1>5. CASE AppendEvent \/ ReplayEvent
  <2>1. call'.pc # "append"
    BY <1>0, <1>5 DEF AppendEvent, ReplayEvent, Call, Idle
  <2> QED BY <2>1 DEF CallHasEvidence
<1>6. CASE AppendRefused \/ AppendInterrupted \/ CreateFails \/ CallFails \/ Crash
           \/ Publish \/ FinishResume
  BY <1>6 DEF AppendRefused, AppendInterrupted, CreateFails, CallFails, Crash,
     Publish, FinishResume, Idle, CallHasEvidence
<1>7. ASSUME NEW h \in Handles, NEW t \in TaskIds, NEW rev \in Revisions \cup {None},
             NEW require \in BOOLEAN, Resume(h, t, rev, require)
      PROVE  CallHasEvidence'
  BY <1>7 DEF Resume, Replaying, CallHasEvidence
<1>8. CASE UNCHANGED <<call, receipts, session>>
  BY <1>8 DEF EvidenceInv, CallHasEvidence, Stored, Queued
<1>9. CASE CallBegins
  BY <1>1, <1>2, <1>3, <1>7, <1>8, <1>9 DEF CallBegins, SaveCheckpoint, SavedCheckpoints
<1> QED BY <1>4, <1>5, <1>6, <1>8, <1>9 DEF Next, CallStep, Fault, vars

(* Evidence and log together are an invariant of the specification.        *)
LEMMA EvidenceInvariant == Spec => [](LogInv /\ EvidenceInv)
<1>1. LogInv /\ EvidenceInv /\ [Next]_vars => EvidenceInv'
  BY LogStaysEvidenced, CallStaysEvidenced DEF EvidenceInv
<1> QED BY <1>1, InitEvidenceInv, LogInvariant, PTL DEF Spec

(* A completed node has its receipts on disk, whenever the process died.   *)
THEOREM CompletionsAreEvidenced == Spec => []CompletedIsEvidenced
<1>1. EvidenceInv => CompletedIsEvidenced
  BY DEF EvidenceInv
<1> QED BY <1>1, EvidenceInvariant, PTL

(* What save() stored in the receipt store is never replaced.              *)
THEOREM ReceiptsStayAsStored == Spec => ReceiptsAreImmutable
<1>1. LogInv /\ [Next]_vars =>
          [\A id \in ReceiptIds :
              receipts[id] # None => receipts'[id] = receipts[id]]_vars
  BY StepKeepsReceipts DEF LogInv, ReceiptsGrow
<1> QED BY <1>1, LogInvariant, PTL DEF Spec, ReceiptsAreImmutable

------------------------------------------------------------------------------
(* The states after the events of the log are sound ones.                  *)
LEMMA HistoryIsSound ==
    ASSUME LogInv, NEW i \in 1..Len(history)
    PROVE  history[i] \in DurableTaskState /\ SoundState(history[i])
BY DEF LogInv, TypeOK, HistoryFollowsLog

(* Whatever the log says, no node is ahead of its dependencies.            *)
THEOREM DependenciesAlwaysComeFirst == Spec => []DependenciesComeFirst
<1>1. LogInv => DependenciesComeFirst
  BY HistoryIsSound DEF DependenciesComeFirst, SoundState
<1> QED BY <1>1, LogInvariant, PTL

(* Every state a checkpoint may hold passes the checks made on loading it. *)
THEOREM EveryStateDeserializes == Spec => []StatesDeserialize
<1>1. LogInv => StatesDeserialize
  BY HistoryIsSound DEF StatesDeserialize, SoundState
<1> QED BY <1>1, LogInvariant, PTL

(* An evidenced log passes every check that a resume makes.                *)
LEMMA EvidencedLogResumes == LogInv /\ EvidenceInv => ResumeNeverRefused
<1> SUFFICES ASSUME LogInv, EvidenceInv PROVE ResumeNeverRefused
  OBVIOUS
<1>0. /\ TypeOK /\ log \in Seq(DomainEvent) /\ Len(history) = Len(log)
      /\ Len(log) \in Nat
  BY DEF LogInv, TypeOK
<1>1. checkpoints # <<>> =>
          /\ LatestCheckpoint.state.last_event_sequence <= Len(log)
          /\ Deserializable(LatestCheckpoint.state)
  <2> SUFFICES ASSUME checkpoints # <<>>
               PROVE  /\ LatestCheckpoint.state.last_event_sequence <= Len(log)
                      /\ Deserializable(LatestCheckpoint.state)
    OBVIOUS
  <2>1. Len(checkpoints) \in 1..Len(checkpoints)
    BY <1>0 DEF TypeOK
  <2>2. IsDurable(LatestCheckpoint.state)
    BY <2>1 DEF LogInv, CheckpointIsDurable, LatestCheckpoint
  <2> QED BY <1>0, <2>2, HistoryIsSound DEF IsDurable, SoundState
<1>2. ASSUME call.pc = "replay", Replayed < Len(log)
      PROVE  CanReplay
  <2>1. CASE call.state = None
    <3>1. Replayed = 0 /\ 1 \in 1..Len(log)
      BY <1>0, <1>2, <2>1 DEF Replayed
    <3>2. CanInitialize(log[1])
      BY <3>1 DEF LogInv, HistoryFollowsLog
    <3> QED BY <2>1, <3>1, <3>2 DEF CanReplay, NextReplayed
  <2>2. CASE call.state # None
    <3> DEFINE k == Replayed
    <3>1. k \in 1..Len(log) /\ call.state = history[k] /\ k < Len(log)
      BY <1>2, <2>2 DEF Replayed, LogInv, CallIsConsistent, IsDurable
    <3> HIDE DEF k
    <3>2. k + 1 \in 1..Len(log) /\ k + 1 > 1 /\ (k + 1) - 1 = k
      BY <1>0, <3>1
    <3>3. CanReduce(history[(k + 1) - 1], log[k + 1])
      BY <3>2 DEF LogInv, HistoryFollowsLog
    <3> QED BY <2>2, <3>1, <3>2, <3>3 DEF CanReplay, NextReplayed, k
  <2> QED BY <2>1, <2>2
<1>3. ASSUME call.pc = "replay", ~(Replayed < Len(log))
      PROVE  Replayed = Len(log) /\ EvidenceHolds(call.state)
  <2>1. call.state # None
    BY <1>0, <1>3 DEF Replayed, LogInv, CallIsConsistent
  <2>2. IsDurable(call.state) /\ Replayed = call.state.last_event_sequence
    BY <1>3, <2>1 DEF Replayed, LogInv, CallIsConsistent
  <2> QED BY <1>0, <1>3, <2>2 DEF IsDurable, EvidenceInv, CompletedIsEvidenced
<1> QED BY <1>1, <1>2, <1>3 DEF ResumeNeverRefused, LoadLatestSucceeds

(* Recovery works on everything the runtime can leave behind: no check in  *)
(* resume but those on the caller's own arguments ever fails.              *)
THEOREM ResumeAccepts == Spec => []ResumeNeverRefused
BY EvidencedLogResumes, EvidenceInvariant, PTL

(* A session that opens, by create or by resume, has the last state.       *)
THEOREM OpenedSessionsAreUpToDate == Spec => OpensUpToDate
<1> DEFINE A == \A h \in Handles : ~Open(h) /\ Open(h)' =>
                   Len(log) > 0 /\ session'[h] = history[Len(log)]
<1>1. LogInv /\ [Next]_vars => [A]_vars
  <2> SUFFICES ASSUME LogInv, [Next]_vars,
                      NEW h \in Handles, session[h] = None, session'[h] # None
               PROVE  Len(log) > 0 /\ session'[h] = history[Len(log)]
    BY DEF Open
  <2>0. TypeOK /\ call \in Call /\ session \in [Handles -> DurableTaskState \cup {None}]
    BY DEF LogInv, TypeOK
  <2>1. CASE Publish
    <3>1. session' = [session EXCEPT ![call.handle] = call.next] /\ call.pc = "publish"
      BY <2>1 DEF Publish
    <3>2. session'[h] = call.next
      BY <2>0, <3>1
    <3>3. IsDurable(call.next) /\ call.next.last_event_sequence = Len(log)
      BY <3>1 DEF LogInv, CallIsConsistent
    <3> QED BY <3>2, <3>3 DEF IsDurable
  <2>2. CASE FinishResume
    <3>1. /\ session' = session
                \/ session' = [session EXCEPT ![call.handle] = call.state]
          /\ call.pc = "replay" /\ Replayed = Len(log)
      BY <2>2 DEF FinishResume
    <3>2. session'[h] = call.state /\ call.state # None
      BY <2>0, <3>1
    <3>3. IsDurable(call.state) /\ call.state.last_event_sequence = Len(log)
      BY <3>1, <3>2 DEF LogInv, CallIsConsistent, Replayed
    <3> QED BY <3>2, <3>3 DEF IsDurable
  <2>3. CASE Crash
    BY <2>3 DEF Crash
  <2>4. CallBegins => session' = session
    BY ZenonT(30) DEF CallBegins, Create, Record, Complete, SaveCheckpoint, Resume
  <2>5. SaveReceipt \/ AppendEvent \/ AppendRefused \/ ReplayEvent \/ CreateFails
            \/ CallFails \/ AppendInterrupted \/ UNCHANGED vars => session' = session
    BY DEF SaveReceipt, AppendEvent, AppendRefused, ReplayEvent, CreateFails,
       CallFails, AppendInterrupted, vars
  <2> QED BY <2>1, <2>2, <2>3, <2>4, <2>5 DEF Next, CallStep, Fault
<1> QED BY <1>1, LogInvariant, PTL DEF Spec, OpensUpToDate

------------------------------------------------------------------------------
(* The durable session implements the task board: through the state after  *)
(* the last event of the log, every step of the session is one step of the *)
(* board or none.  Faults, stale sessions, checkpoints and resumes are     *)
(* steps that leave the log alone; an append is the step its event names.  *)

(* A valid plan is valid on the board.                                     *)
LEMMA SameValidPlans ==
    ASSUME NEW g, ValidPlan(g) PROVE Board!ValidPlan(g)
BY DEF ValidPlan, DependenciesKnown, Acyclic, Deadlocked,
   Board!ValidPlan, Board!DependenciesKnown, Board!Acyclic, Board!Deadlocked

(* An empty log is an empty board.                                         *)
LEMMA InitOnBoard == Init => Board!Init
<1> SUFFICES ASSUME Init PROVE Board!Init
  OBVIOUS
<1>1. BoardPlan = NoPlan
  BY DEF Init, BoardPlan
<1>2. DependenciesOf(NoPlan) = Board!NoGraph
  BY DEF DependenciesOf, NoPlan, Board!NoGraph
<1>3. NodesWith(NoPlan, "running") = {} /\ NodesWith(NoPlan, "completed") = {}
  BY DEF NodesWith, NoPlan
<1> QED BY <1>1, <1>2, <1>3 DEF Board!Init

(* Every step is a step of the board, or none.                             *)
LEMMA StepOnBoard == LogInv /\ [Next]_vars => [Board!Next]_(Board!vars)
<1> SUFFICES ASSUME LogInv, [Next]_vars PROVE [Board!Next]_(Board!vars)
  OBVIOUS
<1>0. /\ TypeOK /\ log \in Seq(DomainEvent) /\ history \in Seq(DurableTaskState)
      /\ Len(history) = Len(log) /\ Len(log) \in Nat
  BY DEF LogInv, TypeOK
<1>1. CASE BoardPlan' = BoardPlan
  BY <1>1 DEF Board!vars
<1>2. CASE UNCHANGED <<log, history>>
  BY <1>1, <1>2 DEF BoardPlan
<1>3. CASE AppendsOfCall
  <2> DEFINE k == Len(log)
             e == call.event
             next == call.next
  <2>1. LogInv'
    BY NextLogInv
  <2>2. e \in DomainEvent /\ next \in DurableTaskState
    BY <1>0, <1>3, CallFields DEF AppendsOfCall, TypeOK
  <2>3. /\ Len(log') = k + 1 /\ log'[k + 1] = e
        /\ Len(history') = k + 1 /\ history'[k + 1] = next
        /\ k > 0 => history'[k] = history[k]
    BY <1>0, <1>3, <2>2 DEF AppendsOfCall
  <2>4. BoardPlan' = next.plan
    BY <2>3, <1>0 DEF BoardPlan
  <2>5. /\ k + 1 = 1 => CanInitialize(log'[k + 1])
                            /\ history'[k + 1] = InitialState(log'[k + 1])
        /\ k + 1 > 1 => CanReduce(history'[(k + 1) - 1], log'[k + 1])
                /\ history'[k + 1] = Reduce(history'[(k + 1) - 1], log'[k + 1])
    <3>1. HistoryFollowsLog'
      BY <2>1 DEF LogInv
    <3>2. k + 1 \in 1..Len(log')
      BY <1>0, <2>3
    <3> HIDE DEF k, e, next
    <3> QED BY <3>1, <3>2 DEF HistoryFollowsLog
  <2> HIDE DEF k, e, next
  <2>6. CASE k = 0
    <3>1. BoardPlan = NoPlan
      BY <1>0, <2>6 DEF BoardPlan, k
    <3>2. next.plan = NoPlan
      BY <2>2, <2>3, <2>5, <2>6, InitialStateType
    <3> QED BY <1>1, <2>4, <3>1, <3>2
  <2>7. CASE k > 0
    <3> DEFINE s == history[k]
    <3>1. s \in DurableTaskState /\ SoundState(s)
      BY <1>0, <2>7, HistoryIsSound DEF k
    <3>2. BoardPlan = s.plan
      BY <1>0, <2>7 DEF BoardPlan, k
    <3>3. (k + 1) - 1 = k /\ k + 1 > 1
      BY <1>0, <2>7 DEF k
    <3>4. CanReduce(s, e) /\ next = Reduce(s, e)
      BY <2>3, <2>5, <2>7, <3>3
    <3> HIDE DEF s
    <3> DEFINE g == DependenciesOf(BoardPlan)
               R == NodesWith(BoardPlan, "running")
               D == NodesWith(BoardPlan, "completed")
    <3>5. BoardStep(g, R, D, g', R', D')
      <4>1. /\ g = DependenciesOf(s.plan)
            /\ R = NodesWith(s.plan, "running") /\ D = NodesWith(s.plan, "completed")
        BY <3>2
      <4>2. /\ g' = DependenciesOf(Reduce(s, e).plan)
            /\ R' = NodesWith(Reduce(s, e).plan, "running")
            /\ D' = NodesWith(Reduce(s, e).plan, "completed")
        BY <2>4, <3>4 DEF DependenciesOf, NodesWith
      <4> HIDE DEF g, R, D
      <4> QED BY <2>2, <3>1, <3>4, <4>1, <4>2, ReduceOnBoard
    <3>6. CASE g' = g /\ R' = R /\ D' = D
      BY <3>6 DEF Board!vars
    <3>7. CASE /\ DOMAIN g = {} /\ ValidPlan(g')
               /\ \E N \in SUBSET NodeIds : g' \in [N -> SUBSET NodeIds]
               /\ R' = R /\ D' = D
      <4>1. g' \in Board!Graphs
        BY <3>7 DEF Board!Graphs
      <4>2. Board!ValidPlan(g')
        BY <3>7, SameValidPlans
      <4>3. Board!Accept
        BY <3>7, <4>1, <4>2 DEF Board!Accept
      <4> QED BY <4>3 DEF Board!Next
    <3>8. CASE \E n \in NodeIds :
                   /\ R = {} /\ n \in DOMAIN g \ D /\ g[n] \subseteq D
                   /\ R' = {n} /\ g' = g /\ D' = D
      BY <3>8 DEF Board!Start, Board!Next
    <3>9. CASE \E n \in NodeIds : n \in R /\ R' = {} /\ D' = D \cup {n} /\ g' = g
      BY <3>9 DEF Board!Finish, Board!Next
    <3> QED BY <3>5, <3>6, <3>7, <3>8, <3>9 DEF BoardStep
  <2> QED BY <1>0, <2>6, <2>7 DEF k
<1> QED BY <1>0, <1>2, <1>3, StepExtendsLog

(* For any number of sessions, events and crashes, whoever looks at the    *)
(* log sees a task board.                                                  *)
THEOREM SessionImplementsTaskBoard == Spec => ImplementsTaskBoard
<1>1. Board!Spec <=> Board!Init /\ [][Board!Next]_(Board!vars)
  BY DEF Board!Spec
<1> QED BY <1>1, InitOnBoard, StepOnBoard, LogInvariant, PTL
        DEF Spec, ImplementsTaskBoard
==============================================================================
