------------------------- MODULE DurableSessionProofs -------------------------
(***************************************************************************)
(* The durable task session keeps what it promises for any number of       *)
(* session objects, plans, receipts and events.                            *)
(*                                                                         *)
(* First, what the reducer preserves, for every state and every event; the *)
(* rest uses it one log entry at a time.                                   *)
(*                                                                         *)
(* The auxiliary variable history holds the state after each event.  The   *)
(* inductive invariant says how it follows the log, that every state in    *)
(* use (published, saved in a checkpoint, on its way to being published,   *)
(* being replayed) is the one history has under its own number, and that   *)
(* the event of a call in progress is the next step of its session.  The   *)
(* check of the sequence number in append then makes it the next step of   *)
(* the log, too.                                                           *)
(***************************************************************************)
EXTENDS DurableSession, CommonLemmas

EventTypes ==
    {"task_created", "plan_accepted", "task_node_started", "task_node_completed",
     "blocker_added", "blocker_resolved", "next_action_set"}

(* The fields of a payload, by its type.                                   *)
LEMMA PayloadFields ==
    ASSUME NEW d \in Payload
    PROVE  /\ d.type \in EventTypes
           /\ d.type = "task_created" => d.task \in TaskIds
           /\ d.type = "plan_accepted" => d.plan \in PlanSpec
           /\ d.type = "task_node_started" => d.node \in NodeIds
           /\ d.type = "task_node_completed" =>
                  d.node \in NodeIds /\ d.evidence \in SUBSET ReceiptIds
           /\ d.type = "blocker_added" => d.blocker \in BlockerIds
           /\ d.type = "blocker_resolved" => d.blocker \in BlockerIds
           /\ d.type = "next_action_set" => d.action \in NextActions
BY DEF Payload, EventTypes, Created, PlanAccepted, NodeStarted, NodeCompleted,
       BlockerAdded, BlockerResolved, NextActionSet

(* The fields of a task state.                                             *)
LEMMA StateFields ==
    ASSUME NEW s \in DurableTaskState
    PROVE  /\ s.task \in TaskIds
           /\ s.plan \in PlanProgress
           /\ s.current \in NodeIds \cup {None}
           /\ s.blockers \in SUBSET BlockerIds
           /\ s.next_action \in NextActions \cup {None}
           /\ s.last_event_sequence \in Nat
BY DEF DurableTaskState

(* The plan of a state is a function from some node ids to task nodes.     *)
LEMMA PlanIsFunction ==
    ASSUME NEW p \in PlanProgress
    PROVE  DOMAIN p \in SUBSET NodeIds /\ p \in [DOMAIN p -> TaskNode]
BY DEF PlanProgress

(* A plan is any function from nodes.                                      *)
LEMMA FunctionIsPlan ==
    ASSUME NEW D \in SUBSET NodeIds, NEW p \in [D -> TaskNode]
    PROVE  p \in PlanProgress
BY DEF PlanProgress

(* The state that the first event makes.                                   *)
LEMMA InitialStateType ==
    ASSUME NEW e \in DomainEvent, CanInitialize(e)
    PROVE  /\ InitialState(e) \in DurableTaskState
           /\ InitialState(e).last_event_sequence = e.sequence
           /\ InitialState(e).plan = NoPlan
           /\ InitialState(e).current = None
<1>1. e.data.task \in TaskIds /\ e.sequence \in Nat
  BY PayloadFields DEF CanInitialize, DomainEvent
<1>2. NoPlan \in [{} -> TaskNode]
  BY DEF NoPlan
<1>3. NoPlan \in PlanProgress
  BY <1>2, FunctionIsPlan
<1> QED BY <1>1, <1>3 DEF InitialState, DurableTaskState

NodesOfPlan(spec) ==
    [n \in DOMAIN spec |->
        [dependencies |-> spec[n].dependencies, criteria |-> spec[n].criteria,
         status |-> "pending", evidence |-> {}]]

StartedPlan(plan, n) == [plan EXCEPT ![n].status = "running"]

CompletedPlan(plan, n, ids) ==
    [plan EXCEPT ![n].status = "completed", ![n].evidence = ids]

(* A plan that was set is one of nodes.                                    *)
LEMMA NodesOfPlanType ==
    ASSUME NEW spec \in PlanSpec
    PROVE  NodesOfPlan(spec) \in PlanProgress
<1>1. PICK D \in SUBSET NodeIds : spec \in [D -> NodeSpec]
  BY DEF PlanSpec
<1>2. NodesOfPlan(spec) \in [D -> TaskNode]
  BY <1>1 DEF NodesOfPlan, NodeSpec, TaskNode, TaskNodeStatus
<1> QED BY <1>2, FunctionIsPlan

(* ... also after a node was started,                                      *)
LEMMA StartedPlanType ==
    ASSUME NEW plan \in PlanProgress, NEW n \in DOMAIN plan
    PROVE  StartedPlan(plan, n) \in PlanProgress
<1>1. StartedPlan(plan, n) \in [DOMAIN plan -> TaskNode]
  BY PlanIsFunction DEF StartedPlan, TaskNode, TaskNodeStatus
<1> QED BY <1>1, FunctionIsPlan, PlanIsFunction

(* ... and after one was completed.                                        *)
LEMMA CompletedPlanType ==
    ASSUME NEW plan \in PlanProgress, NEW n \in DOMAIN plan,
           NEW ids \in SUBSET ReceiptIds
    PROVE  CompletedPlan(plan, n, ids) \in PlanProgress
<1> DEFINE p == [plan EXCEPT ![n].status = "completed"]
<1>1. p \in [DOMAIN plan -> TaskNode]
  BY PlanIsFunction DEF TaskNode, TaskNodeStatus
<1>2. CompletedPlan(plan, n, ids) = [p EXCEPT ![n].evidence = ids]
  BY DEF CompletedPlan
<1> HIDE DEF p
<1>3. CompletedPlan(plan, n, ids) \in [DOMAIN plan -> TaskNode]
  BY <1>1, <1>2 DEF TaskNode
<1> QED BY <1>3, FunctionIsPlan, PlanIsFunction

(* What a step of the reducer does to the plan and to the current node.    *)
Progress(s, e, r) ==
    LET d == e.data
    IN  /\ d.type = "plan_accepted" =>
               r.plan = NodesOfPlan(d.plan) /\ r.current = s.current
        /\ d.type = "task_node_started" =>
               r.plan = StartedPlan(s.plan, d.node) /\ r.current = d.node
        /\ d.type = "task_node_completed" =>
               r.plan = CompletedPlan(s.plan, d.node, d.evidence) /\ r.current = None
        /\ d.type \in {"blocker_added", "blocker_resolved", "next_action_set"} =>
               r.plan = s.plan /\ r.current = s.current

(* The reducer keeps to the types, continues the numbering and never       *)
(* changes which task it works on.                                         *)
THEOREM ReduceType ==
    ASSUME NEW s \in DurableTaskState, NEW e \in DomainEvent, CanReduce(s, e)
    PROVE  /\ Reduce(s, e) \in DurableTaskState
           /\ Reduce(s, e).last_event_sequence = e.sequence
           /\ Reduce(s, e).task = s.task
           /\ Progress(s, e, Reduce(s, e))
<1>0. e.sequence \in Nat /\ e.data \in Payload
  BY DEF DomainEvent
<1>1. CASE e.data.type = "plan_accepted"
  <2>1. NodesOfPlan(e.data.plan) \in PlanProgress
    BY <1>0, <1>1, PayloadFields, NodesOfPlanType
  <2>2. Reduce(s, e) = [[s EXCEPT !.plan = NodesOfPlan(e.data.plan)]
                           EXCEPT !.last_event_sequence = e.sequence]
    BY <1>1 DEF Reduce, AcceptPlan, NodesOfPlan
  <2> QED BY <1>0, <1>1, <2>1, <2>2 DEF DurableTaskState, Progress
<1>2. CASE e.data.type = "task_node_started"
  <2>1. e.data.node \in DOMAIN s.plan /\ e.data.node \in NodeIds
    BY <1>0, <1>2, PayloadFields DEF CanReduce, CanStartNode
  <2>2. StartedPlan(s.plan, e.data.node) \in PlanProgress
    BY <2>1, StateFields, StartedPlanType
  <2>3. Reduce(s, e) = [[s EXCEPT !.plan[e.data.node].status = "running",
                                  !.current = e.data.node]
                           EXCEPT !.last_event_sequence = e.sequence]
    BY <1>2 DEF Reduce, StartNode
  <2>4. Reduce(s, e) = [[s EXCEPT !.plan = StartedPlan(s.plan, e.data.node),
                                  !.current = e.data.node]
                           EXCEPT !.last_event_sequence = e.sequence]
    BY <2>3 DEF StartedPlan, DurableTaskState
  <2> QED BY <1>0, <1>2, <2>1, <2>2, <2>4 DEF DurableTaskState, Progress
<1>3. CASE e.data.type = "task_node_completed"
  <2>1. e.data.node \in DOMAIN s.plan /\ e.data.evidence \in SUBSET ReceiptIds
    BY <1>0, <1>3, PayloadFields DEF CanReduce
  <2>2. CompletedPlan(s.plan, e.data.node, e.data.evidence) \in PlanProgress
    BY <2>1, StateFields, CompletedPlanType
  <2>3. Reduce(s, e) = [[s EXCEPT !.plan[e.data.node].status = "completed",
                                  !.plan[e.data.node].evidence = e.data.evidence,
                                  !.current = None, !.next_action = None]
                           EXCEPT !.last_event_sequence = e.sequence]
    BY <1>3 DEF Reduce, CompleteNode
  <2>4. Reduce(s, e) =
            [[s EXCEPT !.plan = CompletedPlan(s.plan, e.data.node, e.data.evidence),
                       !.current = None, !.next_action = None]
                EXCEPT !.last_event_sequence = e.sequence]
    BY <2>3 DEF CompletedPlan, DurableTaskState
  <2> QED BY <1>0, <1>3, <2>2, <2>4 DEF DurableTaskState, Progress
<1>4. CASE e.data.type = "blocker_added"
  <2>1. Reduce(s, e) = [[s EXCEPT !.blockers = @ \cup {e.data.blocker}]
                           EXCEPT !.last_event_sequence = e.sequence]
    BY <1>4 DEF Reduce
  <2>2. s.blockers \cup {e.data.blocker} \in SUBSET BlockerIds
    BY <1>0, <1>4, PayloadFields, StateFields
  <2> QED BY <1>0, <1>4, <2>1, <2>2 DEF DurableTaskState, Progress
<1>5. CASE e.data.type = "blocker_resolved"
  <2>1. Reduce(s, e) = [[s EXCEPT !.blockers = @ \ {e.data.blocker}]
                           EXCEPT !.last_event_sequence = e.sequence]
    BY <1>5 DEF Reduce
  <2> QED BY <1>0, <1>5, <2>1 DEF DurableTaskState, Progress
<1>6. CASE e.data.type = "next_action_set"
  <2>1. Reduce(s, e) = [[s EXCEPT !.next_action = e.data.action]
                           EXCEPT !.last_event_sequence = e.sequence]
    BY <1>6 DEF Reduce
  <2>2. e.data.action \in NextActions
    BY <1>0, <1>6, PayloadFields
  <2> QED BY <1>0, <1>6, <2>1, <2>2 DEF DurableTaskState, Progress
<1> QED BY <1>1, <1>2, <1>3, <1>4, <1>5, <1>6 DEF CanReduce

------------------------------------------------------------------------------
(* The plan after a step, node by node.                                    *)

(* A plan that was set has all nodes pending.                              *)
LEMMA NodesOfPlanNodes ==
    ASSUME NEW spec \in PlanSpec
    PROVE  /\ DOMAIN NodesOfPlan(spec) = DOMAIN spec
           /\ \A m \in DOMAIN spec :
                  /\ NodesOfPlan(spec)[m].status = "pending"
                  /\ NodesOfPlan(spec)[m].evidence = {}
           /\ DependenciesOf(NodesOfPlan(spec)) = DependenciesOf(spec)
BY DEF NodesOfPlan, DependenciesOf

(* Starting a node changes its status alone.                               *)
LEMMA StartedPlanNodes ==
    ASSUME NEW plan \in PlanProgress, NEW n \in DOMAIN plan
    PROVE  /\ DOMAIN StartedPlan(plan, n) = DOMAIN plan
           /\ \A m \in DOMAIN plan :
                  /\ StartedPlan(plan, n)[m].status =
                         IF m = n THEN "running" ELSE plan[m].status
                  /\ StartedPlan(plan, n)[m].evidence = plan[m].evidence
                  /\ StartedPlan(plan, n)[m].criteria = plan[m].criteria
                  /\ StartedPlan(plan, n)[m].dependencies = plan[m].dependencies
BY PlanIsFunction DEF StartedPlan, TaskNode

(* Completing a node changes its status and its evidence alone.            *)
LEMMA CompletedPlanNodes ==
    ASSUME NEW plan \in PlanProgress, NEW n \in DOMAIN plan,
           NEW ids \in SUBSET ReceiptIds
    PROVE  /\ DOMAIN CompletedPlan(plan, n, ids) = DOMAIN plan
           /\ \A m \in DOMAIN plan :
                  /\ CompletedPlan(plan, n, ids)[m].status =
                         IF m = n THEN "completed" ELSE plan[m].status
                  /\ CompletedPlan(plan, n, ids)[m].evidence =
                         IF m = n THEN ids ELSE plan[m].evidence
                  /\ CompletedPlan(plan, n, ids)[m].criteria = plan[m].criteria
                  /\ CompletedPlan(plan, n, ids)[m].dependencies =
                         plan[m].dependencies
<1> DEFINE p == [plan EXCEPT ![n].status = "completed"]
<1>1. p \in [DOMAIN plan -> TaskNode]
  BY PlanIsFunction DEF TaskNode, TaskNodeStatus
<1>2. \A m \in DOMAIN plan :
          /\ p[m].status = IF m = n THEN "completed" ELSE plan[m].status
          /\ p[m].evidence = plan[m].evidence
          /\ p[m].criteria = plan[m].criteria
          /\ p[m].dependencies = plan[m].dependencies
  BY PlanIsFunction DEF TaskNode
<1>3. CompletedPlan(plan, n, ids) = [p EXCEPT ![n].evidence = ids]
  BY DEF CompletedPlan
<1> HIDE DEF p
<1>4. /\ DOMAIN CompletedPlan(plan, n, ids) = DOMAIN plan
      /\ \A m \in DOMAIN plan :
             /\ CompletedPlan(plan, n, ids)[m].status = p[m].status
             /\ CompletedPlan(plan, n, ids)[m].evidence =
                    IF m = n THEN ids ELSE p[m].evidence
             /\ CompletedPlan(plan, n, ids)[m].criteria = p[m].criteria
             /\ CompletedPlan(plan, n, ids)[m].dependencies = p[m].dependencies
  BY <1>1, <1>3 DEF TaskNode
<1> QED BY <1>2, <1>4

(* What a state needs for the next step to keep it sound.                  *)
SoundState(s) == Deserializable(s) /\ DependenciesFirst(s)

(* A task begins in a sound state.                                         *)
LEMMA InitialStateSound ==
    ASSUME NEW e \in DomainEvent, CanInitialize(e)
    PROVE  SoundState(InitialState(e))
<1>1. DOMAIN InitialState(e).plan = {}
  BY InitialStateType DEF NoPlan
<1>2. InitialState(e).last_event_sequence = 1
  BY InitialStateType DEF CanInitialize
<1>3. InitialState(e).current = None
  BY InitialStateType
<1> QED BY <1>1, <1>2, <1>3
        DEF SoundState, Deserializable, DependenciesFirst, NodesWith

(* Whatever the reducer returns can be written to a checkpoint and loaded  *)
(* again, and no node of it is ahead of its dependencies.                  *)
THEOREM ReduceSound ==
    ASSUME NEW s \in DurableTaskState, NEW e \in DomainEvent, CanReduce(s, e),
           SoundState(s)
    PROVE  SoundState(Reduce(s, e))
<1> DEFINE r == Reduce(s, e)
<1>0. /\ r \in DurableTaskState
      /\ r.last_event_sequence = e.sequence
      /\ Progress(s, e, r)
      /\ e.data \in Payload
  BY ReduceType DEF DomainEvent
<1>1. r.last_event_sequence > 0
  BY <1>0, StateFields DEF CanReduce, SoundState, Deserializable
<1> HIDE DEF r
<1>2. CASE e.data.type = "plan_accepted"
  <2>1. /\ r.plan = NodesOfPlan(e.data.plan)
        /\ r.current = s.current
        /\ e.data.plan \in PlanSpec
        /\ DOMAIN s.plan = {}
        /\ ValidPlan(DependenciesOf(e.data.plan))
    BY <1>0, <1>2, PayloadFields DEF Progress, CanReduce
  <2>2. ValidPlan(DependenciesOf(r.plan))
    BY <2>1, NodesOfPlanNodes
  <2>3. NodesWith(r.plan, "running") = {} /\ NodesWith(s.plan, "running") = {}
    BY <2>1, NodesOfPlanNodes DEF NodesWith
  <2>4. DependenciesFirst(r)
    BY <2>1, NodesOfPlanNodes DEF DependenciesFirst
  <2> QED BY <1>1, <2>1, <2>2, <2>3, <2>4 DEF SoundState, Deserializable, r
<1>3. CASE e.data.type = "task_node_started"
  <2> DEFINE n == e.data.node
  <2>1. /\ r.plan = StartedPlan(s.plan, n)
        /\ r.current = n
        /\ CanStartNode(s, n)
        /\ n \in NodeIds /\ n # None
        /\ s.plan \in PlanProgress
    BY <1>0, <1>3, PayloadFields, StateFields, NoneAssumption DEF Progress, CanReduce
  <2> HIDE DEF n
  <2>2. DependenciesOf(r.plan) = DependenciesOf(s.plan) /\ DOMAIN r.plan = DOMAIN s.plan
    BY <2>1, StartedPlanNodes DEF CanStartNode, DependenciesOf
  <2>3. NodesWith(s.plan, "running") = {}
    BY <2>1 DEF SoundState, Deserializable, CanStartNode
  <2>4. NodesWith(r.plan, "running") = {n}
    BY <2>1, <2>2, <2>3, StartedPlanNodes DEF NodesWith, CanStartNode
  <2>5. NodesWith(r.plan, "completed") = NodesWith(s.plan, "completed")
    BY <2>1, <2>2, StartedPlanNodes DEF NodesWith, CanStartNode
  <2>6. DependenciesFirst(r)
    BY <2>1, <2>2, <2>5, StartedPlanNodes
       DEF DependenciesFirst, CanStartNode, SoundState
  <2> QED BY <1>1, <2>1, <2>2, <2>4, <2>6 DEF SoundState, Deserializable, r
<1>4. CASE e.data.type = "task_node_completed"
  <2> DEFINE n == e.data.node
             ids == e.data.evidence
  <2>1. /\ r.plan = CompletedPlan(s.plan, n, ids)
        /\ r.current = None
        /\ n \in DOMAIN s.plan /\ s.current = n /\ s.plan[n].status = "running"
        /\ ids \in SUBSET ReceiptIds
        /\ s.plan \in PlanProgress
    BY <1>0, <1>4, PayloadFields, StateFields DEF Progress, CanReduce
  <2> HIDE DEF n, ids
  <2>2. DependenciesOf(r.plan) = DependenciesOf(s.plan) /\ DOMAIN r.plan = DOMAIN s.plan
    BY <2>1, CompletedPlanNodes DEF DependenciesOf
  <2>3. NodesWith(s.plan, "running") \subseteq {n}
    BY <2>1 DEF SoundState, Deserializable
  <2>4. NodesWith(r.plan, "running") = {}
    BY <2>1, <2>2, <2>3, CompletedPlanNodes DEF NodesWith
  <2>5. NodesWith(s.plan, "completed") \subseteq NodesWith(r.plan, "completed")
    BY <2>1, <2>2, CompletedPlanNodes DEF NodesWith
  <2>6. DependenciesFirst(r)
    BY <2>1, <2>2, <2>5, CompletedPlanNodes DEF DependenciesFirst, SoundState
  <2> QED BY <1>1, <2>1, <2>2, <2>4, <2>6 DEF SoundState, Deserializable, r
<1>5. CASE e.data.type \in {"blocker_added", "blocker_resolved", "next_action_set"}
  <2>1. r.plan = s.plan /\ r.current = s.current
    BY <1>0, <1>5 DEF Progress
  <2> QED BY <1>1, <2>1 DEF SoundState, Deserializable, DependenciesFirst, r
<1> QED BY <1>2, <1>3, <1>4, <1>5 DEF CanReduce

(* What may happen on a task board (module TaskBoard) whose plan has the   *)
(* dependencies g, where R runs and D is done: nothing, or one of the three *)
(* steps.                                                                  *)
BoardStep(g, R, D, g1, R1, D1) ==
    \/ g1 = g /\ R1 = R /\ D1 = D
    \/ /\ DOMAIN g = {} /\ ValidPlan(g1)
       /\ \E N \in SUBSET NodeIds : g1 \in [N -> SUBSET NodeIds]
       /\ R1 = R /\ D1 = D
    \/ \E n \in NodeIds : /\ R = {} /\ n \in DOMAIN g \ D /\ g[n] \subseteq D
                         /\ R1 = {n} /\ g1 = g /\ D1 = D
    \/ \E n \in NodeIds : /\ n \in R
                         /\ R1 = {} /\ D1 = D \cup {n} /\ g1 = g

(* A step of the reducer, seen as the dependencies of the plan and the     *)
(* nodes running and completed, is a step of a task board or none.         *)
THEOREM ReduceOnBoard ==
    ASSUME NEW s \in DurableTaskState, NEW e \in DomainEvent, CanReduce(s, e),
           SoundState(s)
    PROVE  BoardStep(DependenciesOf(s.plan), NodesWith(s.plan, "running"),
                     NodesWith(s.plan, "completed"),
                     DependenciesOf(Reduce(s, e).plan),
                     NodesWith(Reduce(s, e).plan, "running"),
                     NodesWith(Reduce(s, e).plan, "completed"))
<1> DEFINE g == DependenciesOf(s.plan)
           R == NodesWith(s.plan, "running")
           D == NodesWith(s.plan, "completed")
           g1 == DependenciesOf(Reduce(s, e).plan)
           R1 == NodesWith(Reduce(s, e).plan, "running")
           D1 == NodesWith(Reduce(s, e).plan, "completed")
<1> SUFFICES BoardStep(g, R, D, g1, R1, D1)
  OBVIOUS
<1> DEFINE r == Reduce(s, e)
<1>0. /\ r \in DurableTaskState /\ Progress(s, e, r)
      /\ e.data \in Payload /\ s.plan \in PlanProgress
  BY ReduceType, StateFields DEF DomainEvent
<1>1. R = {s.current} \ {None}
  BY DEF SoundState, Deserializable
<1> HIDE DEF r
<1>2. CASE e.data.type = "plan_accepted"
  <2>1. /\ r.plan = NodesOfPlan(e.data.plan)
        /\ e.data.plan \in PlanSpec
        /\ DOMAIN s.plan = {}
        /\ ValidPlan(DependenciesOf(e.data.plan))
    BY <1>0, <1>2, PayloadFields DEF Progress, CanReduce
  <2>2. g1 = DependenciesOf(e.data.plan)
    BY <2>1, NodesOfPlanNodes DEF r
  <2>3. PICK N \in SUBSET NodeIds : e.data.plan \in [N -> NodeSpec]
    BY <2>1 DEF PlanSpec
  <2>4. g1 \in [N -> SUBSET NodeIds]
    BY <2>2, <2>3 DEF DependenciesOf, NodeSpec
  <2>5. R = {} /\ D = {} /\ DOMAIN g = {}
    BY <2>1 DEF NodesWith, DependenciesOf
  <2>6. NodesWith(r.plan, "running") = {} /\ NodesWith(r.plan, "completed") = {}
    BY <2>1, NodesOfPlanNodes DEF NodesWith
  <2> QED BY <2>1, <2>2, <2>4, <2>5, <2>6 DEF r, BoardStep
<1>3. CASE e.data.type = "task_node_started"
  <2> DEFINE n == e.data.node
  <2>1. /\ r.plan = StartedPlan(s.plan, n)
        /\ CanStartNode(s, n) /\ n \in NodeIds /\ n \in DOMAIN s.plan
    BY <1>0, <1>3, PayloadFields DEF Progress, CanReduce, CanStartNode
  <2> HIDE DEF n
  <2>2. R = {} /\ n \in DOMAIN g \ D /\ g[n] \subseteq D
    BY <1>1, <2>1 DEF CanStartNode, NodesWith, DependenciesOf
  <2>3. /\ DOMAIN r.plan = DOMAIN s.plan
        /\ \A m \in DOMAIN s.plan :
               /\ r.plan[m].status = IF m = n THEN "running" ELSE s.plan[m].status
               /\ r.plan[m].dependencies = s.plan[m].dependencies
    BY <1>0, <2>1, StartedPlanNodes
  <2>4. DependenciesOf(r.plan) = g
    BY <2>3 DEF DependenciesOf
  <2>5. NodesWith(r.plan, "completed") = D
    BY <2>1, <2>3 DEF NodesWith, CanStartNode
  <2>6. NodesWith(r.plan, "running") = {n}
    BY <2>1, <2>2, <2>3 DEF NodesWith
  <2> QED BY <2>1, <2>2, <2>4, <2>5, <2>6 DEF r, BoardStep
<1>4. CASE e.data.type = "task_node_completed"
  <2> DEFINE n == e.data.node
             ids == e.data.evidence
  <2>1. /\ r.plan = CompletedPlan(s.plan, n, ids)
        /\ n \in DOMAIN s.plan /\ s.current = n /\ s.plan[n].status = "running"
        /\ n \in NodeIds /\ ids \in SUBSET ReceiptIds
    BY <1>0, <1>4, PayloadFields DEF Progress, CanReduce
  <2> HIDE DEF n, ids
  <2>2. n \in R /\ R \subseteq {n}
    BY <1>1, <2>1 DEF NodesWith
  <2>3. /\ DOMAIN r.plan = DOMAIN s.plan
        /\ \A m \in DOMAIN s.plan :
               /\ r.plan[m].status = IF m = n THEN "completed" ELSE s.plan[m].status
               /\ r.plan[m].dependencies = s.plan[m].dependencies
    BY <1>0, <2>1, CompletedPlanNodes
  <2>4. DependenciesOf(r.plan) = g
    BY <2>3 DEF DependenciesOf
  <2>5. NodesWith(r.plan, "completed") = D \cup {n}
    BY <2>1, <2>3 DEF NodesWith
  <2>6. NodesWith(r.plan, "running") = {}
    BY <2>2, <2>3 DEF NodesWith
  <2> QED BY <2>1, <2>2, <2>4, <2>5, <2>6 DEF r, BoardStep
<1>5. CASE e.data.type \in {"blocker_added", "blocker_resolved", "next_action_set"}
  BY <1>0, <1>5 DEF Progress, r, BoardStep
<1> QED BY <1>2, <1>3, <1>4, <1>5 DEF CanReduce

------------------------------------------------------------------------------
(* How the history follows the log, and the states in use the history.     *)

Follows(e, next) ==
    \/ CanInitialize(e) /\ next = InitialState(e)
    \/ /\ session[call.handle] # None
       /\ CanReduce(session[call.handle], e)
       /\ next = Reduce(session[call.handle], e)

HistoryFollowsLog ==
    \A i \in 1..Len(log) :
        /\ history[i].last_event_sequence = i
        /\ SoundState(history[i])
        /\ i = 1 => CanInitialize(log[i]) /\ history[i] = InitialState(log[i])
        /\ i > 1 => CanReduce(history[i - 1], log[i])
                        /\ history[i] = Reduce(history[i - 1], log[i])

CallIsConsistent ==
    /\ call.pc = "append" =>
            /\ Follows(call.event, call.next)
            /\ call.next.last_event_sequence = call.event.sequence
    /\ call.pc = "publish" =>
            IsDurable(call.next) /\ call.next.last_event_sequence = Len(log)
    /\ call.pc = "replay" =>
            IF call.state = None THEN log # <<>> ELSE IsDurable(call.state)

LogInv ==
    /\ TypeOK
    /\ EventsAreNumbered
    /\ HistoryFollowsLog
    /\ PublishedIsDurable
    /\ CheckpointIsDurable
    /\ CallIsConsistent

------------------------------------------------------------------------------
(* The types.                                                              *)

(* The fields of a call, as far as it has gone.                            *)
LEMMA CallFields ==
    ASSUME call \in Call
    PROVE  /\ call.pc \in {"idle", "append", "publish", "replay"}
           /\ call.pc \in {"append", "publish"} =>
                  /\ call.handle \in Handles
                  /\ call.event \in DomainEvent
                  /\ call.next \in DurableTaskState
                  /\ call.queue \in Seq(Receipts)
           /\ call.pc = "replay" =>
                  /\ call.handle \in Handles
                  /\ call.task \in TaskIds
                  /\ call.state \in DurableTaskState \cup {None}
           /\ call.pc = "idle" => call = Idle
BY DEF Call, Idle

(* No call is one of the calls.                                            *)
LEMMA IdleType == Idle \in Call /\ Idle.pc = "idle"
BY DEF Idle, Call

(* A call that has an event to append.                                     *)
LEMMA WritingType ==
    ASSUME NEW h \in Handles, NEW e \in DomainEvent, NEW s \in DurableTaskState,
           NEW q \in Seq(Receipts)
    PROVE  /\ Writing(h, e, s, q) \in Call
           /\ Writing(h, e, s, q).pc = "append"
           /\ Writing(h, e, s, q).handle = h
           /\ Writing(h, e, s, q).event = e
           /\ Writing(h, e, s, q).next = s
           /\ Writing(h, e, s, q).queue = q
BY DEF Writing, Call

(* A call that reads the log.                                              *)
LEMMA ReplayingType ==
    ASSUME NEW h \in Handles, NEW t \in TaskIds,
           NEW s \in DurableTaskState \cup {None}
    PROVE  /\ Replaying(h, t, s) \in Call
           /\ Replaying(h, t, s).pc = "replay"
           /\ Replaying(h, t, s).state = s
BY DEF Replaying, Call

(* The events that calls build are events, and those of record never       *)
(* complete a node.                                                        *)
LEMMA RecordableType ==
    ASSUME NEW d \in Recordable
    PROVE  d \in Payload /\ d.type # "task_node_completed"
BY PlansAssumption DEF Recordable, Payload, PlanAccepted, NodeStarted,
   BlockerAdded, BlockerResolved, NextActionSet

(* The event that a handle makes next.                                     *)
LEMMA NextEventType ==
    ASSUME TypeOK, NEW h \in Handles, Open(h), NEW d \in Payload
    PROVE  /\ NextEvent(h, d) \in DomainEvent
           /\ NextEvent(h, d).data = d
           /\ NextEvent(h, d).sequence = session[h].last_event_sequence + 1
<1>1. session[h] \in DurableTaskState
  BY DEF TypeOK, Open
<1> QED BY <1>1, StateFields DEF NextEvent, DomainEvent

(* The event that creates a task.                                          *)
LEMMA CreateEventType ==
    ASSUME NEW t \in TaskIds
    PROVE  LET e == [sequence |-> 1, data |-> Created(t)]
           IN  e \in DomainEvent /\ CanInitialize(e)
BY DEF DomainEvent, Payload, Created, CanInitialize

(* The payload of a completion.                                            *)
LEMMA NodeCompletedType ==
    ASSUME NEW n \in NodeIds, NEW ids \in SUBSET ReceiptIds
    PROVE  /\ NodeCompleted(n, ids) \in Payload
           /\ NodeCompleted(n, ids).type = "task_node_completed"
           /\ NodeCompleted(n, ids).node = n
           /\ NodeCompleted(n, ids).evidence = ids
BY DEF Payload, NodeCompleted

(* The payload of a completion with these receipts.                        *)
LEMMA CompletionType ==
    ASSUME NEW n \in NodeIds, NEW rs \in ReceiptTuples
    PROVE  /\ rs \in Seq(Receipts)
           /\ {rs[i] : i \in DOMAIN rs} \in SUBSET Receipts
           /\ NodeCompleted(n, {r.id : r \in {rs[i] : i \in DOMAIN rs}}) \in Payload
<1>1. rs \in Seq(Receipts)
  BY ReceiptsAssumption
<1>2. {rs[i] : i \in DOMAIN rs} \in SUBSET Receipts
  BY <1>1
<1>3. {r.id : r \in {rs[i] : i \in DOMAIN rs}} \in SUBSET ReceiptIds
  BY <1>2, ReceiptsAssumption DEF ExecutionReceipt
<1> QED BY <1>1, <1>2, <1>3, NodeCompletedType

(* At the start the log is empty and no handle is open.                    *)
LEMMA InitLogInv == Init => LogInv
BY IdleType DEF Init, LogInv, TypeOK, EventsAreNumbered, HistoryFollowsLog,
   PublishedIsDurable, CheckpointIsDurable, CallIsConsistent, Open, Idle

(* The conjuncts of LogInv but the types, and what they speak about.       *)
LEMMA DiskUntouched ==
    ASSUME LogInv, UNCHANGED <<log, history>>
    PROVE  /\ EventsAreNumbered' /\ HistoryFollowsLog'
           /\ \A s : IsDurable(s)' <=> IsDurable(s)
BY DEF LogInv, EventsAreNumbered, HistoryFollowsLog, IsDurable

(* Appending the event of the call, when its number is the next one.       *)
LEMMA AppendKeeps ==
    ASSUME LogInv, call.pc = "append", AppendAllowed,
           log' = Append(log, call.event), history' = Append(history, call.next)
    PROVE  /\ log' \in Seq(DomainEvent)
           /\ history' \in Seq(DurableTaskState)
           /\ Len(history') = Len(log')
           /\ EventsAreNumbered' /\ HistoryFollowsLog'
           /\ \A s : IsDurable(s) => IsDurable(s)'
           /\ \A s : s = call.next =>
                  IsDurable(s)' /\ s.last_event_sequence = Len(log')
<1> DEFINE k == Len(log)
           e == call.event
           next == call.next
<1>1. /\ call.event \in DomainEvent /\ call.next \in DurableTaskState
      /\ call.handle \in Handles
  BY CallFields DEF LogInv, TypeOK
<1>2. /\ log \in Seq(DomainEvent) /\ history \in Seq(DurableTaskState)
      /\ Len(history) = k /\ k \in Nat
  BY DEF LogInv, TypeOK
<1>3. /\ e.sequence = k + 1
      /\ Follows(e, next) /\ next.last_event_sequence = k + 1
  BY DEF AppendAllowed, LogInv, CallIsConsistent
<1>4. /\ log' \in Seq(DomainEvent) /\ history' \in Seq(DurableTaskState)
      /\ Len(log') = k + 1 /\ Len(history') = k + 1
      /\ \A i \in 1..k : log'[i] = log[i] /\ history'[i] = history[i]
      /\ log'[k + 1] = e /\ history'[k + 1] = next
  BY <1>1, <1>2
<1> HIDE DEF k, e, next
<1>5. EventsAreNumbered'
  BY <1>2, <1>3, <1>4 DEF LogInv, EventsAreNumbered, k
<1>6. SoundState(next)
      /\ (k = 0 => CanInitialize(e) /\ next = InitialState(e))
      /\ (k > 0 => CanReduce(history[k], e) /\ next = Reduce(history[k], e))
  <2>1. CASE CanInitialize(e) /\ next = InitialState(e)
    <3>1. k = 0
      BY <2>1, <1>2, <1>3 DEF CanInitialize
    <3> QED BY <2>1, <3>1, <1>1, InitialStateSound DEF e
  <2>2. CASE /\ session[call.handle] # None
             /\ CanReduce(session[call.handle], e)
             /\ next = Reduce(session[call.handle], e)
    <3> DEFINE s == session[call.handle]
    <3>1. IsDurable(s) /\ s \in DurableTaskState
      BY <1>1, <2>2 DEF LogInv, PublishedIsDurable, Open, TypeOK
    <3>2. s.last_event_sequence = k
      BY SMTT(20), <1>2, <1>3, <2>2, <3>1, StateFields DEF CanReduce
    <3>3. k > 0 /\ s = history[k] /\ k \in 1..Len(log)
      BY <3>1, <3>2, <1>2 DEF IsDurable, k
    <3>4. SoundState(s)
      BY <3>3 DEF LogInv, HistoryFollowsLog
    <3>5. SoundState(next)
      BY <1>1, <2>2, <3>1, <3>4, ReduceSound DEF e
    <3> QED BY <2>2, <3>3, <3>5
  <2> QED BY <1>3, <2>1, <2>2 DEF Follows
<1>7. HistoryFollowsLog'
  <2> SUFFICES ASSUME NEW i \in 1..(k + 1)
               PROVE  /\ history'[i].last_event_sequence = i
                      /\ SoundState(history'[i])
                      /\ i = 1 => /\ CanInitialize(log'[i])
                                  /\ history'[i] = InitialState(log'[i])
                      /\ i > 1 => /\ CanReduce(history'[i - 1], log'[i])
                                  /\ history'[i] = Reduce(history'[i - 1], log'[i])
    BY <1>4 DEF HistoryFollowsLog, k
  <2>1. CASE i \in 1..k
    <3>1. /\ history[i].last_event_sequence = i
          /\ SoundState(history[i])
          /\ i = 1 => CanInitialize(log[i]) /\ history[i] = InitialState(log[i])
          /\ i > 1 => CanReduce(history[i - 1], log[i])
                          /\ history[i] = Reduce(history[i - 1], log[i])
      BY <2>1 DEF LogInv, HistoryFollowsLog, k
    <3>2. i > 1 => i - 1 \in 1..k
      BY <2>1, <1>2
    <3> QED BY <1>4, <2>1, <3>1, <3>2
  <2>2. CASE i = k + 1
    <3>1. k > 0 => k \in 1..k /\ (k + 1) - 1 = k
      BY <1>2
    <3>2. k \in Nat
      BY <1>2
    <3> QED BY <1>3, <1>4, <1>6, <2>2, <3>1, <3>2
  <2>3. i \in 1..k \/ i = k + 1
    BY <1>2
  <2> QED BY <2>1, <2>2, <2>3
<1>8. \A s : IsDurable(s) => IsDurable(s)'
  BY <1>2, <1>4 DEF IsDurable, k
<1>9. \A s : s = next => IsDurable(s)' /\ s.last_event_sequence = Len(log')
  BY <1>2, <1>3, <1>4 DEF IsDurable
<1> QED BY <1>4, <1>5, <1>7, <1>8, <1>9 DEF k, next

(* Publishing, saving or dropping states that history has keeps the rest.  *)
LEMMA NextLogInv == LogInv /\ [Next]_vars => LogInv'
<1> SUFFICES ASSUME LogInv, [Next]_vars PROVE LogInv'
  OBVIOUS
<1>0. TypeOK /\ call \in Call
  BY DEF LogInv, TypeOK
<1>1. ASSUME NEW h \in Handles, NEW t \in TaskIds, Create(h, t) PROVE LogInv'
  <2> DEFINE e == [sequence |-> 1, data |-> Created(t)]
             none == <<>>
  <2>a. e \in DomainEvent /\ CanInitialize(e)
    BY CreateEventType
  <2>b. none \in Seq(Receipts)
    OBVIOUS
  <2>2. /\ call' = Writing(h, e, InitialState(e), none)
        /\ UNCHANGED <<log, lastLine, checkpoints, receipts, session, history>>
    BY <1>1 DEF Create
  <2> HIDE DEF e, none
  <2>1. /\ InitialState(e) \in DurableTaskState
        /\ InitialState(e).last_event_sequence = e.sequence
    BY <2>a, InitialStateType
  <2>3. /\ call' \in Call /\ call'.pc = "append" /\ call'.event = e
        /\ call'.next = InitialState(e)
    BY <2>a, <2>b, <2>1, <2>2, WritingType
  <2>4. CallIsConsistent'
    BY <2>a, <2>1, <2>3 DEF CallIsConsistent, Follows
  <2> QED BY <2>2, <2>3, <2>4, DiskUntouched
          DEF LogInv, TypeOK, PublishedIsDurable, CheckpointIsDurable, Open
<1>2. ASSUME NEW h \in Handles, Open(h), NEW d \in Payload, NEW q \in Seq(Receipts),
             CanReduce(session[h], NextEvent(h, d)),
             call' = Writing(h, NextEvent(h, d), Reduce(session[h], NextEvent(h, d)), q),
             UNCHANGED <<log, lastLine, checkpoints, receipts, session, history>>
      PROVE  LogInv'
  <2> DEFINE e == NextEvent(h, d)
             s == session[h]
  <2>1. s \in DurableTaskState /\ e \in DomainEvent
    BY <1>0, <1>2, NextEventType DEF TypeOK, Open
  <2>2. Reduce(s, e) \in DurableTaskState
        /\ Reduce(s, e).last_event_sequence = e.sequence
    BY <1>2, <2>1, ReduceType
  <2>3. /\ call' \in Call /\ call'.pc = "append" /\ call'.event = e
        /\ call'.next = Reduce(s, e) /\ call'.handle = h
    BY <1>2, <2>1, <2>2, WritingType
  <2>4. session' = session /\ s # None
    BY <1>2 DEF Open
  <2>5. CallIsConsistent'
    BY <1>2, <2>2, <2>3, <2>4 DEF CallIsConsistent, Follows
  <2> QED BY <1>2, <2>3, <2>5, DiskUntouched
          DEF LogInv, TypeOK, PublishedIsDurable, CheckpointIsDurable, Open
<1>3. ASSUME NEW h \in Handles, NEW d \in Recordable, Record(h, d) PROVE LogInv'
  <2>1. d \in Payload /\ <<>> \in Seq(Receipts)
    BY RecordableType
  <2>2. /\ Open(h)
        /\ CanReduce(session[h], NextEvent(h, d))
        /\ call' = Writing(h, NextEvent(h, d), Reduce(session[h], NextEvent(h, d)), <<>>)
        /\ UNCHANGED <<log, lastLine, checkpoints, receipts, session, history>>
    BY <1>3 DEF Record
  <2> QED BY <1>2, <2>1, <2>2
<1>4. ASSUME NEW h \in Handles, NEW n \in NodeIds, NEW rs \in ReceiptTuples,
             Complete(h, n, rs)
      PROVE  LogInv'
  BY <1>2, <1>4, CompletionType DEF Complete
<1>5. ASSUME NEW h \in Handles, NEW rev \in Revisions \cup {None},
             SaveCheckpoint(h, rev)
      PROVE  LogInv'
  <2>1. session[h] \in DurableTaskState /\ IsDurable(session[h])
    BY <1>0, <1>5 DEF SaveCheckpoint, SavedCheckpoints, TypeOK, Open, LogInv, PublishedIsDurable
  <2> DEFINE c == [state |-> session[h], revision |-> rev]
  <2>2. c \in Checkpoint /\ c.state = session[h]
    BY <2>1 DEF Checkpoint
  <2>3. checkpoints' = Append(checkpoints, c)
        /\ UNCHANGED <<log, lastLine, receipts, session, call, history>>
    BY <1>5 DEF SaveCheckpoint, SavedCheckpoints
  <2> HIDE DEF c
  <2>4. /\ checkpoints' \in Seq(Checkpoint)
        /\ \A i \in 1..Len(checkpoints') :
               \/ i \in 1..Len(checkpoints) /\ checkpoints'[i] = checkpoints[i]
               \/ checkpoints'[i] = c
    BY <1>0, <2>2, <2>3 DEF TypeOK
  <2>5. CheckpointIsDurable'
    BY <2>1, <2>2, <2>3, <2>4, DiskUntouched DEF LogInv, CheckpointIsDurable
  <2>6. CallIsConsistent'
    BY <2>3, DiskUntouched DEF LogInv, CallIsConsistent, Follows, IsDurable
  <2> QED BY <2>3, <2>4, <2>5, <2>6, DiskUntouched
          DEF LogInv, TypeOK, PublishedIsDurable, Open
<1>6. ASSUME NEW h \in Handles, NEW t \in TaskIds, NEW rev \in Revisions \cup {None},
             NEW require \in BOOLEAN, Resume(h, t, rev, require)
      PROVE  LogInv'
  <2>1. UNCHANGED <<log, lastLine, checkpoints, receipts, session, history>>
        /\ log # <<>>
    BY <1>6 DEF Resume
  <2>2. PICK s \in DurableTaskState \cup {None} :
            /\ call' = Replaying(h, t, s)
            /\ s # None => IsDurable(s)
    <3>1. CASE checkpoints = <<>>
      BY <1>6, <3>1 DEF Resume
    <3>2. CASE checkpoints # <<>>
      <4>1. Len(checkpoints) \in 1..Len(checkpoints)
        BY <1>0, <3>2 DEF TypeOK
      <4>2. LatestCheckpoint \in Checkpoint
        BY <1>0, <4>1 DEF TypeOK, LatestCheckpoint
      <4>3. LatestCheckpoint.state \in DurableTaskState
        BY <4>2 DEF Checkpoint
      <4>4. IsDurable(LatestCheckpoint.state)
        BY <4>1 DEF LogInv, CheckpointIsDurable, LatestCheckpoint
      <4>5. call' = Replaying(h, t, LatestCheckpoint.state)
        BY <1>6, <3>2 DEF Resume
      <4> QED BY <4>3, <4>4, <4>5
    <3> QED BY <3>1, <3>2
  <2>3. call' \in Call /\ call'.pc = "replay" /\ call'.state = s
    BY <2>2, ReplayingType
  <2>4. CallIsConsistent'
    BY <2>1, <2>2, <2>3, DiskUntouched DEF CallIsConsistent, IsDurable
  <2> QED BY <2>1, <2>3, <2>4, DiskUntouched
          DEF LogInv, TypeOK, PublishedIsDurable, CheckpointIsDurable, Open
<1>7. CASE SaveReceipt
  <2>1. UNCHANGED <<log, lastLine, checkpoints, session, history>>
    BY <1>7 DEF SaveReceipt
  <2>2. /\ call.pc = "append" /\ call.queue \in Seq(Receipts) /\ call.queue # <<>>
    BY <1>0, <1>7, CallFields DEF SaveReceipt
  <2> DEFINE r == Head(call.queue)
  <2>3. r \in Receipts /\ r.id \in ReceiptIds /\ Tail(call.queue) \in Seq(Receipts)
    BY <2>2, ReceiptsAssumption DEF ExecutionReceipt
  <2>4. CASE receipts[r.id] \in {None, r}
    <3>1. /\ receipts' = [receipts EXCEPT ![r.id] = r]
          /\ call' = [call EXCEPT !.queue = Tail(call.queue)]
      BY <1>7, <2>4 DEF SaveReceipt
    <3>2. /\ call' \in Call /\ call'.pc = "append" /\ call'.event = call.event
          /\ call'.next = call.next /\ call'.handle = call.handle
      BY <1>0, <2>2, <2>3, <3>1 DEF Call, Idle
    <3>3. receipts' \in [ReceiptIds -> Receipts \cup {None}]
      BY <1>0, <2>3, <3>1 DEF TypeOK
    <3>4. CallIsConsistent'
      BY <2>1, <2>2, <3>2 DEF LogInv, CallIsConsistent, Follows
    <3> QED BY <2>1, <3>2, <3>3, <3>4, DiskUntouched
            DEF LogInv, TypeOK, PublishedIsDurable, CheckpointIsDurable, Open
  <2>5. CASE receipts[r.id] \notin {None, r}
    <3>1. call' = Idle /\ receipts' = receipts
      BY <1>7, <2>5 DEF SaveReceipt
    <3> QED BY <2>1, <3>1, IdleType, DiskUntouched
            DEF LogInv, TypeOK, PublishedIsDurable, CheckpointIsDurable, Open,
                CallIsConsistent
  <2> QED BY <2>4, <2>5
<1>8. CASE AppendEvent
  <2>1. /\ call.pc = "append" /\ AppendAllowed
        /\ log' = Append(log, call.event) /\ history' = Append(history, call.next)
        /\ call' = [call EXCEPT !.pc = "publish"]
        /\ lastLine' \in {"whole", "unterminated", "garbled"}
        /\ UNCHANGED <<checkpoints, receipts, session>>
    BY <1>8 DEF AppendEvent, LineAfter
  <2>2. call' \in Call /\ call'.pc = "publish" /\ call'.next = call.next
    <3>1. call \in [pc : {"append", "publish"}, handle : Handles,
                    event : DomainEvent, next : DurableTaskState,
                    queue : Seq(Receipts)]
      BY <1>0, <2>1 DEF Call, Idle
    <3>2. /\ call' \in [pc : {"append", "publish"}, handle : Handles,
                        event : DomainEvent, next : DurableTaskState,
                        queue : Seq(Receipts)]
          /\ call'.pc = "publish" /\ call'.next = call.next
      BY <2>1, <3>1
    <3> QED BY <3>2 DEF Call
  <2>3. CallIsConsistent'
    BY <2>1, <2>2, AppendKeeps DEF CallIsConsistent, IsDurable
  <2> QED BY <2>1, <2>2, <2>3, AppendKeeps
          DEF LogInv, TypeOK, PublishedIsDurable, CheckpointIsDurable, Open
<1>9. CASE AppendInterrupted
  <2>1. /\ call.pc = "append" /\ AppendAllowed
        /\ call' = Idle
        /\ lastLine' \in {"whole", "unterminated", "garbled"}
        /\ UNCHANGED <<checkpoints, receipts, session>>
        /\ \/ UNCHANGED <<log, history>>
           \/ log' = Append(log, call.event) /\ history' = Append(history, call.next)
    BY <1>9 DEF AppendInterrupted, LineAfter
  <2>2. CASE UNCHANGED <<log, history>>
    BY <2>1, <2>2, IdleType, DiskUntouched
       DEF LogInv, TypeOK, PublishedIsDurable, CheckpointIsDurable, Open,
           CallIsConsistent
  <2>3. CASE log' = Append(log, call.event) /\ history' = Append(history, call.next)
    BY <2>1, <2>3, IdleType, AppendKeeps
       DEF LogInv, TypeOK, PublishedIsDurable, CheckpointIsDurable, Open,
           CallIsConsistent
  <2> QED BY <2>1, <2>2, <2>3
<1>10. ASSUME call' = Idle, UNCHANGED <<log, checkpoints, receipts, history, lastLine>>,
              \A h \in Handles : session'[h] # None =>
                  session'[h] = session[h] \/ (session'[h] \in DurableTaskState
                                                  /\ IsDurable(session'[h])),
              session' \in [Handles -> DurableTaskState \cup {None}]
       PROVE  LogInv'
  <2>1. CallIsConsistent' /\ call' \in Call
    BY <1>10, IdleType DEF CallIsConsistent
  <2>2. PublishedIsDurable'
    BY <1>10, DiskUntouched DEF LogInv, PublishedIsDurable, Open
  <2> QED BY <1>10, <2>1, <2>2, DiskUntouched
          DEF LogInv, TypeOK, CheckpointIsDurable
<1>11. CASE AppendRefused \/ CreateFails \/ CallFails
  <2>1. call' = Idle /\ UNCHANGED <<log, checkpoints, receipts, history, lastLine, session>>
    BY <1>11 DEF AppendRefused, CreateFails, CallFails
  <2> QED BY <1>0, <1>10, <2>1 DEF TypeOK
<1>12. CASE Publish
  <2>1. /\ call.pc = "publish" /\ call.handle \in Handles
        /\ call.next \in DurableTaskState /\ IsDurable(call.next)
    BY <1>0, <1>12, CallFields DEF Publish, LogInv, CallIsConsistent
  <2>2. /\ session' = [session EXCEPT ![call.handle] = call.next]
        /\ call' = Idle
        /\ UNCHANGED <<log, checkpoints, receipts, history, lastLine>>
    BY <1>12 DEF Publish
  <2> QED BY <1>0, <1>10, <2>1, <2>2 DEF TypeOK
<1>13. CASE ReplayEvent
  <2>1. /\ call.pc = "replay" /\ Replayed < Len(log)
        /\ UNCHANGED <<log, lastLine, checkpoints, receipts, session, history>>
    BY <1>13 DEF ReplayEvent
  <2>2. CASE ~CanReplay
    <3>1. call' = Idle
      BY <1>13, <2>2 DEF ReplayEvent
    <3> QED BY <1>0, <1>10, <2>1, <3>1 DEF TypeOK
  <2>3. CASE CanReplay
    <3> DEFINE k == Replayed
    <3>1. /\ k \in Nat /\ k + 1 \in 1..Len(log)
          /\ k > 0 => call.state # None /\ call.state = history[k]
          /\ k = 0 => call.state = None
          /\ call.state \in DurableTaskState \cup {None}
      <4>1. call.state \in DurableTaskState \cup {None}
        BY <1>0, <2>1, CallFields
      <4>2. CASE call.state = None
        BY <4>2, <2>1, <1>0 DEF Replayed, TypeOK
      <4>3. CASE call.state # None
        <5>1. IsDurable(call.state) /\ k = call.state.last_event_sequence
          BY <4>3, <2>1 DEF Replayed, LogInv, CallIsConsistent
        <5> QED BY <4>1, <4>3, <5>1, <2>1, <1>0 DEF IsDurable, TypeOK
      <4> QED BY <4>2, <4>3
    <3>2. /\ NextReplayed = log[k + 1] /\ NextReplayed \in DomainEvent
          /\ history[k + 1] \in DurableTaskState
      BY <1>0, <3>1 DEF NextReplayed, TypeOK
    <3>3. /\ history[k + 1].last_event_sequence = k + 1
          /\ k + 1 = 1 => history[k + 1] = InitialState(log[k + 1])
          /\ k + 1 > 1 => history[k + 1] = Reduce(history[(k + 1) - 1], log[k + 1])
      BY <3>1 DEF LogInv, HistoryFollowsLog
    <3> HIDE DEF k
    <3>4. call' = [call EXCEPT !.state = history[k + 1]]
      <4>1. CASE k = 0
        BY <1>13, <2>3, <3>1, <3>2, <3>3, <4>1 DEF ReplayEvent
      <4>2. CASE k > 0
        <5>1. (k + 1) - 1 = k /\ k + 1 > 1
          BY <3>1, <4>2
        <5> QED BY <1>13, <2>3, <3>1, <3>2, <3>3, <4>2, <5>1 DEF ReplayEvent
      <4> QED BY <3>1, <4>1, <4>2
    <3>5. call' \in Call /\ call'.pc = "replay" /\ call'.state = history[k + 1]
      BY <1>0, <2>1, <3>2, <3>4 DEF Call, Idle
    <3>6. IsDurable(history[k + 1])
      BY <3>1, <3>3 DEF IsDurable
    <3>7. CallIsConsistent'
      BY <2>1, <3>2, <3>5, <3>6, NoneIsNoState DEF CallIsConsistent, IsDurable
    <3> QED BY <2>1, <3>5, <3>7, DiskUntouched
            DEF LogInv, TypeOK, PublishedIsDurable, CheckpointIsDurable, Open
  <2> QED BY <2>2, <2>3
<1>14. CASE FinishResume
  <2>1. /\ call.pc = "replay" /\ Replayed = Len(log) /\ call' = Idle
        /\ UNCHANGED <<log, lastLine, checkpoints, receipts, history>>
        /\ session' = session
              \/ session' = [session EXCEPT ![call.handle] = call.state]
    BY <1>14 DEF FinishResume
  <2>2. /\ call.handle \in Handles
        /\ call.state \in DurableTaskState /\ IsDurable(call.state)
    <3>1. call.state \in DurableTaskState \cup {None} /\ call.handle \in Handles
      BY <1>0, <2>1, CallFields
    <3>2. call.state # None
      BY <1>0, <2>1 DEF Replayed, LogInv, CallIsConsistent, TypeOK
    <3> QED BY <2>1, <3>1, <3>2 DEF LogInv, CallIsConsistent
  <2> QED BY <1>0, <1>10, <2>1, <2>2 DEF TypeOK
<1>15. CASE Crash
  <2>1. /\ call' = Idle /\ session' = [h \in Handles |-> None]
        /\ UNCHANGED <<log, lastLine, checkpoints, receipts, history>>
    BY <1>15 DEF Crash
  <2> QED BY <1>10, <2>1
<1>16. CASE UNCHANGED vars
  <2>1. CallIsConsistent'
    BY <1>16, DiskUntouched DEF vars, LogInv, CallIsConsistent, Follows, IsDurable
  <2> QED BY <1>16, <2>1, DiskUntouched
          DEF vars, LogInv, TypeOK, PublishedIsDurable, CheckpointIsDurable, Open
<1>17. CASE CallBegins
  BY <1>1, <1>3, <1>4, <1>5, <1>6, <1>17 DEF CallBegins
<1> QED
  BY <1>7, <1>8, <1>9, <1>11, <1>12, <1>13, <1>14, <1>15, <1>16, <1>17
     DEF Next, CallStep, Fault

(* The log invariant holds in every state.                                 *)
LEMMA LogInvariant == Spec => []LogInv
BY InitLogInv, NextLogInv, PTL DEF Spec

(* The stores, the sessions and the call in progress keep to their types.  *)
THEOREM SessionTypeCorrect == Spec => []TypeOK
<1>1. LogInv => TypeOK
  BY DEF LogInv
<1> QED BY <1>1, LogInvariant, PTL

(* The log is numbered without gaps or repetitions, whatever stale session *)
(* objects try to append.                                                  *)
THEOREM LogIsNumbered == Spec => []EventsAreNumbered
<1>1. LogInv => EventsAreNumbered
  BY DEF LogInv
<1> QED BY <1>1, LogInvariant, PTL

(* No session ever shows a state that is not the one after some prefix of  *)
(* the log on disk.                                                        *)
THEOREM SessionsShowDurableStates == Spec => []PublishedIsDurable
<1>1. LogInv => PublishedIsDurable
  BY DEF LogInv
<1> QED BY <1>1, LogInvariant, PTL

(* Every checkpoint is the state after exactly the events it covers.       *)
THEOREM CheckpointsHoldDurableStates == Spec => []CheckpointIsDurable
<1>1. LogInv => CheckpointIsDurable
  BY DEF LogInv
<1> QED BY <1>1, LogInvariant, PTL

(* history is the replay of the log: read event by event, its states solve *)
(* the recursion of replay_domain_events, which has one solution.          *)
LEMMA ReplayEquations ==
    ASSUME LogInv
    PROVE  /\ ReplayDomainEvents[0] = None
           /\ \A n \in 1..Len(log) :
                  ReplayDomainEvents[n] =
                      LET state == ReplayDomainEvents[n - 1]
                      IN  IF state = None THEN InitialState(log[n])
                                          ELSE Reduce(state, log[n])
<1> DEFINE Solves(f) ==
        f = [n \in 0..Len(log) |->
                IF n = 0 THEN None
                ELSE LET state == f[n - 1]
                     IN  IF state = None THEN InitialState(log[n])
                                         ELSE Reduce(state, log[n])]
           f == [n \in 0..Len(log) |-> IF n = 0 THEN None ELSE history[n]]
<1>1. /\ log \in Seq(DomainEvent) /\ history \in Seq(DurableTaskState)
      /\ Len(history) = Len(log) /\ Len(log) \in Nat
  BY DEF LogInv, TypeOK
<1>2. ASSUME NEW n \in 1..Len(log)
      PROVE  f[n] = LET state == f[n - 1]
                    IN  IF state = None THEN InitialState(log[n])
                                        ELSE Reduce(state, log[n])
  <2>1. n \in 0..Len(log) /\ n - 1 \in 0..Len(log) /\ n # 0 /\ (n > 1 => n - 1 \in 1..Len(log))
    BY <1>1
  <2>2. CASE n = 1
    <3>1. f[n - 1] = None
      BY <2>1, <2>2
    <3>2. f[n] = InitialState(log[n])
      BY <2>1, <2>2 DEF LogInv, HistoryFollowsLog
    <3> QED BY <3>1, <3>2
  <2>3. CASE n > 1
    <3>1. n - 1 # 0 /\ history[n - 1] \in DurableTaskState
      BY <1>1, <2>1, <2>3
    <3>2. f[n - 1] = history[n - 1] /\ f[n - 1] # None
      BY <2>1, <3>1, NoneIsNoState
    <3>3. f[n] = Reduce(history[n - 1], log[n])
      BY <2>1, <2>3 DEF LogInv, HistoryFollowsLog
    <3> QED BY <3>2, <3>3
  <2> QED BY <2>1, <2>2, <2>3
<1>3. f[0] = None /\ f = [n \in 0..Len(log) |-> f[n]]
  BY <1>1
<1> HIDE DEF f
<1>4. Solves(f)
  BY <1>2, <1>3, <1>1
<1>5. ReplayDomainEvents = CHOOSE g : Solves(g)
  BY DEF ReplayDomainEvents
<1> HIDE DEF Solves
<1>6. Solves(ReplayDomainEvents)
  BY <1>4, <1>5
<1> QED BY <1>1, <1>6 DEF Solves

(* State by state, the history is what a replay makes of the log.          *)
LEMMA LogInvReplays == LogInv => HistoryIsReplay
<1> SUFFICES ASSUME LogInv PROVE HistoryIsReplay
  OBVIOUS
<1> DEFINE S == {n \in 1..Len(log) : ReplayDomainEvents[n] = history[n]}
<1>1. /\ log \in Seq(DomainEvent) /\ history \in Seq(DurableTaskState)
      /\ Len(history) = Len(log) /\ Len(log) \in Nat
  BY DEF LogInv, TypeOK
<1>2. ASSUME Len(log) > 0 PROVE 1 \in S
  <2>1. 1 \in 1..Len(log) /\ 1 - 1 = 0
    BY <1>1, <1>2
  <2>2. ReplayDomainEvents[1] = InitialState(log[1])
    BY <2>1, ReplayEquations
  <2>3. history[1] = InitialState(log[1])
    BY <2>1 DEF LogInv, HistoryFollowsLog
  <2> QED BY <2>1, <2>2, <2>3
<1>3. ASSUME NEW n \in 1..(Len(log) - 1), n \in S PROVE n + 1 \in S
  <2>1. n + 1 \in 1..Len(log) /\ (n + 1) - 1 = n /\ n + 1 > 1 /\ n \in 1..Len(log)
    BY <1>1
  <2>2. ReplayDomainEvents[n] = history[n] /\ history[n] # None
    BY <1>1, <1>3, <2>1, NoneIsNoState
  <2>3. ReplayDomainEvents[n + 1] = Reduce(history[n], log[n + 1])
    BY <2>1, <2>2, ReplayEquations
  <2>4. history[n + 1] = Reduce(history[n], log[n + 1])
    BY <2>1 DEF LogInv, HistoryFollowsLog
  <2> QED BY <2>1, <2>3, <2>4
<1> HIDE DEF S
<1>4. CASE Len(log) > 0
  <2>0. 1 \in S /\ 1 \in Int /\ Len(log) \in Int
    BY <1>1, <1>2, <1>4
  <2>1. 1..Len(log) \subseteq S
    BY ONLY <1>3, <2>0, UpwardInduction
  <2> QED BY <2>1 DEF S, HistoryIsReplay
<1>5. CASE Len(log) = 0
  BY <1>5 DEF HistoryIsReplay
<1> QED BY <1>1, <1>4, <1>5

(* The states the other properties speak about are those that a replay of  *)
(* the log on disk gives, for every number of events.                      *)
THEOREM HistoryReplaysLog == Spec => []HistoryIsReplay
BY LogInvReplays, LogInvariant, PTL
===============================================================================
