----------------------------- MODULE TaskReducer -----------------------------
(***************************************************************************)
(* The materialized state of a durable task and the pure function that     *)
(* applies one domain event to it (DurableTaskState and                    *)
(* reduce_domain_event in runtime/durable.py).                             *)
(*                                                                         *)
(* One run: the run id that every record carries is left out.  Texts       *)
(* (goal, descriptions) are left out, a node's acceptance criteria are     *)
(* whether it has any, and the plan, a tuple of nodes with unique ids, is  *)
(* a function on those ids; plan_id is set exactly when the plan is.       *)
(***************************************************************************)
EXTENDS PlanGraph

CONSTANTS TaskIds, NodeIds, BlockerIds, NextActions, ReceiptIds,
          None              \* Python's None

ASSUME NoneAssumption == None \notin TaskIds \cup NodeIds \cup NextActions

TaskNodeStatus == {"pending", "running", "completed"}

NodeSpec == [dependencies : SUBSET NodeIds, criteria : BOOLEAN]

PlanSpec == UNION {[D -> NodeSpec] : D \in SUBSET NodeIds}

TaskNode == [dependencies : SUBSET NodeIds, criteria : BOOLEAN,
             status : TaskNodeStatus, evidence : SUBSET ReceiptIds]

PlanProgress == UNION {[D -> TaskNode] : D \in SUBSET NodeIds}

DurableTaskState ==
    [task                : TaskIds,
     plan                : PlanProgress,
     current             : NodeIds \cup {None},
     blockers            : SUBSET BlockerIds,
     next_action         : NextActions \cup {None},
     last_event_sequence : Nat]

(* The payloads of the seven domain event types.  An event's id is a fresh *)
(* uuid, so two events built by different calls are never the same event;  *)
(* their ids and timestamps are left out and no step compares contents.    *)
Created(t) == [type |-> "task_created", task |-> t]
PlanAccepted(p) == [type |-> "plan_accepted", plan |-> p]
NodeStarted(n) == [type |-> "task_node_started", node |-> n]
NodeCompleted(n, ids) ==
    [type |-> "task_node_completed", node |-> n, evidence |-> ids]
BlockerAdded(b) == [type |-> "blocker_added", blocker |-> b]
BlockerResolved(b) == [type |-> "blocker_resolved", blocker |-> b]
NextActionSet(x) == [type |-> "next_action_set", action |-> x]

Payload ==
    {Created(t) : t \in TaskIds}
    \cup {PlanAccepted(p) : p \in PlanSpec}
    \cup {NodeStarted(n) : n \in NodeIds}
    \cup {NodeCompleted(n, ids) : n \in NodeIds, ids \in SUBSET ReceiptIds}
    \cup {BlockerAdded(b) : b \in BlockerIds}
    \cup {BlockerResolved(b) : b \in BlockerIds}
    \cup {NextActionSet(x) : x \in NextActions}

DomainEvent == [sequence : Nat, data : Payload]

------------------------------------------------------------------------------

DependenciesOf(plan) == [n \in DOMAIN plan |-> plan[n].dependencies]

NodesWith(plan, status) == {n \in DOMAIN plan : plan[n].status = status}

(* The first event of a log must create the task, as number 1.             *)
CanInitialize(e) == e.data.type = "task_created" /\ e.sequence = 1

NoPlan == [n \in {} |-> None]

InitialState(e) ==
    [task |-> e.data.task, plan |-> NoPlan, current |-> None, blockers |-> {},
     next_action |-> None, last_event_sequence |-> e.sequence]

(* Variants of the next two definitions, as a slip in the code would make  *)
(* them: a forgotten check, a field that is not reset.                     *)
CanStartBeforeDependencies(s, n) ==
    s.current = None /\ n \in DOMAIN s.plan /\ s.plan[n].status = "pending"
CompleteKeepsCurrent(s, n, ids) ==
    [s EXCEPT !.plan[n].status = "completed", !.plan[n].evidence = ids,
              !.next_action = None]

CanStartNode(s, n) ==
    /\ s.current = None
    /\ n \in DOMAIN s.plan
    /\ s.plan[n].status = "pending"
    /\ s.plan[n].dependencies \subseteq NodesWith(s.plan, "completed")

(* Any later event: the conditions under which nothing is raised.          *)
CanReduce(s, e) ==
    /\ e.sequence = s.last_event_sequence + 1
    /\ \/ e.data.type = "plan_accepted" /\ DOMAIN s.plan = {}
            /\ ValidPlan(DependenciesOf(e.data.plan))
       \/ e.data.type = "task_node_started" /\ CanStartNode(s, e.data.node)
       \/ e.data.type = "task_node_completed" /\ e.data.node \in DOMAIN s.plan
            /\ s.current = e.data.node /\ s.plan[e.data.node].status = "running"
       \/ e.data.type = "blocker_added" /\ e.data.blocker \notin s.blockers
       \/ e.data.type = "blocker_resolved" /\ e.data.blocker \in s.blockers
       \/ e.data.type = "next_action_set"

AcceptPlan(s, spec) ==
    [s EXCEPT !.plan =
        [n \in DOMAIN spec |->
            [dependencies |-> spec[n].dependencies, criteria |-> spec[n].criteria,
             status |-> "pending", evidence |-> {}]]]

StartNode(s, n) == [s EXCEPT !.plan[n].status = "running", !.current = n]

CompleteNode(s, n, ids) ==
    [s EXCEPT !.plan[n].status = "completed", !.plan[n].evidence = ids,
              !.current = None, !.next_action = None]

(* The state that reduce_domain_event returns when CanReduce holds.        *)
Reduce(s, e) ==
    LET d == e.data
        updated ==
            CASE d.type = "plan_accepted"       -> AcceptPlan(s, d.plan)
              [] d.type = "task_node_started"   -> StartNode(s, d.node)
              [] d.type = "task_node_completed" -> CompleteNode(s, d.node, d.evidence)
              [] d.type = "blocker_added"       -> [s EXCEPT !.blockers = @ \cup {d.blocker}]
              [] d.type = "blocker_resolved"    -> [s EXCEPT !.blockers = @ \ {d.blocker}]
              [] OTHER                          -> [s EXCEPT !.next_action = d.action]
    IN  [updated EXCEPT !.last_event_sequence = e.sequence]

(* What DurableTaskState.from_dict demands of a deserialized state.        *)
Deserializable(s) ==
    /\ s.last_event_sequence > 0
    /\ DOMAIN s.plan # {} => ValidPlan(DependenciesOf(s.plan))
    /\ NodesWith(s.plan, "running") = {s.current} \ {None}

(* No node is started before what it depends on is completed.              *)
DependenciesFirst(s) ==
    \A n \in DOMAIN s.plan : s.plan[n].status # "pending" =>
        s.plan[n].dependencies \subseteq NodesWith(s.plan, "completed")
==============================================================================
