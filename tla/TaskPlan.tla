------------------------------- MODULE TaskPlan -------------------------------
(***************************************************************************)
(* The validation a task plan goes through before any of its nodes may     *)
(* start (TaskPlan.__post_init__ and _validate_acyclic_dependencies in     *)
(* runtime/durable_contracts.py): the cheap checks on the list of nodes,   *)
(* then the loop that peels off the nodes whose dependencies are gone.     *)
(* Texts (descriptions, the wording of criteria) are left out.             *)
(***************************************************************************)
EXTENDS PlanGraph, Sequences

CONSTANT NodeIds,           \* the identifiers a plan may use
         NodeLists          \* the lists of node specifications offered

NodeSpec == [id : NodeIds, deps : SUBSET NodeIds]

ASSUME NodeListsAssumption == NodeLists \subseteq Seq(NodeSpec)

VARIABLES nodes,            \* the argument: a list of node specifications
          remaining,        \* the loop's variable of that name
          verdict           \* "checking", "peeling", "accepted", "rejected"

vars == <<nodes, remaining, verdict>>

Ids == {nodes[i].id : i \in DOMAIN nodes}

(* {node.id: set(node.dependencies)}: of equal ids the last one counts,    *)
(* but the loop only runs when the ids are unique.                         *)
dependencies ==
    [n \in Ids |-> nodes[CHOOSE i \in DOMAIN nodes : nodes[i].id = n].deps]

IdsUnique == \A i, j \in DOMAIN nodes : nodes[i].id = nodes[j].id => i = j

Init ==
    /\ nodes \in NodeLists
    /\ remaining = {}
    /\ verdict = "checking"

(* Variants of the definitions below, as a slip in the code would make them. *)
readyIfNoDependencies == {n \in remaining : dependencies[n] = {}}
CheckIgnoresDuplicates ==
    /\ verdict = "checking"
    /\ IF nodes # <<>> /\ DependenciesKnown(dependencies)
         THEN verdict' = "peeling" /\ remaining' = Ids
         ELSE verdict' = "rejected" /\ UNCHANGED remaining
    /\ UNCHANGED nodes
CheckQueuesDependencies ==
    /\ verdict = "checking"
    /\ IF nodes # <<>> /\ IdsUnique
         THEN verdict' = "peeling" /\ remaining' = Ids \cup UNION {dependencies[n] : n \in Ids}
         ELSE verdict' = "rejected" /\ UNCHANGED remaining
    /\ UNCHANGED nodes
PeelKeepsRemaining == verdict = "peeling" /\ remaining # {} /\ UNCHANGED vars

(* The checks before the loop, in one step: they only read the nodes.      *)
Check ==
    /\ verdict = "checking"
    /\ IF nodes # <<>> /\ IdsUnique /\ DependenciesKnown(dependencies)
         THEN verdict' = "peeling" /\ remaining' = Ids
         ELSE verdict' = "rejected" /\ UNCHANGED remaining
    /\ UNCHANGED nodes

ready == {n \in remaining : dependencies[n] \cap remaining = {}}

Peel ==
    /\ verdict = "peeling"
    /\ ready # {}
    /\ remaining' = remaining \ ready
    /\ UNCHANGED <<nodes, verdict>>

Reject ==
    /\ verdict = "peeling"
    /\ remaining # {}
    /\ ready = {}
    /\ verdict' = "rejected"
    /\ UNCHANGED <<nodes, remaining>>

Accept ==
    /\ verdict = "peeling"
    /\ remaining = {}
    /\ verdict' = "accepted"
    /\ UNCHANGED <<nodes, remaining>>

Next == Check \/ Peel \/ Reject \/ Accept

Spec == Init /\ [][Next]_vars /\ WF_vars(Next)

------------------------------------------------------------------------------

TypeOK ==
    /\ nodes \in NodeLists
    /\ remaining \subseteq Ids
    /\ verdict \in {"checking", "peeling", "accepted", "rejected"}

(* An accepted plan is valid (durable_contracts.py:72-88): it has nodes,   *)
(* with unique ids, whose dependencies are other nodes and have no cycle.  *)
AcceptedIsValid ==
    verdict = "accepted" => IdsUnique /\ ValidPlan(dependencies)

(* The loop turns no plan away that would be valid: "rejected" means that  *)
(* the ids clash or that the graph is really not a valid plan.             *)
RejectedIsInvalid ==
    verdict = "rejected" => ~(IdsUnique /\ ValidPlan(dependencies))

(* The verdict on unique, known ids is the textbook one: accepted exactly   *)
(* when no node can reach itself (durable_contracts.py:338-349).           *)
VerdictIsReachability ==
    (verdict \in {"accepted", "rejected"} /\ nodes # <<>> /\ IdsUnique
        /\ DependenciesKnown(dependencies)) =>
        (verdict = "accepted" <=> NoNodeReachesItself(dependencies))

(* The while loop ends on every list of nodes.                             *)
ValidationEnds == <>(verdict \in {"accepted", "rejected"})
===============================================================================
