------------------------------ MODULE PlanGraph ------------------------------
(***************************************************************************)
(* What TaskPlan.__post_init__ demands of the nodes of a plan              *)
(* (runtime/durable_contracts.py), stated over deps, the function from the *)
(* ids of the plan's nodes to the sets of ids they depend on.              *)
(***************************************************************************)
EXTENDS Naturals, FiniteSets

(* A set of nodes none of which can be first: each waits for another one.  *)
Deadlocked(C, deps) == \A n \in C : deps[n] \cap C # {}

(* The dependencies have no cycle: no set of nodes deadlocks.              *)
Acyclic(deps) ==
    \A C \in SUBSET DOMAIN deps : C # {} => ~Deadlocked(C, deps)

(* Every dependency is another node of the same plan.                      *)
DependenciesKnown(deps) ==
    \A n \in DOMAIN deps : n \notin deps[n] /\ deps[n] \subseteq DOMAIN deps

(* The plans TaskPlan accepts; TaskPlanProofs shows that the loop of       *)
(* _validate_acyclic_dependencies decides Acyclic.                         *)
ValidPlan(deps) ==
    /\ DOMAIN deps # {}
    /\ DependenciesKnown(deps)
    /\ Acyclic(deps)

(* The textbook definition, a reference for small graphs: no node can      *)
(* reach itself along at most Cardinality(DOMAIN deps) dependencies.       *)
Wider(S, deps) == S \cup UNION {deps[m] : m \in S \cap DOMAIN deps}

Reachable(n, deps) ==
    LET reach[k \in 0..Cardinality(DOMAIN deps)] ==
            IF k = 0 THEN deps[n] ELSE Wider(reach[k - 1], deps)
    IN  reach[Cardinality(DOMAIN deps)]

NoNodeReachesItself(deps) == \A n \in DOMAIN deps : n \notin Reachable(n, deps)
==============================================================================
