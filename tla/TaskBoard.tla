------------------------------ MODULE TaskBoard ------------------------------
(***************************************************************************)
(* What a durable task promises to whoever drives it, whatever happens to  *)
(* the process in between (docs/durable-event-log.md): a plan is accepted  *)
(* once and is acyclic, one node runs at a time and only after all it      *)
(* depends on, and what is completed stays completed.  There are no        *)
(* events, files, sessions or crashes here.                                *)
(***************************************************************************)
EXTENDS PlanGraph

CONSTANT Nodes

VARIABLES graph,            \* the accepted plan: node |-> its dependencies
          running,          \* the node being worked on, in a set
          done              \* the completed nodes

vars == <<graph, running, done>>

NoGraph == [n \in {} |-> {}]

Graphs == UNION {[D -> SUBSET Nodes] : D \in SUBSET Nodes}

Init == graph = NoGraph /\ running = {} /\ done = {}

Accept ==
    /\ DOMAIN graph = {}
    /\ graph' \in Graphs
    /\ ValidPlan(graph')
    /\ UNCHANGED <<running, done>>

Start(n) ==
    /\ running = {}
    /\ n \in DOMAIN graph \ done
    /\ graph[n] \subseteq done
    /\ running' = {n}
    /\ UNCHANGED <<graph, done>>

Finish(n) ==
    /\ n \in running
    /\ running' = {}
    /\ done' = done \cup {n}
    /\ UNCHANGED graph

Next == Accept \/ \E n \in Nodes : Start(n) \/ Finish(n)

Spec == Init /\ [][Next]_vars
==============================================================================
