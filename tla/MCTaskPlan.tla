------------------------------ MODULE MCTaskPlan ------------------------------
(* Every list of at most three node specifications with different ids out  *)
(* of three, in one order, and of two that clash on their id.              *)
EXTENDS TaskPlan

CONSTANTS a, b, c

MCNodeIds == {a, b, c}

Specs(ids) ==
    {[i \in DOMAIN ids |-> [id |-> ids[i], deps |-> d[i]]] :
        d \in [DOMAIN ids -> SUBSET MCNodeIds]}

MCNodeLists ==
    {<<>>} \cup Specs(<<a>>) \cup Specs(<<a, b>>) \cup Specs(<<a, a>>)
           \cup Specs(<<a, b, c>>)

===============================================================================
