--------------------------- MODULE MCDurableSession ---------------------------
EXTENDS DurableSession

CONSTANTS n1, n2, t1, t2, b1, x1, r1, r2, h1, h2, v1

(* n2 depends on n1; n1 has acceptance criteria.  Or both may be started,  *)
(* one at a time.  The cyclic plan must be refused.                        *)
Chain ==
    [n \in {n1, n2} |-> [dependencies |-> IF n = n2 THEN {n1} ELSE {},
                         criteria |-> n = n1]]

Fork ==
    [n \in {n1, n2} |-> [dependencies |-> {}, criteria |-> n = n1]]

Cycle ==
    [n \in {n1, n2} |-> [dependencies |-> {n1, n2} \ {n}, criteria |-> FALSE]]

MCPlans == {Chain, Cycle}

MCForkPlans == {Fork, Cycle}

Receipt(id, n, kind, status, at) ==
    [id |-> id, task |-> t1, node |-> n, kind |-> kind, status |-> status,
     created_at |-> at]

(* A verification of n1, in two copies made at different times, a tool     *)
(* run for it, a failed verification and one of n2.                        *)
verified1 == Receipt(r1, n1, "verification", "succeeded", 0)
verified1Later == Receipt(r1, n1, "verification", "succeeded", 1)
ran1 == Receipt(r2, n1, "tool_execution", "succeeded", 0)
failed1 == Receipt(r2, n1, "verification", "failed", 0)
ran2 == Receipt(r2, n2, "tool_execution", "succeeded", 0)

MCReceipts == {verified1, verified1Later, ran1, failed1, ran2}

MCReceiptTuples ==
    {<<>>, <<ran1>>, <<ran1, verified1>>, <<verified1Later>>, <<failed1>>, <<ran2>>}

(* Enough to complete n1.                                                 *)
MCVerification == {<<verified1>>}
===============================================================================
