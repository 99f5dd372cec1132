---------------------------- MODULE TaskPlanProofs ----------------------------
(***************************************************************************)
(* The peeling loop of _validate_acyclic_dependencies decides whether a    *)
(* plan has a dependency cycle, for plans of any size.                     *)
(*                                                                         *)
(* A deadlocked set of nodes (each waits for another of the set) is never  *)
(* touched by the loop: a node of it always has a dependency among those   *)
(* that remain.  So when nothing remains there is no such set, and when    *)
(* the loop gives up what remains is one.                                  *)
(***************************************************************************)
EXTENDS TaskPlan, CommonLemmas

(* A deadlocked set of nodes is never peeled, and the loop only runs on    *)
(* nodes that passed the earlier checks.                                   *)
DeadlockedSetsStay ==
    verdict \in {"peeling", "accepted"} =>
        /\ nodes # <<>>
        /\ IdsUnique
        /\ DependenciesKnown(dependencies)
        /\ \A C \in SUBSET Ids : Deadlocked(C, dependencies) => C \subseteq remaining

LoopInv == TypeOK /\ DeadlockedSetsStay /\ RejectedIsInvalid

(* The graph under validation is fixed by the list of nodes.               *)
LEMMA GraphIsFixed ==
    ASSUME UNCHANGED nodes
    PROVE  Ids' = Ids /\ dependencies' = dependencies /\ IdsUnique' = IdsUnique
BY DEF Ids, dependencies, IdsUnique

(* Peeling leaves every deadlocked set alone.                              *)
LEMMA PeelSparesDeadlocked ==
    ASSUME NEW C \in SUBSET Ids, Deadlocked(C, dependencies), C \subseteq remaining
    PROVE  C \subseteq remaining \ ready
<1> SUFFICES ASSUME NEW n \in C PROVE n \notin ready
  OBVIOUS
<1> QED BY DEF Deadlocked, ready

(* What remains when nothing is ready is deadlocked.                       *)
LEMMA StuckIsDeadlocked ==
    ASSUME ready = {}
    PROVE  Deadlocked(remaining, dependencies)
BY DEF Deadlocked, ready

(* The dependencies are those of the nodes that are named.                 *)
LEMMA DomainIsIds == DOMAIN dependencies = Ids
BY DEF dependencies

(* The validation begins with no node looked at.                           *)
LEMMA InitLoopInv == Init => LoopInv
BY DEF Init, LoopInv, TypeOK, DeadlockedSetsStay, RejectedIsInvalid, Ids

(* Every round of the validation keeps the invariant.                      *)
LEMMA NextLoopInv == LoopInv /\ [Next]_vars => LoopInv'
<1> SUFFICES ASSUME LoopInv, [Next]_vars PROVE LoopInv'
  OBVIOUS
<1> USE DEF LoopInv
<1>1. CASE Check
  <2>1. Ids' = Ids /\ dependencies' = dependencies /\ IdsUnique' = IdsUnique
    BY <1>1, GraphIsFixed DEF Check
  <2>2. CASE nodes # <<>> /\ IdsUnique /\ DependenciesKnown(dependencies)
    <3>1. verdict' = "peeling" /\ remaining' = Ids /\ nodes' = nodes
      BY <1>1, <2>2 DEF Check
    <3> QED BY <2>1, <2>2, <3>1 DEF TypeOK, DeadlockedSetsStay, RejectedIsInvalid
  <2>3. CASE ~(nodes # <<>> /\ IdsUnique /\ DependenciesKnown(dependencies))
    <3>1. verdict' = "rejected" /\ UNCHANGED <<remaining, nodes>>
      BY <1>1, <2>3 DEF Check
    <3>2. nodes = <<>> => DOMAIN dependencies = {}
      BY DomainIsIds DEF Ids
    <3>3. ~(IdsUnique /\ ValidPlan(dependencies))
      BY <2>3, <3>2 DEF ValidPlan
    <3> QED BY <2>1, <3>1, <3>3 DEF TypeOK, DeadlockedSetsStay, RejectedIsInvalid
  <2> QED BY <2>2, <2>3
<1>2. CASE Peel
  <2>1. Ids' = Ids /\ dependencies' = dependencies /\ IdsUnique' = IdsUnique
    BY <1>2, GraphIsFixed DEF Peel
  <2>2. \A C \in SUBSET Ids :
            Deadlocked(C, dependencies) => C \subseteq remaining \ ready
    BY <1>2, PeelSparesDeadlocked DEF Peel, DeadlockedSetsStay
  <2> QED BY <1>2, <2>1, <2>2 DEF Peel, TypeOK, DeadlockedSetsStay, RejectedIsInvalid
<1>3. CASE Reject
  <2>1. Ids' = Ids /\ dependencies' = dependencies /\ IdsUnique' = IdsUnique
    BY <1>3, GraphIsFixed DEF Reject
  <2>2. ~Acyclic(dependencies)
    BY <1>3, StuckIsDeadlocked, DomainIsIds DEF Reject, Acyclic, TypeOK
  <2> QED BY <1>3, <2>1, <2>2
          DEF Reject, TypeOK, DeadlockedSetsStay, RejectedIsInvalid, ValidPlan
<1>4. CASE Accept
  <2>1. Ids' = Ids /\ dependencies' = dependencies /\ IdsUnique' = IdsUnique
    BY <1>4, GraphIsFixed DEF Accept
  <2> QED BY <1>4, <2>1 DEF Accept, TypeOK, DeadlockedSetsStay, RejectedIsInvalid
<1>5. CASE UNCHANGED vars
  <2>1. Ids' = Ids /\ dependencies' = dependencies /\ IdsUnique' = IdsUnique
    BY <1>5, GraphIsFixed DEF vars
  <2> QED BY <1>5, <2>1 DEF vars, TypeOK, DeadlockedSetsStay, RejectedIsInvalid
<1> QED BY <1>1, <1>2, <1>3, <1>4, <1>5 DEF Next

(* When the loop accepts nothing remains, so no set of nodes is deadlocked.*)
LEMMA LoopInvDecides ==
    LoopInv /\ (verdict = "accepted" => remaining = {}) => AcceptedIsValid
<1> SUFFICES ASSUME LoopInv, verdict = "accepted", remaining = {}
             PROVE  IdsUnique /\ ValidPlan(dependencies)
  BY DEF AcceptedIsValid
<1>1. Ids # {}
  <2>1. nodes # <<>> /\ nodes \in Seq(NodeSpec)
    BY NodeListsAssumption DEF LoopInv, TypeOK, DeadlockedSetsStay
  <2>2. 1 \in DOMAIN nodes
    BY <2>1
  <2> QED BY <2>2 DEF Ids
<1>2. Acyclic(dependencies)
  BY DomainIsIds DEF LoopInv, DeadlockedSetsStay, Acyclic
<1> QED BY <1>1, <1>2, DomainIsIds DEF LoopInv, DeadlockedSetsStay, ValidPlan

AcceptsOnlyEmpty == verdict = "accepted" => remaining = {}

(* TaskPlan.__post_init__ keeps to its types.                              *)
THEOREM PlanTypeCorrect == Spec => []TypeOK
<1>1. LoopInv => TypeOK
  BY DEF LoopInv
<1> QED BY <1>1, InitLoopInv, NextLoopInv, PTL DEF Spec

(* A plan that TaskPlan accepts has nodes with unique ids and known,       *)
(* acyclic dependencies, however many nodes it has.                        *)
THEOREM AcceptedPlansAreValid == Spec => []AcceptedIsValid
<1>1. Init => AcceptsOnlyEmpty
  BY DEF Init, AcceptsOnlyEmpty
<1>2. AcceptsOnlyEmpty /\ [Next]_vars => AcceptsOnlyEmpty'
  BY DEF AcceptsOnlyEmpty, Next, vars, Check, Peel, Reject, Accept
<1>3. LoopInv /\ AcceptsOnlyEmpty => AcceptedIsValid
  BY LoopInvDecides DEF AcceptsOnlyEmpty
<1> QED BY <1>1, <1>2, <1>3, InitLoopInv, NextLoopInv, PTL DEF Spec

(* A plan that TaskPlan rejects really has clashing ids, no nodes, an      *)
(* unknown dependency or a cycle.                                          *)
THEOREM RejectedPlansAreInvalid == Spec => []RejectedIsInvalid
<1>1. LoopInv => RejectedIsInvalid
  BY DEF LoopInv
<1> QED BY <1>1, InitLoopInv, NextLoopInv, PTL DEF Spec

------------------------------------------------------------------------------
(* The textbook definition of a cycle is the same.  Reachable(n, deps) is  *)
(* the least set that holds what n depends on and whatever its members     *)
(* depend on: after as many rounds as there are nodes nothing new is met.  *)

Graph(deps) == IsFiniteSet(DOMAIN deps) /\ deps \in [DOMAIN deps -> SUBSET DOMAIN deps]

Closed(S, deps) == \A m \in S \cap DOMAIN deps : deps[m] \subseteq S

(* Reachable widens the dependencies of a node round by round.             *)
LEMMA ReachableRounds ==
    ASSUME NEW deps, Graph(deps), NEW n \in DOMAIN deps
    PROVE  \E reach \in [0..Cardinality(DOMAIN deps) -> SUBSET DOMAIN deps] :
               /\ reach[0] = deps[n]
               /\ \A k \in 1..Cardinality(DOMAIN deps) :
                      reach[k] = Wider(reach[k - 1], deps)
               /\ Reachable(n, deps) = reach[Cardinality(DOMAIN deps)]
<1> DEFINE N == Cardinality(DOMAIN deps)
           V == SUBSET DOMAIN deps
           step == [k \in 1..N |-> [S \in V |-> Wider(S, deps)]]
           Solves(f) == f = [k \in 0..N |-> IF k = 0 THEN deps[n]
                                            ELSE Wider(f[k - 1], deps)]
<1>1. N \in Nat
  BY FS_CardinalityType DEF Graph
<1>2. deps[n] \in V
  BY DEF Graph
<1>3. ASSUME NEW S \in V PROVE Wider(S, deps) \in V
  BY DEF Graph, Wider
<1>4. step \in Steps(N, V)
  BY <1>3 DEF Steps
<1>5. \A k \in 1..N : \A S \in V : step[k][S] = Wider(S, deps)
  OBVIOUS
<1> DEFINE base == deps[n]
<1> HIDE DEF N, step, V, base
<1>6. PICK f \in [0..N -> V] :
          f[0] = base /\ \A k \in 1..N : f[k] = step[k][f[k - 1]]
  <2>1. base \in V
    BY <1>2 DEF base
  <2> QED BY ONLY <1>1, <2>1, <1>4, RecursionExists
<1>7. \A k \in 1..N : k - 1 \in 0..N /\ k \in 0..N /\ k # 0
  BY <1>1
<1>8. \A k \in 1..N : f[k] = Wider(f[k - 1], deps)
  BY <1>5, <1>6, <1>7
<1>9. \A k \in 0..N : k = 0 \/ k \in 1..N
  BY <1>1
<1>10. Solves(f)
  BY <1>6, <1>8, <1>9 DEF base
<1>11. Reachable(n, deps) = (CHOOSE g : Solves(g))[N]
  BY DEF Reachable, N
<1> DEFINE g == CHOOSE g : Solves(g)
<1>12. Solves(g)
  <2> HIDE DEF Solves
  <2> QED BY <1>10
<1> HIDE DEF g
<1>13. 0 \in 0..N
  BY <1>1
<1>14. g[0] = deps[n] /\ \A k \in 1..N : g[k] = Wider(g[k - 1], deps)
  BY <1>7, <1>12, <1>13
<1> DEFINE T == {k \in 0..N : g[k] \in V}
<1>15. 0..N \subseteq T
  <2>1. 0 \in T
    BY <1>2, <1>13, <1>14
  <2>2. ASSUME NEW k \in 0..(N - 1), k \in T PROVE k + 1 \in T
    <3>1. k + 1 \in 1..N /\ (k + 1) - 1 = k /\ k + 1 \in 0..N
      BY <1>1
    <3>2. g[k + 1] = Wider(g[k], deps)
      BY <1>14, <3>1
    <3> QED BY <1>3, <2>2, <3>1, <3>2
  <2> HIDE DEF T
  <2>3. 0 \in Int /\ N \in Int
    BY <1>1
  <2> QED BY ONLY <2>1, <2>2, <2>3, UpwardInduction
<1>16. g \in [0..N -> V]
  BY <1>12, <1>15
<1> QED BY <1>11, <1>14, <1>16 DEF N, V, g

(* ... until it has all that is reached, and no more.                      *)
LEMMA ReachableIsClosure ==
    ASSUME NEW deps, Graph(deps), NEW n \in DOMAIN deps
    PROVE  /\ Reachable(n, deps) \subseteq DOMAIN deps
           /\ deps[n] \subseteq Reachable(n, deps)
           /\ Closed(Reachable(n, deps), deps)
           /\ \A S : deps[n] \subseteq S /\ Closed(S, deps) => Reachable(n, deps) \subseteq S
<1> DEFINE N == Cardinality(DOMAIN deps)
<1>1. N \in Nat
  BY FS_CardinalityType DEF Graph
<1> HIDE DEF N
<1>2. PICK reach \in [0..N -> SUBSET DOMAIN deps] :
          /\ reach[0] = deps[n]
          /\ \A k \in 1..N : reach[k] = Wider(reach[k - 1], deps)
          /\ Reachable(n, deps) = reach[N]
  BY ReachableRounds DEF N
<1>3. 0 \in 0..N /\ N \in 0..N /\ 0 \in Int /\ N \in Int
  BY <1>1
<1>4. ASSUME NEW k \in 0..(N - 1)
      PROVE  k + 1 \in 0..N /\ k \in 0..N /\ reach[k + 1] = Wider(reach[k], deps)
  <2>1. k + 1 \in 1..N /\ (k + 1) - 1 = k
    BY <1>1
  <2> QED BY <1>1, <1>2, <2>1
<1>5. ASSUME NEW S, deps[n] \subseteq S, Closed(S, deps)
      PROVE  Reachable(n, deps) \subseteq S
  <2> DEFINE T == {k \in 0..N : reach[k] \subseteq S}
  <2>1. 0 \in T
    BY <1>2, <1>3, <1>5
  <2>2. ASSUME NEW k \in 0..(N - 1), k \in T PROVE k + 1 \in T
    BY <1>4, <1>5, <2>2 DEF Wider, Closed
  <2> HIDE DEF T
  <2>3. 0..N \subseteq T
    BY ONLY <1>3, <2>1, <2>2, UpwardInduction
  <2> QED BY <1>2, <1>3, <2>3 DEF T
<1>6. deps[n] \subseteq Reachable(n, deps)
  <2> DEFINE T == {k \in 0..N : deps[n] \subseteq reach[k]}
  <2>1. 0 \in T
    BY <1>2, <1>3
  <2>2. ASSUME NEW k \in 0..(N - 1), k \in T PROVE k + 1 \in T
    BY <1>4, <2>2 DEF Wider
  <2> HIDE DEF T
  <2>3. 0..N \subseteq T
    BY ONLY <1>3, <2>1, <2>2, UpwardInduction
  <2> QED BY <1>2, <1>3, <2>3 DEF T
<1>7. Closed(Reachable(n, deps), deps)
  <2> DEFINE T == {k \in 0..N : Closed(reach[k], deps) \/ Cardinality(reach[k]) >= k}
  <2>1. 0 \in T
    <3>1. IsFiniteSet(reach[0])
      BY <1>2, <1>3, FS_Subset DEF Graph
    <3>2. Cardinality(reach[0]) \in Nat
      BY <3>1, FS_CardinalityType
    <3> QED BY <1>3, <3>2
  <2>2. ASSUME NEW k \in 0..(N - 1), k \in T PROVE k + 1 \in T
    <3>1. reach[k + 1] = Wider(reach[k], deps) /\ k + 1 \in 0..N
      BY <1>4
    <3>2. CASE Closed(reach[k], deps)
      <4>1. reach[k + 1] = reach[k]
        BY <3>1, <3>2 DEF Closed, Wider
      <4> QED BY <3>1, <3>2, <4>1
    <3>3. CASE ~Closed(reach[k], deps)
      <4>1. Cardinality(reach[k]) >= k
        BY <2>2, <3>3
      <4>2. reach[k] \subseteq reach[k + 1] /\ reach[k] # reach[k + 1]
        BY <3>1, <3>3 DEF Closed, Wider
      <4>3. reach[k + 1] \in SUBSET DOMAIN deps
        BY <1>2, <3>1
      <4>4. IsFiniteSet(reach[k + 1])
        BY <4>3, FS_Subset DEF Graph
      <4>5. /\ IsFiniteSet(reach[k])
            /\ Cardinality(reach[k]) <= Cardinality(reach[k + 1])
            /\ Cardinality(reach[k]) # Cardinality(reach[k + 1])
        BY <4>2, <4>4, FS_Subset
      <4>6. Cardinality(reach[k]) \in Nat /\ Cardinality(reach[k + 1]) \in Nat
        BY <4>4, <4>5, FS_CardinalityType
      <4>7. Cardinality(reach[k + 1]) >= k + 1
        BY <4>1, <4>5, <4>6
      <4> QED BY <3>1, <4>7
    <3> QED BY <3>2, <3>3
  <2> HIDE DEF T
  <2>3. 0..N \subseteq T
    BY ONLY <1>3, <2>1, <2>2, UpwardInduction
  <2>4. Closed(reach[N], deps) \/ Cardinality(reach[N]) >= N
    BY <1>3, <2>3 DEF T
  <2>5. CASE Cardinality(reach[N]) >= N
    <3>1. /\ IsFiniteSet(reach[N]) /\ Cardinality(reach[N]) <= N
          /\ N = Cardinality(reach[N]) => DOMAIN deps = reach[N]
      BY <1>2, <1>3, FS_Subset DEF Graph, N
    <3>2. Cardinality(reach[N]) \in Nat
      BY <3>1, FS_CardinalityType
    <3>3. reach[N] = DOMAIN deps
      BY <1>1, <2>5, <3>1, <3>2
    <3> QED BY <1>2, <3>3 DEF Graph, Closed
  <2> QED BY <1>2, <2>4, <2>5
<1> QED BY <1>2, <1>3, <1>5, <1>6, <1>7

(* Whatever n reaches it reaches through a dependency.                     *)
LEMMA ReachedThroughDependency ==
    ASSUME NEW deps, Graph(deps), NEW n \in DOMAIN deps, NEW x \in Reachable(n, deps)
    PROVE  \E d \in deps[n] : x = d \/ x \in Reachable(d, deps)
<1> DEFINE S == deps[n] \cup UNION {Reachable(d, deps) : d \in deps[n]}
<1>1. \A d \in deps[n] : d \in DOMAIN deps
  BY DEF Graph
<1>2. ASSUME NEW m \in S \cap DOMAIN deps PROVE deps[m] \subseteq S
  <2>1. CASE m \in deps[n]
    <3>1. deps[m] \subseteq Reachable(m, deps)
      BY <1>1, <2>1, ReachableIsClosure
    <3> QED BY <2>1, <3>1
  <2>2. CASE \E d \in deps[n] : m \in Reachable(d, deps)
    <3>1. PICK d \in deps[n] : m \in Reachable(d, deps)
      BY <2>2
    <3>2. Closed(Reachable(d, deps), deps)
      BY <1>1, ReachableIsClosure
    <3>3. deps[m] \subseteq Reachable(d, deps)
      BY <3>1, <3>2 DEF Closed
    <3> QED BY <3>3
  <2> QED BY <2>1, <2>2
<1>3. deps[n] \subseteq S /\ Closed(S, deps)
  BY <1>2 DEF Closed
<1> HIDE DEF S
<1>4. x \in S
  BY <1>3, ReachableIsClosure
<1> QED BY <1>4 DEF S

(* Where no set of nodes deadlocks no node reaches itself: the nodes from  *)
(* which n can be reached deadlock if n is one of them.  And in a set that *)
(* deadlocks, a node from which the fewest of the set can be reached       *)
(* depends on one of them from which no fewer can: so that one reaches all *)
(* of these, itself among them.                                            *)
LEMMA CyclesAreDeadlocks ==
    ASSUME NEW deps, Graph(deps)
    PROVE  Acyclic(deps) <=> NoNodeReachesItself(deps)
<1>1. ASSUME NEW n \in DOMAIN deps, n \in Reachable(n, deps) PROVE ~Acyclic(deps)
  <2> DEFINE P == {m \in DOMAIN deps : n \in Reachable(m, deps)}
  <2>1. ASSUME NEW m \in P PROVE deps[m] \cap P # {}
    <3>1. PICK d \in deps[m] : n = d \/ n \in Reachable(d, deps)
      BY ReachedThroughDependency
    <3>2. d \in DOMAIN deps
      BY DEF Graph
    <3>3. d \in P
      BY <1>1, <3>1, <3>2
    <3> QED BY <3>3
  <2>2. n \in P
    BY <1>1
  <2> QED BY <2>1, <2>2 DEF Acyclic, Deadlocked
<1>2. ASSUME NEW C \in SUBSET DOMAIN deps, C # {}, Deadlocked(C, deps)
      PROVE  \E n \in DOMAIN deps : n \in Reachable(n, deps)
  <2> DEFINE Met(n) == Reachable(n, deps) \cap C
             sizes == {Cardinality(Met(n)) : n \in C}
  <2>1. ASSUME NEW n \in C
        PROVE  IsFiniteSet(Met(n)) /\ Cardinality(Met(n)) \in Nat
    <3>1. Met(n) \in SUBSET DOMAIN deps
      OBVIOUS
    <3>2. IsFiniteSet(Met(n))
      BY <3>1, FS_Subset DEF Graph
    <3> QED BY <3>2, FS_CardinalityType
  <2>2. sizes \in SUBSET Nat /\ sizes # {}
    BY <1>2, <2>1
  <2>3. PICK size \in sizes : \A other \in sizes : size <= other
    <3> HIDE DEF sizes
    <3> QED BY <2>2, LeastNumber
  <2>4. PICK n \in C : \A m \in C : Cardinality(Met(n)) <= Cardinality(Met(m))
    <3>1. PICK n \in C : size = Cardinality(Met(n))
      OBVIOUS
    <3> QED BY <2>3, <3>1
  <2>5. PICK m \in deps[n] : m \in C
    BY <1>2 DEF Deadlocked
  <2>6. m \in DOMAIN deps /\ n \in DOMAIN deps
    BY <2>5
  <2>7. m \in Reachable(n, deps) /\ Closed(Reachable(n, deps), deps)
    BY <2>5, <2>6, ReachableIsClosure
  <2>8. deps[m] \subseteq Reachable(n, deps)
    BY <2>6, <2>7 DEF Closed
  <2>9. Reachable(m, deps) \subseteq Reachable(n, deps)
    BY <2>6, <2>7, <2>8, ReachableIsClosure
  <2>10. Met(m) \in SUBSET Met(n)
    BY <2>9
  <2> HIDE DEF Met
  <2>11. /\ Cardinality(Met(m)) <= Cardinality(Met(n))
         /\ Cardinality(Met(n)) = Cardinality(Met(m)) => Met(n) = Met(m)
    BY <2>1, <2>4, <2>10, FS_Subset
  <2>12. Met(n) = Met(m)
    BY <2>1, <2>4, <2>5, <2>11
  <2>13. m \in Met(n)
    BY <2>5, <2>7 DEF Met
  <2> QED BY <2>6, <2>12, <2>13 DEF Met
<1> QED BY <1>1, <1>2 DEF Acyclic, NoNodeReachesItself

(* Known dependencies are a finite graph.                                  *)
LEMMA DependenciesAreGraph ==
    ASSUME TypeOK, DependenciesKnown(dependencies)
    PROVE  Graph(dependencies)
<1>1. nodes \in Seq(NodeSpec)
  BY NodeListsAssumption DEF TypeOK
<1>2. IsFiniteSet(Ids)
  <2> DEFINE ids == [i \in 1..Len(nodes) |-> nodes[i].id]
  <2>1. Len(nodes) \in Nat /\ DOMAIN nodes = 1..Len(nodes)
    BY <1>1
  <2>2. IsFiniteSet(1..Len(nodes))
    BY <2>1, FS_Interval
  <2>3. ids \in Surjection(1..Len(nodes), Ids)
    BY <2>1 DEF Surjection, Ids
  <2> QED BY <2>2, <2>3, FS_Surjection
<1> QED BY <1>2, DomainIsIds DEF Graph, DependenciesKnown, dependencies

(* What the loop decides about a plan that passed the earlier checks is    *)
(* what the textbook definition of a cycle says, for graphs of any size.   *)
THEOREM VerdictsAreTextbook == Spec => []VerdictIsReachability
<1>1. TypeOK /\ AcceptedIsValid /\ RejectedIsInvalid => VerdictIsReachability
  <2> SUFFICES ASSUME TypeOK, AcceptedIsValid, RejectedIsInvalid,
                      verdict \in {"accepted", "rejected"}, nodes # <<>>, IdsUnique,
                      DependenciesKnown(dependencies)
               PROVE  verdict = "accepted" <=> NoNodeReachesItself(dependencies)
    BY DEF VerdictIsReachability
  <2>1. Acyclic(dependencies) <=> NoNodeReachesItself(dependencies)
    BY DependenciesAreGraph, CyclesAreDeadlocks
  <2>2. DOMAIN dependencies # {}
    <3>1. nodes \in Seq(NodeSpec)
      BY NodeListsAssumption DEF TypeOK
    <3>2. 1 \in DOMAIN nodes
      BY <3>1
    <3> QED BY <3>2, DomainIsIds DEF Ids
  <2> QED BY <2>1, <2>2 DEF AcceptedIsValid, RejectedIsInvalid, ValidPlan
<1> QED BY <1>1, PlanTypeCorrect, AcceptedPlansAreValid, RejectedPlansAreInvalid, PTL
===============================================================================
