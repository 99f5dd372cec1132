--------------------------- MODULE AgentRequestProofs ---------------------------
(***************************************************************************)
(* What the model is asked, for every conversation, budget and summary:    *)
(* the mandatory items and the latest whole units, as many as fit.         *)
(*                                                                         *)
(* The first part is about the operators of ContextWindow: the loop of     *)
(* group_context_units cuts the items into units in one way, and what is   *)
(* left after some of them is cut into the others.  The second part is     *)
(* about the loop that sends what they compute.                            *)
(***************************************************************************)
EXTENDS AgentLoopProofs, CommonLemmas

(* What the inner loops of group_context_units skip is what they should.   *)
LEMMA SkipStops ==
    ASSUME NEW items \in Seq(ContextItem), NEW P \in SUBSET (1..Len(items)),
           NEW index \in 1..(Len(items) + 1)
    PROVE  /\ Skip(items, P, index) \in index..(Len(items) + 1)
           /\ index..(Skip(items, P, index) - 1) \subseteq P
           /\ Skip(items, P, index) \notin P
<1> DEFINE n == Len(items)
           T == {k \in index..(n + 1) : k \notin P}
<1>1. n \in Nat
  OBVIOUS
<1> HIDE DEF n
<1>2. n + 1 \in T /\ T \in SUBSET Nat
  BY <1>1 DEF n
<1>3. PICK k \in T : \A j \in T : k <= j
  <2> HIDE DEF T
  <2> QED BY <1>2, LeastNumber
<1>4. ASSUME NEW j \in index..(k - 1) PROVE j \in P
  <2>1. j \in index..(n + 1) /\ ~(k <= j)
    BY <1>1
  <2> QED BY <1>3, <2>1
<1>5. \E e \in index..(n + 1) : index..(e - 1) \subseteq P /\ e \notin P
  BY <1>4
<1> QED BY <1>5 DEF Skip, n

(* ... and there is one place where it stops.                              *)
LEMMA SkipStopsAt ==
    ASSUME NEW items \in Seq(ContextItem), NEW P \in SUBSET (1..Len(items)),
           NEW index \in 1..(Len(items) + 1), NEW k \in index..(Len(items) + 1),
           index..(k - 1) \subseteq P, k \notin P
    PROVE  Skip(items, P, index) = k
<1> DEFINE e == Skip(items, P, index)
<1>1. e \in index..(Len(items) + 1) /\ index..(e - 1) \subseteq P /\ e \notin P
  BY SkipStops
<1> HIDE DEF e
<1>2. ~(e < k)
  BY <1>1
<1>3. ~(k < e)
  BY <1>1
<1> QED BY <1>1, <1>2, <1>3 DEF e

(* The places of the items of a type, and of the results that belong to    *)
(* the calls from first to end.                                            *)
Of(items, type) == {j \in DOMAIN items : items[j].type = type}

ResultsOf(items, first, end) ==
    {j \in DOMAIN items : /\ items[j].type = "tool_result"
                          /\ items[j].call \in {items[i].call : i \in first..(end - 1)}}

(* The two loops, one after the other.                                     *)
LEMMA NextIndex ==
    ASSUME NEW items \in Seq(ContextItem), NEW index \in 1..Len(items)
    PROVE  /\ index \notin Of(items, "tool_call") => next_index(items, index) = index + 1
           /\ index \in Of(items, "tool_call") =>
                  \E c \in (index + 1)..(Len(items) + 1) :
                      /\ c = Skip(items, Of(items, "tool_call"), index)
                      /\ next_index(items, index) = Skip(items, ResultsOf(items, index, c), c)
           /\ next_index(items, index) \in (index + 1)..(Len(items) + 1)
<1> DEFINE calls == Of(items, "tool_call")
           c == Skip(items, calls, index)
           results == ResultsOf(items, index, c)
<1>1. next_index(items, index) =
          IF index \in calls THEN Skip(items, results, c) ELSE index + 1
  BY DEF next_index, Of, ResultsOf
<1>2. calls \in SUBSET (1..Len(items)) /\ results \in SUBSET (1..Len(items))
  BY DEF Of, ResultsOf
<1>3. c \in index..(Len(items) + 1) /\ c \notin calls
  <2> HIDE DEF calls, c
  <2>1. index \in 1..(Len(items) + 1)
    OBVIOUS
  <2> QED BY <1>2, <2>1, SkipStops DEF c
<1> HIDE DEF calls, c, results
<1>4. CASE index \in calls
  <2>1. c \in (index + 1)..(Len(items) + 1)
    BY <1>3, <1>4
  <2>2. c \in 1..(Len(items) + 1)
    BY <2>1
  <2>3. Skip(items, results, c) \in c..(Len(items) + 1)
    BY <1>2, <2>2, SkipStops
  <2>4. next_index(items, index) = Skip(items, results, c)
    BY <1>1, <1>4
  <2>5. next_index(items, index) \in (index + 1)..(Len(items) + 1)
    BY <2>1, <2>3, <2>4
  <2> QED BY <1>4, <2>1, <2>4, <2>5 DEF c, calls, results
<1>5. CASE index \notin calls
  BY <1>1, <1>5 DEF calls
<1> QED BY <1>4, <1>5

(* The items from a place on.                                              *)
From(items, a) == SubSeq(items, a, Len(items))

(* ... are as many as are left, in their order.                            *)
LEMMA FromItems ==
    ASSUME NEW V, NEW items \in Seq(V), NEW a \in 1..(Len(items) + 1)
    PROVE  /\ From(items, a) \in Seq(V)
           /\ Len(From(items, a)) = Len(items) - a + 1
           /\ DOMAIN From(items, a) = 1..(Len(items) - a + 1)
           /\ \A j \in 1..(Len(items) - a + 1) : From(items, a)[j] = items[j + a - 1]
BY DEF From

(* Skipping goes the same way without the items before.                    *)
LEMMA SkipFrom ==
    ASSUME NEW items \in Seq(ContextItem), NEW a \in 1..(Len(items) + 1),
           NEW P \in SUBSET (1..Len(items)), NEW i \in 1..(Len(items) - a + 2),
           NEW Q, Q = {j \in 1..(Len(items) - a + 1) : j + a - 1 \in P}
    PROVE  Skip(From(items, a), Q, i) = Skip(items, P, i + a - 1) - (a - 1)
<1> DEFINE s == From(items, a)
           n == Len(items)
           e == Skip(items, P, i + a - 1)
<1>1. s \in Seq(ContextItem) /\ Len(s) = n - a + 1 /\ n \in Nat /\ a \in Nat
  BY FromItems
<1>2. i + a - 1 \in 1..(n + 1)
  OBVIOUS
<1> HIDE DEF s
<1>3. e \in (i + a - 1)..(n + 1) /\ (i + a - 1)..(e - 1) \subseteq P /\ e \notin P
  BY <1>2, SkipStops
<1> HIDE DEF e, n
<1> DEFINE k == e - (a - 1)
<1>4. /\ k \in i..(n - a + 2) /\ i \in 1..(n - a + 2) /\ k \in Int
      /\ k + a - 1 = e
  BY <1>1, <1>3 DEF n
<1>5. ASSUME NEW j \in i..(k - 1) PROVE j \in Q
  <2>1. j + a - 1 \in (i + a - 1)..(e - 1) /\ j \in 1..(n - a + 1)
    BY <1>1, <1>3, <1>4
  <2> QED BY <1>3, <2>1 DEF n
<1>6. k \notin Q
  BY <1>3, <1>4
<1>7. Q \in SUBSET (1..Len(s))
  BY <1>1 DEF n
<1>8. /\ i \in 1..(Len(s) + 1) /\ k \in i..(Len(s) + 1)
  BY <1>1, <1>4
<1> HIDE DEF k
<1>9. i..(k - 1) \subseteq Q
  BY <1>5
<1>10. Skip(s, Q, i) = k
  BY ONLY <1>1, <1>6, <1>7, <1>8, <1>9, SkipStopsAt
<1> QED BY <1>10 DEF k, s, e

(* A unit ends at the same item when the ones before are left out.         *)
LEMMA NextIndexFrom ==
    ASSUME NEW items \in Seq(ContextItem), NEW a \in 1..(Len(items) + 1),
           NEW i \in 1..(Len(items) - a + 1)
    PROVE  next_index(From(items, a), i) = next_index(items, i + a - 1) - (a - 1)
<1> DEFINE s == From(items, a)
           n == Len(items)
           p == i + a - 1
           calls == Of(items, "tool_call")
           own_calls == Of(s, "tool_call")
<1>1. /\ s \in Seq(ContextItem) /\ Len(s) = n - a + 1 /\ n \in Nat /\ a \in Nat
      /\ DOMAIN s = 1..(n - a + 1) /\ DOMAIN items = 1..n
      /\ \A j \in 1..(n - a + 1) : s[j] = items[j + a - 1]
  BY FromItems
<1> HIDE DEF s
<1>2. p \in 1..n /\ i \in 1..Len(s) /\ p \in Nat /\ i \in Nat
  BY <1>1
<1>3. own_calls = {j \in 1..(n - a + 1) : j + a - 1 \in calls}
  <2>1. \A j \in 1..(n - a + 1) : j + a - 1 \in 1..n
    BY <1>1
  <2> QED BY <1>1, <2>1 DEF Of
<1>4. calls \in SUBSET (1..n)
  BY DEF Of
<1>5. CASE p \notin calls
  <2>1. i \notin own_calls
    BY <1>3, <1>5
  <2>2. next_index(s, i) = i + 1 /\ next_index(items, p) = p + 1
    BY <1>1, <1>2, <1>5, <2>1, NextIndex
  <2>3. i + 1 = (p + 1) - (a - 1)
    BY <1>1
  <2> QED BY <2>2, <2>3 DEF s
<1>6. CASE p \in calls
  <2>1. i \in own_calls
    BY <1>1, <1>2, <1>3, <1>6
  <2>2. PICK c \in (p + 1)..(n + 1) :
            /\ c = Skip(items, calls, p)
            /\ next_index(items, p) = Skip(items, ResultsOf(items, p, c), c)
    BY <1>2, <1>6, NextIndex
  <2>3. PICK d \in (i + 1)..(Len(s) + 1) :
            /\ d = Skip(s, own_calls, i)
            /\ next_index(s, i) = Skip(s, ResultsOf(s, i, d), d)
    BY <1>1, <1>2, <2>1, NextIndex
  <2>4. i \in 1..(n - a + 2)
    BY <1>1
  <2> HIDE DEF p, calls, own_calls
  <2>5. Skip(s, own_calls, i) = Skip(items, calls, i + a - 1) - (a - 1)
    BY <1>3, <1>4, <2>4, SkipFrom DEF s
  <2>6. d = c - (a - 1) /\ d \in 1..(n - a + 2) /\ c = d + a - 1
    <3>1. d = c - (a - 1)
      BY <2>2, <2>3, <2>5 DEF p
    <3>2. n - a + 1 \in Int /\ d \in (i + 1)..(n - a + 1 + 1)
      BY <1>1, <2>3
    <3>3. c \in Int /\ d \in Int /\ a \in Int /\ i \in Nat
      BY <1>1, <1>2, <2>2, <2>3
    <3>4. i >= 1
      BY <1>2
    <3>5. n \in Int
      BY <1>1
    <3> HIDE DEF n
    <3> QED BY <3>1, <3>2, <3>3, <3>4, <3>5
  <2>10. p \in Int /\ p = i + a - 1 /\ i \in Int /\ a \in Int /\ c \in Int /\ n \in Int /\ d \in Int
    BY <1>1, <1>2, <2>2, <2>3 DEF p
  <2>11. i >= 1 /\ d <= n - a + 2
    BY <1>1, <1>2, <2>6
  <2> DEFINE results == ResultsOf(items, p, c)
             own_results == ResultsOf(s, i, d)
  <2>7. own_results = {j \in 1..(n - a + 1) : j + a - 1 \in results}
    <3>1. {s[j].call : j \in i..(d - 1)} = {items[j].call : j \in p..(c - 1)}
      <4>1. ASSUME NEW j \in i..(d - 1)
            PROVE  j + a - 1 \in p..(c - 1) /\ s[j] = items[j + a - 1]
        <5>1. j \in 1..(n - a + 1) /\ j + a - 1 \in p..(c - 1)
          <6> HIDE DEF n
          <6> QED BY <2>6, <2>10, <2>11
        <5> QED BY <1>1, <5>1
      <4>2. ASSUME NEW j \in p..(c - 1)
            PROVE  j - a + 1 \in i..(d - 1) /\ s[j - a + 1] = items[j]
        <5>1. /\ j - a + 1 \in i..(d - 1) /\ (j - a + 1) + a - 1 = j
              /\ j - a + 1 \in 1..(n - a + 1)
          <6> HIDE DEF n
          <6> QED BY <2>6, <2>10, <2>11
        <5> QED BY <1>1, <5>1
      <4> HIDE DEF s, p
      <4>3. {s[j].call : j \in i..(d - 1)} \subseteq {items[j].call : j \in p..(c - 1)}
        BY ONLY <4>1
      <4>4. {items[j].call : j \in p..(c - 1)} \subseteq {s[j].call : j \in i..(d - 1)}
        BY ONLY <4>2
      <4> QED BY ONLY <4>3, <4>4
    <3>2. \A j \in 1..(n - a + 1) : j + a - 1 \in 1..n
      BY <1>1
    <3>3. own_results = {j \in 1..(n - a + 1) :
                            /\ s[j].type = "tool_result"
                            /\ s[j].call \in {s[k].call : k \in i..(d - 1)}}
      BY <1>1 DEF ResultsOf
    <3>4. results = {j \in 1..n :
                        /\ items[j].type = "tool_result"
                        /\ items[j].call \in {items[k].call : k \in p..(c - 1)}}
      BY <1>1 DEF ResultsOf
    <3> HIDE DEF own_results, results, n
    <3> QED BY <1>1, <3>1, <3>2, <3>3, <3>4
  <2>8. results \in SUBSET (1..n)
    BY DEF ResultsOf
  <2> HIDE DEF results, own_results
  <2>9. Skip(s, own_results, d) = Skip(items, results, d + a - 1) - (a - 1)
    BY <2>6, <2>7, <2>8, SkipFrom DEF s
  <2> QED BY <2>2, <2>3, <2>6, <2>9 DEF results, own_results, s, p
<1> QED BY <1>5, <1>6

(* The index after a round, from the index before.                         *)
Advance(items, i) == IF i > Len(items) THEN i ELSE next_index(items, i)

(* A round of the loop leaves the index on an item or right after the      *)
(* last.                                                                   *)
LEMMA AdvanceType ==
    ASSUME NEW items \in Seq(ContextItem), NEW i \in 1..(Len(items) + 1)
    PROVE  Advance(items, i) \in 1..(Len(items) + 1)
<1>1. CASE i > Len(items)
  BY <1>1 DEF Advance
<1>2. CASE ~(i > Len(items))
  <2>1. i \in 1..Len(items)
    BY <1>2
  <2>2. next_index(items, i) \in (i + 1)..(Len(items) + 1)
    BY <2>1, NextIndex
  <2> QED BY <1>2, <2>2 DEF Advance
<1> QED BY <1>1, <1>2

(* The indices are made round by round, from the first item on.            *)
LEMMA IndicesRounds ==
    ASSUME NEW items, items \in Seq(ContextItem)
    PROVE  LET n == Len(items)
               index == Indices(items)
           IN  /\ index \in [0..n -> 1..(n + 1)]
               /\ index[0] = 1
               /\ \A k \in 1..n : index[k] = Advance(items, index[k - 1])
<1> DEFINE N == Len(items)
           V == 1..(N + 1)
           next == [k \in 1..N |-> [i \in V |-> Advance(items, i)]]
           base == 1
<1>1. N \in Nat
  OBVIOUS
<1>2. ASSUME NEW i \in V PROVE Advance(items, i) \in V
  BY AdvanceType
<1>3. next \in Steps(N, V)
  BY <1>2 DEF Steps
<1>4. \A k \in 1..N : \A i \in V : next[k][i] = Advance(items, i)
  OBVIOUS
<1>5. 1 \in V
  BY <1>1
<1> HIDE DEF N, next, V, base
<1>6. PICK f \in [0..N -> V] :
          f[0] = base /\ \A k \in 1..N : f[k] = next[k][f[k - 1]]
  <2>1. base \in V
    BY <1>5 DEF base
  <2> QED BY ONLY <1>1, <2>1, <1>3, RecursionExists
<1> DEFINE Solves(h) == h = [k \in 0..N |-> IF k = 0 THEN 1
                                            ELSE Advance(items, h[k - 1])]
<1>7. \A k \in 1..N : k - 1 \in 0..N /\ k \in 0..N /\ k # 0
  BY <1>1
<1>8. \A k \in 1..N : f[k] = Advance(items, f[k - 1])
  BY <1>4, <1>6, <1>7
<1>9. \A k \in 0..N : k = 0 \/ k \in 1..N
  BY <1>1
<1>10. Solves(f)
  BY <1>6, <1>8, <1>9 DEF base
<1>11. Indices(items) = CHOOSE g : Solves(g)
  BY DEF Indices, N, Advance
<1> DEFINE g == CHOOSE g : Solves(g)
<1>12. Solves(g)
  <2> HIDE DEF Solves
  <2> QED BY <1>10
<1> HIDE DEF g
<1>13. 0 \in 0..N
  BY <1>1
<1>14. g[0] = 1 /\ \A k \in 1..N : g[k] = Advance(items, g[k - 1])
  BY <1>7, <1>12, <1>13
<1> DEFINE T == {k \in 0..N : g[k] \in V}
<1>15. 0..N \subseteq T
  <2>1. 0 \in T
    BY <1>5, <1>13, <1>14
  <2>2. ASSUME NEW k \in 0..(N - 1), k \in T PROVE k + 1 \in T
    <3>1. k + 1 \in 1..N /\ (k + 1) - 1 = k /\ k + 1 \in 0..N
      BY <1>1
    <3>2. g[k + 1] = Advance(items, g[k])
      BY <1>14, <3>1
    <3> QED BY <1>2, <2>2, <3>1, <3>2
  <2> HIDE DEF T
  <2>3. 0 \in Int /\ N \in Int
    BY <1>1
  <2> QED BY ONLY <2>1, <2>2, <2>3, UpwardInduction
<1>16. g \in [0..N -> V]
  BY <1>12, <1>15
<1> QED BY <1>11, <1>14, <1>16 DEF N, V, g

(* The boundaries of m units that are all of the items.                    *)
IsCut(items, m, b) ==
    /\ m \in Nat
    /\ b \in [0..m -> 1..(Len(items) + 1)]
    /\ b[0] = 1 /\ b[m] = Len(items) + 1
    /\ \A k \in 1..m : b[k - 1] <= Len(items) /\ b[k] = next_index(items, b[k - 1])

(* Every unit of a cut has an item.                                        *)
LEMMA CutIncreases ==
    ASSUME NEW items \in Seq(ContextItem), NEW m, NEW b, IsCut(items, m, b)
    PROVE  \A k \in 1..m : /\ b[k - 1] \in 1..Len(items)
                           /\ b[k] \in (b[k - 1] + 1)..(Len(items) + 1)
<1> SUFFICES ASSUME NEW k \in 1..m
             PROVE  /\ b[k - 1] \in 1..Len(items)
                    /\ b[k] \in (b[k - 1] + 1)..(Len(items) + 1)
  OBVIOUS
<1>1. m \in Nat /\ k - 1 \in 0..m
  BY DEF IsCut
<1>2. b[k - 1] \in 1..(Len(items) + 1) /\ b[k - 1] <= Len(items)
  BY <1>1 DEF IsCut
<1>3. b[k - 1] \in 1..Len(items)
  BY <1>2
<1> QED BY <1>3, NextIndex DEF IsCut

UnitsBetween(items, m, b) == [k \in 1..m |-> SubSeq(items, b[k - 1], b[k] - 1)]

(* The loop makes such units.                                              *)
LEMMA UnitsAreCut ==
    ASSUME NEW items \in Seq(ContextItem)
    PROVE  \E m, b : /\ IsCut(items, m, b)
                     /\ group_context_units(items) = UnitsBetween(items, m, b)
<1> DEFINE n == Len(items)
           index == Indices(items)
<1>1. /\ n \in Nat /\ index \in [0..n -> 1..(n + 1)] /\ index[0] = 1
      /\ \A k \in 1..n : index[k] = Advance(items, index[k - 1])
  BY IndicesRounds
<1>2. group_context_units(items) =
          [k \in {k \in 1..n : index[k - 1] <= n} |-> SubSeq(items, index[k - 1], index[k] - 1)]
  BY DEF group_context_units
<1>3. ASSUME NEW k \in 1..n
      PROVE  /\ index[k - 1] > n => index[k] = index[k - 1]
             /\ index[k - 1] <= n => /\ index[k] = next_index(items, index[k - 1])
                                     /\ index[k] \in (index[k - 1] + 1)..(n + 1)
  <2>1. k - 1 \in 0..n
    BY <1>1
  <2>2. index[k - 1] \in 1..(n + 1)
    BY <1>1, <2>1
  <2>3. index[k - 1] <= n => index[k - 1] \in 1..Len(items)
    BY <2>2
  <2> QED BY <1>1, <2>2, <2>3, NextIndex DEF Advance
<1> HIDE DEF n, index
<1> DEFINE S == {k \in 0..n : index[k] > k}
<1>4. 0..n \subseteq S
  <2>1. 0 \in S
    BY <1>1
  <2>2. ASSUME NEW k \in 0..(n - 1), k \in S PROVE k + 1 \in S
    <3>1. k + 1 \in 1..n /\ (k + 1) - 1 = k /\ k + 1 \in 0..n /\ k \in 0..n /\ k \in Int
      BY <1>1
    <3>2. index[k] \in 1..(n + 1) /\ index[k] > k
      BY <1>1, <2>2, <3>1
    <3>3. index[k] > n => index[k + 1] = index[k]
      BY <1>3, <3>1
    <3>4. index[k] <= n => index[k + 1] \in (index[k] + 1)..(n + 1)
      BY <1>3, <3>1
    <3>5. index[k + 1] > k + 1
      BY SMTT(20), <1>1, <3>1, <3>2, <3>3, <3>4
    <3> QED BY <3>1, <3>5
  <2>3. 0 \in Int /\ n \in Int
    BY <1>1
  <2> HIDE DEF S
  <2> QED BY ONLY <2>1, <2>2, <2>3, UpwardInduction
<1> DEFINE Done == {k \in 0..n : index[k] = n + 1}
<1>5. n \in Done /\ Done \in SUBSET Nat
  <2>1. n \in 0..n
    BY <1>1
  <2>2. index[n] \in 1..(n + 1) /\ index[n] > n
    BY <1>1, <1>4, <2>1
  <2> QED BY <1>1, <2>1, <2>2
<1>6. PICK m \in Done : \A k \in Done : m <= k
  <2> HIDE DEF Done
  <2> QED BY <1>5, LeastNumber
<1>7. m \in 0..n /\ index[m] = n + 1 /\ m \in Nat
  OBVIOUS
<1>8. ASSUME NEW k \in 0..n, k < m PROVE index[k] \in 1..n
  <2>1. index[k] \in 1..(n + 1) /\ k \notin Done
    BY <1>1, <1>6, <1>7, <1>8
  <2> QED BY <1>1, <2>1
<1>9. m..n \subseteq Done
  <2>1. ASSUME NEW k \in m..(n - 1), k \in Done PROVE k + 1 \in Done
    <3>1. k + 1 \in 1..n /\ (k + 1) - 1 = k /\ k + 1 \in 0..n
      BY <1>1, <1>7
    <3>2. index[k] = n + 1 /\ n + 1 > n
      BY <1>1, <2>1
    <3> QED BY <1>3, <3>1, <3>2
  <2>2. m \in Int /\ n \in Int
    BY <1>1, <1>7
  <2> HIDE DEF Done
  <2> QED BY ONLY <1>6, <2>1, <2>2, UpwardInduction
<1>10. {k \in 1..n : index[k - 1] <= n} = 1..m
  <2>1. ASSUME NEW k \in 1..n PROVE index[k - 1] <= n <=> k \in 1..m
    <3>1. k - 1 \in 0..n /\ k \in Int
      BY <1>1
    <3>2. CASE k - 1 < m
      <4>1. index[k - 1] \in 1..n
        BY <1>8, <3>1, <3>2
      <4>2. index[k - 1] <= n /\ k \in 1..m
        BY <1>1, <1>7, <3>1, <3>2, <4>1
      <4> QED BY <4>2
    <3>3. CASE ~(k - 1 < m)
      <4>1. k - 1 \in m..n /\ k \notin 1..m
        BY <1>1, <1>7, <3>1, <3>3
      <4>2. index[k - 1] = n + 1
        BY <1>9, <4>1
      <4> QED BY <1>1, <4>1, <4>2
    <3> QED BY <3>2, <3>3
  <2>2. 1..m \in SUBSET (1..n)
    BY <1>1, <1>7
  <2> QED BY <2>1, <2>2
<1> DEFINE b == [k \in 0..m |-> index[k]]
<1>11. b \in [0..m -> 1..(n + 1)] /\ \A k \in 0..m : b[k] = index[k]
  BY <1>1, <1>7
<1> HIDE DEF b, Done, S
<1>12. ASSUME NEW k \in 1..m
       PROVE  /\ b[k - 1] = index[k - 1] /\ b[k] = index[k]
              /\ b[k - 1] <= n /\ b[k] = next_index(items, b[k - 1])
  <2>1. k - 1 \in 0..m /\ k \in 0..m /\ k \in 1..n /\ k - 1 \in 0..n /\ k - 1 < m
    BY <1>1, <1>7
  <2>2. b[k - 1] = index[k - 1] /\ b[k] = index[k]
    BY <1>11, <2>1
  <2>3. index[k - 1] \in 1..n
    BY <1>8, <2>1
  <2>4. index[k - 1] <= n
    BY <1>1, <2>3
  <2> QED BY <1>3, <2>1, <2>2, <2>4
<1>13. b[0] = 1 /\ b[m] = n + 1
  BY <1>1, <1>7, <1>11
<1>14. IsCut(items, m, b)
  BY <1>7, <1>11, <1>12, <1>13 DEF IsCut, n
<1>15. group_context_units(items) = UnitsBetween(items, m, b)
  <2>1. group_context_units(items) = [k \in 1..m |-> SubSeq(items, index[k - 1], index[k] - 1)]
    BY <1>2, <1>10
  <2> QED BY <1>12, <2>1 DEF UnitsBetween
<1> QED BY <1>14, <1>15

(* There is one way to cut.                                                *)
LEMMA CutsAgree ==
    ASSUME NEW items \in Seq(ContextItem), NEW m, NEW b, IsCut(items, m, b),
           NEW l, NEW c, IsCut(items, l, c), m <= l
    PROVE  m = l /\ \A k \in 0..m : c[k] = b[k]
<1>1. m \in Nat /\ l \in Nat
  BY DEF IsCut
<1> DEFINE S == {k \in 0..m : c[k] = b[k]}
<1>2. 0..m \subseteq S
  <2>1. 0 \in S
    BY <1>1 DEF IsCut
  <2>2. ASSUME NEW k \in 0..(m - 1), k \in S PROVE k + 1 \in S
    <3>1. k + 1 \in 1..m /\ k + 1 \in 1..l /\ (k + 1) - 1 = k /\ k + 1 \in 0..m
      BY <1>1
    <3> QED BY <2>2, <3>1 DEF IsCut
  <2>3. 0 \in Int /\ m \in Int
    BY <1>1
  <2> HIDE DEF S
  <2> QED BY ONLY <2>1, <2>2, <2>3, UpwardInduction
<1>3. ASSUME m # l PROVE FALSE
  <2>1. m + 1 \in 1..l /\ (m + 1) - 1 = m /\ m \in 0..m
    BY <1>1, <1>3
  <2>2. c[m] <= Len(items) /\ c[m] = Len(items) + 1
    BY <1>2, <2>1 DEF IsCut
  <2> QED BY <2>2
<1> QED BY <1>2, <1>3

(* The units are those of any cut, for there is only one.                  *)
LEMMA UnitsOfCut ==
    ASSUME NEW items \in Seq(ContextItem), NEW m, NEW b, IsCut(items, m, b)
    PROVE  /\ group_context_units(items) = UnitsBetween(items, m, b)
           /\ Len(group_context_units(items)) = m
<1>1. PICK l, c : /\ IsCut(items, l, c)
                  /\ group_context_units(items) = UnitsBetween(items, l, c)
  BY UnitsAreCut
<1>2. m \in Nat /\ l \in Nat
  BY <1>1 DEF IsCut
<1>3. m = l /\ \A k \in 0..m : c[k] = b[k]
  <2>1. CASE m <= l
    BY <1>1, <2>1, CutsAgree
  <2>2. CASE ~(m <= l)
    <3>1. l <= m
      BY <1>2, <2>2
    <3>2. l = m /\ \A k \in 0..l : b[k] = c[k]
      BY <1>1, <3>1, CutsAgree
    <3> QED BY <3>2
  <2> QED BY <2>1, <2>2
<1>4. UnitsBetween(items, l, c) = UnitsBetween(items, m, b)
  <2>1. \A k \in 1..m : k - 1 \in 0..m /\ k \in 0..m
    BY <1>2
  <2> QED BY <1>3, <2>1 DEF UnitsBetween
<1>5. Len(UnitsBetween(items, m, b)) = m
  <2> DEFINE u == UnitsBetween(items, m, b)
  <2>1. u = [k \in 1..m |-> SubSeq(items, b[k - 1], b[k] - 1)]
    BY DEF UnitsBetween
  <2>2. \A V : \A f \in [1..m -> V] : Len(f) = m
    BY <1>2
  <2>3. u \in [1..m -> {u[k] : k \in 1..m}]
    BY <2>1
  <2> HIDE DEF u
  <2> QED BY <2>2, <2>3 DEF u
<1> QED BY <1>1, <1>4, <1>5

(* What is left of a cut after k units is a cut of the items left.         *)
LEMMA CutFrom ==
    ASSUME NEW items \in Seq(ContextItem), NEW m, NEW b, IsCut(items, m, b),
           NEW k \in 0..m
    PROVE  /\ b[k] \in 1..(Len(items) + 1)
           /\ Len(group_context_units(From(items, b[k]))) = m - k
<1> DEFINE n == Len(items)
           a == b[k]
           s == From(items, a)
           c == [j \in 0..(m - k) |-> b[k + j] - (a - 1)]
<1>1. m \in Nat /\ n \in Nat /\ a \in 1..(n + 1) /\ k \in Nat /\ m - k \in Nat
  BY DEF IsCut
<1>2. s \in Seq(ContextItem) /\ Len(s) = n - a + 1
  BY <1>1, FromItems
<1> HIDE DEF a, s, n
<1>3. ASSUME NEW j \in 0..(m - k)
      PROVE  /\ k + j \in 0..m /\ b[k + j] \in a..(n + 1)
             /\ c[j] = b[k + j] - (a - 1) /\ c[j] \in 1..(Len(s) + 1)
  <2> DEFINE S == {i \in k..m : b[i] \in a..(n + 1)}
  <2>1. k..m \subseteq S
    <3>1. k \in S
      BY <1>1 DEF a
    <3>2. ASSUME NEW i \in k..(m - 1), i \in S PROVE i + 1 \in S
      <4>1. i + 1 \in 1..m /\ (i + 1) - 1 = i /\ i + 1 \in k..m
        BY <1>1
      <4>2. b[i + 1] \in (b[i] + 1)..(n + 1)
        BY <4>1, CutIncreases DEF n
      <4> QED BY <1>1, <3>2, <4>1, <4>2
    <3>3. k \in Int /\ m \in Int
      BY <1>1
    <3> HIDE DEF S
    <3> QED BY ONLY <3>1, <3>2, <3>3, UpwardInduction
  <2>2. k + j \in k..m /\ k + j \in 0..m
    BY <1>1
  <2>3. b[k + j] \in a..(n + 1)
    BY <2>1, <2>2
  <2> QED BY <1>1, <1>2, <2>2, <2>3
<1>4. c \in [0..(m - k) -> 1..(Len(s) + 1)]
  BY <1>3
<1>5. c[0] = 1 /\ c[m - k] = Len(s) + 1
  <2>1. 0 \in 0..(m - k) /\ m - k \in 0..(m - k) /\ k + 0 = k /\ k + (m - k) = m
    BY <1>1
  <2>2. c[0] = a - (a - 1) /\ c[m - k] = b[m] - (a - 1)
    BY <1>3, <2>1 DEF a
  <2>3. b[m] = n + 1
    BY DEF IsCut, n
  <2> QED BY <1>1, <1>2, <2>2, <2>3
<1>6. ASSUME NEW j \in 1..(m - k)
      PROVE  c[j - 1] <= Len(s) /\ c[j] = next_index(s, c[j - 1])
  <2>1. /\ j - 1 \in 0..(m - k) /\ j \in 0..(m - k) /\ k + j \in 1..m
        /\ (k + j) - 1 = k + (j - 1)
    BY <1>1
  <2>2. /\ b[k + (j - 1)] \in a..(n + 1) /\ c[j - 1] = b[k + (j - 1)] - (a - 1)
        /\ c[j] = b[k + j] - (a - 1)
    BY <1>3, <2>1
  <2>3. b[k + (j - 1)] <= n /\ b[k + j] = next_index(items, b[k + (j - 1)])
    BY <2>1 DEF IsCut, n
  <2>4. c[j - 1] \in 1..(n - a + 1) /\ c[j - 1] + a - 1 = b[k + (j - 1)]
    BY SMTT(20), <1>1, <2>2, <2>3
  <2>5. next_index(s, c[j - 1]) = next_index(items, c[j - 1] + a - 1) - (a - 1)
    <3> HIDE DEF c
    <3> QED BY <1>1, <2>4, NextIndexFrom DEF s, n
  <2> QED BY <1>2, <2>2, <2>3, <2>4, <2>5
<1> HIDE DEF c
<1>7. IsCut(s, m - k, c)
  BY <1>1, <1>4, <1>5, <1>6 DEF IsCut
<1> QED BY <1>1, <1>2, <1>7, UnitsOfCut DEF s, a, n

------------------------------------------------------------------------------
(* The units that are kept, put together again.                            *)

(* The pieces of a sequence between places that do not go back.            *)
IsDivision(items, r, b) ==
    /\ r \in Nat
    /\ b \in [0..r -> 1..(Len(items) + 1)]
    /\ \A k \in 1..r : b[k - 1] <= b[k]

(* Adjacent pieces of a sequence, put together again.                      *)
LEMMA FlattenPieces ==
    ASSUME NEW items, items \in Seq(ContextItem), NEW r, NEW b, IsDivision(items, r, b)
    PROVE  FlattenSeq(UnitsBetween(items, r, b)) = SubSeq(items, b[0], b[r] - 1)
<1>0. /\ r \in Nat /\ b \in [0..r -> 1..(Len(items) + 1)]
      /\ \A k \in 1..r : b[k - 1] <= b[k]
  BY DEF IsDivision
<1> USE <1>0 DEF UnitsBetween
<1> DEFINE pieces == UnitsBetween(items, r, b)
           Solves(f) == f = [i \in 1..r |-> IF i = 1 THEN pieces[i] ELSE f[i - 1] \o pieces[i]]
           f == [i \in 1..r |-> SubSeq(items, b[0], b[i] - 1)]
           n == Len(items)
<1>1. Len(pieces) = r
  <2>1. \A V : \A g \in [1..r -> V] : Len(g) = r
    OBVIOUS
  <2>2. pieces \in [1..r -> {pieces[k] : k \in 1..r}]
    OBVIOUS
  <2> HIDE DEF pieces
  <2> QED BY <2>1, <2>2
<1>2. \A k \in 1..r : pieces[k] = SubSeq(items, b[k - 1], b[k] - 1)
  OBVIOUS
<1>3. CASE r = 0
  <2>1. FlattenSeq(pieces) = pieces
    <3> HIDE DEF pieces
    <3> QED BY <1>1, <1>3 DEF FlattenSeq
  <2>2. pieces = <<>>
    BY <1>3
  <2>3. b[0] \in 1..(n + 1)
    OBVIOUS
  <2>4. SubSeq(items, b[0], b[0] - 1) = <<>>
    BY <2>3
  <2> QED BY <1>3, <2>1, <2>2, <2>4
<1>4. CASE r # 0
  <2>1. FlattenSeq(pieces) = (CHOOSE g : Solves(g))[r]
    <3> HIDE DEF pieces
    <3> QED BY <1>1, <1>4 DEF FlattenSeq
  <2>2. ASSUME NEW k \in 1..r
        PROVE  /\ b[0] \in 1..(n + 1) /\ b[k - 1] \in 1..(n + 1) /\ b[k] \in 1..(n + 1)
               /\ b[0] <= b[k - 1] /\ b[k - 1] <= b[k]
    <3> DEFINE S == {i \in 0..r : b[0] <= b[i]}
    <3>1. \A i \in 0..r : b[i] \in Nat
      OBVIOUS
    <3>2. 0..r \subseteq S
      <4>1. 0 \in S
        BY <3>1
      <4>2. ASSUME NEW i \in 0..(r - 1), i \in S PROVE i + 1 \in S
        <5>1. i + 1 \in 1..r /\ (i + 1) - 1 = i /\ i + 1 \in 0..r /\ i \in 0..r /\ 0 \in 0..r
          OBVIOUS
        <5>2. b[i] <= b[i + 1] /\ b[i] \in Nat /\ b[i + 1] \in Nat /\ b[0] \in Nat
          BY <3>1, <5>1
        <5> QED BY <4>2, <5>1, <5>2
      <4>3. 0 \in Int /\ r \in Int
        OBVIOUS
      <4> HIDE DEF S
      <4> QED BY ONLY <4>1, <4>2, <4>3, UpwardInduction
    <3>3. k - 1 \in 0..r /\ k \in 0..r /\ 0 \in 0..r
      OBVIOUS
    <3> QED BY <3>2, <3>3
  <2>3. ASSUME NEW k \in 1..r, k # 1
        PROVE  /\ k - 1 \in 1..r
               /\ SubSeq(items, b[0], b[k] - 1)
                      = SubSeq(items, b[0], b[k - 1] - 1) \o pieces[k]
    <3>1. /\ b[0] \in 1..(n + 1) /\ b[k - 1] \in 1..(n + 1) /\ b[k] \in 1..(n + 1)
          /\ b[0] <= b[k - 1] /\ b[k - 1] <= b[k]
      BY <2>2
    <3> DEFINE x == b[0]
               y == b[k - 1]
               z == b[k]
    <3>2. x \in 1..(n + 1) /\ y \in x..(n + 1) /\ z \in y..(n + 1)
      BY <3>1
    <3> HIDE DEF x, y, z
    <3>3. SubSeq(items, x, z - 1) = SubSeq(items, x, y - 1) \o SubSeq(items, y, z - 1)
      BY <3>2
    <3>4. pieces[k] = SubSeq(items, y, z - 1)
      BY <1>2 DEF y, z
    <3>5. k - 1 \in 1..r
      BY <2>3
    <3> HIDE DEF pieces
    <3> QED BY <3>3, <3>4, <3>5 DEF x, y, z
  <2>4. Solves(f)
    <3>1. ASSUME NEW i \in 1..r
          PROVE  f[i] = IF i = 1 THEN pieces[i] ELSE f[i - 1] \o pieces[i]
      <4>1. CASE i = 1
        <5>1. i - 1 = 0
          BY <4>1
        <5>2. pieces[i] = SubSeq(items, b[0], b[i] - 1)
          BY <1>2, <5>1
        <5>3. f[i] = SubSeq(items, b[0], b[i] - 1)
          OBVIOUS
        <5> HIDE DEF pieces, f
        <5> QED BY <4>1, <5>2, <5>3
      <4>2. CASE i # 1
        <5> HIDE DEF pieces
        <5> QED BY <2>3, <4>2
      <4> QED BY <4>1, <4>2
    <3>2. f = [i \in 1..r |-> f[i]]
      OBVIOUS
    <3> HIDE DEF f, pieces
    <3> QED BY <3>1, <3>2
  <2> DEFINE g == CHOOSE g : Solves(g)
  <2>5. Solves(g)
    <3> HIDE DEF Solves, f
    <3> QED BY <2>4
  <2> HIDE DEF g
  <2> DEFINE S == {i \in 1..r : g[i] = f[i]}
  <2>6. 1..r \subseteq S
    <3>1. 1 \in S
      BY <1>4, <2>4, <2>5
    <3>2. ASSUME NEW i \in 1..(r - 1), i \in S PROVE i + 1 \in S
      <4>1. i + 1 \in 1..r /\ (i + 1) - 1 = i /\ i + 1 # 1
        OBVIOUS
      <4>2. g[i + 1] = g[i] \o pieces[i + 1] /\ f[i + 1] = f[i] \o pieces[i + 1]
        <5> HIDE DEF f, pieces
        <5> QED BY <2>4, <2>5, <4>1
      <4> QED BY <3>2, <4>1, <4>2
    <3>3. 1 \in Int /\ r \in Int
      OBVIOUS
    <3> HIDE DEF S
    <3> QED BY ONLY <3>1, <3>2, <3>3, UpwardInduction
  <2>7. r \in 1..r
    BY <1>4
  <2> QED BY <2>1, <2>6, <2>7 DEF g
<1> QED BY <1>3, <1>4

(* The last k units are the items from where they begin.                   *)
LEMMA LastUnitsOfCut ==
    ASSUME NEW items, items \in Seq(ContextItem), NEW m, NEW b, IsCut(items, m, b),
           NEW k, k \in 0..m
    PROVE  FlattenSeq(LastUnits(group_context_units(items), k)) = From(items, b[m - k])
<1> DEFINE units == UnitsBetween(items, m, b)
           c == [j \in 0..k |-> b[m - k + j]]
           n == Len(items)
<1>0. m \in Nat
  BY DEF IsCut
<1>1. /\ group_context_units(items) = units /\ Len(units) = m
      /\ m \in Nat /\ k \in Nat /\ m - k \in Nat
  <2>1. group_context_units(items) = units /\ Len(units) = m
    BY UnitsOfCut
  <2> QED BY <1>0, <2>1
<1>2. \A j \in 0..k : m - k + j \in 0..m
  BY <1>1
<1>3. c \in [0..k -> 1..(n + 1)] /\ \A j \in 0..k : c[j] = b[m - k + j]
  BY <1>2 DEF IsCut
<1>4. ASSUME NEW j \in 1..k
      PROVE  /\ c[j - 1] <= c[j] /\ m - k + j \in 1..m
             /\ c[j - 1] = b[(m - k + j) - 1] /\ c[j] = b[m - k + j]
  <2>1. /\ j - 1 \in 0..k /\ j \in 0..k /\ m - k + j \in 1..m
        /\ m - k + (j - 1) = (m - k + j) - 1
    BY <1>1
  <2>2. /\ b[(m - k + j) - 1] \in 1..n
        /\ b[m - k + j] \in (b[(m - k + j) - 1] + 1)..(n + 1)
    BY <2>1, CutIncreases
  <2>3. c[j - 1] = b[(m - k + j) - 1] /\ c[j] = b[m - k + j]
    BY <1>3, <2>1
  <2> QED BY <2>1, <2>2, <2>3
<1>5. LastUnits(units, k) = UnitsBetween(items, k, c)
  <2>1. LastUnits(units, k) = From(units, m - k + 1)
    BY <1>1 DEF LastUnits, From
  <2>2. units \in Seq({units[j] : j \in 1..m})
    <3>1. units \in [1..m -> {units[j] : j \in 1..m}]
      BY DEF UnitsBetween
    <3> HIDE DEF units
    <3> QED BY <1>0, <3>1
  <2>3. /\ From(units, m - k + 1) \in Seq({units[j] : j \in 1..m})
        /\ DOMAIN From(units, m - k + 1) = 1..k
        /\ \A j \in 1..k : From(units, m - k + 1)[j] = units[j + (m - k + 1) - 1]
    <3> DEFINE a == m - k + 1
               V == {units[j] : j \in 1..m}
    <3>1. a \in 1..(m + 1) /\ m - a + 1 = k
      BY <1>1
    <3>2. a \in 1..(Len(units) + 1) /\ Len(units) - a + 1 = k
      BY <1>1, <3>1
    <3>3. units \in Seq(V)
      BY <2>2
    <3> HIDE DEF units, a, V
    <3>4. /\ From(units, a) \in Seq(V)
          /\ DOMAIN From(units, a) = 1..k
          /\ \A j \in 1..k : From(units, a)[j] = units[j + a - 1]
      BY ONLY <3>2, <3>3, FromItems
    <3> QED BY <3>4 DEF a, V
  <2>4. ASSUME NEW j \in 1..k
        PROVE  From(units, m - k + 1)[j] = SubSeq(items, c[j - 1], c[j] - 1)
    <3>1. m - k + j \in 1..m /\ j + (m - k + 1) - 1 = m - k + j
      BY <1>1, <1>4
    <3>2. units[m - k + j] = SubSeq(items, b[(m - k + j) - 1], b[m - k + j] - 1)
      BY <3>1 DEF UnitsBetween
    <3>3. From(units, m - k + 1)[j] = units[m - k + j]
      BY <2>3, <3>1
    <3> HIDE DEF c, units
    <3> QED BY <1>4, <3>2, <3>3
  <2> DEFINE last == From(units, m - k + 1)
  <2>5. last = [j \in 1..k |-> last[j]]
    <3>1. last \in Seq({units[j] : j \in 1..m}) /\ DOMAIN last = 1..k
      BY <2>3
    <3> HIDE DEF last, units
    <3> QED BY <3>1
  <2> HIDE DEF c, units, last
  <2> QED BY <2>1, <2>4, <2>5 DEF UnitsBetween, last
<1> HIDE DEF c, units
<1>6. FlattenSeq(UnitsBetween(items, k, c)) = SubSeq(items, c[0], c[k] - 1)
  <2>1. \A j \in 1..k : c[j - 1] <= c[j]
    BY <1>4
  <2>2. IsDivision(items, k, c)
    BY <1>1, <1>3, <2>1 DEF IsDivision, n
  <2> QED BY <2>2, FlattenPieces
<1>7. c[0] = b[m - k] /\ c[k] = n + 1
  <2>1. 0 \in 0..k /\ k \in 0..k /\ m - k + 0 = m - k /\ m - k + k = m
    BY <1>1
  <2>2. c[0] = b[m - k + 0] /\ c[k] = b[m - k + k]
    BY <1>3, <2>1
  <2> QED BY <2>1, <2>2 DEF IsCut
<1>8. n \in Nat /\ (n + 1) - 1 = n
  OBVIOUS
<1> QED BY <1>1, <1>5, <1>6, <1>7, <1>8 DEF From

------------------------------------------------------------------------------
(* The tokens of a list are those of its items, added up.                  *)
LEMMA TokensAddUp ==
    ASSUME NEW items, items \in Seq(ContextItem)
    PROVE  \E sum \in [0..Len(items) -> Nat] :
               /\ sum[0] = 0
               /\ \A k \in 1..Len(items) : sum[k] = sum[k - 1] + items[k].tokens
               /\ Tokens(items) = sum[Len(items)]
<1> DEFINE N == Len(items)
           V == Nat
           next == [k \in 1..N |-> [x \in V |-> x + items[k].tokens]]
           base == 0
<1>1. N \in Nat
  OBVIOUS
<1>2. \A k \in 1..N : items[k].tokens \in Nat
  <2>1. \A k \in 1..N : items[k] \in ContextItem
    OBVIOUS
  <2> QED BY <2>1 DEF ContextItem
<1>3. next \in Steps(N, V)
  BY <1>2 DEF Steps
<1>4. \A k \in 1..N : \A x \in V : next[k][x] = x + items[k].tokens
  OBVIOUS
<1>5. base \in V /\ base = 0
  OBVIOUS
<1> HIDE DEF N, next, base, V
<1>6. PICK f \in [0..N -> V] :
          f[0] = base /\ \A k \in 1..N : f[k] = next[k][f[k - 1]]
  BY ONLY <1>1, <1>3, <1>5, RecursionExists
<1> USE DEF V
<1> DEFINE Solves(h) == h = [k \in 0..N |-> IF k = 0 THEN 0
                                            ELSE h[k - 1] + items[k].tokens]
<1>7. \A k \in 1..N : k - 1 \in 0..N /\ k \in 0..N /\ k # 0
  BY <1>1
<1>8. \A k \in 1..N : f[k] = f[k - 1] + items[k].tokens
  BY <1>4, <1>6, <1>7
<1>9. \A k \in 0..N : k = 0 \/ k \in 1..N
  BY <1>1
<1>10. Solves(f)
  BY <1>5, <1>6, <1>8, <1>9
<1>11. Tokens(items) = (CHOOSE g : Solves(g))[N]
  BY DEF Tokens, N
<1> DEFINE g == CHOOSE g : Solves(g)
<1>12. Solves(g)
  <2> HIDE DEF Solves
  <2> QED BY <1>10
<1> HIDE DEF g
<1>13. 0 \in 0..N
  BY <1>1
<1>14. g[0] = 0 /\ \A k \in 1..N : g[k] = g[k - 1] + items[k].tokens
  BY <1>7, <1>12, <1>13
<1> DEFINE T == {k \in 0..N : g[k] \in Nat}
<1>15. 0..N \subseteq T
  <2>1. 0 \in T
    BY <1>13, <1>14
  <2>2. ASSUME NEW k \in 0..(N - 1), k \in T PROVE k + 1 \in T
    <3>1. k + 1 \in 1..N /\ (k + 1) - 1 = k /\ k + 1 \in 0..N
      BY <1>1
    <3>2. g[k + 1] = g[k] + items[k + 1].tokens
      BY <1>14, <3>1
    <3> QED BY <1>2, <2>2, <3>1, <3>2
  <2> HIDE DEF T
  <2>3. 0 \in Int /\ N \in Int
    BY <1>1
  <2> QED BY ONLY <2>1, <2>2, <2>3, UpwardInduction
<1>16. g \in [0..N -> Nat]
  BY <1>12, <1>15
<1> QED BY <1>11, <1>14, <1>16 DEF N, g

(* A list has a number of tokens.                                          *)
LEMMA TokensType ==
    ASSUME NEW items \in Seq(ContextItem)
    PROVE  Tokens(items) \in Nat
<1>1. PICK sum \in [0..Len(items) -> Nat] : Tokens(items) = sum[Len(items)]
  BY TokensAddUp
<1>2. Len(items) \in 0..Len(items)
  OBVIOUS
<1> QED BY <1>1, <1>2

(* The tokens of two lists together.                                       *)
LEMMA TokensOfConcat ==
    ASSUME NEW s \in Seq(ContextItem), NEW t \in Seq(ContextItem)
    PROVE  Tokens(s \o t) = Tokens(s) + Tokens(t)
<1> DEFINE u == s \o t
           n == Len(s)
           m == Len(t)
<1>1. /\ u \in Seq(ContextItem) /\ Len(u) = n + m /\ n \in Nat /\ m \in Nat
      /\ \A k \in 1..n : u[k] = s[k]
      /\ \A k \in 1..m : u[n + k] = t[k]
  OBVIOUS
<1>2. PICK f \in [0..n -> Nat] :
          /\ f[0] = 0 /\ \A k \in 1..n : f[k] = f[k - 1] + s[k].tokens
          /\ Tokens(s) = f[n]
  BY TokensAddUp
<1>3. PICK g \in [0..m -> Nat] :
          /\ g[0] = 0 /\ \A k \in 1..m : g[k] = g[k - 1] + t[k].tokens
          /\ Tokens(t) = g[m]
  BY TokensAddUp
<1> HIDE DEF u
<1>4. PICK h \in [0..(n + m) -> Nat] :
          /\ h[0] = 0 /\ \A k \in 1..(n + m) : h[k] = h[k - 1] + u[k].tokens
          /\ Tokens(u) = h[n + m]
  BY ZenonT(30), <1>1, TokensAddUp
<1> HIDE DEF n, m
<1> DEFINE S == {k \in 0..n : h[k] = f[k]}
<1>5. 0..n \subseteq S
  <2>1. 0 \in S
    BY <1>1, <1>2, <1>4
  <2>2. ASSUME NEW k \in 0..(n - 1), k \in S PROVE k + 1 \in S
    <3>1. k + 1 \in 1..n /\ k + 1 \in 1..(n + m) /\ (k + 1) - 1 = k /\ k + 1 \in 0..n
      BY <1>1
    <3>2. h[k + 1] = h[k] + u[k + 1].tokens
      BY <1>4, <3>1
    <3>3. f[k + 1] = f[k] + s[k + 1].tokens /\ u[k + 1] = s[k + 1]
      BY <1>1, <1>2, <3>1
    <3> QED BY <2>2, <3>1, <3>2, <3>3
  <2>3. 0 \in Int /\ n \in Int
    BY <1>1
  <2> HIDE DEF S
  <2> QED BY ONLY <2>1, <2>2, <2>3, UpwardInduction
<1> DEFINE T == {k \in 0..m : h[n + k] = f[n] + g[k]}
<1>6. f[n] \in Nat /\ \A k \in 1..m : t[k].tokens \in Nat
  <2>1. f[n] \in Nat
    BY <1>1
  <2>2. \A k \in 1..m : t[k] \in ContextItem
    BY DEF m
  <2>3. \A k \in 1..m : t[k].tokens \in Nat
    BY <2>2 DEF ContextItem
  <2> QED BY <2>1, <2>3
<1>7. 0..m \subseteq T
  <2>1. 0 \in T
    <3>1. n \in 0..n /\ 0 \in 0..m /\ n + 0 = n
      BY <1>1
    <3>2. h[n] = f[n]
      BY <1>5, <3>1
    <3> QED BY <1>3, <1>6, <3>1, <3>2
  <2>2. ASSUME NEW k \in 0..(m - 1), k \in T PROVE k + 1 \in T
    <3>1. /\ k + 1 \in 1..m /\ n + (k + 1) \in 1..(n + m) /\ (k + 1) - 1 = k
          /\ n + (k + 1) - 1 = n + k /\ k + 1 \in 0..m /\ k \in 0..m
      BY <1>1
    <3>2. h[n + (k + 1)] = h[n + k] + u[n + (k + 1)].tokens
      <4> DEFINE j == n + (k + 1)
      <4>1. j \in 1..(n + m) /\ j - 1 = n + k
        BY <1>1, <3>1
      <4> HIDE DEF j
      <4>2. h[j] = h[n + k] + u[j].tokens
        BY <1>4, <4>1
      <4> QED BY <4>2 DEF j
    <3>3. g[k + 1] = g[k] + t[k + 1].tokens /\ u[n + (k + 1)] = t[k + 1]
      BY <1>1, <1>3, <3>1
    <3>4. g[k] \in Nat /\ t[k + 1].tokens \in Nat
      BY <1>6, <3>1
    <3>5. h[n + (k + 1)] = f[n] + g[k] + t[k + 1].tokens
      BY <2>2, <3>2, <3>3
    <3>6. f[n] + g[k] + t[k + 1].tokens = f[n] + (g[k] + t[k + 1].tokens)
      BY <1>6, <3>4
    <3> QED BY <3>1, <3>3, <3>5, <3>6
  <2>3. 0 \in Int /\ m \in Int
    BY <1>1
  <2> HIDE DEF T
  <2> QED BY ONLY <2>1, <2>2, <2>3, UpwardInduction
<1>8. m \in 0..m
  BY <1>1
<1>9. h[n + m] = f[n] + g[m]
  BY <1>7, <1>8
<1> QED BY <1>2, <1>3, <1>4, <1>9 DEF u

(* The tokens of one item.                                                 *)
LEMMA TokensOfItem ==
    ASSUME NEW item \in ContextItem
    PROVE  Tokens(<<item>>) = item.tokens
<1>1. /\ <<item>> \in Seq(ContextItem) /\ Len(<<item>>) = 1 /\ <<item>>[1] = item
      /\ item.tokens \in Nat
  BY DEF ContextItem
<1>2. PICK sum \in [0..Len(<<item>>) -> Nat] :
          /\ sum[0] = 0
          /\ \A k \in 1..Len(<<item>>) : sum[k] = sum[k - 1] + <<item>>[k].tokens
          /\ Tokens(<<item>>) = sum[Len(<<item>>)]
  BY <1>1, TokensAddUp
<1>3. 1 \in 1..1 /\ 1 - 1 = 0
  OBVIOUS
<1>4. sum[1] = sum[0] + <<item>>[1].tokens /\ Tokens(<<item>>) = sum[1]
  BY <1>1, <1>2, <1>3
<1> QED BY <1>1, <1>2, <1>4

------------------------------------------------------------------------------
(* The parts of a context.                                                 *)
LEMMA MandatoryType ==
    /\ Mandatory \in Seq(ContextItem) /\ Len(Mandatory) = 2
    /\ Mandatory[1].type = "system" /\ Mandatory[2].type = "task"
BY DEF Mandatory, Item, ContextItem, ContextItemType

(* What two sequences make together.                                       *)
LEMMA Concatenation ==
    ASSUME NEW V, NEW s \in Seq(V), NEW t \in Seq(V)
    PROVE  /\ s \o t \in Seq(V) /\ Len(s \o t) = Len(s) + Len(t)
           /\ \A i \in 1..Len(s) : (s \o t)[i] = s[i]
           /\ \A i \in 1..Len(t) : (s \o t)[Len(s) + i] = t[i]
OBVIOUS

(* A context is split into the mandatory items and the conversation.       *)
LEMMA ContextIsSplit ==
    ASSUME NEW items \in Seq(ContextItem),
           \A i \in DOMAIN items : ~IsMandatory(items[i])
    PROVE  /\ MandatoryItems(Mandatory \o items) = Mandatory
           /\ History(Mandatory \o items) = items
<1> DEFINE context == Mandatory \o items
           n == Len(items)
<1>1. /\ context \in Seq(ContextItem) /\ Len(context) = n + 2 /\ n \in Nat
      /\ context[1] = Mandatory[1] /\ context[2] = Mandatory[2]
      /\ \A i \in 1..n : context[2 + i] = items[i]
  <2>1. Mandatory \in Seq(ContextItem) /\ Len(Mandatory) = 2
    BY MandatoryType
  <2>2. /\ context \in Seq(ContextItem) /\ Len(context) = Len(Mandatory) + n
        /\ \A i \in 1..Len(Mandatory) : context[i] = Mandatory[i]
        /\ \A i \in 1..n : context[Len(Mandatory) + i] = items[i]
    BY <2>1, Concatenation
  <2>3. n \in Nat
    OBVIOUS
  <2> HIDE DEF context, n
  <2> QED BY <2>1, <2>2, <2>3
<1>2. DOMAIN context = 1..(n + 2)
  BY <1>1
<1> HIDE DEF context
<1>3. ASSUME NEW i \in 1..(n + 2)
      PROVE  IsMandatory(context[i]) <=> i \in 1..2
  <2>1. CASE i \in 1..2
    BY <1>1, <2>1, MandatoryType DEF IsMandatory
  <2>2. CASE i \notin 1..2
    <3>1. i - 2 \in 1..n /\ 2 + (i - 2) = i
      BY <1>1, <2>2
    <3>2. context[i] = items[i - 2] /\ i - 2 \in DOMAIN items
      BY <1>1, <3>1
    <3> QED BY <2>2, <3>2
  <2> QED BY <2>1, <2>2
<1>4. {i \in DOMAIN context : IsMandatory(context[i])} = 1..2
  BY <1>1, <1>2, <1>3
<1>5. {i \in DOMAIN context : ~IsMandatory(context[i])} = 3..(n + 2)
  BY <1>1, <1>2, <1>3
<1>6. MandatoryItems(context) = Mandatory
  <2>1. Selected(context, 1..2) = Slice(context, 1, 2)
    <3>1. 1 \in Nat /\ 2 \in Nat /\ 1 <= 2 + 1
      OBVIOUS
    <3> QED BY ONLY <3>1, SelectedInterval
  <2>2. Slice(context, 1, 2) = Mandatory
    <3>1. \A k \in 1..2 : 1 + k - 1 = k /\ context[k] = Mandatory[k]
      BY <1>1
    <3>2. Mandatory = [k \in 1..2 |-> Mandatory[k]]
      BY MandatoryType
    <3> QED BY <3>1, <3>2 DEF Slice
  <2> QED BY <1>4, <2>1, <2>2 DEF MandatoryItems
<1>7. History(context) = items
  <2>1. Selected(context, 3..(n + 2)) = Slice(context, 3, n + 2)
    <3>1. 3 \in Nat /\ n + 2 \in Nat /\ 3 <= (n + 2) + 1
      BY <1>1
    <3> QED BY <3>1, SelectedInterval
  <2>2. Slice(context, 3, n + 2) = items
    <3>1. (n + 2) - 3 + 1 = n
      BY <1>1
    <3>2. \A k \in 1..n : 3 + k - 1 = 2 + k /\ context[2 + k] = items[k]
      BY <1>1
    <3>3. items = [k \in 1..n |-> items[k]]
      OBVIOUS
    <3> HIDE DEF n
    <3> QED BY <3>1, <3>2, <3>3 DEF Slice
  <2> QED BY <1>5, <2>1, <2>2 DEF History
<1> QED BY <1>6, <1>7 DEF context

(* The units to be kept are MinRecentUnits, or all if there are fewer.     *)
LEMMA RecentCountIs ==
    ASSUME NEW units, Len(units) \in Nat
    PROVE  /\ RecentCount(units) \in 0..Len(units)
           /\ RecentCount(units) <= MinRecentUnits
           /\ RecentCount(units) \in {MinRecentUnits, Len(units)}
<1> DEFINE S == {MinRecentUnits, Len(units)}
<1>1. MinRecentUnits \in Nat
  BY WindowAssumption
<1>2. \E x \in S : \A y \in S : x =< y
  <2>1. CASE MinRecentUnits <= Len(units)
    BY <1>1, <2>1
  <2>2. CASE ~(MinRecentUnits <= Len(units))
    BY <1>1, <2>2
  <2> QED BY <2>1, <2>2
<1>3. RecentCount(units) = CHOOSE x \in S : \A y \in S : x =< y
  BY DEF RecentCount, Min
<1> HIDE DEF S
<1>4. RecentCount(units) \in S /\ \A y \in S : RecentCount(units) =< y
  BY <1>2, <1>3
<1> QED BY <1>1, <1>4 DEF S

(* What the window keeps of a conversation.                                *)
LEMMA WindowOfConversation ==
    ASSUME NEW items \in Seq(ContextItem),
           \A i \in DOMAIN items : ~IsMandatory(items[i]),
           NEW m, NEW b, IsCut(items, m, b)
    PROVE  \E k \in RecentCount(group_context_units(items))..m :
               /\ SlidingWindow(Mandatory \o items)
                      = Mandatory \o From(items, b[m - k])
               /\ \/ k = RecentCount(group_context_units(items))
                  \/ Tokens(Mandatory \o From(items, b[m - k])) <= Target
               /\ k < m => Tokens(Mandatory \o From(items, b[m - (k + 1)])) > Target
<1> DEFINE context == Mandatory \o items
           units == group_context_units(items)
           R == RecentCount(units)
           View(k) == Mandatory \o From(items, b[m - k])
           K == {k \in R..m : \A j \in (R + 1)..k : Tokens(View(j)) <= Target}
           kept(k) == MandatoryItems(context) \o FlattenSeq(LastUnits(units, k))
           L == {k \in R..m : \A j \in (R + 1)..k : Tokens(kept(j)) <= Target}
<1>1. MandatoryItems(context) = Mandatory /\ History(context) = items
  BY ContextIsSplit
<1>2. Len(units) = m /\ m \in Nat
  BY UnitsOfCut DEF IsCut
<1>3. R \in 0..m
  BY <1>2, RecentCountIs
<1>4. ASSUME NEW k \in 0..m
      PROVE  /\ kept(k) = View(k) /\ Tokens(View(k)) \in Nat
  <2>1. FlattenSeq(LastUnits(units, k)) = From(items, b[m - k])
    BY LastUnitsOfCut
  <2>2. View(k) \in Seq(ContextItem)
    <3>1. m - k \in 0..m
      BY <1>2
    <3>2. b[m - k] \in 1..(Len(items) + 1)
      BY <3>1 DEF IsCut
    <3>3. From(items, b[m - k]) \in Seq(ContextItem)
      BY <3>2, FromItems
    <3> QED BY <3>3, MandatoryType, Concatenation
  <2> QED BY <1>1, <2>1, <2>2, TokensType
<1>5. L = K
  <2> HIDE DEF kept, View
  <2>1. \A k \in R..m : \A j \in (R + 1)..k : j \in 0..m
    BY <1>2, <1>3
  <2> QED BY <1>4, <2>1
<1>6. SlidingWindow(context) = kept(Max(L))
  BY <1>1, <1>2 DEF SlidingWindow
<1>7. R \in K /\ K \in SUBSET (0..m)
  BY <1>2, <1>3
<1>8. PICK k \in K : \A y \in K : y <= k
  <2> HIDE DEF K
  <2> QED BY <1>2, <1>7, GreatestNumber
<1>9. Max(K) \in K /\ \A y \in K : y <= Max(K)
  <2>1. \A y \in K : k >= y
    <3>1. \A y \in K : y \in Int
      BY <1>7, <1>2
    <3> HIDE DEF K
    <3> QED BY <1>8, <3>1
  <2>2. \E x \in K : \A y \in K : x >= y
    BY <2>1
  <2>3. Max(K) \in K /\ \A y \in K : Max(K) >= y
    <3> HIDE DEF K
    <3> QED BY <2>2 DEF Max
  <2>4. \A y \in K : y \in Int
    BY <1>7, <1>2
  <2> HIDE DEF K
  <2> QED BY <2>3, <2>4
<1> DEFINE c == Max(K)
<1> HIDE DEF c
<1>10. c \in R..m /\ \A j \in (R + 1)..c : Tokens(View(j)) <= Target
  BY <1>9 DEF c
<1>11. SlidingWindow(context) = View(c)
  <2>1. c \in 0..m
    BY <1>2, <1>3, <1>10
  <2> HIDE DEF kept, View, L, K
  <2> QED BY <1>4, <1>5, <1>6, <2>1 DEF c
<1>12. c = R \/ Tokens(View(c)) <= Target
  <2>1. c # R => c \in (R + 1)..c
    BY <1>2, <1>3, <1>10
  <2> HIDE DEF View
  <2> QED BY <1>10, <2>1
<1>13. ASSUME c < m PROVE Tokens(View(c + 1)) > Target
  <2>1. c + 1 \in R..m /\ c \in Int /\ c + 1 \in 0..m
    BY <1>2, <1>3, <1>10, <1>13
  <2>2. c + 1 \notin K
    <3>1. c + 1 \in K => c + 1 <= c
      BY <1>9 DEF c
    <3> HIDE DEF K
    <3> QED BY <2>1, <3>1
  <2>3. PICK j \in (R + 1)..(c + 1) : ~(Tokens(View(j)) <= Target)
    BY <2>1, <2>2
  <2>4. j = c + 1 \/ j \in (R + 1)..c
    BY <1>2, <1>3, <2>1
  <2>5. j = c + 1
    <3> HIDE DEF View
    <3> QED BY <1>10, <2>3, <2>4
  <2>6. Target \in Nat /\ Tokens(View(c + 1)) \in Nat
    BY <1>4, <2>1, WindowAssumption
  <2> HIDE DEF View
  <2> QED BY <2>3, <2>5, <2>6
<1> HIDE DEF View
<1> QED BY <1>10, <1>11, <1>12, <1>13 DEF View

(* The recent items that a summary is put before.                          *)
LEMMA RecentOfConversation ==
    ASSUME NEW items \in Seq(ContextItem),
           \A i \in DOMAIN items : ~IsMandatory(items[i]),
           NEW m, NEW b, IsCut(items, m, b)
    PROVE  RecentItems(Mandatory \o items)
               = From(items, b[m - RecentCount(group_context_units(items))])
<1> DEFINE units == group_context_units(items)
<1>1. History(Mandatory \o items) = items
  BY ContextIsSplit
<1>2. Len(units) = m /\ m \in Nat
  BY UnitsOfCut DEF IsCut
<1>3. RecentCount(units) \in 0..m
  BY <1>2, RecentCountIs
<1>4. RecentItems(Mandatory \o items) = FlattenSeq(LastUnits(units, RecentCount(units)))
  BY <1>1 DEF RecentItems
<1> HIDE DEF units
<1>5. FlattenSeq(LastUnits(units, RecentCount(units))) = From(items, b[m - RecentCount(units)])
  BY <1>3, LastUnitsOfCut DEF units
<1> QED BY <1>4, <1>5 DEF units

------------------------------------------------------------------------------
(* What the three ways to make a request guarantee.                        *)

(* The whole conversation is a view of itself.                             *)
LEMMA ContextIsView ==
    ASSUME NEW items \in Seq(ContextItem),
           \A i \in DOMAIN items : ~IsMandatory(items[i])
    PROVE  /\ Mandatory \o items \in Seq(ContextItem)
           /\ IsView(Mandatory \o items, items)
           /\ History(Mandatory \o items) = items
<1> DEFINE units == group_context_units(items)
<1>1. Len(units) \in Nat
  <2>1. PICK m, b : IsCut(items, m, b)
    BY UnitsAreCut
  <2> QED BY <2>1, UnitsOfCut DEF IsCut
<1>2. Len(units) >= RecentCount(units)
  BY <1>1, RecentCountIs
<1>3. SubSeq(items, 1, Len(items)) = items /\ 1 \in 1..(Len(items) + 1)
  OBVIOUS
<1>4. IsView(Mandatory \o items, items)
  <2> DEFINE n == Len(items)
             recent(k) == SubSeq(items, k, n)
  <2>1. recent(1) = items /\ 1 \in 1..(n + 1)
    BY <1>3
  <2> HIDE DEF units, n
  <2> QED BY <1>2, <2>1 DEF IsView, n, units
<1> QED BY <1>4, MandatoryType, Concatenation, ContextIsSplit

(* The window is a view that fits, or only what must be kept; one unit     *)
(* more would not.                                                         *)
LEMMA WindowIsView ==
    ASSUME NEW items \in Seq(ContextItem),
           \A i \in DOMAIN items : ~IsMandatory(items[i]),
           NEW view, view = SlidingWindow(Mandatory \o items)
    PROVE  LET units == group_context_units(items)
               kept == Len(group_context_units(History(view)))
           IN  /\ view \in Seq(ContextItem)
               /\ IsView(view, items)
               /\ Tokens(view) <= Target \/ kept <= MinRecentUnits
               /\ kept < Len(units) => Tokens(view) + Tokens(units[Len(units) - kept]) > Target
<1> DEFINE units == group_context_units(items)
           R == RecentCount(units)
<1>1. PICK m, b : IsCut(items, m, b)
  BY UnitsAreCut
<1>2. PICK k \in R..m :
          /\ view = Mandatory \o From(items, b[m - k])
          /\ k = R \/ Tokens(Mandatory \o From(items, b[m - k])) <= Target
          /\ k < m => Tokens(Mandatory \o From(items, b[m - (k + 1)])) > Target
  BY <1>1, WindowOfConversation
<1>3. units = UnitsBetween(items, m, b) /\ Len(units) = m /\ m \in Nat
  BY <1>1, UnitsOfCut DEF IsCut
<1>4. R \in 0..m /\ R <= MinRecentUnits
  BY <1>3, RecentCountIs
<1>5. k \in 0..m /\ m - k \in 0..m /\ k >= R /\ k \in Int /\ R \in Int /\ m - (m - k) = k
  BY <1>3, <1>4
<1> DEFINE a == b[m - k]
           recent == From(items, a)
<1>6. /\ a \in 1..(Len(items) + 1) /\ Len(group_context_units(recent)) = k
  BY <1>1, <1>5, CutFrom
<1>7. recent \in Seq(ContextItem) /\ \A i \in DOMAIN recent : ~IsMandatory(recent[i])
  <2>1. /\ recent \in Seq(ContextItem) /\ DOMAIN recent = 1..(Len(items) - a + 1)
        /\ \A j \in 1..(Len(items) - a + 1) : recent[j] = items[j + a - 1]
    BY <1>6, FromItems
  <2>2. \A j \in 1..(Len(items) - a + 1) : j + a - 1 \in DOMAIN items
    BY <1>6
  <2> QED BY <2>1, <2>2
<1>8. view = Mandatory \o recent
  BY <1>2
<1>9. view \in Seq(ContextItem) /\ History(view) = recent
  <2> HIDE DEF recent
  <2> QED BY <1>7, <1>8, MandatoryType, Concatenation, ContextIsSplit
<1>10. IsView(view, items)
  <2>1. Len(group_context_units(recent)) >= R
    BY <1>5, <1>6
  <2>2. recent = SubSeq(items, a, Len(items))
    BY DEF From
  <2> HIDE DEF a, recent
  <2> QED BY <1>6, <1>8, <2>1, <2>2 DEF IsView
<1>11. Tokens(view) <= Target \/ k <= MinRecentUnits
  BY <1>2, <1>4
<1>12. ASSUME k < m
       PROVE  Tokens(view) + Tokens(units[m - k]) > Target
  <2> DEFINE c == b[m - (k + 1)]
             unit == SubSeq(items, c, a - 1)
  <2>1. m - k \in 1..m /\ (m - k) - 1 = m - (k + 1) /\ m - (k + 1) \in 0..m
    BY <1>3, <1>5, <1>12
  <2>2. units[m - k] = unit
    BY <1>3, <2>1 DEF UnitsBetween
  <2>3. c \in 1..Len(items) /\ a \in (c + 1)..(Len(items) + 1)
    BY <1>1, <2>1, CutIncreases
  <2> HIDE DEF a, c
  <2>4. From(items, c) = unit \o recent /\ unit \in Seq(ContextItem)
    BY <2>3 DEF From
  <2> HIDE DEF unit, recent
  <2>5. Tokens(Mandatory \o From(items, c)) = Tokens(Mandatory) + (Tokens(unit) + Tokens(recent))
    <3>1. unit \o recent \in Seq(ContextItem)
      BY <1>7, <2>4
    <3> QED BY <1>7, <2>4, <3>1, MandatoryType, TokensOfConcat
  <2>6. Tokens(view) = Tokens(Mandatory) + Tokens(recent)
    BY <1>7, <1>8, MandatoryType, TokensOfConcat
  <2>7. /\ Tokens(Mandatory) \in Nat /\ Tokens(unit) \in Nat /\ Tokens(recent) \in Nat
        /\ Target \in Nat
    BY <1>7, <2>4, MandatoryType, TokensType, WindowAssumption
  <2>8. Tokens(Mandatory \o From(items, c)) > Target
    BY <1>2, <1>12 DEF c
  <2> QED BY <2>2, <2>5, <2>6, <2>7, <2>8
<1> HIDE DEF units, recent, a
<1> QED BY <1>3, <1>6, <1>9, <1>10, <1>11, <1>12 DEF units

(* A summary within its budget, with the recent units, is a view that      *)
(* fits.                                                                   *)
LEMMA SummaryIsView ==
    ASSUME NEW items \in Seq(ContextItem),
           \A i \in DOMAIN items : ~IsMandatory(items[i]),
           NEW tokens \in 1..SummaryBudget(Mandatory \o items),
           NEW view, view = WithSummary(Mandatory \o items, tokens)
    PROVE  /\ view \in Seq(ContextItem)
           /\ IsView(view, items)
           /\ Tokens(view) <= Target
<1> DEFINE units == group_context_units(items)
           R == RecentCount(units)
           context == Mandatory \o items
           summary == Item(0, "summary", 0, tokens)
<1>1. PICK m, b : IsCut(items, m, b)
  BY UnitsAreCut
<1>2. Len(units) = m /\ m \in Nat
  BY <1>1, UnitsOfCut DEF IsCut
<1>3. R \in 0..m /\ m - R \in 0..m /\ m - (m - R) = R /\ R \in Nat
  BY <1>2, RecentCountIs
<1> DEFINE a == b[m - R]
           recent == From(items, a)
<1>4. RecentItems(context) = recent
  BY <1>1, RecentOfConversation
<1>5. a \in 1..(Len(items) + 1) /\ Len(group_context_units(recent)) = R
  BY <1>1, <1>3, CutFrom
<1>6. recent \in Seq(ContextItem)
  BY <1>5, FromItems
<1>7. MandatoryItems(context) = Mandatory
  BY ContextIsSplit
<1> HIDE DEF context, recent
<1>8. /\ Tokens(Mandatory) \in Nat /\ Tokens(recent) \in Nat /\ Target \in Nat
      /\ Mandatory \in Seq(ContextItem)
  BY <1>6, MandatoryType, TokensType, WindowAssumption
<1>9. /\ tokens \in 1..Target
      /\ Tokens(Mandatory) + Tokens(recent) + tokens <= Target
  <2> DEFINE needed == Tokens(Mandatory) + Tokens(recent)
  <2>1. SummaryBudget(context) = IF needed < Target THEN Target - needed ELSE 0
    BY <1>4, <1>7 DEF SummaryBudget
  <2>2. tokens \in 1..SummaryBudget(context)
    BY DEF context
  <2>3. needed \in Nat
    BY <1>8
  <2> HIDE DEF needed
  <2>4. needed < Target /\ tokens \in 1..(Target - needed)
    BY <2>1, <2>2
  <2>5. tokens \in 1..Target /\ needed + tokens <= Target
    BY <1>8, <2>3, <2>4
  <2> QED BY <2>5 DEF needed
<1>10. summary \in ContextItem /\ summary.tokens = tokens
  BY <1>8, <1>9 DEF Item, ContextItem, ContextItemType
<1> HIDE DEF summary
<1>11. view = (Mandatory \o <<summary>>) \o recent
  BY <1>4, <1>7 DEF WithSummary, summary, context
<1>12. <<summary>> \in Seq(ContextItem) /\ Mandatory \o <<summary>> \in Seq(ContextItem)
  BY <1>8, <1>10, Concatenation
<1>13. view \in Seq(ContextItem)
  BY <1>6, <1>11, <1>12, Concatenation
<1>14. Tokens(view) = Tokens(Mandatory) + tokens + Tokens(recent)
  <2>1. Tokens(<<summary>>) = tokens
    BY <1>10, TokensOfItem
  <2>2. Tokens(Mandatory \o <<summary>>) = Tokens(Mandatory) + tokens
    BY <1>8, <1>12, <2>1, TokensOfConcat
  <2> QED BY <1>6, <1>11, <1>12, <2>2, TokensOfConcat
<1>15. Tokens(view) <= Target
  BY <1>8, <1>9, <1>14
<1>16. IsView(view, items)
  <2>1. Len(group_context_units(recent)) >= R
    BY <1>3, <1>5
  <2>2. recent = SubSeq(items, a, Len(items))
    BY DEF From, recent
  <2> HIDE DEF a, units
  <2> QED BY <1>5, <1>9, <1>11, <2>1, <2>2 DEF IsView, summary, units
<1> QED BY <1>13, <1>15, <1>16

------------------------------------------------------------------------------
(* What the loop sends.                                                    *)

(* What ContextBuilder.build makes of the conversation.                    *)
Context == Mandatory \o messages

(* A message has its position as its id, and none is a mandatory item.     *)
Told == \A i \in Ids : messages[i].id = i /\ ~IsMandatory(messages[i])

(* The three ways in which a request is made from the conversation.        *)
Built(view) ==
    \/ /\ view = Context
       /\ \/ config.compaction = "none"
          \/ ~ShouldCompact(Context)
          \/ Tokens(Context) <= Target
    \/ view = SlidingWindow(Context)
    \/ /\ config.compaction = "full_summary"
       /\ \E tokens \in 1..SummaryBudget(Context) : view = WithSummary(Context, tokens)

(* The request is one of these as long as the turn has not gone on.        *)
RequestIsBuilt ==
    /\ request \in Seq(ContextItem)
    /\ pc = "summarize" => request = Context /\ config.compaction = "full_summary"
    /\ pc \in {"request", "generate", "backoff"} => Built(request)

(* A turn begins before the last step, an attempt before the last one.     *)
WithinBounds ==
    /\ step \in 0..MaxSteps
    /\ pc \in {"summarize", "request", "generate", "backoff", "items", "verify",
               "verdict", "tool", "recorded"} => step < MaxSteps
    /\ attempt \in 1..MaxAttempts

RequestInv == Told /\ RequestIsBuilt /\ WithinBounds

(* What is told of a turn is numbered on and never mandatory.              *)
LEMMA MoreIsTold ==
    ASSUME ToolInv, Told, NEW new \in Seq(ContextItem), messages' = messages \o new,
           \A i \in 1..Len(new) : new[i].id = Len(messages) + i /\ ~IsMandatory(new[i])
    PROVE  Told'
<1>1. messages \in Seq(ContextItem) /\ Len(messages) \in Nat
  BY DEF ToolInv, ToolType
<1>2. /\ Len(messages') = Len(messages) + Len(new) /\ Len(new) \in Nat
      /\ \A i \in 1..Len(messages) : messages'[i] = messages[i]
      /\ \A i \in 1..Len(new) : messages'[Len(messages) + i] = new[i]
  BY <1>1, Concatenation
<1>3. ASSUME NEW i \in Ids'
      PROVE  messages'[i].id = i /\ ~IsMandatory(messages'[i])
  <2>1. i \in 1..(Len(messages) + Len(new)) /\ i \in Nat
    BY <1>2 DEF Ids
  <2>2. CASE i <= Len(messages)
    <3>1. i \in Ids /\ i \in 1..Len(messages)
      BY <1>1, <2>1, <2>2 DEF Ids
    <3> QED BY <1>2, <3>1 DEF Told
  <2>3. CASE i > Len(messages)
    <3>1. i - Len(messages) \in 1..Len(new) /\ Len(messages) + (i - Len(messages)) = i
      BY <1>1, <1>2, <2>1, <2>3
    <3> QED BY <1>2, <3>1
  <2> QED BY <1>1, <2>1, <2>2, <2>3
<1> QED BY <1>3 DEF Told

(* The messages keep their numbers and their types through every step.     *)
LEMMA ToldStep ==
    ASSUME ToolInv, Told, [Next]_vars
    PROVE  Told'
<1>1. /\ messages \in Seq(ContextItem) /\ Len(messages) \in Nat
      /\ NextId = Len(messages) + 1 /\ NextId \in Nat
  BY DEF ToolInv, ToolType, NextId
<1>2. ASSUME NEW type \in {"assistant", "verification", "tool_call", "tool_result"},
             NEW call \in Nat, NEW tokens \in Nat, AppendMessage(type, call, tokens)
      PROVE  Told'
  <2> DEFINE item == Item(NextId, type, call, tokens)
  <2>1. item \in ContextItem /\ item.id = NextId /\ ~IsMandatory(item)
    BY <1>1 DEF Item, ContextItem, ContextItemType, IsMandatory
  <2>2. messages' = Append(messages, item)
    BY <1>2 DEF AppendMessage
  <2> HIDE DEF item
  <2>3. messages' = messages \o <<item>>
    BY <1>1, <2>1, <2>2
  <2>4. <<item>> \in Seq(ContextItem) /\ Len(<<item>>) = 1 /\ <<item>>[1] = item
    BY <2>1
  <2>5. \A i \in 1..Len(<<item>>) :
            <<item>>[i].id = Len(messages) + i /\ ~IsMandatory(<<item>>[i])
    BY <1>1, <2>1, <2>4
  <2> QED BY <2>3, <2>4, <2>5, MoreIsTold
<1>3. CASE HandleMessage
  BY <1>2, <1>3 DEF HandleMessage
<1>4. CASE HandleToolCall
  BY <1>1, <1>2, <1>4 DEF HandleToolCall
<1>5. CASE ApplyVerdict
  <2>1. CASE messages' = messages
    BY <2>1 DEF Told, Ids
  <2>2. CASE messages' = messages \o <<Item(NextId, "assistant", 0, 1),
                                       Item(NextId + 1, "verification", 0, 1)>>
    <3> DEFINE answer == Item(NextId, "assistant", 0, 1)
               verdict == Item(NextId + 1, "verification", 0, 1)
               new == <<answer, verdict>>
    <3>1. /\ answer \in ContextItem /\ answer.id = NextId /\ ~IsMandatory(answer)
          /\ verdict \in ContextItem /\ verdict.id = NextId + 1 /\ ~IsMandatory(verdict)
      BY <1>1 DEF Item, ContextItem, ContextItemType, IsMandatory
    <3>2. messages' = messages \o new
      BY <2>2
    <3> HIDE DEF answer, verdict
    <3>3. new \in Seq(ContextItem) /\ Len(new) = 2 /\ new[1] = answer /\ new[2] = verdict
      BY <3>1
    <3>4. ASSUME NEW i \in 1..Len(new)
          PROVE  new[i].id = Len(messages) + i /\ ~IsMandatory(new[i])
      <4>1. i = 1 \/ i = 2
        BY <3>3
      <4> QED BY <1>1, <3>1, <3>3, <4>1
    <3> HIDE DEF new
    <3> QED BY <3>2, <3>3, <3>4, MoreIsTold
  <2> QED BY <1>5, <2>1, <2>2 DEF ApplyVerdict
<1>6. CASE AppendResult
  <2>1. PICK tokens \in ResultSizes : AppendMessage("tool_result", Head(pending), tokens)
    BY <1>6 DEF AppendResult
  <2>2. tokens \in Nat /\ Head(pending) \in Nat
    <3>1. pending # <<>> /\ pending \in Seq(Nat)
      BY <1>6 DEF ToolInv, ToolType, CallsInOrder, HeadRecorded, AppendResult
    <3> QED BY <3>1, LoopAssumption
  <2> QED BY <1>2, <2>1, <2>2
<1>7. CASE UNCHANGED messages
  BY <1>7 DEF Told, Ids
<1>8. \/ HandleMessage \/ HandleToolCall \/ ApplyVerdict \/ AppendResult
      \/ UNCHANGED messages
  BY DEF Next, LoopStep, vars, conversation, ExceedMaxSteps, BuildContext, Summarize,
         SendRequest, Respond, ProviderFails, Backoff, HandleFinalAnswer, Verify,
         StartTool, ToolReturns, RefuseTool, EndStep, Fail, WriteResult, Cancel,
         Raise, TraceFails, TraceFailsOutside
<1> QED BY <1>3, <1>4, <1>5, <1>6, <1>7, <1>8

(* A run begins with nothing said and before its first step.               *)
LEMMA InitRequestInv == Init => RequestInv
<1> SUFFICES ASSUME Init PROVE RequestInv
  OBVIOUS
<1>1. Told
  BY DEF Init, Told, Ids
<1>2. request \in Seq(ContextItem) /\ pc = "top"
  BY DEF Init
<1>3. RequestIsBuilt
  BY <1>2 DEF RequestIsBuilt
<1>4. WithinBounds
  BY LoopAssumption DEF Init, WithinBounds
<1> QED BY <1>1, <1>3, <1>4 DEF RequestInv

(* The steps stay within the limits: at most MaxSteps turns are begun, and *)
(* the pause before an attempt is only made when there is one left.        *)
LEMMA WithinBoundsStep ==
    ASSUME LoopInv, WithinBounds, [Next]_vars
    PROVE  WithinBounds'
<1> USE DEF WithinBounds, loop, model
<1>0. MaxSteps \in Nat /\ MaxAttempts \in Nat \ {0} /\ step \in Nat /\ attempt \in Nat
  BY LoopAssumption
<1>1. CASE ExceedMaxSteps BY <1>0, <1>1 DEF ExceedMaxSteps
<1>2. CASE BuildContext
  <2>1. attempt' = 1 /\ step < MaxSteps /\ step' = step
    BY <1>2 DEF BuildContext
  <2> QED BY <1>0, <2>1
<1>3. CASE Summarize BY <1>0, <1>3 DEF Summarize
<1>4. CASE SendRequest BY <1>0, <1>4 DEF SendRequest
<1>5. CASE Respond BY <1>0, <1>5 DEF Respond
<1>6. CASE \E retryable \in BOOLEAN : ProviderFails(retryable)
  BY <1>0, <1>6 DEF ProviderFails
<1>7. CASE Backoff
  <2>1. attempt < MaxAttempts
    BY <1>7 DEF Backoff, LoopInv, RetryInv, RetryAllowed
  <2> QED BY <1>0, <1>7, <2>1 DEF Backoff
<1>8. CASE HandleMessage BY <1>0, <1>8 DEF HandleMessage
<1>9. CASE HandleToolCall BY <1>0, <1>9 DEF HandleToolCall
<1>10. CASE HandleFinalAnswer BY <1>0, <1>10 DEF HandleFinalAnswer
<1>11. CASE Verify BY <1>0, <1>11 DEF Verify
<1>12. CASE ApplyVerdict BY <1>0, <1>12 DEF ApplyVerdict
<1>13. CASE StartTool BY <1>0, <1>13 DEF StartTool, ToolsCanRun
<1>14. CASE ToolReturns BY <1>0, <1>14 DEF ToolReturns
<1>15. CASE RefuseTool BY <1>0, <1>15 DEF RefuseTool, ToolsCanRun
<1>16. CASE AppendResult BY <1>0, <1>16 DEF AppendResult
<1>17. CASE EndStep BY <1>0, <1>17 DEF EndStep
<1>18. CASE Fail BY <1>0, <1>18 DEF Fail
<1>19. CASE WriteResult BY <1>0, <1>19 DEF WriteResult
<1>20. CASE Cancel BY <1>0, <1>20 DEF Cancel
<1>21. CASE Raise BY <1>0, <1>21 DEF Raise
<1>22. CASE TraceFails BY <1>0, <1>22 DEF TraceFails
<1>23. CASE TraceFailsOutside BY <1>0, <1>23 DEF TraceFailsOutside
<1>24. CASE UNCHANGED vars BY <1>0, <1>24 DEF vars
<1> QED BY <1>1, <1>2, <1>3, <1>4, <1>5, <1>6, <1>7, <1>8, <1>9, <1>10, <1>11,
           <1>12, <1>13, <1>14, <1>15, <1>16, <1>17, <1>18, <1>19, <1>20, <1>21,
           <1>22, <1>23, <1>24 DEF Next, LoopStep

(* The conversation so far, as the lemmas on contexts ask for it.          *)
LEMMA ConversationType ==
    ASSUME ToolInv, Told
    PROVE  /\ messages \in Seq(ContextItem)
           /\ \A i \in DOMAIN messages : ~IsMandatory(messages[i])
<1>1. messages \in Seq(ContextItem)
  BY DEF ToolInv, ToolType
<1>2. DOMAIN messages = 1..Len(messages)
  BY <1>1
<1> QED BY <1>1, <1>2 DEF Told, Ids

(* Each of the three ways makes a sequence of items.                       *)
LEMMA BuiltType ==
    ASSUME ToolInv, Told, NEW view, Built(view)
    PROVE  view \in Seq(ContextItem)
<1>1. /\ messages \in Seq(ContextItem)
      /\ \A i \in DOMAIN messages : ~IsMandatory(messages[i])
  BY ConversationType
<1>2. CASE view = Context
  BY <1>1, <1>2, ContextIsView DEF Context
<1>3. CASE view = SlidingWindow(Context)
  BY <1>1, <1>3, WindowIsView DEF Context
<1>4. CASE \E tokens \in 1..SummaryBudget(Context) : view = WithSummary(Context, tokens)
  BY <1>1, <1>4, SummaryIsView DEF Context
<1> QED BY <1>2, <1>3, <1>4 DEF Built

(* The fallback of the summary is one of the ways.                         *)
LEMMA FallbackIsBuilt == Built(WithoutSummary(Context))
BY DEF Built, WithoutSummary

(* The request is built when a turn begins, and stays until it is answered. *)
LEMMA RequestIsBuiltStep ==
    ASSUME LoopInv, ToolInv, Told, RequestIsBuilt, [Next]_vars
    PROVE  RequestIsBuilt'
<1>1. ASSUME UNCHANGED <<config, messages>>, pc' \in {"request", "summarize"},
             Built(request'), pc' = "request"
      PROVE  RequestIsBuilt'
  <2>1. request' \in Seq(ContextItem)
    BY <1>1, BuiltType
  <2>2. Built(request)'
    BY <1>1 DEF Built, Context
  <2> QED BY <1>1, <2>1, <2>2 DEF RequestIsBuilt
<1>2. ASSUME UNCHANGED <<config, messages, request>>,
             pc' = "summarize" => pc = "summarize",
             pc' \in {"request", "generate", "backoff"} =>
                 pc \in {"request", "generate", "backoff"}
      PROVE  RequestIsBuilt'
  BY <1>2 DEF RequestIsBuilt, Built, Context
<1>3. ASSUME UNCHANGED request, pc' \notin {"summarize", "request", "generate", "backoff"}
      PROVE  RequestIsBuilt'
  BY <1>3 DEF RequestIsBuilt
<1>4. CASE BuildContext
  <2> DEFINE compact == ShouldCompact(Context) /\ config.compaction # "none"
             summarize == compact /\ config.compaction = "full_summary"
  <2>1. /\ UNCHANGED <<config, messages>>
        /\ IF summarize /\ NeedsSummary(Context)
             THEN request' = Context /\ pc' = "summarize"
             ELSE /\ pc' = "request"
                  /\ request' = CASE ~compact  -> Context
                                  [] summarize -> WithoutSummary(Context)
                                  [] OTHER     -> SlidingWindow(Context)
    BY <1>4 DEF BuildContext, Context, loop, conversation
  <2>2. CASE summarize /\ NeedsSummary(Context)
    <3>1. request' = Context /\ pc' = "summarize" /\ config.compaction = "full_summary"
      BY <2>1, <2>2
    <3>2. Context' = Context
      BY <2>1 DEF Context
    <3>3. request' \in Seq(ContextItem)
      BY <3>1, ConversationType, ContextIsView DEF Context
    <3> QED BY <2>1, <3>1, <3>2, <3>3 DEF RequestIsBuilt
  <2>3. CASE ~(summarize /\ NeedsSummary(Context))
    <3>1. /\ pc' = "request"
          /\ request' = CASE ~compact  -> Context
                          [] summarize -> WithoutSummary(Context)
                          [] OTHER     -> SlidingWindow(Context)
      BY <2>1, <2>3
    <3>2. Built(request')
      <4>1. CASE ~compact
        BY <3>1, <4>1 DEF Built
      <4>2. CASE compact /\ summarize
        BY <3>1, <4>2, FallbackIsBuilt
      <4>3. CASE compact /\ ~summarize
        BY <3>1, <4>3 DEF Built
      <4> QED BY <4>1, <4>2, <4>3
    <3> QED BY <1>1, <2>1, <3>1, <3>2
  <2> QED BY <2>2, <2>3
<1>5. CASE Summarize
  <2>1. request = Context /\ config.compaction = "full_summary"
    BY <1>5 DEF Summarize, RequestIsBuilt
  <2>2. /\ UNCHANGED <<config, messages>> /\ pc' = "request"
        /\ \/ request' = WithoutSummary(Context)
           \/ \E tokens \in 1..SummaryBudget(Context) :
                  request' = WithSummary(Context, tokens)
    BY <1>5, <2>1 DEF Summarize, loop, conversation
  <2>3. Built(request')
    BY <2>1, <2>2, FallbackIsBuilt DEF Built
  <2> QED BY <1>1, <2>2, <2>3
<1>6. CASE SendRequest BY <1>2, <1>6 DEF SendRequest, loop, conversation, model
<1>7. CASE Respond BY <1>3, <1>7 DEF Respond
<1>8. CASE \E retryable \in BOOLEAN : ProviderFails(retryable)
  BY <1>2, <1>8 DEF ProviderFails, loop, conversation, model
<1>9. CASE Backoff BY <1>2, <1>9 DEF Backoff, loop, conversation
<1>10. CASE HandleMessage BY <1>3, <1>10 DEF HandleMessage
<1>11. CASE HandleToolCall BY <1>3, <1>11 DEF HandleToolCall
<1>12. CASE HandleFinalAnswer BY <1>3, <1>12 DEF HandleFinalAnswer
<1>13. CASE Verify BY <1>3, <1>13 DEF Verify, model
<1>14. CASE ApplyVerdict BY <1>3, <1>14 DEF ApplyVerdict, model
<1>15. CASE StartTool BY <1>3, <1>15 DEF StartTool, model
<1>16. CASE ToolReturns BY <1>3, <1>16 DEF ToolReturns, model
<1>17. CASE RefuseTool BY <1>3, <1>17 DEF RefuseTool, model
<1>18. CASE AppendResult BY <1>3, <1>18 DEF AppendResult, model
<1>19. CASE EndStep BY <1>3, <1>19 DEF EndStep, model
<1>20. CASE ExceedMaxSteps BY <1>3, <1>20 DEF ExceedMaxSteps, model
<1>21. CASE Fail BY <1>3, <1>21 DEF Fail, model
<1>22. CASE WriteResult BY <1>3, <1>22 DEF WriteResult, model
<1>23. CASE Cancel BY <1>3, <1>23 DEF Cancel, model
<1>24. CASE Raise BY <1>3, <1>24 DEF Raise, model
<1>25. CASE TraceFails BY <1>3, <1>25 DEF TraceFails, model
<1>26. CASE TraceFailsOutside BY <1>3, <1>26 DEF TraceFailsOutside, model
<1>27. CASE UNCHANGED vars BY <1>2, <1>27 DEF vars
<1> QED BY <1>4, <1>5, <1>6, <1>7, <1>8, <1>9, <1>10, <1>11, <1>12, <1>13, <1>14,
           <1>15, <1>16, <1>17, <1>18, <1>19, <1>20, <1>21, <1>22, <1>23, <1>24,
           <1>25, <1>26, <1>27 DEF Next, LoopStep

(* All that is known of a run, together.                                   *)
RunInv == LoopInv /\ ToolInv /\ RequestInv

(* The request invariant rests on the two before it.                       *)
LEMMA RunInvHolds == Spec => []RunInv
<1>1. Init => RunInv
  BY InitLoopInv, InitToolInv, InitRequestInv DEF RunInv
<1>2. RunInv /\ [Next]_vars => RunInv'
  <2> SUFFICES ASSUME RunInv, [Next]_vars PROVE RunInv'
    OBVIOUS
  <2>1. LoopInv'
    BY ControlTypeStep, AnswerStep, StopStep, RetryStep DEF RunInv, LoopInv
  <2>2. ToolInv'
    BY NextToolInv DEF RunInv
  <2>3. RequestInv'
    BY ToldStep, RequestIsBuiltStep, WithinBoundsStep DEF RunInv, RequestInv
  <2> QED BY <2>1, <2>2, <2>3 DEF RunInv
<1> QED BY <1>1, <1>2, PTL DEF Spec

(* The variables of a run have their types, and its messages their ids,    *)
(* through any number of turns, attempts and compactions (loop.py, state.py). *)
THEOREM LoopTypes == Spec => []TypeOK
<1>1. RunInv => TypeOK
  <2> SUFFICES ASSUME RunInv PROVE TypeOK
    OBVIOUS
  <2> USE DEF RunInv, LoopInv, ControlType, ToolInv, ToolType, RequestInv, Told,
              RequestIsBuilt, WithinBounds
  <2>1. /\ messages \in Seq(ContextItem) /\ \A i \in Ids : messages[i].id = i
        /\ tool_history \in Seq(Nat) /\ executed \in Seq(Nat) /\ pending \in Seq(Nat)
        /\ request \in Seq(ContextItem)
    OBVIOUS
  <2>2. /\ config \in [verifier : BOOLEAN, compaction : Compactions]
        /\ status \in {"running", "completed", "failed", "cancelled"}
        /\ step \in 0..MaxSteps /\ attempt \in 1..MaxAttempts /\ stops \in Nat
        /\ response \in Seq(ResponseItem)
    OBVIOUS
  <2>3. final_answer \in BOOLEAN /\ verdicts \in Seq(BOOLEAN)
    BY Zenon
  <2>4. pc \in {"top", "summarize", "request", "generate", "backoff", "items",
                "verify", "verdict", "tool", "recorded", "failing", "result",
                "returned", "raised"}
    OBVIOUS
  <2> QED BY <2>1, <2>2, <2>3, <2>4 DEF TypeOK
<1> QED BY <1>1, RunInvHolds, PTL

(* Whatever the policy did, the model is asked about the mandatory items,  *)
(* perhaps a summary, and the latest part of the conversation, which has   *)
(* at least the units that are to be kept (policies/compaction.py).        *)
THEOREM RequestsAreViews == Spec => []RequestIsView
<1>1. RunInv => RequestIsView
  <2> SUFFICES ASSUME RunInv, pc = "generate" PROVE IsView(request, messages)
    BY DEF RequestIsView
  <2>1. /\ messages \in Seq(ContextItem)
        /\ \A i \in DOMAIN messages : ~IsMandatory(messages[i])
    BY ConversationType DEF RunInv, RequestInv
  <2>2. Built(request)
    BY DEF RunInv, RequestInv, RequestIsBuilt
  <2>3. CASE request = Context
    BY <2>1, <2>3, ContextIsView DEF Context
  <2>4. CASE request = SlidingWindow(Context)
    BY <2>1, <2>4, WindowIsView DEF Context
  <2>5. CASE \E tokens \in 1..SummaryBudget(Context) :
                 request = WithSummary(Context, tokens)
    BY <2>1, <2>5, SummaryIsView DEF Context
  <2> QED BY <2>2, <2>3, <2>4, <2>5 DEF Built
<1> QED BY <1>1, RunInvHolds, PTL

(* A request that was compacted has at most the target's tokens, or only   *)
(* the units that had to be kept are left in it.                           *)
THEOREM RequestsFit == Spec => []RequestFits
<1>1. RunInv => RequestFits
  <2> SUFFICES ASSUME RunInv, pc = "generate", config.compaction # "none",
                      ShouldCompact(Context)
               PROVE  \/ Tokens(request) <= Target
                      \/ Len(group_context_units(History(request))) <= MinRecentUnits
    BY DEF RequestFits, Context
  <2>1. /\ messages \in Seq(ContextItem)
        /\ \A i \in DOMAIN messages : ~IsMandatory(messages[i])
    BY ConversationType DEF RunInv, RequestInv
  <2>2. Built(request)
    BY DEF RunInv, RequestInv, RequestIsBuilt
  <2>3. CASE request = Context /\ Tokens(Context) <= Target
    BY <2>3
  <2>4. CASE request = SlidingWindow(Context)
    BY <2>1, <2>4, WindowIsView DEF Context
  <2>5. CASE \E tokens \in 1..SummaryBudget(Context) :
                 request = WithSummary(Context, tokens)
    BY <2>1, <2>5, SummaryIsView DEF Context
  <2> QED BY <2>2, <2>3, <2>4, <2>5 DEF Built
<1> QED BY <1>1, RunInvHolds, PTL

(* The sliding window drops no unit that would have fit: with the latest   *)
(* of the dropped ones the request exceeds the target (compaction.py 59).  *)
THEOREM WindowsAreLargest == Spec => []WindowIsLargest
<1>1. RunInv => WindowIsLargest
  <2> DEFINE units == group_context_units(messages)
             kept == Len(group_context_units(History(request)))
  <2> SUFFICES ASSUME RunInv, pc = "generate", config.compaction = "sliding_window",
                      kept < Len(units)
               PROVE  Tokens(request) + Tokens(units[Len(units) - kept]) > Target
    BY DEF WindowIsLargest
  <2>1. /\ messages \in Seq(ContextItem)
        /\ \A i \in DOMAIN messages : ~IsMandatory(messages[i])
    BY ConversationType DEF RunInv, RequestInv
  <2>2. Built(request)
    BY DEF RunInv, RequestInv, RequestIsBuilt
  <2>3. CASE request = Context
    <3>1. History(request) = messages
      BY <2>1, <2>3, ContextIsView DEF Context
    <3>2. Len(units) \in Nat
      <4>1. PICK m, b : IsCut(messages, m, b)
        BY <2>1, UnitsAreCut
      <4> QED BY <2>1, <4>1, UnitsOfCut DEF IsCut
    <3> QED BY <3>1, <3>2
  <2>4. CASE request = SlidingWindow(Context)
    BY <2>1, <2>4, WindowIsView DEF Context
  <2> QED BY <2>2, <2>3, <2>4 DEF Built
<1> QED BY <1>1, RunInvHolds, PTL

------------------------------------------------------------------------------
(* Why no half of a tool interaction is sent.                              *)

(* What an item of a sequence refers to is a number, as its place is.      *)
LEMMA PlaceType ==
    ASSUME NEW items \in Seq(ContextItem)
    PROVE  /\ DOMAIN items = 1..Len(items) /\ Len(items) \in Nat
           /\ \A j \in DOMAIN items : items[j].call \in Nat
<1>1. DOMAIN items = 1..Len(items) /\ Len(items) \in Nat
  OBVIOUS
<1>2. \A j \in DOMAIN items : items[j] \in ContextItem
  OBVIOUS
<1> QED BY <1>1, <1>2 DEF ContextItem

(* From the call at c to the item at end there are calls, then results.    *)
IsBatch(items, c, e, end) ==
    /\ c < e
    /\ c..(e - 1) \subseteq Of(items, "tool_call")
    /\ e..end \subseteq Of(items, "tool_result")

(* Every result follows its call in one batch, and every call has a result. *)
Interactions(items) ==
    /\ \A c \in Of(items, "tool_call") : items[c].call = c
    /\ \A r \in Of(items, "tool_result") :
           \E e \in 1..r : IsBatch(items, items[r].call, e, r)
    /\ \A c \in Of(items, "tool_call") :
           \E r \in Of(items, "tool_result") : c < r /\ items[r].call = c

(* A unit does not begin in the middle of a batch's calls: the one before  *)
(* would have gone on.                                                     *)
LEMMA UnitsBeginBatches ==
    ASSUME NEW items \in Seq(ContextItem), NEW m, NEW b, IsCut(items, m, b),
           NEW k \in 0..m, b[k] \in Of(items, "tool_call")
    PROVE  b[k] - 1 \notin Of(items, "tool_call")
<1> DEFINE calls == Of(items, "tool_call")
<1>1. m \in Nat /\ calls \subseteq 1..Len(items) /\ Len(items) \in Nat
  BY DEF IsCut, Of
<1>2. CASE k = 0
  BY <1>1, <1>2 DEF IsCut
<1>3. CASE k # 0
  <2> DEFINE s == b[k - 1]
  <2>1. k \in 1..m
    BY <1>1, <1>3
  <2>2. s \in 1..Len(items) /\ b[k] \in (s + 1)..(Len(items) + 1)
    BY <2>1, CutIncreases
  <2>3. b[k] = next_index(items, s)
    BY <2>1 DEF IsCut
  <2> HIDE DEF s
  <2>4. CASE s \notin calls
    <3>1. b[k] = s + 1
      BY <2>2, <2>3, <2>4, NextIndex
    <3> QED BY <2>2, <2>4, <3>1
  <2>5. CASE s \in calls
    <3>1. PICK q \in (s + 1)..(Len(items) + 1) :
              q = Skip(items, calls, s) /\ b[k] = Skip(items, ResultsOf(items, s, q), q)
      BY <2>2, <2>3, <2>5, NextIndex
    <3>2. q \notin calls
      <4>1. s \in 1..(Len(items) + 1) /\ calls \in SUBSET (1..Len(items))
        BY <1>1, <2>2
      <4> QED BY <3>1, <4>1, SkipStops
    <3>3. b[k] \in q..(Len(items) + 1) /\ q..(b[k] - 1) \subseteq ResultsOf(items, s, q)
      <4> DEFINE own == ResultsOf(items, s, q)
      <4>1. q \in 1..(Len(items) + 1) /\ own \in SUBSET (1..Len(items))
        BY <2>2, <3>1 DEF ResultsOf
      <4>2. b[k] = Skip(items, own, q)
        BY <3>1
      <4> HIDE DEF own
      <4>3. Skip(items, own, q) \in q..(Len(items) + 1)
            /\ q..(Skip(items, own, q) - 1) \subseteq own
        BY <4>1, SkipStops
      <4>4. b[k] \in q..(Len(items) + 1) /\ q..(b[k] - 1) \subseteq own
        BY <4>2, <4>3
      <4> QED BY <4>4 DEF own
    <3>4. b[k] # q
      BY <3>2
    <3>5. b[k] - 1 \in q..(b[k] - 1)
      BY <2>2, <3>1, <3>3, <3>4
    <3>6. b[k] - 1 \in ResultsOf(items, s, q)
      BY <3>3, <3>5
    <3> QED BY <3>6 DEF ResultsOf, Of
  <2> QED BY <2>4, <2>5
<1> QED BY <1>2, <1>3

(* The results of one batch have their calls in it: the calls end at one   *)
(* place and begin no later than any of them.                              *)
LEMMA BatchesMeet ==
    ASSUME NEW items \in Seq(ContextItem), NEW c \in Nat, NEW e \in Nat, NEW r \in Nat,
           IsBatch(items, c, e, r), e <= r,
           NEW j \in e..r, NEW d \in Nat, NEW f \in Nat, IsBatch(items, d, f, j), f <= j
    PROVE  f = e /\ d < e
<1>1. \A i \in Of(items, "tool_call") : i \notin Of(items, "tool_result")
  BY DEF Of
<1>2. ~(f > e)
  <2> SUFFICES ASSUME f > e PROVE FALSE
    OBVIOUS
  <2>1. f - 1 \in d..(f - 1) /\ f - 1 \in e..r
    BY DEF IsBatch
  <2> QED BY <1>1, <2>1 DEF IsBatch
<1>3. ~(f < e)
  <2> SUFFICES ASSUME f < e PROVE FALSE
    OBVIOUS
  <2>1. e - 1 \in c..(e - 1) /\ e - 1 \in f..j
    BY DEF IsBatch
  <2> QED BY <1>1, <2>1 DEF IsBatch
<1> QED BY <1>2, <1>3 DEF IsBatch

(* A unit with a call has all its results.                                 *)
LEMMA UnitHasResults ==
    ASSUME NEW items \in Seq(ContextItem), Interactions(items),
           NEW s \in 1..Len(items),
           s \in Of(items, "tool_call") => s - 1 \notin Of(items, "tool_call"),
           NEW r \in Of(items, "tool_result"), s <= items[r].call,
           items[r].call < next_index(items, s)
    PROVE  r < next_index(items, s)
<1> DEFINE calls == Of(items, "tool_call")
           results == Of(items, "tool_result")
           c == items[r].call
           n == Len(items)
           next == next_index(items, s)
<1>1. /\ calls \in SUBSET (1..n) /\ results \in SUBSET (1..n) /\ n \in Nat
      /\ \A i \in calls : i \notin results
  BY DEF Of
<1>2. c \in Nat /\ r \in 1..n
  BY PlaceType DEF Of
<1>3. PICK e \in 1..r : IsBatch(items, c, e, r)
  BY DEF Interactions
<1>4. c \in calls
  <2>1. c \in c..(e - 1)
    BY <1>2, <1>3 DEF IsBatch
  <2> QED BY <1>3, <2>1 DEF IsBatch
<1>5. s \in calls
  <2> SUFFICES ASSUME s \notin calls PROVE FALSE
    OBVIOUS
  <2>1. next = s + 1
    BY NextIndex
  <2>2. c = s
    BY <1>2, <2>1
  <2> QED BY <1>4, <2>2
<1>6. PICK q \in (s + 1)..(n + 1) :
          q = Skip(items, calls, s) /\ next = Skip(items, ResultsOf(items, s, q), q)
  BY <1>5, NextIndex
<1>7. q \notin calls /\ s..(q - 1) \subseteq calls
  <2>1. s \in 1..(n + 1)
    BY <1>1
  <2> QED BY <1>1, <1>6, <2>1, SkipStops
<1>8. /\ next \in q..(n + 1) /\ q..(next - 1) \subseteq ResultsOf(items, s, q)
      /\ next \notin ResultsOf(items, s, q)
  <2> DEFINE own == ResultsOf(items, s, q)
  <2>1. q \in 1..(n + 1) /\ own \in SUBSET (1..n)
    BY <1>1, <1>6 DEF ResultsOf
  <2>2. next = Skip(items, own, q)
    BY <1>6
  <2> HIDE DEF own, next
  <2>3. /\ Skip(items, own, q) \in q..(n + 1) /\ Skip(items, own, q) \notin own
        /\ q..(Skip(items, own, q) - 1) \subseteq own
    BY <2>1, SkipStops
  <2>4. next \in q..(n + 1) /\ q..(next - 1) \subseteq own /\ next \notin own
    BY <2>2, <2>3
  <2> QED BY <2>4 DEF own
<1> HIDE DEF c, next, n, calls, results
<1>9. c < q
  <2> SUFFICES ASSUME ~(c < q) PROVE FALSE
    OBVIOUS
  <2>1. c \in q..(next - 1)
    BY <1>2, <1>6, <1>8 DEF next, c
  <2>2. c \in results
    BY <1>8, <2>1 DEF ResultsOf, Of, results
  <2> QED BY <1>1, <1>4, <2>2
<1>10. q = e
  <2>1. ~(q < e)
    <3> SUFFICES ASSUME q < e PROVE FALSE
      OBVIOUS
    <3>1. q \in c..(e - 1)
      BY <1>2, <1>6, <1>9
    <3> QED BY <1>3, <1>7, <3>1 DEF IsBatch, calls
  <2>2. ~(e < q)
    <3> SUFFICES ASSUME e < q PROVE FALSE
      OBVIOUS
    <3>1. c < e
      BY <1>3 DEF IsBatch
    <3>2. e \in s..(q - 1) /\ e \in e..r
      BY <1>2, <1>6, <3>1 DEF c
    <3>3. e \in results
      BY <1>3, <3>2 DEF IsBatch, results
    <3> QED BY <1>1, <1>7, <3>2, <3>3
  <2> QED BY <1>1, <1>2, <1>6, <2>1, <2>2
<1>11. ASSUME NEW j \in q..r PROVE j \in ResultsOf(items, s, q)
  <2>1. j \in results
    BY <1>3, <1>10, <1>11 DEF IsBatch, results
  <2> DEFINE d == items[j].call
  <2>2. d \in Nat /\ j \in Nat /\ j \in 1..n
    BY PlaceType, <2>1 DEF Of, results, n
  <2>3. PICK f \in 1..j : IsBatch(items, d, f, j)
    BY <2>1 DEF Interactions, results
  <2> HIDE DEF d
  <2>4. f = e /\ d < e
    <3>1. c \in Nat /\ e \in Nat /\ r \in Nat /\ f \in Nat /\ j \in e..r /\ e <= r /\ f <= j
      BY <1>2, <1>10, <2>2
    <3> QED BY <1>3, <2>2, <2>3, <3>1, BatchesMeet
  <2>5. d..(e - 1) \subseteq calls
    BY <2>3, <2>4 DEF IsBatch, calls
  <2>6. s <= d
    <3> SUFFICES ASSUME ~(s <= d) PROVE FALSE
      OBVIOUS
    <3>1. s - 1 \in d..(e - 1)
      BY <1>6, <1>10, <2>2
    <3> QED BY <1>5, <2>5, <3>1 DEF calls
  <2>7. d \in s..(q - 1) /\ d \in calls
    <3>1. d \in d..(e - 1) /\ d \in s..(q - 1)
      BY <1>10, <2>2, <2>4, <2>6
    <3> QED BY <2>5, <3>1
  <2>8. items[d].call = d
    BY <2>7 DEF Interactions, calls
  <2> QED BY <2>1, <2>7, <2>8 DEF ResultsOf, Of, results, d
<1>12. ~(next <= r)
  <2> SUFFICES ASSUME next <= r PROVE FALSE
    OBVIOUS
  <2>1. next \in q..r
    BY <1>2, <1>6, <1>8
  <2> QED BY <1>8, <1>11, <2>1
<1> QED BY <1>1, <1>2, <1>6, <1>8, <1>12 DEF next, n

(* Where the units of a cut lie: in order, and each place is in one.       *)
LEMMA PlaceInUnit ==
    ASSUME NEW items \in Seq(ContextItem), NEW m, NEW b, IsCut(items, m, b),
           NEW k \in 0..m, NEW c \in 1..(b[k] - 1)
    PROVE  \E l \in 1..k : b[l - 1] <= c /\ c < b[l] /\ b[l] <= b[k]
<1> DEFINE T == {l \in 0..k : c < b[l]}
           n == Len(items)
<1>1. /\ m \in Nat /\ n \in Nat /\ k \in Nat
      /\ \A l \in 0..m : b[l] \in 1..(n + 1)
  BY DEF IsCut
<1> HIDE DEF n
<1>2. k \in T /\ T \in SUBSET Nat
  BY <1>1
<1>3. PICK l \in T : \A y \in T : l <= y
  <2> HIDE DEF T
  <2> QED BY <1>2, LeastNumber
<1>4. l # 0
  <2>1. b[0] = 1
    BY DEF IsCut
  <2> QED BY <1>3, <2>1
<1>5. l \in 1..k /\ l - 1 \in 0..k /\ l - 1 \in 0..m /\ l \in 0..m
  BY <1>1, <1>3, <1>4
<1>6. b[l - 1] <= c
  <2>1. l - 1 \notin T
    BY <1>3, <1>5
  <2> QED BY <1>1, <1>5, <2>1
<1>7. b[l] <= b[k]
  <2> DEFINE S == {i \in l..k : b[l] <= b[i]}
  <2>1. l..k \subseteq S
    <3>1. l \in S
      BY <1>1, <1>5
    <3>2. ASSUME NEW i \in l..(k - 1), i \in S PROVE i + 1 \in S
      <4>1. i + 1 \in 1..m /\ (i + 1) - 1 = i /\ i + 1 \in l..k /\ i \in 0..m /\ i + 1 \in 0..m
        BY <1>1, <1>5
      <4>2. b[i + 1] \in (b[i] + 1)..(n + 1)
        BY <4>1, CutIncreases DEF n
      <4> QED BY <1>1, <1>5, <3>2, <4>1, <4>2
    <3>3. l \in Int /\ k \in Int
      BY <1>1, <1>5
    <3> HIDE DEF S
    <3> QED BY ONLY <3>1, <3>2, <3>3, UpwardInduction
  <2>2. k \in l..k
    BY <1>1, <1>5
  <2> QED BY <2>1, <2>2
<1> QED BY <1>3, <1>5, <1>6, <1>7

(* What is left after some units has no half of an interaction.            *)
LEMMA LastUnitsAreWhole ==
    ASSUME NEW items \in Seq(ContextItem), Interactions(items),
           NEW m, NEW b, IsCut(items, m, b), NEW k \in 0..m
    PROVE  WholeInteractions(From(items, b[k]))
<1> DEFINE n == Len(items)
           a == b[k]
           s == From(items, a)
<1>1. m \in Nat /\ n \in Nat /\ a \in 1..(n + 1)
  BY DEF IsCut
<1>2. /\ s \in Seq(ContextItem) /\ Len(s) = n - a + 1
      /\ DOMAIN s = 1..(n - a + 1) /\ DOMAIN items = 1..n
      /\ \A j \in 1..(n - a + 1) : s[j] = items[j + a - 1]
  <2> HIDE DEF a
  <2> QED BY <1>1, FromItems
<1>3. ASSUME NEW r \in Of(items, "tool_result"), a <= r
      PROVE  items[r].call \in Of(items, "tool_call") /\ a <= items[r].call /\ items[r].call < r
  <2> DEFINE c == items[r].call
  <2>1. c \in Nat /\ r \in 1..n
    BY PlaceType DEF Of
  <2>2. PICK e \in 1..r : IsBatch(items, c, e, r)
    BY DEF Interactions
  <2> HIDE DEF c
  <2>3. c < e /\ c \in Of(items, "tool_call")
    <3>1. c < e
      BY <2>2 DEF IsBatch
    <3>2. c \in c..(e - 1)
      BY <2>1, <3>1
    <3> QED BY <2>2, <3>1, <3>2 DEF IsBatch
  <2>4. a <= c
    <3> SUFFICES ASSUME ~(a <= c) PROVE FALSE
      OBVIOUS
    <3>1. c \in 1..(a - 1)
      <4>1. c \in 1..n
        BY <1>2, <2>3 DEF Of
      <4> QED BY <1>1, <4>1
    <3>2. PICK l \in 1..k : b[l - 1] <= c /\ c < b[l] /\ b[l] <= a
      BY <3>1, PlaceInUnit DEF a
    <3>3. l \in 1..m /\ l - 1 \in 0..m
      BY <1>1
    <3>4. b[l - 1] \in 1..n /\ b[l] = next_index(items, b[l - 1]) /\ b[l] \in 1..(n + 1)
      BY <3>3, CutIncreases DEF IsCut
    <3>5. b[l - 1] \in Of(items, "tool_call") => b[l - 1] - 1 \notin Of(items, "tool_call")
      BY <3>3, UnitsBeginBatches
    <3>6. r < b[l]
      <4>1. b[l - 1] <= items[r].call /\ items[r].call < next_index(items, b[l - 1])
        BY <3>2, <3>4 DEF c
      <4> QED BY <3>4, <3>5, <4>1, UnitHasResults
    <3> QED BY <1>1, <1>3, <2>1, <3>2, <3>4, <3>6
  <2> QED BY <2>1, <2>2, <2>3, <2>4 DEF c
<1> HIDE DEF s, a, n
<1>4. ASSUME NEW i \in DOMAIN s, s[i].type = "tool_result"
      PROVE  \E j \in 1..(i - 1) : s[j].type = "tool_call" /\ s[j].call = s[i].call
  <2> DEFINE r == i + a - 1
             c == items[r].call
  <2>1. i \in 1..(n - a + 1) /\ r \in 1..n /\ a <= r /\ s[i] = items[r]
    <3>1. i \in 1..(n - a + 1)
      BY <1>2
    <3>2. s[i] = items[r]
      BY <1>2, <3>1
    <3> HIDE DEF c
    <3>3. r \in 1..n /\ a <= r
      BY ONLY <1>1, <3>1 DEF r
    <3> QED BY ONLY <3>1, <3>2, <3>3
  <2>2. r \in Of(items, "tool_result")
    BY <1>2, <1>4, <2>1 DEF Of
  <2>3. c \in Of(items, "tool_call") /\ a <= c /\ c < r
    <3> HIDE DEF r
    <3> QED BY <1>3, <2>1, <2>2
  <2>4. c \in 1..n
    BY <1>2, <2>3 DEF Of
  <2> HIDE DEF c
  <2>5. c - a + 1 \in 1..(i - 1) /\ c - a + 1 \in 1..(n - a + 1) /\ (c - a + 1) + a - 1 = c
    BY <1>1, <2>1, <2>3, <2>4
  <2>6. s[c - a + 1] = items[c]
    BY <1>2, <2>5
  <2>7. items[c].type = "tool_call" /\ items[c].call = c
    BY <2>3 DEF Of, Interactions
  <2> QED BY <2>1, <2>5, <2>6, <2>7 DEF c
<1>5. ASSUME NEW i \in DOMAIN s, s[i].type = "tool_call"
      PROVE  \E j \in (i + 1)..Len(s) : s[j].type = "tool_result" /\ s[j].call = s[i].call
  <2> DEFINE c == i + a - 1
  <2>1. i \in 1..(n - a + 1) /\ c \in 1..n /\ a <= c /\ s[i] = items[c]
    <3>1. i \in 1..(n - a + 1)
      BY <1>2
    <3>2. s[i] = items[c]
      BY <1>2, <3>1
    <3>3. c \in 1..n /\ a <= c
      BY ONLY <1>1, <3>1 DEF c
    <3> QED BY ONLY <3>1, <3>2, <3>3
  <2>2. c \in Of(items, "tool_call")
    BY <1>2, <1>5, <2>1 DEF Of
  <2> HIDE DEF c
  <2>3. items[c].call = c
    BY <2>2 DEF Interactions
  <2>4. PICK r \in Of(items, "tool_result") : c < r /\ items[r].call = c
    BY <2>2 DEF Interactions
  <2>5. r \in 1..n /\ items[r].type = "tool_result"
    BY <1>2 DEF Of
  <2>6. /\ r - a + 1 \in (i + 1)..Len(s) /\ r - a + 1 \in 1..(n - a + 1)
        /\ (r - a + 1) + a - 1 = r
    BY <1>1, <1>2, <2>1, <2>4, <2>5 DEF c
  <2>7. s[r - a + 1] = items[r]
    BY <1>2, <2>6
  <2> QED BY <2>1, <2>3, <2>4, <2>5, <2>6, <2>7
<1> QED BY <1>4, <1>5 DEF WholeInteractions, s, a

(* Items that are neither calls nor results may come before.               *)
LEMMA WholeAfter ==
    ASSUME NEW s \in Seq(ContextItem), NEW t \in Seq(ContextItem), WholeInteractions(t),
           \A i \in 1..Len(s) : s[i].type \notin {"tool_call", "tool_result"}
    PROVE  WholeInteractions(s \o t)
<1> DEFINE u == s \o t
           n == Len(s)
           l == Len(t)
<1>1. /\ u \in Seq(ContextItem) /\ Len(u) = n + l /\ n \in Nat /\ l \in Nat
      /\ \A i \in 1..n : u[i] = s[i]
      /\ \A i \in 1..l : u[n + i] = t[i]
  BY Concatenation
<1>2. DOMAIN u = 1..(n + l) /\ DOMAIN t = 1..l
  <2> HIDE DEF u
  <2> QED BY <1>1
<1> HIDE DEF u, n, l
<1>3. ASSUME NEW i \in DOMAIN u, u[i].type \in {"tool_call", "tool_result"}
      PROVE  i - n \in 1..l /\ n + (i - n) = i /\ u[i] = t[i - n]
  <2>1. ~(i \in 1..n)
    BY <1>1, <1>3 DEF n
  <2>2. i - n \in 1..l /\ n + (i - n) = i
    BY <1>1, <1>2, <2>1
  <2> QED BY <1>1, <2>2
<1>4. ASSUME NEW i \in DOMAIN u, u[i].type = "tool_result"
      PROVE  \E j \in 1..(i - 1) : u[j].type = "tool_call" /\ u[j].call = u[i].call
  <2>1. i - n \in 1..l /\ n + (i - n) = i /\ u[i] = t[i - n]
    BY <1>3, <1>4
  <2>2. PICK j \in 1..((i - n) - 1) : t[j].type = "tool_call" /\ t[j].call = t[i - n].call
    BY <1>2, <1>4, <2>1 DEF WholeInteractions
  <2>3. n + j \in 1..(i - 1) /\ j \in 1..l
    <3>1. i \in 1..(n + l) /\ n \in Nat /\ l \in Nat /\ j \in 1..((i - n) - 1)
      BY <1>1, <1>2
    <3> QED BY ONLY <3>1
  <2>4. u[n + j] = t[j]
    BY <1>1, <2>3
  <2> QED BY <2>1, <2>2, <2>3, <2>4
<1>5. ASSUME NEW i \in DOMAIN u, u[i].type = "tool_call"
      PROVE  \E j \in (i + 1)..Len(u) : u[j].type = "tool_result" /\ u[j].call = u[i].call
  <2>1. i - n \in 1..l /\ n + (i - n) = i /\ u[i] = t[i - n]
    BY <1>3, <1>5
  <2>2. PICK j \in ((i - n) + 1)..l : t[j].type = "tool_result" /\ t[j].call = t[i - n].call
    BY <1>2, <1>5, <2>1 DEF WholeInteractions, l
  <2>3. n + j \in (i + 1)..Len(u) /\ j \in 1..l
    <3>1. /\ i \in 1..(n + l) /\ n \in Nat /\ l \in Nat /\ j \in ((i - n) + 1)..l
          /\ i - n \in 1..l
      BY <1>1, <1>2, <2>1
    <3>2. n + j \in (i + 1)..(n + l) /\ j \in 1..l
      BY ONLY <3>1
    <3> QED BY <1>1, <3>2
  <2>4. u[n + j] = t[j]
    BY <1>1, <2>3
  <2> QED BY <2>1, <2>2, <2>3, <2>4
<1> QED BY <1>4, <1>5 DEF WholeInteractions, u

------------------------------------------------------------------------------
(* The conversation has whole interactions when the calls of a response    *)
(* come after its other items.                                             *)

(* All that comes after a call is a call.                                  *)
CallsAreLast(items) ==
    \A i, j \in DOMAIN items : i < j /\ items[i] = "tool_call" => items[j] = "tool_call"

OnlyCalls(items) == \A i \in DOMAIN items : items[i] = "tool_call"

(* What the provider's responses are like in every test; ModelResponse     *)
(* does not demand it, and MCScatteredCalls shows what happens without it. *)
CallsComeLast == \A items \in Responses : CallsAreLast(items)

(* The results are in batches with their calls.                            *)
ResultsAreInBatches ==
    /\ \A c \in Of(messages, "tool_call") : messages[c].call = c
    /\ \A r \in Of(messages, "tool_result") :
           \E e \in 1..r : IsBatch(messages, messages[r].call, e, r)

(* The batch of the pending calls is the end of the conversation; while    *)
(* the response is read it has only calls, as has the rest of the response. *)
PendingIsBatch ==
    /\ \A c \in Nat : Awaited(c) =>
           \E e \in 1..NextId : IsBatch(messages, c, e, Len(messages))
    /\ response # <<>> =>
           \A c \in Nat : Awaited(c) => IsBatch(messages, c, NextId, Len(messages))
    /\ CallsAreLast(response)
    /\ pc \in {"verify", "verdict"} \/ ~OnlyCalls(response) => pending = <<>>

BatchInv == ResultsAreInBatches /\ (pc \notin Ending => PendingIsBatch)

(* The rest of a response whose calls come last.                           *)
LEMMA RestOfCalls ==
    ASSUME NEW items \in Seq(ResponseItem), items # <<>>, CallsAreLast(items)
    PROVE  /\ CallsAreLast(Tail(items))
           /\ Head(items) = "tool_call" => OnlyCalls(Tail(items))
           /\ Head(items) # "tool_call" => ~OnlyCalls(items)
<1>1. DOMAIN items = 1..Len(items) /\ Len(items) \in Nat /\ Len(items) # 0
  OBVIOUS
<1>2. /\ DOMAIN Tail(items) = 1..(Len(items) - 1)
      /\ \A i \in 1..(Len(items) - 1) : Tail(items)[i] = items[i + 1]
  OBVIOUS
<1>3. Head(items) = items[1]
  OBVIOUS
<1>4. \A i \in 1..(Len(items) - 1) : i + 1 \in 1..Len(items) /\ 1 < i + 1
  BY <1>1
<1>5. 1 \in 1..Len(items)
  BY <1>1
<1>6. \A i, j \in 1..(Len(items) - 1) : i < j => i + 1 < j + 1
  BY <1>1
<1>7. CallsAreLast(Tail(items))
  BY <1>1, <1>2, <1>4, <1>6 DEF CallsAreLast
<1>8. Head(items) = "tool_call" => OnlyCalls(Tail(items))
  BY <1>1, <1>2, <1>3, <1>4, <1>5 DEF CallsAreLast, OnlyCalls
<1>9. Head(items) # "tool_call" => ~OnlyCalls(items)
  BY <1>1, <1>3, <1>5 DEF OnlyCalls
<1> QED BY <1>7, <1>8, <1>9

(* The items of a type in a conversation that has grown.                   *)
LEMMA OfGrown ==
    ASSUME NEW s \in Seq(ContextItem), NEW t \in Seq(ContextItem), NEW type
    PROVE  /\ Of(s, type) \subseteq Of(s \o t, type)
           /\ \A i \in Of(s \o t, type) :
                  \/ i \in Of(s, type)
                  \/ /\ i - Len(s) \in Of(t, type) /\ i \in Nat /\ i > Len(s)
                     /\ (s \o t)[i] = t[i - Len(s)]
           /\ \A i \in Of(t, type) : Len(s) + i \in Of(s \o t, type)
<1> DEFINE u == s \o t
           n == Len(s)
           l == Len(t)
<1>1. /\ u \in Seq(ContextItem) /\ Len(u) = n + l /\ n \in Nat /\ l \in Nat
      /\ \A i \in 1..n : u[i] = s[i]
      /\ \A i \in 1..l : u[n + i] = t[i]
  BY Concatenation
<1>2. DOMAIN s = 1..n /\ DOMAIN t = 1..l
  OBVIOUS
<1>3. DOMAIN u = 1..(n + l)
  <2> HIDE DEF u, n, l
  <2>1. DOMAIN u = 1..Len(u)
    BY <1>1
  <2> QED BY <1>1, <2>1
<1> HIDE DEF u, n, l
<1>4. Of(s, type) \subseteq Of(u, type)
  BY <1>1, <1>2, <1>3 DEF Of
<1>5. ASSUME NEW i \in Of(u, type), i \notin Of(s, type)
      PROVE  i - n \in Of(t, type) /\ i \in Nat /\ i > n /\ u[i] = t[i - n]
  <2>1. i \in 1..(n + l) /\ u[i].type = type
    BY <1>3 DEF Of
  <2>2. ~(i <= n)
    <3> SUFFICES ASSUME i <= n PROVE FALSE
      OBVIOUS
    <3>1. i \in 1..n
      BY <1>1, <2>1
    <3> QED BY <1>1, <1>2, <1>5, <2>1, <3>1 DEF Of
  <2>3. i - n \in 1..l /\ n + (i - n) = i
    BY <1>1, <2>1, <2>2
  <2> QED BY <1>1, <1>2, <2>1, <2>2, <2>3 DEF Of
<1>6. ASSUME NEW i \in Of(t, type) PROVE n + i \in Of(u, type)
  <2>1. i \in 1..l /\ t[i].type = type
    BY <1>2 DEF Of
  <2>2. n + i \in 1..(n + l)
    BY <1>1, <2>1
  <2> QED BY <1>1, <1>3, <2>1, <2>2 DEF Of
<1> QED BY <1>4, <1>5, <1>6 DEF u, n

(* A batch stays a batch in a conversation that has grown.                 *)
LEMMA BatchStays ==
    ASSUME NEW s \in Seq(ContextItem), NEW t \in Seq(ContextItem),
           NEW c, NEW e, NEW end, IsBatch(s, c, e, end)
    PROVE  IsBatch(s \o t, c, e, end)
<1>1. /\ Of(s, "tool_call") \subseteq Of(s \o t, "tool_call")
      /\ Of(s, "tool_result") \subseteq Of(s \o t, "tool_result")
  BY OfGrown
<1> QED BY <1>1 DEF IsBatch

(* What is in batches stays so when more is told, if the new results are.  *)
LEMMA BatchesStay ==
    ASSUME ToolInv, ResultsAreInBatches,
           NEW item \in ContextItem, messages' = messages \o <<item>>,
           item.type = "tool_call" => item.call = NextId,
           item.type = "tool_result" =>
               \E e \in 1..NextId : IsBatch(messages, item.call, e, Len(messages))
    PROVE  ResultsAreInBatches'
<1> DEFINE new == <<item>>
<1>1. /\ messages \in Seq(ContextItem) /\ Len(messages) \in Nat
      /\ NextId = Len(messages) + 1 /\ DOMAIN messages = 1..Len(messages)
  BY DEF ToolInv, ToolType, NextId
<1>2. /\ new \in Seq(ContextItem) /\ Len(new) = 1 /\ new[1] = item
      /\ \A type : Of(new, type) \subseteq {1}
  BY DEF Of
<1>3. messages' = messages \o new
  OBVIOUS
<1> HIDE DEF new
<1>4. /\ \A i \in 1..Len(messages) : messages'[i] = messages[i]
      /\ messages'[NextId] = item
  BY <1>1, <1>2, <1>3, Concatenation
<1>5. ASSUME NEW type, NEW i \in Of(messages', type)
      PROVE  \/ i \in Of(messages, type) /\ messages'[i] = messages[i]
             \/ i = NextId /\ messages'[i] = item /\ item.type = type
  <2>1. CASE i \in Of(messages, type)
    BY <1>1, <1>4, <2>1 DEF Of
  <2>2. CASE i \notin Of(messages, type)
    <3>1. i - Len(messages) \in Of(new, type) /\ i \in Nat
      BY <1>1, <1>2, <1>3, <2>2, OfGrown
    <3>2. i - Len(messages) = 1
      BY <1>2, <3>1
    <3>3. i = NextId
      BY <1>1, <3>1, <3>2
    <3> QED BY <1>4, <3>3 DEF Of
  <2> QED BY <2>1, <2>2
<1>6. \A c \in Of(messages', "tool_call") : messages'[c].call = c
  BY <1>5 DEF ResultsAreInBatches
<1>7. ASSUME NEW r \in Of(messages', "tool_result")
      PROVE  \E e \in 1..r : IsBatch(messages', messages'[r].call, e, r)
  <2>1. CASE r \in Of(messages, "tool_result") /\ messages'[r] = messages[r]
    <3>1. PICK e \in 1..r : IsBatch(messages, messages[r].call, e, r)
      BY <2>1 DEF ResultsAreInBatches
    <3>2. IsBatch(messages', messages[r].call, e, r)
      BY <1>1, <1>2, <1>3, <3>1, BatchStays
    <3> QED BY <2>1, <3>1, <3>2
  <2>2. CASE r = NextId /\ messages'[r] = item /\ item.type = "tool_result"
    <3>1. PICK e \in 1..NextId : IsBatch(messages, item.call, e, Len(messages))
      BY <2>2
    <3>2. IsBatch(messages', item.call, e, Len(messages))
      BY <1>1, <1>2, <1>3, <3>1, BatchStays
    <3>3. IsBatch(messages', item.call, e, NextId)
      <4>1. \A j \in e..NextId : j \in e..Len(messages) \/ j = NextId
        BY <1>1
      <4>2. NextId \in Of(messages', "tool_result")
        BY <2>2
      <4> QED BY <3>2, <4>1, <4>2 DEF IsBatch
    <3> QED BY <2>2, <3>1, <3>3
  <2> QED BY <1>5, <2>1, <2>2
<1> QED BY <1>6, <1>7 DEF ResultsAreInBatches

(* A step that tells nothing keeps the batches if it keeps its place in    *)
(* the response, or reads a response with no call pending.                 *)
LEMMA QuietStepKeepsBatches ==
    ASSUME BatchInv, UNCHANGED <<messages, pending>>,
           pc' \notin Ending =>
               /\ pc \notin Ending
               /\ \/ pending = <<>> /\ CallsAreLast(response')
                  \/ /\ response' = response
                     /\ pc' \in {"verify", "verdict"} => pc \in {"verify", "verdict"}
    PROVE  BatchInv'
<1>1. ResultsAreInBatches'
  BY DEF BatchInv, ResultsAreInBatches, IsBatch
<1>2. ASSUME pc' \notin Ending PROVE PendingIsBatch'
  <2>1. PendingIsBatch
    BY <1>2 DEF BatchInv
  <2>2. CASE pending = <<>> /\ CallsAreLast(response')
    <3>1. pending' = <<>>
      BY <2>2
    <3>2. \A c : ~Awaited(c)'
      BY <3>1 DEF Awaited
    <3> QED BY <2>2, <3>1, <3>2 DEF PendingIsBatch
  <2>3. CASE /\ response' = response
             /\ pc' \in {"verify", "verdict"} => pc \in {"verify", "verdict"}
    <3>1. \A c : Awaited(c)' <=> Awaited(c)
      BY DEF Awaited
    <3>2. NextId' = NextId
      BY DEF NextId
    <3> QED BY <2>1, <2>3, <3>1, <3>2 DEF PendingIsBatch, IsBatch, OnlyCalls
  <2> QED BY <1>2, <2>2, <2>3
<1> QED BY <1>1, <1>2 DEF BatchInv

(* ... and so does one that tells no call and no result when none is pending. *)
LEMMA TextKeepsBatches ==
    ASSUME ToolInv, ResultsAreInBatches, pending = <<>>, pending' = pending,
           CallsAreLast(response'),
           NEW new \in Seq(ContextItem), messages' = messages \o new,
           \A i \in 1..Len(new) : new[i].type \notin {"tool_call", "tool_result"}
    PROVE  BatchInv'
<1>1. messages \in Seq(ContextItem) /\ DOMAIN messages = 1..Len(messages)
  BY DEF ToolInv, ToolType
<1>2. DOMAIN new = 1..Len(new)
  OBVIOUS
<1>3. ASSUME NEW type \in {"tool_call", "tool_result"}, NEW i \in Of(messages', type)
      PROVE  i \in Of(messages, type) /\ messages'[i] = messages[i]
  <2>1. Of(new, type) = {}
    BY <1>2 DEF Of
  <2>2. i \in Of(messages, type)
    BY <1>1, <2>1, OfGrown
  <2>3. i \in 1..Len(messages)
    BY <1>1, <2>2 DEF Of
  <2> QED BY <1>1, <2>2, <2>3, Concatenation
<1>4. \A c \in Of(messages', "tool_call") : messages'[c].call = c
  BY <1>3 DEF ResultsAreInBatches
<1>5. ASSUME NEW r \in Of(messages', "tool_result")
      PROVE  \E e \in 1..r : IsBatch(messages', messages'[r].call, e, r)
  <2>1. r \in Of(messages, "tool_result") /\ messages'[r] = messages[r]
    BY <1>3
  <2>2. PICK e \in 1..r : IsBatch(messages, messages[r].call, e, r)
    BY <2>1 DEF ResultsAreInBatches
  <2>3. IsBatch(messages', messages[r].call, e, r)
    BY <1>1, <2>2, BatchStays
  <2> QED BY <2>1, <2>2, <2>3
<1>6. PendingIsBatch'
  <2>1. \A c : ~Awaited(c)'
    BY DEF Awaited
  <2> QED BY <2>1 DEF PendingIsBatch
<1> QED BY <1>4, <1>5, <1>6 DEF BatchInv, ResultsAreInBatches

(* The items of a response that are no calls come when no call is pending. *)
LEMMA TextComesFirst ==
    ASSUME ToolInv, BatchInv, pc = "items", response # <<>>,
           Head(response) # "tool_call"
    PROVE  pending = <<>> /\ CallsAreLast(Tail(response))
<1>1. PendingIsBatch /\ response \in Seq(ResponseItem)
  BY ResponseType DEF BatchInv, Ending
<1>2. CallsAreLast(Tail(response)) /\ ~OnlyCalls(response)
  BY <1>1, RestOfCalls DEF PendingIsBatch
<1> QED BY <1>1, <1>2 DEF PendingIsBatch

(* A text of the model.                                                    *)
LEMMA MessageKeepsBatches ==
    ASSUME ToolInv, BatchInv, HandleMessage
    PROVE  BatchInv'
<1> DEFINE said == Item(NextId, "assistant", 0, 1)
<1>1. messages \in Seq(ContextItem) /\ NextId \in Nat
  BY DEF ToolInv, ToolType, NextId
<1>2. said \in ContextItem /\ said.type = "assistant"
  BY <1>1 DEF Item, ContextItem, ContextItemType
<1>3. messages' = Append(messages, said) /\ pending' = pending /\ response' = Tail(response)
  BY DEF HandleMessage, AppendMessage, tools
<1>4. pending = <<>> /\ CallsAreLast(response')
  BY <1>3, TextComesFirst DEF HandleMessage
<1>5. ResultsAreInBatches
  BY DEF BatchInv
<1> HIDE DEF said
<1>6. messages' = messages \o <<said>> /\ <<said>> \in Seq(ContextItem)
  BY <1>1, <1>2, <1>3
<1>7. \A i \in 1..Len(<<said>>) : <<said>>[i].type \notin {"tool_call", "tool_result"}
  <2>1. Len(<<said>>) = 1 /\ <<said>>[1] = said
    OBVIOUS
  <2>2. \A i \in 1..Len(<<said>>) : i = 1
    BY <2>1
  <2> QED BY <1>2, <2>1, <2>2
<1> QED BY <1>3, <1>4, <1>5, <1>6, <1>7, TextKeepsBatches

(* A verdict and the answer it is against.                                 *)
LEMMA VerdictKeepsBatches ==
    ASSUME ToolInv, BatchInv, ApplyVerdict
    PROVE  BatchInv'
<1>1. /\ pc = "verdict" /\ pc' = "items" /\ pc \notin Ending
      /\ pending' = pending /\ response' = response
  BY DEF ApplyVerdict, tools, model, Ending
<1>2. PendingIsBatch /\ ResultsAreInBatches
  BY <1>1 DEF BatchInv
<1>3. pending = <<>> /\ CallsAreLast(response')
  BY <1>1, <1>2 DEF PendingIsBatch
<1>4. CASE Last(verdicts)
  <2>1. messages' = messages
    BY <1>4 DEF ApplyVerdict
  <2> QED BY <1>1, <1>3, <2>1, QuietStepKeepsBatches
<1>5. CASE ~Last(verdicts)
  <2> DEFINE answer == Item(NextId, "assistant", 0, 1)
             verdict == Item(NextId + 1, "verification", 0, 1)
             new == <<answer, verdict>>
  <2>1. NextId \in Nat
    BY DEF ToolInv, ToolType, NextId
  <2>2. /\ answer \in ContextItem /\ answer.type = "assistant"
        /\ verdict \in ContextItem /\ verdict.type = "verification"
    BY <2>1 DEF Item, ContextItem, ContextItemType
  <2>3. messages' = messages \o new
    BY <1>5 DEF ApplyVerdict
  <2> HIDE DEF answer, verdict
  <2>4. new \in Seq(ContextItem) /\ Len(new) = 2 /\ new[1] = answer /\ new[2] = verdict
    BY <2>2
  <2>5. \A i \in 1..Len(new) : i = 1 \/ i = 2
    BY <2>4
  <2> HIDE DEF new
  <2>6. \A i \in 1..Len(new) : new[i].type \notin {"tool_call", "tool_result"}
    BY <2>2, <2>4, <2>5
  <2> QED BY <1>1, <1>2, <1>3, <2>3, <2>4, <2>6, TextKeepsBatches
<1> QED BY <1>4, <1>5

(* A call: those pending are the ones right before it.                     *)
LEMMA CallKeepsBatches ==
    ASSUME ToolInv, BatchInv, HandleToolCall
    PROVE  BatchInv'
<1> DEFINE item == Item(NextId, "tool_call", NextId, 1)
           n == Len(messages)
<1>1. /\ messages \in Seq(ContextItem) /\ n \in Nat /\ NextId = n + 1
      /\ pending \in Seq(Nat)
  BY DEF ToolInv, ToolType, NextId
<1>2. item \in ContextItem /\ item.type = "tool_call" /\ item.call = NextId
  BY <1>1 DEF Item, ContextItem, ContextItemType
<1>3. /\ messages' = Append(messages, item) /\ pending' = Append(pending, NextId)
      /\ response' = Tail(response) /\ pc' = pc /\ pc = "items" /\ response # <<>>
      /\ Head(response) = "tool_call"
  BY DEF HandleToolCall, AppendMessage
<1> HIDE DEF item
<1>4. messages' = messages \o <<item>> /\ <<item>> \in Seq(ContextItem)
  BY <1>1, <1>2, <1>3
<1>5. /\ ResultsAreInBatches /\ PendingIsBatch /\ response \in Seq(ResponseItem)
      /\ pc \notin Ending
  BY <1>3, ResponseType DEF BatchInv, Ending
<1>6. ResultsAreInBatches'
  BY <1>2, <1>4, <1>5, BatchesStay
<1>7. CallsAreLast(response') /\ OnlyCalls(response')
  BY <1>3, <1>5, RestOfCalls DEF PendingIsBatch
<1>8. NextId' = n + 2 /\ Len(messages') = n + 1 /\ NextId \in Of(messages', "tool_call")
  <2>1. Len(messages') = n + 1 /\ messages'[n + 1] = item /\ n + 1 \in DOMAIN messages'
    BY <1>1, <1>2, <1>3
  <2> QED BY <1>1, <1>2, <2>1 DEF NextId, Of
<1>9. ASSUME NEW c \in Nat, Awaited(c)'
      PROVE  IsBatch(messages', c, n + 2, n + 1)
  <2>1. Awaited(c) \/ c = NextId
    BY <1>1, <1>3, <1>9 DEF Awaited
  <2>2. CASE Awaited(c)
    <3>1. IsBatch(messages, c, NextId, n)
      BY <1>3, <1>5, <2>2 DEF PendingIsBatch
    <3>2. IsBatch(messages', c, NextId, n)
      BY <1>1, <1>4, <3>1, BatchStays
    <3>3. \A j \in c..((n + 2) - 1) : j \in c..(NextId - 1) \/ j = NextId
      BY <1>1
    <3>4. c < n + 2
      BY <1>1, <3>1 DEF IsBatch
    <3>5. \A j \in (n + 2)..(n + 1) : FALSE
      BY <1>1
    <3> QED BY <1>8, <3>2, <3>3, <3>4, <3>5 DEF IsBatch
  <2>3. CASE c = NextId
    <3>1. \A j \in c..((n + 2) - 1) : j = NextId
      BY <1>1, <2>3
    <3>2. \A j \in (n + 2)..(n + 1) : FALSE
      BY <1>1
    <3>3. c < n + 2
      BY <1>1, <2>3
    <3> QED BY <1>8, <3>1, <3>2, <3>3 DEF IsBatch
  <2> QED BY <2>1, <2>2, <2>3
<1>10. PendingIsBatch'
  <2>1. n + 2 \in 1..(n + 2)
    BY <1>1
  <2>2. \A c \in Nat : Awaited(c)' =>
            \E e \in 1..NextId' : IsBatch(messages', c, e, Len(messages'))
    BY <1>8, <1>9, <2>1
  <2>3. \A c \in Nat : Awaited(c)' => IsBatch(messages', c, NextId', Len(messages'))
    BY <1>8, <1>9
  <2> QED BY <1>3, <1>7, <2>2, <2>3 DEF PendingIsBatch
<1> QED BY <1>6, <1>10 DEF BatchInv

(* A result: of a call that was pending, after its batch and the results   *)
(* of the calls before it.                                                 *)
LEMMA ResultKeepsBatches ==
    ASSUME ToolInv, ClosedInv, BatchInv, AppendResult
    PROVE  BatchInv'
<1> DEFINE h == Head(pending)
           n == Len(messages)
<1>1. /\ messages \in Seq(ContextItem) /\ n \in Nat /\ NextId = n + 1
      /\ pending \in Seq(Nat) /\ pending # <<>>
  BY DEF ToolInv, ToolType, NextId, CallsInOrder, HeadRecorded, AppendResult
<1>2. /\ pc = "recorded" /\ pc' = "items" /\ pending' = Tail(pending)
      /\ response' = response
  BY DEF AppendResult, model
<1>3. response = <<>> /\ pc \notin Ending
  BY <1>2 DEF ClosedInv, TurnsEnd, Ending
<1>4. PICK tokens \in ResultSizes :
          messages' = Append(messages, Item(NextId, "tool_result", h, tokens))
  BY DEF AppendResult, AppendMessage
<1> DEFINE item == Item(NextId, "tool_result", h, tokens)
<1>5. h \in Nat /\ Awaited(h)
  <2>1. 1 \in DOMAIN pending /\ pending[1] = h /\ h \in Nat
    BY <1>1
  <2> QED BY <2>1 DEF Awaited
<1>6. item \in ContextItem /\ item.type = "tool_result" /\ item.call = h
  <2>1. tokens \in Nat
    BY LoopAssumption
  <2> HIDE DEF h
  <2> QED BY <1>1, <1>5, <2>1 DEF Item, ContextItem, ContextItemType
<1>7. ResultsAreInBatches /\ PendingIsBatch
  BY <1>3 DEF BatchInv
<1> HIDE DEF h, item
<1>8. messages' = messages \o <<item>> /\ <<item>> \in Seq(ContextItem)
  <2>1. messages' = Append(messages, item)
    BY <1>4 DEF item, h
  <2> QED BY <1>1, <1>6, <2>1
<1>9. ResultsAreInBatches'
  <2>1. \E e \in 1..NextId : IsBatch(messages, h, e, Len(messages))
    BY <1>5, <1>7 DEF PendingIsBatch
  <2> QED BY <1>6, <1>7, <1>8, <2>1, BatchesStay
<1>10. NextId' = n + 2 /\ Len(messages') = n + 1 /\ NextId \in Of(messages', "tool_result")
  <2>1. Len(messages') = n + 1 /\ messages'[n + 1] = item /\ n + 1 \in DOMAIN messages'
    BY <1>1, <1>6, <1>8
  <2> QED BY <1>1, <1>6, <2>1 DEF NextId, Of
<1>11. ASSUME NEW c \in Nat, Awaited(c)'
       PROVE  \E e \in 1..NextId' : IsBatch(messages', c, e, Len(messages'))
  <2>1. Awaited(c)
    <3>1. \A i \in DOMAIN pending' : i + 1 \in DOMAIN pending /\ pending'[i] = pending[i + 1]
      BY <1>1, <1>2
    <3> QED BY <1>11, <3>1 DEF Awaited
  <2>2. PICK e \in 1..NextId : IsBatch(messages, c, e, n)
    BY <1>7, <2>1 DEF PendingIsBatch
  <2>3. IsBatch(messages', c, e, n)
    BY <1>1, <1>8, <2>2, BatchStays
  <2>4. \A j \in e..(n + 1) : j \in e..n \/ j = NextId
    BY <1>1
  <2>5. IsBatch(messages', c, e, n + 1)
    BY <1>10, <2>3, <2>4 DEF IsBatch
  <2>6. e \in 1..NextId'
    BY <1>1, <1>10
  <2> QED BY <1>10, <2>5, <2>6
<1>12. PendingIsBatch'
  <2>1. CallsAreLast(<<>>) /\ OnlyCalls(<<>>)
    BY DEF CallsAreLast, OnlyCalls
  <2> QED BY <1>2, <1>3, <1>11, <2>1 DEF PendingIsBatch
<1> QED BY <1>9, <1>12 DEF BatchInv

(* One step of the run, whichever it is.                                   *)
LEMMA NextBatchInv ==
    ASSUME CallsComeLast, ToolInv, ClosedInv, BatchInv, [Next]_vars
    PROVE  BatchInv'
<1> USE DEF loop, conversation, tools, model, Awaiting, Ending
<1>1. ASSUME UNCHANGED <<messages, pending, response>>,
             pc' \notin Ending => pc \notin Ending,
             pc' \in {"verify", "verdict"} => pc \in {"verify", "verdict"}
      PROVE  BatchInv'
  BY <1>1, QuietStepKeepsBatches
<1>2. CASE HandleMessage BY <1>2, MessageKeepsBatches
<1>3. CASE HandleToolCall BY <1>3, CallKeepsBatches
<1>4. CASE ApplyVerdict BY <1>4, VerdictKeepsBatches
<1>5. CASE AppendResult BY <1>5, ResultKeepsBatches
<1>6. CASE Respond
  <2>1. /\ pc = "generate" /\ pc' = "items" /\ UNCHANGED <<messages, pending>>
        /\ response' \in Responses
    BY <1>6 DEF Respond
  <2>2. pending = <<>>
    BY <2>1 DEF ClosedInv, TurnsEnd, Asking
  <2>3. CallsAreLast(response')
    BY <2>1 DEF CallsComeLast
  <2> QED BY <2>1, <2>2, <2>3, QuietStepKeepsBatches
<1>7. CASE HandleFinalAnswer
  <2>1. /\ pc = "items" /\ response # <<>> /\ Head(response) = "final_answer"
        /\ UNCHANGED <<messages, pending>> /\ response' = Tail(response)
    BY <1>7 DEF HandleFinalAnswer
  <2>2. pending = <<>> /\ CallsAreLast(response')
    BY <2>1, TextComesFirst
  <2> QED BY <2>1, <2>2, QuietStepKeepsBatches
<1>8. CASE ExceedMaxSteps BY <1>1, <1>8 DEF ExceedMaxSteps
<1>9. CASE BuildContext
  <2>1. UNCHANGED <<messages, pending, response>> /\ pc = "top"
        /\ pc' \in {"summarize", "request"}
    BY <1>9 DEF BuildContext
  <2> QED BY <1>1, <2>1
<1>10. CASE Summarize BY <1>1, <1>10 DEF Summarize
<1>11. CASE SendRequest BY <1>1, <1>11 DEF SendRequest
<1>12. CASE \E retryable \in BOOLEAN : ProviderFails(retryable)
  BY <1>1, <1>12 DEF ProviderFails
<1>13. CASE Backoff BY <1>1, <1>13 DEF Backoff
<1>14. CASE Verify BY <1>1, <1>14 DEF Verify
<1>15. CASE StartTool BY <1>1, <1>15 DEF StartTool, ToolsCanRun
<1>16. CASE ToolReturns BY <1>1, <1>16 DEF ToolReturns
<1>17. CASE RefuseTool BY <1>1, <1>17 DEF RefuseTool, ToolsCanRun
<1>18. CASE EndStep BY <1>1, <1>18 DEF EndStep
<1>19. CASE Fail BY <1>1, <1>19 DEF Fail
<1>20. CASE WriteResult BY <1>1, <1>20 DEF WriteResult
<1>21. CASE Cancel BY <1>1, <1>21 DEF Cancel
<1>22. CASE Raise BY <1>1, <1>22 DEF Raise
<1>23. CASE TraceFails BY <1>1, <1>23 DEF TraceFails
<1>24. CASE TraceFailsOutside BY <1>1, <1>24 DEF TraceFailsOutside
<1>25. CASE UNCHANGED vars BY <1>1, <1>25 DEF vars
<1> QED BY <1>2, <1>3, <1>4, <1>5, <1>6, <1>7, <1>8, <1>9, <1>10, <1>11, <1>12,
           <1>13, <1>14, <1>15, <1>16, <1>17, <1>18, <1>19, <1>20, <1>21, <1>22,
           <1>23, <1>24, <1>25 DEF Next, LoopStep

(* A run begins with nothing said, and nothing pending.                    *)
LEMMA InitBatchInv == Init => BatchInv
<1> SUFFICES ASSUME Init PROVE BatchInv
  OBVIOUS
<1>1. messages = <<>> /\ pending = <<>> /\ response = <<>>
  BY DEF Init
<1>2. ResultsAreInBatches
  <2>1. Of(messages, "tool_call") = {} /\ Of(messages, "tool_result") = {}
    BY <1>1 DEF Of
  <2> QED BY <2>1 DEF ResultsAreInBatches
<1>3. PendingIsBatch
  <2>1. \A c : ~Awaited(c)
    BY <1>1 DEF Awaited
  <2>2. CallsAreLast(response)
    BY <1>1 DEF CallsAreLast
  <2> QED BY <1>1, <2>1, <2>2 DEF PendingIsBatch
<1> QED BY <1>2, <1>3 DEF BatchInv

(* Between turns every call has its result, so the conversation is whole.  *)
LEMMA ConversationIsWhole ==
    ASSUME ToolInv, ClosedInv, BatchInv, pc = "generate"
    PROVE  Interactions(messages)
<1>1. CallsHaveResults /\ TurnsEnd /\ ResultsAreInBatches
  BY DEF ClosedInv, BatchInv, Ending
<1>2. \A c : ~Awaited(c)
  BY <1>1 DEF Awaited, TurnsEnd, Asking
<1>3. DOMAIN messages = Ids
  BY DEF ToolInv, ToolType, Ids
<1>4. ASSUME NEW c \in Of(messages, "tool_call")
      PROVE  \E r \in Of(messages, "tool_result") : c < r /\ messages[r].call = c
  <2>1. IsCall(c)
    BY <1>3 DEF Of, IsCall
  <2>2. PICK r \in Ids : c < r /\ Answers(c) = {r}
    BY <1>1, <1>2, <2>1 DEF CallsHaveResults
  <2>3. r \in Answers(c)
    BY <2>2
  <2>4. r \in Of(messages, "tool_result") /\ messages[r].call = c
    BY <1>3, <2>3 DEF Answers, IsResult, Of
  <2> QED BY <2>2, <2>4
<1> QED BY <1>1, <1>4 DEF Interactions, ResultsAreInBatches

(* A request made in one of the three ways from it is whole, too.          *)
LEMMA BuiltIsWhole ==
    ASSUME ToolInv, Told, Interactions(messages), NEW view, Built(view)
    PROVE  WholeInteractions(view)
<1>1. /\ messages \in Seq(ContextItem)
      /\ \A i \in DOMAIN messages : ~IsMandatory(messages[i])
  BY ConversationType
<1>2. PICK m, b : IsCut(messages, m, b)
  BY <1>1, UnitsAreCut
<1>3. m \in Nat /\ Len(group_context_units(messages)) = m /\ b[0] = 1
      /\ \A k \in 0..m : b[k] \in 1..(Len(messages) + 1)
  BY <1>1, <1>2, UnitsOfCut DEF IsCut
<1>4. ASSUME NEW k \in 0..m
      PROVE  From(messages, b[k]) \in Seq(ContextItem)
             /\ WholeInteractions(From(messages, b[k]))
  <2>1. From(messages, b[k]) \in Seq(ContextItem)
    <3> DEFINE a == b[k]
    <3>1. a \in 1..(Len(messages) + 1)
      BY <1>3
    <3> HIDE DEF a
    <3>2. From(messages, a) \in Seq(ContextItem)
      BY <1>1, <3>1, FromItems
    <3> QED BY <3>2 DEF a
  <2> QED BY <1>1, <1>2, <2>1, LastUnitsAreWhole
<1>5. /\ Mandatory \in Seq(ContextItem) /\ Len(Mandatory) = 2
      /\ \A i \in 1..Len(Mandatory) : Mandatory[i].type \notin {"tool_call", "tool_result"}
  <2>1. \A i \in 1..Len(Mandatory) : i = 1 \/ i = 2
    BY MandatoryType
  <2> QED BY <2>1, MandatoryType
<1>6. CASE view = Context
  <2>1. From(messages, 1) = messages
    BY <1>1 DEF From
  <2>2. WholeInteractions(messages)
    <3>1. 0 \in 0..m
      BY <1>3
    <3> QED BY <1>3, <1>4, <2>1, <3>1
  <2> QED BY <1>1, <1>5, <1>6, <2>2, WholeAfter DEF Context
<1>7. CASE view = SlidingWindow(Context)
  <2>1. PICK k \in RecentCount(group_context_units(messages))..m :
            SlidingWindow(Mandatory \o messages) = Mandatory \o From(messages, b[m - k])
    BY ZenonT(30), <1>1, <1>2, WindowOfConversation
  <2>2. m - k \in 0..m
    BY <1>3, <2>1, RecentCountIs
  <2>3. /\ From(messages, b[m - k]) \in Seq(ContextItem)
        /\ WholeInteractions(From(messages, b[m - k]))
    BY <1>4, <2>2
  <2>4. view = Mandatory \o From(messages, b[m - k])
    BY <1>7, <2>1 DEF Context
  <2> QED BY <1>5, <2>3, <2>4, WholeAfter
<1>8. CASE \E tokens \in 1..SummaryBudget(Context) : view = WithSummary(Context, tokens)
  <2>1. PICK tokens \in 1..SummaryBudget(Context) : view = WithSummary(Context, tokens)
    BY <1>8
  <2> DEFINE R == RecentCount(group_context_units(messages))
             recent == From(messages, b[m - R])
             summary == Item(0, "summary", 0, tokens)
  <2>2. RecentItems(Context) = recent /\ MandatoryItems(Context) = Mandatory
    BY <1>1, <1>2, RecentOfConversation, ContextIsSplit DEF Context
  <2>3. m - R \in 0..m
    BY <1>3, RecentCountIs
  <2>4. recent \in Seq(ContextItem) /\ WholeInteractions(recent)
    BY <1>4, <2>3
  <2>5. summary \in ContextItem /\ summary.type = "summary"
    <3>1. tokens \in Nat
      BY <2>1
    <3> QED BY <3>1 DEF Item, ContextItem, ContextItemType
  <2>6. view = (Mandatory \o <<summary>>) \o recent
    BY <2>1, <2>2 DEF WithSummary
  <2> HIDE DEF summary, recent
  <2>7. /\ Mandatory \o <<summary>> \in Seq(ContextItem)
        /\ \A i \in 1..Len(Mandatory \o <<summary>>) :
               (Mandatory \o <<summary>>)[i].type \notin {"tool_call", "tool_result"}
    <3> DEFINE one == <<summary>>
               head == Mandatory \o one
    <3>1. one \in Seq(ContextItem) /\ Len(one) = 1 /\ one[1] = summary
      BY <2>5
    <3> HIDE DEF one
    <3>2. /\ head \in Seq(ContextItem) /\ Len(head) = Len(Mandatory) + Len(one)
          /\ \A i \in 1..Len(Mandatory) : head[i] = Mandatory[i]
          /\ \A i \in 1..Len(one) : head[Len(Mandatory) + i] = one[i]
      <4>1. head \in Seq(ContextItem) /\ Len(head) = Len(Mandatory) + Len(one)
        BY <1>5, <3>1, Concatenation
      <4>2. \A i \in 1..Len(Mandatory) : head[i] = Mandatory[i]
        BY <1>5, <3>1, Concatenation
      <4>3. \A i \in 1..Len(one) : head[Len(Mandatory) + i] = one[i]
        BY <1>5, <3>1, Concatenation
      <4> HIDE DEF head
      <4> QED BY <4>1, <4>2, <4>3
    <3>3. Len(head) = 3 /\ head[3] = summary
      BY <1>5, <3>1, <3>2
    <3>4. \A i \in 1..3 : i \in 1..Len(Mandatory) \/ i = 3
      BY <1>5
    <3> HIDE DEF head
    <3>5. \A i \in 1..Len(head) : head[i].type \notin {"tool_call", "tool_result"}
      BY <1>5, <2>5, <3>2, <3>3, <3>4
    <3> QED BY <3>2, <3>5 DEF head, one
  <2> QED BY <2>4, <2>6, <2>7, WholeAfter
<1> QED BY <1>6, <1>7, <1>8 DEF Built

(* No request has half of a tool interaction, provided the responses bring *)
(* their calls after their other items: compaction keeps a batch of calls  *)
(* and its results together (context.py 52-76), and no call is left open.  *)
THEOREM RequestsAreWhole ==
    ASSUME CallsComeLast
    PROVE  Spec => []RequestIsWhole
<1> DEFINE Inv == RunInv /\ ClosedInv /\ BatchInv
<1>1. Init => Inv
  BY InitLoopInv, InitToolInv, InitRequestInv, InitClosedInv, InitBatchInv DEF RunInv
<1>2. Inv /\ [Next]_vars => Inv'
  <2> SUFFICES ASSUME Inv, [Next]_vars PROVE Inv'
    OBVIOUS
  <2>1. LoopInv'
    BY ControlTypeStep, AnswerStep, StopStep, RetryStep DEF RunInv, LoopInv
  <2>2. ToolInv' /\ ClosedInv'
    BY NextToolInv, NextClosedInv DEF RunInv
  <2>3. RequestInv'
    BY ToldStep, RequestIsBuiltStep, WithinBoundsStep DEF RunInv, RequestInv
  <2>4. BatchInv'
    BY NextBatchInv DEF RunInv
  <2> QED BY <2>1, <2>2, <2>3, <2>4 DEF RunInv
<1>3. Inv => RequestIsWhole
  <2> SUFFICES ASSUME Inv, pc = "generate" PROVE WholeInteractions(request)
    BY DEF RequestIsWhole
  <2>1. Interactions(messages)
    BY ConversationIsWhole DEF RunInv
  <2>2. Built(request) /\ Told /\ ToolInv
    BY DEF RunInv, RequestInv, RequestIsBuilt
  <2> QED BY <2>1, <2>2, BuiltIsWhole
<1> QED BY <1>1, <1>2, <1>3, PTL DEF Spec
==============================================================================
