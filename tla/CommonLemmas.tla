----------------------------- MODULE CommonLemmas -----------------------------
(***************************************************************************)
(* What the proofs of several components need: induction and recursion     *)
(* over numbers, with sets in the place of the predicates and functions in *)
(* the place of the operators of the library's induction theorems; and     *)
(* what Selected selects.                                                  *)
(***************************************************************************)
EXTENDS Selection, Integers, Sequences, FiniteSetTheorems, WellFoundedInduction, TLAPS

(* A set of numbers has a least one: they are well-founded.                *)
LEMMA LeastNumber ==
    ASSUME NEW T \in SUBSET Nat, T # {}
    PROVE  \E x \in T : \A y \in T : x <= y
<1> DEFINE R == OpToRel(<, Nat)
<1>1. IsWellFoundedOn(R, Nat)
  BY NatLessThanWellFounded
<1>2. \A x, y \in Nat : <<y, x>> \in R <=> y < x
  BY DEF OpToRel
<1> HIDE DEF R
<1>3. PICK x \in T : \A y \in T : ~ (<<y, x>> \in R)
  BY <1>1, WFMin
<1>4. ASSUME NEW y \in T PROVE x <= y
  <2>1. x \in Nat /\ y \in Nat
    OBVIOUS
  <2>2. ~(y < x)
    BY <1>2, <1>3, <2>1
  <2> QED BY <2>1, <2>2
<1> QED BY <1>4

(* What holds of a and is handed on by every number before b holds up to b. *)
LEMMA UpwardInduction ==
    ASSUME NEW a \in Int, NEW b \in Int, NEW S,
           a \in S, \A i \in a..(b - 1) : i \in S => i + 1 \in S
    PROVE  a..b \subseteq S
<1> DEFINE T == {k \in Nat : a + k \in (a..b) \ S}
<1> SUFFICES ASSUME T # {} PROVE FALSE
  <2>1. \A i \in a..b : i - a \in Nat /\ a + (i - a) = i
    OBVIOUS
  <2> QED BY <2>1
<1>1. PICK k \in T : \A j \in T : k <= j
  <2>1. T \in SUBSET Nat
    OBVIOUS
  <2> HIDE DEF T
  <2> QED BY <2>1, LeastNumber
<1>2. k \in Nat /\ a + k \in a..b /\ a + k \notin S /\ k # 0
  OBVIOUS
<1>3. k - 1 \in Nat /\ a + (k - 1) \in a..(b - 1) /\ k - 1 \notin T
  BY <1>1, <1>2
<1>4. a + (k - 1) \in S
  BY <1>3
<1>5. a + (k - 1) + 1 = a + k
  BY <1>2
<1> QED BY <1>2, <1>3, <1>4, <1>5

(* The same downwards.                                                     *)
LEMMA DownwardInduction ==
    ASSUME NEW a \in Int, NEW b \in Int, NEW S,
           b \in S, \A i \in (a + 1)..b : i \in S => i - 1 \in S
    PROVE  a..b \subseteq S
<1> DEFINE T == {k \in Int : -k \in S}
<1>1. \A i \in (-b)..(-a - 1) : i \in T => i + 1 \in T
  <2> SUFFICES ASSUME NEW i \in (-b)..(-a - 1), i \in T PROVE i + 1 \in T
    OBVIOUS
  <2>1. -i \in (a + 1)..b /\ -i \in S
    OBVIOUS
  <2>2. (-i) - 1 \in S
    BY <2>1
  <2>3. (-i) - 1 = -(i + 1) /\ i + 1 \in Int
    OBVIOUS
  <2> QED BY <2>2, <2>3
<1>2. -b \in T /\ -b \in Int /\ -a \in Int
  OBVIOUS
<1> HIDE DEF T
<1>3. (-b)..(-a) \subseteq T
  BY <1>1, <1>2, UpwardInduction
<1> USE DEF T
<1>4. ASSUME NEW i \in a..b PROVE i \in S
  <2>1. -i \in (-b)..(-a) /\ -(-i) = i
    OBVIOUS
  <2> QED BY <1>3, <2>1
<1> QED BY <1>4

(* A set of numbers with a bound has a greatest one.                       *)
LEMMA GreatestNumber ==
    ASSUME NEW b \in Nat, NEW T \in SUBSET (0..b), T # {}
    PROVE  \E x \in T : \A y \in T : y <= x
<1> DEFINE U == {k \in Nat : b - k \in T}
<1>1. U \in SUBSET Nat /\ U # {}
  <2>1. \A x \in T : b - x \in Nat /\ b - (b - x) = x
    OBVIOUS
  <2> QED BY <2>1
<1>2. PICK k \in U : \A j \in U : k <= j
  <2> HIDE DEF U
  <2> QED BY <1>1, LeastNumber
<1>3. b - k \in T
  OBVIOUS
<1>4. ASSUME NEW y \in T PROVE y <= b - k
  <2>1. b - y \in U /\ y \in Nat /\ k \in Nat
    OBVIOUS
  <2>2. k <= b - y
    BY <1>2, <2>1
  <2> QED BY <2>1, <2>2
<1> QED BY <1>3, <1>4

(* n steps from V to V, one for each number.                               *)
Steps(n, V) == [1..n -> [V -> V]]

(* A function may be defined number by number.                             *)
LEMMA RecursionExists ==
    ASSUME NEW n \in Nat, NEW V, NEW base \in V, NEW step \in Steps(n, V)
    PROVE  \E f \in [0..n -> V] :
               f[0] = base /\ \A i \in 1..n : f[i] = step[i][f[i - 1]]
<1> USE DEF Steps
<1> DEFINE Defined(m) ==
        \E f \in [0..m -> V] :
            f[0] = base /\ \A i \in 1..m : f[i] = step[i][f[i - 1]]
           S == {m \in 0..n : Defined(m)}
<1>1. 0 \in S
  <2> DEFINE f == [i \in 0..0 |-> base]
  <2>1. f \in [0..0 -> V] /\ f[0] = base /\ 1..0 = {}
    OBVIOUS
  <2> HIDE DEF f
  <2>2. Defined(0)
    BY <2>1
  <2> QED BY <2>2
<1>2. ASSUME NEW m \in 0..(n - 1), m \in S PROVE m + 1 \in S
  <2>1. PICK f \in [0..m -> V] :
            f[0] = base /\ \A i \in 1..m : f[i] = step[i][f[i - 1]]
    BY <1>2
  <2> DEFINE g == [i \in 0..(m + 1) |-> IF i = m + 1 THEN step[m + 1][f[m]] ELSE f[i]]
  <2>2. f[m] \in V /\ m + 1 \in 1..n /\ m \in 0..m /\ 0 # m + 1
    OBVIOUS
  <2>3. step[m + 1][f[m]] \in V
    BY <2>2
  <2>4. g \in [0..(m + 1) -> V] /\ g[0] = base
    BY <2>1, <2>3
  <2>5. ASSUME NEW i \in 1..(m + 1) PROVE g[i] = step[i][g[i - 1]]
    <3>1. i - 1 \in 0..m /\ i - 1 # m + 1 /\ i \in 0..(m + 1) /\ i - 1 \in 0..(m + 1)
      OBVIOUS
    <3>2. g[i - 1] = f[i - 1]
      BY <3>1
    <3>3. CASE i = m + 1
      <4>1. i - 1 = m
        BY <3>3
      <4> QED BY <3>1, <3>2, <3>3, <4>1
    <3>4. CASE i # m + 1
      <4>1. i \in 1..m /\ g[i] = f[i]
        BY <3>1, <3>4
      <4> QED BY <2>1, <3>2, <4>1
    <3> QED BY <3>3, <3>4
  <2> HIDE DEF g
  <2>6. Defined(m + 1) /\ m + 1 \in 0..n
    BY SMTT(20), <2>2, <2>4, <2>5
  <2> QED BY <2>6
<1> HIDE DEF S
<1>3. 0..n \subseteq S
  BY <1>1, <1>2, UpwardInduction
<1> QED BY <1>3 DEF S

------------------------------------------------------------------------------
(* The numbers below each are different ones for different members of P,   *)
(* and there are fewer than P has: so each number of them occurs.          *)
LEMMA NthIsMember ==
    ASSUME NEW P \in SUBSET Nat, IsFiniteSet(P)
    PROVE  /\ \A k \in 1..Cardinality(P) :
                  Nth(P, k) \in P /\ Cardinality({q \in P : q < Nth(P, k)}) = k - 1
           /\ \A p \in P : \E k \in 1..Cardinality(P) : p = Nth(P, k)
<1> DEFINE n == Cardinality(P)
           Below(p) == {q \in P : q < p}
           rank == [p \in P |-> Cardinality(Below(p))]
<1>1. n \in Nat
  BY FS_CardinalityType
<1>2. ASSUME NEW p \in P
      PROVE  IsFiniteSet(Below(p)) /\ Cardinality(Below(p)) \in 0..(n - 1)
  <2>1. Below(p) \in SUBSET P /\ Below(p) # P
    <3>1. p \notin Below(p)
      OBVIOUS
    <3> QED BY <3>1
  <2>2. /\ IsFiniteSet(Below(p)) /\ Cardinality(Below(p)) <= n
        /\ Cardinality(Below(p)) # n
    <3> HIDE DEF Below
    <3> QED BY <2>1, FS_Subset
  <2>3. Cardinality(Below(p)) \in Nat
    BY <2>2, FS_CardinalityType
  <2> QED BY <1>1, <2>2, <2>3
<1>3. ASSUME NEW p \in P, NEW r \in P, p < r
      PROVE  Cardinality(Below(p)) # Cardinality(Below(r))
  <2>1. Below(p) \in SUBSET Below(r) /\ p \in Below(r) /\ p \notin Below(p)
    <3>1. p \in Nat /\ r \in Nat /\ \A q \in P : q \in Nat
      OBVIOUS
    <3>2. ~(p < p) /\ \A q \in P : q < p => q < r
      BY <1>3, <3>1
    <3> QED BY <1>3, <3>2
  <2> HIDE DEF Below
  <2> QED BY <1>2, <2>1, FS_Subset
<1>4. ASSUME NEW p \in P, NEW r \in P, Cardinality(Below(p)) = Cardinality(Below(r))
      PROVE  p = r
  <2>1. p \in Nat /\ r \in Nat
    OBVIOUS
  <2> HIDE DEF Below
  <2> QED BY <1>3, <1>4, <2>1
<1>5. \A k \in 0..(n - 1) : \E p \in P : Cardinality(Below(p)) = k
  <2>1. IsFiniteSet(0..(n - 1)) /\ Cardinality(0..(n - 1)) = n
    <3>1. /\ n - 1 \in Int /\ 0 \in Int
          /\ n = IF 0 > n - 1 THEN 0 ELSE (n - 1) - 0 + 1
      BY <1>1
    <3> HIDE DEF n
    <3> QED BY <3>1, FS_Interval
  <2>2. rank \in [P -> 0..(n - 1)] /\ \A p \in P : rank[p] = Cardinality(Below(p))
    BY <1>2
  <2> HIDE DEF rank, Below
  <2>3. rank \in Injection(P, 0..(n - 1))
    BY <1>4, <2>2 DEF Injection, IsInjective
  <2>4. rank \in Surjection(P, 0..(n - 1))
    BY <2>1, <2>3, FS_Injection
  <2> QED BY <2>2, <2>4 DEF Surjection
<1> HIDE DEF n
<1>6. ASSUME NEW k \in 1..n
      PROVE  Nth(P, k) \in P /\ Cardinality(Below(Nth(P, k))) = k - 1
  <2>1. k - 1 \in 0..(n - 1)
    BY <1>1
  <2>2. \E p \in P : Cardinality(Below(p)) = k - 1
    BY <1>5, <2>1
  <2> QED BY <2>2 DEF Nth
<1>7. ASSUME NEW p \in P PROVE \E k \in 1..n : p = Nth(P, k)
  <2> DEFINE k == Cardinality(Below(p)) + 1
  <2>1. k \in 1..n /\ k - 1 = Cardinality(Below(p))
    BY <1>1, <1>2
  <2> HIDE DEF Below, k
  <2>2. Nth(P, k) \in P /\ Cardinality(Below(Nth(P, k))) = Cardinality(Below(p))
    BY <1>6, <2>1
  <2> QED BY <1>4, <2>1, <2>2
<1> QED BY <1>6, <1>7 DEF n

(* Two members of P with equally many below them are the same.             *)
LEMMA NthIsUnique ==
    ASSUME NEW P \in SUBSET Nat, IsFiniteSet(P), NEW k \in 1..Cardinality(P),
           NEW p \in P, Cardinality({q \in P : q < p}) = k - 1
    PROVE  Nth(P, k) = p
<1>1. PICK j \in 1..Cardinality(P) : p = Nth(P, j)
  BY NthIsMember
<1>2. Cardinality({q \in P : q < Nth(P, j)}) = j - 1
  BY NthIsMember
<1>3. Cardinality(P) \in Nat
  BY FS_CardinalityType
<1>4. j - 1 = k - 1 /\ j \in Nat /\ k \in Nat
  BY <1>1, <1>2, <1>3
<1>5. j = k
  BY <1>4
<1> QED BY <1>1, <1>5

(* What is selected are values at places of P, as many as P has.           *)
LEMMA SelectedType ==
    ASSUME NEW P \in SUBSET Nat, IsFiniteSet(P), NEW f, NEW V,
           \A p \in P : f[p] \in V
    PROVE  /\ Selected(f, P) \in Seq(V)
           /\ Len(Selected(f, P)) = Cardinality(P)
           /\ DOMAIN Selected(f, P) = 1..Cardinality(P)
           /\ \A k \in 1..Cardinality(P) :
                  Nth(P, k) \in P /\ Selected(f, P)[k] = f[Nth(P, k)]
<1>1. Cardinality(P) \in Nat
  BY FS_CardinalityType
<1>2. \A k \in 1..Cardinality(P) : Nth(P, k) \in P
  BY NthIsMember
<1> DEFINE m == Cardinality(P)
           s == Selected(f, P)
<1>3. s = [k \in 1..m |-> f[Nth(P, k)]] /\ \A k \in 1..m : f[Nth(P, k)] \in V
  BY <1>2 DEF Selected
<1> HIDE DEF m, s
<1>4. /\ DOMAIN s = 1..m /\ \A k \in 1..m : s[k] = f[Nth(P, k)]
      /\ s \in [1..m -> V]
  BY <1>3
<1>5. s \in Seq(V) /\ Len(s) = m
  BY <1>1, <1>4 DEF m
<1> QED BY <1>2, <1>4, <1>5 DEF m, s

Places(f, P, v) == {p \in P : f[p] = v}

(* A value is selected as often as P has places with it.                   *)
LEMMA SelectedCount ==
    ASSUME NEW P \in SUBSET Nat, IsFiniteSet(P), NEW f, NEW v
    PROVE  Cardinality(Places(Selected(f, P), DOMAIN Selected(f, P), v))
               = Cardinality(Places(f, P, v))
<1> DEFINE K == {k \in DOMAIN Selected(f, P) : Selected(f, P)[k] = v}
           Q == {p \in P : f[p] = v}
           nth == [k \in K |-> Nth(P, k)]
<1>1. Cardinality(P) \in Nat
  BY FS_CardinalityType
<1>2. K = {k \in 1..Cardinality(P) : f[Nth(P, k)] = v}
  BY DEF Selected
<1>3. ASSUME NEW k \in K PROVE k \in 1..Cardinality(P) /\ Nth(P, k) \in Q
  BY <1>2, NthIsMember
<1>4. ASSUME NEW q \in Q PROVE \E k \in K : Nth(P, k) = q
  <2>1. PICK k \in 1..Cardinality(P) : q = Nth(P, k)
    BY NthIsMember
  <2> QED BY <1>2, <2>1
<1>5. ASSUME NEW k \in K, NEW j \in K, Nth(P, k) = Nth(P, j) PROVE k = j
  <2>1. k - 1 = j - 1
    BY <1>3, <1>5, NthIsMember
  <2>2. k \in Int /\ j \in Int
    BY <1>3
  <2> QED BY <2>1, <2>2
<1>6. IsFiniteSet(K)
  <2>1. IsFiniteSet(1..Cardinality(P))
    BY <1>1, FS_Interval
  <2> QED BY <1>2, <2>1, FS_Subset
<1>7. nth \in [K -> Q] /\ \A k \in K : nth[k] = Nth(P, k)
  BY <1>3
<1> HIDE DEF K, Q, nth
<1>8. nth \in Injection(K, Q)
  BY <1>5, <1>7 DEF Injection, IsInjective
<1>9. nth \in Surjection(K, Q)
  BY <1>4, <1>7 DEF Surjection
<1>10. Cardinality(Q) = Cardinality(K)
  BY <1>6, <1>8, <1>9, FS_Surjection
<1> QED BY <1>10 DEF K, Q, Places

Slice(f, a, b) == [k \in 1..(b - a + 1) |-> f[a + k - 1]]

(* From an interval of positions the values are selected as they stand.    *)
LEMMA SelectedInterval ==
    ASSUME NEW a \in Nat, NEW b \in Nat, a <= b + 1, NEW f
    PROVE  Selected(f, a..b) = Slice(f, a, b)
<1>1. IsFiniteSet(a..b) /\ Cardinality(a..b) = b - a + 1 /\ a..b \in SUBSET Nat
  <2>1. Cardinality(a..b) = IF a > b THEN 0 ELSE b - a + 1
    BY FS_Interval
  <2> QED BY <2>1, FS_Interval
<1>2. ASSUME NEW k \in 1..(b - a + 1) PROVE Nth(a..b, k) = a + k - 1
  <2> DEFINE p == a + k - 1
  <2>1. p \in a..b
    OBVIOUS
  <2>2. {q \in a..b : q < p} = a..(a + k - 2)
    OBVIOUS
  <2>3. a + k - 2 \in Int /\ (a + k - 2) - a + 1 = k - 1 /\ (a > a + k - 2 => k - 1 = 0)
    OBVIOUS
  <2>4. Cardinality(a..(a + k - 2)) = k - 1
    BY <2>3, FS_Interval
  <2>5. Cardinality({q \in a..b : q < p}) = k - 1
    BY <2>2, <2>4
  <2> HIDE DEF p
  <2>6. Nth(a..b, k) = p
    BY <1>1, <2>1, <2>5, NthIsUnique
  <2> QED BY <2>6 DEF p
<1> QED BY <1>1, <1>2 DEF Selected, Slice
==============================================================================
