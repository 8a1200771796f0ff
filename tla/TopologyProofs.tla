---------------------------- MODULE TopologyProofs ----------------------------
(***************************************************************************)
(* What walks lead to, hop by hop.  Nothing here is by induction: where    *)
(* one would be used, a least number is taken instead.                     *)
(***************************************************************************)
EXTENDS Topology, WellFoundedInduction, TLAPS

(* Numbers and walks *)

\* A set of numbers has a least member.
LEMMA LeastNumber ==
    ASSUME NEW S \in SUBSET Nat, S # {}
    PROVE  \E n \in S : \A m \in S : n <= m
<1>1. PICK n \in S : \A m \in S : ~ (<<m, n>> \in OpToRel(<, Nat))
  <2>1. S \subseteq Nat
    OBVIOUS
  <2> QED
    BY <2>1, NatLessThanWellFounded, WFMin
<1>2. \A m \in S : ~ (m < n)
  BY <1>1 DEF OpToRel
<1> QED
  BY <1>2

LEMMA WalkOfNoStep ==
    ASSUME NEW es, NEW a \in Towers, NEW b
    PROVE  Leads(es, 0, a, b) <=> b = a
<1>1. Leads(es, 0, a, b) => b = a
  BY DEF Leads, IsWalk
<1>2. IsWalk(es, [i \in 0 .. 0 |-> a], 0, a, a)
  BY DEF IsWalk
<1>3. [i \in 0 .. 0 |-> a] \in [0 .. 0 -> Towers]
  OBVIOUS
<1> QED
  BY <1>1, <1>2, <1>3 DEF Leads

\* A walk of one more step is a walk and a step.
LEMMA OneStepFurther ==
    ASSUME NEW es, NEW k \in Nat, NEW a \in Towers, NEW b \in Towers
    PROVE  Leads(es, k + 1, a, b)
           <=> \E c \in Towers : Leads(es, k, a, c) /\ b \in Neighbors(es, c, "UPSTREAM_OF")
<1>1. ASSUME Leads(es, k + 1, a, b)
      PROVE  \E c \in Towers : Leads(es, k, a, c) /\ b \in Neighbors(es, c, "UPSTREAM_OF")
  <2>1. PICK p \in [0 .. k + 1 -> Towers] : IsWalk(es, p, k + 1, a, b)
    BY <1>1 DEF Leads
  <2> DEFINE q == [i \in 0 .. k |-> p[i]]
  <2>2. \A i \in 0 .. k : p[i] \in Towers /\ p[i + 1] \in Neighbors(es, p[i], "UPSTREAM_OF")
    BY <2>1 DEF IsWalk
  <2>3. q \in [0 .. k -> Towers]
    BY <2>2
  <2>4. IsWalk(es, q, k, a, p[k])
    BY <2>1, <2>2 DEF IsWalk
  <2>5. p[k] \in Towers /\ b \in Neighbors(es, p[k], "UPSTREAM_OF")
    BY <2>1, <2>2 DEF IsWalk
  <2> QED
    BY <2>3, <2>4, <2>5 DEF Leads
<1>2. ASSUME NEW c \in Towers, Leads(es, k, a, c), b \in Neighbors(es, c, "UPSTREAM_OF")
      PROVE  Leads(es, k + 1, a, b)
  <2>1. PICK p \in [0 .. k -> Towers] : IsWalk(es, p, k, a, c)
    BY <1>2 DEF Leads
  <2> DEFINE q == [i \in 0 .. k + 1 |-> IF i = k + 1 THEN b ELSE p[i]]
  <2>2. q \in [0 .. k + 1 -> Towers]
    OBVIOUS
  <2>3. q[0] = a /\ q[k + 1] = b /\ q[k] = c
    BY <2>1 DEF IsWalk
  <2>4. ASSUME NEW i \in 0 .. k PROVE q[i + 1] \in Neighbors(es, q[i], "UPSTREAM_OF")
    <3>1. CASE i = k
      BY <3>1, <2>3, <1>2
    <3>2. CASE i # k
      <4>1. i \in 0 .. k - 1 /\ q[i] = p[i] /\ q[i + 1] = p[i + 1]
        BY <3>2
      <4> QED
        BY <4>1, <2>1 DEF IsWalk
    <3> QED
      BY <3>1, <3>2
  <2>5. IsWalk(es, q, k + 1, a, b)
    BY <2>3, <2>4 DEF IsWalk
  <2> QED
    BY <2>2, <2>5 DEF Leads
<1> QED
  BY <1>1, <1>2

\* What is within k hops.
Within(es, a, k) == {b \in Towers : \E n \in 0 .. k : Leads(es, n, a, b)}

LEMMA WithinNone == ASSUME NEW es, NEW a \in Towers PROVE Within(es, a, 0) = {a}
  BY WalkOfNoStep DEF Within

LEMMA WithinOneMore ==
    ASSUME NEW es, NEW a \in Towers, NEW k \in Nat
    PROVE  /\ Within(es, a, k) \subseteq Within(es, a, k + 1)
           /\ \A c \in Within(es, a, k) : Neighbors(es, c, "UPSTREAM_OF") \subseteq Within(es, a, k + 1)
           /\ \A b \in Within(es, a, k + 1) : \/ b \in Within(es, a, k)
                                              \/ \E c \in Within(es, a, k) : b \in Neighbors(es, c, "UPSTREAM_OF")
<1>1. Within(es, a, k) \subseteq Within(es, a, k + 1)
  BY DEF Within
<1>2. ASSUME NEW c \in Within(es, a, k), NEW b \in Neighbors(es, c, "UPSTREAM_OF")
      PROVE  b \in Within(es, a, k + 1)
  <2>1. PICK n \in 0 .. k : Leads(es, n, a, c)
    BY DEF Within
  <2>2. c \in Towers /\ b \in Towers
    BY DEF Within, Neighbors
  <2>3. Leads(es, n + 1, a, b)
    BY <2>1, <2>2, OneStepFurther
  <2> QED
    BY <2>2, <2>3 DEF Within
<1>3. ASSUME NEW b \in Within(es, a, k + 1)
      PROVE  b \in Within(es, a, k) \/ \E c \in Within(es, a, k) : b \in Neighbors(es, c, "UPSTREAM_OF")
  <2>1. PICK n \in 0 .. k + 1 : Leads(es, n, a, b)
    BY DEF Within
  <2>2. CASE n <= k
    BY <2>1, <2>2 DEF Within
  <2>3. CASE n = k + 1
    <3>1. PICK c \in Towers : Leads(es, k, a, c) /\ b \in Neighbors(es, c, "UPSTREAM_OF")
      BY <2>1, <2>3, OneStepFurther DEF Within
    <3> QED
      BY <3>1 DEF Within
  <2> QED
    BY <2>2, <2>3
<1> QED
  BY <1>1, <1>2, <1>3

LEMMA WithinIsMonotone ==
    ASSUME NEW es, NEW a \in Towers, NEW j \in Nat, NEW k \in Nat, j <= k
    PROVE  Within(es, a, j) \subseteq Within(es, a, k)
  BY DEF Within

Closed(es, S) == \A c \in S : Neighbors(es, c, "UPSTREAM_OF") \subseteq S

\* No walk leaves a closed set: the first step out of it would have to.
LEMMA ClosedSetsKeepWalks ==
    ASSUME NEW es, NEW S, Closed(es, S), NEW a \in S, NEW b \in Towers, NEW k \in Nat, Leads(es, k, a, b)
    PROVE  b \in S
<1>1. PICK p \in [0 .. k -> Towers] : IsWalk(es, p, k, a, b)
  BY DEF Leads
<1> DEFINE outside == {i \in 0 .. k : p[i] \notin S}
<1>2. SUFFICES ASSUME outside # {} PROVE FALSE
  BY <1>1 DEF IsWalk
<1>3. PICK i \in outside : \A j \in outside : i <= j
  <2>1. outside \in SUBSET Nat
    OBVIOUS
  <2> QED
    BY <1>2, <2>1, LeastNumber
<1>4. i # 0
  BY <1>1 DEF IsWalk
<1>5. i - 1 \in 0 .. k - 1 /\ p[i - 1] \in S
  BY <1>3, <1>4
<1>6. p[i] \in Neighbors(es, p[i - 1], "UPSTREAM_OF")
  BY <1>1, <1>5 DEF IsWalk
<1> QED
  BY <1>5, <1>6 DEF Closed

LEMMA ClosedIsAll ==
    ASSUME NEW es, NEW a \in Towers, NEW j \in Nat, NEW k \in Nat, j <= k, Closed(es, Within(es, a, j))
    PROVE  Within(es, a, k) = Within(es, a, j)
<1>1. a \in Within(es, a, j)
  BY WalkOfNoStep DEF Within
<1>2. \A b \in Within(es, a, k) : b \in Within(es, a, j)
  <2>1. \A b \in Within(es, a, k) : b \in Towers /\ \E n \in Nat : Leads(es, n, a, b)
    BY DEF Within
  <2> QED
    BY <1>1, <2>1, ClosedSetsKeepWalks
<1> QED
  BY <1>2, WithinIsMonotone

LEMMA DependentsAreWithin ==
    ASSUME NEW es, NEW a \in Towers, NEW k \in Nat
    PROVE  Dependents(es, k, a) = Within(es, a, k) \ {a}
<1>1. ASSUME NEW b \in Within(es, a, k), b # a PROVE b \in Dependents(es, k, a)
  <2>1. PICK n \in 0 .. k : Leads(es, n, a, b)
    BY DEF Within
  <2>2. n # 0
    BY <1>1, <2>1, WalkOfNoStep
  <2> QED
    BY <1>1, <2>1, <2>2 DEF Dependents, Within
<1> QED
  BY <1>1 DEF Dependents, Within

-----------------------------------------------------------------------------
(* Neo4j *)

\* A walk that comes back to where it was can leave the detour out.
LEMMA DetoursCanBeCut ==
    ASSUME NEW es, NEW n \in Nat, NEW a, NEW b, NEW p \in [0 .. n -> Towers], IsWalk(es, p, n, a, b),
           NEW i \in 0 .. n, NEW j \in 0 .. n, i < j, p[i] = p[j]
    PROVE  Leads(es, n - (j - i), a, b)
<1> DEFINE m == n - (j - i)
           q == [x \in 0 .. m |-> IF x <= i THEN p[x] ELSE p[x + (j - i)]]
<1>1. m \in Nat /\ i \in 0 .. m
  OBVIOUS
<1>2. q \in [0 .. m -> Towers]
  BY <1>1
<1>3. q[0] = a
  BY <1>1 DEF IsWalk
<1>4. q[m] = b
  <2>1. CASE m = i
    BY <1>1, <2>1 DEF IsWalk
  <2>2. CASE m # i
    BY <1>1, <2>2 DEF IsWalk
  <2> QED
    BY <2>1, <2>2
<1>5. ASSUME NEW x \in 0 .. m - 1 PROVE q[x + 1] \in Neighbors(es, q[x], "UPSTREAM_OF")
  <2>1. \A y \in 0 .. n - 1 : p[y + 1] \in Neighbors(es, p[y], "UPSTREAM_OF")
    BY DEF IsWalk
  <2>2. CASE x < i
    BY <1>1, <2>1, <2>2
  <2>3. CASE x = i
    <3>1. q[x + 1] = p[j + 1] /\ q[x] = p[j] /\ j \in 0 .. n - 1
      BY <1>1, <2>3
    <3> QED
      BY <2>1, <3>1
  <2>4. CASE x > i
    <3>1. q[x] = p[x + (j - i)] /\ q[x + 1] = p[(x + (j - i)) + 1] /\ x + (j - i) \in 0 .. n - 1
      BY <1>1, <2>4
    <3> QED
      BY <2>1, <3>1
  <2> QED
    BY <2>2, <2>3, <2>4
<1>6. IsWalk(es, q, m, a, b)
  BY <1>3, <1>4, <1>5 DEF IsWalk
<1> QED
  BY <1>2, <1>6 DEF Leads

(***************************************************************************)
(* For another tower than the start, that Neo4j follows an edge only once  *)
(* in a match makes no difference: a shortest walk never takes one twice.  *)
(***************************************************************************)
THEOREM TrailsAreEnough ==
    ASSUME NEW es, NEW k \in Nat, NEW a \in Towers
    PROVE  Neo4jImpact(es, k, a) \ {a} = Dependents(es, k, a)
<1>1. Neo4jImpact(es, k, a) \ {a} \subseteq Dependents(es, k, a)
  BY DEF Neo4jImpact, Dependents, Leads
<1>2. ASSUME NEW b \in Dependents(es, k, a) PROVE b \in Neo4jImpact(es, k, a)
  <2> DEFINE lengths == {n \in 1 .. k : Leads(es, n, a, b)}
  <2>1. b \in Towers /\ b # a /\ lengths # {} /\ lengths \in SUBSET Nat
    BY DEF Dependents
  <2>2. PICK n \in lengths : \A m \in lengths : n <= m
    BY <2>1, LeastNumber
  <2>3. PICK p \in [0 .. n -> Towers] : IsWalk(es, p, n, a, b)
    BY <2>2 DEF Leads
  <2>4. ASSUME NEW i \in 0 .. n - 1, NEW j \in 0 .. n - 1, i < j, p[i] = p[j] PROVE FALSE
    <3>0. n \in Nat /\ i \in 0 .. n /\ j \in 0 .. n
      BY <2>2
    <3>1. Leads(es, n - (j - i), a, b)
      BY <2>3, <2>4, <3>0, DetoursCanBeCut
    <3>2. n - (j - i) \in lengths
      BY <2>2, <2>4, <3>1
    <3> QED
      BY <2>2, <2>4, <3>2
  <2>5. \A i, j \in 0 .. n - 1 : i # j => p[i] # p[j]
    BY <2>2, <2>4
  <2>6. \A i, j \in 0 .. n - 1 : i # j => <<p[i], p[i + 1]>> # <<p[j], p[j + 1]>>
    BY <2>5
  <2> QED
    BY <2>1, <2>2, <2>3, <2>6 DEF Neo4jImpact
<1> QED
  BY <1>1, <1>2 DEF Dependents

===============================================================================
