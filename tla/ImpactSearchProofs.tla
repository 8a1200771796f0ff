-------------------------- MODULE ImpactSearchProofs --------------------------
(***************************************************************************)
(* The search of downstream_impact, on any graph and for any number of     *)
(* hops: what it returns, in which order, and that Neo4j answers the same. *)
(***************************************************************************)
EXTENDS ImpactSearch, TopologyProofs, TLAPS

-----------------------------------------------------------------------------
(* Types *)

LEMMA TypesInit == Init => TypeOK
  BY TopologiesAssumption, HopsAssumption DEF Init, TypeOK

LEMMA TypesNext == TypeOK /\ [Next]_vars => TypeOK'
<1> SUFFICES ASSUME TypeOK, [Next]_vars PROVE TypeOK'
  OBVIOUS
<1>1. ASSUME NEW n \in Towers, NEW m \in Towers, Visit(n, m) PROVE TypeOK'
  BY <1>1 DEF TypeOK, Visit, graph
<1>2. ASSUME NEW n \in Towers, Expanded(n) PROVE TypeOK'
  BY <1>2 DEF TypeOK, Expanded, graph
<1>3. CASE EndHop
  BY <1>3 DEF TypeOK, EndHop, graph
<1>4. CASE UNCHANGED vars
  BY <1>4 DEF TypeOK, vars, graph
<1> QED
  BY <1>1, <1>2, <1>3, <1>4 DEF Next

\* All that the search keeps are towers, and its counters numbers.
THEOREM TypeCorrect == Spec => []TypeOK
  BY TypesInit, TypesNext, PTL DEF Spec

-----------------------------------------------------------------------------
(* The search *)

(***************************************************************************)
(* In the iteration that expands what is hops away, all within hops has    *)
(* been visited, and beyond that what was queued: each one hop further.    *)
(* What has been expanded has its neighbours visited.                      *)
(***************************************************************************)
SearchInv ==
    /\ hops <= maxHops
    /\ ~ done => hops < maxHops
    /\ start \in visited
    /\ visited = Within(edges, start, hops) \union nextFrontier
    /\ nextFrontier \subseteq Within(edges, start, hops + 1)
    /\ nextFrontier \intersect Within(edges, start, hops) = {}
    /\ frontier \subseteq Within(edges, start, hops)
    /\ \A c \in Within(edges, start, hops) \ frontier : Neighbors(edges, c, "UPSTREAM_OF") \subseteq visited
    /\ done => nextFrontier = {}
    /\ done => hops = maxHops \/ Closed(edges, visited)

FoundInv == Found = visited \ {start}

LEMMA SearchInit == Init => SearchInv /\ FoundInv
<1> SUFFICES ASSUME Init PROVE SearchInv /\ FoundInv
  OBVIOUS
<1>t. start \in Towers /\ maxHops \in Nat /\ edges \subseteq Edges
  BY TopologiesAssumption, HopsAssumption DEF Init
<1>1. Within(edges, start, 0) = {start}
  BY <1>t, WithinNone
<1>2. start \notin nodes => Neighbors(edges, start, "UPSTREAM_OF") = {}
  BY <1>t DEF Init, WellFormed, Neighbors, Edges
<1>3. done => hops = maxHops \/ Closed(edges, visited)
  BY <1>2 DEF Init, Closed
<1>4. Found = {}
  BY DEF Init, Found
<1>5. /\ hops = 0 /\ visited = {start} /\ frontier = {start} /\ nextFrontier = {}
      /\ done = (start \notin nodes \/ maxHops = 0)
  BY DEF Init
<1>6. Within(edges, start, hops) = {start}
  BY <1>1, <1>5
<1>7. ~ done => hops < maxHops
  <2>1. ~ done => maxHops # 0
    BY <1>5, Zenon
  <2> QED
    BY <1>t, <1>5, <2>1
<1> QED
  BY <1>t, <1>3, <1>4, <1>5, <1>6, <1>7 DEF SearchInv, FoundInv

LEMMA VisitKeepsSearch ==
    ASSUME TypeOK, SearchInv, NEW n \in Towers, NEW m \in Towers, Visit(n, m)
    PROVE  SearchInv'
<1>1. m \in Within(edges, start, hops + 1)
  <2>1. n \in Within(edges, start, hops) /\ m \in Neighbors(edges, n, "UPSTREAM_OF")
    BY DEF Visit, Neighbor, SearchInv
  <2> QED
    BY <2>1, WithinOneMore DEF TypeOK
<1> QED
  BY <1>1 DEF Visit, graph, SearchInv, TypeOK

LEMMA ExpandedKeepsSearch ==
    ASSUME TypeOK, SearchInv, NEW n \in Towers, Expanded(n)
    PROVE  SearchInv'
<1>1. Neighbors(edges, n, "UPSTREAM_OF") \subseteq visited
  BY DEF Expanded, Neighbor, Neighbors
<1> QED
  BY <1>1 DEF Expanded, graph, SearchInv, TypeOK

LEMMA EndHopKeepsSearch ==
    ASSUME TypeOK, SearchInv, EndHop
    PROVE  SearchInv'
<1> DEFINE near == Within(edges, start, hops)
           far == Within(edges, start, hops + 1)
<1>t. start \in Towers /\ hops \in Nat /\ maxHops \in Nat /\ hops < maxHops
  BY DEF TypeOK, SearchInv, EndHop
<1>1. UNCHANGED <<edges, start, maxHops, visited>> /\ hops' = hops + 1
      /\ frontier' = nextFrontier /\ nextFrontier' = {} /\ frontier = {}
      /\ done' = (nextFrontier = {} \/ hops + 1 = maxHops)
  BY DEF EndHop, graph, LastHop
<1>2. visited = far
  <2>1. near \subseteq far
    BY <1>t, WithinOneMore
  <2>2. \A b \in far : b \in near \/ \E c \in near : b \in Neighbors(edges, c, "UPSTREAM_OF")
    BY <1>t, WithinOneMore
  <2>3. \A c \in near : Neighbors(edges, c, "UPSTREAM_OF") \subseteq visited
    BY <1>1 DEF SearchInv
  <2>4. visited = near \union nextFrontier /\ nextFrontier \subseteq far
    BY DEF SearchInv
  <2> QED
    BY <2>1, <2>2, <2>3, <2>4
<1>3. Within(edges, start, hops)' = far
  BY <1>1
<1>4. \A c \in far \ nextFrontier : Neighbors(edges, c, "UPSTREAM_OF") \subseteq visited
  BY <1>1, <1>2 DEF SearchInv
<1>5. nextFrontier = {} => Closed(edges, visited)
  BY <1>2, <1>4 DEF Closed
<1>6. Closed(edges, visited)' <=> Closed(edges, visited)
  BY <1>1 DEF Closed
<1>7. nextFrontier \subseteq far /\ start \in visited
  BY DEF SearchInv
<1>8. hops' <= maxHops' /\ (~ done' => hops' < maxHops')
  <2>1. ~ done' => hops + 1 # maxHops
    BY <1>1, Zenon
  <2> QED
    BY <1>t, <1>1, <2>1
<1>9. /\ visited' = Within(edges, start, hops)' \union nextFrontier'
      /\ frontier' \subseteq Within(edges, start, hops)'
      /\ \A c \in Within(edges, start, hops)' \ frontier' : Neighbors(edges, c, "UPSTREAM_OF")' \subseteq visited'
  BY <1>1, <1>2, <1>3, <1>4, <1>7
<1>10. done' => hops' = maxHops' \/ Closed(edges, visited)'
  BY <1>1, <1>5, <1>6
<1> QED
  BY <1>1, <1>7, <1>8, <1>9, <1>10 DEF SearchInv

LEMMA SearchNext == TypeOK /\ SearchInv /\ [Next]_vars => SearchInv'
<1> SUFFICES ASSUME TypeOK, SearchInv, [Next]_vars PROVE SearchInv'
  OBVIOUS
<1>1. CASE UNCHANGED vars
  BY <1>1 DEF vars, graph, SearchInv, Closed
<1> QED
  BY <1>1, VisitKeepsSearch, ExpandedKeepsSearch, EndHopKeepsSearch DEF Next

LEMMA FoundOnVisit ==
    ASSUME TypeOK, NEW m \in Towers, impacted' = Append(impacted, m)
    PROVE  Found' = Found \union {m}
<1>1. /\ Len(impacted) \in Nat /\ DOMAIN impacted = 1 .. Len(impacted)
      /\ DOMAIN impacted' = 1 .. Len(impacted) + 1 /\ impacted'[Len(impacted) + 1] = m
      /\ \A i \in DOMAIN impacted : impacted'[i] = impacted[i]
  BY DEF TypeOK
<1>2. Found' = {impacted'[i] : i \in DOMAIN impacted'}
  BY DEF Found
<1> QED
  BY <1>1, <1>2 DEF Found

LEMMA FoundNext == TypeOK /\ SearchInv /\ FoundInv /\ [Next]_vars => FoundInv'
<1> SUFFICES ASSUME TypeOK, SearchInv, FoundInv, [Next]_vars PROVE FoundInv'
  OBVIOUS
<1>1. ASSUME NEW n \in Towers, NEW m \in Towers, Visit(n, m) PROVE FoundInv'
  <2>1. Found' = Found \union {m} /\ visited' = visited \union {m} /\ start' = start /\ m # start
    BY <1>1, FoundOnVisit DEF Visit, graph, SearchInv
  <2> QED
    BY <2>1 DEF FoundInv
<1>2. CASE UNCHANGED <<impacted, visited, start>>
  BY <1>2 DEF FoundInv, Found
<1> QED
  BY <1>1, <1>2 DEF Next, Expanded, EndHop, vars, graph

(***************************************************************************)
(* The search ends with exactly the towers that depend on the given one    *)
(* within max_hops, whatever the graph: with what lies within hops when it *)
(* has done all its hops, and with all that can be reached at all when     *)
(* there is nothing left to expand.                                        *)
(***************************************************************************)
THEOREM SearchIsExact == Spec => []ExactImpact
<1>1. Init => TypeOK /\ SearchInv /\ FoundInv
  BY TypesInit, SearchInit
<1>2. TypeOK /\ SearchInv /\ FoundInv /\ [Next]_vars => (TypeOK /\ SearchInv /\ FoundInv)'
  BY TypesNext, SearchNext, FoundNext
<1>3. TypeOK /\ SearchInv /\ FoundInv => ExactImpact
  <2> SUFFICES ASSUME TypeOK, SearchInv, FoundInv, done
               PROVE  Found = Dependents(edges, maxHops, start)
    BY DEF ExactImpact
  <2>t. start \in Towers /\ hops \in Nat /\ maxHops \in Nat /\ hops <= maxHops
    BY DEF TypeOK, SearchInv
  <2>1. visited = Within(edges, start, hops)
    BY DEF SearchInv
  <2>2. hops = maxHops \/ Closed(edges, Within(edges, start, hops))
    BY <2>1 DEF SearchInv
  <2>3. Closed(edges, Within(edges, start, hops)) => Within(edges, start, maxHops) = Within(edges, start, hops)
    BY <2>t, ClosedIsAll
  <2> QED
    BY <2>t, <2>1, <2>2, <2>3, DependentsAreWithin DEF FoundInv
<1> QED
  BY <1>1, <1>2, <1>3, PTL DEF Spec

-----------------------------------------------------------------------------
(* The order of the answer *)

\* Where impacted grows, everything in it is within one hop more, and what is new is not nearer.
SortedInv ==
    \A i, j \in DOMAIN impacted : i < j =>
        /\ impacted[i] # impacted[j]
        /\ \A k, l \in Nat \ {0} : AtDistance(impacted[i], k) /\ AtDistance(impacted[j], l) => k <= l

LEMMA SortedInit == Init => SortedInv
  BY DEF Init, SortedInv

\* The distance of what is within k hops is at most k, and of what is not more than k.
LEMMA DistanceWithin ==
    ASSUME start \in Towers, NEW b \in Towers \ {start}, NEW k \in Nat, NEW d \in Nat \ {0}, AtDistance(b, d)
    PROVE  b \in Within(edges, start, k) <=> d <= k
<1>1. ASSUME b \in Within(edges, start, k) PROVE d <= k
  <2>1. PICK n \in 0 .. k : Leads(edges, n, start, b)
    BY <1>1 DEF Within
  <2>2. n # 0
    BY <2>1, WalkOfNoStep
  <2> QED
    BY <2>1, <2>2 DEF AtDistance
<1>2. ASSUME d <= k PROVE b \in Within(edges, start, k)
  BY <1>2 DEF AtDistance, Within
<1> QED
  BY <1>1, <1>2

LEMMA VisitKeepsSorted ==
    ASSUME TypeOK, SearchInv, FoundInv, SortedInv, NEW n \in Towers, NEW m \in Towers, Visit(n, m)
    PROVE  SortedInv'
<1> DEFINE last == Len(impacted) + 1
<1>1. /\ last \in Nat /\ DOMAIN impacted = 1 .. last - 1 /\ DOMAIN impacted' = 1 .. last
      /\ impacted'[last] = m /\ \A i \in 1 .. last - 1 : impacted'[i] = impacted[i] /\ impacted[i] \in Towers
      /\ start \in Towers /\ hops \in Nat /\ m \notin visited
      /\ UNCHANGED <<edges, start>>
  BY DEF TypeOK, Visit, graph
<1>2. \A b, k : AtDistance(b, k)' <=> AtDistance(b, k)
  BY <1>1 DEF AtDistance
<1>3. ASSUME NEW i \in 1 .. last - 1
      PROVE  impacted[i] \in visited \ {start}
  BY <1>1 DEF FoundInv, Found
<1>4. ASSUME NEW i \in 1 .. last - 1, NEW k \in Nat \ {0}, NEW l \in Nat \ {0},
             AtDistance(impacted[i], k), AtDistance(m, l)
      PROVE  k <= l
  <2>1. impacted[i] \in Within(edges, start, hops + 1)
    BY <1>1, <1>3, WithinOneMore DEF SearchInv
  <2>2. k <= hops + 1
    BY <1>1, <1>3, <1>4, <2>1, DistanceWithin
  <2>3. m \notin Within(edges, start, hops) /\ m # start
    BY <1>1 DEF SearchInv
  <2>4. ~ (l <= hops)
    BY <1>1, <1>4, <2>3, DistanceWithin
  <2> QED
    BY <1>1, <2>2, <2>4
<1>5. ASSUME NEW i \in DOMAIN impacted', NEW j \in DOMAIN impacted', i < j
      PROVE  /\ impacted'[i] # impacted'[j]
             /\ \A k, l \in Nat \ {0} : AtDistance(impacted'[i], k) /\ AtDistance(impacted'[j], l) => k <= l
  <2>1. i \in 1 .. last - 1
    BY <1>1, <1>5
  <2>2. CASE j = last
    BY <1>1, <1>3, <1>4, <2>1, <2>2
  <2>3. CASE j # last
    <3>1. j \in 1 .. last - 1
      BY <1>1, <2>3
    <3> QED
      BY <1>1, <1>5, <2>1, <3>1 DEF SortedInv
  <2> QED
    BY <2>2, <2>3
<1> QED
  BY <1>2, <1>5 DEF SortedInv

LEMMA SortedNext == TypeOK /\ SearchInv /\ FoundInv /\ SortedInv /\ [Next]_vars => SortedInv'
<1> SUFFICES ASSUME TypeOK, SearchInv, FoundInv, SortedInv, [Next]_vars PROVE SortedInv'
  OBVIOUS
<1>1. CASE UNCHANGED <<impacted, edges, start>>
  BY <1>1 DEF SortedInv, AtDistance
<1> QED
  BY <1>1, VisitKeepsSorted DEF Next, Expanded, EndHop, vars, graph

(***************************************************************************)
(* A tower is listed once, and after those that are nearer: what one       *)
(* iteration visits lies one hop beyond all that the ones before visited.  *)
(***************************************************************************)
THEOREM AnswerIsSorted == Spec => []NearestFirst
<1>1. Init => TypeOK /\ SearchInv /\ FoundInv /\ SortedInv
  BY TypesInit, SearchInit, SortedInit
<1>2. TypeOK /\ SearchInv /\ FoundInv /\ SortedInv /\ [Next]_vars => (TypeOK /\ SearchInv /\ FoundInv /\ SortedInv)'
  BY TypesNext, SearchNext, FoundNext, SortedNext
<1>3. TypeOK /\ SortedInv => NearestFirst
  BY DEF TypeOK, SortedInv, NearestFirst
<1> QED
  BY <1>1, <1>2, <1>3, PTL DEF Spec

-----------------------------------------------------------------------------
(* Neo4j *)

\* Memory and Neo4j give the same answer but for a start that depends on itself.
THEOREM BackendsAgree == Spec => []AgreesWithNeo4j
<1>1. TypeOK /\ ExactImpact => AgreesWithNeo4j
  BY TrailsAreEnough DEF TypeOK, ExactImpact, AgreesWithNeo4j
<1> QED
  BY <1>1, TypeCorrect, SearchIsExact, PTL

===============================================================================
