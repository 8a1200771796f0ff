----------------------------- MODULE ImpactSearch -----------------------------
(***************************************************************************)
(* InMemoryGraph.downstream_impact (network_graph.py 69-93): which towers  *)
(* depend on a tower, up to max_hops away.  A breadth-first search, one    *)
(* hop per iteration of its outer loop.                                    *)
(*                                                                         *)
(* The lists of the code are kept where their order is seen: the result is *)
(* a sequence.  A frontier is a set, expanded in any order.                *)
(***************************************************************************)
EXTENDS Topology, Sequences

CONSTANTS
    Topologies,     \* the sets of edges a search may find
    HopLimits       \* the values of max_hops it may be asked for

ASSUME TopologiesAssumption == Topologies \subseteq SUBSET Edges
ASSUME HopsAssumption == HopLimits \subseteq Nat

VARIABLES
    nodes, edges,       \* the graph
    start, maxHops,     \* the arguments
    visited,
    frontier,           \* members of frontier not expanded yet
    nextFrontier,
    impacted,
    hops,               \* completed iterations of the outer loop
    done

graph == <<nodes, edges, start, maxHops>>
vars == <<graph, visited, frontier, nextFrontier, impacted, hops, done>>

Found == {impacted[i] : i \in DOMAIN impacted}

TypeOK ==
    /\ nodes \subseteq Towers
    /\ edges \subseteq Edges
    /\ start \in Towers
    /\ maxHops \in Nat
    /\ visited \subseteq Towers
    /\ frontier \subseteq Towers
    /\ nextFrontier \subseteq Towers
    /\ impacted \in Seq(Towers)
    /\ hops \in Nat
    /\ done \in BOOLEAN

\* upsert_edge: both nodes must exist first.
WellFormed == \A e \in edges : e[1] \in nodes /\ e[3] \in nodes

\* The call, up to the loop.
Init ==
    /\ nodes \in SUBSET Towers
    /\ edges \in Topologies
    /\ WellFormed
    /\ start \in Towers
    /\ maxHops \in HopLimits
    /\ visited = {start}
    /\ frontier = {start}
    /\ nextFrontier = {}
    /\ impacted = <<>>
    /\ hops = 0
    /\ done = (start \notin nodes \/ maxHops = 0)

\* A slip: every relation is followed.
NeighborOfAnyType(n, m) == \E r \in RelTypes : m \in Neighbors(edges, n, r)

Neighbor(n, m) == m \in Neighbors(edges, n, "UPSTREAM_OF")

\* A slip: what is found is expanded in the same iteration.
VisitAndExpand(n, m) ==
    /\ ~ done
    /\ n \in frontier
    /\ Neighbor(n, m)
    /\ m \notin visited
    /\ visited' = visited \union {m}
    /\ impacted' = Append(impacted, m)
    /\ frontier' = frontier \union {m}
    /\ UNCHANGED <<graph, nextFrontier, hops, done>>

\* A slip: the edge is queued instead of the tower it leads to.
VisitByEdge(n, m) ==
    /\ ~ done
    /\ n \in frontier
    /\ Neighbor(n, m)
    /\ m \notin visited
    /\ visited' = visited \union {m}
    /\ impacted' = Append(impacted, m)
    /\ nextFrontier' = nextFrontier \union {<<n, "UPSTREAM_OF", m>>}
    /\ UNCHANGED <<graph, frontier, hops, done>>

\* The body of the inner loop for a neighbour seen for the first time.
Visit(n, m) ==
    /\ ~ done
    /\ n \in frontier
    /\ Neighbor(n, m)
    /\ m \notin visited
    /\ visited' = visited \union {m}
    /\ impacted' = Append(impacted, m)
    /\ nextFrontier' = nextFrontier \union {m}
    /\ UNCHANGED <<graph, frontier, hops, done>>

\* All neighbours of n have been visited.
Expanded(n) ==
    /\ ~ done
    /\ n \in frontier
    /\ \A m \in Towers : Neighbor(n, m) => m \in visited
    /\ frontier' = frontier \ {n}
    /\ UNCHANGED <<graph, visited, nextFrontier, impacted, hops, done>>

\* A slip: one iteration too few.
LastHopEarly == hops + 2 >= maxHops

LastHop == hops + 1 = maxHops

\* if not next_frontier: break; otherwise frontier = next_frontier
EndHop ==
    /\ ~ done
    /\ frontier = {}
    /\ hops' = hops + 1
    /\ frontier' = nextFrontier
    /\ nextFrontier' = {}
    /\ done' = (nextFrontier = {} \/ LastHop)
    /\ UNCHANGED <<graph, visited, impacted>>

Next == (\E n \in Towers : Expanded(n) \/ \E m \in Towers : Visit(n, m)) \/ EndHop

Spec == Init /\ [][Next]_vars

-----------------------------------------------------------------------------
(* Properties *)

(***************************************************************************)
(* The search returns exactly the towers that depend on the given one      *)
(* within max_hops: "which towers depend on it as their upstream link,     *)
(* transitively, up to max_hops away" (network_graph.py 70-73), on cycles  *)
(* and self-loops too.                                                     *)
(***************************************************************************)
ExactImpact == done => Found = Dependents(edges, maxHops, start)

\* b is exactly k hops from the start.
AtDistance(b, k) ==
    /\ Leads(edges, k, start, b)
    /\ \A j \in 1 .. k - 1 : ~ Leads(edges, j, start, b)

(***************************************************************************)
(* Towers are listed once each and nearest first, so a caller that shows   *)
(* the first few shows the closest.                                        *)
(***************************************************************************)
NearestFirst ==
    \A i, j \in DOMAIN impacted : i < j =>
        /\ impacted[i] # impacted[j]
        /\ \A k, l \in 1 .. maxHops :
             AtDistance(impacted[i], k) /\ AtDistance(impacted[j], l) => k <= l

(***************************************************************************)
(* Neo4j answers the same question with the same towers, but for one:      *)
(* where the start depends on itself, Neo4j lists the start                *)
(* (network_graph.py 69-93 and 152-168).                                   *)
(***************************************************************************)
AgreesWithNeo4j == done => Found = Neo4jImpact(edges, maxHops, start) \ {start}

===============================================================================
