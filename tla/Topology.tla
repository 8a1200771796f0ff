------------------------------- MODULE Topology -------------------------------
(***************************************************************************)
(* Topology graphs: towers and typed, directed edges between them, and     *)
(* what "depends on" means, stated with paths instead of a search.         *)
(***************************************************************************)
EXTENDS Naturals

CONSTANT Towers

RelTypes == {"UPSTREAM_OF", "SERVES", "BACKS_UP"}
Edges == Towers \X RelTypes \X Towers

\* neighbors(node_id, rel_type)
Neighbors(edges, n, relType) == {m \in Towers : <<n, relType, m>> \in edges}

\* A walk of k UPSTREAM_OF edges from a to b.
IsWalk(edges, p, k, a, b) ==
    /\ p[0] = a
    /\ p[k] = b
    /\ \A i \in 0 .. k - 1 : p[i + 1] \in Neighbors(edges, p[i], "UPSTREAM_OF")

Leads(edges, k, a, b) == \E p \in [0 .. k -> Towers] : IsWalk(edges, p, k, a, b)

(***************************************************************************)
(* The towers other than a that a walk of at most k edges leads to: those  *)
(* that depend on a, transitively, up to k hops away.                      *)
(***************************************************************************)
Dependents(edges, k, a) == {b \in Towers \ {a} : \E n \in 1 .. k : Leads(edges, n, a, b)}

(***************************************************************************)
(* MATCH (a)-[:UPSTREAM_OF*1..k]->(b) RETURN DISTINCT b                    *)
(*                                                                         *)
(* Cypher follows an edge at most once in one match, and a match may end   *)
(* where it began.                                                         *)
(***************************************************************************)
Neo4jImpact(edges, k, a) ==
    {b \in Towers : \E n \in 1 .. k : \E p \in [0 .. n -> Towers] :
        /\ IsWalk(edges, p, n, a, b)
        /\ \A i, j \in 0 .. n - 1 : i # j => <<p[i], p[i + 1]>> # <<p[j], p[j + 1]>>}

===============================================================================
