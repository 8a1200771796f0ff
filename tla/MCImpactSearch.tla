---------------------------- MODULE MCImpactSearch ----------------------------
(***************************************************************************)
(* Every graph of four towers without self-loops, and those of up to four  *)
(* edges with one edge more: a self-loop, or an edge of another relation.  *)
(***************************************************************************)
EXTENDS ImpactSearch, FiniteSetsExt, TLC

Plain == {e \in Edges : e[2] = "UPSTREAM_OF" /\ e[1] # e[3]}
Extra == {e \in Edges : e[2] = "SERVES" \/ (e[2] = "UPSTREAM_OF" /\ e[1] = e[3])}
Sparse == UNION {kSubset(k, Plain) : k \in 0 .. 4}

MCTopologies == (SUBSET Plain) \union {es \union {e} : es \in Sparse, e \in Extra}

Symmetry == Permutations(Towers)
===============================================================================
