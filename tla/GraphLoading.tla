----------------------------- MODULE GraphLoading -----------------------------
(***************************************************************************)
(* The graph that the threads of one process share (tools.py 11-44,        *)
(* loader.py 15-30, network_graph.py 175-184).  The first caller of        *)
(* _get_graph makes it and loads the topology into it; every statement     *)
(* reads the module variable _graph afresh:                                *)
(*                                                                         *)
(*     if _graph is None:                Call                              *)
(*         _graph = get_graph(...)       Make                              *)
(*         load_topology(_graph)         StartLoad, Upsert ...             *)
(*     return _graph                     Take                              *)
(*                                                                         *)
(* and get_downstream_impact then searches what it was given.  Endpoint    *)
(* functions run in a thread pool, so all this may happen in several       *)
(* threads at once.                                                        *)
(*                                                                         *)
(* A search of the Neo4j server is one query; here it may also see the     *)
(* graph grow in the middle, as a search in memory does.                   *)
(*                                                                         *)
(* Loading is idempotent: loading one graph twice leaves what loading it   *)
(* once does, so a graph is known by how many of the upserts it has seen.  *)
(***************************************************************************)
EXTENDS Topology, Sequences

CONSTANTS
    Threads,
    NoGraph,        \* _graph is None
    Store,          \* the graph kept by the Neo4j server
    Backends,       \* which backends get_graph may find: "memory", "neo4j"
    Nodes,          \* the topology file: a sequence of towers
    Links,          \* and a sequence of edges
    Queries,        \* [tower, hops] of the requests that may come
    MaxFailures     \* how many loads may fail

ASSUME GraphsAssumption == NoGraph \notin Threads /\ Store \notin Threads /\ NoGraph # Store
ASSUME FileAssumption ==
    /\ Nodes \in Seq(Towers)
    /\ Links \in Seq(Edges)
    /\ \A i \in DOMAIN Links : \E j, k \in DOMAIN Nodes : Links[i][1] = Nodes[j] /\ Links[i][3] = Nodes[k]
ASSUME QueriesAssumption == Queries \subseteq [tower: Towers, hops: Nat \ {0}]
ASSUME BackendsAssumption == Backends \subseteq {"memory", "neo4j"} /\ MaxFailures \in Nat

VARIABLES
    shared,     \* the module variable _graph
    loaded,     \* upserts each graph has seen
    pc,         \* where each thread is
    query,      \* the arguments of its call
    using,      \* the graph it loads or searches
    upserts,    \* upserts its load_topology has made
    visited, frontier, nextFrontier, hops,      \* its search
    whole,      \* was the graph complete when the search began?
    failures

search == <<visited, frontier, nextFrontier, hops>>
vars == <<shared, loaded, pc, query, using, upserts, search, whole, failures>>

\* A graph in memory is called after the thread that made it.
GraphIds == Threads \union {Store}
Total == Len(Nodes) + Len(Links)
Steps == {"idle", "make", "load", "upsert", "return", "search", "answered"}

TypeOK ==
    /\ shared \in GraphIds \union {NoGraph}
    /\ loaded \in [GraphIds -> 0 .. Total]
    /\ pc \in [Threads -> Steps]
    /\ query \in [Threads -> Queries]
    /\ using \in [Threads -> GraphIds \union {NoGraph}]
    /\ upserts \in [Threads -> 0 .. Total]
    /\ visited \in [Threads -> SUBSET Towers]
    /\ frontier \in [Threads -> SUBSET Towers]
    /\ nextFrontier \in [Threads -> SUBSET Towers]
    /\ hops \in [Threads -> Nat]
    /\ whole \in [Threads -> BOOLEAN]
    /\ failures \in 0 .. MaxFailures

\* The server may hold what earlier processes loaded.
Init ==
    /\ shared = NoGraph
    /\ loaded \in {l \in [GraphIds -> 0 .. Total] : \A t \in Threads : l[t] = 0}
    /\ pc = [t \in Threads |-> "idle"]
    /\ query \in [Threads -> Queries]
    /\ using = [t \in Threads |-> NoGraph]
    /\ upserts = [t \in Threads |-> 0]
    /\ visited = [t \in Threads |-> {}]
    /\ frontier = [t \in Threads |-> {}]
    /\ nextFrontier = [t \in Threads |-> {}]
    /\ hops = [t \in Threads |-> 0]
    /\ whole = [t \in Threads |-> FALSE]
    /\ failures = 0

Goes(t, step) == pc' = [pc EXCEPT ![t] = step]

LoadedNodes(g) == {Nodes[i] : i \in {j \in DOMAIN Nodes : j <= loaded[g]}}
LoadedEdges(g) == {Links[i] : i \in {j \in DOMAIN Links : Len(Nodes) + j <= loaded[g]}}
FileEdges == {Links[i] : i \in DOMAIN Links}

-----------------------------------------------------------------------------
(* _get_graph *)

\* A request for q reaches thread t: the check for None.
Call(t, q) ==
    /\ pc[t] \in {"idle", "answered"}
    /\ query' = [query EXCEPT ![t] = q]
    /\ Goes(t, IF shared = NoGraph THEN "make" ELSE "return")
    /\ UNCHANGED <<shared, loaded, using, upserts, search, whole, failures>>

\* get_graph: Neo4j if it is configured and answers, else a new graph in memory.
Make(t) ==
    /\ pc[t] = "make"
    /\ \/ "memory" \in Backends /\ shared' = t
       \/ "neo4j" \in Backends /\ shared' = Store
    /\ Goes(t, "load")
    /\ UNCHANGED <<loaded, query, using, upserts, search, whole, failures>>

\* A slip: the topology is loaded only if no graph of the process has it yet.
StartLoadOnce(t) ==
    /\ pc[t] = "load"
    /\ using' = [using EXCEPT ![t] = shared]
    /\ upserts' = [upserts EXCEPT ![t] = 0]
    /\ Goes(t, IF \E g \in GraphIds : loaded[g] = Total THEN "return" ELSE "upsert")
    /\ UNCHANGED <<shared, loaded, query, search, whole, failures>>

\* load_topology(_graph), which may be another thread's graph by now.
StartLoad(t) ==
    /\ pc[t] = "load"
    /\ using' = [using EXCEPT ![t] = shared]
    /\ upserts' = [upserts EXCEPT ![t] = 0]
    /\ Goes(t, "upsert")
    /\ UNCHANGED <<shared, loaded, query, search, whole, failures>>

\* A slip: one upsert too many.
UpsertPastEnd(t) ==
    /\ pc[t] = "upsert"
    /\ upserts[t] <= Total
    /\ upserts' = [upserts EXCEPT ![t] = @ + 1]
    /\ loaded' = [loaded EXCEPT ![using[t]] = IF @ > upserts[t] THEN @ ELSE upserts[t] + 1]
    /\ UNCHANGED <<shared, pc, query, using, search, whole, failures>>

\* The next node, or when there are no more nodes the next edge.
Upsert(t) ==
    /\ pc[t] = "upsert"
    /\ upserts[t] < Total
    /\ upserts' = [upserts EXCEPT ![t] = @ + 1]
    /\ loaded' = [loaded EXCEPT ![using[t]] = IF @ > upserts[t] THEN @ ELSE upserts[t] + 1]
    /\ UNCHANGED <<shared, pc, query, using, search, whole, failures>>

LoadEnds(t) ==
    /\ pc[t] = "upsert"
    /\ upserts[t] = Total
    /\ Goes(t, "return")
    /\ UNCHANGED <<shared, loaded, query, using, upserts, search, whole, failures>>

\* The file cannot be read, or Neo4j stops answering.  The request gets an error.
LoadFails(t) ==
    /\ failures < MaxFailures
    /\ pc[t] = "upsert"
    /\ using[t] = Store \/ upserts[t] = 0
    /\ failures' = failures + 1
    /\ Goes(t, "idle")
    /\ UNCHANGED <<shared, loaded, query, using, upserts, search, whole>>

-----------------------------------------------------------------------------
(* get_downstream_impact *)

Take(t) ==
    /\ pc[t] = "return"
    /\ using' = [using EXCEPT ![t] = shared]
    /\ whole' = [whole EXCEPT ![t] = loaded[shared] = Total]
    /\ visited' = [visited EXCEPT ![t] = {query[t].tower}]
    /\ frontier' = [frontier EXCEPT ![t] = {query[t].tower}]
    /\ nextFrontier' = [nextFrontier EXCEPT ![t] = {}]
    /\ hops' = [hops EXCEPT ![t] = 0]
    /\ Goes(t, "search")
    /\ UNCHANGED <<shared, loaded, query, upserts, failures>>

\* The tower is not in the graph.
Unknown(t) ==
    /\ pc[t] = "search"
    /\ hops[t] = 0
    /\ frontier[t] = {query[t].tower}
    /\ query[t].tower \notin LoadedNodes(using[t])
    /\ Goes(t, "answered")
    /\ UNCHANGED <<shared, loaded, query, using, upserts, search, whole, failures>>

\* Slips: a search that looks at _graph again; one that follows any relation.
FollowsShared(t, n) == Neighbors(LoadedEdges(shared), n, "UPSTREAM_OF")
FollowsAny(t, n) == UNION {Neighbors(LoadedEdges(using[t]), n, r) : r \in RelTypes}

Follows(t, n) == Neighbors(LoadedEdges(using[t]), n, "UPSTREAM_OF")

\* One tower of the frontier; the graph may grow between two of them.
Expand(t, n) ==
    /\ pc[t] = "search"
    /\ n \in frontier[t]
    /\ hops[t] = 0 => n \in LoadedNodes(using[t])
    /\ frontier' = [frontier EXCEPT ![t] = @ \ {n}]
    /\ nextFrontier' = [nextFrontier EXCEPT ![t] = @ \union (Follows(t, n) \ visited[t])]
    /\ visited' = [visited EXCEPT ![t] = @ \union Follows(t, n)]
    /\ UNCHANGED <<shared, loaded, pc, query, using, upserts, hops, whole, failures>>

EndHop(t) ==
    /\ pc[t] = "search"
    /\ frontier[t] = {}
    /\ hops' = [hops EXCEPT ![t] = @ + 1]
    /\ frontier' = [frontier EXCEPT ![t] = nextFrontier[t]]
    /\ nextFrontier' = [nextFrontier EXCEPT ![t] = {}]
    /\ Goes(t, IF nextFrontier[t] = {} \/ hops[t] + 1 = query[t].hops THEN "answered" ELSE "search")
    /\ UNCHANGED <<shared, loaded, query, using, upserts, visited, whole, failures>>

-----------------------------------------------------------------------------

Continue(t) ==
    \/ Make(t) \/ StartLoad(t) \/ Upsert(t) \/ LoadEnds(t)
    \/ Take(t) \/ Unknown(t) \/ EndHop(t)
    \/ \E n \in Towers : Expand(t, n)

Next == \E t \in Threads : (\E q \in Queries : Call(t, q)) \/ Continue(t) \/ LoadFails(t)

Spec == Init /\ [][Next]_vars

\* A call that has begun goes on.  No request has to come.
Fairness == \A t \in Threads : WF_vars(Continue(t))
FairSpec == Spec /\ Fairness

-----------------------------------------------------------------------------
(* Properties *)

Answer(t) == visited[t] \ {query[t].tower}
Right(t) == Dependents(FileEdges, query[t].hops, query[t].tower)

(***************************************************************************)
(* However much of the graph a search has seen, it reports no tower that   *)
(* does not depend on the one asked about (network_graph.py 81-91).        *)
(***************************************************************************)
NeverInvents == \A t \in Threads : pc[t] = "answered" => Answer(t) \subseteq Right(t)

(***************************************************************************)
(* A search that was given a complete graph is exact, although other       *)
(* threads go on replacing the shared graph and loading (tools.py 38-39).  *)
(***************************************************************************)
ExactWhenWhole ==
    \A t \in Threads : pc[t] = "answered" /\ whole[t] => Answer(t) = Right(t)

\* A thread is loading g, or is about to load whatever is shared then.
BeingLoaded(g) ==
    \E t \in Threads : pc[t] = "load" \/ (pc[t] = "upsert" /\ using[t] = g)

(***************************************************************************)
(* A shared graph that is not complete is being completed by somebody.     *)
(* Only a load that failed leaves it as it is, and then for as long as the *)
(* process lives, since _graph is set before load_topology runs            *)
(* (tools.py 19-22).                                                       *)
(***************************************************************************)
LeftIncompleteByFailureOnly ==
    shared # NoGraph /\ loaded[shared] # Total => BeingLoaded(shared) \/ failures > 0

(***************************************************************************)
(* If no load fails, the shared graph is in the end complete for good,     *)
(* whatever the threads overwrote on the way (tools.py 17-22).             *)
(***************************************************************************)
SettlesComplete ==
    [](failures = 0) => (shared # NoGraph ~> [](shared # NoGraph /\ loaded[shared] = Total))

(***************************************************************************)
(* "Find every tower that depends on the given tower as an upstream link"  *)
(* (tools.py 35): an answer leaves no dependent tower out.                 *)
(***************************************************************************)
EveryTower == \A t \in Threads : pc[t] = "answered" => Right(t) \subseteq Answer(t)

===============================================================================
