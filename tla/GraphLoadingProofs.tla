-------------------------- MODULE GraphLoadingProofs --------------------------
(***************************************************************************)
(* What a search finds in a shared graph that grows while it runs, for any *)
(* number of threads and any topology file.                                *)
(***************************************************************************)
EXTENDS GraphLoading, TopologyProofs, TLAPS

(* Types *)

LEMMA TotalType == Len(Nodes) \in Nat /\ Len(Links) \in Nat /\ Total \in Nat
  BY FileAssumption DEF Total

LEMMA TypesInit == Init => TypeOK
  BY TotalType, BackendsAssumption DEF Init, TypeOK, Steps

LEMMA ContinueTypes ==
    ASSUME TypeOK, NEW t \in Threads, Continue(t)
    PROVE  TypeOK'
<1>1. CASE Make(t)
  BY <1>1 DEF TypeOK, Make, Goes, Steps, GraphIds, search
<1>2. CASE StartLoad(t)
  BY <1>2, TotalType DEF TypeOK, StartLoad, Goes, Steps, search
<1>3. CASE Upsert(t)
  <2>1. upserts[t] \in 0 .. Total /\ upserts[t] + 1 \in 0 .. Total
    BY <1>3, TotalType DEF TypeOK, Upsert
  <2>2. loaded' \in [GraphIds -> 0 .. Total]
    <3>1. \A g \in GraphIds : loaded'[g] = loaded[g] \/ loaded'[g] = upserts[t] + 1
      BY <1>3 DEF TypeOK, Upsert
    <3>2. DOMAIN loaded' = GraphIds /\ loaded' = [g \in DOMAIN loaded' |-> loaded'[g]]
      BY <1>3 DEF TypeOK, Upsert
    <3> QED
      BY <2>1, <3>1, <3>2 DEF TypeOK
  <2> QED
    BY <1>3, <2>1, <2>2 DEF TypeOK, Upsert, search
<1>4. CASE LoadEnds(t)
  BY <1>4 DEF TypeOK, LoadEnds, Goes, Steps, search
<1>5. CASE Take(t)
  BY <1>5, QueriesAssumption DEF TypeOK, Take, Goes, Steps
<1>6. CASE Unknown(t)
  BY <1>6 DEF TypeOK, Unknown, Goes, Steps, search
<1>7. CASE EndHop(t)
  BY <1>7 DEF TypeOK, EndHop, Goes, Steps
<1>8. ASSUME NEW n \in Towers, Expand(t, n) PROVE TypeOK'
  <2>1. Follows(t, n) \subseteq Towers
    BY DEF Follows, Neighbors
  <2> QED
    BY <1>8, <2>1 DEF TypeOK, Expand
<1> QED
  BY <1>1, <1>2, <1>3, <1>4, <1>5, <1>6, <1>7, <1>8 DEF Continue

LEMMA TypesNext == TypeOK /\ [Next]_vars => TypeOK'
<1> SUFFICES ASSUME TypeOK, [Next]_vars PROVE TypeOK'
  OBVIOUS
<1>1. ASSUME NEW t \in Threads, NEW q \in Queries, Call(t, q) PROVE TypeOK'
  BY <1>1 DEF TypeOK, Call, Goes, Steps, search
<1>2. ASSUME NEW t \in Threads, LoadFails(t) PROVE TypeOK'
  BY <1>2, BackendsAssumption DEF TypeOK, LoadFails, Goes, Steps, search
<1>3. CASE UNCHANGED vars
  BY <1>3 DEF TypeOK, vars, search
<1> QED
  BY <1>1, <1>2, <1>3, ContinueTypes DEF Next

\* No thread ever counts more upserts than the file has, and a search stays in the towers.
THEOREM TypeCorrect == Spec => []TypeOK
  BY TypesInit, TypesNext, PTL DEF Spec

-----------------------------------------------------------------------------
(* A search *)

\* What is asked for, in the graph of the file.
Near(t, k) == Within(FileEdges, query[t].tower, k)

(***************************************************************************)
(* A search expands nothing but what the file has within as many hops as   *)
(* it has done, whatever has been loaded.  If the graph was whole when it  *)
(* was taken it stays so, and nothing has been missed.                     *)
(***************************************************************************)
Sound(t) ==
    /\ hops[t] < query[t].hops
    /\ frontier[t] \subseteq Near(t, hops[t])
    /\ nextFrontier[t] \subseteq Near(t, hops[t] + 1)
    /\ visited[t] \subseteq Near(t, hops[t]) \union nextFrontier[t]

Thorough(t) ==
    /\ loaded[using[t]] = Total
    /\ using[t] # NoGraph
    /\ query[t].tower \in visited[t]
    /\ Near(t, hops[t]) \subseteq visited[t]
    /\ \A c \in Near(t, hops[t]) \ frontier[t] :
         Neighbors(FileEdges, c, "UPSTREAM_OF") \subseteq visited[t]

SearchInv(t) ==
    /\ pc[t] = "search" => Sound(t) /\ (whole[t] => Thorough(t))
    /\ pc[t] = "answered" =>
         /\ visited[t] \subseteq Near(t, query[t].hops)
         /\ whole[t] => Near(t, query[t].hops) \subseteq visited[t]

\* Past the check for None there is a graph.
GraphInv ==
    \A t \in Threads : pc[t] \in {"load", "upsert", "return", "search"} => shared # NoGraph

Inv == GraphInv /\ \A t \in Threads : SearchInv(t)

LEMMA GraphNext == TypeOK /\ GraphInv /\ [Next]_vars => GraphInv'
<1> SUFFICES ASSUME TypeOK, GraphInv, [Next]_vars PROVE GraphInv'
  OBVIOUS
<1>1. ASSUME NEW t \in Threads, NEW q \in Queries, Call(t, q) PROVE GraphInv'
  BY <1>1 DEF TypeOK, GraphInv, Call, Goes
<1>2. ASSUME NEW t \in Threads, Make(t) PROVE GraphInv'
  BY <1>2, GraphsAssumption DEF TypeOK, GraphInv, Make, Goes
<1>3. ASSUME NEW t \in Threads, StartLoad(t) \/ LoadEnds(t) \/ Unknown(t) \/ EndHop(t) \/ LoadFails(t) \/ Take(t)
      PROVE GraphInv'
  BY <1>3 DEF TypeOK, GraphInv, StartLoad, LoadEnds, Unknown, EndHop, LoadFails, Take, Goes
<1>4. ASSUME NEW t \in Threads, Upsert(t) \/ \E n \in Towers : Expand(t, n) PROVE GraphInv'
  BY <1>4 DEF GraphInv, Upsert, Expand
<1>5. CASE UNCHANGED vars
  BY <1>5 DEF GraphInv, vars
<1> QED
  BY <1>1, <1>2, <1>3, <1>4, <1>5 DEF Next, Continue

\* A graph that is whole stays whole.
LEMMA WholeStaysWhole ==
    ASSUME TypeOK, [Next]_vars, NEW g \in GraphIds, loaded[g] = Total
    PROVE  loaded'[g] = Total
<1>1. ASSUME NEW t \in Threads, Upsert(t) PROVE loaded'[g] = Total
  <2>1. upserts[t] < Total /\ upserts[t] \in Nat
    BY <1>1 DEF TypeOK, Upsert
  <2> QED
    BY <1>1, <2>1, TotalType DEF TypeOK, Upsert
<1>2. loaded' = loaded => loaded'[g] = Total
  OBVIOUS
<1> QED
  BY <1>1, <1>2 DEF Next, Continue, Call, Make, StartLoad, LoadEnds, LoadFails, Take, Unknown, EndHop, Expand, vars

\* Of a thread that does not move.
LEMMA OthersKeepSearching ==
    ASSUME TypeOK, [Next]_vars, NEW t \in Threads, SearchInv(t),
           pc'[t] = pc[t], query'[t] = query[t], using'[t] = using[t], whole'[t] = whole[t],
           visited'[t] = visited[t], frontier'[t] = frontier[t],
           nextFrontier'[t] = nextFrontier[t], hops'[t] = hops[t]
    PROVE  SearchInv(t)'
<1>1. \A k : Near(t, k)' = Near(t, k)
  BY DEF Near
<1>2. Sound(t) => Sound(t)'
  BY <1>1 DEF Sound
<1>3. Thorough(t) => Thorough(t)'
  <2>1. using[t] # NoGraph => using[t] \in GraphIds
    BY DEF TypeOK
  <2> QED
    BY <1>1, <2>1, WholeStaysWhole DEF Thorough
<1> QED
  BY <1>1, <1>2, <1>3 DEF SearchInv

LEMMA LoadedIsOfTheFile == \A g : LoadedEdges(g) \subseteq FileEdges
  BY DEF LoadedEdges, FileEdges

LEMMA WholeIsTheFile ==
    ASSUME NEW g, loaded[g] = Total
    PROVE  LoadedEdges(g) = FileEdges /\ \A e \in FileEdges : e[1] \in LoadedNodes(g)
<1>1. \A j \in DOMAIN Links : Len(Nodes) + j <= loaded[g]
  BY TotalType, FileAssumption DEF Total
<1>2. \A j \in DOMAIN Nodes : j <= loaded[g]
  BY TotalType, FileAssumption DEF Total
<1>3. LoadedEdges(g) = FileEdges
  BY <1>1 DEF LoadedEdges, FileEdges
<1>4. \A i \in DOMAIN Links : Links[i][1] \in LoadedNodes(g)
  BY <1>2, FileAssumption DEF LoadedNodes
<1> QED
  BY <1>3, <1>4 DEF FileEdges

\* What the file has around what is asked for.
LEMMA NearTypes ==
    ASSUME TypeOK, NEW t \in Threads
    PROVE  /\ query[t].tower \in Towers /\ query[t].hops \in Nat \ {0} /\ hops[t] \in Nat
           /\ Near(t, 0) = {query[t].tower}
           /\ \A k \in Nat :
                /\ Near(t, k) \subseteq Near(t, k + 1)
                /\ \A c \in Near(t, k) : Neighbors(FileEdges, c, "UPSTREAM_OF") \subseteq Near(t, k + 1)
                /\ \A b \in Near(t, k + 1) : \/ b \in Near(t, k)
                                             \/ \E c \in Near(t, k) : b \in Neighbors(FileEdges, c, "UPSTREAM_OF")
           /\ \A j, k \in Nat : j <= k => Near(t, j) \subseteq Near(t, k)
<1>1. query[t].tower \in Towers /\ query[t].hops \in Nat \ {0} /\ hops[t] \in Nat
  BY QueriesAssumption DEF TypeOK
<1> QED
  BY <1>1, WithinNone, WithinOneMore, WithinIsMonotone DEF Near

LEMMA TakeBeginsSearch ==
    ASSUME TypeOK, GraphInv, NEW t \in Threads, Take(t)
    PROVE  SearchInv(t)'
<1>1. /\ pc'[t] = "search" /\ query' = query /\ loaded' = loaded /\ using'[t] = shared /\ hops'[t] = 0
      /\ visited'[t] = {query[t].tower} /\ frontier'[t] = {query[t].tower} /\ nextFrontier'[t] = {}
      /\ whole'[t] = (loaded[shared] = Total) /\ shared # NoGraph
  BY DEF TypeOK, GraphInv, Take, Goes
<1>2. \A k : Near(t, k)' = Near(t, k)
  BY <1>1 DEF Near
<1>3. Near(t, 0) = {query[t].tower} /\ query[t].hops \in Nat \ {0}
  BY NearTypes
<1>4. Sound(t)'
  BY <1>1, <1>2, <1>3 DEF Sound
<1>5. whole'[t] => Thorough(t)'
  BY <1>1, <1>2, <1>3 DEF Thorough
<1> QED
  BY <1>1, <1>4, <1>5 DEF SearchInv

LEMMA ExpandKeepsSearching ==
    ASSUME TypeOK, NEW t \in Threads, SearchInv(t), NEW n \in Towers, Expand(t, n)
    PROVE  SearchInv(t)'
<1>1. /\ pc[t] = "search" /\ n \in frontier[t]
      /\ UNCHANGED <<pc, query, loaded, using, hops, whole>>
      /\ frontier'[t] = frontier[t] \ {n}
      /\ nextFrontier'[t] = nextFrontier[t] \union (Follows(t, n) \ visited[t])
      /\ visited'[t] = visited[t] \union Follows(t, n)
  BY DEF TypeOK, Expand
<1>2. \A k : Near(t, k)' = Near(t, k)
  BY <1>1 DEF Near
<1>3. Sound(t) /\ (whole[t] => Thorough(t))
  BY <1>1 DEF SearchInv
<1>4. Follows(t, n) \subseteq Neighbors(FileEdges, n, "UPSTREAM_OF")
  BY LoadedIsOfTheFile DEF Follows, Neighbors
<1>5. Follows(t, n) \subseteq Near(t, hops[t] + 1)
  BY <1>1, <1>3, <1>4, NearTypes DEF Sound
<1>6. Sound(t)'
  BY <1>1, <1>2, <1>3, <1>5 DEF Sound
<1>7. ASSUME whole[t] PROVE Thorough(t)'
  <2>1. Follows(t, n) = Neighbors(FileEdges, n, "UPSTREAM_OF")
    BY <1>3, <1>7, WholeIsTheFile DEF Thorough, Follows
  <2> QED
    BY <1>1, <1>2, <1>3, <1>7, <2>1 DEF Thorough
<1> QED
  BY <1>1, <1>6, <1>7 DEF SearchInv

LEMMA UnknownAnswers ==
    ASSUME TypeOK, NEW t \in Threads, SearchInv(t), Unknown(t)
    PROVE  SearchInv(t)'
<1> DEFINE tower == query[t].tower
<1>1. /\ pc[t] = "search" /\ hops[t] = 0 /\ tower \notin LoadedNodes(using[t])
      /\ UNCHANGED <<query, visited, whole>> /\ pc'[t] = "answered"
  BY DEF TypeOK, Unknown, Goes, search
<1>2. \A k : Near(t, k)' = Near(t, k)
  BY <1>1 DEF Near
<1>3. Sound(t) /\ (whole[t] => Thorough(t))
  BY <1>1 DEF SearchInv
<1>4. visited[t] \subseteq Near(t, query[t].hops)
  <2>1. Near(t, hops[t] + 1) \subseteq Near(t, query[t].hops) /\ Near(t, hops[t]) \subseteq Near(t, hops[t] + 1)
    BY <1>3, NearTypes DEF Sound
  <2> QED
    BY <1>3, <2>1 DEF Sound
<1>5. ASSUME whole[t] PROVE Near(t, query[t].hops) \subseteq visited[t]
  <2>1. Neighbors(FileEdges, tower, "UPSTREAM_OF") = {}
    BY <1>1, <1>3, <1>5, WholeIsTheFile DEF Thorough, Neighbors
  <2>2. Near(t, 0) = {tower} /\ tower \in Towers /\ query[t].hops \in Nat
    BY NearTypes
  <2>3. Closed(FileEdges, Near(t, 0))
    BY <2>1, <2>2 DEF Closed
  <2>4. Near(t, query[t].hops) = Near(t, 0)
    BY <2>2, <2>3, ClosedIsAll DEF Near
  <2> QED
    BY <1>3, <1>5, <2>2, <2>4 DEF Thorough
<1> QED
  BY <1>1, <1>2, <1>4, <1>5 DEF SearchInv

LEMMA EndHopKeepsSearching ==
    ASSUME TypeOK, NEW t \in Threads, SearchInv(t), EndHop(t)
    PROVE  SearchInv(t)'
<1> DEFINE h == hops[t]
<1>1. /\ pc[t] = "search" /\ frontier[t] = {} /\ hops'[t] = h + 1
      /\ frontier'[t] = nextFrontier[t] /\ nextFrontier'[t] = {}
      /\ UNCHANGED <<query, loaded, using, visited, whole>>
      /\ pc'[t] = IF nextFrontier[t] = {} \/ h + 1 = query[t].hops THEN "answered" ELSE "search"
  BY DEF TypeOK, EndHop, Goes
<1>2. \A k : Near(t, k)' = Near(t, k)
  BY <1>1 DEF Near
<1>3. Sound(t) /\ (whole[t] => Thorough(t))
  BY <1>1 DEF SearchInv
<1>t. h \in Nat /\ query[t].hops \in Nat /\ h + 1 <= query[t].hops /\ query[t].tower \in Towers
  BY <1>3, NearTypes DEF Sound
<1>4. visited[t] \subseteq Near(t, h + 1)
  BY <1>3, <1>t, NearTypes DEF Sound
<1>5. ASSUME whole[t]
      PROVE  /\ visited[t] = Near(t, h + 1)
             /\ \A c \in Near(t, h + 1) \ nextFrontier[t] : Neighbors(FileEdges, c, "UPSTREAM_OF") \subseteq visited[t]
  <2>1. \A c \in Near(t, h) : Neighbors(FileEdges, c, "UPSTREAM_OF") \subseteq visited[t]
    BY <1>1, <1>3, <1>5 DEF Thorough
  <2>2. Near(t, h + 1) \subseteq visited[t]
    BY <1>3, <1>5, <1>t, <2>1, NearTypes DEF Thorough
  <2> QED
    BY <1>3, <1>4, <2>1, <2>2 DEF Sound
<1>6. CASE pc'[t] = "search"
  <2>1. h + 1 # query[t].hops
    BY <1>1, <1>6
  <2>2. Sound(t)'
    BY <1>1, <1>2, <1>3, <1>4, <1>t, <2>1 DEF Sound
  <2>3. whole[t] => Thorough(t)'
    BY <1>1, <1>2, <1>3, <1>5 DEF Thorough
  <2> QED
    BY <1>1, <1>6, <2>2, <2>3 DEF SearchInv
<1>7. CASE pc'[t] = "answered"
  <2>1. visited[t] \subseteq Near(t, query[t].hops)
    <3>1. Near(t, h + 1) \subseteq Near(t, query[t].hops)
      BY <1>t, NearTypes
    <3> QED
      BY <1>4, <3>1
  <2>2. ASSUME whole[t] PROVE Near(t, query[t].hops) \subseteq visited[t]
    <3>1. CASE h + 1 = query[t].hops
      BY <1>5, <2>2, <3>1
    <3>2. CASE nextFrontier[t] = {}
      <4>1. Closed(FileEdges, Near(t, h + 1))
        BY <1>5, <2>2, <3>2 DEF Closed
      <4>2. Near(t, query[t].hops) = Near(t, h + 1)
        BY <1>t, <4>1, ClosedIsAll DEF Near
      <4> QED
        BY <1>5, <2>2, <4>2
    <3> QED
      BY <1>1, <1>7, <3>1, <3>2
  <2> QED
    BY <1>1, <1>2, <1>7, <2>1, <2>2 DEF SearchInv
<1> QED
  BY <1>1, <1>6, <1>7

LEMMA InvNext == TypeOK /\ Inv /\ [Next]_vars => Inv'
<1> SUFFICES ASSUME TypeOK, Inv, [Next]_vars PROVE Inv'
  OBVIOUS
<1>0. GraphInv'
  BY GraphNext DEF Inv
<1>1. ASSUME NEW t \in Threads PROVE SearchInv(t)'
  <2>s. SearchInv(t)
    BY DEF Inv
  <2>1. CASE Take(t)
    BY <2>1, TakeBeginsSearch DEF Inv
  <2>2. CASE \E n \in Towers : Expand(t, n)
    BY <2>2, <2>s, ExpandKeepsSearching
  <2>3. CASE Unknown(t)
    BY <2>3, <2>s, UnknownAnswers
  <2>4. CASE EndHop(t)
    BY <2>4, <2>s, EndHopKeepsSearching
  <2>5. CASE (\E q \in Queries : Call(t, q)) \/ Make(t) \/ StartLoad(t) \/ Upsert(t) \/ LoadEnds(t) \/ LoadFails(t)
    <3>1. pc'[t] \notin {"search", "answered"}
      BY <2>5 DEF TypeOK, Call, Make, StartLoad, Upsert, LoadEnds, LoadFails, Goes
    <3> QED
      BY <3>1 DEF SearchInv
  <2>6. ASSUME NEW u \in Threads \ {t},
               (\E q \in Queries : Call(u, q)) \/ Continue(u) \/ LoadFails(u)
        PROVE  SearchInv(t)'
    <3>1. /\ pc'[t] = pc[t] /\ query'[t] = query[t] /\ using'[t] = using[t] /\ whole'[t] = whole[t]
          /\ visited'[t] = visited[t] /\ frontier'[t] = frontier[t]
          /\ nextFrontier'[t] = nextFrontier[t] /\ hops'[t] = hops[t]
      BY <2>6 DEF TypeOK, Continue, Call, Make, StartLoad, Upsert, LoadEnds, LoadFails, Take, Unknown, EndHop,
         Expand, Goes, search
    <3> QED
      BY <2>s, <3>1, OthersKeepSearching
  <2>7. CASE UNCHANGED vars
    <3>1. UNCHANGED <<pc, query, using, whole, visited, frontier, nextFrontier, hops>>
      BY <2>7 DEF vars, search
    <3> QED
      BY <2>s, <3>1, OthersKeepSearching
  <2> QED
    BY <2>1, <2>2, <2>3, <2>4, <2>5, <2>6, <2>7 DEF Next, Continue
<1> QED
  BY <1>0, <1>1 DEF Inv

LEMMA Invariant == Spec => [](TypeOK /\ Inv)
<1>1. Init => Inv
  BY DEF Init, Inv, GraphInv, SearchInv
<1> QED
  BY <1>1, TypesInit, TypesNext, InvNext, PTL DEF Spec

(***************************************************************************)
(* However many threads load and replace the graph while it runs, a search *)
(* names no tower that does not depend on the one asked about.             *)
(***************************************************************************)
THEOREM NothingIsInvented == Spec => []NeverInvents
<1>1. TypeOK /\ Inv => NeverInvents
  <2> SUFFICES ASSUME TypeOK, Inv, NEW t \in Threads, pc[t] = "answered"
               PROVE  Answer(t) \subseteq Right(t)
    BY DEF NeverInvents
  <2>1. Right(t) = Near(t, query[t].hops) \ {query[t].tower}
    BY NearTypes, DependentsAreWithin DEF Right, Near
  <2> QED
    BY <2>1 DEF Inv, SearchInv, Answer
<1> QED
  BY <1>1, Invariant, PTL

(***************************************************************************)
(* A search that was handed a complete graph is exact: nothing that other  *)
(* threads do afterwards takes anything out of the graph it holds.         *)
(***************************************************************************)
THEOREM WholeGraphsAnswerExactly == Spec => []ExactWhenWhole
<1>1. TypeOK /\ Inv => ExactWhenWhole
  <2> SUFFICES ASSUME TypeOK, Inv, NEW t \in Threads, pc[t] = "answered", whole[t]
               PROVE  Answer(t) = Right(t)
    BY DEF ExactWhenWhole
  <2>1. Right(t) = Near(t, query[t].hops) \ {query[t].tower}
    BY NearTypes, DependentsAreWithin DEF Right, Near
  <2> QED
    BY <2>1 DEF Inv, SearchInv, Answer
<1> QED
  BY <1>1, Invariant, PTL

-----------------------------------------------------------------------------
(* Loading *)

\* A load that is under way has put into its graph what it has counted.
CountsInv ==
    \A t \in Threads :
        pc[t] = "upsert" => using[t] \in GraphIds /\ upserts[t] <= loaded[using[t]]

LoadInv == GraphInv /\ CountsInv /\ LeftIncompleteByFailureOnly

LEMMA CountsNext == TypeOK /\ GraphInv /\ CountsInv /\ [Next]_vars => CountsInv'
<1> SUFFICES ASSUME TypeOK, GraphInv, CountsInv, [Next]_vars PROVE CountsInv'
  OBVIOUS
<1>1. ASSUME NEW t \in Threads, NEW q \in Queries, Call(t, q) PROVE CountsInv'
  BY <1>1 DEF TypeOK, CountsInv, Call, Goes
<1>2. ASSUME NEW t \in Threads, Make(t) PROVE CountsInv'
  BY <1>2 DEF TypeOK, CountsInv, Make, Goes
<1>3. ASSUME NEW t \in Threads, StartLoad(t) PROVE CountsInv'
  BY <1>3, TotalType DEF TypeOK, GraphInv, CountsInv, StartLoad, Goes
<1>4. ASSUME NEW t \in Threads, Upsert(t) PROVE CountsInv'
  <2>1. UNCHANGED <<pc, using>> /\ using[t] \in GraphIds /\ upserts[t] \in Nat
    BY <1>4 DEF TypeOK, CountsInv, Upsert
  <2>2. \A g \in GraphIds : loaded[g] <= loaded'[g]
    BY <1>4, <2>1, TotalType DEF TypeOK, Upsert
  <2>3. upserts'[t] <= loaded'[using[t]]
    BY <1>4, <2>1, TotalType DEF TypeOK, Upsert
  <2>4. ASSUME NEW u \in Threads, u # t, pc[u] = "upsert"
        PROVE  upserts'[u] <= loaded'[using[u]]
    <3>1. using[u] \in GraphIds /\ upserts[u] <= loaded[using[u]] /\ upserts'[u] = upserts[u]
      BY <1>4, <2>4 DEF TypeOK, CountsInv, Upsert
    <3>2. loaded[using[u]] \in Nat /\ loaded'[using[u]] \in Nat /\ upserts[u] \in Nat
      BY <3>1, TypesNext, TotalType DEF TypeOK
    <3> QED
      BY <2>2, <3>1, <3>2
  <2> QED
    BY <2>1, <2>3, <2>4 DEF CountsInv
<1>5. ASSUME NEW t \in Threads, LoadEnds(t) \/ LoadFails(t) \/ Take(t) \/ Unknown(t) \/ EndHop(t)
      PROVE  CountsInv'
  BY <1>5 DEF TypeOK, CountsInv, LoadEnds, LoadFails, Take, Unknown, EndHop, Goes
<1>6. ASSUME NEW t \in Threads, NEW n \in Towers, Expand(t, n) PROVE CountsInv'
  BY <1>6 DEF CountsInv, Expand
<1>7. CASE UNCHANGED vars
  BY <1>7 DEF CountsInv, vars
<1> QED
  BY <1>1, <1>2, <1>3, <1>4, <1>5, <1>6, <1>7 DEF Next, Continue

LEMMA LoadInvNext == TypeOK /\ LoadInv /\ [Next]_vars => LoadInv'
<1> SUFFICES ASSUME TypeOK, LoadInv, [Next]_vars PROVE LeftIncompleteByFailureOnly'
  BY GraphNext, CountsNext DEF LoadInv
<1>0. failures \in Nat
  BY BackendsAssumption DEF TypeOK
<1> USE <1>0 DEF LoadInv, LeftIncompleteByFailureOnly, BeingLoaded
<1>1. ASSUME NEW t \in Threads, NEW q \in Queries, Call(t, q) PROVE LeftIncompleteByFailureOnly'
  BY <1>1 DEF TypeOK, Call, Goes
<1>2. ASSUME NEW t \in Threads, Make(t) PROVE LeftIncompleteByFailureOnly'
  BY <1>2 DEF TypeOK, Make, Goes
<1>3. ASSUME NEW t \in Threads, StartLoad(t) PROVE LeftIncompleteByFailureOnly'
  BY <1>3 DEF TypeOK, StartLoad, Goes
<1>4. ASSUME NEW t \in Threads, Upsert(t) PROVE LeftIncompleteByFailureOnly'
  <2>1. UNCHANGED <<shared, pc, using, failures>>
    BY <1>4 DEF Upsert
  <2>2. shared # NoGraph /\ loaded[shared] = Total => loaded'[shared] = Total
    BY WholeStaysWhole DEF TypeOK
  <2> QED
    BY <2>1, <2>2
<1>5. ASSUME NEW t \in Threads, LoadEnds(t) PROVE LeftIncompleteByFailureOnly'
  <2>1. loaded[using[t]] = Total
    BY <1>5, TotalType DEF TypeOK, CountsInv, LoadEnds
  <2> QED
    BY <1>5, <2>1 DEF TypeOK, LoadEnds, Goes
<1>6. ASSUME NEW t \in Threads, LoadFails(t) PROVE LeftIncompleteByFailureOnly'
  BY <1>6 DEF LoadFails
<1>7. ASSUME NEW t \in Threads, Take(t) \/ Unknown(t) \/ EndHop(t) PROVE LeftIncompleteByFailureOnly'
  BY <1>7 DEF TypeOK, Take, Unknown, EndHop, Goes
<1>8. ASSUME NEW t \in Threads, NEW n \in Towers, Expand(t, n) PROVE LeftIncompleteByFailureOnly'
  BY <1>8 DEF Expand
<1>9. CASE UNCHANGED vars
  BY <1>9 DEF vars
<1> QED
  BY <1>1, <1>2, <1>3, <1>4, <1>5, <1>6, <1>7, <1>8, <1>9 DEF Next, Continue

(***************************************************************************)
(* Unless a load has failed, a shared graph that is not complete has a     *)
(* thread that is completing it, however often it has been replaced.       *)
(***************************************************************************)
THEOREM IncompleteGraphsAreLoaded == Spec => []LeftIncompleteByFailureOnly
<1>1. Init => LoadInv
  BY DEF Init, LoadInv, GraphInv, CountsInv, LeftIncompleteByFailureOnly
<1>2. LoadInv => LeftIncompleteByFailureOnly
  BY DEF LoadInv
<1> QED
  BY <1>1, <1>2, TypesInit, TypesNext, LoadInvNext, PTL DEF Spec

===============================================================================
