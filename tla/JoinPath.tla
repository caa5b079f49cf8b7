------------------------------ MODULE JoinPath ------------------------------
(***************************************************************************)
(* The join optimizer: the graph of the joinable tables                    *)
(* (src/optimizer/Graph.cpp), Kruskal's algorithm on a union-find and the  *)
(* walk that turns the spanning tree into the order in which the tables    *)
(* are joined (src/optimizer/MST.cpp).                                     *)
(*                                                                         *)
(* A caller makes a graph, adds to it through addNode and addEdge, has the *)
(* tree computed and the path built; every JOIN query has a graph of its   *)
(* own.  Table names and join conditions are left out.  An access beyond   *)
(* an array is a control state of its own, "undefined", after which        *)
(* nothing is said.                                                        *)
(***************************************************************************)
EXTENDS Integers, FiniteSetsExt, SequencesExt

CONSTANTS
  Sizes,    \* the values of maxNodes graphs are made with
  Ids,      \* the node ids callers use
  Weights,  \* the weights callers use
  MaxCalls  \* the calls of addNode and addEdge after the constructor

ASSUME JoinAssumption == Sizes \subseteq Nat /\ Ids \subseteq Int /\ Weights \subseteq Int

VARIABLES
  graph,   \* maxNodes_, nodeCount_ and edgeList_
  calls,   \* the calls made on it so far
  pc,      \* where the caller is
  sorted,  \* sortedEdges
  turn,    \* i in the loop of computeMST, from 1
  uf,      \* parent_ and rank_
  chosen,  \* mst
  path     \* path; the last element is current, the others are visited

joinVars == << graph, calls, pc, sorted, turn, uf, chosen, path >>

(***************************************************************************)
(* Graph.                                                                  *)
(***************************************************************************)
Ends(e) == {e.src, e.dst}

NodesOf(g) == 0 .. g.nodeCount - 1

WithNode(g, id) ==
  IF id \in 0 .. g.maxNodes - 1 /\ id >= g.nodeCount
  THEN [g EXCEPT !.nodeCount = id + 1] ELSE g

\* An edge that is there already, either way round, only changes its weight.
WithEdge(g, s, d, w) ==
  LET same == {i \in DOMAIN g.edges : Ends(g.edges[i]) = {s, d}}
      heavier(i) == [g.edges[i] EXCEPT !.weight = w]
      full == Len(g.edges) >= (g.maxNodes * (g.maxNodes - 1)) \div 2
  IN  IF ~ {s, d} \subseteq 0 .. g.maxNodes - 1 THEN g
      ELSE IF same # {}
           THEN [g EXCEPT !.edges = [i \in DOMAIN g.edges |->
                                       IF i \in same THEN heavier(i) ELSE g.edges[i]]]
      ELSE IF full THEN g
      ELSE [g EXCEPT !.edges = Append(@, [src |-> s, dst |-> d, weight |-> w])]

\* The constructor, with registerDefaultEdges: customer, orders and lineitem.
NewGraph(size) ==
  LET g == [maxNodes |-> size, nodeCount |-> 0, edges |-> << >>]
      nodes == WithNode(WithNode(WithNode(g, 0), 1), 2)
  IN  WithEdge(WithEdge(WithEdge(nodes, 0, 1, 2), 1, 2, 3), 0, 2, 8)

(***************************************************************************)
(* UnionFind.                                                              *)
(***************************************************************************)
NewUnionFind(n) == [parent |-> [x \in 0 .. n - 1 |-> x], rank |-> [x \in 0 .. n - 1 |-> 0]]

Root(u, x) ==
  LET up[y \in DOMAIN u.parent] == IF u.parent[y] = y THEN y ELSE up[u.parent[y]]
  IN  up[x]

\* What find leaves behind: the ids on its way from x point to the root.
Found(u, x) ==
  LET way[y \in DOMAIN u.parent] ==
        IF u.parent[y] = y THEN {y} ELSE {y} \union way[u.parent[y]]
      passed == way[x]
      root == Root(u, x)
  IN  [u EXCEPT !.parent = [y \in DOMAIN u.parent |-> IF y \in passed THEN root ELSE u.parent[y]]]

\* Mutation: the element is linked instead of its root.
United_NotRoots(u, x, y) == [u EXCEPT !.parent[y] = Root(u, x)]

United(u, x, y) ==
  LET rx == Root(u, x)
      ry == Root(u, y)
  IN  CASE u.rank[rx] < u.rank[ry] -> [u EXCEPT !.parent[rx] = ry]
        [] u.rank[rx] > u.rank[ry] -> [u EXCEPT !.parent[ry] = rx]
        [] OTHER -> [u EXCEPT !.parent[ry] = rx, !.rank[rx] = @ + 1]

(***************************************************************************)
(* MSTOptimizer.                                                           *)
(***************************************************************************)
\* Mutation: the heaviest first.
Behind_Descending(e, i, f, j) == f.weight > e.weight \/ (f.weight = e.weight /\ j <= i)

\* What insertionSort puts before edge e, the i-th: edge f, the j-th, if it
\* weighs less, or as much and was before it.
Behind(e, i, f, j) == f.weight < e.weight \/ (f.weight = e.weight /\ j <= i)

InsertionSort(edges) ==
  LET place(i) == Cardinality({j \in DOMAIN edges : Behind(edges[i], i, edges[j], j)})
  IN  [k \in DOMAIN edges |-> edges[CHOOSE i \in DOMAIN edges : place(i) = k]]

\* Mutation: nodes = edgeCount.
Places_OffByOne == 0 .. Len(chosen) - 1

\* The places of the arrays of buildJoinPath: one more than there are edges.
Places == 0 .. Len(chosen)

\* The edges in adj[u], as their places in the tree; adj[u] has them in that order.
EdgesAt(u) == {i \in DOMAIN chosen : u \in Ends(chosen[i])}

Degree(u) == Cardinality(EdgesAt(u))

OtherEnd(e, u) == IF e.src = u THEN e.dst ELSE e.src

\* Mutation: the walk starts at node 0.
Start_First == 0

\* The first node with one neighbour, or node 0.
Start ==
  LET leaves == {u \in Places : Degree(u) = 1}
  IN  IF leaves = {} THEN 0 ELSE Min(leaves)

\* The edges in adj[u] to nodes not visited yet.
Unvisited(u) == {i \in EdgesAt(u) : OtherEnd(chosen[i], u) \notin ToSet(path)}

(***************************************************************************)
(* The steps of a caller.                                                  *)
(***************************************************************************)
JoinInit ==
  /\ \E size \in Sizes : graph = NewGraph(size)
  /\ calls = 0
  /\ pc = "building"
  /\ sorted = << >>
  /\ turn = 1
  /\ uf = NewUnionFind(0)
  /\ chosen = << >>
  /\ path = << >>

Call(g) ==
  /\ pc = "building"
  /\ calls < MaxCalls
  /\ calls' = calls + 1
  /\ graph' = g
  /\ UNCHANGED << pc, sorted, turn, uf, chosen, path >>

AddNode(id) == Call(WithNode(graph, id))

AddEdge(s, d, w) == Call(WithEdge(graph, s, d, w))

\* computeMST up to its loop.
Sort ==
  /\ pc = "building"
  /\ sorted' = InsertionSort(graph.edges)
  /\ turn' = 1
  /\ uf' = NewUnionFind(graph.nodeCount)
  /\ pc' = IF graph.edges = << >> \/ graph.nodeCount = 0 THEN "done" ELSE "choosing"
  /\ UNCHANGED << graph, calls, chosen, path >>

MoreEdges == turn <= Len(sorted) /\ Len(chosen) < graph.nodeCount - 1

\* One round of the loop, for an edge the union-find has both ends of.
Choose ==
  /\ pc = "choosing"
  /\ MoreEdges
  /\ Ends(sorted[turn]) \subseteq NodesOf(graph)
  /\ LET e == sorted[turn]
         u == Found(Found(uf, e.src), e.dst)
         joined == Root(u, e.src) = Root(u, e.dst)
     IN  /\ uf' = IF joined THEN u ELSE United(u, e.src, e.dst)
         /\ chosen' = IF joined THEN chosen ELSE Append(chosen, e)
  /\ turn' = turn + 1
  /\ UNCHANGED << graph, calls, pc, sorted, path >>

\* find is called with an id beyond parent_.
ChooseUnknown ==
  /\ pc = "choosing"
  /\ MoreEdges
  /\ ~ Ends(sorted[turn]) \subseteq NodesOf(graph)
  /\ pc' = "undefined"
  /\ UNCHANGED << graph, calls, sorted, turn, uf, chosen, path >>

\* buildJoinPath up to its loop; a table of the tree may have no place in it.
StartWalk ==
  /\ pc = "choosing"
  /\ ~ MoreEdges
  /\ IF \E i \in DOMAIN chosen : ~ Ends(chosen[i]) \subseteq Places
     THEN pc' = "undefined" /\ path' = path
     ELSE IF chosen = << >> THEN pc' = "done" /\ path' = path
     ELSE pc' = "walking" /\ path' = << Start >>
  /\ UNCHANGED << graph, calls, sorted, turn, uf, chosen >>

\* One round of the loop: on to the first neighbour not visited yet.
Walk ==
  /\ pc = "walking"
  /\ Len(path) < Len(chosen) + 1
  /\ Unvisited(Last(path)) # {}
  /\ path' = Append(path, OtherEnd(chosen[Min(Unvisited(Last(path)))], Last(path)))
  /\ UNCHANGED << graph, calls, pc, sorted, turn, uf, chosen >>

\* A round at a node that has none, while there are nodes left: nothing happens.
Spin ==
  /\ pc = "walking"
  /\ Len(path) < Len(chosen) + 1
  /\ Unvisited(Last(path)) = {}
  /\ UNCHANGED joinVars

EndWalk ==
  /\ pc = "walking"
  /\ Len(path) = Len(chosen) + 1
  /\ pc' = "done"
  /\ UNCHANGED << graph, calls, sorted, turn, uf, chosen, path >>

\* The tree and the path are deleted; the next query makes its own graph.
Release ==
  /\ pc = "done"
  /\ graph' = NewGraph(graph.maxNodes)
  /\ calls' = 0
  /\ pc' = "building"
  /\ sorted' = << >>
  /\ turn' = 1
  /\ uf' = NewUnionFind(0)
  /\ chosen' = << >>
  /\ path' = << >>

Undefined == pc = "undefined" /\ UNCHANGED joinVars

Running == Sort \/ Choose \/ ChooseUnknown \/ StartWalk \/ Walk \/ Spin \/ EndWalk

JoinNext ==
  \/ \E id \in Ids : AddNode(id)
  \/ \E s, d \in Ids, w \in Weights : AddEdge(s, d, w)
  \/ Running
  \/ Release
  \/ Undefined

\* The process is single-threaded: a query that runs goes on running.
JoinSpec == JoinInit /\ [][JoinNext]_joinVars /\ WF_joinVars(Running)

(***************************************************************************)
(* Reference definitions.                                                  *)
(***************************************************************************)
\* The edges of E join x and y, of the nodes in V: no part of V has x but not y
\* and of every edge both ends or none.
Joined(V, E, x, y) ==
  \A S \in SUBSET V : x \in S /\ (\A e \in E : e.src \in S <=> e.dst \in S) => y \in S

Registered == \A i \in DOMAIN graph.edges : Ends(graph.edges[i]) \subseteq NodesOf(graph)

Connected == \A x, y \in NodesOf(graph) : Joined(NodesOf(graph), ToSet(graph.edges), x, y)

ChosenIsPath == \A u \in 0 .. graph.maxNodes - 1 : Degree(u) <= 2

(***************************************************************************)
(* Properties.                                                             *)
(***************************************************************************)
\* Whatever path compression did to the pointers, the union-find tells apart
\* exactly the tables that the edges chosen so far do not join, and the edges
\* chosen never close a circle.
ForestIsUnionFind ==
  pc = "choosing" =>
    LET V == NodesOf(graph)
        T == ToSet(chosen)
    IN  /\ \A x, y \in V : Root(uf, x) = Root(uf, y) <=> Joined(V, T, x, y)
        /\ Cardinality({{y \in V : Joined(V, T, x, y)} : x \in V}) = graph.nodeCount - Len(chosen)

\* The tree a path is built from joins all that the graph joins, and for no edge
\* of the graph is there a heavier one on the way between its ends in the tree:
\* no other tree joins as much for less.
MinimalTree ==
  pc = "walking" /\ Registered =>
    \A e \in ToSet(graph.edges) :
      Joined(NodesOf(graph), {c \in ToSet(chosen) : c.weight <= e.weight}, e.src, e.dst)

\* Every index stays within its array, those of computeMST and those of
\* buildJoinPath, if every table of an edge was added and the graph is connected;
\* what is written fits in any case.
InBounds ==
  /\ pc = "undefined" => ~ (Registered /\ Connected)
  /\ Len(graph.edges) <= (graph.maxNodes * (graph.maxNodes - 1)) \div 2
  /\ graph.nodeCount > 0 => Len(chosen) <= graph.nodeCount - 1
  /\ pc = "walking" => path \in Seq(Places) /\ Len(path) <= Len(chosen) + 1

\* The loop that builds the path ends if the tree is a path, as that of the
\* three default tables is; at a table joined to three others it never ends.
WalkEndsOnPaths ==
  /\ pc = "walking" /\ ChosenIsPath ~> pc = "done"
  /\ [](pc = "walking" /\ ~ ChosenIsPath => [](pc = "walking"))
=============================================================================
