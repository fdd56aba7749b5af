-------------------------------- MODULE Dag --------------------------------
(***************************************************************************)
(* The dependency graph (common/dag): detection of cycles by a depth-first *)
(* search, Kahn's topological sort and the grouping into levels.           *)
(*                                                                         *)
(* Go iterates over a map in any order, and callers add edges in the order *)
(* their users wrote them, so every choice of a vertex or an edge is       *)
(* arbitrary here.  An edge goes from a vertex to one it depends on.       *)
(***************************************************************************)
EXTENDS Naturals, SequencesExt

VARIABLES
  phase,      \* what is being done
  edges,      \* Graph.Vertices: the edges of each vertex
  visitState, \* of each vertex
  parent,     \* from which vertex each was visited
  stack,      \* the calls of detectCycle: a vertex and its edges left
  cyclePath,  \* the cycle found
  inDegree,   \* edges into each vertex that are not worked off
  queue,      \* vertices that may follow
  sorted,     \* SortedOrder
  remaining,  \* vertices without a level
  levels      \* ParallelLevels

search == <<visitState, parent, stack, cyclePath>>
order == <<inDegree, queue, sorted>>
grouping == <<remaining, levels>>

Vertices == DOMAIN edges

InDegree(of) == [v \in of |-> Cardinality({u \in of : v \in edges[u]})]

\* NewGraph, AddVertex and AddEdge: a vertex is added once, an edge once and only
\* between vertices.
Graph(vertices, dependsOn) == [v \in vertices |-> dependsOn[v] \intersect vertices]

NewSearch ==
  /\ visitState = [v \in Vertices |-> "unvisited"]
  /\ parent = [v \in Vertices |-> v]
  /\ stack = <<>>
  /\ cyclePath = <<>>
  /\ inDegree = [v \in Vertices |-> 0]
  /\ queue = <<>>
  /\ sorted = <<>>
  /\ remaining = {}
  /\ levels = <<>>

-----------------------------------------------------------------------------
\* detectCycleWithPath.

Visit(v) ==
  /\ visitState' = [visitState EXCEPT ![v] = "visiting"]
  /\ stack' = Append(stack, [vertex |-> v, left |-> edges[v]])

\* The search begins anew from a vertex it has not reached.
Root(v) ==
  /\ phase = "detect" /\ stack = <<>>
  /\ visitState[v] = "unvisited"
  /\ Visit(v)
  /\ UNCHANGED <<phase, edges, parent, cyclePath, order, grouping>>

\* The path from the vertex v back to n, along parent.
PathTo(v, n) ==
  LET back[k \in 0..Cardinality(Vertices)] == IF k = 0 THEN v ELSE parent[back[k - 1]]
      k == CHOOSE k \in DOMAIN back : back[k] = n /\ \A j \in 0..k - 1 : back[j] # n
  IN  Reverse(<<n>> \o [i \in 1..k |-> back[i - 1]] \o <<n>>)

\* Mutant: a vertex that was reached is taken for one on the current path.
Descend_Reached ==
  /\ phase = "detect" /\ stack # <<>>
  /\ \E n \in Last(stack).left :
       LET v == Last(stack).vertex
           rest == [stack EXCEPT ![Len(stack)].left = @ \ {n}]
       IN  CASE visitState[n] # "unvisited" ->
                  /\ cyclePath' = <<n, v, n>>
                  /\ phase' = "cycle"
                  /\ UNCHANGED <<visitState, parent, stack>>
             [] visitState[n] = "unvisited" ->
                  /\ parent' = [parent EXCEPT ![n] = v]
                  /\ visitState' = [visitState EXCEPT ![n] = "visiting"]
                  /\ stack' = Append(rest, [vertex |-> n, left |-> edges[n]])
                  /\ UNCHANGED <<phase, cyclePath>>
  /\ UNCHANGED <<edges, order, grouping>>

\* detectCycle looks at a neighbour: one on the current path closes a cycle, one
\* it has not reached is visited.
Descend ==
  /\ phase = "detect" /\ stack # <<>>
  /\ \E n \in Last(stack).left :
       LET v == Last(stack).vertex
           rest == [stack EXCEPT ![Len(stack)].left = @ \ {n}]
       IN  CASE visitState[n] = "visiting" ->
                  /\ cyclePath' = PathTo(v, n)
                  /\ phase' = "cycle"
                  /\ UNCHANGED <<visitState, parent, stack>>
             [] visitState[n] = "unvisited" ->
                  /\ parent' = [parent EXCEPT ![n] = v]
                  /\ visitState' = [visitState EXCEPT ![n] = "visiting"]
                  /\ stack' = Append(rest, [vertex |-> n, left |-> edges[n]])
                  /\ UNCHANGED <<phase, cyclePath>>
             [] visitState[n] = "visited" ->
                  /\ stack' = rest
                  /\ UNCHANGED <<phase, visitState, parent, cyclePath>>
  /\ UNCHANGED <<edges, order, grouping>>

\* ... and returns.
Ascend ==
  /\ phase = "detect" /\ stack # <<>>
  /\ Last(stack).left = {}
  /\ visitState' = [visitState EXCEPT ![Last(stack).vertex] = "visited"]
  /\ stack' = Front(stack)
  /\ UNCHANGED <<phase, edges, parent, cyclePath, order, grouping>>

-----------------------------------------------------------------------------
\* TopologicalSort.

\* There is no cycle: the vertices nobody depends on are enqueued.
BeginSort ==
  /\ phase = "detect" /\ stack = <<>>
  /\ \A v \in Vertices : visitState[v] = "visited"
  /\ phase' = "sort"
  /\ inDegree' = InDegree(Vertices)
  /\ queue' \in SetToSeqs({v \in Vertices : inDegree'[v] = 0})
  /\ UNCHANGED <<edges, search, sorted, grouping>>

\* A vertex is dequeued, and what nothing else holds back is enqueued.
Dequeue ==
  /\ phase = "sort" /\ queue # <<>>
  /\ LET u == Head(queue)
     IN  /\ sorted' = Append(sorted, u)
         /\ inDegree' = [v \in Vertices |-> IF v \in edges[u] THEN inDegree[v] - 1 ELSE inDegree[v]]
         /\ \E next \in SetToSeqs({v \in edges[u] : inDegree'[v] = 0}) :
              queue' = Tail(queue) \o next
  /\ UNCHANGED <<phase, edges, search, grouping>>

\* All is sorted; ParallelTopologicalSort goes on to the levels.
EndSort(parallel) ==
  /\ phase = "sort" /\ queue = <<>>
  /\ phase' = CASE Len(sorted) # Cardinality(Vertices) -> "cycle"
                [] Len(sorted) = Cardinality(Vertices) /\ parallel -> "level"
                [] OTHER -> "sorted"
  /\ inDegree' = InDegree(Range(sorted))
  /\ remaining' = Range(sorted)
  /\ UNCHANGED <<edges, search, queue, sorted, levels>>

-----------------------------------------------------------------------------
\* ParallelTopologicalSort.

\* The next level: what nothing that remains depends on.  An empty level would be
\* a cycle.
Level ==
  /\ phase = "level" /\ remaining # {}
  /\ LET current == {v \in remaining : inDegree[v] = 0}
     IN  /\ phase' = IF current = {} THEN "cycle" ELSE "level"
         /\ levels' = Append(levels, current)
         /\ remaining' = remaining \ current
         /\ inDegree' = [v \in Vertices |->
                           IF v \in remaining'
                           THEN inDegree[v] - Cardinality({u \in current : v \in edges[u]})
                           ELSE inDegree[v]]
  /\ UNCHANGED <<edges, search, queue, sorted>>

EndLevels ==
  /\ phase = "level" /\ remaining = {}
  /\ phase' = "sorted"
  /\ UNCHANGED <<edges, search, order, grouping>>

SortStep(parallel) ==
  \/ \E v \in Vertices : Root(v)
  \/ Descend \/ Ascend \/ BeginSort \/ Dequeue \/ EndSort(parallel) \/ Level \/ EndLevels

-----------------------------------------------------------------------------
\* Reference definitions.

\* The vertices that v depends on, directly or not: they are in every set that has
\* what v depends on, and with a vertex what that depends on.
Closed(set) == \A v \in set : edges[v] \subseteq set

Reaches(v) ==
  {u \in Vertices : \A set \in SUBSET Vertices : edges[v] \subseteq set /\ Closed(set) => u \in set}

Cyclic == \E v \in Vertices : v \in Reaches(v)

IndexIn(v) == CHOOSE i \in DOMAIN sorted : sorted[i] = v
LevelOf(v) == CHOOSE i \in DOMAIN levels : v \in levels[i]
=============================================================================
