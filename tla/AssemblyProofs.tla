--------------------------- MODULE AssemblyProofs ---------------------------
(***************************************************************************)
(* The dependency graph and its two users, for every graph.  The search    *)
(* for a cycle finds one exactly if there is one, the sort and the levels  *)
(* put dependencies last, and so assemblies are called, and plans made,    *)
(* after what they depend on.                                              *)
(***************************************************************************)
EXTENDS Assembly, FiniteSetTheorems, WellFoundedInduction, TLAPS

-----------------------------------------------------------------------------
\* Numbers.  What the induction theorems would give is drawn from a least
\* counterexample instead.

LEMMA Least ==
  ASSUME NEW S, S \subseteq Nat, S # {}
  PROVE  \E n \in S : \A m \in S : n <= m
<1>1. PICK n \in S : \A m \in S : <<m, n>> \notin OpToRel(<, Nat)
  BY NatLessThanWellFounded, WFMin, Zenon
<1>2. \A m \in S : ~(m < n)
  BY <1>1, Zenon DEF OpToRel
<1>3. n \in S /\ n \in Nat /\ \A m \in S : m \in Nat
  OBVIOUS
<1> HIDE <1>1
<1> QED
  BY <1>2, <1>3

LEMMA Greatest ==
  ASSUME NEW n \in Nat, NEW S, S \subseteq 1..n, S # {}
  PROVE  \E i \in S : \A j \in S : j <= i
<1> DEFINE T == {n - i : i \in S}
<1>1. T \subseteq Nat /\ T # {}
  OBVIOUS
<1>2. PICK t \in T : \A u \in T : t <= u
  BY <1>1, Least
<1>3. PICK i \in S : t = n - i
  OBVIOUS
<1>4. \A j \in S : n - i <= n - j
  BY <1>2, <1>3
<1> QED
  BY <1>3, <1>4

-----------------------------------------------------------------------------
\* Graphs.

GraphOK ==
  /\ IsFiniteSet(Vertices)
  /\ \A v \in Vertices : edges[v] \subseteq Vertices

\* Reaches is the least set that has the edges of v and is closed.
LEMMA ReachesClosed ==
  ASSUME GraphOK, NEW v \in Vertices
  PROVE  /\ edges[v] \subseteq Reaches(v) /\ Reaches(v) \subseteq Vertices
         /\ Closed(Reaches(v))
         /\ \A u \in Reaches(v) : Reaches(u) \subseteq Reaches(v)
<1>1. edges[v] \subseteq Reaches(v) /\ Reaches(v) \subseteq Vertices
  BY DEF Reaches, GraphOK
<1>2. Closed(Reaches(v))
  <2> SUFFICES ASSUME NEW u \in Reaches(v), NEW w \in edges[u]
               PROVE  w \in Reaches(v)
    BY DEF Closed
  <2>1. u \in Vertices /\ w \in Vertices
    BY DEF Reaches, GraphOK
  <2>2. ASSUME NEW set \in SUBSET Vertices, edges[v] \subseteq set, Closed(set)
        PROVE  w \in set
    BY <2>2 DEF Reaches, Closed
  <2> QED
    BY <2>1, <2>2 DEF Reaches
<1>3. ASSUME NEW u \in Reaches(v)
      PROVE  Reaches(u) \subseteq Reaches(v)
  <2>1. u \in Vertices /\ edges[u] \subseteq Reaches(v)
    BY <1>1, <1>2 DEF Closed
  <2> QED
    BY <1>1, <1>2, <2>1 DEF Reaches
<1> QED
  BY <1>1, <1>2, <1>3

LEMMA ReachesLeast ==
  ASSUME NEW v, NEW set \in SUBSET Vertices, edges[v] \subseteq set, Closed(set)
  PROVE  Reaches(v) \subseteq set
  BY DEF Reaches

\* In a graph without a cycle, some vertex of each set has no edge from the set: one
\* that is reached from the fewest.
LEMMA HasSource ==
  ASSUME GraphOK, ~Cyclic, NEW S \in SUBSET Vertices, S # {}
  PROVE  \E v \in S : \A u \in S : v \notin edges[u]
<1> DEFINE Above(v) == {u \in S : v \in Reaches(u)}
           Counts == {Cardinality(Above(v)) : v \in S}
<1>1. ASSUME NEW v \in S
      PROVE  IsFiniteSet(Above(v)) /\ Cardinality(Above(v)) \in Nat
  <2>1. IsFiniteSet(S) /\ Above(v) \in SUBSET S
    BY FS_Subset DEF GraphOK
  <2>2. IsFiniteSet(Above(v))
    BY <2>1, FS_Subset
  <2> QED
    BY <2>2, FS_CardinalityType
<1>2. Counts \subseteq Nat /\ Counts # {}
  BY <1>1
<1>3. PICK n \in Counts : \A m \in Counts : n <= m
  BY <1>2, Least
<1>4. PICK v \in S : n = Cardinality(Above(v))
  OBVIOUS
<1>5. ASSUME NEW u \in S, v \in edges[u]
      PROVE  FALSE
  <2>1. Above(u) \in SUBSET Above(v)
    <3>1. ASSUME NEW w \in S, u \in Reaches(w)
          PROVE  v \in Reaches(w)
      BY <1>5, <3>1, ReachesClosed DEF Closed
    <3> QED
      BY <3>1
  <2>2. u \in Above(v) /\ u \notin Above(u)
    BY <1>5, ReachesClosed DEF Cyclic
  <2>3. Cardinality(Above(u)) <= Cardinality(Above(v))
    BY <1>1, <2>1, FS_Subset
  <2>4. Cardinality(Above(u)) # Cardinality(Above(v))
    BY <1>1, <2>1, <2>2, FS_Subset
  <2>5. Cardinality(Above(v)) <= Cardinality(Above(u))
    BY <1>3, <1>4
  <2> HIDE DEF Above
  <2> QED
    BY <1>1, <2>3, <2>4, <2>5
<1> QED
  BY <1>5

-----------------------------------------------------------------------------
\* The cycle that is reported.

\* A path goes to vertices that are reached.
LEMMA PathReaches ==
  ASSUME GraphOK, NEW p \in Seq(Vertices), IsPath(p), NEW i \in 2..Len(p)
  PROVE  p[i] \in Reaches(p[1])
<1> DEFINE Missed == {j \in 2..Len(p) : p[j] \notin Reaches(p[1])}
<1>1. SUFFICES ASSUME Missed # {} PROVE FALSE
  OBVIOUS
<1>2. PICK j \in Missed : \A k \in Missed : j <= k
  <2>1. Missed \subseteq Nat
    OBVIOUS
  <2> QED
    BY <1>1, <2>1, Least
<1>3. p[1] \in Vertices /\ p[j - 1] \in Vertices /\ p[j] \in edges[p[j - 1]]
  <2>1. j - 1 \in 1..Len(p) - 1 /\ 1 \in 1..Len(p)
    OBVIOUS
  <2> QED
    BY <2>1 DEF IsPath
<1>4. CASE j = 2
  BY <1>3, <1>4, ReachesClosed
<1>5. CASE j # 2
  <2>1. j - 1 \in 2..Len(p) /\ j - 1 \notin Missed
    BY <1>2, <1>5
  <2> QED
    BY <1>3, <2>1, ReachesClosed DEF Closed
<1> QED
  BY <1>4, <1>5

\* The walks of n steps from v, each step to where f maps.
Walks(V, f, v, n) == {g \in [0..n -> V] : g[0] = v /\ \A k \in 1..n : g[k] = f[g[k - 1]]}

\* There is a walk of any length.
LEMMA Repeated ==
  ASSUME NEW V, NEW f \in [V -> V], NEW v \in V, NEW n \in Nat
  PROVE  Walks(V, f, v, n) # {}
<1> USE DEF Walks
<1> DEFINE Repeats(m) == \E g \in [0..m -> V] : g[0] = v /\ \A k \in 1..m : g[k] = f[g[k - 1]]
           Missed == {m \in Nat : ~Repeats(m)}
<1>1. SUFFICES ASSUME Missed # {} PROVE FALSE
  OBVIOUS
<1>2. PICK m \in Missed : \A k \in Missed : m <= k
  BY <1>1, Least
<1>3. CASE m = 0
  <2> DEFINE g == [k \in 0..0 |-> v]
  <2>1. g \in [0..0 -> V] /\ g[0] = v /\ \A k \in 1..0 : g[k] = f[g[k - 1]]
    OBVIOUS
  <2>2. Repeats(0)
    BY <2>1
  <2> QED
    BY <1>3, <2>2
<1>4. CASE m # 0
  <2>1. m - 1 \in Nat /\ m - 1 \notin Missed
    BY <1>2, <1>4
  <2>2. PICK g \in [0..m - 1 -> V] : g[0] = v /\ \A k \in 1..m - 1 : g[k] = f[g[k - 1]]
    BY <2>1
  <2> DEFINE h == [k \in 0..m |-> IF k = m THEN f[g[m - 1]] ELSE g[k]]
  <2>3. g[m - 1] \in V
    BY <2>1, <2>2
  <2>4. h \in [0..m -> V]
    BY <2>1, <2>3
  <2>5. h[0] = v
    BY <2>2, <1>4
  <2>6. ASSUME NEW k \in 1..m PROVE h[k] = f[h[k - 1]]
    BY <2>1, <2>2, <2>6
  <2> HIDE DEF h
  <2> QED
    BY <2>4, <2>5, <2>6
<1> QED
  BY <1>3, <1>4

Entries == [vertex : Vertices, left : SUBSET Vertices]

SearchTypeOK ==
  /\ visitState \in [Vertices -> {"unvisited", "visiting", "visited"}]
  /\ parent \in [Vertices -> Vertices]
  /\ stack \in Seq(Entries)

\* The vertices that are being visited are on the stack, each once and reached from the
\* one below.
StackOK ==
  /\ \A v \in Vertices : visitState[v] = "visiting" <=> \E i \in 1..Len(stack) : stack[i].vertex = v
  /\ \A i, j \in 1..Len(stack) : stack[i].vertex = stack[j].vertex => i = j
  /\ \A i \in 1..Len(stack) - 1 :
       /\ stack[i + 1].vertex \in edges[stack[i].vertex]
       /\ parent[stack[i + 1].vertex] = stack[i].vertex

LEMMA StackEntry ==
  ASSUME SearchTypeOK, NEW i \in 1..Len(stack)
  PROVE  /\ stack[i].vertex \in Vertices /\ stack[i].left \subseteq Vertices
         /\ Len(stack) \in Nat
<1>1. Len(stack) \in Nat /\ stack[i] \in Entries
  BY DEF SearchTypeOK
<1> QED
  BY <1>1 DEF Entries

LEMMA StackIsShort ==
  ASSUME GraphOK, SearchTypeOK, StackOK
  PROVE  Len(stack) <= Cardinality(Vertices) /\ Cardinality(Vertices) \in Nat
<1> DEFINE f == [i \in 1..Len(stack) |-> stack[i].vertex]
<1>1. f \in Injection(1..Len(stack), Vertices)
  BY StackEntry DEF StackOK, Injection, IsInjective
<1>2. Len(stack) \in Nat
  BY DEF SearchTypeOK
<1>3. Cardinality(1..Len(stack)) <= Cardinality(Vertices)
  BY <1>1, FS_Injection DEF GraphOK
<1>4. Cardinality(1..Len(stack)) = Len(stack)
  BY <1>2, FS_Interval, SMTT(30)
<1> QED
  BY <1>3, <1>4, FS_CardinalityType DEF GraphOK

\* detectCycle walks back from the vertex it is at: down the stack, to the neighbour.
LEMMA WalksBack ==
  ASSUME GraphOK, SearchTypeOK, StackOK, NEW m \in 1..Len(stack)
  PROVE  LET v == stack[Len(stack)].vertex
             n == stack[m].vertex
             p == PathTo(v, n)
             length == Len(stack) - m + 2
         IN  /\ p \in Seq(Vertices) /\ Len(p) = length
             /\ \A j \in 1..length - 1 : p[j] = stack[m + j - 1].vertex
             /\ p[length] = n
<1> DEFINE v == stack[Len(stack)].vertex
           n == stack[m].vertex
           N == Cardinality(Vertices)
           Walk(g) == g = [k \in 0..N |-> IF k = 0 THEN v ELSE parent[g[k - 1]]]
           back == CHOOSE g : Walk(g)
           d == Len(stack) - m
           Found(k) == back[k] = n /\ \A j \in 0..k - 1 : back[j] # n
<1>1. /\ Len(stack) \in Nat /\ N \in Nat /\ Len(stack) <= N /\ v \in Vertices /\ n \in Vertices
      /\ m \in 1..Len(stack) /\ d \in 0..Len(stack) - 1
  <2>1. Len(stack) \in Nat
    BY DEF SearchTypeOK
  <2>2. Len(stack) \in 1..Len(stack)
    BY <2>1
  <2> QED
    BY <2>1, <2>2, StackIsShort, StackEntry
<1>2. Walk(back)
  <2>1. PICK g \in [0..N -> Vertices] : g[0] = v /\ \A k \in 1..N : g[k] = parent[g[k - 1]]
    <3>1. parent \in [Vertices -> Vertices] /\ v \in Vertices /\ N \in Nat
      BY <1>1 DEF SearchTypeOK
    <3>2. Walks(Vertices, parent, v, N) # {}
      BY <3>1, Repeated
    <3> QED
      BY <3>2 DEF Walks
  <2>2. \A k \in 0..N : g[k] = IF k = 0 THEN v ELSE parent[g[k - 1]]
    BY <1>1, <2>1
  <2>3. g = [k \in 0..N |-> IF k = 0 THEN v ELSE parent[g[k - 1]]]
    BY <2>1, <2>2
  <2> QED
    BY <2>3
<1>3. DOMAIN back = 0..N /\ back[0] = v /\ \A k \in 1..N : back[k] = parent[back[k - 1]]
  <2> HIDE DEF back
  <2>1. DOMAIN back = 0..N
    BY <1>2
  <2>2. \A k \in 0..N : back[k] = IF k = 0 THEN v ELSE parent[back[k - 1]]
    BY <1>2
  <2> QED
    BY <1>1, <2>1, <2>2
<1> HIDE DEF back
<1>4. \A k \in 0..Len(stack) - 1 : back[k] = stack[Len(stack) - k].vertex
  <2> DEFINE Missed == {k \in 0..Len(stack) - 1 : back[k] # stack[Len(stack) - k].vertex}
  <2>1. SUFFICES ASSUME Missed # {} PROVE FALSE
    OBVIOUS
  <2>2. PICK k \in Missed : \A j \in Missed : k <= j
    <3>1. Missed \subseteq Nat
      OBVIOUS
    <3> QED
      BY <2>1, <3>1, Least
  <2>3. k # 0
    BY <1>1, <1>3
  <2>4. k - 1 \in 0..Len(stack) - 1 /\ k - 1 \notin Missed /\ k \in 1..N
    BY <1>1, <2>2, <2>3
  <2>5. back[k] = parent[stack[Len(stack) - (k - 1)].vertex]
    BY <1>3, <2>4
  <2>6. parent[stack[(Len(stack) - k) + 1].vertex] = stack[Len(stack) - k].vertex
    <3>1. Len(stack) - k \in 1..Len(stack) - 1
      BY <1>1, <2>3
    <3> QED
      BY <3>1 DEF StackOK
  <2>7. Len(stack) - (k - 1) = (Len(stack) - k) + 1
    BY <1>1
  <2> QED
    BY <2>5, <2>6, <2>7
<1>5. d \in DOMAIN back /\ Found(d)
  <2>1. back[d] = stack[Len(stack) - d].vertex
    BY <1>1, <1>4
  <2>2. Len(stack) - d = m
    BY <1>1
  <2>3. ASSUME NEW j \in 0..d - 1 PROVE back[j] # n
    <3>1. /\ j \in 0..Len(stack) - 1 /\ Len(stack) - j \in 1..Len(stack) /\ Len(stack) - j # m
      BY <1>1
    <3> QED
      BY <1>1, <1>4, <3>1 DEF StackOK
  <2> QED
    BY <1>1, <1>3, <2>1, <2>2, <2>3
<1>6. ASSUME NEW k \in DOMAIN back, Found(k) PROVE k = d
  BY <1>1, <1>3, <1>5, <1>6
<1>7. (CHOOSE k \in DOMAIN back : Found(k)) = d
  <2> HIDE DEF Found
  <2> QED
    BY <1>5, <1>6
<1> DEFINE mid == [i \in 1..d |-> back[i - 1]]
           s == <<n>> \o mid \o <<n>>
<1>8. PathTo(v, n) = Reverse(s)
  <2>1. PathTo(v, n) = LET k == CHOOSE k \in DOMAIN back : Found(k)
                       IN  Reverse(<<n>> \o [i \in 1..k |-> back[i - 1]] \o <<n>>)
    BY DEF PathTo, back
  <2> HIDE DEF Found, back
  <2> QED
    BY <1>7, <2>1
<1>9. mid \in Seq(Vertices) /\ Len(mid) = d
  <2>1. ASSUME NEW i \in 1..d PROVE back[i - 1] \in Vertices
    <3>1. i - 1 \in 0..Len(stack) - 1 /\ Len(stack) - (i - 1) \in 1..Len(stack)
      BY <1>1
    <3> QED
      BY <1>4, <3>1, StackEntry
  <2> QED
    BY <1>1, <2>1
<1> HIDE DEF mid
<1>10. /\ s \in Seq(Vertices) /\ Len(s) = d + 2 /\ s[1] = n /\ s[d + 2] = n
       /\ \A i \in 2..d + 1 : s[i] = mid[i - 1]
  BY <1>1, <1>9
<1> HIDE DEF s
<1> DEFINE p == PathTo(v, n)
<1>11. /\ p \in Seq(Vertices) /\ Len(p) = d + 2
       /\ \A j \in 1..d + 2 : p[j] = s[d + 2 - j + 1]
  BY <1>1, <1>8, <1>10 DEF Reverse
<1> HIDE DEF p
<1>12. ASSUME NEW j \in 1..d + 1 PROVE p[j] = stack[m + j - 1].vertex
  <2>1. CASE j = 1
    BY <1>1, <1>10, <1>11, <2>1
  <2>2. CASE j # 1
    <3>1. /\ d + 2 - j + 1 \in 2..d + 1 /\ j \in 1..d + 2 /\ d + 2 - j \in 1..d
          /\ d + 1 - j \in 0..Len(stack) - 1 /\ Len(stack) - (d + 1 - j) = m + j - 1
          /\ (d + 2 - j + 1) - 1 = d + 2 - j /\ (d + 2 - j) - 1 = d + 1 - j
      BY <1>1, <2>2
    <3>2. p[j] = mid[d + 2 - j]
      BY <1>10, <1>11, <3>1
    <3>3. mid[d + 2 - j] = back[d + 1 - j]
      BY <3>1 DEF mid
    <3> QED
      BY <1>4, <3>1, <3>2, <3>3
  <2> QED
    BY <2>1, <2>2
<1>13. p[d + 2] = n
  BY <1>1, <1>10, <1>11
<1>14. d + 2 = Len(stack) - m + 2 /\ d + 1 = (Len(stack) - m + 2) - 1
  BY <1>1
<1> QED
  BY <1>11, <1>12, <1>13, <1>14 DEF p

LEMMA CycleFound ==
  ASSUME GraphOK, SearchTypeOK, StackOK, stack # <<>>,
         NEW n \in edges[Last(stack).vertex], visitState[n] = "visiting"
  PROVE  LET p == PathTo(Last(stack).vertex, n)
         IN  /\ Cyclic /\ IsPath(p) /\ Len(p) > 1 /\ p[1] = Last(p)
<1> DEFINE top == Len(stack)
<1>1. top \in Nat /\ top \in 1..top /\ Last(stack) = stack[top] /\ stack[top].vertex \in Vertices
  BY StackEntry DEF SearchTypeOK, Last
<1>2. n \in Vertices
  BY <1>1 DEF GraphOK
<1>3. PICK m \in 1..top : stack[m].vertex = n
  BY <1>2 DEF StackOK
<1> DEFINE p == PathTo(stack[top].vertex, n)
           length == top - m + 2
<1>4. /\ p \in Seq(Vertices) /\ Len(p) = length
      /\ \A j \in 1..length - 1 : p[j] = stack[m + j - 1].vertex
      /\ p[length] = n
  BY <1>3, WalksBack
<1> HIDE DEF p
<1>5. length \in Nat /\ length >= 2 /\ p[1] = n
  BY <1>1, <1>3, <1>4
<1>6. ASSUME NEW j \in 1..length - 1 PROVE p[j + 1] \in edges[p[j]]
  <2>1. CASE j = length - 1
    <3>1. m + j - 1 = top /\ j + 1 = length
      BY <1>1, <1>3, <2>1
    <3> QED
      BY <1>1, <1>4, <3>1
  <2>2. CASE j # length - 1
    <3>1. /\ j + 1 \in 1..length - 1 /\ m + j - 1 \in 1..top - 1
          /\ m + (j + 1) - 1 = (m + j - 1) + 1
      BY <1>1, <1>3, <1>5, <2>2
    <3> QED
      BY <1>4, <3>1 DEF StackOK
  <2> QED
    BY <2>1, <2>2
<1>7. IsPath(p)
  BY <1>4, <1>6 DEF IsPath
<1>8. n \in Reaches(n)
  BY <1>4, <1>5, <1>7, PathReaches
<1> QED
  BY <1>1, <1>2, <1>4, <1>5, <1>7, <1>8 DEF Cyclic, Last, p

-----------------------------------------------------------------------------
\* The search for a cycle.

\* An edge that is worked off goes to a visited vertex, or to the one next on the stack.
LeftOK ==
  \A i \in 1..Len(stack) :
    /\ stack[i].left \subseteq edges[stack[i].vertex]
    /\ \A w \in edges[stack[i].vertex] \ stack[i].left :
         visitState[w] = "visited" \/ (i < Len(stack) /\ w = stack[i + 1].vertex)

\* The visited vertices depend on visited ones only, and none on itself.
VisitedOK ==
  \A v \in Vertices : visitState[v] = "visited" =>
    /\ \A w \in edges[v] : visitState[w] = "visited"
    /\ v \notin Reaches(v)

SearchOK == SearchTypeOK /\ StackOK /\ LeftOK /\ VisitedOK

LEMMA SameGraph ==
  ASSUME edges' = edges
  PROVE  /\ Vertices' = Vertices /\ Entries' = Entries /\ Cyclic' = Cyclic /\ GraphOK' = GraphOK
         /\ \A v : Reaches(v)' = Reaches(v)
  BY DEF Vertices, Entries, Cyclic, GraphOK, Reaches, Closed

LEMMA SearchUnchanged ==
  ASSUME SearchOK, edges' = edges, UNCHANGED <<visitState, parent, stack>>
  PROVE  SearchOK'
  BY SameGraph DEF SearchOK, SearchTypeOK, StackOK, LeftOK, VisitedOK

\* What a vertex on top of the stack is, and the stack with it.
LEMMA Pushed ==
  ASSUME GraphOK, SearchOK, edges' = edges, NEW n \in Vertices, visitState[n] = "unvisited",
         visitState' = [visitState EXCEPT ![n] = "visiting"],
         NEW rest \in Seq(Entries), Len(rest) = Len(stack),
         \A i \in 1..Len(stack) :
           /\ rest[i].vertex = stack[i].vertex /\ rest[i].left \subseteq stack[i].left
           /\ \A w \in edges[stack[i].vertex] \ rest[i].left :
                \/ w \notin stack[i].left
                \/ i = Len(stack) /\ w = n,
         stack' = Append(rest, [vertex |-> n, left |-> edges[n]]),
         IF stack = <<>> THEN parent' = parent
         ELSE /\ parent' = [parent EXCEPT ![n] = Last(stack).vertex]
              /\ n \in edges[Last(stack).vertex]
  PROVE  SearchOK'
<1> DEFINE top == Len(stack)
<1> USE SameGraph
<1>1. /\ Vertices' = Vertices /\ top \in Nat /\ Len(stack') = top + 1
      /\ stack'[top + 1] = [vertex |-> n, left |-> edges[n]]
      /\ \A i \in 1..top : stack'[i] = rest[i] /\ i \in 1..top + 1 /\ i # top + 1
      /\ \A i \in 1..top + 1 : i \in 1..top \/ i = top + 1
      /\ edges[n] \in SUBSET Vertices
  <2>1. edges[n] \in SUBSET Vertices /\ Vertices' = Vertices
    BY DEF GraphOK
  <2>2. [vertex |-> n, left |-> edges[n]] \in Entries
    BY <2>1 DEF Entries
  <2>3. top \in Nat /\ Len(rest) = top
    BY DEF SearchOK, SearchTypeOK
  <2>4. Len(stack') = top + 1 /\ stack'[top + 1] = [vertex |-> n, left |-> edges[n]]
    BY <2>2, <2>3
  <2>5. \A i \in 1..top : stack'[i] = rest[i]
    BY <2>2, <2>3
  <2> HIDE DEF top
  <2> QED
    BY <2>1, <2>3, <2>4, <2>5
<1>2. /\ \A i \in 1..top : stack[i].vertex \in Vertices /\ stack[i].vertex # n
      /\ visitState \in [Vertices -> {"unvisited", "visiting", "visited"}]
      /\ visitState'[n] = "visiting" /\ \A v \in Vertices \ {n} : visitState'[v] = visitState[v]
  BY StackEntry DEF SearchOK, SearchTypeOK, StackOK
<1>3. stack'[top + 1].vertex = n /\ \A i \in 1..top : stack'[i].vertex = stack[i].vertex
  BY <1>1
<1>4. SearchTypeOK'
  <2>1. [vertex |-> n, left |-> edges[n]] \in Entries
    BY <1>1 DEF Entries
  <2>2. stack' \in Seq(Entries)
    BY <2>1
  <2>3. parent' \in [Vertices -> Vertices]
    <3>1. CASE stack = <<>>
      BY <3>1 DEF SearchOK, SearchTypeOK
    <3>2. CASE stack # <<>>
      <4>1. top \in 1..top
        BY <1>1, <3>2 DEF SearchOK, SearchTypeOK
      <4> QED
        BY <1>2, <3>2, <4>1 DEF SearchOK, SearchTypeOK, Last
    <3> QED
      BY <3>1, <3>2
  <2> QED
    BY <1>1, <1>2, <2>2, <2>3 DEF SearchTypeOK
<1>5. StackOK'
  <2>1. ASSUME NEW v \in Vertices
        PROVE  visitState'[v] = "visiting" <=> \E i \in 1..top + 1 : stack'[i].vertex = v
    <3>1. CASE v = n
      BY <1>1, <1>2, <1>3, <3>1
    <3>2. CASE v # n
      <4>1. visitState'[v] = visitState[v]
        BY <1>2, <3>2
      <4>2. visitState[v] = "visiting" <=> \E i \in 1..top : stack[i].vertex = v
        BY DEF SearchOK, StackOK
      <4> HIDE DEF top
      <4> QED
        BY <1>1, <1>3, <3>2, <4>1, <4>2
    <3> QED
      BY <3>1, <3>2
  <2>2. ASSUME NEW i \in 1..top + 1, NEW j \in 1..top + 1, stack'[i].vertex = stack'[j].vertex
        PROVE  i = j
    BY <1>1, <1>2, <1>3, <2>2 DEF SearchOK, StackOK
  <2>3. ASSUME NEW i \in 1..top
        PROVE  /\ stack'[i + 1].vertex \in edges[stack'[i].vertex]
               /\ parent'[stack'[i + 1].vertex] = stack'[i].vertex
    <3>1. CASE i = top
      <4>1. stack # <<>>
        BY <1>1
      <4>2. parent'[n] = stack[top].vertex /\ n \in edges[stack[top].vertex]
        BY <4>1 DEF SearchOK, SearchTypeOK, Last
      <4> QED
        BY <1>3, <3>1, <4>2
    <3>2. CASE i # top
      <4>1. i \in 1..top - 1 /\ i + 1 \in 1..top
        BY <1>1, <3>2
      <4>2. /\ stack[i + 1].vertex \in edges[stack[i].vertex]
            /\ parent[stack[i + 1].vertex] = stack[i].vertex
            /\ stack[i + 1].vertex # n
        BY <1>2, <4>1 DEF SearchOK, StackOK
      <4>3. stack[i + 1].vertex \in Vertices /\ parent \in [Vertices -> Vertices]
        BY <1>2, <4>1 DEF SearchOK, SearchTypeOK
      <4>4. parent'[stack[i + 1].vertex] = parent[stack[i + 1].vertex]
        BY <4>2, <4>3
      <4> QED
        BY <1>3, <4>1, <4>2, <4>4
    <3> QED
      BY <3>1, <3>2
  <2> QED
    BY <1>1, <2>1, <2>2, <2>3 DEF StackOK
<1>6. LeftOK'
  <2>5. \A i \in 1..top + 1 : stack'[i].left \subseteq edges[stack'[i].vertex]
    BY <1>1, <1>3, SMTT(30) DEF SearchOK, LeftOK
  <2> SUFFICES ASSUME NEW i \in 1..top + 1, NEW w \in edges[stack'[i].vertex] \ stack'[i].left
               PROVE  visitState'[w] = "visited" \/ (i < top + 1 /\ w = stack'[i + 1].vertex)
    BY <1>1, <2>5 DEF LeftOK
  <2>1. i \in 1..top
    BY <1>1
  <2>2. w \in edges[stack[i].vertex] \ rest[i].left /\ w \in Vertices
    BY <1>1, <1>2, <1>3, <2>1 DEF GraphOK
  <2>3. CASE w \notin stack[i].left
    <3>1. visitState[w] = "visited" \/ (i < top /\ w = stack[i + 1].vertex)
      BY <2>1, <2>2, <2>3 DEF SearchOK, LeftOK
    <3>2. i < top => i + 1 \in 1..top
      BY <1>1, <2>1
    <3> QED
      BY <1>1, <1>2, <1>3, <2>1, <2>2, <3>1, <3>2
  <2>4. CASE i = top /\ w = n
    BY <1>1, <1>3, <2>4
  <2> QED
    BY <2>1, <2>2, <2>3, <2>4
<1>7. VisitedOK'
  <2> SUFFICES ASSUME NEW v \in Vertices, visitState'[v] = "visited"
               PROVE  /\ \A w \in edges[v] : visitState'[w] = "visited"
                      /\ v \notin Reaches(v)
    BY DEF VisitedOK
  <2>1. visitState[v] = "visited"
    BY <1>2
  <2>2. \A w \in edges[v] : w \in Vertices /\ visitState[w] = "visited" /\ w # n
    BY <2>1 DEF SearchOK, VisitedOK, GraphOK
  <2> QED
    BY <1>2, <2>1, <2>2 DEF SearchOK, VisitedOK
<1> QED
  BY <1>4, <1>5, <1>6, <1>7 DEF SearchOK

LEMMA RootSearch ==
  ASSUME GraphOK, SearchOK, NEW v \in Vertices, Root(v)
  PROVE  SearchOK' /\ edges' = edges
<1>1. /\ stack = <<>> /\ Len(stack) = 0 /\ visitState[v] = "unvisited" /\ edges' = edges
      /\ parent' = parent /\ visitState' = [visitState EXCEPT ![v] = "visiting"]
      /\ stack' = Append(stack, [vertex |-> v, left |-> edges[v]])
  BY DEF Root, Visit
<1>2. stack \in Seq(Entries)
  BY DEF SearchOK, SearchTypeOK
<1> QED
  BY <1>1, <1>2, Pushed

LEMMA SeqExcept ==
  ASSUME NEW S, NEW s \in Seq(S), NEW k \in 1..Len(s), NEW e \in S
  PROVE  LET r == [s EXCEPT ![k] = e]
         IN  /\ r \in Seq(S) /\ Len(r) = Len(s)
             /\ \A i \in 1..Len(s) : r[i] = IF i = k THEN e ELSE s[i]
  OBVIOUS

\* The stack with one neighbour of its top vertex worked off.
LEMMA WorkedOff ==
  ASSUME GraphOK, SearchOK, stack # <<>>, NEW n \in Last(stack).left,
         NEW rest, rest = [stack EXCEPT ![Len(stack)].left = @ \ {n}]
  PROVE  /\ rest \in Seq(Entries) /\ Len(rest) = Len(stack) /\ n \in Vertices
         /\ Len(stack) \in 1..Len(stack) /\ Last(stack) = stack[Len(stack)]
         /\ \A i \in 1..Len(stack) :
              /\ rest[i].vertex = stack[i].vertex
              /\ i # Len(stack) => rest[i] = stack[i]
              /\ i = Len(stack) => rest[i].left = stack[i].left \ {n}
<1>1. /\ stack \in Seq(Entries) /\ Len(stack) \in 1..Len(stack)
      /\ Last(stack) = stack[Len(stack)] /\ stack[Len(stack)] \in Entries
  BY DEF SearchOK, SearchTypeOK, Last
<1>2. n \in Vertices /\ n \in stack[Len(stack)].left
  BY <1>1 DEF Entries
<1> DEFINE e == [stack[Len(stack)] EXCEPT !.left = @ \ {n}]
<1>3. e \in Entries /\ e.vertex = stack[Len(stack)].vertex /\ e.left = stack[Len(stack)].left \ {n}
  BY <1>1 DEF Entries
<1>4. rest = [stack EXCEPT ![Len(stack)] = e]
  OBVIOUS
<1> HIDE DEF e
<1>5. /\ rest \in Seq(Entries) /\ Len(rest) = Len(stack)
      /\ \A i \in 1..Len(stack) : rest[i] = IF i = Len(stack) THEN e ELSE stack[i]
  <2> DEFINE r == [stack EXCEPT ![Len(stack)] = e]
  <2>1. /\ r \in Seq(Entries) /\ Len(r) = Len(stack)
        /\ \A i \in 1..Len(stack) : r[i] = IF i = Len(stack) THEN e ELSE stack[i]
    BY <1>1, <1>3, SeqExcept
  <2> QED
    BY <1>4, <2>1, Zenon
<1> QED
  BY <1>1, <1>2, <1>3, <1>5

LEMMA DescendSearch ==
  ASSUME GraphOK, SearchOK, Descend
  PROVE  /\ SearchOK' /\ edges' = edges
         /\ phase' = "cycle" => Cyclic /\ IsPath(cyclePath') /\ Len(cyclePath') > 1
                                /\ cyclePath'[1] = Last(cyclePath')
         /\ phase' \in {phase, "cycle"} /\ phase = "detect"
<1>1. stack # <<>> /\ edges' = edges /\ phase = "detect"
  BY DEF Descend
<1>2. PICK n \in Last(stack).left :
        LET v == Last(stack).vertex
            rest == [stack EXCEPT ![Len(stack)].left = @ \ {n}]
        IN  CASE visitState[n] = "visiting" ->
                   /\ cyclePath' = PathTo(v, n)
                   /\ phase' = "cycle"
                   /\ UNCHANGED <<visitState, parent, stack>>
              [] visitState[n] = "unvisited" ->
                   /\ parent' = [parent EXCEPT ![n] = v]
                   /\ visitState' = [visitState EXCEPT ![n] = "visiting"]
                   /\ stack' = Append(rest, [vertex |-> n, left |-> edges[n]])
                   /\ UNCHANGED <<phase, cyclePath>>
              [] visitState[n] = "visited" ->
                   /\ stack' = rest
                   /\ UNCHANGED <<phase, visitState, parent, cyclePath>>
  BY DEF Descend
<1> DEFINE rest == [stack EXCEPT ![Len(stack)].left = @ \ {n}]
           top == Len(stack)
<1>3. /\ rest \in Seq(Entries) /\ Len(rest) = Len(stack) /\ n \in Vertices
      /\ Len(stack) \in 1..Len(stack) /\ Last(stack) = stack[Len(stack)]
      /\ \A i \in 1..Len(stack) :
           /\ rest[i].vertex = stack[i].vertex
           /\ i # Len(stack) => rest[i] = stack[i]
           /\ i = Len(stack) => rest[i].left = stack[i].left \ {n}
  BY <1>1, WorkedOff
<1>4. n \in edges[Last(stack).vertex]
  BY <1>1, <1>3 DEF SearchOK, LeftOK
<1>5. visitState[n] \in {"unvisited", "visiting", "visited"}
  BY <1>3 DEF SearchOK, SearchTypeOK
<1>6. CASE visitState[n] = "visiting"
  <2>1. /\ cyclePath' = PathTo(Last(stack).vertex, n) /\ phase' = "cycle"
        /\ UNCHANGED <<visitState, parent, stack>>
    BY <1>2, <1>6
  <2>2. /\ Cyclic /\ IsPath(cyclePath') /\ Len(cyclePath') > 1 /\ cyclePath'[1] = Last(cyclePath')
    BY <1>1, <1>4, <1>6, <2>1, CycleFound DEF SearchOK
  <2> QED
    BY <1>1, <2>1, <2>2, SearchUnchanged
<1>7. CASE visitState[n] = "unvisited"
  <2>1. /\ parent' = [parent EXCEPT ![n] = Last(stack).vertex]
        /\ visitState' = [visitState EXCEPT ![n] = "visiting"]
        /\ stack' = Append(rest, [vertex |-> n, left |-> edges[n]])
        /\ phase' = phase
    BY <1>2, <1>7
  <2>2. ASSUME NEW i \in 1..Len(stack)
        PROVE  /\ rest[i].vertex = stack[i].vertex /\ rest[i].left \subseteq stack[i].left
               /\ \A w \in edges[stack[i].vertex] \ rest[i].left :
                    \/ w \notin stack[i].left
                    \/ i = Len(stack) /\ w = n
    <3> HIDE DEF rest
    <3> QED
      BY <1>3
  <2> HIDE DEF rest
  <2>3. SearchOK'
    BY <1>1, <1>3, <1>4, <1>7, <2>1, <2>2, Pushed
  <2> QED
    BY <1>1, <2>1, <2>3
<1>8. CASE visitState[n] = "visited"
  <2>1. stack' = rest /\ UNCHANGED <<phase, visitState, parent>>
    BY <1>2, <1>8
  <2> HIDE DEF rest
  <2>2. SearchTypeOK' /\ VisitedOK'
    BY <1>1, <1>3, <2>1, SameGraph DEF SearchOK, SearchTypeOK, VisitedOK
  <2>4. StackOK'
    <3>1. \A i \in 1..Len(stack) - 1 : i \in 1..Len(stack) /\ i + 1 \in 1..Len(stack)
      BY <1>3
    <3>2. Vertices' = Vertices /\ Len(stack') = Len(stack)
      BY <1>1, <1>3, <2>1, SameGraph
    <3>3. \A i \in 1..Len(stack) : stack'[i].vertex = stack[i].vertex
      BY <1>3, <2>1
    <3>4. \A v \in Vertices : visitState[v] = "visiting" <=> \E i \in 1..Len(stack) : stack'[i].vertex = v
      BY <3>3 DEF SearchOK, StackOK
    <3>5. \A i, j \in 1..Len(stack) : stack'[i].vertex = stack'[j].vertex => i = j
      BY <3>3 DEF SearchOK, StackOK
    <3>6. \A i \in 1..Len(stack) - 1 :
            /\ stack'[i + 1].vertex \in edges[stack'[i].vertex]
            /\ parent[stack'[i + 1].vertex] = stack'[i].vertex
      BY <3>1, <3>3 DEF SearchOK, StackOK
    <3> QED
      BY <1>1, <2>1, <3>2, <3>4, <3>5, <3>6 DEF StackOK
  <2>3. LeftOK'
    <3> SUFFICES ASSUME NEW i \in 1..top, NEW w \in edges[stack[i].vertex] \ rest[i].left
                 PROVE  visitState[w] = "visited" \/ (i < top /\ w = rest[i + 1].vertex)
      <4>1. \A i \in 1..top : rest[i].left \subseteq edges[rest[i].vertex]
        BY <1>3 DEF SearchOK, LeftOK
      <4>2. Len(stack') = top
        BY <1>3, <2>1
      <4>3. \A i \in 1..top : rest[i].vertex = stack[i].vertex
        BY <1>3
      <4> QED
        BY <1>1, <2>1, <4>1, <4>2, <4>3 DEF LeftOK
    <3>1. w = n \/ w \notin stack[i].left
      BY <1>3
    <3>2. w \notin stack[i].left =>
            visitState[w] = "visited" \/ (i < top /\ w = stack[i + 1].vertex)
      BY DEF SearchOK, LeftOK
    <3>3. i < top => i + 1 \in 1..top
      BY <1>3
    <3> QED
      BY <1>3, <1>8, <3>1, <3>2, <3>3
  <2> QED
    BY <1>1, <2>1, <2>2, <2>3, <2>4 DEF SearchOK
<1> QED
  BY <1>5, <1>6, <1>7, <1>8

LEMMA FrontOf ==
  ASSUME NEW S, NEW s \in Seq(S), s # <<>>
  PROVE  /\ Front(s) \in Seq(S) /\ Len(Front(s)) = Len(s) - 1
         /\ \A i \in 1..Len(s) - 1 : Front(s)[i] = s[i]
<1>1. Len(s) - 1 \in Nat /\ \A i \in 1..Len(s) - 1 : i \in 1..Len(s)
  OBVIOUS
<1>2. Front(s) = [i \in 1..Len(s) - 1 |-> s[i]]
  BY <1>1 DEF Front
<1> QED
  BY <1>1, <1>2

LEMMA AscendSearch ==
  ASSUME GraphOK, SearchOK, Ascend
  PROVE  SearchOK' /\ edges' = edges
<1> DEFINE top == Len(stack)
           v == stack[top].vertex
<1>1. /\ stack # <<>> /\ Last(stack).left = {} /\ edges' = edges /\ parent' = parent
      /\ visitState' = [visitState EXCEPT ![Last(stack).vertex] = "visited"]
      /\ stack' = Front(stack)
  BY DEF Ascend
<1>2. /\ top \in Nat /\ top \in 1..top /\ Last(stack) = stack[top] /\ stack[top].left = {}
      /\ v \in Vertices /\ visitState[v] = "visiting"
  <2>1. top \in Nat /\ top \in 1..top /\ Last(stack) = stack[top]
    BY <1>1 DEF SearchOK, SearchTypeOK, Last
  <2> QED
    BY <1>1, <2>1, StackEntry DEF SearchOK, StackOK
<1>3. stack' \in Seq(Entries) /\ Len(stack') = top - 1 /\ \A i \in 1..top - 1 : stack'[i] = stack[i]
  BY <1>1, <1>2, FrontOf DEF SearchOK, SearchTypeOK
<1>4. /\ Vertices' = Vertices /\ Entries' = Entries
      /\ visitState \in [Vertices -> {"unvisited", "visiting", "visited"}]
      /\ visitState'[v] = "visited" /\ \A u \in Vertices \ {v} : visitState'[u] = visitState[u]
      /\ visitState' \in [Vertices -> {"unvisited", "visiting", "visited"}]
  BY <1>1, <1>2, SameGraph DEF SearchOK, SearchTypeOK
<1>5. \A i \in 1..top - 1 : stack[i].vertex # v /\ i \in 1..top
  BY <1>2 DEF SearchOK, StackOK
<1>6. \A w \in edges[v] : w \in Vertices /\ visitState[w] = "visited"
  BY <1>2 DEF SearchOK, LeftOK, GraphOK
<1> HIDE DEF v
<1>7. SearchTypeOK'
  BY <1>1, <1>3, <1>4 DEF SearchOK, SearchTypeOK
<1>8. StackOK'
  <2>1. ASSUME NEW u \in Vertices
        PROVE  visitState'[u] = "visiting" <=> \E i \in 1..top - 1 : stack'[i].vertex = u
    <3>1. CASE u = v
      BY <1>3, <1>4, <1>5, <3>1
    <3>2. CASE u # v
      <4>1. visitState[u] = "visiting" <=> \E i \in 1..top : stack[i].vertex = u
        BY DEF SearchOK, StackOK
      <4>2. \A i \in 1..top : i = top \/ i \in 1..top - 1
        BY <1>2
      <4>3. stack[top].vertex = v
        BY DEF v
      <4> HIDE DEF top
      <4> QED
        BY <1>3, <1>4, <1>5, <3>2, <4>1, <4>2, <4>3
    <3> QED
      BY <3>1, <3>2
  <2>2. \A i, j \in 1..top - 1 : stack'[i].vertex = stack'[j].vertex => i = j
    BY <1>3, <1>5 DEF SearchOK, StackOK
  <2>3. ASSUME NEW i \in 1..(top - 1) - 1
        PROVE  /\ stack'[i + 1].vertex \in edges[stack'[i].vertex]
               /\ parent[stack'[i + 1].vertex] = stack'[i].vertex
    <3>1. i \in 1..top - 1 /\ i + 1 \in 1..top - 1
      BY <1>2
    <3> QED
      BY <1>3, <3>1 DEF SearchOK, StackOK
  <2> QED
    BY <1>1, <1>3, <1>4, <2>1, <2>2, <2>3 DEF StackOK
<1>9. LeftOK'
  <2> SUFFICES ASSUME NEW i \in 1..top - 1, NEW w \in edges[stack[i].vertex] \ stack[i].left
               PROVE  visitState'[w] = "visited" \/ (i < top - 1 /\ w = stack[i + 1].vertex)
    <3>1. \A i \in 1..top - 1 : i < top - 1 => i + 1 \in 1..top - 1
      BY <1>2
    <3>2. \A i \in 1..top - 1 : stack[i].left \subseteq edges[stack[i].vertex]
      BY <1>5 DEF SearchOK, LeftOK
    <3> QED
      BY <1>1, <1>3, <3>1, <3>2 DEF LeftOK
  <2>1. w \in Vertices
    BY <1>5, StackEntry DEF SearchOK, GraphOK
  <2>2. visitState[w] = "visited" \/ w = stack[i + 1].vertex
    BY <1>5 DEF SearchOK, LeftOK
  <2>3. i = top - 1 => stack[i + 1].vertex = v
    BY <1>2 DEF v
  <2>4. i = top - 1 \/ i < top - 1
    BY <1>2
  <2> QED
    BY <1>2, <1>4, <2>1, <2>2, <2>3, <2>4
<1>10. VisitedOK'
  <2> DEFINE seen == {u \in Vertices : visitState[u] = "visited"}
  <2>1. Reaches(v) \subseteq seen
    <3>1. seen \in SUBSET Vertices /\ edges[v] \subseteq seen
      BY <1>6
    <3>2. Closed(seen)
      BY DEF Closed, SearchOK, VisitedOK, GraphOK
    <3> HIDE DEF seen
    <3> QED
      BY <3>1, <3>2, ReachesLeast
  <2>2. v \notin Reaches(v)
    BY <1>2, <2>1 DEF v
  <2>3. ASSUME NEW u \in Vertices, visitState'[u] = "visited"
        PROVE  /\ \A w \in edges[u] : visitState'[w] = "visited"
               /\ u \notin Reaches(u)
    <3>1. CASE u = v
      BY <1>4, <1>6, <2>2, <3>1
    <3>2. CASE u # v
      <4>1. visitState[u] = "visited"
        BY <1>4, <2>3, <3>2
      <4> QED
        BY <1>4, <4>1 DEF SearchOK, VisitedOK, GraphOK
    <3> QED
      BY <3>1, <3>2
  <2> QED
    BY <1>1, <1>4, <2>3, SameGraph DEF VisitedOK
<1> QED
  BY <1>1, <1>7, <1>8, <1>9, <1>10 DEF SearchOK

-----------------------------------------------------------------------------
\* The sort.

\* Who is sorted has before it whoever depends on it.
OrderedOK ==
  \A j \in 1..Len(sorted) : \A u \in Vertices :
    sorted[j] \in edges[u] => \E i \in 1..j - 1 : sorted[i] = u

SortedOK ==
  /\ ~Cyclic
  /\ sorted \in Seq(Vertices) /\ IsInjective(sorted) /\ Range(sorted) = Vertices
  /\ OrderedOK

Unsorted == Vertices \ Range(sorted)
Dependents(v, of) == {u \in of : v \in edges[u]}

\* The queue has the vertices that nothing holds back which is not sorted.
KahnOK ==
  /\ ~Cyclic
  /\ sorted \in Seq(Vertices) /\ IsInjective(sorted) /\ OrderedOK
  /\ queue \in Seq(Vertices) /\ IsInjective(queue)
  /\ Range(queue) = {v \in Unsorted : Dependents(v, Unsorted) = {}}
  /\ \A v \in Vertices : inDegree[v] = Cardinality(Dependents(v, Unsorted))

\* Each of the sequences that SetToSeqs offers.
LEMMA InSomeOrder ==
  ASSUME NEW S, IsFiniteSet(S), NEW q \in SetToSeqs(S)
  PROVE  q \in Seq(S) /\ IsInjective(q) /\ Range(q) = S
<1> DEFINE n == Cardinality(S)
<1>1. n \in Nat /\ IsFiniteSet(1..n) /\ Cardinality(1..n) = n
  BY FS_CardinalityType, FS_Interval
<1>2. q \in [1..n -> S] /\ \A i, j \in 1..n : i # j => q[i] # q[j]
  BY DEF SetToSeqs
<1>3. IsInjective(q)
  BY <1>2 DEF IsInjective
<1>4. q \in Injection(1..n, S)
  BY <1>2, <1>3 DEF Injection
<1>5. q \in Surjection(1..n, S)
  BY <1>1, <1>4, FS_Injection
<1>6. Range(q) = S
  BY <1>2, <1>5 DEF Surjection, Range
<1> QED
  BY <1>1, <1>2, <1>3, <1>6

LEMMA DependentsFinite ==
  ASSUME GraphOK, NEW v, NEW of \in SUBSET Vertices
  PROVE  /\ IsFiniteSet(Dependents(v, of)) /\ Cardinality(Dependents(v, of)) \in Nat
         /\ Cardinality(Dependents(v, of)) = 0 <=> Dependents(v, of) = {}
<1>1. Dependents(v, of) \in SUBSET Vertices
  BY DEF Dependents
<1>2. IsFiniteSet(Dependents(v, of))
  BY <1>1, FS_Subset DEF GraphOK
<1> QED
  BY <1>2, FS_CardinalityType, FS_EmptySet

LEMMA BeginSortOK ==
  ASSUME GraphOK, SearchOK, sorted = <<>>, BeginSort
  PROVE  KahnOK'
<1>1. /\ edges' = edges /\ sorted' = sorted /\ inDegree' = InDegree(Vertices)
      /\ queue' \in SetToSeqs({v \in Vertices : inDegree'[v] = 0})
      /\ \A v \in Vertices : visitState[v] = "visited"
  BY DEF BeginSort
<1>2. Vertices' = Vertices /\ Cyclic' = Cyclic
  BY <1>1, SameGraph
<1>3. ~Cyclic
  BY <1>1 DEF SearchOK, VisitedOK, Cyclic
<1>4. Range(sorted) = {} /\ Unsorted = Vertices /\ Unsorted' = Vertices
  BY <1>1, <1>2 DEF Range, Unsorted
<1>5. /\ sorted' \in Seq(Vertices) /\ IsInjective(sorted') /\ OrderedOK'
  BY <1>1 DEF IsInjective, OrderedOK
<1>6. \A v \in Vertices : inDegree'[v] = Cardinality(Dependents(v, Vertices))
  BY <1>1 DEF InDegree, Dependents
<1>7. {v \in Vertices : inDegree'[v] = 0} = {v \in Vertices : Dependents(v, Vertices) = {}}
  BY <1>6, DependentsFinite
<1> DEFINE ready == {v \in Vertices : Dependents(v, Vertices) = {}}
<1>8. IsFiniteSet(ready)
  <2>1. ready \in SUBSET Vertices
    OBVIOUS
  <2> QED
    BY <2>1, FS_Subset DEF GraphOK
<1>9. queue' \in Seq(ready) /\ IsInjective(queue') /\ Range(queue') = ready
  <2> HIDE DEF ready
  <2>1. queue' \in SetToSeqs(ready)
    BY <1>1, <1>7 DEF ready
  <2> QED
    BY <1>8, <2>1, InSomeOrder
<1>10. queue' \in Seq(Vertices)
  BY <1>9
<1> QED
  BY <1>1, <1>2, <1>3, <1>4, <1>5, <1>6, <1>9, <1>10 DEF KahnOK, Dependents

LEMMA HeadAndTail ==
  ASSUME NEW S, NEW q \in Seq(S), q # <<>>, IsInjective(q)
  PROVE  /\ Head(q) \in Range(q) /\ Head(q) \in S
         /\ Tail(q) \in Seq(S) /\ IsInjective(Tail(q)) /\ Range(Tail(q)) = Range(q) \ {Head(q)}
<1>1. /\ Len(q) \in Nat /\ 1 \in 1..Len(q) /\ Head(q) = q[1] /\ DOMAIN q = 1..Len(q)
      /\ Tail(q) \in Seq(S) /\ DOMAIN Tail(q) = 1..Len(q) - 1
      /\ \A i \in 1..Len(q) - 1 : Tail(q)[i] = q[i + 1]
  OBVIOUS
<1>2. \A i \in 1..Len(q) - 1 : i + 1 \in 1..Len(q) /\ i + 1 # 1
  BY <1>1
<1>3. IsInjective(Tail(q))
  BY <1>1, <1>2 DEF IsInjective
<1>4. \A i \in 1..Len(q) : i = 1 \/ (i - 1 \in 1..Len(q) - 1 /\ (i - 1) + 1 = i)
  BY <1>1
<1>5. Range(Tail(q)) \subseteq Range(q) \ {Head(q)}
  BY <1>1, <1>2 DEF IsInjective, Range
<1>6. Range(q) \ {Head(q)} \subseteq Range(Tail(q))
  <2> SUFFICES ASSUME NEW i \in 1..Len(q), q[i] # q[1] PROVE q[i] \in Range(Tail(q))
    BY <1>1 DEF Range
  <2>1. i - 1 \in 1..Len(q) - 1 /\ Tail(q)[i - 1] = q[i]
    BY <1>1, <1>4
  <2> QED
    BY <1>1, <2>1 DEF Range
<1>7. Head(q) \in S
  BY <1>1
<1>8. Head(q) \in Range(q)
  BY <1>1 DEF Range
<1>9. Range(Tail(q)) = Range(q) \ {Head(q)}
  BY <1>5, <1>6
<1> QED
  BY <1>1, <1>3, <1>7, <1>8, <1>9

LEMMA Joined ==
  ASSUME NEW S, NEW q \in Seq(S), NEW r \in Seq(S), IsInjective(q), IsInjective(r),
         Range(q) \intersect Range(r) = {}
  PROVE  q \o r \in Seq(S) /\ IsInjective(q \o r) /\ Range(q \o r) = Range(q) \union Range(r)
<1> DEFINE s == q \o r
<1>1. /\ Len(q) \in Nat /\ Len(r) \in Nat /\ DOMAIN q = 1..Len(q) /\ DOMAIN r = 1..Len(r)
      /\ s \in Seq(S) /\ DOMAIN s = 1..Len(q) + Len(r)
      /\ \A i \in 1..Len(q) : s[i] = q[i]
      /\ \A i \in 1..Len(r) : s[Len(q) + i] = r[i]
  OBVIOUS
<1> HIDE DEF s
<1>2. \A i \in DOMAIN s : \/ i \in 1..Len(q) /\ s[i] = q[i]
                          \/ i - Len(q) \in 1..Len(r) /\ s[i] = r[i - Len(q)]
  <2> TAKE i \in DOMAIN s
  <2>1. CASE i <= Len(q)
    BY <1>1, <2>1
  <2>2. CASE ~(i <= Len(q))
    <3>1. i - Len(q) \in 1..Len(r) /\ Len(q) + (i - Len(q)) = i
      BY <1>1, <2>2
    <3> QED
      BY <1>1, <3>1
  <2> QED
    BY <2>1, <2>2
<1>3. Range(s) \subseteq Range(q) \union Range(r)
  BY <1>1, <1>2 DEF Range
<1>4. Range(q) \union Range(r) \subseteq Range(s)
  <2>1. \A i \in 1..Len(q) : i \in DOMAIN s
    BY <1>1
  <2>2. \A i \in 1..Len(r) : Len(q) + i \in DOMAIN s
    BY <1>1
  <2> QED
    BY <1>1, <2>1, <2>2 DEF Range
<1>5. ASSUME NEW i \in DOMAIN s, NEW j \in DOMAIN s, s[i] = s[j]
      PROVE  i = j
  <2>1. CASE i \in 1..Len(q) /\ s[i] = q[i] /\ j \in 1..Len(q) /\ s[j] = q[j]
    BY <1>1, <1>5, <2>1 DEF IsInjective
  <2>2. CASE /\ i - Len(q) \in 1..Len(r) /\ s[i] = r[i - Len(q)]
             /\ j - Len(q) \in 1..Len(r) /\ s[j] = r[j - Len(q)]
    <3>1. i - Len(q) = j - Len(q)
      BY <1>1, <1>5, <2>2 DEF IsInjective
    <3> QED
      BY <1>1, <3>1
  <2>3. \A k, l : k \in 1..Len(q) /\ l \in 1..Len(r) => q[k] # r[l]
    BY <1>1 DEF Range
  <2> QED
    BY <1>2, <1>5, <2>1, <2>2, <2>3
<1> QED
  BY <1>1, <1>3, <1>4, <1>5 DEF IsInjective, s

\* One more is sorted, on which nothing depends that is not sorted yet.
LEMMA SortedOne ==
  ASSUME GraphOK, sorted \in Seq(Vertices), IsInjective(sorted), OrderedOK, edges' = edges,
         NEW u \in Unsorted, Dependents(u, Unsorted) = {}, sorted' = Append(sorted, u)
  PROVE  /\ sorted' \in Seq(Vertices) /\ IsInjective(sorted)' /\ OrderedOK'
         /\ Unsorted' = Unsorted \ {u} /\ Range(sorted)' = Range(sorted) \union {u}
<1>1. /\ Len(sorted) \in Nat /\ DOMAIN sorted = 1..Len(sorted) /\ u \in Vertices
      /\ sorted' \in Seq(Vertices) /\ DOMAIN sorted' = 1..Len(sorted) + 1
      /\ Len(sorted') = Len(sorted) + 1
      /\ sorted'[Len(sorted) + 1] = u /\ \A i \in 1..Len(sorted) : sorted'[i] = sorted[i]
      /\ Vertices' = Vertices
  BY SameGraph DEF Unsorted
<1>2. \A i \in 1..Len(sorted) + 1 : i \in 1..Len(sorted) \/ i = Len(sorted) + 1
  BY <1>1
<1>3. \A i \in 1..Len(sorted) : i \in 1..Len(sorted) + 1 /\ sorted[i] # u
  BY <1>1 DEF Unsorted, Range
<1>4. Range(sorted)' = Range(sorted) \union {u}
  <2>1. Len(sorted) + 1 \in 1..Len(sorted) + 1
    BY <1>1
  <2> QED
    BY <1>1, <1>2, <1>3, <2>1 DEF Range
<1>5. IsInjective(sorted)'
  BY <1>1, <1>2, <1>3 DEF IsInjective
<1>6. OrderedOK'
  <2> SUFFICES ASSUME NEW j \in 1..Len(sorted) + 1, NEW w \in Vertices, sorted'[j] \in edges[w]
               PROVE  \E i \in 1..j - 1 : sorted'[i] = w
    BY <1>1 DEF OrderedOK
  <2>1. CASE j \in 1..Len(sorted)
    <3>1. PICK i \in 1..j - 1 : sorted[i] = w
      BY <1>1, <2>1 DEF OrderedOK
    <3>2. i \in 1..Len(sorted)
      BY <1>1, <2>1
    <3> QED
      BY <1>1, <3>1, <3>2
  <2>2. CASE j = Len(sorted) + 1
    <3>1. w \in Range(sorted)
      BY <1>1, <2>2 DEF Unsorted, Dependents
    <3>2. PICK i \in 1..Len(sorted) : sorted[i] = w
      BY <1>1, <3>1 DEF Range
    <3>3. i \in 1..j - 1
      BY <1>1, <2>2
    <3> QED
      BY <1>1, <3>2, <3>3
  <2> QED
    BY <1>2, <2>1, <2>2
<1> QED
  BY <1>1, <1>4, <1>5, <1>6 DEF Unsorted

LEMMA DequeueOK ==
  ASSUME GraphOK, KahnOK, Dequeue
  PROVE  KahnOK'
<1> DEFINE u == Head(queue)
           next == {v \in edges[u] : inDegree'[v] = 0}
<1>1. /\ queue # <<>> /\ sorted' = Append(sorted, u) /\ edges' = edges
      /\ inDegree' = [v \in Vertices |-> IF v \in edges[u] THEN inDegree[v] - 1 ELSE inDegree[v]]
      /\ \E q \in SetToSeqs(next) : queue' = Tail(queue) \o q
  BY DEF Dequeue
<1>2. PICK q \in SetToSeqs(next) : queue' = Tail(queue) \o q
  BY <1>1
<1>3. /\ u \in Range(queue) /\ u \in Vertices
      /\ Tail(queue) \in Seq(Vertices) /\ IsInjective(Tail(queue))
      /\ Range(Tail(queue)) = Range(queue) \ {u}
  BY <1>1, HeadAndTail DEF KahnOK
<1>4. u \in Unsorted /\ Dependents(u, Unsorted) = {}
  BY <1>3 DEF KahnOK
<1> HIDE DEF u
<1>5. /\ sorted' \in Seq(Vertices) /\ IsInjective(sorted)' /\ OrderedOK'
      /\ Unsorted' = Unsorted \ {u}
  BY <1>1, <1>4, SortedOne DEF KahnOK
<1> DEFINE rest == Unsorted \ {u}
<1>6. ASSUME NEW v \in Vertices
      PROVE  /\ inDegree'[v] = Cardinality(Dependents(v, rest))
             /\ inDegree'[v] = 0 <=> Dependents(v, rest) = {}
  <2>1. /\ inDegree[v] = Cardinality(Dependents(v, Unsorted)) /\ Unsorted \in SUBSET Vertices
        /\ rest \in SUBSET Vertices
    BY DEF KahnOK, Unsorted
  <2>2. IsFiniteSet(Dependents(v, Unsorted)) /\ Cardinality(Dependents(v, Unsorted)) \in Nat
    BY <2>1, DependentsFinite
  <2>3. Dependents(v, rest) = Dependents(v, Unsorted) \ {u}
    BY DEF Dependents
  <2>4. u \in Dependents(v, Unsorted) <=> v \in edges[u]
    BY <1>4 DEF Dependents
  <2>5. Cardinality(Dependents(v, rest)) =
          IF v \in edges[u] THEN Cardinality(Dependents(v, Unsorted)) - 1
          ELSE Cardinality(Dependents(v, Unsorted))
    BY <2>2, <2>3, <2>4, FS_RemoveElement
  <2>6. inDegree'[v] = IF v \in edges[u] THEN inDegree[v] - 1 ELSE inDegree[v]
    BY <1>1
  <2>7. Cardinality(Dependents(v, rest)) = 0 <=> Dependents(v, rest) = {}
    BY <2>1, DependentsFinite
  <2> QED
    BY <2>1, <2>5, <2>6, <2>7
<1>7. IsFiniteSet(next) /\ next \in SUBSET Vertices
  <2>1. next \in SUBSET Vertices
    BY <1>3 DEF GraphOK
  <2> QED
    BY <2>1, FS_Subset DEF GraphOK
<1>8. q \in Seq(next) /\ IsInjective(q) /\ Range(q) = next
  <2> HIDE DEF next
  <2> QED
    BY <1>7, InSomeOrder
<1>9. ASSUME NEW v \in next
      PROVE  /\ v \in rest /\ Dependents(v, rest) = {} /\ Dependents(v, Unsorted) # {}
  <2>1. v \in Vertices /\ v \in edges[u] /\ Dependents(v, rest) = {}
    BY <1>6, <1>7
  <2>2. u \in Dependents(v, Unsorted)
    BY <1>4, <2>1 DEF Dependents
  <2>3. v # u
    BY <1>4, <2>2
  <2>4. v \notin Range(sorted)
    <3>1. ASSUME NEW j \in 1..Len(sorted), sorted[j] = v
          PROVE  FALSE
      <4>1. PICK i \in 1..j - 1 : sorted[i] = u
        BY <1>3, <2>1, <3>1 DEF KahnOK, OrderedOK
      <4>2. i \in DOMAIN sorted
        BY DEF KahnOK
      <4> QED
        BY <1>4, <4>1, <4>2 DEF Unsorted, Range
    <3>2. DOMAIN sorted = 1..Len(sorted)
      BY DEF KahnOK
    <3> QED
      BY <3>1, <3>2 DEF Range
  <2> QED
    BY <2>1, <2>2, <2>3, <2>4 DEF Unsorted
<1>10. Range(Tail(queue)) \intersect next = {}
  BY <1>3, <1>9 DEF KahnOK
<1>11. /\ queue' \in Seq(Vertices) /\ IsInjective(queue)'
       /\ Range(queue)' = Range(Tail(queue)) \union next
  <2>1. q \in Seq(Vertices)
    BY <1>7, <1>8
  <2> HIDE DEF next
  <2> DEFINE t == Tail(queue)
  <2>2. t \in Seq(Vertices) /\ IsInjective(t) /\ Range(t) \intersect Range(q) = {}
    BY <1>3, <1>8, <1>10
  <2> HIDE DEF t
  <2>3. /\ t \o q \in Seq(Vertices) /\ IsInjective(t \o q)
        /\ Range(t \o q) = Range(t) \union Range(q)
    BY <1>8, <2>1, <2>2, Joined
  <2> QED
    BY <1>2, <1>8, <2>3, Zenon DEF t
<1>12. Range(Tail(queue)) \union next = {v \in rest : Dependents(v, rest) = {}}
  <2>1. ASSUME NEW v \in Range(Tail(queue))
        PROVE  v \in rest /\ Dependents(v, rest) = {}
    BY <1>3 DEF KahnOK, Dependents
  <2>2. ASSUME NEW v \in rest, Dependents(v, rest) = {}
        PROVE  v \in Range(Tail(queue)) \union next
    <3>1. CASE Dependents(v, Unsorted) = {}
      BY <1>3, <3>1 DEF KahnOK
    <3>2. CASE Dependents(v, Unsorted) # {}
      <4>1. v \in edges[u]
        BY <2>2, <3>2 DEF Dependents
      <4>2. v \in Vertices
        BY DEF Unsorted
      <4> QED
        BY <1>6, <2>2, <4>1, <4>2
    <3> QED
      BY <3>1, <3>2
  <2> HIDE DEF next, rest
  <2> QED
    BY <1>9, <2>1, <2>2
<1> HIDE DEF rest, next
<1>13. Vertices' = Vertices /\ Cyclic' = Cyclic /\ ~Cyclic
  BY <1>1, SameGraph DEF KahnOK
<1>14. Unsorted' = rest
  BY <1>5 DEF rest
<1> QED
  BY <1>1, <1>5, <1>6, <1>11, <1>12, <1>13, <1>14 DEF KahnOK, Dependents

\* The queue runs dry only when all is sorted.
LEMMA AllSorted ==
  ASSUME GraphOK, KahnOK, queue = <<>>
  PROVE  SortedOK /\ Len(sorted) = Cardinality(Vertices)
<1>1. Range(queue) = {}
  BY DEF Range
<1>2. Unsorted = {}
  <2>1. Unsorted \in SUBSET Vertices
    BY DEF Unsorted
  <2>2. \A v \in Unsorted : Dependents(v, Unsorted) # {}
    BY <1>1 DEF KahnOK
  <2>3. ~\E v \in Unsorted : \A u \in Unsorted : v \notin edges[u]
    BY <2>2 DEF Dependents
  <2> QED
    BY <2>1, <2>3, HasSource DEF KahnOK
<1>3. Range(sorted) = Vertices
  BY <1>2 DEF Unsorted, Range, KahnOK
<1>4. sorted \in [1..Len(sorted) -> Vertices] /\ Len(sorted) \in Nat
  BY DEF KahnOK
<1>5. sorted \in Injection(1..Len(sorted), Vertices)
  BY <1>4 DEF KahnOK, Injection, IsInjective
<1>6. sorted \in Surjection(1..Len(sorted), Vertices)
  BY <1>3, <1>4 DEF Surjection, Range
<1>7. Cardinality(1..Len(sorted)) = Cardinality(Vertices)
  BY <1>5, <1>6, FS_Injection DEF GraphOK
<1>8. Cardinality(1..Len(sorted)) = Len(sorted)
  <2>1. \A n \in Nat : Cardinality(1..n) = n
    BY FS_Interval
  <2> QED
    BY <1>4, <2>1
<1> QED
  BY <1>3, <1>7, <1>8 DEF SortedOK, KahnOK

-----------------------------------------------------------------------------
\* The levels.

\* Each vertex remains or has one level, and what depends on it has an earlier one.
LevelsOK ==
  /\ levels \in Seq(SUBSET Vertices)
  /\ remaining \in SUBSET Vertices
  /\ \A v \in Vertices : v \in remaining <=> \A i \in 1..Len(levels) : v \notin levels[i]
  /\ \A i, j \in 1..Len(levels) : \A v \in levels[i] : v \in levels[j] => i = j
  /\ \A i \in 1..Len(levels) :
       /\ levels[i] # {}
       /\ \A v \in levels[i] : \A u \in Vertices :
            v \in edges[u] => \E j \in 1..i - 1 : u \in levels[j]

CountsOK == \A v \in remaining : inDegree[v] = Cardinality(Dependents(v, remaining))

LEMMA EndSortOK ==
  ASSUME GraphOK, KahnOK, levels = <<>>, NEW parallel \in BOOLEAN, EndSort(parallel)
  PROVE  /\ SortedOK' /\ LevelsOK' /\ CountsOK' /\ edges' = edges
         /\ phase' = IF parallel THEN "level" ELSE "sorted"
<1>1. /\ queue = <<>> /\ UNCHANGED <<edges, sorted, levels>>
      /\ inDegree' = InDegree(Range(sorted)) /\ remaining' = Range(sorted)
      /\ phase' = CASE Len(sorted) # Cardinality(Vertices) -> "cycle"
                    [] Len(sorted) = Cardinality(Vertices) /\ parallel -> "level"
                    [] OTHER -> "sorted"
  BY DEF EndSort, search
<1>2. SortedOK /\ Len(sorted) = Cardinality(Vertices)
  BY <1>1, AllSorted
<1>3. phase' = IF parallel THEN "level" ELSE "sorted"
  <2>1. CASE parallel
    BY <1>1, <1>2, <2>1
  <2>2. CASE ~parallel
    BY <1>1, <1>2, <2>2
  <2> QED
    BY <2>1, <2>2
<1>4. Vertices' = Vertices /\ Cyclic' = Cyclic
  BY <1>1, SameGraph
<1>5. SortedOK'
  BY <1>1, <1>2, <1>4 DEF SortedOK, OrderedOK
<1>6. Range(sorted) = Vertices
  BY <1>2 DEF SortedOK
<1>7. LevelsOK'
  BY <1>1, <1>4, <1>6 DEF LevelsOK
<1>8. CountsOK'
  BY <1>1, <1>6 DEF CountsOK, InDegree, Dependents
<1> QED
  BY <1>1, <1>3, <1>5, <1>7, <1>8

LEMMA LevelStep ==
  ASSUME GraphOK, ~Cyclic, LevelsOK, CountsOK, Level
  PROVE  LevelsOK' /\ CountsOK' /\ edges' = edges /\ sorted' = sorted /\ phase' = "level"
<1> DEFINE current == {v \in remaining : inDegree[v] = 0}
           n == Len(levels)
<1>1. /\ remaining # {} /\ edges' = edges /\ sorted' = sorted
      /\ phase' = IF current = {} THEN "cycle" ELSE "level"
      /\ levels' = Append(levels, current) /\ remaining' = remaining \ current
      /\ inDegree' = [v \in Vertices |->
                        IF v \in remaining'
                        THEN inDegree[v] - Cardinality({u \in current : v \in edges[u]})
                        ELSE inDegree[v]]
  BY DEF Level
<1>2. remaining \in SUBSET Vertices
  BY DEF LevelsOK
<1>3. current = {v \in remaining : Dependents(v, remaining) = {}}
  BY <1>2, DependentsFinite DEF CountsOK
<1>4. current # {} /\ current \in SUBSET Vertices
  <2>1. PICK v \in remaining : \A u \in remaining : v \notin edges[u]
    BY <1>1, <1>2, HasSource
  <2>2. v \in current
    BY <1>3, <2>1 DEF Dependents
  <2> QED
    BY <1>2, <2>2
<1> HIDE DEF current
<1>5. /\ n \in Nat /\ Len(levels') = n + 1 /\ levels' \in Seq(SUBSET Vertices)
      /\ levels'[n + 1] = current /\ \A i \in 1..n : levels'[i] = levels[i]
      /\ Vertices' = Vertices
  BY <1>1, <1>4, SameGraph DEF LevelsOK
<1>6. \A i \in 1..n + 1 : i \in 1..n \/ i = n + 1
  BY <1>5
<1>7. \A i \in 1..n : i \in 1..n + 1 /\ i # n + 1
  BY <1>5
<1>8. \A v \in current : \A i \in 1..n : v \notin levels[i]
  BY <1>3, <1>4 DEF LevelsOK
<1>9. ASSUME NEW v \in Vertices
      PROVE  v \in remaining' <=> \A i \in 1..n + 1 : v \notin levels'[i]
  <2>1. v \in remaining <=> \A i \in 1..n : v \notin levels[i]
    BY DEF LevelsOK
  <2>2. n + 1 \in 1..n + 1
    BY <1>5
  <2> HIDE DEF n
  <2> QED
    BY <1>1, <1>5, <1>6, <1>7, <2>1, <2>2
<1>10. ASSUME NEW i \in 1..n + 1, NEW j \in 1..n + 1, NEW v \in levels'[i], v \in levels'[j]
       PROVE  i = j
  BY <1>5, <1>6, <1>8, <1>10 DEF LevelsOK
<1>11. ASSUME NEW i \in 1..n + 1
       PROVE  /\ levels'[i] # {}
              /\ \A v \in levels'[i] : \A u \in Vertices :
                   v \in edges[u] => \E j \in 1..i - 1 : u \in levels'[j]
  <2>1. CASE i \in 1..n
    <3>1. \A j \in 1..i - 1 : j \in 1..n
      BY <1>5, <2>1
    <3> QED
      BY <1>5, <2>1, <3>1 DEF LevelsOK
  <2>2. CASE i = n + 1
    <3> SUFFICES ASSUME NEW v \in current, NEW u \in Vertices, v \in edges[u]
                 PROVE  \E j \in 1..n : u \in levels'[j]
      BY <1>4, <1>5, <2>2
    <3>1. u \notin remaining
      BY <1>3 DEF Dependents
    <3> QED
      BY <1>5, <3>1 DEF LevelsOK
  <2> QED
    BY <1>6, <2>1, <2>2
<1>12. LevelsOK'
  <2>1. remaining' \in SUBSET Vertices
    BY <1>1, <1>2
  <2> HIDE DEF n
  <2> QED
    BY <1>1, <1>5, <1>9, <1>10, <1>11, <2>1 DEF LevelsOK
<1>13. ASSUME NEW v \in remaining'
       PROVE  inDegree'[v] = Cardinality(Dependents(v, remaining'))
  <2> DEFINE from == {u \in current : v \in edges[u]}
  <2>1. v \in remaining /\ v \in Vertices
    BY <1>1, <1>2
  <2>2. /\ IsFiniteSet(Dependents(v, remaining))
        /\ inDegree[v] = Cardinality(Dependents(v, remaining))
    BY <1>2, <2>1, DependentsFinite DEF CountsOK
  <2>3. /\ Dependents(v, remaining') = Dependents(v, remaining) \ from
        /\ Dependents(v, remaining) \intersect from = from
    BY <1>1, <1>3 DEF Dependents
  <2>4. Cardinality(Dependents(v, remaining')) = Cardinality(Dependents(v, remaining)) - Cardinality(from)
    BY <2>2, <2>3, FS_Difference, ZenonT(60)
  <2> QED
    BY <1>1, <2>1, <2>2, <2>4
<1>14. CountsOK'
  BY <1>1, <1>13 DEF CountsOK, Dependents
<1> QED
  BY <1>1, <1>4, <1>12, <1>14

-----------------------------------------------------------------------------
\* The inductive invariant.

CallPhases == {"init", "prepare", "start", "finalize", "shutdown"}

NoCalls == \A c \in CallPhases : done[c] = <<>>

CycleOK ==
  phase = "cycle" => Cyclic /\ IsPath(cyclePath) /\ Len(cyclePath) > 1 /\ cyclePath[1] = Last(cyclePath)

\* From the sort on, and whenever there are calls, the order is there; there is none
\* to begin with.
HasOrder == phase \in {"level", "sorted", "planned", "running"} \union CallPhases \/ ~NoCalls

OrderOK ==
  /\ phase = "detect" => sorted = <<>>
  /\ phase \in {"detect", "sort"} => levels = <<>>
  /\ phase = "sort" => KahnOK
  /\ HasOrder => SortedOK

LevelPart ==
  /\ use = "plan" /\ phase \in {"level", "sorted", "planned"} => LevelsOK
  /\ phase = "level" => CountsOK
  /\ use = "plan" /\ phase \in {"sorted", "planned"} => remaining = {}
  /\ phase = "planned" => steps = Reverse(levels)

\* The phases of either use; there are no calls before the sort is done.
FlowOK ==
  /\ use \in {"assemble", "plan"}
  /\ use = "plan" => phase \in {"detect", "cycle", "sort", "level", "sorted", "planned", "refused"}
  /\ use = "assemble" => phase \in {"detect", "cycle", "sort", "sorted", "running", "panic", "down"} \union CallPhases
  /\ phase \in {"detect", "cycle", "sort", "level", "sorted"} \/ use = "plan" => NoCalls

\* The graph is the one of the system or the definition, which has passed what is
\* checked of it.
InputOK ==
  /\ use = "assemble" =>
       /\ input \in Systems
       /\ IF MissingService(input) THEN phase = "panic" /\ NoCalls ELSE edges = AssemblyGraph(input)
  /\ use = "plan" =>
       /\ input \in Definitions
       /\ edges = Graph(DOMAIN input.dependsOn, input.dependsOn)
       /\ phase # "refused" =>
            ~Unknown(input) /\ (input.type = "deploy" => validateActivitySchema(input))

Complete(i) == Len(done[Calls[i]]) = Len(CallOrder)

\* The assemblies that went through a call are the first of the call order; all have
\* gone through the calls before, and what went through Init is registered.
CallsOK ==
  /\ DOMAIN done = CallPhases
  /\ \A c \in CallPhases :
       /\ done[c] \in Seq(Vertices)
       /\ \A k \in 1..Len(done[c]) : k <= Len(CallOrder) /\ done[c][k] = CallOrder[k]
  /\ \A i, j \in 1..5 : i < j /\ (done[Calls[j]] # <<>> \/ phase = Calls[j]) => Complete(i)
  /\ phase = "running" => \A i \in 1..3 : Complete(i)
  /\ \A a \in Range(done["init"]) : input.provides[a] \subseteq registry

AInv ==
  /\ GraphOK /\ SearchOK /\ CycleOK /\ OrderOK /\ LevelPart
  /\ FlowOK /\ InputOK /\ CallsOK

LEMMA CallNames ==
  /\ Range(Calls) = CallPhases /\ DOMAIN Calls = 1..5
  /\ Calls[1] = "init" /\ Calls[2] = "prepare" /\ Calls[3] = "start"
  /\ Calls[4] = "finalize" /\ Calls[5] = "shutdown"
  /\ \A i \in 1..5 : Calls[i] \in CallPhases
  /\ \A c \in CallPhases : \E i \in 1..5 : c = Calls[i]
  /\ \A i, j \in 1..5 : Calls[i] = Calls[j] => i = j
<1>1. /\ DOMAIN Calls = 1..5 /\ Calls[1] = "init" /\ Calls[2] = "prepare" /\ Calls[3] = "start"
      /\ Calls[4] = "finalize" /\ Calls[5] = "shutdown"
  BY DEF Calls
<1>2. \A i : i \in 1..5 <=> i = 1 \/ i = 2 \/ i = 3 \/ i = 4 \/ i = 5
  OBVIOUS
<1>3. Range(Calls) = CallPhases
  BY <1>1, <1>2 DEF Range, CallPhases
<1> QED
  BY <1>1, <1>2, <1>3 DEF CallPhases

\* Registered assemblies are finitely many.
LEMMA RangeFinite ==
  ASSUME NEW s, s \in Seq(Range(s))
  PROVE  IsFiniteSet(Range(s))
<1> DEFINE n == Len(s)
<1>1. n \in Nat /\ s \in [1..n -> Range(s)]
  OBVIOUS
<1>2. \A x \in Range(s) : \E i \in 1..n : s[i] = x
  BY <1>1 DEF Range
<1>3. s \in Surjection(1..n, Range(s))
  BY <1>1, <1>2 DEF Surjection
<1> HIDE DEF n
<1>4. IsFiniteSet(1..n)
  BY <1>1, FS_Interval
<1> QED
  BY <1>3, <1>4, FS_Surjection

LEMMA GraphIs ==
  ASSUME NEW set, NEW dependsOn, edges = Graph(set, dependsOn), IsFiniteSet(set)
  PROVE  GraphOK /\ Vertices = set /\ \A v \in set : edges[v] = dependsOn[v] \intersect set
<1>1. edges = [v \in set |-> dependsOn[v] \intersect set]
  BY DEF Graph
<1>2. Vertices = set
  BY <1>1 DEF Vertices
<1> QED
  BY <1>1, <1>2 DEF GraphOK

LEMMA InitInv ==
  ASSUME Init
  PROVE  AInv
<1>1. /\ done = [c \in CallPhases |-> <<>>] /\ registry = {} /\ NoCalls
      /\ use \in {"assemble", "plan"} /\ phase \in {"detect", "panic", "refused"}
      /\ use = "assemble" => phase # "refused"
      /\ use = "plan" => phase # "panic"
  BY CallNames DEF Init, InitSystem, InitDefinition, Idle, NoCalls
<1>2. /\ visitState = [v \in Vertices |-> "unvisited"] /\ parent = [v \in Vertices |-> v]
      /\ stack = <<>> /\ sorted = <<>> /\ levels = <<>>
  BY DEF Init, Idle, NewSearch
<1>3. GraphOK
  <2>1. CASE InitDefinition
    BY <2>1, GraphIs, AssemblyAssumption DEF InitDefinition
  <2>2. CASE InitSystem /\ MissingService(input)
    <3>1. edges = <<>>
      BY <2>2 DEF InitSystem
    <3>2. Vertices = {}
      BY <3>1 DEF Vertices
    <3> QED
      BY <3>2, FS_EmptySet DEF GraphOK
  <2>3. CASE InitSystem /\ ~MissingService(input)
    <3>1. edges = AssemblyGraph(input) /\ input \in Systems
      BY <2>3 DEF InitSystem
    <3>2. IsFiniteSet(Range(input.order))
      BY <3>1, RangeFinite, AssemblyAssumption
    <3> QED
      BY <3>1, <3>2, GraphIs DEF AssemblyGraph
  <2> QED
    BY <2>1, <2>2, <2>3 DEF Init
<1>4. SearchOK
  BY <1>2 DEF SearchOK, SearchTypeOK, StackOK, LeftOK, VisitedOK
<1>5. CycleOK /\ LevelPart /\ FlowOK
  BY <1>1 DEF CycleOK, LevelPart, FlowOK
<1>6. OrderOK
  BY <1>1, <1>2 DEF OrderOK, HasOrder, CallPhases
<1>7. InputOK
  <2>1. CASE InitDefinition
    BY <2>1 DEF InitDefinition, InputOK
  <2>2. CASE InitSystem
    BY <1>1, <2>2 DEF InitSystem, InputOK
  <2> QED
    BY <2>1, <2>2 DEF Init
<1>8. CallsOK
  <2>1. CallOrder = <<>>
    BY <1>2 DEF CallOrder, Reverse
  <2>2. \A i \in 1..5 : done[Calls[i]] = <<>> /\ phase # Calls[i]
    BY <1>1, CallNames DEF CallPhases
  <2>3. Range(done["init"]) = {}
    BY <1>1 DEF CallPhases, Range
  <2>4. phase # "running"
    BY <1>1
  <2> QED
    BY <1>1, <2>1, <2>2, <2>3, <2>4 DEF CallsOK
<1> QED
  BY <1>3, <1>4, <1>5, <1>6, <1>7, <1>8 DEF AInv

-----------------------------------------------------------------------------
\* The steps of the sort.

\* What the users keep as long as the sort goes on.
LEMMA StillSorting ==
  ASSUME AInv, edges' = edges, UNCHANGED <<user, runtime, steps>>,
         phase \in {"detect", "sort", "level"},
         phase' \in {"detect", "cycle", "sort", "level", "sorted"},
         phase' = "level" => use = "plan"
  PROVE  FlowOK' /\ InputOK' /\ CallsOK' /\ NoCalls /\ NoCalls'
<1>1. UNCHANGED <<use, input, done, registry, signal>>
  BY DEF user, runtime
<1>2. NoCalls /\ NoCalls'
  BY <1>1 DEF AInv, FlowOK, NoCalls
<1>3. FlowOK'
  BY <1>1, <1>2 DEF AInv, FlowOK
<1>4. InputOK'
  BY <1>1, <1>2 DEF AInv, InputOK
<1>5. CallsOK'
  <2>1. DOMAIN done = CallPhases /\ Range(done["init"]) = {}
    BY <1>2 DEF AInv, CallsOK, NoCalls, CallPhases, Range
  <2>2. \A i \in 1..5 : done[Calls[i]] = <<>> /\ phase' # Calls[i]
    BY <1>2, CallNames DEF NoCalls, CallPhases
  <2>3. phase' # "running"
    OBVIOUS
  <2>4. \A c \in CallPhases : done'[c] = <<>>
    BY <1>2 DEF NoCalls
  <2> QED
    <3>1. /\ DOMAIN done' = CallPhases
          /\ \A a \in Range(done'["init"]) : input'.provides[a] \subseteq registry'
      BY <1>1, <2>1
    <3>2. \A c \in CallPhases :
            /\ done'[c] \in Seq(Vertices')
            /\ \A k \in 1..Len(done'[c]) : k <= Len(CallOrder') /\ done'[c][k] = CallOrder'[k]
      <4>1. \A set : <<>> \in Seq(set)
        OBVIOUS
      <4>2. 1..Len(<<>>) = {}
        OBVIOUS
      <4> QED
        BY <2>4, <4>1, <4>2
    <3>3. \A i \in 1..5 : done'[Calls[i]] = <<>> /\ phase' # Calls[i]
      BY <1>1, <2>2
    <3> QED
      BY <2>3, <3>1, <3>2, <3>3 DEF CallsOK
<1> QED
  BY <1>2, <1>3, <1>4, <1>5

\* The search goes on, or ends in a cycle.
LEMMA SearchInv ==
  ASSUME AInv, UNCHANGED <<user, runtime, steps>>,
         (\E v \in Vertices : Root(v)) \/ Descend \/ Ascend
  PROVE  AInv'
<1>1. /\ phase = "detect" /\ phase' \in {"detect", "cycle"} /\ edges' = edges /\ UNCHANGED order
      /\ levels' = levels /\ SearchOK'
      /\ phase' = "cycle" => Cyclic /\ IsPath(cyclePath') /\ Len(cyclePath') > 1
                             /\ cyclePath'[1] = Last(cyclePath')
  <2>1. CASE \E v \in Vertices : Root(v)
    BY <2>1, RootSearch DEF AInv, Root, grouping
  <2>2. CASE Descend
    BY <2>2, DescendSearch DEF AInv, Descend, grouping
  <2>3. CASE Ascend
    BY <2>3, AscendSearch DEF AInv, Ascend, grouping
  <2> QED
    BY <2>1, <2>2, <2>3
<1>2. FlowOK' /\ InputOK' /\ CallsOK' /\ NoCalls /\ NoCalls'
  BY <1>1, StillSorting
<1>3. GraphOK' /\ Cyclic' = Cyclic
  BY <1>1, SameGraph DEF AInv
<1>4. CycleOK'
  BY <1>1, <1>3 DEF CycleOK, IsPath
<1>5. sorted' = <<>> /\ levels' = <<>>
  BY <1>1 DEF AInv, OrderOK, order
<1>6. OrderOK' /\ LevelPart'
  BY <1>1, <1>2, <1>5 DEF OrderOK, LevelPart, HasOrder, CallPhases
<1> QED
  BY <1>1, <1>2, <1>3, <1>4, <1>6 DEF AInv

LEMMA BeginSortInv ==
  ASSUME AInv, UNCHANGED <<user, runtime, steps>>, BeginSort
  PROVE  AInv'
<1>1. /\ phase = "detect" /\ phase' = "sort" /\ edges' = edges /\ levels' = levels
      /\ UNCHANGED <<visitState, parent, stack, sorted>>
  BY DEF BeginSort, search, grouping
<1>2. FlowOK' /\ InputOK' /\ CallsOK' /\ NoCalls /\ NoCalls'
  BY <1>1, StillSorting
<1>3. GraphOK' /\ SearchOK' /\ CycleOK'
  BY <1>1, SameGraph, SearchUnchanged DEF AInv, CycleOK
<1>4. sorted = <<>> /\ levels' = <<>>
  BY <1>1 DEF AInv, OrderOK
<1>5. KahnOK'
  BY <1>4, BeginSortOK DEF AInv
<1>6. OrderOK' /\ LevelPart'
  BY <1>1, <1>2, <1>4, <1>5 DEF OrderOK, LevelPart, HasOrder, CallPhases
<1> QED
  BY <1>2, <1>3, <1>6 DEF AInv

LEMMA DequeueInv ==
  ASSUME AInv, UNCHANGED <<user, runtime, steps>>, Dequeue
  PROVE  AInv'
<1>1. /\ phase = "sort" /\ phase' = "sort" /\ edges' = edges /\ levels' = levels
      /\ UNCHANGED <<visitState, parent, stack>>
  BY DEF Dequeue, search, grouping
<1>2. FlowOK' /\ InputOK' /\ CallsOK' /\ NoCalls /\ NoCalls'
  BY <1>1, StillSorting
<1>3. GraphOK' /\ SearchOK' /\ CycleOK'
  BY <1>1, SameGraph, SearchUnchanged DEF AInv, CycleOK
<1>4. KahnOK' /\ levels' = <<>>
  BY <1>1, DequeueOK DEF AInv, OrderOK
<1>5. OrderOK' /\ LevelPart'
  BY <1>1, <1>2, <1>4 DEF OrderOK, LevelPart, HasOrder, CallPhases
<1> QED
  BY <1>2, <1>3, <1>5 DEF AInv

LEMMA EndSortInv ==
  ASSUME AInv, UNCHANGED <<user, runtime, steps>>, EndSort(use = "plan")
  PROVE  AInv'
<1>1. phase = "sort" /\ use' = use /\ UNCHANGED <<visitState, parent, stack>>
  BY DEF EndSort, search, user
<1>2. /\ SortedOK' /\ LevelsOK' /\ CountsOK' /\ edges' = edges
      /\ phase' = IF use = "plan" THEN "level" ELSE "sorted"
  BY <1>1, EndSortOK DEF AInv, OrderOK
<1>3. phase' \in {"level", "sorted"}
  BY <1>2
<1>4. FlowOK' /\ InputOK' /\ CallsOK' /\ NoCalls /\ NoCalls'
  BY <1>1, <1>2, <1>3, StillSorting
<1>5. GraphOK' /\ SearchOK' /\ CycleOK'
  BY <1>1, <1>2, <1>3, SameGraph, SearchUnchanged DEF AInv, CycleOK
<1>6. OrderOK'
  BY <1>2, <1>3 DEF OrderOK
<1>7. LevelPart'
  BY <1>1, <1>2, <1>3 DEF LevelPart
<1> QED
  BY <1>4, <1>5, <1>6, <1>7 DEF AInv

LEMMA LevelInv ==
  ASSUME AInv, UNCHANGED <<user, runtime, steps>>, Level
  PROVE  AInv'
<1>1. phase = "level" /\ use' = use /\ UNCHANGED <<visitState, parent, stack>>
  BY DEF Level, search, user
<1>2. SortedOK /\ use = "plan" /\ LevelsOK /\ CountsOK
  BY <1>1 DEF AInv, OrderOK, HasOrder, FlowOK, LevelPart, CallPhases
<1>3. LevelsOK' /\ CountsOK' /\ edges' = edges /\ sorted' = sorted /\ phase' = "level"
  BY <1>2, LevelStep DEF AInv, SortedOK
<1>4. FlowOK' /\ InputOK' /\ CallsOK' /\ NoCalls /\ NoCalls'
  BY <1>1, <1>2, <1>3, StillSorting
<1>5. GraphOK' /\ SearchOK' /\ CycleOK'
  BY <1>1, <1>3, SameGraph, SearchUnchanged DEF AInv, CycleOK
<1>6. SortedOK'
  BY <1>2, <1>3, SameGraph DEF SortedOK, OrderedOK
<1>7. OrderOK' /\ LevelPart'
  BY <1>3, <1>6 DEF OrderOK, LevelPart
<1> QED
  BY <1>4, <1>5, <1>7 DEF AInv

LEMMA EndLevelsInv ==
  ASSUME AInv, UNCHANGED <<user, runtime, steps>>, EndLevels
  PROVE  AInv'
<1>1. /\ phase = "level" /\ phase' = "sorted" /\ use' = use /\ edges' = edges /\ remaining = {}
      /\ UNCHANGED <<visitState, parent, stack, sorted, remaining, levels>>
  BY DEF EndLevels, search, user, order, grouping
<1>2. SortedOK /\ use = "plan" /\ LevelsOK
  BY <1>1 DEF AInv, OrderOK, HasOrder, FlowOK, LevelPart, CallPhases
<1>3. FlowOK' /\ InputOK' /\ CallsOK' /\ NoCalls /\ NoCalls'
  BY <1>1, StillSorting
<1>4. GraphOK' /\ SearchOK' /\ CycleOK'
  BY <1>1, SameGraph, SearchUnchanged DEF AInv, CycleOK
<1>5. SortedOK' /\ LevelsOK'
  BY <1>1, <1>2, SameGraph DEF SortedOK, OrderedOK, LevelsOK
<1>6. OrderOK' /\ LevelPart'
  BY <1>1, <1>5 DEF OrderOK, LevelPart
<1> QED
  BY <1>3, <1>4, <1>6 DEF AInv

LEMMA SortInv ==
  ASSUME AInv, Sort
  PROVE  AInv'
<1>1. UNCHANGED <<user, runtime, steps>>
  BY DEF Sort
<1>2. \/ (\E v \in Vertices : Root(v)) \/ Descend \/ Ascend
      \/ BeginSort \/ Dequeue \/ EndSort(use = "plan") \/ Level \/ EndLevels
  BY DEF Sort, SortStep
<1> QED
  BY <1>1, <1>2, SearchInv, BeginSortInv, DequeueInv, EndSortInv, LevelInv, EndLevelsInv

-----------------------------------------------------------------------------
\* The call order.

\* Every assembly is called once, after the assemblies it requires.
LEMMA CallOrderIs ==
  ASSUME SortedOK
  PROVE  /\ CallOrder \in Seq(Vertices) /\ Len(CallOrder) \in Nat
         /\ IsInjective(CallOrder) /\ Range(CallOrder) = Vertices
         /\ \A k \in 1..Len(CallOrder) : \A u \in edges[CallOrder[k]] :
              u \in Vertices => \E l \in 1..k - 1 : CallOrder[l] = u
<1> DEFINE n == Len(sorted)
<1>1. n \in Nat /\ sorted \in [1..n -> Vertices] /\ DOMAIN sorted = 1..n
  BY DEF SortedOK
<1>2. CallOrder = [i \in 1..n |-> sorted[n - i + 1]]
  BY DEF CallOrder, Reverse
<1>3. \A i \in 1..n : n - i + 1 \in 1..n /\ n - (n - i + 1) + 1 = i
  BY <1>1
<1>4. CallOrder \in [1..n -> Vertices] /\ DOMAIN CallOrder = 1..n
  BY <1>1, <1>2, <1>3
<1>5. CallOrder \in Seq(Vertices) /\ Len(CallOrder) = n
  <2>1. CallOrder \in Seq(Vertices)
    BY <1>1, <1>4
  <2> QED
    BY <1>1, <1>4, <2>1
<1>6. IsInjective(CallOrder)
  <2> SUFFICES ASSUME NEW i \in 1..n, NEW j \in 1..n, CallOrder[i] = CallOrder[j]
               PROVE  i = j
    BY <1>4 DEF IsInjective
  <2>1. n - i + 1 = n - j + 1
    BY <1>1, <1>2, <1>3 DEF SortedOK, IsInjective
  <2> QED
    BY <1>1, <2>1
<1>7. Range(CallOrder) = Vertices
  <2>1. ASSUME NEW v \in Vertices
        PROVE  v \in Range(CallOrder)
    <3>1. PICK i \in 1..n : sorted[i] = v
      BY <1>1 DEF SortedOK, Range
    <3>2. CallOrder[n - i + 1] = v /\ n - i + 1 \in 1..n
      BY <1>2, <1>3, <3>1
    <3> QED
      BY <1>4, <3>2 DEF Range
  <2> QED
    BY <1>4, <2>1 DEF Range
<1>8. ASSUME NEW k \in 1..n, NEW u \in edges[CallOrder[k]], u \in Vertices
      PROVE  \E l \in 1..k - 1 : CallOrder[l] = u
  <2>1. PICK j \in 1..n : sorted[j] = u
    BY <1>1, <1>8 DEF SortedOK, Range
  <2>2. /\ CallOrder[k] = sorted[n - k + 1] /\ n - k + 1 \in 1..n
        /\ CallOrder[k] \in Vertices
    BY <1>2, <1>3, <1>4
  <2>3. PICK i \in 1..j - 1 : sorted[i] = CallOrder[k]
    BY <1>1, <1>8, <2>1, <2>2 DEF SortedOK, OrderedOK
  <2>4. i = n - k + 1
    <3>1. i \in 1..n
      BY <1>1, <2>1
    <3> QED
      BY <1>1, <2>2, <2>3, <3>1 DEF SortedOK, IsInjective
  <2>5. n - j + 1 \in 1..k - 1 /\ n - j + 1 \in 1..n
    BY <1>1, <2>1, <2>3, <2>4
  <2>6. CallOrder[n - j + 1] = u
    BY <1>2, <1>3, <2>1, <2>5
  <2> QED
    BY <2>5, <2>6
<1> HIDE DEF n
<1> QED
  BY <1>1, <1>5, <1>6, <1>7, <1>8

-----------------------------------------------------------------------------
\* The steps of the users.

\* What lasts while the graph and its order do.
LEMMA Kept ==
  ASSUME AInv, UNCHANGED <<edges, search, order, grouping>>
  PROVE  /\ GraphOK' /\ SearchOK' /\ (SortedOK => SortedOK') /\ (LevelsOK => LevelsOK')
         /\ Vertices' = Vertices /\ CallOrder' = CallOrder /\ Cyclic' = Cyclic
         /\ sorted' = sorted /\ levels' = levels /\ remaining' = remaining /\ edges' = edges
<1>1. UNCHANGED <<edges, visitState, parent, stack, cyclePath, inDegree, queue, sorted, remaining, levels>>
  BY DEF search, order, grouping
<1>2. GraphOK' /\ SearchOK' /\ Vertices' = Vertices /\ Cyclic' = Cyclic
  BY <1>1, SameGraph, SearchUnchanged DEF AInv
<1>3. CallOrder' = CallOrder
  BY <1>1 DEF CallOrder
<1>4. SortedOK => SortedOK'
  BY <1>1, <1>2 DEF SortedOK, OrderedOK
<1>5. LevelsOK => LevelsOK'
  BY <1>1, <1>2 DEF LevelsOK
<1> QED
  BY <1>1, <1>2, <1>3, <1>4, <1>5

\* Steps of the assembler after the sort.
LEMMA AfterSort ==
  ASSUME AInv, use = "assemble", UNCHANGED <<user, edges, search, order, grouping>>,
         phase \notin {"detect", "sort", "level", "panic"},
         phase' \notin {"detect", "sort", "level", "cycle", "sorted", "planned", "refused"},
         phase' \in CallPhases \union {"running", "panic", "down"},
         HasOrder' => HasOrder, CallsOK'
  PROVE  AInv'
<1>1. GraphOK' /\ SearchOK' /\ (SortedOK => SortedOK') /\ use' = use /\ input' = input /\ edges' = edges
  BY Kept DEF user
<1>2. OrderOK'
  BY <1>1 DEF AInv, OrderOK
<1>3. CycleOK' /\ FlowOK'
  BY <1>1 DEF CycleOK, FlowOK, CallPhases
<1>4. LevelPart'
  BY <1>1 DEF LevelPart
<1>5. InputOK'
  BY <1>1 DEF AInv, InputOK, AssemblyGraph
<1> QED
  BY <1>1, <1>2, <1>3, <1>4, <1>5 DEF AInv

\* Calls that stay as they are.
LEMMA CallsStay ==
  ASSUME CallsOK, UNCHANGED <<done, registry, input>>, Vertices' = Vertices, CallOrder' = CallOrder,
         \A i, j \in 1..5 : i < j /\ phase' = Calls[j] => Complete(i),
         phase' = "running" => \A i \in 1..3 : Complete(i)
  PROVE  CallsOK'
<1>1. \A i : Complete(i)' = Complete(i)
  BY DEF Complete
<1> QED
  BY <1>1 DEF CallsOK

LEMMA BeginCallsInv ==
  ASSUME AInv, BeginCalls
  PROVE  AInv'
<1>1. /\ use = "assemble" /\ phase \in {"sorted", "cycle"}
      /\ phase' = IF phase = "sorted" THEN "init" ELSE "panic"
      /\ UNCHANGED <<user, edges, search, order, grouping>> /\ UNCHANGED <<done, registry>>
      /\ input' = input
  BY DEF BeginCalls, user, runtime
<1>2. CallsOK'
  BY <1>1, Kept, CallsStay, CallNames DEF AInv
<1>3. NoCalls /\ NoCalls'
  BY <1>1 DEF AInv, FlowOK, NoCalls
<1>4. HasOrder' => HasOrder
  BY <1>1, <1>3 DEF HasOrder, CallPhases
<1> QED
  BY <1>1, <1>2, <1>4, AfterSort DEF CallPhases

LEMMA BeginShutdownInv ==
  ASSUME AInv, BeginShutdown
  PROVE  AInv'
<1>1. /\ phase = "running" /\ phase' = "finalize"
      /\ UNCHANGED <<user, edges, search, order, grouping>> /\ UNCHANGED <<done, registry>>
      /\ input' = input
  BY DEF BeginShutdown, user, runtime
<1>2. CallsOK'
  <2>1. \A i \in 1..3 : Complete(i)
    BY <1>1 DEF AInv, CallsOK
  <2>2. \A i, j \in 1..5 : i < j /\ phase' = Calls[j] => i \in 1..3
    BY <1>1, CallNames
  <2> QED
    BY <1>1, <2>1, <2>2, Kept, CallsStay DEF AInv
<1>3. HasOrder /\ use = "assemble"
  BY <1>1 DEF AInv, FlowOK, HasOrder, CallPhases
<1> QED
  BY <1>1, <1>2, <1>3, AfterSort DEF CallPhases

LEMMA InstantiateInv ==
  ASSUME AInv, Instantiate
  PROVE  AInv'
<1>1. /\ use = "plan" /\ phase \in {"sorted", "cycle"}
      /\ phase' = IF phase = "sorted" THEN "planned" ELSE "refused"
      /\ steps' = IF phase = "sorted" THEN Reverse(levels) ELSE <<>>
      /\ UNCHANGED <<edges, search, order, grouping>> /\ UNCHANGED <<done, registry, use, input>>
  BY DEF Instantiate, user, runtime
<1>2. /\ GraphOK' /\ SearchOK' /\ (SortedOK => SortedOK') /\ (LevelsOK => LevelsOK')
      /\ levels' = levels /\ remaining' = remaining /\ edges' = edges
  BY <1>1, Kept
<1>3. CallsOK'
  BY <1>1, Kept, CallsStay, CallNames DEF AInv
<1>4. NoCalls /\ NoCalls'
  BY <1>1 DEF AInv, FlowOK, NoCalls
<1>5. OrderOK' /\ CycleOK' /\ FlowOK'
  BY <1>1, <1>2, <1>4 DEF AInv, OrderOK, HasOrder, CycleOK, FlowOK, CallPhases
<1>6. LevelPart'
  BY <1>1, <1>2 DEF AInv, LevelPart
<1>7. InputOK'
  BY <1>1, <1>2 DEF AInv, InputOK, Unknown, validateActivitySchema, Duplicated, mergedOutputs
<1> QED
  BY <1>2, <1>3, <1>5, <1>6, <1>7 DEF AInv

LEMMA CallNextInv ==
  ASSUME AInv, NEW call \in CallPhases, CallNext(call)
  PROVE  AInv'
<1> DEFINE n == Len(done[call])
           a == CallOrder[n + 1]
<1>1. /\ phase = call /\ n < Len(CallOrder) /\ done' = [done EXCEPT ![call] = Append(@, a)]
      /\ registry' = IF call = "init" THEN registry \union input.provides[a] ELSE registry
      /\ UNCHANGED <<user, edges, search, order, grouping>> /\ phase' = phase
  BY DEF CallNext, sorting
<1>2. HasOrder /\ use = "assemble" /\ input' = input
  BY <1>1 DEF AInv, FlowOK, HasOrder, CallPhases, user
<1>3. /\ Vertices' = Vertices /\ CallOrder' = CallOrder
      /\ CallOrder \in Seq(Vertices) /\ Len(CallOrder) \in Nat
  BY <1>1, <1>2, Kept, CallOrderIs DEF AInv, OrderOK
<1>4. /\ CallsOK /\ DOMAIN done = CallPhases /\ done[call] \in Seq(Vertices) /\ n \in Nat
      /\ n + 1 \in 1..Len(CallOrder) /\ a \in Vertices
  <2>1. CallsOK /\ DOMAIN done = CallPhases /\ done[call] \in Seq(Vertices) /\ n \in Nat
    BY DEF AInv, CallsOK
  <2>2. n + 1 \in 1..Len(CallOrder)
    BY <1>1, <1>3, <2>1
  <2> HIDE DEF n
  <2> QED
    BY <1>3, <2>1, <2>2
<1>5. /\ DOMAIN done' = CallPhases /\ done'[call] = Append(done[call], a)
      /\ \A c \in CallPhases : c # call => done'[c] = done[c]
  BY <1>1, <1>4
<1>6. /\ done'[call] \in Seq(Vertices) /\ Len(done'[call]) = n + 1
      /\ done'[call][n + 1] = a /\ \A k \in 1..n : done'[call][k] = done[call][k]
      /\ Range(done'[call]) = Range(done[call]) \union {a}
  <2>1. /\ done'[call] \in Seq(Vertices) /\ Len(done'[call]) = n + 1
        /\ done'[call][n + 1] = a /\ \A k \in 1..n : done'[call][k] = done[call][k]
        /\ DOMAIN done'[call] = 1..n + 1 /\ DOMAIN done[call] = 1..n
    <3> HIDE DEF a
    <3> QED
      BY <1>4, <1>5
  <2>2. \A k \in 1..n + 1 : k \in 1..n \/ k = n + 1
    BY <1>4
  <2>3. n + 1 \in 1..n + 1 /\ \A k \in 1..n : k \in 1..n + 1
    BY <1>4
  <2> HIDE DEF n, a
  <2> QED
    BY <2>1, <2>2, <2>3 DEF Range
<1> HIDE DEF a
<1>7. ASSUME NEW c \in CallPhases
      PROVE  /\ done'[c] \in Seq(Vertices)
             /\ \A k \in 1..Len(done'[c]) : k <= Len(CallOrder) /\ done'[c][k] = CallOrder[k]
  <2>1. CASE c = call
    <3>1. \A k \in 1..n + 1 : k \in 1..n \/ k = n + 1
      BY <1>4
    <3>2. n + 1 <= Len(CallOrder) /\ CallOrder[n + 1] = a
      BY <1>3, <1>4 DEF a
    <3>3. \A k \in 1..n : k <= Len(CallOrder) /\ done[call][k] = CallOrder[k]
      BY <1>4 DEF CallsOK
    <3> HIDE DEF n
    <3> QED
      BY <1>6, <2>1, <3>1, <3>2, <3>3
  <2>2. CASE c # call
    BY <1>4, <1>5, <2>2 DEF CallsOK
  <2> QED
    BY <2>1, <2>2
<1>8. ASSUME NEW i \in 1..5, Complete(i)
      PROVE  Complete(i)'
  <2>1. Calls[i] # call
    BY <1>1, <1>3, <1>4, <1>8 DEF Complete
  <2>2. done'[Calls[i]] = done[Calls[i]]
    BY <1>5, <2>1, CallNames
  <2> QED
    BY <1>3, <1>8, <2>2 DEF Complete
<1>9. ASSUME NEW i \in 1..5, NEW j \in 1..5, i < j, done'[Calls[j]] # <<>> \/ phase' = Calls[j]
      PROVE  Complete(i)'
  <2>1. done[Calls[j]] # <<>> \/ phase = Calls[j]
    BY <1>1, <1>5, <1>9, CallNames
  <2>2. Complete(i)
    BY <1>4, <1>9, <2>1 DEF CallsOK
  <2> QED
    BY <1>8, <2>2
<1>10. ASSUME NEW b \in Range(done'["init"])
       PROVE  input.provides[b] \subseteq registry'
  <2>1. CASE call = "init"
    <3>1. b \in Range(done["init"]) \/ b = a
      BY <1>6, <1>10, <2>1
    <3>2. \A c \in Range(done["init"]) : input.provides[c] \subseteq registry
      BY <1>4 DEF CallsOK
    <3>3. registry' = registry \union input.provides[a]
      BY <1>1, <2>1 DEF a
    <3> QED
      BY <3>1, <3>2, <3>3
  <2>2. CASE call # "init"
    <3>1. registry' = registry /\ done'["init"] = done["init"]
      BY <1>1, <1>5, <2>2 DEF CallPhases
    <3>2. \A c \in Range(done["init"]) : input.provides[c] \subseteq registry
      BY <1>4 DEF CallsOK
    <3> QED
      BY <1>10, <3>1, <3>2
  <2> QED
    BY <2>1, <2>2
<1>11. phase' # "running"
  BY <1>1 DEF CallPhases
<1>12. CallsOK'
  BY <1>2, <1>3, <1>5, <1>7, <1>9, <1>10, <1>11 DEF CallsOK
<1> QED
  BY <1>1, <1>2, <1>12, AfterSort DEF CallPhases

LEMMA CallFailsInv ==
  ASSUME AInv, NEW call \in CallPhases, CallFails(call)
  PROVE  AInv'
<1>1. /\ phase = call /\ phase' \in {"down", "panic"}
      /\ UNCHANGED <<user, edges, search, order, grouping>> /\ UNCHANGED <<done, registry>>
      /\ input' = input
  BY DEF CallFails, user, runtime
<1>2. CallsOK'
  BY <1>1, Kept, CallsStay, CallNames DEF AInv, CallPhases
<1>3. HasOrder /\ use = "assemble"
  BY <1>1 DEF AInv, FlowOK, HasOrder, CallPhases
<1> QED
  BY <1>1, <1>2, <1>3, AfterSort DEF CallPhases

LEMMA EndCallsInv ==
  ASSUME AInv, NEW call \in CallPhases, EndCalls(call)
  PROVE  AInv'
<1>1. /\ phase = call /\ phase' = Following(call) /\ Len(done[call]) = Len(CallOrder)
      /\ UNCHANGED <<user, edges, search, order, grouping>> /\ UNCHANGED <<done, registry>>
      /\ input' = input
  BY DEF EndCalls, user, runtime
<1>2. PICK k \in 1..5 : call = Calls[k]
  BY CallNames
<1>3. Complete(k) /\ \A i \in 1..5 : i < k => Complete(i)
  BY <1>1, <1>2 DEF AInv, CallsOK, Complete
<1>4. /\ Following("init") = "prepare" /\ Following("prepare") = "start"
      /\ Following("start") = "running" /\ Following("finalize") = "shutdown"
      /\ Following("shutdown") = "down"
  BY DEF Following
<1>5. \/ k = 1 /\ phase' = "prepare"
      \/ k = 2 /\ phase' = "start"
      \/ k = 3 /\ phase' = "running"
      \/ k = 4 /\ phase' = "shutdown"
      \/ k = 5 /\ phase' = "down"
  <2>1. k = 1 \/ k = 2 \/ k = 3 \/ k = 4 \/ k = 5
    OBVIOUS
  <2> QED
    BY <1>1, <1>2, <1>4, <2>1, CallNames
<1>6. \A i, j \in 1..5 : i < j /\ phase' = Calls[j] => Complete(i)
  <2> SUFFICES ASSUME NEW i \in 1..5, NEW j \in 1..5, i < j, phase' = Calls[j]
               PROVE  Complete(i)
    OBVIOUS
  <2>1. j = 1 \/ j = 2 \/ j = 3 \/ j = 4 \/ j = 5
    OBVIOUS
  <2>2. j = k + 1
    BY <1>5, <2>1, CallNames
  <2> QED
    BY <1>3, <2>2
<1>7. phase' = "running" => \A i \in 1..3 : Complete(i)
  <2>1. phase' = "running" => k = 3
    BY <1>5
  <2>2. \A i \in 1..3 : i \in 1..5 /\ (i < 3 \/ i = 3)
    OBVIOUS
  <2> QED
    BY <1>3, <2>1, <2>2
<1>8. CallsOK'
  BY <1>1, <1>6, <1>7, Kept, CallsStay DEF AInv
<1>9. HasOrder /\ use = "assemble"
  BY <1>1 DEF AInv, FlowOK, HasOrder, CallPhases
<1> QED
  BY <1>1, <1>5, <1>8, <1>9, AfterSort DEF CallPhases

\* The signal changes nothing else.
LEMMA SignalInv ==
  ASSUME AInv, UNCHANGED <<user, done, registry, steps, sorting>>
  PROVE  AInv'
<1>1. /\ UNCHANGED <<edges, search, order, grouping>>
      /\ UNCHANGED <<use, input, done, registry, steps, phase, cyclePath, queue, inDegree>>
  BY DEF user, sorting, search, order
<1>2. /\ GraphOK' /\ SearchOK' /\ (SortedOK => SortedOK') /\ (LevelsOK => LevelsOK')
      /\ Vertices' = Vertices /\ CallOrder' = CallOrder /\ Cyclic' = Cyclic
      /\ sorted' = sorted /\ levels' = levels /\ remaining' = remaining /\ edges' = edges
  BY <1>1, Kept
<1>3. CycleOK'
  BY <1>1, <1>2 DEF AInv, CycleOK, IsPath
<1>4. (KahnOK => KahnOK') /\ (CountsOK => CountsOK') /\ (HasOrder' => HasOrder)
  BY <1>1, <1>2 DEF KahnOK, OrderedOK, Unsorted, Dependents, CountsOK, HasOrder, NoCalls
<1>5. OrderOK' /\ LevelPart' /\ FlowOK'
  BY <1>1, <1>2, <1>4 DEF AInv, OrderOK, LevelPart, FlowOK, NoCalls
<1>6. InputOK'
  BY <1>1, <1>2 DEF AInv, InputOK, NoCalls, AssemblyGraph, Unknown, validateActivitySchema,
                    Duplicated, mergedOutputs, MissingService
<1>7. CallsOK'
  BY <1>1, <1>2, CallsStay DEF AInv, CallsOK
<1> QED
  BY <1>2, <1>3, <1>5, <1>6, <1>7 DEF AInv

LEMMA NextInv ==
  ASSUME AInv, [Next]_vars
  PROVE  AInv'
<1>1. CASE Sort
  BY <1>1, SortInv
<1>2. CASE BeginCalls
  BY <1>2, BeginCallsInv
<1>3. CASE Signal
  BY <1>3, SignalInv DEF Signal
<1>4. CASE BeginShutdown
  BY <1>4, BeginShutdownInv
<1>5. CASE Instantiate
  BY <1>5, InstantiateInv
<1>6. CASE UNCHANGED vars
  BY <1>6, SignalInv DEF vars, runtime
<1>7. ASSUME NEW call \in CallPhases, CallNext(call) \/ CallFails(call) \/ EndCalls(call)
      PROVE  AInv'
  BY <1>7, CallNextInv, CallFailsInv, EndCallsInv
<1> QED
  BY <1>1, <1>2, <1>3, <1>4, <1>5, <1>6, <1>7, CallNames DEF Next, Terminated

\* The invariant holds in every state: of the search, the sort and the levels that
\* pkg dag works on, and of what its two users have done since.
THEOREM AssemblyInvariant == Spec => []AInv
<1>1. Init => AInv
  BY InitInv
<1>2. AInv /\ [Next]_vars => AInv'
  BY NextInv
<1> QED
  BY <1>1, <1>2, PTL DEF Spec

-----------------------------------------------------------------------------
\* What follows of the invariant.

LEMMA SortIsRightFollows ==
  ASSUME AInv
  PROVE  SortIsRight
<1>1. CycleOK /\ GraphOK
  BY DEF AInv
<1>2. ASSUME phase \in {"sorted", "level"}
      PROVE  /\ ~Cyclic /\ IsInjective(sorted) /\ Range(sorted) = Vertices
             /\ \A v \in Vertices : \A u \in edges[v] : IndexIn(v) < IndexIn(u)
  <2>1. SortedOK
    BY <1>2 DEF AInv, OrderOK, HasOrder
  <2>2. ASSUME NEW v \in Vertices
        PROVE  /\ IndexIn(v) \in 1..Len(sorted) /\ sorted[IndexIn(v)] = v
               /\ \A i \in 1..Len(sorted) : sorted[i] = v => i = IndexIn(v)
    <3>1. DOMAIN sorted = 1..Len(sorted)
      BY <2>1 DEF SortedOK
    <3>2. \E i \in DOMAIN sorted : sorted[i] = v
      BY <2>1 DEF SortedOK, Range
    <3>3. IndexIn(v) \in DOMAIN sorted /\ sorted[IndexIn(v)] = v
      BY <3>2 DEF IndexIn
    <3> QED
      BY <2>1, <3>1, <3>3 DEF SortedOK, IsInjective
  <2>3. ASSUME NEW v \in Vertices, NEW u \in edges[v]
        PROVE  IndexIn(v) < IndexIn(u)
    <3>1. u \in Vertices
      BY <1>1 DEF GraphOK
    <3>2. PICK i \in 1..IndexIn(u) - 1 : sorted[i] = v
      BY <2>1, <2>2, <3>1 DEF SortedOK, OrderedOK
    <3>3. IndexIn(u) \in 1..Len(sorted) /\ Len(sorted) \in Nat
      BY <2>1, <2>2, <3>1 DEF SortedOK
    <3>4. i \in 1..Len(sorted) /\ i < IndexIn(u)
      BY <3>3
    <3> QED
      BY <2>2, <3>2, <3>4
  <2> QED
    BY <2>1, <2>3 DEF SortedOK
<1> QED
  BY <1>1, <1>2 DEF SortIsRight, CycleOK

\* No service is missing: the assembly registered last of those that provide it has it.
LEMMA ProviderIs ==
  ASSUME NEW s, s.order \in Seq(Range(s.order)), ~MissingService(s),
         NEW a \in Range(s.order), NEW service \in s.requires[a]
  PROVE  /\ mappedAssemblies(s, service) \in Range(s.order)
         /\ service \in s.provides[mappedAssemblies(s, service)]
<1> DEFINE n == Len(s.order)
           those == {i \in 1..n : service \in s.provides[s.order[i]]}
           Last1(i) == /\ service \in s.provides[s.order[i]]
                       /\ \A j \in i + 1..n : service \notin s.provides[s.order[j]]
<1>1. n \in Nat /\ DOMAIN s.order = 1..n
  OBVIOUS
<1>2. those # {}
  <2>1. PICK b \in Range(s.order) : service \in s.provides[b]
    BY DEF MissingService
  <2>2. PICK i \in 1..n : s.order[i] = b
    BY <1>1 DEF Range
  <2> QED
    BY <2>1, <2>2
<1>3. PICK i \in those : \A j \in those : j <= i
  BY <1>1, <1>2, Greatest
<1>4. i \in DOMAIN s.order /\ Last1(i)
  <2>1. ASSUME NEW j \in i + 1..n
        PROVE  service \notin s.provides[s.order[j]]
    <3>1. j \in 1..n /\ ~(j <= i)
      BY <1>1
    <3> QED
      BY <1>3, <3>1
  <2> QED
    BY <1>1, <2>1
<1>5. LET k == CHOOSE k \in DOMAIN s.order : Last1(k)
      IN  mappedAssemblies(s, service) = s.order[k] /\ k \in DOMAIN s.order /\ Last1(k)
  BY <1>4 DEF mappedAssemblies
<1> QED
  BY <1>5 DEF Range

\* What went through a call is closed under what it requires.
LEMMA DoneClosed ==
  ASSUME AInv, NEW c \in CallPhases, done[c] # <<>>
  PROVE  /\ SortedOK /\ IsInjective(done[c]) /\ Range(done[c]) \in SUBSET Vertices
         /\ \A a \in Range(done[c]) : edges[a] \subseteq Range(done[c])
<1> DEFINE n == Len(done[c])
<1>1. SortedOK /\ GraphOK /\ CallsOK
  BY DEF AInv, OrderOK, HasOrder, NoCalls
<1>2. /\ n \in Nat /\ done[c] \in Seq(Vertices) /\ DOMAIN done[c] = 1..n
      /\ \A k \in 1..n : k <= Len(CallOrder) /\ done[c][k] = CallOrder[k]
  BY <1>1 DEF CallsOK
<1>3. /\ Len(CallOrder) \in Nat /\ IsInjective(CallOrder) /\ DOMAIN CallOrder = 1..Len(CallOrder)
      /\ \A k \in 1..Len(CallOrder) : \A u \in edges[CallOrder[k]] :
           u \in Vertices => \E l \in 1..k - 1 : CallOrder[l] = u
  BY <1>1, CallOrderIs
<1>4. \A k \in 1..n : k \in 1..Len(CallOrder)
  BY <1>2, <1>3
<1>5. IsInjective(done[c])
  BY <1>2, <1>3, <1>4 DEF IsInjective
<1>6. ASSUME NEW a \in Range(done[c]), NEW u \in edges[a]
      PROVE  u \in Range(done[c])
  <2>1. PICK k \in 1..n : done[c][k] = a
    BY <1>2 DEF Range
  <2>2. CallOrder[k] = a /\ a \in Vertices /\ u \in Vertices
    BY <1>1, <1>2, <2>1 DEF GraphOK
  <2>3. PICK l \in 1..k - 1 : CallOrder[l] = u
    BY <1>3, <1>4, <2>2
  <2>4. l \in 1..n
    BY <1>2
  <2>5. done[c][l] = u
    BY <1>2, <2>3, <2>4
  <2> QED
    BY <1>2, <2>4, <2>5 DEF Range
<1>7. Range(done[c]) \in SUBSET Vertices
  BY <1>2 DEF Range
<1> QED
  BY <1>1, <1>5, <1>6, <1>7

\* All have gone through a call that is complete.
LEMMA AllDone ==
  ASSUME AInv, SortedOK, NEW i \in 1..5, Complete(i)
  PROVE  Range(done[Calls[i]]) = Vertices
<1> DEFINE s == done[Calls[i]]
<1>1. /\ s \in Seq(Vertices) /\ Len(s) = Len(CallOrder)
      /\ \A k \in 1..Len(s) : s[k] = CallOrder[k]
  BY CallNames DEF AInv, CallsOK, Complete
<1>2. CallOrder \in Seq(Vertices) /\ Range(CallOrder) = Vertices
  BY CallOrderIs
<1>3. DOMAIN s = 1..Len(s) /\ DOMAIN CallOrder = 1..Len(s)
  BY <1>1, <1>2
<1> HIDE DEF s
<1>4. Range(s) = Range(CallOrder)
  BY <1>1, <1>3 DEF Range
<1> QED
  BY <1>2, <1>4 DEF s

LEMMA CalledInOrderFollows ==
  ASSUME AInv
  PROVE  CalledInOrder
<1>1. SUFFICES ASSUME use = "assemble", NEW i \in 1..5
               PROVE  /\ IsInjective(done[Calls[i]])
                      /\ \A a \in Range(done[Calls[i]]) :
                           /\ input.requires[a] \subseteq registry
                           /\ i <= 3 => \A b \in Reaches(a) : Before(Calls[i], b)
                           /\ \A j \in 1..i - 1 : \A b \in Vertices : Before(Calls[j], b)
  BY CallNames DEF CalledInOrder
<1>2. Calls[i] \in CallPhases /\ CallsOK
  BY CallNames DEF AInv
<1>3. CASE done[Calls[i]] = <<>>
  BY <1>3 DEF Range, IsInjective
<1>4. CASE done[Calls[i]] # <<>>
  <2>1. /\ SortedOK /\ IsInjective(done[Calls[i]]) /\ Range(done[Calls[i]]) \in SUBSET Vertices
        /\ \A a \in Range(done[Calls[i]]) : edges[a] \subseteq Range(done[Calls[i]])
    BY <1>2, <1>4, DoneClosed
  <2>2. ASSUME NEW a \in Range(done[Calls[i]]), NEW b \in Reaches(a)
        PROVE  Before(Calls[i], b)
    <3>1. Closed(Range(done[Calls[i]]))
      BY <2>1 DEF Closed
    <3>2. Reaches(a) \subseteq Range(done[Calls[i]])
      BY <2>1, <3>1, ReachesLeast
    <3> QED
      BY <3>2 DEF Before
  <2>3. ASSUME NEW j \in 1..i - 1
        PROVE  Complete(j) /\ \A b \in Vertices : Before(Calls[j], b)
    <3>1. j \in 1..5 /\ j < i
      OBVIOUS
    <3>2. Complete(j)
      BY <1>2, <1>4, <3>1 DEF CallsOK
    <3> QED
      BY <2>1, <3>1, <3>2, AllDone DEF Before
  <2>4. ASSUME NEW a \in Range(done[Calls[i]]), NEW service \in input.requires[a]
        PROVE  service \in registry
    <3>1. /\ input \in Systems /\ ~MissingService(input) /\ edges = AssemblyGraph(input)
      <4>1. ~NoCalls
        BY <1>2, <1>4 DEF NoCalls
      <4> QED
        BY <1>1, <4>1 DEF AInv, InputOK
    <3>2. input.order \in Seq(Range(input.order))
      BY <3>1, AssemblyAssumption
    <3>3. /\ Vertices = Range(input.order)
          /\ \A v \in Vertices : edges[v] =
               {mappedAssemblies(input, x) : x \in input.requires[v]} \intersect Range(input.order)
      <4>1. edges = [v \in Range(input.order) |->
                       {mappedAssemblies(input, x) : x \in input.requires[v]} \intersect Range(input.order)]
        BY <3>1 DEF AssemblyGraph, Graph
      <4> QED
        BY <4>1 DEF Vertices
    <3>4. a \in Vertices
      BY <2>1
    <3> DEFINE b == mappedAssemblies(input, service)
    <3>5. b \in Range(input.order) /\ service \in input.provides[b]
      BY <3>1, <3>2, <3>3, <3>4, ProviderIs
    <3>6. b \in edges[a] /\ b \in Vertices
      BY <3>3, <3>4, <3>5
    <3> HIDE DEF b
    <3>7. b \in Range(done["init"])
      <4>1. CASE i = 1
        BY <2>1, <3>6, <4>1, CallNames
      <4>2. CASE i # 1
        BY <2>3, <3>6, <4>2, CallNames DEF Before
      <4> QED
        BY <4>1, <4>2
    <3> QED
      BY <1>2, <3>5, <3>7 DEF CallsOK
  <2> QED
    BY <2>1, <2>2, <2>3, <2>4
<1> QED
  BY <1>3, <1>4

\* The steps of a plan are the levels in reverse: each activity is in one step, and
\* what it depends on in steps before.
LEMMA StepsOK ==
  ASSUME AInv, phase = "planned"
  PROVE  LET n == Len(levels)
         IN  /\ n \in Nat /\ DOMAIN steps = 1..n
             /\ \A i \in 1..n : steps[i] \in SUBSET Vertices /\ steps[i] # {}
             /\ \A i, j \in 1..n : \A v \in steps[i] : v \in steps[j] => i = j
             /\ \A v \in Vertices : \E i \in 1..n : v \in steps[i]
             /\ \A i \in 1..n : \A u \in steps[i] : \A v \in edges[u] :
                  \E j \in 1..i - 1 : v \in steps[j]
<1> DEFINE n == Len(levels)
<1>1. /\ GraphOK /\ LevelsOK /\ remaining = {} /\ steps = Reverse(levels)
  BY DEF AInv, FlowOK, LevelPart, CallPhases
<1>2. n \in Nat /\ steps = [i \in 1..n |-> levels[n - i + 1]]
  BY <1>1 DEF LevelsOK, Reverse
<1>3. \A i \in 1..n : n - i + 1 \in 1..n /\ n - (n - i + 1) + 1 = i
  BY <1>2
<1>4. \A i \in 1..n : steps[i] = levels[n - i + 1] /\ levels[i] = steps[n - i + 1]
  BY <1>2, <1>3
<1>5. /\ \A i \in 1..n : levels[i] \in SUBSET Vertices /\ levels[i] # {}
      /\ \A i, j \in 1..n : \A v \in levels[i] : v \in levels[j] => i = j
      /\ \A v \in Vertices : \E i \in 1..n : v \in levels[i]
      /\ \A i \in 1..n : \A v \in levels[i] : \A u \in Vertices :
           v \in edges[u] => \E j \in 1..i - 1 : u \in levels[j]
  BY <1>1 DEF LevelsOK
<1>6. ASSUME NEW i \in 1..n, NEW j \in 1..n, NEW v \in steps[i], v \in steps[j]
      PROVE  i = j
  <2>1. v \in levels[n - i + 1] /\ v \in levels[n - j + 1]
    BY <1>4, <1>6
  <2>2. n - i + 1 \in 1..n /\ n - j + 1 \in 1..n
    BY <1>3
  <2>3. n - i + 1 = n - j + 1
    BY <1>5, <2>1, <2>2
  <2> QED
    BY <1>2, <2>3
<1>7. ASSUME NEW v \in Vertices
      PROVE  \E i \in 1..n : v \in steps[i]
  BY <1>3, <1>4, <1>5
<1>8. ASSUME NEW i \in 1..n, NEW u \in steps[i], NEW v \in edges[u]
      PROVE  \E j \in 1..i - 1 : v \in steps[j]
  <2>1. u \in Vertices /\ v \in Vertices
    BY <1>1, <1>3, <1>4, <1>5 DEF GraphOK
  <2>2. PICK k \in 1..n : v \in levels[k]
    BY <1>5, <2>1
  <2>3. PICK m \in 1..k - 1 : u \in levels[m]
    BY <1>5, <2>1, <2>2
  <2>4. m \in 1..n
    BY <1>2
  <2>5. m = n - i + 1
    BY <1>3, <1>4, <1>5, <2>3, <2>4, ZenonT(60)
  <2>6. n - k + 1 \in 1..i - 1 /\ v \in steps[n - k + 1]
    <3>1. n - k + 1 \in 1..i - 1
      BY <1>2, <2>3, <2>5
    <3> QED
      BY <1>4, <2>2, <3>1
  <2> QED
    BY <2>6
<1> HIDE DEF n
<1> QED
  BY <1>2, <1>3, <1>4, <1>5, <1>6, <1>7, <1>8 DEF n

LEMMA PlanIsSoundFollows ==
  ASSUME AInv
  PROVE  PlanIsSound
<1> SUFFICES ASSUME phase = "planned"
             PROVE  PlanIsSound
  BY DEF PlanIsSound
<1> DEFINE n == Len(levels)
           StepOf(a) == CHOOSE i \in DOMAIN steps : a \in steps[i]
           Earlier(a) == UNION {steps[i] : i \in 1..StepOf(a) - 1}
<1>1. /\ n \in Nat /\ DOMAIN steps = 1..n
      /\ \A i \in 1..n : steps[i] \in SUBSET Vertices /\ steps[i] # {}
      /\ \A i, j \in 1..n : \A v \in steps[i] : v \in steps[j] => i = j
      /\ \A v \in Vertices : \E i \in 1..n : v \in steps[i]
      /\ \A i \in 1..n : \A u \in steps[i] : \A v \in edges[u] :
           \E j \in 1..i - 1 : v \in steps[j]
  BY StepsOK
<1> HIDE DEF n
<1>2. ASSUME NEW a \in Vertices
      PROVE  /\ StepOf(a) \in 1..n /\ a \in steps[StepOf(a)]
             /\ \A i \in 1..n : a \in steps[i] => i = StepOf(a)
  <2>1. \E i \in DOMAIN steps : a \in steps[i]
    BY <1>1
  <2>2. StepOf(a) \in DOMAIN steps /\ a \in steps[StepOf(a)]
    BY <2>1
  <2> HIDE DEF StepOf
  <2> QED
    BY <1>1, <2>2
<1>3. UNION Range(steps) = Vertices
  BY <1>1 DEF Range
<1>4. ASSUME NEW i \in DOMAIN steps, NEW j \in DOMAIN steps, i # j
      PROVE  steps[i] \intersect steps[j] = {}
  BY <1>1, <1>4
<1> HIDE DEF StepOf
<1>5. ASSUME NEW a \in Vertices, NEW b \in Earlier(a)
      PROVE  b \in Vertices /\ StepOf(b) < StepOf(a)
  <2>1. PICK i \in 1..StepOf(a) - 1 : b \in steps[i]
    OBVIOUS
  <2>2. i \in 1..n /\ i < StepOf(a)
    BY <1>1, <1>2
  <2> QED
    BY <1>1, <1>2, <2>1, <2>2
<1>6. ASSUME NEW a \in Vertices
      PROVE  edges[a] \subseteq Earlier(a)
  BY <1>1, <1>2
<1>7. ASSUME NEW a \in Vertices, NEW b \in Reaches(a)
      PROVE  StepOf(b) < StepOf(a)
  <2>1. Earlier(a) \in SUBSET Vertices
    BY <1>5
  <2>2. ASSUME NEW u \in Earlier(a), NEW v \in edges[u]
        PROVE  v \in Earlier(a)
    <3>1. u \in Vertices /\ StepOf(u) < StepOf(a)
      BY <1>5
    <3>2. v \in Earlier(u)
      BY <1>6, <3>1
    <3>3. PICK i \in 1..StepOf(u) - 1 : v \in steps[i]
      BY <3>2
    <3>4. i \in 1..StepOf(a) - 1
      BY <1>2, <3>1
    <3> QED
      BY <3>3, <3>4
  <2>3. Closed(Earlier(a))
    BY <2>2 DEF Closed
  <2>4. Reaches(a) \subseteq Earlier(a)
    BY <1>6, <2>1, <2>3, ReachesLeast
  <2> QED
    BY <1>5, <2>4
<1>8. ASSUME input.type = "deploy", NEW a \in Vertices
      PROVE  input.required[a] \subseteq Given \union UNION {input.outputs[b] : b \in Earlier(a)}
  <2>1. /\ edges = Graph(DOMAIN input.dependsOn, input.dependsOn)
        /\ ~Unknown(input) /\ validateActivitySchema(input)
    BY <1>8 DEF AInv, InputOK, FlowOK, CallPhases
  <2>2. /\ Vertices = DOMAIN input.dependsOn
        /\ edges[a] = input.dependsOn[a] \intersect DOMAIN input.dependsOn
    <3>1. edges = [v \in DOMAIN input.dependsOn |-> input.dependsOn[v] \intersect DOMAIN input.dependsOn]
      BY <2>1 DEF Graph
    <3> QED
      BY <3>1 DEF Vertices
  <2>3. edges[a] = input.dependsOn[a]
    BY <2>1, <2>2 DEF Unknown
  <2>4. input.required[a] \subseteq Given \union UNION {input.outputs[b] : b \in input.dependsOn[a]}
    BY <2>1, <2>2 DEF validateActivitySchema, mergedOutputs
  <2>5. edges[a] \subseteq Earlier(a)
    BY <1>6
  <2> HIDE DEF Earlier
  <2> QED
    BY <2>3, <2>4, <2>5
<1> QED
  BY <1>1, <1>3, <1>4, <1>7, <1>8 DEF PlanIsSound, StepOf, Earlier

-----------------------------------------------------------------------------
\* SortIsRight: TopologicalSort and ParallelTopologicalSort report a cycle exactly if
\* the graph has one, with a path that is one, and put every vertex once and before
\* what it depends on, for every graph and whatever order its maps are iterated in.
THEOREM SortIsRightHolds == Spec => []SortIsRight
<1>1. AInv => SortIsRight
  BY SortIsRightFollows
<1> QED
  BY <1>1, AssemblyInvariant, PTL

\* CalledInOrder: Assemble calls Init, Prepare and Start of every assembly once and after those of
\* every assembly it requires, directly or not, with its services in the registry,
\* and each of the calls only when the one before has returned for all; Shutdown
\* follows a complete start.
THEOREM CalledInOrderHolds == Spec => []CalledInOrder
<1>1. AInv => CalledInOrder
  BY CalledInOrderFollows
<1> QED
  BY <1>1, AssemblyInvariant, PTL

\* PlanIsSound: InstantiateOrchestration puts every activity of a definition in one step, what it
\* depends on in earlier steps, and what a deploy activity requires is output there
\* or given.
THEOREM PlanIsSoundHolds == Spec => []PlanIsSound
<1>1. AInv => PlanIsSound
  BY PlanIsSoundFollows
<1> QED
  BY <1>1, AssemblyInvariant, PTL
=============================================================================
