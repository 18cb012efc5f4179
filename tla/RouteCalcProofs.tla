-------------------------- MODULE RouteCalcProofs --------------------------
(***************************************************************************)
(* Proofs about the route calculation, for every LSA table: its types, the *)
(* invariant of the rounds, that the distances they end with are the       *)
(* shortest ones and the next hops lead there, and that the binary search  *)
(* finds every entry of the table.                                         *)
(***************************************************************************)
EXTENDS RouteCalc, Induction, FiniteSetTheorems

\* What is known of the inputs.
Inputs ==
    /\ known \subseteq Node /\ Self \in known
    /\ valid \subseteq known
    /\ links \in [Node -> LinkLists]

\* Before the rounds no node has been visited, and all are infinitely far.
Fresh ==
    pc = "graph" => /\ visited = {}
                    /\ \A i \in known : prev[i] = NoHop /\ d[i] = Infinity

IType == Inputs /\ Fresh /\ TypeOK

-----------------------------------------------------------------------------
(* Types.                                                                  *)

\* The scan of an LSA ends at the first unknown node.
LEMMA ScannedKnown ==
    ASSUME NEW l \in LinkLists
    PROVE  Scanned(l) \subseteq known
<1>1. PICK k \in 0..MaxLinks : l \in [1..k -> Node]
  BY DEF LinkLists
<1>2. \A j \in DOMAIN l : j \in 1..j
  BY <1>1, RouteAssumption
<1> QED
  BY <1>2 DEF Scanned

LEMMA InitType == Init => IType
<1> SUFFICES ASSUME Init PROVE IType
  OBVIOUS
<1>1. Inputs
  <2>1. \A i \in DOMAIN links : links[i] \in LinkLists
    BY DEF Init
  <2> QED
    BY <2>1 DEF Init, Inputs
<1>2. Fresh
  BY DEF Init, Fresh
<1>3. TypeOK
  BY RouteAssumption DEF Init, TypeOK
<1> QED
  BY <1>1, <1>2, <1>3 DEF IType

\* The graph leads from known nodes to known nodes.
LEMMA GraphType == IType /\ ConstructGraph => IType'
<1> SUFFICES ASSUME IType, ConstructGraph PROVE IType'
  OBVIOUS
<1>1. Inputs'
  BY DEF IType, Inputs, ConstructGraph, inputs
<1>2. Fresh'
  BY DEF ConstructGraph, Fresh
<1>3. graph' \subseteq known \X known
  <2>1. \A r \in valid : r \in Node /\ links[r] \in LinkLists
    BY DEF IType, Inputs
  <2>2. \A r \in valid : Scanned(links[r]) \subseteq known
    BY <2>1, ScannedKnown
  <2> QED
    BY <2>2 DEF IType, Inputs, ConstructGraph
<1>4. known' = known /\ d' \in [known -> 0..Infinity]
  <2>1. 0 \in 0..Infinity
    BY RouteAssumption
  <2>2. d \in [known -> 0..Infinity]
    BY DEF IType, TypeOK
  <2> QED
    BY <2>1, <2>2 DEF ConstructGraph, inputs
<1>5. TypeOK'
  BY <1>3, <1>4 DEF IType, TypeOK, ConstructGraph, inputs
<1> QED
  BY <1>1, <1>2, <1>5 DEF IType

LEMMA RoundType ==
    ASSUME IType, NEW mini \in known, Round(mini)
    PROVE  IType'
<1>1. Inputs'
  BY DEF IType, Inputs, Round, inputs
<1>2. Fresh'
  BY DEF Round, Fresh
<1>3. known' = known /\ mini \in Node
  BY DEF Round, inputs, IType, Inputs
<1>4. d' \in [known -> 0..Infinity]
  <2>1. \A i \in known : d[i] \in 0..Infinity /\ d[mini] \in 0..Infinity
    BY DEF IType, TypeOK
  <2>2. \A i \in known : d[mini] + 1 < d[i] => d[mini] + 1 \in 0..Infinity
    BY <2>1, RouteAssumption
  <2> QED
    BY <2>1, <2>2 DEF Round
<1>5. prev' \in [known -> Node \cup {NoHop}]
  BY <1>3 DEF IType, TypeOK, Round
<1>6. TypeOK'
  BY <1>3, <1>4, <1>5 DEF IType, TypeOK, Round, inputs
<1> QED
  BY <1>1, <1>2, <1>6 DEF IType

LEMMA TypeStep == IType /\ [Next]_vars => IType'
<1> SUFFICES ASSUME IType, [Next]_vars PROVE IType'
  OBVIOUS
<1>1. CASE ConstructGraph
  BY <1>1, GraphType
<1>2. ASSUME NEW mini \in known, Round(mini) PROVE IType'
  BY <1>2, RoundType
<1>3. CASE FillRouteTable
  BY <1>3 DEF FillRouteTable, IType, Inputs, Fresh, TypeOK, inputs
<1>4. CASE Done \/ UNCHANGED vars
  BY <1>4 DEF Done, vars, IType, Inputs, Fresh, TypeOK, inputs
<1> QED
  BY <1>1, <1>2, <1>3, <1>4 DEF Next

LEMMA TypeHolds == Spec => []IType
<1> QED
  BY InitType, TypeStep, PTL DEF Spec

\* The graph has known nodes only, whatever LSAs came; distances stay between 0
\* and infinity.
THEOREM TypeInvariance == Spec => []TypeOK
<1>1. IType => TypeOK
  BY DEF IType
<1> QED
  BY <1>1, TypeHolds, PTL

-----------------------------------------------------------------------------
(* The rounds.                                                             *)

\* A round changes no distance and no predecessor of a visited node, nor of
\* the one it visits.
LEMMA VisitedStay ==
    ASSUME IType, RoundInvariant, NEW mini \in known, Round(mini),
           NEW i \in visited \cup {mini}
    PROVE  i \in known /\ d'[i] = d[i] /\ d[i] <= d[mini]
<1>1. i \in known /\ d[i] \in Nat /\ d[mini] \in Nat
  BY DEF IType, TypeOK
<1>2. d[i] <= d[mini]
  BY <1>1 DEF RoundInvariant, Round, IsNext
<1> QED
  BY <1>1, <1>2 DEF Round

LEMMA RoundStep ==
    ASSUME IType, RoundInvariant, NEW mini \in known, Round(mini)
    PROVE  RoundInvariant'
<1>1. /\ known' = known /\ graph' = graph
      /\ visited' = visited \cup {mini}
      /\ \A i \in known : d[i] \in Nat /\ d'[i] \in Nat /\ d'[i] <= d[i]
  <2>1. \A i \in known : d[i] \in Nat
    BY DEF IType, TypeOK
  <2> QED
    BY <2>1 DEF Round, inputs
<1>2. ASSUME NEW i \in known, prev'[i] # NoHop
      PROVE  /\ <<prev'[i], i>> \in graph /\ prev'[i] \in visited'
             /\ d'[i] = d'[prev'[i]] + 1
  <2>1. CASE <<mini, i>> \in graph /\ d[mini] + 1 < d[i]
    <3>1. prev'[i] = mini /\ d'[i] = d[mini] + 1
      BY <2>1 DEF Round
    <3> QED
      BY <1>1, <2>1, <3>1, VisitedStay
  <2>2. CASE ~(<<mini, i>> \in graph /\ d[mini] + 1 < d[i])
    <3>1. prev'[i] = prev[i] /\ d'[i] = d[i]
      BY <2>2 DEF Round
    <3>2. <<prev[i], i>> \in graph /\ prev[i] \in visited /\ d[i] = d[prev[i]] + 1
      BY <1>2, <3>1 DEF RoundInvariant, Round
    <3> QED
      BY <1>1, <3>1, <3>2, VisitedStay
  <2> QED
    BY <2>1, <2>2
<1>3. ASSUME NEW i \in visited', NEW j \in known, j \notin visited'
      PROVE  d'[i] <= d'[j]
  <2>1. i \in known /\ d'[i] = d[i] /\ d[i] <= d[mini] /\ d[mini] \in Nat
    BY <1>1, VisitedStay
  <2>2. d[mini] <= d[j]
    BY <1>1, <1>3 DEF Round, IsNext
  <2>3. d'[j] = d[j] \/ d'[j] = d[mini] + 1
    BY DEF Round
  <2> QED
    BY <1>1, <2>1, <2>2, <2>3
<1>4. ASSUME NEW i \in visited', NEW j \in known, <<i, j>> \in graph
      PROVE  d'[j] <= d'[i] + 1
  <2>1. i \in known /\ d'[i] = d[i]
    BY <1>1, VisitedStay
  <2>2. CASE i \in visited
    <3>1. d[j] <= d[i] + 1
      BY <1>4, <2>2 DEF RoundInvariant, Round
    <3> QED
      BY <1>1, <2>1, <3>1
  <2>3. CASE i = mini
    <3>1. d'[j] = d[mini] + 1 \/ (d'[j] = d[j] /\ ~(d[mini] + 1 < d[j]))
      BY <1>4, <2>3 DEF Round
    <3> QED
      BY <1>1, <2>1, <2>3, <3>1
  <2> QED
    BY <1>1, <2>2, <2>3
<1> QED
  BY <1>1, <1>2, <1>3, <1>4 DEF RoundInvariant

\* The loop invariant of dijkstra holds on every graph and in every order in
\* which nodes of equal distance are visited.
THEOREM RoundInvariance == Spec => []RoundInvariant
<1>1. Init => RoundInvariant
  BY DEF Init, RoundInvariant
<1>2. IType /\ RoundInvariant /\ [Next]_vars => RoundInvariant'
  <2> SUFFICES ASSUME IType, RoundInvariant, [Next]_vars PROVE RoundInvariant'
    OBVIOUS
  <2>1. CASE ConstructGraph
    BY <2>1 DEF ConstructGraph, RoundInvariant, IType, Fresh, inputs
  <2>2. ASSUME NEW mini \in known, Round(mini) PROVE RoundInvariant'
    BY <2>2, RoundStep
  <2>3. CASE FillRouteTable
    BY <2>3 DEF FillRouteTable, RoundInvariant
  <2>4. CASE Done \/ UNCHANGED vars
    BY <2>4 DEF Done, vars, RoundInvariant, inputs
  <2> QED
    BY <2>1, <2>2, <2>3, <2>4 DEF Next
<1> QED
  BY <1>1, <1>2, TypeHolds, PTL DEF Spec

-----------------------------------------------------------------------------
(* The distances at the end.                                               *)

\* A lower bound for the distances from Self: it grows by at most one along a
\* link of the graph.
LowerBound(f) ==
    /\ f \in [Node -> Nat] /\ f[Self] = 0
    /\ \A e \in graph : f[e[2]] <= f[e[1]] + 1

\* No distance in use is below any lower bound, so that none is too small.
NotTooSmall ==
    pc \in {"rounds", "table"} =>
        /\ d[Self] = 0
        /\ \A f \in [Node -> Nat] : LowerBound(f) =>
              \A i \in known : d[i] = Infinity \/ f[i] <= d[i]

\* The distances are themselves a lower bound when the rounds are over, hence the
\* greatest one: the lengths of the shortest paths.
Shortest ==
    pc = "table" =>
        /\ d[Self] = 0
        /\ \A i, j \in known : <<i, j>> \in graph => d[j] <= d[i] + 1
        /\ \A f \in [Node -> Nat] : LowerBound(f) =>
              \A i \in known : d[i] = Infinity \/ f[i] <= d[i]

\* The rounds go on until all nodes are visited.
AllVisited == pc = "table" => visited = known

LEMMA NotTooSmallRound ==
    ASSUME IType, NotTooSmall, NEW mini \in known, Round(mini)
    PROVE  NotTooSmall'
<1>1. /\ known' = known /\ graph' = graph /\ known \subseteq Node /\ Self \in known
      /\ \A i \in known : d[i] \in Nat /\ d[i] <= Infinity
      /\ Infinity \in Nat
  BY RouteAssumption DEF IType, TypeOK, Inputs, Round, inputs
<1>2. d'[Self] = 0
  BY <1>1 DEF NotTooSmall, Round
<1>3. ASSUME NEW f \in [Node -> Nat], LowerBound(f), NEW i \in known
      PROVE  d'[i] = Infinity \/ f[i] <= d'[i]
  <2>1. \A k \in known : d[k] = Infinity \/ f[k] <= d[k]
    BY <1>3 DEF NotTooSmall, Round
  <2>2. CASE <<mini, i>> \in graph /\ d[mini] + 1 < d[i]
    <3>1. d'[i] = d[mini] + 1 /\ d[mini] # Infinity
      BY <1>1, <2>2 DEF Round
    <3>2. f[i] <= f[mini] + 1
      BY <1>3, <2>2 DEF LowerBound
    <3> QED
      BY <1>1, <2>1, <3>1, <3>2
  <2>3. CASE ~(<<mini, i>> \in graph /\ d[mini] + 1 < d[i])
    BY <2>1, <2>3 DEF Round
  <2> QED
    BY <2>2, <2>3
<1>4. \A f : LowerBound(f)' <=> LowerBound(f)
  BY <1>1 DEF LowerBound
<1> QED
  BY <1>1, <1>2, <1>3, <1>4 DEF NotTooSmall

LEMMA NotTooSmallHolds == Spec => []NotTooSmall
<1>1. Init => NotTooSmall
  BY DEF Init, NotTooSmall
<1>2. IType /\ NotTooSmall /\ [Next]_vars => NotTooSmall'
  <2> SUFFICES ASSUME IType, NotTooSmall, [Next]_vars PROVE NotTooSmall'
    OBVIOUS
  <2>1. CASE ConstructGraph
    <3>1. known' = known /\ Self \in known /\ d \in [known -> 0..Infinity]
      BY <2>1 DEF ConstructGraph, inputs, IType, Inputs, TypeOK
    <3>2. d' = [d EXCEPT ![Self] = 0]
      BY <2>1 DEF ConstructGraph
    <3>3. \A i \in known : i = Self \/ d[i] = Infinity
      BY <2>1 DEF ConstructGraph, IType, Fresh
    <3> QED
      BY <3>1, <3>2, <3>3 DEF NotTooSmall, LowerBound
  <2>2. ASSUME NEW mini \in known, Round(mini) PROVE NotTooSmall'
    BY <2>2, NotTooSmallRound
  <2>3. CASE FillRouteTable
    BY <2>3 DEF FillRouteTable, NotTooSmall
  <2>4. CASE Done \/ UNCHANGED vars
    BY <2>4 DEF Done, vars, NotTooSmall, LowerBound, inputs
  <2> QED
    BY <2>1, <2>2, <2>3, <2>4 DEF Next
<1> QED
  BY <1>1, <1>2, TypeHolds, PTL DEF Spec

\* What fill_route_table finds in d are the lengths of the shortest paths from
\* the node to all others: for every lower bound of the distances, d is not less,
\* and it is one itself.
THEOREM DistancesAreShortest == Spec => []Shortest
<1>1. Init => AllVisited
  BY DEF Init, AllVisited
<1>2. AllVisited /\ [Next]_vars => AllVisited'
  BY DEF AllVisited, Next, ConstructGraph, Round, FillRouteTable, Done, vars, inputs
<1>3. IType /\ AllVisited /\ RoundInvariant /\ NotTooSmall => Shortest
  BY DEF IType, TypeOK, AllVisited, RoundInvariant, NotTooSmall, Shortest
<1> QED
  BY <1>1, <1>2, <1>3, TypeHolds, RoundInvariance, NotTooSmallHolds, PTL DEF Spec

-----------------------------------------------------------------------------
(* The reference.                                                          *)

NNode == Cardinality(Node)

LEMMA NodesFinite == NNode \in Nat /\ Infinity \in Nat /\ NNode < Infinity /\ NNode >= 1
<1>1. IsFiniteSet(Node) /\ Node # {}
  BY RouteAssumption
<1>2. NNode \in Nat /\ NNode # 0
  BY <1>1, FS_CardinalityType, FS_EmptySet DEF NNode
<1> QED
  BY <1>2, RouteAssumption DEF NNode

\* What one link more leads to.
After(g, near) == near \cup {e[2] : e \in {e \in g : e[1] \in near}}

WithinStep(g, s, f) ==
    f = [k \in 0..Cardinality(Node) |->
            IF k = 0 THEN {s}
            ELSE LET near == f[k - 1]
                 IN  near \cup {e[2] : e \in {e \in g : e[1] \in near}}]
Within(g, s) == CHOOSE f : WithinStep(g, s, f)

\* Within(g, s)[k]: the nodes at most k links from s.
LEMMA WithinIs ==
    ASSUME NEW g \in SUBSET (Node \X Node), NEW s \in Node
    PROVE  /\ Within(g, s) \in [0..NNode -> SUBSET Node]
           /\ Within(g, s)[0] = {s}
           /\ \A k \in 1..NNode : Within(g, s)[k] = After(g, Within(g, s)[k - 1])
<1> DEFINE V == SUBSET Node
           A == [near \in V |-> After(g, near)]
           T == [k \in 1..NNode |-> A]
<1>1. A \in [V -> V]
  <2>1. ASSUME NEW near \in V PROVE After(g, near) \in V
    BY DEF After
  <2> QED
    BY <2>1
<1> HIDE DEF A
<1>2. T \in [1..NNode -> [V -> V]] /\ {s} \in V /\ NNode \in Nat
  BY <1>1, NodesFinite
<1>3. \A k \in 1..NNode : T[k] = A
  OBVIOUS
<1> HIDE DEF T, V
<1>4. \E f : Iterates(f, NNode, V, {s}, T)
  BY <1>2, Iterated
<1>5. PICK f \in [0..NNode -> V] : f[0] = {s} /\ \A k \in 1..NNode : f[k] = T[k][f[k - 1]]
  BY <1>4 DEF Iterates
<1>6. ASSUME NEW k \in 1..NNode PROVE f[k] = After(g, f[k - 1])
  <2>1. f[k - 1] \in V
    BY <1>2, <1>5
  <2> QED
    BY <1>3, <1>5, <2>1 DEF A
<1> DEFINE h == [k \in 0..NNode |-> IF k = 0 THEN {s} ELSE After(g, f[k - 1])]
<1>7. \A k \in 0..NNode : f[k] = h[k]
  <2> SUFFICES ASSUME NEW k \in 0..NNode PROVE f[k] = h[k]
    OBVIOUS
  <2>1. CASE k = 0
    BY <1>5, <2>1
  <2>2. CASE k # 0
    <3>1. k \in 1..NNode
      BY <1>2, <2>2
    <3> QED
      BY <1>6, <2>2, <3>1
  <2> QED
    BY <2>1, <2>2
<1>8. f = h
  BY <1>5, <1>7
<1>9. WithinStep(g, s, f)
  BY <1>8 DEF WithinStep, NNode, After
<1>10. WithinStep(g, s, Within(g, s))
  BY <1>9 DEF Within
<1> DEFINE W == Within(g, s)
<1>11. /\ DOMAIN W = 0..NNode /\ W[0] = {s}
       /\ \A k \in 1..NNode : W[k] = After(g, W[k - 1])
       /\ W = [k \in 0..NNode |-> W[k]]
  <2> HIDE DEF W
  <2>1. WithinStep(g, s, W)
    BY <1>10 DEF W
  <2>2. W = [k \in 0..NNode |-> IF k = 0 THEN {s} ELSE After(g, W[k - 1])]
    BY <2>1 DEF WithinStep, NNode, After
  <2>3. \A k \in 0..NNode : W[k] = IF k = 0 THEN {s} ELSE After(g, W[k - 1])
    BY <2>2
  <2>4. DOMAIN W = 0..NNode /\ W = [k \in 0..NNode |-> W[k]]
    BY <2>2
  <2>5. \A k \in 1..NNode : k \in 0..NNode /\ k # 0
    BY <1>2
  <2>6. 0 \in 0..NNode
    BY <1>2
  <2> QED
    BY <2>3, <2>4, <2>5, <2>6
<1> HIDE DEF W
<1> DEFINE P == {k \in 0..NNode : W[k] \in SUBSET Node}
<1>12. 0 \in P
  BY <1>2, <1>11
<1>13. ASSUME NEW k \in 1..NNode, k - 1 \in P PROVE k \in P
  <2>1. W[k] = After(g, W[k - 1]) /\ W[k - 1] \in SUBSET Node
    BY <1>11, <1>13
  <2>2. After(g, W[k - 1]) \in SUBSET Node
    BY <2>1 DEF After
  <2>3. k \in 0..NNode
    BY <1>2
  <2> QED
    BY <2>1, <2>2, <2>3
<1> HIDE DEF P
<1>14. \A k \in 1..NNode : k - 1 \in P => k \in P
  BY <1>13
<1>15. \A k \in 0..NNode : k \in P
  BY <1>2, <1>12, <1>14, UpTo, Zenon
<1>16. W \in [0..NNode -> SUBSET Node]
  BY <1>11, <1>15 DEF P
<1> QED
  BY <1>11, <1>16 DEF W

LEMMA WithinGrows ==
    ASSUME NEW g \in SUBSET (Node \X Node), NEW s \in Node,
           NEW j \in 0..NNode, NEW k \in 0..NNode, j <= k
    PROVE  Within(g, s)[j] \subseteq Within(g, s)[k]
<1> DEFINE W == Within(g, s)
           P == {m \in 0..NNode : m >= j => W[j] \subseteq W[m]}
<1>1. NNode \in Nat /\ \A m \in 1..NNode : W[m] = After(g, W[m - 1])
  BY NodesFinite, WithinIs
<1> HIDE DEF W
<1>2. 0 \in P
  BY <1>1
<1>3. ASSUME NEW m \in 1..NNode, m - 1 \in P PROVE m \in P
  <2>1. CASE m = j
    BY <2>1
  <2>2. CASE m # j
    BY <1>1, <1>3, <2>2 DEF After
  <2> QED
    BY <2>1, <2>2
<1> HIDE DEF P
<1>4. \A m \in 1..NNode : m - 1 \in P => m \in P
  BY <1>3
<1>5. \A m \in 0..NNode : m \in P
  BY <1>1, <1>2, <1>4, UpTo, Zenon
<1> QED
  BY <1>5 DEF P, W

\* A node is at distance m if it is within m links, and not within fewer.
AtDistance(g, s, i, m) == \A k \in 0..NNode : i \in Within(g, s)[k] <=> m <= k

LEMMA DistanceIs ==
    ASSUME NEW g \in SUBSET (Node \X Node), NEW s \in Node, NEW i \in Node
    PROVE  /\ i \notin Within(g, s)[NNode] => Distance(g, s)[i] = Infinity
           /\ \A m \in 0..NNode : AtDistance(g, s, i, m) => Distance(g, s)[i] = m
<1> DEFINE W == Within(g, s)
           R == [k \in 0..NNode |-> W[k]]
<1>1. NNode \in Nat
  BY NodesFinite
<1>2. Distance(g, s)[i] = IF i \notin R[NNode] THEN Infinity
                          ELSE Cardinality({k \in 0..NNode : i \notin R[k]})
  BY DEF Distance, Within, WithinStep, NNode
<1> HIDE DEF W
<1>3. R[NNode] = W[NNode] /\ {k \in 0..NNode : i \notin R[k]} = {k \in 0..NNode : i \notin W[k]}
  BY <1>1
<1> HIDE DEF R
<1>4. ASSUME NEW m \in 0..NNode, \A k \in 0..NNode : i \in W[k] <=> m <= k
      PROVE  Distance(g, s)[i] = m
  <2>1. i \in W[NNode]
    BY <1>1, <1>4
  <2>2. {k \in 0..NNode : i \notin W[k]} = 0..(m - 1)
    BY <1>1, <1>4
  <2>3. Cardinality(0..(m - 1)) = m
    BY FS_Interval
  <2> QED
    BY <1>2, <1>3, <2>1, <2>2, <2>3
<1> QED
  BY <1>2, <1>3, <1>4 DEF W, AtDistance

-----------------------------------------------------------------------------
(* What the rounds leave.                                                  *)

\* The links the graph is built from.
Built == {<<Self, c>> : c \in nbrs \cap known}
         \cup UNION {{<<r, c>> : c \in Scanned(links[r])} : r \in valid \ {Self}}
BuiltGraph == pc # "graph" => graph = Built

\* Who has a predecessor, during the rounds: all that have been reached, but the
\* node itself.
Reached ==
    pc \in {"rounds", "table"} =>
        /\ prev[Self] = NoHop
        /\ \A i \in known \ {Self} : d[i] = Infinity <=> prev[i] = NoHop

\* prev makes a tree of shortest ways.
Tree ==
    /\ known \subseteq Node /\ Self \in known /\ graph \subseteq known \X known
    /\ d \in [known -> 0..Infinity] /\ d[Self] = 0
    /\ DOMAIN prev = known /\ prev[Self] = NoHop
    /\ \A i \in known \ {Self} : d[i] = Infinity <=> prev[i] = NoHop
    /\ \A i \in known : prev[i] # NoHop =>
          /\ prev[i] \in known /\ <<prev[i], i>> \in graph
          /\ d[i] = d[prev[i]] + 1
    /\ \A i, j \in known : <<i, j>> \in graph => d[j] <= d[i] + 1

Entries == {[dest |-> i, next_hop |-> NextHop[i], cost |-> d[i]] : i \in known}

\* Before and after the table is filled.
Settled ==
    /\ pc \in {"table", "done"} => Tree
    /\ pc = "done" => table = Sorted(Entries)

LEMMA BuiltHolds == Spec => []BuiltGraph
<1>1. Init => BuiltGraph
  BY DEF Init, BuiltGraph
<1>2. BuiltGraph /\ [Next]_vars => BuiltGraph'
  <2> SUFFICES ASSUME BuiltGraph, [Next]_vars PROVE BuiltGraph'
    OBVIOUS
  <2>1. UNCHANGED <<known, valid, links, nbrs>>
    BY DEF Next, ConstructGraph, Round, FillRouteTable, Done, vars, inputs
  <2>2. Built' = Built
    BY <2>1 DEF Built, Scanned
  <2>3. CASE ConstructGraph
    BY <2>2, <2>3 DEF BuiltGraph, ConstructGraph, Built
  <2>4. CASE ~ConstructGraph
    <3>1. graph' = graph /\ (pc' # "graph" => pc # "graph")
      BY <2>4 DEF Next, Round, FillRouteTable, Done, vars
    <3> QED
      BY <2>2, <3>1 DEF BuiltGraph
  <2> QED
    BY <2>3, <2>4
<1> QED
  BY <1>1, <1>2, PTL DEF Spec

LEMMA ReachedRound ==
    ASSUME IType, NotTooSmall, Reached, NEW mini \in known, Round(mini)
    PROVE  Reached'
<1>1. /\ known' = known /\ Self \in known /\ NoHop \notin known /\ d[Self] = 0
      /\ prev[Self] = NoHop /\ Infinity \in Nat
      /\ \A i \in known : d[i] \in Nat /\ d[i] <= Infinity
      /\ \A i \in known \ {Self} : d[i] = Infinity <=> prev[i] = NoHop
  <2>1. known' = known /\ pc = "rounds"
    BY DEF Round, inputs
  <2>2. Self \in known /\ known \subseteq Node
    BY DEF IType, Inputs
  <2>3. \A i \in known : d[i] \in 0..Infinity
    BY DEF IType, TypeOK
  <2>4. d[Self] = 0
    BY <2>1 DEF NotTooSmall
  <2>5. prev[Self] = NoHop /\ \A i \in known \ {Self} : d[i] = Infinity <=> prev[i] = NoHop
    BY <2>1 DEF Reached
  <2>6. Infinity \in Nat /\ NoHop \notin known
    BY <2>2, RouteAssumption
  <2>7. \A i \in known : d[i] \in Nat /\ d[i] <= Infinity
    BY <2>3, <2>6
  <2> QED
    BY <2>1, <2>2, <2>4, <2>5, <2>6, <2>7
<1>2. ASSUME NEW i \in known, <<mini, i>> \in graph, d[mini] + 1 < d[i]
      PROVE  i # Self /\ d'[i] # Infinity /\ prev'[i] # NoHop
  <2>1. d'[i] = d[mini] + 1 /\ prev'[i] = mini
    BY <1>2 DEF Round
  <2> QED
    BY <1>1, <1>2, <2>1
<1>3. ASSUME NEW i \in known, ~(<<mini, i>> \in graph /\ d[mini] + 1 < d[i])
      PROVE  d'[i] = d[i] /\ prev'[i] = prev[i]
  BY <1>3 DEF Round
<1>4. prev'[Self] = NoHop
  BY <1>1, <1>2, <1>3
<1>5. \A i \in known \ {Self} : d'[i] = Infinity <=> prev'[i] = NoHop
  BY <1>1, <1>2, <1>3
<1> QED
  BY <1>1, <1>4, <1>5 DEF Reached

LEMMA ReachedHolds == Spec => []Reached
<1>1. Init => Reached
  BY DEF Init, Reached
<1>2. IType /\ NotTooSmall /\ Reached /\ [Next]_vars => Reached'
  <2> SUFFICES ASSUME IType, NotTooSmall, Reached, [Next]_vars PROVE Reached'
    OBVIOUS
  <2>1. CASE ConstructGraph
    <3>1. /\ known' = known /\ Self \in known /\ d \in [known -> 0..Infinity]
          /\ prev' = prev /\ d' = [d EXCEPT ![Self] = 0]
          /\ \A i \in known : prev[i] = NoHop /\ d[i] = Infinity
      BY <2>1 DEF ConstructGraph, inputs, IType, Inputs, TypeOK, Fresh
    <3> QED
      BY <3>1 DEF Reached
  <2>2. ASSUME NEW mini \in known, Round(mini) PROVE Reached'
    BY <2>2, ReachedRound
  <2>3. CASE FillRouteTable
    BY <2>3 DEF FillRouteTable, Reached
  <2>4. CASE Done \/ UNCHANGED vars
    BY <2>4 DEF Done, vars, Reached, inputs
  <2> QED
    BY <2>1, <2>2, <2>3, <2>4 DEF Next
<1> QED
  BY <1>1, <1>2, TypeHolds, NotTooSmallHolds, PTL DEF Spec

TableTree == pc = "table" => Tree

LEMMA TableTreeHolds == Spec => []TableTree
<1> DEFINE I == IType /\ AllVisited /\ RoundInvariant /\ NotTooSmall /\ Reached
<1>1. I => TableTree
  <2> SUFFICES ASSUME I, pc = "table" PROVE Tree
    BY DEF TableTree
  <2>1. /\ known \subseteq Node /\ Self \in known /\ graph \subseteq known \X known
        /\ d \in [known -> 0..Infinity] /\ DOMAIN prev = known
        /\ visited = known
    BY DEF IType, TypeOK, Inputs, AllVisited
  <2>2. d[Self] = 0 /\ prev[Self] = NoHop
    BY DEF NotTooSmall, Reached
  <2>3. \A i \in known \ {Self} : d[i] = Infinity <=> prev[i] = NoHop
    BY DEF Reached
  <2>4. \A i \in known : prev[i] # NoHop =>
           prev[i] \in known /\ <<prev[i], i>> \in graph /\ d[i] = d[prev[i]] + 1
    BY <2>1 DEF RoundInvariant
  <2>5. \A i, j \in known : <<i, j>> \in graph => d[j] <= d[i] + 1
    BY <2>1 DEF RoundInvariant
  <2> QED
    BY <2>1, <2>2, <2>3, <2>4, <2>5 DEF Tree
<1>2. Init => AllVisited
  BY DEF Init, AllVisited
<1>3. AllVisited /\ [Next]_vars => AllVisited'
  BY DEF AllVisited, Next, ConstructGraph, Round, FillRouteTable, Done, vars, inputs
<1> QED
  BY <1>1, <1>2, <1>3, TypeHolds, RoundInvariance, NotTooSmallHolds, ReachedHolds, PTL
     DEF Spec

LEMMA SettledHolds == Spec => []Settled
<1>1. Init => Settled
  BY DEF Init, Settled
<1>2. TableTree /\ TableTree' /\ Settled /\ [Next]_vars => Settled'
  <2> SUFFICES ASSUME TableTree, TableTree', Settled, [Next]_vars PROVE Settled'
    OBVIOUS
  <2>1. CASE pc' = "table"
    BY <2>1 DEF Settled, TableTree
  <2>2. CASE FillRouteTable
    <3>1. Tree /\ pc' = "done" /\ UNCHANGED <<known, graph, d, prev>>
      BY <2>2 DEF FillRouteTable, inputs, TableTree
    <3>2. Tree' /\ NextHop' = NextHop
      BY <3>1 DEF Tree, NextHop
    <3>3. Entries' = Entries
      BY <3>1, <3>2 DEF Entries
    <3>4. table' = Sorted(Entries)
      BY <2>2 DEF FillRouteTable, Entries
    <3> QED
      BY <3>1, <3>2, <3>3, <3>4 DEF Settled
  <2>3. CASE pc' = "done" /\ ~FillRouteTable
    <3>1. UNCHANGED vars /\ pc = "done"
      BY <2>3 DEF Next, ConstructGraph, Round, Done, vars
    <3>2. UNCHANGED <<known, graph, d, prev, table>> /\ Tree /\ table = Sorted(Entries)
      BY <3>1 DEF vars, inputs, Settled
    <3>3. Tree' /\ NextHop' = NextHop
      BY <3>2 DEF Tree, NextHop
    <3>4. Entries' = Entries
      BY <3>2, <3>3 DEF Entries
    <3> QED
      BY <3>1, <3>2, <3>3, <3>4 DEF Settled
  <2>4. CASE pc' \notin {"table", "done"}
    BY <2>4 DEF Settled
  <2> QED
    BY <2>1, <2>2, <2>3, <2>4
<1> QED
  BY <1>1, <1>2, TableTreeHolds, PTL DEF Spec

-----------------------------------------------------------------------------
(* The costs are the distances in the graph.                               *)

\* Of two nodes, the one before is nearer.
LEMMA Before ==
    ASSUME Tree, NEW i \in known, i # Self, d[i] # Infinity
    PROVE  /\ prev[i] # NoHop /\ prev[i] \in known /\ <<prev[i], i>> \in graph
           /\ d[i] \in Nat /\ d[prev[i]] \in Nat /\ d[i] = d[prev[i]] + 1
<1>1. prev[i] # NoHop
  BY DEF Tree
<1>2. prev[i] \in known /\ <<prev[i], i>> \in graph /\ d[i] = d[prev[i]] + 1
  BY <1>1 DEF Tree
<1>3. \A j \in known : d[j] \in 0..Infinity
  BY DEF Tree
<1> QED
  BY <1>1, <1>2, <1>3, NodesFinite

LEMMA WithinTree ==
    ASSUME Tree
    PROVE  \A k \in 0..NNode : Within(graph, Self)[k] = {i \in known : d[i] <= k}
<1>1. /\ known \subseteq Node /\ Self \in Node /\ Self \in known /\ d[Self] = 0
      /\ graph \in SUBSET (Node \X Node) /\ graph \subseteq known \X known
      /\ \A i \in known : d[i] \in 0..Infinity
      /\ \A i, j \in known : <<i, j>> \in graph => d[j] <= d[i] + 1
  BY DEF Tree
<1>2. /\ NNode \in Nat /\ Infinity \in Nat /\ NNode < Infinity
      /\ \A i \in known : d[i] \in Nat /\ d[i] <= Infinity
  BY <1>1, NodesFinite
<1> DEFINE W == Within(graph, Self)
           N(k) == {i \in known : d[i] <= k}
           P == {k \in 0..NNode : W[k] = N(k)}
<1>3. W[0] = {Self} /\ \A k \in 1..NNode : W[k] = After(graph, W[k - 1])
  BY <1>1, WithinIs
<1> HIDE DEF W
<1>4. 0 \in P
  <2>1. ASSUME NEW i \in known, d[i] <= 0 PROVE i = Self
    <3>1. i # Self /\ d[i] # Infinity => d[i] = d[prev[i]] + 1 /\ d[prev[i]] \in Nat
      BY Before
    <3> QED
      BY <1>2, <2>1, <3>1
  <2>2. N(0) = {Self}
    BY <1>1, <2>1
  <2> QED
    BY <1>2, <1>3, <2>2
<1>5. ASSUME NEW k \in 1..NNode, k - 1 \in P PROVE k \in P
  <2>1. W[k] = After(graph, N(k - 1))
    BY <1>3, <1>5
  <2>2. ASSUME NEW i \in After(graph, N(k - 1)) PROVE i \in known /\ d[i] <= k
    <3>1. CASE i \in N(k - 1)
      BY <1>2, <3>1
    <3>2. CASE i \notin N(k - 1)
      <4>1. PICK e \in graph : e[1] \in N(k - 1) /\ i = e[2]
        BY <2>2, <3>2 DEF After
      <4>2. e[1] \in known /\ i \in known /\ <<e[1], i>> \in graph
        BY <1>1, <4>1
      <4> QED
        BY <1>1, <1>2, <4>1, <4>2
    <3> QED
      BY <3>1, <3>2
  <2>3. ASSUME NEW i \in known, d[i] <= k PROVE i \in After(graph, N(k - 1))
    <3>1. CASE d[i] <= k - 1
      BY <3>1 DEF After
    <3>2. CASE ~(d[i] <= k - 1)
      <4>1. d[i] = k /\ i # Self /\ d[i] # Infinity
        BY <1>1, <1>2, <2>3, <3>2
      <4>2. prev[i] \in known /\ <<prev[i], i>> \in graph /\ d[prev[i]] = k - 1
        BY <1>2, <4>1, Before
      <4>3. prev[i] \in N(k - 1)
        BY <1>2, <4>2
      <4> QED
        BY <4>2, <4>3 DEF After
    <3> QED
      BY <3>1, <3>2
  <2> QED
    BY <2>1, <2>2, <2>3
<1> HIDE DEF P, N
<1>6. \A k \in 1..NNode : k - 1 \in P => k \in P
  BY <1>5
<1>7. \A k \in 0..NNode : k \in P
  BY <1>2, <1>4, <1>6, UpTo, Zenon
<1> QED
  BY <1>7 DEF P, N, W

\* A distance is less than the number of nodes: there is one node at least at each
\* distance below it.
LEMMA Near ==
    ASSUME Tree, NEW i \in known, d[i] # Infinity
    PROVE  d[i] \in Nat /\ d[i] < NNode
<1>1. /\ known \in SUBSET Node /\ Self \in known /\ d[Self] = 0
      /\ \A j \in known : d[j] \in 0..Infinity
  BY DEF Tree
<1>2. NNode \in Nat /\ Infinity \in Nat /\ \A j \in known : d[j] \in Nat /\ d[j] <= Infinity
  BY <1>1, NodesFinite
<1> DEFINE D == d[i]
           At == {d[j] : j \in known}
           P == {k \in 0..D : D - k \in At}
<1>3. D \in Nat /\ D < Infinity /\ D \in At
  BY <1>2
<1>4. 0 \in P
  BY <1>3
<1>5. ASSUME NEW k \in 1..D, k - 1 \in P PROVE k \in P
  <2>1. PICK j \in known : d[j] = D - (k - 1)
    BY <1>5
  <2>2. j # Self /\ d[j] # Infinity
    BY <1>1, <1>3, <2>1
  <2>3. prev[j] \in known /\ d[prev[j]] \in Nat /\ d[j] = d[prev[j]] + 1
    BY <2>2, Before
  <2>4. d[prev[j]] = D - k
    BY <1>3, <2>1, <2>3
  <2> QED
    BY <1>3, <2>3, <2>4
<1> HIDE DEF P, At, D
<1>6. \A k \in 1..D : k - 1 \in P => k \in P
  BY <1>5
<1>7. \A k \in 0..D : k \in P
  BY <1>3, <1>4, <1>6, UpTo, Zenon
<1>8. \A k \in 0..D : \E j \in known : d[j] = k
  <2> SUFFICES ASSUME NEW k \in 0..D PROVE \E j \in known : d[j] = k
    OBVIOUS
  <2>1. D - k \in 0..D /\ D - (D - k) = k
    BY <1>3
  <2>2. D - k \in P
    BY <1>7, <2>1
  <2> QED
    BY <2>1, <2>2 DEF P, At
<1> DEFINE f == [k \in 0..D |-> CHOOSE j \in known : d[j] = k]
<1>9. \A k \in 0..D : f[k] \in known /\ d[f[k]] = k
  BY <1>8
<1>10. f \in Injection(0..D, known)
  <2>1. f \in [0..D -> known]
    BY <1>9
  <2> HIDE DEF f
  <2> QED
    BY <1>9, <2>1 DEF Injection, IsInjective
<1> HIDE DEF f
<1>11. /\ IsFiniteSet(known) /\ Cardinality(known) \in Nat
       /\ Cardinality(known) <= NNode
  BY <1>1, RouteAssumption, FS_Subset, FS_CardinalityType DEF NNode
<1>12. Cardinality(0..D) <= Cardinality(known) /\ Cardinality(0..D) = D + 1
  BY <1>3, <1>10, <1>11, FS_Injection, FS_Interval
<1> QED
  BY <1>2, <1>3, <1>11, <1>12 DEF D

\* d is the distance in the graph, for the known nodes.
LEMMA SelfDistance ==
    ASSUME Tree
    PROVE  \A i \in known : d[i] = Distance(graph, Self)[i]
<1> SUFFICES ASSUME NEW i \in known PROVE d[i] = Distance(graph, Self)[i]
  OBVIOUS
<1>1. /\ i \in Node /\ Self \in Node /\ graph \in SUBSET (Node \X Node)
      /\ d[i] \in 0..Infinity
  BY DEF Tree
<1>2. NNode \in Nat /\ Infinity \in Nat /\ NNode < Infinity
  BY NodesFinite
<1>3. \A k \in 0..NNode : i \in Within(graph, Self)[k] <=> d[i] <= k
  BY WithinTree
<1>4. CASE d[i] = Infinity
  <2>1. NNode \in 0..NNode /\ ~(d[i] <= NNode)
    BY <1>2, <1>4
  <2>2. i \notin Within(graph, Self)[NNode]
    BY <1>3, <2>1
  <2> QED
    BY <1>1, <1>4, <2>2, DistanceIs
<1>5. CASE d[i] # Infinity
  <2>1. d[i] \in 0..NNode
    BY <1>2, <1>5, Near
  <2>2. AtDistance(graph, Self, i, d[i])
    BY <1>3 DEF AtDistance
  <2> QED
    BY <1>1, <2>1, <2>2, DistanceIs
<1> QED
  BY <1>4, <1>5

-----------------------------------------------------------------------------
(* The sorted table.                                                       *)

\* A finite set of numbers can be counted from the least one up.
Counts(t, K) ==
    /\ t \in [1..Cardinality(K) -> K]
    /\ \A i, j \in 1..Cardinality(K) : i < j => t[i] < t[j]

LEMMA Counted ==
    ASSUME NEW K \in SUBSET Nat, IsFiniteSet(K)
    PROVE  \E t : Counts(t, K)
<1> DEFINE n == Cardinality(K)
           Below(i) == {j \in K : j < i}
           r == [i \in K |-> Cardinality(Below(i)) + 1]
<1>1. n \in Nat
  BY FS_CardinalityType
<1>2. ASSUME NEW i \in K
      PROVE  /\ IsFiniteSet(Below(i)) /\ Cardinality(Below(i)) \in Nat
             /\ IsFiniteSet(Below(i) \cup {i})
             /\ Cardinality(Below(i) \cup {i}) = Cardinality(Below(i)) + 1
  <2>1. Below(i) \in SUBSET K
    OBVIOUS
  <2>2. IsFiniteSet(Below(i)) /\ Cardinality(Below(i)) \in Nat
    BY <2>1, FS_Subset, FS_CardinalityType
  <2>3. i \notin Below(i)
    OBVIOUS
  <2> HIDE DEF Below
  <2> QED
    BY <2>2, <2>3, FS_AddElement
<1>3. \A i \in K : r[i] \in 1..n
  <2> SUFFICES ASSUME NEW i \in K PROVE r[i] \in 1..n
    OBVIOUS
  <2>1. Below(i) \cup {i} \in SUBSET K
    OBVIOUS
  <2>2. Cardinality(Below(i) \cup {i}) <= n
    BY <2>1, FS_Subset
  <2>3. r[i] = Cardinality(Below(i)) + 1
    OBVIOUS
  <2> HIDE DEF Below, r, n
  <2> QED
    BY <1>1, <1>2, <2>2, <2>3
<1>4. \A i, j \in K : i < j => r[i] < r[j]
  <2> SUFFICES ASSUME NEW i \in K, NEW j \in K, i < j PROVE r[i] < r[j]
    OBVIOUS
  <2>0. i \in Nat /\ j \in Nat /\ \A k \in K : k \in Nat
    OBVIOUS
  <2>1. \A k \in Below(i) \cup {i} : k \in Below(j)
    BY <2>0
  <2>3. r[i] = Cardinality(Below(i)) + 1 /\ r[j] = Cardinality(Below(j)) + 1
    OBVIOUS
  <2> HIDE DEF Below, r, n
  <2>2. Cardinality(Below(i) \cup {i}) <= Cardinality(Below(j))
    BY <1>2, <2>1, FS_Subset
  <2>4. /\ Cardinality(Below(i)) \in Nat /\ Cardinality(Below(j)) \in Nat
        /\ Cardinality(Below(i) \cup {i}) = Cardinality(Below(i)) + 1
    BY <1>2
  <2> QED
    BY <2>2, <2>3, <2>4
<1>5. r \in [K -> 1..n]
  BY <1>3
<1> HIDE DEF r
<1>6. r \in Injection(K, 1..n)
  <2>1. ASSUME NEW i \in K, NEW j \in K, r[i] = r[j] PROVE i = j
    <3>1. ~(i < j) /\ ~(j < i)
      BY <1>3, <1>4, <2>1
    <3> QED
      BY <3>1
  <2> QED
    BY <1>5, <2>1 DEF Injection, IsInjective
<1>7. IsFiniteSet(1..n) /\ Cardinality(1..n) = n
  BY <1>1, FS_Interval
<1>8. r \in Surjection(K, 1..n)
  BY <1>6, <1>7, FS_Injection
<1>9. \A k \in 1..n : \E i \in K : r[i] = k
  BY <1>8 DEF Surjection
<1> DEFINE t == [k \in 1..n |-> CHOOSE i \in K : r[i] = k]
<1>10. \A k \in 1..n : t[k] \in K /\ r[t[k]] = k
  BY <1>9
<1>11. t \in [1..n -> K]
  BY <1>10
<1> HIDE DEF t
<1>12. ASSUME NEW k \in 1..n, NEW m \in 1..n, k < m PROVE t[k] < t[m]
  <2>1. t[k] \in K /\ t[m] \in K /\ r[t[k]] = k /\ r[t[m]] = m
    BY <1>10, <1>12
  <2>2. t[k] \in Nat /\ t[m] \in Nat
    BY <2>1
  <2>3. ~(t[m] < t[k])
    <3>1. t[m] < t[k] => m < k
      BY <1>4, <2>1
    <3> QED
      BY <1>1, <1>12, <3>1
  <2>4. t[k] # t[m]
    BY <1>12, <2>1, <2>2
  <2> QED
    BY <2>2, <2>3, <2>4
<1>13. Counts(t, K)
  BY <1>11, <1>12 DEF Counts
<1> QED
  BY <1>13

\* What Sorted chooses.
SortedAs(t, entries) ==
    /\ t \in [1..Cardinality(entries) -> entries]
    /\ \A i, j \in DOMAIN t : i < j => t[i].dest < t[j].dest

LEMMA SortedIs ==
    ASSUME NEW E, NEW t, SortedAs(t, E)
    PROVE  SortedAs(Sorted(E), E)
BY DEF Sorted, SortedAs

LEMMA EntryIs ==
    ASSUME NEW e \in Entries
    PROVE  e.dest \in known /\ e.next_hop = NextHop[e.dest] /\ e.cost = d[e.dest]
BY DEF Entries

\* There is an entry for each known node, and only one.
LEMMA EntriesCounted ==
    ASSUME IsFiniteSet(known)
    PROVE  IsFiniteSet(Entries) /\ Cardinality(Entries) = Cardinality(known)
<1> DEFINE e == [i \in known |-> [dest |-> i, next_hop |-> NextHop[i], cost |-> d[i]]]
<1>1. e \in [known -> Entries] /\ \A i \in known : e[i].dest = i
  BY DEF Entries
<1>2. \A x \in Entries : \E i \in known : e[i] = x
  BY DEF Entries
<1> HIDE DEF e
<1>3. e \in Bijection(known, Entries)
  BY <1>1, <1>2 DEF Bijection, Injection, Surjection, IsInjective
<1>4. ExistsBijection(known, Entries)
  BY <1>3 DEF ExistsBijection
<1> QED
  BY <1>4, FS_Bijection

\* The table is sorted, and has one entry for each known node.
LEMMA TableIs ==
    ASSUME Settled, pc = "done"
    PROVE  /\ Cardinality(known) \in Nat /\ Len(table) = Cardinality(known)
           /\ table \in [1..Len(table) -> Entries]
           /\ \A j, k \in 1..Len(table) : j < k => table[j].dest < table[k].dest
           /\ \A i \in known : \E k \in 1..Len(table) : table[k].dest = i
<1> DEFINE n == Cardinality(known)
<1>1. known \in SUBSET Nat /\ IsFiniteSet(known) /\ n \in Nat /\ table = Sorted(Entries)
  <2>1. known \in SUBSET Node
    BY DEF Settled, Tree
  <2> QED
    BY <2>1, RouteAssumption, FS_Subset, FS_CardinalityType DEF Settled
<1>2. IsFiniteSet(Entries) /\ Cardinality(Entries) = n
  BY <1>1, EntriesCounted
<1>3. PICK t : Counts(t, known)
  BY <1>1, Counted
<1> DEFINE u == [k \in 1..n |-> [dest |-> t[k], next_hop |-> NextHop[t[k]], cost |-> d[t[k]]]]
<1>4. SortedAs(u, Entries)
  <2>1. \A k \in 1..n : t[k] \in known
    BY <1>3 DEF Counts
  <2>2. \A k \in 1..n : u[k] \in Entries /\ u[k].dest = t[k]
    BY <2>1 DEF Entries
  <2>3. u \in [1..n -> Entries]
    BY <2>2
  <2>4. \A j, k \in 1..n : j < k => t[j] < t[k]
    BY <1>3 DEF Counts
  <2> HIDE DEF u, n
  <2>5. \A j, k \in 1..n : j < k => u[j].dest < u[k].dest
    BY <2>2, <2>4
  <2>6. DOMAIN u = 1..n
    BY <2>3
  <2> QED
    BY <1>2, <2>3, <2>5, <2>6 DEF SortedAs
<1> HIDE DEF u, n
<1>5. SortedAs(table, Entries)
  BY <1>1, <1>4, SortedIs
<1>6. table \in [1..n -> Entries] /\ DOMAIN table = 1..n
  BY <1>2, <1>5 DEF SortedAs
<1>7. Len(table) = n
  BY <1>1, <1>6
<1>8. \A j, k \in 1..n : j < k => table[j].dest < table[k].dest
  BY <1>5, <1>6 DEF SortedAs
<1>9. table \in Injection(1..n, Entries)
  <2>1. \A j \in 1..n : table[j].dest \in Nat
    BY <1>1, <1>6, EntryIs
  <2>2. ASSUME NEW j \in 1..n, NEW k \in 1..n, table[j] = table[k] PROVE j = k
    <3>1. ~(j < k) /\ ~(k < j)
      BY <1>8, <2>1, <2>2
    <3> QED
      BY <1>1, <3>1
  <2> QED
    BY <1>6, <2>2 DEF Injection, IsInjective
<1>10. Cardinality(1..n) = n
  BY <1>1, FS_Interval
<1>11. table \in Surjection(1..n, Entries)
  BY <1>2, <1>9, <1>10, FS_Injection
<1>12. ASSUME NEW i \in known PROVE \E k \in 1..n : table[k].dest = i
  <2> DEFINE x == [dest |-> i, next_hop |-> NextHop[i], cost |-> d[i]]
  <2>1. x \in Entries /\ x.dest = i
    BY DEF Entries
  <2> HIDE DEF x
  <2>2. \E k \in 1..n : table[k] = x
    BY <1>11, <2>1 DEF Surjection
  <2> QED
    BY <2>1, <2>2
<1> QED
  BY <1>1, <1>6, <1>7, <1>8, <1>12 DEF n

\* Each LSA lists the nodes that are known before those that are not.
KnownFirst ==
    \A s \in valid : \A i, j \in DOMAIN links[s] :
        i < j /\ links[s][j] \in known => links[s][i] \in known

\* A scan that meets the known nodes first finds all of them.
LEMMA ScanFindsKnown ==
    ASSUME Inputs, KnownFirst, NEW s \in valid
    PROVE  \A c : c \in Scanned(links[s]) <=>
                  c \in known /\ \E j \in DOMAIN links[s] : links[s][j] = c
<1> DEFINE l == links[s]
<1>1. l \in LinkLists /\ \A i, j \in DOMAIN l : i < j /\ l[j] \in known => l[i] \in known
  BY DEF Inputs, KnownFirst
<1> HIDE DEF l
<1>2. PICK k \in 0..MaxLinks : l \in [1..k -> Node]
  BY <1>1 DEF LinkLists
<1>3. Scanned(l) \subseteq known
  BY <1>1, ScannedKnown
<1>4. \A c \in Scanned(l) : \E j \in DOMAIN l : l[j] = c
  BY DEF Scanned
<1>5. ASSUME NEW j \in DOMAIN l, l[j] \in known PROVE l[j] \in Scanned(l)
  <2>1. j \in 1..k /\ DOMAIN l = 1..k
    BY <1>2, <1>5
  <2>2. \A i \in 1..j : i \in DOMAIN l /\ (i < j \/ i = j)
    BY <2>1, RouteAssumption
  <2>3. \A i \in 1..j : l[i] \in known
    BY <1>1, <1>5, <2>2
  <2> QED
    BY <1>5, <2>3 DEF Scanned
<1> QED
  BY <1>3, <1>4, <1>5 DEF l

LEMMA BuiltTopology == Inputs /\ KnownFirst => Built = Topology
<1> SUFFICES ASSUME Inputs, KnownFirst PROVE Built = Topology
  OBVIOUS
<1> DEFINE B == UNION {{<<r, c>> : c \in Scanned(links[r])} : r \in valid \ {Self}}
           T == {e \in (valid \ {Self}) \X known :
                    \E j \in DOMAIN links[e[1]] : links[e[1]][j] = e[2]}
<1>1. ASSUME NEW e \in B PROVE e \in T
  <2>1. PICK r \in valid \ {Self} : e \in {<<r, c>> : c \in Scanned(links[r])}
    OBVIOUS
  <2>2. PICK c \in Scanned(links[r]) : e = <<r, c>>
    BY <2>1
  <2>3. c \in known /\ \E j \in DOMAIN links[r] : links[r][j] = c
    BY <2>2, ScanFindsKnown
  <2> QED
    BY <2>2, <2>3
<1>2. ASSUME NEW e \in T PROVE e \in B
  <2>1. PICK r \in valid \ {Self}, c \in known : e = <<r, c>>
    OBVIOUS
  <2>2. \E j \in DOMAIN links[r] : links[r][j] = c
    BY <2>1
  <2>3. c \in Scanned(links[r])
    BY <2>2, ScanFindsKnown
  <2> QED
    BY <2>1, <2>3
<1>3. B = T
  BY <1>1, <1>2
<1> QED
  BY <1>3 DEF Built, Topology

\* The route table has the shortest distance to every known node, in the graph that
\* was constructed.
THEOREM ShortestPathsInvariance == Spec => []ShortestPaths
<1>1. IType /\ BuiltGraph /\ Settled => ShortestPaths
  <2> SUFFICES ASSUME IType, BuiltGraph, Settled, pc = "done" PROVE IsShortest(graph)
    BY DEF ShortestPaths
  <2>1. Tree /\ graph = Built /\ Inputs
    BY DEF IType, BuiltGraph, Settled
  <2>2. \A i \in 1..Len(table) : table[i] \in Entries
    BY TableIs
  <2> QED
    BY <2>1, <2>2, EntryIs, SelfDistance DEF IsShortest
<1> QED
  BY <1>1, TypeHolds, BuiltHolds, SettledHolds, PTL

\* That is the shortest one in the topology the LSAs describe, unless the scan of the
\* links of one of them stops at an unknown node before a known one.
THEOREM ShortestWhenScanned == Spec => [](KnownFirst => ShortestInTopology)
<1>1. IType /\ BuiltGraph /\ Settled /\ ShortestPaths => (KnownFirst => ShortestInTopology)
  <2> SUFFICES ASSUME IType, BuiltGraph, Settled, ShortestPaths, KnownFirst, pc = "done"
               PROVE  IsShortest(Topology)
    BY DEF ShortestInTopology
  <2>1. graph = Topology
    BY BuiltTopology DEF IType, BuiltGraph, Settled
  <2>2. IsShortest(graph)
    BY DEF ShortestPaths
  <2> QED
    BY <2>1, <2>2
<1> QED
  BY <1>1, TypeHolds, BuiltHolds, SettledHolds, ShortestPathsInvariance, PTL

-----------------------------------------------------------------------------
(* The binary search.                                                      *)

Windows == (1..Len(table) + 1) \X (0..Len(table))

\* The equation of find in FindRouteEntry.
FindStep(h, target) ==
    h = [w \in (1..Len(table) + 1) \X (0..Len(table)) |->
            IF Miss(w[1], w[2]) THEN {}
            ELSE IF target < table[Middle(w)].dest THEN h[<<w[1], Middle(w) - 1>>]
            ELSE IF target > table[Middle(w)].dest THEN h[<<Middle(w) + 1, w[2]>>]
            ELSE {table[Middle(w)]}]

\* What there is to find between w[1] and w[2].
Inside(w, target) == {table[k] : k \in {j \in w[1]..w[2] : table[j].dest = target}}

\* A table that is strictly sorted.
Ascending ==
    /\ Len(table) \in Nat
    /\ \A k \in 1..Len(table) : table[k].dest \in Nat
    /\ \A j, k \in 1..Len(table) : j < k => table[j].dest < table[k].dest

LEMMA MiddleInside ==
    ASSUME Ascending, NEW w \in Windows, ~Miss(w[1], w[2])
    PROVE  /\ Middle(w) \in w[1]..w[2] /\ Middle(w) \in 1..Len(table)
           /\ <<w[1], Middle(w) - 1>> \in Windows
           /\ <<Middle(w) + 1, w[2]>> \in Windows
           /\ w[1] \in 1..Len(table) /\ w[2] \in 1..Len(table)
<1> DEFINE a == w[1]
           b == w[2]
           n == Len(table)
           m == Middle(w)
<1>1. a \in 1..n + 1 /\ b \in 0..n /\ a <= b /\ n \in Nat
  BY DEF Windows, Ascending, Miss
<1>2. m = a + (b - a) \div 2
  BY DEF Middle
<1> HIDE DEF a, b, n, m
<1>3. m \in a..b /\ m \in 1..n /\ m - 1 \in 0..n /\ m + 1 \in 1..n + 1
  BY <1>1, <1>2
<1>4. a \in 1..n /\ b \in 1..n
  BY <1>1
<1> QED
  BY <1>1, <1>3, <1>4 DEF a, b, n, m, Windows

\* One comparison leaves what there is to find inside the half that is kept.
LEMMA Halved ==
    ASSUME Ascending, NEW w \in Windows, NEW target \in Nat
    PROVE  /\ Miss(w[1], w[2]) => Inside(w, target) = {}
           /\ ~Miss(w[1], w[2]) =>
                 IF target < table[Middle(w)].dest
                 THEN Inside(w, target) = Inside(<<w[1], Middle(w) - 1>>, target)
                 ELSE IF target > table[Middle(w)].dest
                 THEN Inside(w, target) = Inside(<<Middle(w) + 1, w[2]>>, target)
                 ELSE Inside(w, target) = {table[Middle(w)]}
<1> DEFINE n == Len(table)
<1>1. n \in Nat /\ w[1] \in 1..n + 1 /\ w[2] \in 0..n
  BY DEF Windows, Ascending
<1>2. ASSUME Miss(w[1], w[2]) PROVE Inside(w, target) = {}
  BY <1>1, <1>2 DEF Miss, Inside
<1>3. ASSUME ~Miss(w[1], w[2])
      PROVE  IF target < table[Middle(w)].dest
             THEN Inside(w, target) = Inside(<<w[1], Middle(w) - 1>>, target)
             ELSE IF target > table[Middle(w)].dest
             THEN Inside(w, target) = Inside(<<Middle(w) + 1, w[2]>>, target)
             ELSE Inside(w, target) = {table[Middle(w)]}
  <2> DEFINE m == Middle(w)
             D(k) == table[k].dest
  <2>1. /\ m \in w[1]..w[2] /\ m \in 1..n
        /\ w[1] \in 1..n /\ w[2] \in 1..n
    BY <1>3, MiddleInside
  <2>2. \A k \in w[1]..w[2] : k \in 1..n
    BY <1>1, <2>1
  <2>3. /\ \A k \in 1..n : D(k) \in Nat
        /\ \A j, k \in 1..n : j < k => D(j) < D(k)
    BY DEF Ascending
  <2> HIDE DEF m, D
  <2>4. ASSUME target < D(m), NEW k \in w[1]..w[2], D(k) = target PROVE k \in w[1]..(m - 1)
    <3>1. ~(m < k) /\ m # k
      BY <2>1, <2>2, <2>3, <2>4
    <3> QED
      BY <1>1, <2>1, <2>4, <3>1
  <2>5. ASSUME target > D(m), NEW k \in w[1]..w[2], D(k) = target PROVE k \in (m + 1)..w[2]
    <3>1. ~(k < m) /\ m # k
      BY <2>1, <2>2, <2>3, <2>5
    <3> QED
      BY <1>1, <2>1, <2>5, <3>1
  <2>6. ASSUME target = D(m), NEW k \in w[1]..w[2], D(k) = target PROVE k = m
    <3>1. ~(k < m) /\ ~(m < k)
      BY <2>1, <2>2, <2>3, <2>6
    <3> QED
      BY <1>1, <2>1, <2>6, <3>1
  <2>7. w[1]..(m - 1) \subseteq w[1]..w[2] /\ (m + 1)..w[2] \subseteq w[1]..w[2]
    BY <1>1, <2>1
  <2> DEFINE Hits(lo, hi) == {j \in lo..hi : D(j) = target}
  <2>8. target < D(m) => Hits(w[1], w[2]) = Hits(w[1], m - 1)
    BY <2>4, <2>7
  <2>9. target > D(m) => Hits(w[1], w[2]) = Hits(m + 1, w[2])
    BY <2>5, <2>7
  <2>10. target = D(m) => Hits(w[1], w[2]) = {m}
    BY <2>1, <2>6
  <2>11. \A lo, hi : Inside(<<lo, hi>>, target) = {table[k] : k \in Hits(lo, hi)}
    BY DEF Inside, D
  <2>12. Inside(w, target) = {table[k] : k \in Hits(w[1], w[2])}
    BY DEF Inside, D
  <2>13. target \in Nat /\ D(m) \in Nat
    BY <2>1, <2>3
  <2> HIDE DEF Hits
  <2>14. CASE target < D(m)
    BY <2>8, <2>11, <2>12, <2>14 DEF m, D
  <2>15. CASE target > D(m)
    BY <2>9, <2>11, <2>12, <2>13, <2>15 DEF m, D
  <2>16. CASE target = D(m)
    BY <2>10, <2>12, <2>13, <2>16 DEF m, D
  <2> QED
    BY <2>13, <2>14, <2>15, <2>16
<1> QED
  BY <1>2, <1>3

\* The search finds what there is to find.
LEMMA SearchFinds ==
    ASSUME Ascending, NEW target \in Nat
    PROVE  FindRouteEntry(target) = Inside(<<1, Len(table)>>, target)
<1> DEFINE n == Len(table)
           g == [w \in Windows |-> Inside(w, target)]
           h == CHOOSE f : FindStep(f, target)
<1>1. n \in Nat
  BY DEF Ascending
<1>2. FindStep(g, target)
  <2> DEFINE s == [w \in Windows |->
                      IF Miss(w[1], w[2]) THEN {}
                      ELSE IF target < table[Middle(w)].dest
                      THEN g[<<w[1], Middle(w) - 1>>]
                      ELSE IF target > table[Middle(w)].dest
                      THEN g[<<Middle(w) + 1, w[2]>>]
                      ELSE {table[Middle(w)]}]
  <2>1. ASSUME NEW w \in Windows PROVE g[w] = s[w]
    <3>1. CASE Miss(w[1], w[2])
      BY <2>1, <3>1, Halved
    <3>2. CASE ~Miss(w[1], w[2])
      <4>1. <<w[1], Middle(w) - 1>> \in Windows /\ <<Middle(w) + 1, w[2]>> \in Windows
        BY <2>1, <3>2, MiddleInside
      <4> QED
        BY <2>1, <3>2, <4>1, Halved
    <3> QED
      BY <3>1, <3>2
  <2>2. g = s
    BY <2>1
  <2> QED
    BY <2>2 DEF FindStep, Windows
<1> HIDE DEF g
<1>3. FindStep(h, target)
  BY <1>2
<1>4. FindRouteEntry(target) = h[<<1, n>>]
  BY DEF FindRouteEntry, FindStep
<1> HIDE DEF h
<1>5. \A w \in Windows :
         h[w] = IF Miss(w[1], w[2]) THEN {}
                ELSE IF target < table[Middle(w)].dest THEN h[<<w[1], Middle(w) - 1>>]
                ELSE IF target > table[Middle(w)].dest THEN h[<<Middle(w) + 1, w[2]>>]
                ELSE {table[Middle(w)]}
  BY <1>3 DEF FindStep, Windows
<1> DEFINE P == {k \in 0..n : \A w \in Windows :
                                 w[2] - w[1] < k => h[w] = Inside(w, target)}
<1>6. \A w \in Windows : w[1] \in 1..n + 1 /\ w[2] \in 0..n
  BY DEF Windows
<1> HIDE DEF n
<1>7. ASSUME NEW w \in Windows, Miss(w[1], w[2]) PROVE h[w] = Inside(w, target)
  BY <1>5, <1>7, Halved
<1>8. 0 \in P
  <2>1. \A w \in Windows : w[2] - w[1] < 0 => Miss(w[1], w[2])
    BY <1>1, <1>6 DEF Miss
  <2> QED
    BY <1>1, <1>7, <2>1
<1>9. ASSUME NEW k \in 1..n, k - 1 \in P PROVE k \in P
  <2>1. ASSUME NEW w \in Windows, w[2] - w[1] < k, ~Miss(w[1], w[2])
        PROVE  h[w] = Inside(w, target)
    <3> DEFINE m == Middle(w)
               left == <<w[1], m - 1>>
               right == <<m + 1, w[2]>>
    <3>1. m \in w[1]..w[2] /\ left \in Windows /\ right \in Windows
      BY <2>1, MiddleInside
    <3>2. left[2] - left[1] < k - 1 /\ right[2] - right[1] < k - 1
      <4> HIDE DEF m
      <4> QED
        BY <1>1, <1>6, <1>9, <2>1, <3>1
    <3>3. h[left] = Inside(left, target) /\ h[right] = Inside(right, target)
      <4> HIDE DEF left, right
      <4> QED
        BY <1>9, <3>1, <3>2
    <3> QED
      BY <1>5, <2>1, <3>1, <3>3, Halved
  <2>2. \A w \in Windows : w[2] - w[1] < k => h[w] = Inside(w, target)
    BY <1>7, <2>1
  <2> QED
    BY <1>1, <1>9, <2>2
<1> HIDE DEF P
<1>10. \A k \in 1..n : k - 1 \in P => k \in P
  BY <1>9
<1>11. \A k \in 0..n : k \in P
  BY <1>1, <1>8, <1>10, UpTo, Zenon
<1>12. <<1, n>> \in Windows /\ n \in P
  BY <1>1, <1>11 DEF Windows, n
<1> DEFINE w == <<1, n>>
<1>13. w \in Windows /\ w[2] - w[1] < n
  BY <1>1, <1>12
<1> HIDE DEF w
<1>14. h[w] = Inside(w, target)
  BY <1>12, <1>13 DEF P
<1> QED
  BY <1>4, <1>14 DEF w, n

\* The binary search finds the entry of every known node, and nothing for a node
\* that is not known.
THEOREM FindsEveryEntryInvariance == Spec => []FindsEveryEntry
<1>1. IType /\ Settled => FindsEveryEntry
  <2> SUFFICES ASSUME IType, Settled, pc = "done" PROVE FindsEveryEntry
    BY DEF FindsEveryEntry
  <2>1. Len(table) = Cardinality(known) /\ Len(table) \in Nat
    BY TableIs
  <2>2. \A k \in 1..Len(table) : table[k].dest \in Nat
    <3>1. \A k \in 1..Len(table) : table[k] \in Entries
      BY TableIs
    <3>2. \A i \in known : i \in Nat
      BY RouteAssumption DEF IType, Inputs
    <3> QED
      BY <3>1, <3>2, EntryIs
  <2>3. Ascending
    BY <2>1, <2>2, TableIs DEF Ascending
  <2>4. \A i \in Node : FindRouteEntry(i) = Inside(<<1, Len(table)>>, i)
    BY <2>3, SearchFinds, RouteAssumption
  <2> QED
    BY <2>1, <2>4 DEF FindsEveryEntry, Inside
<1> QED
  BY <1>1, TypeHolds, SettledHolds, PTL

-----------------------------------------------------------------------------
(* The next hops.                                                          *)

\* The right side of the equation of hop in get_next_hop, for one node.
HopOf(f, i) == IF prev[i] = NoHop
               THEN IF i = Self THEN Self ELSE NoHop
               ELSE IF prev[i] = Self THEN i ELSE f[prev[i]]
HopStep(f) == f = [i \in known |-> IF prev[i] = NoHop
                                   THEN IF i = Self THEN Self ELSE NoHop
                                   ELSE IF prev[i] = Self THEN i ELSE f[prev[i]]]

\* Following prev ends: the equation has a solution, which NNode steps of it reach.
LEMMA HopExists == Tree => \E f : HopStep(f)
<1> SUFFICES ASSUME Tree PROVE \E f : HopStep(f)
  OBVIOUS
<1> DEFINE U == Node \cup {NoHop}
           V == [known -> U]
           v == [i \in known |-> IF i = Self THEN Self ELSE NoHop]
           A == [f \in V |-> [i \in known |-> HopOf(f, i)]]
           T == [k \in 1..NNode |-> A]
<1>1. /\ NNode \in Nat /\ known \subseteq Node /\ Self \in known
      /\ Self \in Node /\ prev[Self] = NoHop /\ d[Self] = 0 /\ Infinity \in Nat
      /\ \A i \in known : d[i] \in 0..Infinity
      /\ \A i \in known : prev[i] # NoHop => prev[i] \in known
      /\ \A i \in known \ {Self} : d[i] = Infinity <=> prev[i] = NoHop
  BY NodesFinite DEF Tree
<1>2. v \in V
  BY <1>1
<1>3. A \in [V -> V]
  <2>1. ASSUME NEW f \in V, NEW i \in known PROVE HopOf(f, i) \in U
    BY <1>1, <2>1 DEF HopOf
  <2>2. ASSUME NEW f \in V PROVE [i \in known |-> HopOf(f, i)] \in V
    BY <2>1, <2>2
  <2> HIDE DEF V
  <2> QED
    BY <2>2
<1>4. \A f \in V, i \in known : A[f][i] = HopOf(f, i)
  OBVIOUS
<1> HIDE DEF A
<1>5. T \in [1..NNode -> [V -> V]] /\ \A k \in 1..NNode : T[k] = A
  BY <1>3
<1>6. \A i \in known : prev[i] = NoHop => \A f : HopOf(f, i) = v[i]
  BY DEF HopOf
<1> HIDE DEF T, V, U, v
<1>7. \E f : Iterates(f, NNode, V, v, T)
  BY <1>1, <1>2, <1>5, Iterated
<1>8. PICK f \in [0..NNode -> V] : f[0] = v /\ \A k \in 1..NNode : f[k] = A[f[k - 1]]
  BY <1>5, <1>7 DEF Iterates
<1>9. ASSUME NEW k \in 1..NNode, NEW i \in known PROVE f[k][i] = HopOf(f[k - 1], i)
  <2>1. k - 1 \in 0..NNode
    BY <1>1
  <2>2. f[k - 1] \in V /\ f[k] = A[f[k - 1]]
    BY <1>8, <2>1
  <2> QED
    BY <1>4, <2>2
<1> DEFINE P == {k \in 0..NNode :
                    \A i \in known : prev[i] = NoHop \/ d[i] <= k =>
                                         f[k][i] = HopOf(f[k], i)}
<1>10. 0 \in P
  <2>1. ASSUME NEW i \in known, d[i] <= 0 PROVE prev[i] = NoHop
    <3>1. CASE i = Self
      BY <1>1, <3>1
    <3>2. CASE i # Self
      <4>1. d[i] \in Nat /\ d[i] = 0 /\ Infinity # 0
        BY <1>1, <2>1, NodesFinite
      <4>2. d[i] = d[prev[i]] + 1 /\ d[prev[i]] \in Nat
        BY <3>2, <4>1, Before
      <4> QED
        BY <4>1, <4>2
    <3> QED
      BY <3>1, <3>2
  <2>2. \A i \in known : prev[i] = NoHop => f[0][i] = HopOf(f[0], i)
    BY <1>6, <1>8
  <2> QED
    BY <1>1, <2>1, <2>2
<1>11. ASSUME NEW k \in 1..NNode, k - 1 \in P PROVE k \in P
  <2>1. ASSUME NEW i \in known, prev[i] = NoHop \/ d[i] <= k
        PROVE  f[k][i] = HopOf(f[k], i)
    <3>1. f[k][i] = HopOf(f[k - 1], i)
      BY <1>9, <1>11
    <3>2. CASE prev[i] = NoHop \/ prev[i] = Self
      BY <3>1, <3>2 DEF HopOf
    <3>3. CASE prev[i] # NoHop /\ prev[i] # Self
      <4> DEFINE p == prev[i]
      <4>1. i # Self /\ d[i] # Infinity /\ d[i] <= k
        BY <1>1, <2>1, <3>3
      <4>2. p \in known /\ d[p] \in Nat /\ d[i] = d[p] + 1
        BY <4>1, Before
      <4>3. HopOf(f[k], i) = f[k][p] /\ HopOf(f[k - 1], i) = f[k - 1][p]
        BY <3>3 DEF HopOf
      <4> HIDE DEF p
      <4>4. d[p] <= k - 1
        BY <1>11, <4>1, <4>2
      <4>5. f[k - 1][p] = HopOf(f[k - 1], p)
        BY <1>11, <4>2, <4>4
      <4>6. f[k][p] = HopOf(f[k - 1], p)
        BY <1>9, <1>11, <4>2
      <4> QED
        BY <3>1, <4>3, <4>5, <4>6
    <3> QED
      BY <3>2, <3>3
  <2>2. k \in 0..NNode
    BY <1>1, <1>11
  <2> QED
    BY <2>1, <2>2
<1> HIDE DEF P
<1>12. \A k \in 1..NNode : k - 1 \in P => k \in P
  BY <1>11
<1>13. \A k \in 0..NNode : k \in P
  BY <1>1, <1>10, <1>12, UpTo, Zenon
<1> DEFINE h == f[NNode]
<1>14. NNode \in P /\ h \in V
  BY <1>1, <1>8, <1>13
<1>15. ASSUME NEW i \in known PROVE h[i] = HopOf(h, i)
  <2>1. prev[i] = NoHop \/ d[i] <= NNode
    <3>1. prev[i] # NoHop => d[i] # Infinity
      BY <1>1
    <3>2. d[i] # Infinity => d[i] \in Nat /\ d[i] < NNode
      BY Near
    <3> QED
      BY <1>1, <3>1, <3>2
  <2> QED
    BY <1>14, <2>1 DEF P
<1> HIDE DEF h
<1>16. h = [i \in known |-> HopOf(h, i)]
  BY <1>14, <1>15 DEF V
<1>17. HopStep(h)
  BY <1>16 DEF HopStep, HopOf
<1> QED
  BY <1>17

LEMMA NextHopIs == Tree => \A i \in known : NextHop[i] = HopOf(NextHop, i)
<1> SUFFICES ASSUME Tree PROVE \A i \in known : NextHop[i] = HopOf(NextHop, i)
  OBVIOUS
<1> DEFINE h == CHOOSE f : HopStep(f)
<1>1. HopStep(h)
  BY HopExists
<1>2. NextHop = h
  BY DEF NextHop, HopStep
<1> HIDE DEF h
<1>3. \A i \in known : h[i] = HopOf(h, i)
  BY <1>1 DEF HopStep, HopOf
<1> QED
  BY <1>2, <1>3

\* A next hop h of i: one link from the node, and on a shortest way to i.
Leads(h, i) ==
    /\ h \in known /\ h # Self /\ <<Self, h>> \in graph
    /\ i \in Within(graph, h)[d[i] - 1]

LEMMA HopLeads ==
    ASSUME Tree
    PROVE  \A i \in known : i # Self /\ d[i] # Infinity => Leads(NextHop[i], i)
<1>1. /\ NNode \in Nat /\ known \subseteq Node /\ Self \in known /\ d[Self] = 0
      /\ graph \in SUBSET (Node \X Node) /\ prev[Self] = NoHop
      /\ \A i \in known : d[i] \in 0..Infinity
  BY NodesFinite DEF Tree
<1> DEFINE hop == NextHop
           P == {k \in 0..NNode :
                    \A i \in known : i # Self /\ d[i] # Infinity /\ d[i] <= k =>
                                         Leads(hop[i], i)}
<1>2. \A i \in known : hop[i] = HopOf(hop, i)
  BY NextHopIs
<1> HIDE DEF hop
<1>3. \A i \in known : i # Self /\ d[i] # Infinity => d[i] \in Nat /\ d[i] >= 1
  <2> SUFFICES ASSUME NEW i \in known, i # Self, d[i] # Infinity
               PROVE  d[i] \in Nat /\ d[i] >= 1
    OBVIOUS
  <2>1. d[i] \in Nat /\ d[prev[i]] \in Nat /\ d[i] = d[prev[i]] + 1
    BY Before
  <2> QED
    BY <2>1
<1>4. 0 \in P
  BY <1>1, <1>3
<1>5. ASSUME NEW k \in 1..NNode, k - 1 \in P PROVE k \in P
  <2>1. ASSUME NEW i \in known, i # Self, d[i] # Infinity, d[i] <= k
        PROVE  Leads(hop[i], i)
    <3> DEFINE p == prev[i]
    <3>1. /\ p # NoHop /\ p \in known /\ <<p, i>> \in graph
          /\ d[i] \in Nat /\ d[p] \in Nat /\ d[i] = d[p] + 1
      BY <2>1, Before
    <3>2. hop[i] = IF p = Self THEN i ELSE hop[p]
      BY <1>2, <3>1 DEF HopOf
    <3> HIDE DEF p
    <3>3. CASE p = Self
      <4>1. i \in Node /\ graph \in SUBSET (Node \X Node)
        BY <1>1, <2>1
      <4>2. Within(graph, i)[0] = {i}
        BY <4>1, WithinIs
      <4>3. d[i] - 1 = 0
        BY <1>1, <3>1, <3>3
      <4> QED
        BY <2>1, <3>1, <3>2, <3>3, <4>2, <4>3 DEF Leads
    <3>4. CASE p # Self
      <4>1. d[i] < NNode
        BY <2>1, Near
      <4>2. d[p] # Infinity /\ d[p] <= k - 1
        BY <1>5, <2>1, <3>1, <4>1, NodesFinite
      <4> DEFINE h == hop[p]
      <4>3. Leads(h, p)
        BY <1>5, <3>1, <3>4, <4>2
      <4> HIDE DEF h
      <4>4. h \in known /\ h # Self /\ <<Self, h>> \in graph /\ p \in Within(graph, h)[d[p] - 1]
        BY <4>3 DEF Leads
      <4>5. d[p] \in 1..NNode
        BY <1>1, <1>3, <3>1, <3>4, <4>1, <4>2
      <4>6. Within(graph, h)[d[p]] = After(graph, Within(graph, h)[d[p] - 1])
        <5>1. h \in Node /\ graph \in SUBSET (Node \X Node)
          BY <1>1, <4>4
        <5>2. \A m \in 1..NNode : Within(graph, h)[m] = After(graph, Within(graph, h)[m - 1])
          BY <5>1, WithinIs
        <5> QED
          BY <4>5, <5>2
      <4>7. i \in Within(graph, h)[d[p]] /\ d[p] = d[i] - 1
        BY <3>1, <4>4, <4>6 DEF After
      <4> QED
        BY <3>2, <3>4, <4>4, <4>7 DEF Leads, h
    <3> QED
      BY <3>3, <3>4
  <2> QED
    BY <1>1, <1>5, <2>1
<1> HIDE DEF P
<1>6. \A k \in 1..NNode : k - 1 \in P => k \in P
  BY <1>5
<1>7. \A k \in 0..NNode : k \in P
  BY <1>1, <1>4, <1>6, UpTo, Zenon
<1>8. NNode \in P
  BY <1>1, <1>7
<1> SUFFICES ASSUME NEW i \in known, i # Self, d[i] # Infinity PROVE Leads(NextHop[i], i)
  OBVIOUS
<1>9. d[i] <= NNode
  BY <1>1, Near
<1> QED
  BY <1>8, <1>9 DEF P, hop

\* No node is further than d[h] + k that is within k links of h.
LEMMA NotFurther ==
    ASSUME Tree, NEW h \in known
    PROVE  \A k \in 0..NNode : \A i \in Within(graph, h)[k] :
               i \in known /\ d[i] <= d[h] + k
<1>1. /\ NNode \in Nat /\ h \in Node /\ d[h] \in Nat
      /\ graph \in SUBSET (Node \X Node) /\ graph \subseteq known \X known
      /\ \A i \in known : d[i] \in Nat
      /\ \A i, j \in known : <<i, j>> \in graph => d[j] <= d[i] + 1
  BY NodesFinite DEF Tree
<1> DEFINE W == Within(graph, h)
           P == {k \in 0..NNode : \A i \in W[k] : i \in known /\ d[i] <= d[h] + k}
<1>2. W[0] = {h} /\ \A k \in 1..NNode : W[k] = After(graph, W[k - 1])
  BY <1>1, WithinIs
<1> HIDE DEF W
<1>3. 0 \in P
  BY <1>1, <1>2
<1>4. ASSUME NEW k \in 1..NNode, k - 1 \in P PROVE k \in P
  <2>1. ASSUME NEW i \in W[k] PROVE i \in known /\ d[i] <= d[h] + k
    <3>1. CASE i \in W[k - 1]
      BY <1>1, <1>4, <3>1
    <3>2. CASE i \notin W[k - 1]
      <4>1. PICK e \in graph : e[1] \in W[k - 1] /\ i = e[2]
        BY <1>2, <1>4, <2>1, <3>2 DEF After
      <4>2. e[1] \in known /\ i \in known /\ <<e[1], i>> \in graph
        BY <1>1, <4>1
      <4>3. d[e[1]] <= d[h] + (k - 1)
        BY <1>4, <4>1
      <4>4. d[i] <= d[e[1]] + 1 /\ d[e[1]] \in Nat /\ d[i] \in Nat
        BY <1>1, <4>2
      <4> QED
        BY <1>1, <1>4, <4>2, <4>3, <4>4
    <3> QED
      BY <3>1, <3>2
  <2>2. k \in 0..NNode
    BY <1>1, <1>4
  <2> QED
    BY <2>1, <2>2
<1> HIDE DEF P
<1>5. \A k \in 1..NNode : k - 1 \in P => k \in P
  BY <1>4
<1>6. \A k \in 0..NNode : k \in P
  BY <1>1, <1>3, <1>5, UpTo, Zenon
<1> QED
  BY <1>6 DEF P, W

\* A next hop is one link nearer.
LEMMA HopDistance ==
    ASSUME Tree, NEW i \in known, i # Self, d[i] # Infinity, NEW h, Leads(h, i)
    PROVE  Distance(graph, h)[i] = d[i] - 1
<1>1. /\ NNode \in Nat /\ i \in Node /\ h \in known /\ h \in Node /\ Self \in known
      /\ d[Self] = 0 /\ <<Self, h>> \in graph /\ graph \in SUBSET (Node \X Node)
      /\ \A j \in known : d[j] \in Nat
      /\ \A j, k \in known : <<j, k>> \in graph => d[k] <= d[j] + 1
  BY NodesFinite DEF Tree, Leads
<1>2. d[h] \in Nat /\ d[h] <= 1
  <2>1. d[h] <= d[Self] + 1
    BY <1>1
  <2> QED
    BY <1>1, <2>1
<1>3. d[i] \in Nat /\ d[i] < NNode /\ d[i] >= 1
  <2>1. d[i] \in Nat /\ d[prev[i]] \in Nat /\ d[i] = d[prev[i]] + 1
    BY Before
  <2> QED
    BY <2>1, Near
<1> DEFINE m == d[i] - 1
<1>4. m \in 0..NNode
  BY <1>1, <1>3
<1>5. i \in Within(graph, h)[m]
  BY DEF Leads
<1>6. ASSUME NEW k \in 0..NNode PROVE i \in Within(graph, h)[k] <=> m <= k
  <2> HIDE DEF m
  <2>1. i \in Within(graph, h)[k] => d[i] <= d[h] + k
    BY <1>1, <1>6, NotFurther
  <2>2. m <= k => Within(graph, h)[m] \subseteq Within(graph, h)[k]
    BY <1>1, <1>4, <1>6, WithinGrows
  <2>3. d[i] <= d[h] + k => m <= k
    BY <1>2, <1>3, <1>6 DEF m
  <2> QED
    BY <1>5, <2>1, <2>2, <2>3
<1> HIDE DEF m
<1>7. AtDistance(graph, h, i, m)
  BY <1>6 DEF AtDistance
<1>8. Distance(graph, h)[i] = m
  BY <1>1, <1>4, <1>7, DistanceIs
<1> QED
  BY <1>8 DEF m

\* A next hop is a valid neighbour one link nearer to the destination: a request
\* forwarded along the table comes nearer with every node.  A destination out of
\* reach has no next hop, and the node is its own.
THEOREM NextHopAdvancesInvariance == Spec => []NextHopAdvances
<1>1. BuiltGraph /\ Settled => NextHopAdvances
  <2> SUFFICES ASSUME BuiltGraph, Settled, pc = "done", NEW k \in 1..Len(table)
               PROVE  LET e == table[k]
                      IN  IF e.dest = Self THEN e.next_hop = Self
                          ELSE IF e.cost = Infinity THEN e.next_hop = NoHop
                          ELSE /\ e.next_hop \in (nbrs \cap known) \ {Self}
                               /\ Distance(graph, e.next_hop)[e.dest] = e.cost - 1
    BY DEF NextHopAdvances
  <2> DEFINE i == table[k].dest
  <2>1. Tree /\ graph = Built
    BY DEF BuiltGraph, Settled
  <2>2. i \in known /\ table[k].next_hop = NextHop[i] /\ table[k].cost = d[i]
    <3>1. table[k] \in Entries
      BY TableIs
    <3> QED
      BY <3>1, EntryIs
  <2> HIDE DEF i
  <2>3. NextHop[i] = HopOf(NextHop, i)
    BY <2>1, <2>2, NextHopIs
  <2>4. CASE i = Self
    <3>1. prev[i] = NoHop
      BY <2>1, <2>4 DEF Tree
    <3> QED
      BY <2>2, <2>3, <2>4, <3>1 DEF HopOf, i
  <2>5. CASE i # Self /\ d[i] = Infinity
    <3>1. prev[i] = NoHop
      BY <2>1, <2>2, <2>5 DEF Tree
    <3> QED
      BY <2>2, <2>3, <2>5, <3>1 DEF HopOf, i
  <2>6. CASE i # Self /\ d[i] # Infinity
    <3> DEFINE h == NextHop[i]
    <3>1. Leads(h, i)
      BY <2>1, <2>2, <2>6, HopLeads
    <3> HIDE DEF h
    <3>2. Distance(graph, h)[i] = d[i] - 1
      BY <2>1, <2>2, <2>6, <3>1, HopDistance
    <3>3. h \in (nbrs \cap known) \ {Self}
      <4>1. h # Self /\ <<Self, h>> \in Built
        BY <2>1, <3>1 DEF Leads
      <4> QED
        BY <4>1 DEF Built
    <3> QED
      BY <2>2, <2>6, <3>2, <3>3 DEF h, i
  <2> QED
    BY <2>4, <2>5, <2>6
<1> QED
  BY <1>1, BuiltHolds, SettledHolds, PTL
=============================================================================
