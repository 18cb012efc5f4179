----------------------------- MODULE RouteCalc -----------------------------
(***************************************************************************)
(* update_route_info (dijkstra.c): from the LSA table and the valid        *)
(* neighbours to the route table, one action per stage: the graph, one     *)
(* round of Dijkstra's algorithm, the sorted table; and the binary search  *)
(* for an entry.  The order of the nodes in g_node_id is that of the hash  *)
(* table, so a round may take any unvisited node of least distance.        *)
(***************************************************************************)
EXTENDS Naturals, Sequences, FiniteSets

CONSTANTS
    Node,      \* node ids, numbers: the table is sorted by them
    Self,      \* g_nid
    Infinity,  \* INFINITY, 2048 * 2048 in the code
    NoHop,     \* NEXT_HOP_NO and PREV_HOP_NO, -1 in the code
    MaxLinks   \* bound: links in one LSA

ASSUME RouteAssumption ==
    /\ Node \subseteq Nat /\ IsFiniteSet(Node)
    /\ Self \in Node
    /\ NoHop \notin Node
    /\ Infinity \in Nat /\ Infinity > Cardinality(Node)
    /\ MaxLinks \in Nat

VARIABLES
    known,    \* the senders with an entry in g_lsa_ht, Self among them
    valid,    \* those whose entry is valid
    links,    \* links[s]: the link entries of s, in the order of its LSA
    nbrs,     \* the valid neighbours; the node's own line is one of them
    pc,       \* the stage: "graph", "rounds", "table" or "done"
    graph,    \* g_graph, the pairs <<row, column>> that are LINK_COST
    d,        \* d[i]: shortest distance found so far
    prev,     \* prev[i]: the node before i on that path
    visited,  \* the nodes whose round is over
    table     \* g_route_table

inputs == <<known, valid, links, nbrs>>
vars == <<known, valid, links, nbrs, pc, graph, d, prev, visited, table>>

-----------------------------------------------------------------------------
\* The link entries an LSA can have, in any order.
LinkLists ==
    {l \in UNION {[1..k -> Node] : k \in 0..MaxLinks} :
        \A i, j \in DOMAIN l : l[i] = l[j] => i = j}

Init ==
    /\ known \in {k \in SUBSET Node : Self \in k}
    /\ valid \in {v \in SUBSET known : Self \in v}
    /\ links \in {f \in [Node -> LinkLists] :
                     \A s \in Node : IF s \in valid \ {Self}
                                     THEN \A j \in DOMAIN f[s] : f[s][j] # s
                                     ELSE f[s] = <<>>}
    /\ nbrs \in {b \in SUBSET Node : Self \in b}
    /\ pc = "graph"
    /\ graph = {}
    /\ d = [i \in known |-> Infinity]
    /\ prev = [i \in known |-> NoHop]
    /\ visited = {}
    /\ table = <<>>

-----------------------------------------------------------------------------
(* Bugs this code does not have, to see that the properties would notice.  *)

BugScanned(list) == {list[j] : j \in DOMAIN list}
BugIsNext(mini) == mini \in known \ visited
BugNextHop == prev
BugMiss(low, high) == low >= high

-----------------------------------------------------------------------------
(* The stages.                                                             *)

\* The scan of the link entries of one LSA.  Its pointer moves on only after a
\* known node, so that the entries behind an unknown one are never looked at.
Scanned(list) ==
    {list[j] : j \in {k \in DOMAIN list : \A i \in 1..k : list[i] \in known}}

\* construct_graph
ConstructGraph ==
    /\ pc = "graph"
    /\ graph' = {<<Self, c>> : c \in nbrs \cap known}
                \cup UNION {{<<r, c>> : c \in Scanned(links[r])} :
                               r \in valid \ {Self}}
    /\ d' = [d EXCEPT ![Self] = 0]
    /\ pc' = "rounds"
    /\ UNCHANGED <<inputs, prev, visited, table>>

IsNext(mini) ==
    /\ mini \in known \ visited
    /\ \A i \in known \ visited : d[mini] <= d[i]

\* One round of dijkstra: visit mini, update what it links to.
Round(mini) ==
    LET shorter == {i \in known : <<mini, i>> \in graph /\ d[mini] + 1 < d[i]}
    IN  /\ pc = "rounds"
        /\ IsNext(mini)
        /\ visited' = visited \cup {mini}
        /\ d' = [i \in known |-> IF i \in shorter THEN d[mini] + 1 ELSE d[i]]
        /\ prev' = [i \in known |-> IF i \in shorter THEN mini ELSE prev[i]]
        /\ pc' = IF visited' = known THEN "table" ELSE "rounds"
        /\ UNCHANGED <<inputs, graph, table>>

\* get_next_hop
NextHop ==
    LET hop[i \in known] == IF prev[i] = NoHop
                            THEN IF i = Self THEN Self ELSE NoHop
                            ELSE IF prev[i] = Self THEN i ELSE hop[prev[i]]
    IN  hop

\* qsort with cmp_dest_nid
Sorted(entries) ==
    CHOOSE t \in [1..Cardinality(entries) -> entries] :
        \A i, j \in DOMAIN t : i < j => t[i].dest < t[j].dest

\* fill_route_table
FillRouteTable ==
    /\ pc = "table"
    /\ table' = LET hop == NextHop
                IN  Sorted({[dest |-> i, next_hop |-> hop[i], cost |-> d[i]] : i \in known})
    /\ pc' = "done"
    /\ UNCHANGED <<inputs, graph, d, prev, visited>>

Done == pc = "done" /\ UNCHANGED vars

Next ==
    \/ ConstructGraph
    \/ \E mini \in known : Round(mini)
    \/ FillRouteTable
    \/ Done

Spec == Init /\ [][Next]_vars

\* find_route_entry: the binary search between low and high, {} for NULL.
Miss(low, high) == low > high
Middle(w) == w[1] + (w[2] - w[1]) \div 2
FindRouteEntry(target) ==
    LET find[w \in (1..Len(table) + 1) \X (0..Len(table))] ==
            IF Miss(w[1], w[2]) THEN {}
            ELSE IF target < table[Middle(w)].dest THEN find[<<w[1], Middle(w) - 1>>]
            ELSE IF target > table[Middle(w)].dest THEN find[<<Middle(w) + 1, w[2]>>]
            ELSE {table[Middle(w)]}
    IN  find[<<1, Len(table)>>]

-----------------------------------------------------------------------------
(* The reference: distances counted link by link.                          *)

\* Distance(g, s)[i]: the least number of links of g from s to i.
Distance(g, s) ==
    LET n == Cardinality(Node)
        within[k \in 0..n] ==
            IF k = 0 THEN {s}
            ELSE LET near == within[k - 1]
                 IN  near \cup {e[2] : e \in {e \in g : e[1] \in near}}
        ranges == [k \in 0..n |-> within[k]]
    IN  [i \in Node |->
            IF i \notin ranges[n] THEN Infinity
            ELSE Cardinality({k \in 0..n : i \notin ranges[k]})]

\* The topology the LSAs describe: every link between known nodes.
Topology ==
    {<<Self, c>> : c \in nbrs \cap known}
    \cup {e \in (valid \ {Self}) \X known : \E j \in DOMAIN links[e[1]] :
                                                links[e[1]][j] = e[2]}

-----------------------------------------------------------------------------
(* Properties.                                                             *)

\* The variables keep their types; links lead to known nodes only.
TypeOK ==
    /\ pc \in {"graph", "rounds", "table", "done"}
    /\ graph \subseteq known \X known
    /\ d \in [known -> 0..Infinity]
    /\ prev \in [known -> Node \cup {NoHop}]
    /\ visited \subseteq known
    /\ pc # "done" => table = <<>>

\* The loop invariant of dijkstra: a distance is the length of a path through
\* prev, which never improves once the node is visited; and the visited nodes
\* are nearer than the others.
RoundInvariant ==
    pc \in {"rounds", "table"} =>
        /\ \A i \in known : prev[i] # NoHop =>
              /\ <<prev[i], i>> \in graph /\ prev[i] \in visited
              /\ d[i] = d[prev[i]] + 1
        /\ \A i \in visited, j \in known : d[i] <= d[j] \/ j \in visited
        /\ \A i \in visited, j \in known : <<i, j>> \in graph => d[j] <= d[i] + 1

\* The table holds the shortest distance to every known node in the graph that was
\* constructed, infinity for one that cannot be reached.
IsShortest(g) ==
    \A i \in 1..Len(table) : table[i].cost = Distance(g, Self)[table[i].dest]
ShortestPaths == pc = "done" => IsShortest(graph)

\* What the code does not do: "find the shortest path to any node in this topology"
\* (README.txt:34), though links to nodes that are not known are only left out
\* (dijkstra.c:307).
ShortestInTopology == pc = "done" => IsShortest(Topology)

\* A next hop is a valid neighbour that is one link nearer to the destination,
\* so that forwarding from node to node ends there; a destination out of reach
\* has none.
NextHopAdvances ==
    pc = "done" =>
        \A i \in 1..Len(table) :
            LET e == table[i]
            IN  IF e.dest = Self THEN e.next_hop = Self
                ELSE IF e.cost = Infinity THEN e.next_hop = NoHop
                ELSE /\ e.next_hop \in (nbrs \cap known) \ {Self}
                     /\ Distance(graph, e.next_hop)[e.dest] = e.cost - 1

\* The table has one entry per known node; the binary search finds the entry of
\* every known node, and nothing else.
FindsEveryEntry ==
    pc = "done" =>
        /\ Len(table) = Cardinality(known)
        /\ \A i \in Node : FindRouteEntry(i) =
                           {table[k] : k \in {j \in 1..Len(table) : table[j].dest = i}}
=============================================================================
