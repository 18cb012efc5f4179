----------------------------- MODULE ObjLookup -----------------------------
(***************************************************************************)
(* The prefix tree of object names (pft.c) and the lookup of an object in  *)
(* it (forward.c): the objects of the LSAs enter the tree when an LSA is   *)
(* stored and leave it when it times out, the route table changes, and a   *)
(* GETRD request asks for any name.  A name is the sequence of its levels: *)
(* "/a/b" is <<"/", "a/", "b">>.                                           *)
(***************************************************************************)
EXTENDS Naturals, Sequences, FiniteSets, SequencesExt

CONSTANTS
    Node,      \* the node ids
    Self,      \* g_nid
    Obj,       \* the names nodes announce
    Query,     \* the names requests ask for
    Infinity,  \* the cost of a node the route table cannot reach
    MaxCost    \* bound: the largest cost otherwise

ASSUME LookupAssumption ==
    /\ Self \in Node
    /\ \A name \in Obj \cup Query : name # <<>> /\ name \in Seq(ToSet(name))
    /\ MaxCost \in Nat /\ Infinity \in Nat /\ MaxCost < Infinity

VARIABLES
    ann,   \* ann[n]: the objects in the valid LSA of n
    tree,  \* the nodes of g_obj_pft, each named by the path to it
    darr,  \* the arrays of those nodes that have one (darr # NULL)
    cost   \* cost[n] in the route table; to the node itself it is 0

vars == <<ann, tree, darr, cost>>

-----------------------------------------------------------------------------
(* Bugs this code does not have, to see that the properties would notice.  *)

BugNewNodes(objs) == objs
BugAppendOnce(arr, n) == Append(arr, n)
BugSkip(arr, pre) == ToSet(arr)
BugAnswered(name, nodes) == nodes

-----------------------------------------------------------------------------
(* The tree.                                                               *)

Paths(name) == {SubSeq(name, 1, k) : k \in 1..Len(name)}

\* pft_add_obj: a tree node for every level on the way.
NewNodes(objs) == UNION {Paths(o) : o \in objs}

ArrayAt(p) == IF p \in DOMAIN darr THEN darr[p] ELSE <<>>

\* get_elem_idx, then add_elem: no node is entered twice.
AppendOnce(arr, n) == IF n \in ToSet(arr) THEN arr ELSE Append(arr, n)

\* get_elem_idx, then rm_elem_by_idx: the last element takes the free place.
SwapOut(arr, n) ==
    IF n \notin ToSet(arr) THEN arr
    ELSE LET i == CHOOSE k \in DOMAIN arr : arr[k] = n
         IN  [j \in 1..Len(arr) - 1 |-> IF j = i THEN Last(arr) ELSE arr[j]]

Init ==
    /\ ann = [n \in Node |-> {}]
    /\ tree = {}
    /\ darr = <<>>
    /\ cost = [n \in Node |-> IF n = Self THEN 0 ELSE Infinity]

\* pft_add_obj_frm_lsa: a new LSA of n has come.  A file list only grows, so
\* the LSA has the objects of the one it replaces (as long as n does not
\* restart and one of its old LSAs comes after a new one).
AddObjFrmLsa(n, objs) ==
    /\ ann[n] \subseteq objs
    /\ ann' = [ann EXCEPT ![n] = objs]
    /\ tree' = tree \cup NewNodes(objs)
    /\ darr' = [p \in DOMAIN darr \cup objs |->
                   IF p \in objs THEN AppendOnce(ArrayAt(p), n) ELSE darr[p]]
    /\ UNCHANGED cost

\* pft_rm_obj_frm_lsa: the LSA of n has timed out, which the node's own never
\* does.  Tree nodes and arrays stay.
RmObjFrmLsa(n) ==
    /\ n # Self /\ ann[n] # {}
    /\ ann' = [ann EXCEPT ![n] = {}]
    /\ darr' = [p \in DOMAIN darr |->
                   IF p \in ann[n] THEN SwapOut(darr[p], n) ELSE darr[p]]
    /\ UNCHANGED <<tree, cost>>

\* update_route_info computed other costs.
NewRoutes(c) ==
    /\ \A n \in Node : c[n] = 0 <=> n = Self
    /\ cost' = c
    /\ UNCHANGED <<ann, tree, darr>>

Costs == [Node -> 0..MaxCost \cup {Infinity}]

Next ==
    \/ \E n \in Node, objs \in SUBSET Obj : AddObjFrmLsa(n, objs)
    \/ \E n \in Node : RmObjFrmLsa(n)
    \/ \E c \in Costs : NewRoutes(c)

Spec == Init /\ [][Next]_vars

-----------------------------------------------------------------------------
(* pft_get_obj_list: the descent along the levels of name as far as there  *)
(* are tree nodes; it ends at the path Target(name), <<>> if there is none.*)

Target(name) ==
    SubSeq(name, 1, Cardinality({p \in Paths(name) : p \in tree}))

\* al_pre before its end is cut off: what the arrays on the way down hold.
Merged(name) ==
    FlattenSeq([k \in 1..Len(Target(name)) |-> ArrayAt(SubSeq(name, 1, k))])

\* target->darr is read although it is NULL: a tree node that no LSA has named
\* itself, below one that an LSA has.
ReadsNull(name) == Merged(name) # <<>> /\ Target(name) \notin DOMAIN darr

\* The call returns an array (not NULL).
Returns(name) == Target(name) \in DOMAIN darr

\* all_pre: the last array is taken off again.
Truncate(all, arr) == SubSeq(all, 1, Len(all) - Len(arr))
AllPre(name) == Truncate(Merged(name), darr[Target(name)])

\* last_pre: the last array on the way that is not empty.
LastPre(name) ==
    LET full == {k \in 1..Len(Target(name)) : ArrayAt(SubSeq(name, 1, k)) # <<>>}
    IN  IF full = {} THEN <<>>
        ELSE ArrayAt(SubSeq(name, 1, CHOOSE k \in full : \A j \in full : j <= k))

(* lookup_file: the nodes the answer may name; more than one where the     *)
(* order in the array decides, none for NOT FOUND.                         *)

Reachable(nodes) == {n \in nodes : cost[n] < Infinity}
Nearest(nodes) == {n \in Reachable(nodes) : \A m \in Reachable(nodes) : cost[n] <= cost[m]}

\* A node that also claims a shorter prefix is skipped, for longest match.
Skip(arr, pre) == ToSet(arr) \ ToSet(pre)

\* No exact match: the longest prefix.
FallBack(arr, last) == ToSet(last)

\* lookup_lc_file: the node itself answers for the files of its list only.
Answered(name, nodes) == IF name \in ann[Self] THEN nodes ELSE nodes \ {Self}

LookupFile(name) ==
    IF ~Returns(name) THEN {}
    ELSE LET arr   == darr[Target(name)]
             exact == Nearest(Skip(arr, AllPre(name)))
             found == IF exact # {} THEN exact
                      ELSE Nearest(FallBack(arr, LastPre(name)))
         IN  Answered(name, found)

-----------------------------------------------------------------------------
(* Properties.                                                             *)

Claims(p) == {n \in Node : p \in ann[n]}
Proper(p) == Paths(p) \ {p}

\* The variables keep their types; the tree is closed under prefixes.
TypeOK ==
    /\ ann \in [Node -> SUBSET Obj]
    /\ tree \subseteq UNION {Paths(o) : o \in Obj}
    /\ \A p \in tree : Paths(p) \subseteq tree
    /\ DOMAIN darr \subseteq tree \cap Obj
    /\ \A p \in DOMAIN darr : ToSet(darr[p]) \subseteq Node
    /\ cost \in Costs

\* After any sequence of LSAs and timeouts the tree holds exactly the pairs of
\* object and node the valid LSAs hold, each of them once, although removing
\* from an array reorders it.
TreeHoldsLsas ==
    \A p \in tree : /\ ToSet(ArrayAt(p)) = Claims(p)
                    /\ Len(ArrayAt(p)) = Cardinality(Claims(p))

\* The example of README.txt: a name is served by the nearest of the reachable
\* nodes that claim it itself and no shorter prefix of it.
ExactServed ==
    \A q \in Query :
        LET owners == Nearest(Claims(q) \ UNION {Claims(p) : p \in Proper(q)})
        IN  owners # {} => LookupFile(q) = owners

\* The longest prefix among some.
Longest(pres) == CHOOSE p \in pres : \A r \in pres : Len(r) <= Len(p)

\* A name that nobody claims itself, for which the descent ends at a name some LSA
\* has held, is served by nodes that claim the longest prefix that is claimed, if
\* one of them can be reached; unless that is the node itself, which does not
\* have the file: a request for it is never answered with the node itself.
LongestServed ==
    \A q \in Query :
        LET claimed == {p \in Paths(q) : Claims(p) # {}}
            longest == Longest(claimed)
        IN  /\ Claims(q) = {} /\ Returns(q)
            /\ claimed # {} /\ Reachable(Claims(longest)) # {}
            => /\ LookupFile(q) \subseteq Claims(longest) \ {Self}
               /\ LookupFile(q) = {} => Self \in Claims(longest)

\* What the code does not do: where nobody who claims the name itself can be reached,
\* the longest prefix "except for exact match" (forward.c:69; the example at
\* pft.c:140) is tried, and its claimants serve the name.
PrefixTried ==
    \A q \in Query :
        LET claimed == {p \in Proper(q) : Claims(p) # {}}
            nodes   == Claims(Longest(claimed))
        IN  /\ Claims(q) # {} /\ Reachable(Claims(q)) = {}
            /\ claimed # {} /\ Reachable(nodes) # {} /\ Self \notin nodes
            => LookupFile(q) # {}

\* A lookup never reads the array of a tree node that has none; README.txt has
\* any name looked up while prefixes are claimed.
LookupDefined == \A q \in Query : ~ReadsNull(q)
=============================================================================
