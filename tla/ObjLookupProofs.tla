-------------------------- MODULE ObjLookupProofs --------------------------
(***************************************************************************)
(* Proofs about the prefix tree, for every set of names and nodes: its     *)
(* types, that it holds what the valid LSAs hold, each pair once, and what *)
(* a lookup in it finds.                                                   *)
(***************************************************************************)
EXTENDS ObjLookup, Induction, FiniteSetTheorems

\* An array is a sequence without repetition.
Once(arr) ==
    /\ arr \in Seq(Node)
    /\ \A i, j \in DOMAIN arr : arr[i] = arr[j] => i = j

\* There is an array for every object that was ever announced, and in it are the
\* nodes that announce it now.
ArraysOK ==
    /\ \A n \in Node : ann[n] \subseteq DOMAIN darr
    /\ \A p \in DOMAIN darr : /\ Once(darr[p])
                              /\ \A n \in Node : n \in ToSet(darr[p]) <=> p \in ann[n]

TreeOK == TypeOK /\ ArraysOK

-----------------------------------------------------------------------------
(* Arrays.                                                                 *)

LEMMA Empty == Once(<<>>) /\ \A n : n \notin ToSet(<<>>)
<1> QED
  BY DEF Once, ToSet

LEMMA AppendOnceArray ==
    ASSUME NEW arr, Once(arr), NEW n \in Node
    PROVE  /\ Once(AppendOnce(arr, n))
           /\ \A m : m \in ToSet(AppendOnce(arr, n)) <=> m \in ToSet(arr) \/ m = n
<1>1. CASE n \in ToSet(arr)
  BY <1>1 DEF AppendOnce
<1>2. CASE n \notin ToSet(arr)
  <2> DEFINE new == Append(arr, n)
  <2>1. /\ new \in Seq(Node) /\ Len(arr) \in Nat
        /\ DOMAIN new = DOMAIN arr \cup {Len(arr) + 1}
        /\ new[Len(arr) + 1] = n
        /\ \A i \in DOMAIN arr : new[i] = arr[i]
    BY DEF Once
  <2>2. AppendOnce(arr, n) = new
    BY <1>2 DEF AppendOnce
  <2>3. \A i \in DOMAIN arr : arr[i] # n
    BY <1>2 DEF ToSet
  <2> HIDE DEF new
  <2>4. Once(new)
    BY <2>1, <2>3 DEF Once
  <2>5. \A m : m \in ToSet(new) <=> m \in ToSet(arr) \/ m = n
    BY <2>1 DEF ToSet
  <2> QED
    BY <2>2, <2>4, <2>5
<1> QED
  BY <1>1, <1>2

\* The last element takes the place of the one removed.
LEMMA SwapOutArray ==
    ASSUME NEW arr, Once(arr), NEW n \in Node
    PROVE  /\ Once(SwapOut(arr, n))
           /\ \A m : m \in ToSet(SwapOut(arr, n)) <=> m \in ToSet(arr) /\ m # n
<1>1. CASE n \notin ToSet(arr)
  BY <1>1 DEF SwapOut
<1>2. CASE n \in ToSet(arr)
  <2> DEFINE i == CHOOSE k \in DOMAIN arr : arr[k] = n
             last == Len(arr)
             new == [j \in 1..last - 1 |-> IF j = i THEN arr[last] ELSE arr[j]]
  <2>1. i \in DOMAIN arr /\ arr[i] = n
    BY <1>2 DEF ToSet
  <2>2. SwapOut(arr, n) = new
    BY <1>2 DEF SwapOut, Last
  <2>3. /\ last \in Nat /\ last >= 1 /\ DOMAIN arr = 1..last /\ i \in 1..last
        /\ \A j \in 1..last : arr[j] \in Node
        /\ \A j, k \in 1..last : arr[j] = arr[k] => j = k
    BY <2>1 DEF Once
  <2> HIDE DEF i, last
  <2>4. /\ DOMAIN new = 1..(last - 1) /\ last - 1 \in Nat
        /\ \A j \in 1..(last - 1) : new[j] = IF j = i THEN arr[last] ELSE arr[j]
    BY <2>3
  <2>5. new \in Seq(Node)
    <3>1. new \in [1..(last - 1) -> Node]
      BY <2>3, <2>4
    <3> QED
      BY <2>4, <3>1
  <2> HIDE DEF new
  <2>6. \A j, k \in DOMAIN new : new[j] = new[k] => j = k
    BY <2>3, <2>4
  <2>7. \A m : m \in ToSet(new) <=> m \in ToSet(arr) /\ m # n
    <3>1. ASSUME NEW j \in DOMAIN new PROVE new[j] \in ToSet(arr) /\ new[j] # n
      BY <2>1, <2>3, <2>4 DEF ToSet
    <3>2. ASSUME NEW j \in DOMAIN arr, arr[j] # n PROVE arr[j] \in ToSet(new)
      <4>1. CASE j = last
        <5>1. i \in DOMAIN new /\ new[i] = arr[j]
          BY <2>1, <2>3, <2>4, <3>2, <4>1
        <5> QED
          BY <5>1 DEF ToSet
      <4>2. CASE j # last
        <5>1. j \in DOMAIN new /\ new[j] = arr[j]
          BY <2>1, <2>3, <2>4, <3>2, <4>2
        <5> QED
          BY <5>1 DEF ToSet
      <4> QED
        BY <4>1, <4>2
    <3> QED
      BY <3>1, <3>2 DEF ToSet
  <2> QED
    BY <2>2, <2>5, <2>6, <2>7 DEF Once
<1> QED
  BY <1>1, <1>2

\* An array without repetition is as long as the set of its elements is large.
LEMMA OnceCardinality ==
    ASSUME NEW arr, Once(arr)
    PROVE  Cardinality(ToSet(arr)) = Len(arr)
<1>1. arr \in Bijection(1..Len(arr), ToSet(arr))
  BY DEF Once, ToSet, Bijection, Injection, Surjection, IsInjective
<1>2. ExistsBijection(1..Len(arr), ToSet(arr)) /\ Len(arr) \in Nat
  BY <1>1 DEF ExistsBijection, Once
<1> QED
  BY <1>2, FS_CountingElements

-----------------------------------------------------------------------------
(* Paths.                                                                  *)

\* The first k levels of a name.
Pre(name, k) == SubSeq(name, 1, k)

LEMMA PrePre ==
    ASSUME NEW o \in Obj \cup Query
    PROVE  /\ Len(o) \in Nat /\ Len(o) >= 1 /\ Pre(o, Len(o)) = o
           /\ \A k \in 1..Len(o) : Len(Pre(o, k)) = k
           /\ \A k \in 1..Len(o) : \A j \in 1..k : Pre(Pre(o, k), j) = Pre(o, j)
<1>1. o \in Seq(ToSet(o)) /\ Len(o) \in Nat /\ Len(o) >= 1
  BY LookupAssumption
<1>2. SubSeq(o, 1, Len(o)) = o /\ \A k \in 1..Len(o) : Len(SubSeq(o, 1, k)) = k
  BY <1>1
<1>3. ASSUME NEW k \in 1..Len(o), NEW j \in 1..k
      PROVE  SubSeq(SubSeq(o, 1, k), 1, j) = SubSeq(o, 1, j)
  <2> DEFINE p == SubSeq(o, 1, k)
  <2>1. p \in Seq(ToSet(o)) /\ Len(p) = k /\ \A i \in 1..k : p[i] = o[i]
    BY <1>1
  <2> HIDE DEF p
  <2>2. SubSeq(p, 1, j) \in Seq(ToSet(o)) /\ SubSeq(o, 1, j) \in Seq(ToSet(o))
    BY <1>1, <2>1
  <2>3. /\ Len(SubSeq(p, 1, j)) = j /\ Len(SubSeq(o, 1, j)) = j
        /\ \A i \in 1..j : SubSeq(p, 1, j)[i] = p[i] /\ SubSeq(o, 1, j)[i] = o[i]
    BY <1>1, <2>1
  <2>4. SubSeq(p, 1, j) = SubSeq(o, 1, j)
    BY <2>1, <2>2, <2>3
  <2> QED
    BY <2>4 DEF p
<1> QED
  BY <1>1, <1>2, <1>3 DEF Pre

\* The way to a name ends at the name; the way to a node on it is on it too.
LEMMA PathsOf ==
    ASSUME NEW o \in Obj \cup Query
    PROVE  o \in Paths(o) /\ \A p \in Paths(o) : Paths(p) \subseteq Paths(o)
<1>1. o \in Paths(o)
  BY PrePre DEF Paths, Pre
<1>2. ASSUME NEW p \in Paths(o), NEW q \in Paths(p) PROVE q \in Paths(o)
  <2>1. PICK k \in 1..Len(o) : p = Pre(o, k)
    BY DEF Paths, Pre
  <2>2. PICK j \in 1..Len(p) : q = Pre(p, j)
    BY DEF Paths, Pre
  <2>3. Len(o) \in Nat /\ Len(p) = k /\ j \in 1..k
    BY <2>1, <2>2, PrePre
  <2>4. q = Pre(o, j) /\ j \in 1..Len(o)
    BY <2>1, <2>2, <2>3, PrePre
  <2> QED
    BY <2>4 DEF Paths, Pre
<1> QED
  BY <1>1, <1>2

LEMMA NewNodesOf ==
    ASSUME NEW objs \in SUBSET Obj
    PROVE  /\ NewNodes(objs) \subseteq UNION {Paths(o) : o \in Obj}
           /\ objs \subseteq NewNodes(objs)
           /\ \A p \in NewNodes(objs) : Paths(p) \subseteq NewNodes(objs)
<1> QED
  BY PathsOf DEF NewNodes

-----------------------------------------------------------------------------
(* The steps.                                                              *)

LEMMA AddStep ==
    ASSUME TreeOK, NEW n \in Node, NEW objs \in SUBSET Obj, AddObjFrmLsa(n, objs)
    PROVE  TreeOK'
<1>1. /\ ann \in [Node -> SUBSET Obj] /\ ann[n] \subseteq objs
      /\ ann' = [ann EXCEPT ![n] = objs]
      /\ tree' = tree \cup NewNodes(objs) /\ cost' = cost
      /\ DOMAIN darr' = DOMAIN darr \cup objs
  BY DEF TreeOK, TypeOK, AddObjFrmLsa
<1>2. ASSUME NEW p \in DOMAIN darr'
      PROVE  Once(darr'[p]) /\ \A m \in Node : m \in ToSet(darr'[p]) <=> p \in ann'[m]
  <2>1. Once(ArrayAt(p)) /\ \A m \in Node : m \in ToSet(ArrayAt(p)) <=> p \in ann[m]
    BY Empty DEF ArrayAt, TreeOK, ArraysOK
  <2>2. CASE p \in objs
    <3>1. darr'[p] = AppendOnce(ArrayAt(p), n)
      BY <1>1, <2>2 DEF AddObjFrmLsa
    <3>2. \A m \in Node : p \in ann'[m] <=> p \in ann[m] \/ m = n
      BY <1>1, <2>2
    <3> QED
      BY <2>1, <3>1, <3>2, AppendOnceArray
  <2>3. CASE p \notin objs
    <3>1. darr'[p] = ArrayAt(p)
      BY <1>1, <2>3 DEF AddObjFrmLsa, ArrayAt
    <3>2. \A m \in Node : p \in ann'[m] <=> p \in ann[m]
      BY <1>1, <2>3
    <3> QED
      BY <2>1, <3>1, <3>2
  <2> QED
    BY <2>2, <2>3
<1>3. ArraysOK'
  BY <1>1, <1>2 DEF TreeOK, ArraysOK
<1>4. TypeOK'
  <2>1. ann' \in [Node -> SUBSET Obj]
    BY <1>1
  <2>2. /\ tree' \subseteq UNION {Paths(o) : o \in Obj}
        /\ \A p \in tree' : Paths(p) \subseteq tree'
        /\ DOMAIN darr' \subseteq tree' \cap Obj
    BY <1>1, NewNodesOf DEF TreeOK, TypeOK
  <2>3. \A p \in DOMAIN darr' : ToSet(darr'[p]) \subseteq Node
    BY <1>2 DEF Once, ToSet
  <2> QED
    BY <1>1, <2>1, <2>2, <2>3 DEF TreeOK, TypeOK, Costs
<1> QED
  BY <1>3, <1>4 DEF TreeOK

LEMMA RmStep ==
    ASSUME TreeOK, NEW n \in Node, RmObjFrmLsa(n)
    PROVE  TreeOK'
<1>1. /\ ann \in [Node -> SUBSET Obj] /\ ann' = [ann EXCEPT ![n] = {}]
      /\ DOMAIN darr' = DOMAIN darr /\ UNCHANGED <<tree, cost>>
  BY DEF TreeOK, TypeOK, RmObjFrmLsa
<1>2. ASSUME NEW p \in DOMAIN darr
      PROVE  Once(darr'[p]) /\ \A m \in Node : m \in ToSet(darr'[p]) <=> p \in ann'[m]
  <2>1. Once(darr[p]) /\ \A m \in Node : m \in ToSet(darr[p]) <=> p \in ann[m]
    BY DEF TreeOK, ArraysOK
  <2>2. \A m \in Node : p \in ann'[m] <=> p \in ann[m] /\ m # n
    BY <1>1
  <2>3. CASE p \in ann[n]
    <3>1. darr'[p] = SwapOut(darr[p], n)
      BY <2>3 DEF RmObjFrmLsa
    <3> QED
      BY <2>1, <2>2, <3>1, SwapOutArray
  <2>4. CASE p \notin ann[n]
    <3>1. darr'[p] = darr[p]
      BY <2>4 DEF RmObjFrmLsa
    <3> QED
      BY <2>1, <2>2, <2>4, <3>1
  <2> QED
    BY <2>3, <2>4
<1>3. ArraysOK'
  BY <1>1, <1>2 DEF TreeOK, ArraysOK
<1>4. TypeOK'
  <2>1. \A p \in DOMAIN darr' : ToSet(darr'[p]) \subseteq Node
    BY <1>1, <1>2 DEF Once, ToSet
  <2> QED
    BY <1>1, <2>1 DEF TreeOK, TypeOK, Costs
<1> QED
  BY <1>3, <1>4 DEF TreeOK

LEMMA TreeInvariance == Spec => []TreeOK
<1>1. Init => TreeOK
  <2> SUFFICES ASSUME Init PROVE TreeOK
    OBVIOUS
  <2>1. TypeOK
    BY LookupAssumption DEF Init, TypeOK, Costs
  <2>2. ArraysOK
    BY DEF Init, ArraysOK
  <2> QED
    BY <2>1, <2>2 DEF TreeOK
<1>2. TreeOK /\ [Next]_vars => TreeOK'
  <2> SUFFICES ASSUME TreeOK, [Next]_vars PROVE TreeOK'
    OBVIOUS
  <2>1. ASSUME NEW n \in Node, NEW objs \in SUBSET Obj, AddObjFrmLsa(n, objs) PROVE TreeOK'
    BY <2>1, AddStep
  <2>2. ASSUME NEW n \in Node, RmObjFrmLsa(n) PROVE TreeOK'
    BY <2>2, RmStep
  <2>3. ASSUME NEW c \in Costs, NewRoutes(c) PROVE TreeOK'
    BY <2>3 DEF NewRoutes, TreeOK, TypeOK, ArraysOK, Costs
  <2>4. CASE UNCHANGED vars
    BY <2>4 DEF vars, TreeOK, TypeOK, ArraysOK, Costs
  <2> QED
    BY <2>1, <2>2, <2>3, <2>4 DEF Next
<1> QED
  BY <1>1, <1>2, PTL DEF Spec

\* The tree is closed under prefixes and has arrays only where an object was
\* announced.
THEOREM TypeInvariance == Spec => []TypeOK
<1>1. TreeOK => TypeOK
  BY DEF TreeOK
<1> QED
  BY <1>1, TreeInvariance, PTL

\* Whatever the order of LSAs and timeouts, the arrays of the tree hold the nodes
\* whose valid LSA names the object, each of them once.
THEOREM TreeHoldsLsasInvariance == Spec => []TreeHoldsLsas
<1>1. TreeOK => TreeHoldsLsas
  <2> SUFFICES ASSUME TreeOK, NEW p \in tree
               PROVE  ToSet(ArrayAt(p)) = Claims(p) /\ Len(ArrayAt(p)) = Cardinality(Claims(p))
    BY DEF TreeHoldsLsas
  <2>1. Once(ArrayAt(p)) /\ \A n \in Node : n \in ToSet(ArrayAt(p)) <=> p \in ann[n]
    BY Empty DEF ArrayAt, TreeOK, ArraysOK
  <2>2. ToSet(ArrayAt(p)) \subseteq Node
    BY <2>1 DEF Once, ToSet
  <2>3. ToSet(ArrayAt(p)) = Claims(p)
    BY <2>1, <2>2 DEF Claims
  <2> QED
    BY <2>1, <2>3, OnceCardinality
<1> QED
  BY <1>1, TreeInvariance, PTL

-----------------------------------------------------------------------------
(* Sequences of arrays.                                                    *)

LEMMA Concat ==
    ASSUME NEW S, NEW a \in Seq(S), NEW b \in Seq(S)
    PROVE  /\ a \o b \in Seq(S) /\ Len(a \o b) = Len(a) + Len(b)
           /\ \A x : x \in ToSet(a \o b) <=> x \in ToSet(a) \/ x \in ToSet(b)
           /\ SubSeq(a \o b, 1, Len(a)) = a
<1> DEFINE c == a \o b
<1>1. /\ c \in Seq(S) /\ Len(c) = Len(a) + Len(b) /\ Len(a) \in Nat /\ Len(b) \in Nat
      /\ \A i \in 1..Len(a) : c[i] = a[i]
      /\ \A i \in 1..Len(b) : c[Len(a) + i] = b[i]
      /\ DOMAIN a = 1..Len(a) /\ DOMAIN b = 1..Len(b) /\ DOMAIN c = 1..(Len(a) + Len(b))
  OBVIOUS
<1> HIDE DEF c
<1>2. ASSUME NEW x, x \in ToSet(c) PROVE x \in ToSet(a) \/ x \in ToSet(b)
  <2>1. PICK i \in DOMAIN c : c[i] = x
    BY <1>2 DEF ToSet
  <2>2. CASE i <= Len(a)
    BY <1>1, <2>1, <2>2 DEF ToSet
  <2>3. CASE i > Len(a)
    <3>1. i - Len(a) \in 1..Len(b) /\ Len(a) + (i - Len(a)) = i
      BY <1>1, <2>3
    <3>2. b[i - Len(a)] = x
      BY <1>1, <2>1, <3>1
    <3> QED
      BY <1>1, <3>1, <3>2 DEF ToSet
  <2> QED
    BY <1>1, <2>2, <2>3
<1>3. ASSUME NEW x, x \in ToSet(a) \/ x \in ToSet(b) PROVE x \in ToSet(c)
  <2>1. CASE x \in ToSet(a)
    BY <1>1, <2>1 DEF ToSet
  <2>2. CASE x \in ToSet(b)
    <3>1. PICK i \in DOMAIN b : b[i] = x
      BY <2>2 DEF ToSet
    <3>2. Len(a) + i \in DOMAIN c /\ c[Len(a) + i] = x
      BY <1>1, <3>1
    <3> QED
      BY <3>2 DEF ToSet
  <2> QED
    BY <1>3, <2>1, <2>2
<1>4. SubSeq(c, 1, Len(a)) = a
  <2> DEFINE h == SubSeq(c, 1, Len(a))
  <2>1. h \in Seq(S) /\ Len(h) = Len(a) /\ \A i \in 1..Len(a) : h[i] = c[i]
    BY <1>1
  <2> HIDE DEF h
  <2>2. \A i \in 1..Len(a) : h[i] = a[i]
    BY <1>1, <2>1
  <2>3. h = a
    BY <1>1, <2>1, <2>2
  <2> QED
    BY <2>3 DEF h
<1> QED
  BY <1>1, <1>2, <1>3, <1>4 DEF c

\* The steps of FlattenSeq.
FlatStep(s, f) ==
    f = [i \in 1..Len(s) |-> IF i = 1 THEN s[i] ELSE f[i - 1] \o s[i]]

LEMMA FlatWalk ==
    ASSUME NEW S, NEW s \in Seq(Seq(S)), s # <<>>
    PROVE  \E f : FlatStep(s, f) /\ FlattenSeq(s) = f[Len(s)]
<1> DEFINE n == Len(s)
           V == Seq(S)
           T == [k \in 1..n |-> [a \in V |-> a \o s[k]]]
<1>1. n \in Nat /\ n # 0 /\ <<>> \in V /\ \A k \in 1..n : s[k] \in V
  OBVIOUS
<1>2. T \in [1..n -> [V -> V]]
  BY <1>1
<1> HIDE DEF T, V, n
<1>3. \E f : Iterates(f, n, V, <<>>, T)
  BY <1>1, <1>2, Iterated
<1>4. PICK g \in [0..n -> V] : g[0] = <<>> /\ \A k \in 1..n : g[k] = T[k][g[k - 1]]
  BY <1>3 DEF Iterates
<1>5. ASSUME NEW k \in 1..n PROVE g[k] = g[k - 1] \o s[k]
  <2>1. g[k - 1] \in V /\ g[k] = T[k][g[k - 1]]
    BY <1>1, <1>4
  <2> QED
    BY <2>1 DEF T
<1>6. g[1] = s[1]
  <2>1. 1 \in 1..n /\ 1 - 1 = 0
    BY <1>1
  <2>2. g[1] = g[0] \o s[1] /\ s[1] \in V
    BY <1>1, <1>5, <2>1
  <2> QED
    BY <1>4, <2>2 DEF V
<1> DEFINE f == [i \in 1..n |-> g[i]]
           h == [i \in 1..n |-> IF i = 1 THEN s[i] ELSE f[i - 1] \o s[i]]
<1>7. \A i \in 1..n : f[i] = h[i]
  <2> SUFFICES ASSUME NEW i \in 1..n PROVE f[i] = h[i]
    OBVIOUS
  <2>1. CASE i = 1
    BY <1>6, <2>1
  <2>2. CASE i # 1
    <3>1. i - 1 \in 1..n
      BY <1>1, <2>2
    <3> QED
      BY <1>5, <2>2, <3>1
  <2> QED
    BY <2>1, <2>2
<1>8. f = h
  BY <1>7
<1>9. FlatStep(s, f)
  BY <1>8 DEF FlatStep, n
<1> HIDE DEF f
<1>10. FlatStep(s, CHOOSE c : FlatStep(s, c))
  BY <1>9
<1>11. FlattenSeq(s) = (CHOOSE c : FlatStep(s, c))[Len(s)]
  BY <1>1 DEF FlattenSeq, FlatStep, n
<1> QED
  BY <1>10, <1>11

\* The last array can be cut off again, and what is left has the others.
LEMMA FlattenLast ==
    ASSUME NEW S, NEW s \in Seq(Seq(S)), s # <<>>
    PROVE  LET front == Truncate(FlattenSeq(s), s[Len(s)])
           IN  \A x : x \in ToSet(front) <=> \E k \in 1..(Len(s) - 1) : x \in ToSet(s[k])
<1> DEFINE n == Len(s)
<1>1. n \in Nat /\ n # 0 /\ \A k \in 1..n : s[k] \in Seq(S)
  OBVIOUS
<1>2. PICK f : FlatStep(s, f) /\ FlattenSeq(s) = f[n]
  BY FlatWalk
<1> HIDE DEF n
<1> DEFINE g == [k \in 0..n |-> IF k = 0 THEN <<>> ELSE f[k]]
<1>3. \A k \in 1..n : f[k] = IF k = 1 THEN s[k] ELSE f[k - 1] \o s[k]
  BY <1>2 DEF FlatStep, n
<1>4. ASSUME NEW k \in 1..n PROVE g[k] = g[k - 1] \o s[k]
  <2>1. CASE k = 1
    <3>1. g[k] = s[k] /\ g[k - 1] = <<>>
      <4>1. f[k] = s[k]
        BY <1>3, <2>1
      <4>2. k # 0 /\ k \in 0..n /\ k - 1 = 0 /\ 0 \in 0..n
        BY <1>1, <2>1
      <4> QED
        BY <4>1, <4>2
    <3>2. s[k] \in Seq(S)
      BY <1>1
    <3>3. <<>> \o s[k] = s[k]
      BY <3>2
    <3> QED
      BY <3>1, <3>3, Zenon
  <2>2. CASE k # 1
    <3>1. g[k] = f[k] /\ g[k - 1] = f[k - 1]
      BY <1>1, <2>2
    <3> QED
      BY <1>3, <2>2, <3>1
  <2> QED
    BY <2>1, <2>2
<1>5. g[0] = <<>> /\ g[n] = f[n]
  BY <1>1
<1> HIDE DEF g
<1> DEFINE P == {k \in 0..n : g[k] \in Seq(S) /\ \A x : x \in ToSet(g[k]) <=>
                                   \E j \in 1..k : x \in ToSet(s[j])}
<1>6. 0 \in P
  <2>1. g[0] \in Seq(S) /\ \A x : x \notin ToSet(g[0])
    BY <1>5, Empty
  <2>2. 1..0 = {} /\ 0 \in 0..n
    BY <1>1
  <2> QED
    BY <2>1, <2>2
<1>7. ASSUME NEW k \in 1..n, k - 1 \in P PROVE k \in P
  <2>1. g[k] = g[k - 1] \o s[k] /\ g[k - 1] \in Seq(S) /\ s[k] \in Seq(S)
    BY <1>1, <1>4, <1>7
  <2>2. g[k] \in Seq(S) /\ \A x : x \in ToSet(g[k]) <=> x \in ToSet(g[k - 1]) \/ x \in ToSet(s[k])
    BY <2>1, Concat
  <2>3. \A x : x \in ToSet(g[k]) <=> \E j \in 1..k : x \in ToSet(s[j])
    <3>1. \A x : x \in ToSet(g[k - 1]) <=> \E j \in 1..(k - 1) : x \in ToSet(s[j])
      BY <1>7
    <3> SUFFICES ASSUME NEW x
                 PROVE  x \in ToSet(g[k]) <=> \E j \in 1..k : x \in ToSet(s[j])
      OBVIOUS
    <3>2. 1..k = 1..(k - 1) \cup {k}
      BY <1>1
    <3> QED
      BY <2>2, <3>1, <3>2
  <2> QED
    BY <2>2, <2>3
<1> HIDE DEF P
<1>8. \A k \in 1..n : k - 1 \in P => k \in P
  BY <1>7
<1>9. \A k \in 0..n : k \in P
  BY <1>1, <1>6, <1>8, UpTo, Zenon
<1>10. n - 1 \in P /\ n \in 1..n
  BY <1>1, <1>9
<1>11. FlattenSeq(s) = g[n - 1] \o s[n] /\ g[n - 1] \in Seq(S) /\ s[n] \in Seq(S)
  BY <1>1, <1>2, <1>4, <1>5, <1>10 DEF P
<1>12. Truncate(FlattenSeq(s), s[n]) = g[n - 1]
  <2> DEFINE a == g[n - 1]
             b == s[n]
  <2>1. Len(a \o b) = Len(a) + Len(b) /\ SubSeq(a \o b, 1, Len(a)) = a
    BY <1>11, Concat
  <2>2. Len(a) \in Nat /\ Len(b) \in Nat
    BY <1>11
  <2> HIDE DEF a, b
  <2>3. SubSeq(a \o b, 1, Len(a \o b) - Len(b)) = a
    BY <2>1, <2>2
  <2> QED
    BY <1>11, <2>3 DEF Truncate, a, b
<1>13. \A x : x \in ToSet(g[n - 1]) <=> \E k \in 1..(n - 1) : x \in ToSet(s[k])
  BY <1>10 DEF P
<1> QED
  BY <1>12, <1>13 DEF n

-----------------------------------------------------------------------------
(* The lookup.                                                             *)

\* The array of a path is without repetition and has the nodes that claim it.
LEMMA ArrayIs ==
    ASSUME TreeOK, NEW p
    PROVE  /\ ArrayAt(p) \in Seq(Node) /\ ToSet(ArrayAt(p)) = Claims(p)
           /\ Claims(p) # {} => p \in DOMAIN darr /\ p \in tree
<1>1. /\ Once(ArrayAt(p)) /\ \A n \in Node : n \in ToSet(ArrayAt(p)) <=> p \in ann[n]
      /\ \A n \in Node : p \in ann[n] => p \in DOMAIN darr
  BY Empty DEF ArrayAt, TreeOK, ArraysOK
<1>2. ToSet(ArrayAt(p)) \subseteq Node
  BY <1>1 DEF Once, ToSet
<1> QED
  BY <1>1, <1>2 DEF Claims, TreeOK, TypeOK, Once

\* Depth(q, d): the tree has the first d levels of q, and no more.
Depth(q, d) ==
    /\ d \in 0..Len(q) /\ Target(q) = Pre(q, d)
    /\ \A k \in 1..Len(q) : Pre(q, k) \in tree <=> k <= d

LEMMA Descent ==
    ASSUME TreeOK, NEW q \in Query
    PROVE  \E d : Depth(q, d)
<1>1. /\ Len(q) \in Nat /\ \A k \in 1..Len(q) : Len(Pre(q, k)) = k
      /\ \A k \in 1..Len(q) : \A j \in 1..k : Pre(Pre(q, k), j) = Pre(q, j)
  BY PrePre
<1>2. ASSUME NEW k \in 1..Len(q), Pre(q, k) \in tree, NEW j \in 1..k
      PROVE  Pre(q, j) \in tree
  <2>1. Pre(q, j) \in Paths(Pre(q, k))
    BY <1>1, <1>2 DEF Paths, Pre
  <2> QED
    BY <1>2, <2>1 DEF TreeOK, TypeOK
<1> DEFINE Out == {k \in 1..(Len(q) + 1) : k = Len(q) + 1 \/ Pre(q, k) \notin tree}
<1>3. Out \in SUBSET Nat /\ Len(q) + 1 \in Out
  BY <1>1
<1>4. PICK m \in Out : \A k \in Out : m <= k
  BY <1>3, MinNat
<1> DEFINE d == m - 1
<1>5. d \in 0..Len(q) /\ d \in Nat /\ \A k \in 1..Len(q) : Pre(q, k) \in tree <=> k <= d
  <2>1. m \in 1..(Len(q) + 1) /\ (m = Len(q) + 1 \/ Pre(q, m) \notin tree)
    BY <1>4
  <2>2. ASSUME NEW k \in 1..Len(q), k <= d PROVE Pre(q, k) \in tree
    BY <1>1, <1>4, <2>1, <2>2
  <2>3. ASSUME NEW k \in 1..Len(q), Pre(q, k) \in tree PROVE k <= d
    BY <1>1, <1>2, <2>1, <2>3
  <2> QED
    BY <1>1, <2>1, <2>2, <2>3
<1> HIDE DEF d
<1> DEFINE S == {p \in Paths(q) : p \in tree}
           f == [k \in 1..d |-> Pre(q, k)]
<1>6. f \in Bijection(1..d, S)
  <2>1. \A k \in 1..d : f[k] \in S /\ Len(f[k]) = k
    BY <1>1, <1>5 DEF Paths, Pre
  <2>2. ASSUME NEW p \in S PROVE \E k \in 1..d : f[k] = p
    <3>1. PICK k \in 1..Len(q) : p = Pre(q, k)
      BY DEF Paths, Pre
    <3>2. k \in 1..d
      BY <1>1, <1>5, <3>1
    <3> QED
      BY <3>1, <3>2
  <2>3. f \in [1..d -> S]
    BY <2>1
  <2> HIDE DEF f, S
  <2> QED
    BY <2>1, <2>2, <2>3 DEF Bijection, Injection, Surjection, IsInjective
<1>7. Cardinality(S) = d
  BY <1>5, <1>6, FS_CountingElements DEF ExistsBijection
<1>8. Target(q) = Pre(q, d)
  BY <1>7 DEF Target, Pre
<1> QED
  BY <1>5, <1>8 DEF Depth

\* A claimed path to a name is as far as the tree goes, or less.
LEMMA ClaimedInDepth ==
    ASSUME TreeOK, NEW q \in Query, NEW d, Depth(q, d), NEW k \in 1..Len(q),
           Claims(Pre(q, k)) # {}
    PROVE  k \in 1..d
BY ArrayIs, PrePre DEF Depth

\* Where the call returns an array, it is that of the longest path in the tree;
\* all_pre has the claimants of the shorter ones.
LEMMA Returned ==
    ASSUME TreeOK, NEW q \in Query, NEW d, Depth(q, d), Returns(q)
    PROVE  /\ d \in 1..Len(q) /\ Len(Target(q)) = d
           /\ darr[Target(q)] = ArrayAt(Target(q))
           /\ \A n : n \in ToSet(AllPre(q)) <=> \E k \in 1..(d - 1) : n \in Claims(Pre(q, k))
<1>1. /\ Len(q) \in Nat /\ Len(q) >= 1 /\ \A k \in 1..Len(q) : Len(Pre(q, k)) = k
  BY PrePre
<1>2. Target(q) \in Obj /\ darr[Target(q)] = ArrayAt(Target(q))
  BY DEF Returns, TreeOK, TypeOK, ArrayAt
<1>3. d # 0
  <2>1. Pre(q, 0) = <<>>
    BY LookupAssumption DEF Pre
  <2> QED
    BY <1>2, <2>1, LookupAssumption DEF Depth
<1>4. d \in 1..Len(q) /\ Target(q) = Pre(q, d) /\ Len(Target(q)) = d /\ d \in Nat
  BY <1>1, <1>3 DEF Depth
<1> DEFINE s == [k \in 1..d |-> ArrayAt(Pre(q, k))]
<1>5. s \in Seq(Seq(Node)) /\ Len(s) = d /\ s # <<>> /\ \A k \in 1..d : s[k] = ArrayAt(Pre(q, k))
  <2>1. s \in [1..d -> Seq(Node)]
    BY ArrayIs
  <2>2. s \in Seq(Seq(Node)) /\ Len(s) = d
    BY <1>4, <2>1
  <2>3. \A k \in 1..d : s[k] = ArrayAt(Pre(q, k))
    OBVIOUS
  <2> HIDE DEF s
  <2>4. s # <<>>
    BY <1>4, <2>2
  <2> QED
    BY <2>2, <2>3, <2>4
<1>6. Merged(q) = FlattenSeq(s)
  BY <1>4 DEF Merged, Pre
<1> HIDE DEF s
<1>7. AllPre(q) = Truncate(FlattenSeq(s), s[Len(s)])
  BY <1>2, <1>4, <1>5, <1>6 DEF AllPre
<1>8. \A n : n \in ToSet(AllPre(q)) <=> \E k \in 1..(d - 1) : n \in ToSet(s[k])
  BY <1>5, <1>7, FlattenLast
<1>9. \A k \in 1..(d - 1) : ToSet(s[k]) = Claims(Pre(q, k))
  BY <1>4, <1>5, ArrayIs
<1> QED
  BY <1>2, <1>4, <1>8, <1>9

\* Of nodes that can be reached, one is nearest.
LEMMA NearestOf ==
    ASSUME TreeOK, NEW S \in SUBSET Node
    PROVE  /\ Nearest(S) \subseteq S
           /\ Reachable(S) # {} => Nearest(S) # {}
<1>1. Nearest(S) \subseteq S
  BY DEF Nearest, Reachable
<1>2. ASSUME Reachable(S) # {} PROVE Nearest(S) # {}
  <2> DEFINE R == Reachable(S)
             C == {cost[n] : n \in R}
  <2>1. C \in SUBSET Nat /\ C # {}
    <3>1. cost \in [Node -> Nat] /\ R \subseteq Node
      BY LookupAssumption DEF TreeOK, TypeOK, Costs, Reachable
    <3> QED
      BY <1>2, <3>1
  <2>2. PICK n \in R : \A m \in R : cost[n] <= cost[m]
    <3>1. PICK c \in C : \A b \in C : c <= b
      BY <2>1, MinNat
    <3> QED
      BY <3>1
  <2> QED
    BY <2>2 DEF Nearest
<1> QED
  BY <1>1, <1>2

\* A name is served by the nearest reachable of the nodes that claim it and no
\* prefix of it, as in the example of README.txt, whatever else is in the tree.
THEOREM ExactServedInvariance == Spec => []ExactServed
<1>1. TreeOK => ExactServed
  <2> SUFFICES ASSUME TreeOK, NEW q \in Query,
                      Nearest(Claims(q) \ UNION {Claims(p) : p \in Proper(q)}) # {}
               PROVE  LookupFile(q) = Nearest(Claims(q) \ UNION {Claims(p) : p \in Proper(q)})
    BY DEF ExactServed
  <2> DEFINE others == UNION {Claims(p) : p \in Proper(q)}
             owners == Nearest(Claims(q) \ others)
  <2>0. owners # {}
    OBVIOUS
  <2>1. owners \subseteq Claims(q) /\ Claims(q) # {} /\ Claims(q) \subseteq Node
    BY NearestOf DEF Nearest, Reachable, Claims
  <2>2. PICK d : Depth(q, d)
    BY Descent
  <2>3. /\ Len(q) \in Nat /\ Len(q) >= 1 /\ Pre(q, Len(q)) = q
        /\ \A k \in 1..Len(q) : Len(Pre(q, k)) = k
    BY PrePre
  <2>4. d = Len(q) /\ Target(q) = q /\ Returns(q)
    <3>1. q \in tree /\ q \in DOMAIN darr
      BY <2>1, ArrayIs
    <3>2. d = Len(q)
      BY <2>2, <2>3, <3>1 DEF Depth
    <3> QED
      BY <2>2, <2>3, <3>1, <3>2 DEF Depth, Returns
  <2>5. Proper(q) = {Pre(q, k) : k \in 1..(Len(q) - 1)}
    <3>1. ASSUME NEW p \in Proper(q) PROVE \E k \in 1..(Len(q) - 1) : p = Pre(q, k)
      <4>1. PICK k \in 1..Len(q) : p = Pre(q, k) /\ p # q
        BY DEF Proper, Paths, Pre
      <4>2. k \in 1..(Len(q) - 1)
        BY <2>3, <4>1
      <4> QED
        BY <4>1, <4>2
    <3>2. ASSUME NEW k \in 1..(Len(q) - 1) PROVE Pre(q, k) \in Proper(q)
      <4>1. k \in 1..Len(q) /\ Len(Pre(q, k)) # Len(q)
        BY <2>3
      <4>2. Pre(q, k) # q
        BY <4>1
      <4> QED
        BY <4>1, <4>2 DEF Proper, Paths, Pre
    <3> QED
      BY <3>1, <3>2
  <2>6. Skip(darr[Target(q)], AllPre(q)) = Claims(q) \ others
    <3>1. \A n : n \in ToSet(AllPre(q)) <=> n \in others
      BY <2>2, <2>4, <2>5, Returned
    <3>2. ToSet(darr[Target(q)]) = Claims(q)
      BY <2>2, <2>4, Returned, ArrayIs
    <3> HIDE DEF others
    <3> QED
      BY <3>1, <3>2 DEF Skip
  <2> HIDE DEF others
  <2>7. LookupFile(q) = Answered(q, owners)
    BY <2>0, <2>4, <2>6 DEF LookupFile
  <2>8. Answered(q, owners) = owners
    BY <2>1 DEF Answered, Claims
  <2> QED
    BY <2>7, <2>8 DEF others
<1> QED
  BY <1>1, TreeInvariance, PTL

\* The lengths of the claimed prefixes of a name.
Claimed(q) == {k \in 1..Len(q) : Claims(Pre(q, k)) # {}}

\* The longest of them is the last array on the way that is not empty.
LEMMA LongestIs ==
    ASSUME TreeOK, NEW q \in Query, NEW d, Depth(q, d), Len(Target(q)) = d,
           Claimed(q) # {}
    PROVE  \E m \in 1..d :
              /\ \A k \in Claimed(q) : k <= m
              /\ (CHOOSE p \in {w \in Paths(q) : Claims(w) # {}} :
                     \A r \in {w \in Paths(q) : Claims(w) # {}} : Len(r) <= Len(p)) = Pre(q, m)
              /\ ToSet(LastPre(q)) = Claims(Pre(q, m))
<1>1. /\ Len(q) \in Nat /\ \A k \in 1..Len(q) : Len(Pre(q, k)) = k
      /\ d \in 0..Len(q) /\ d \in Nat /\ Target(q) = Pre(q, d)
  BY PrePre DEF Depth
<1>2. Claimed(q) \subseteq 1..d
  BY ClaimedInDepth DEF Claimed
<1>3. PICK m \in Claimed(q) : \A k \in Claimed(q) : k <= m
  <2> DEFINE B == {d - k : k \in Claimed(q)}
  <2>1. B \in SUBSET Nat /\ B # {}
    BY <1>1, <1>2
  <2>2. PICK b \in B : \A c \in B : b <= c
    BY <2>1, MinNat
  <2>3. PICK k \in Claimed(q) : b = d - k
    BY <2>2
  <2>4. ASSUME NEW j \in Claimed(q) PROVE j <= k
    <3>1. b <= d - j
      BY <2>2
    <3> QED
      BY <1>1, <1>2, <2>3, <3>1
  <2> QED
    BY <2>4
<1>4. m \in 1..d /\ m \in 1..Len(q) /\ Claims(Pre(q, m)) # {}
  BY <1>1, <1>2, <1>3 DEF Claimed
<1> DEFINE S == {w \in Paths(q) : Claims(w) # {}}
<1>5. Pre(q, m) \in S /\ \A p \in S : \E k \in Claimed(q) : p = Pre(q, k)
  BY <1>4 DEF Paths, Pre, Claimed
<1>6. \A p \in S : Len(p) <= m /\ (Len(p) = m => p = Pre(q, m))
  <2> SUFFICES ASSUME NEW p \in S PROVE Len(p) <= m /\ (Len(p) = m => p = Pre(q, m))
    OBVIOUS
  <2>1. PICK k \in Claimed(q) : p = Pre(q, k)
    BY <1>5
  <2> QED
    BY <1>1, <1>3, <2>1 DEF Claimed
<1>7. (CHOOSE p \in S : \A r \in S : Len(r) <= Len(p)) = Pre(q, m)
  <2> HIDE DEF S
  <2>1. Len(Pre(q, m)) = m
    BY <1>1, <1>4
  <2>2. Pre(q, m) \in S /\ \A r \in S : Len(r) <= Len(Pre(q, m))
    BY <1>5, <1>6, <2>1
  <2> DEFINE c == CHOOSE p \in S : \A r \in S : Len(r) <= Len(p)
  <2>3. c \in S /\ \A r \in S : Len(r) <= Len(c)
    BY <2>2
  <2> HIDE DEF c
  <2>4. \A p \in S : Len(p) \in Nat
    BY <1>1, <1>5 DEF Claimed
  <2>5. Len(c) = m
    <3>1. m <= Len(c) /\ Len(c) <= m
      BY <1>5, <1>6, <2>1, <2>3
    <3> QED
      BY <1>4, <2>3, <2>4, <3>1
  <2> QED
    BY <1>6, <2>3, <2>5 DEF c
<1> DEFINE full == {k \in 1..Len(Target(q)) : ArrayAt(SubSeq(q, 1, k)) # <<>>}
<1>8. ASSUME NEW p PROVE ArrayAt(p) # <<>> <=> Claims(p) # {}
  <2>1. ArrayAt(p) \in Seq(Node) /\ ToSet(ArrayAt(p)) = Claims(p)
    BY ArrayIs
  <2>2. ASSUME ArrayAt(p) # <<>> PROVE ToSet(ArrayAt(p)) # {}
    <3>1. 1 \in DOMAIN ArrayAt(p)
      BY <2>1, <2>2
    <3> QED
      BY <3>1 DEF ToSet
  <2>3. ASSUME ArrayAt(p) = <<>> PROVE ToSet(ArrayAt(p)) = {}
    BY <2>3, Empty
  <2> QED
    BY <2>1, <2>2, <2>3
<1>9. full = Claimed(q)
  <2>1. full = {k \in 1..d : Claims(Pre(q, k)) # {}}
    BY <1>8 DEF Pre
  <2> HIDE DEF full
  <2>2. {k \in 1..d : Claims(Pre(q, k)) # {}} = Claimed(q)
    BY <1>1, <1>2 DEF Claimed
  <2> QED
    BY <2>1, <2>2
<1>10. (CHOOSE k \in full : \A j \in full : j <= k) = m
  <2> HIDE DEF full
  <2>1. \A k \in Claimed(q) : (\A j \in Claimed(q) : j <= k) => k = m
    BY <1>2, <1>3
  <2> QED
    BY <1>3, <1>9, <2>1
<1>11. LastPre(q) = ArrayAt(Pre(q, m))
  <2>1. full # {}
    BY <1>9
  <2>2. LastPre(q) = ArrayAt(SubSeq(q, 1, CHOOSE k \in full : \A j \in full : j <= k))
    BY <2>1 DEF LastPre
  <2> HIDE DEF full
  <2> QED
    BY <1>10, <2>2 DEF Pre
<1>12. ToSet(LastPre(q)) = Claims(Pre(q, m))
  BY <1>11, ArrayIs
<1> QED
  BY <1>3, <1>4, <1>7, <1>12

\* A name that nobody claims itself, where the descent ends at one with an array, is
\* served by claimants of the longest claimed prefix other than the node itself, or
\* by nobody if it is the node itself.
THEOREM LongestServedInvariance == Spec => []LongestServed
<1>1. TreeOK => LongestServed
  <2> SUFFICES ASSUME TreeOK, NEW q \in Query
               PROVE  LET claimed == {w \in Paths(q) : Claims(w) # {}}
                          longest == Longest(claimed)
                      IN  /\ Claims(q) = {} /\ Returns(q)
                          /\ claimed # {} /\ Reachable(Claims(longest)) # {}
                          => /\ LookupFile(q) \subseteq Claims(longest) \ {Self}
                             /\ LookupFile(q) = {} => Self \in Claims(longest)
    BY DEF LongestServed
  <2> DEFINE claimed == {w \in Paths(q) : Claims(w) # {}}
             longest == CHOOSE p \in claimed : \A r \in claimed : Len(r) <= Len(p)
  <2>1. longest = Longest(claimed)
    BY DEF Longest
  <2>2. ASSUME Claims(q) = {}, Returns(q), claimed # {}, Reachable(Claims(longest)) # {}
        PROVE  /\ LookupFile(q) \subseteq Claims(longest) \ {Self}
               /\ LookupFile(q) = {} => Self \in Claims(longest)
    <3>1. PICK d : Depth(q, d)
      BY Descent
    <3>2. /\ d \in 1..Len(q) /\ Len(Target(q)) = d /\ Target(q) = Pre(q, d)
          /\ ToSet(darr[Target(q)]) = Claims(Pre(q, d))
      BY <2>2, <3>1, Returned, ArrayIs DEF Depth
    <3>3. Claimed(q) # {}
      BY <2>2 DEF Claimed, Paths, Pre
    <3>4. PICK m \in 1..d : /\ \A k \in Claimed(q) : k <= m
                            /\ longest = Pre(q, m)
                            /\ ToSet(LastPre(q)) = Claims(Pre(q, m))
      BY <3>1, <3>2, <3>3, LongestIs
    <3> DEFINE C == Claims(longest)
               skip == Skip(darr[Target(q)], AllPre(q))
               exact == Nearest(skip)
               found == IF exact # {} THEN exact ELSE Nearest(FallBack(darr[Target(q)], LastPre(q)))
    <3>5. LookupFile(q) = Answered(q, found)
      BY <2>2 DEF LookupFile
    <3>6. found \subseteq C /\ found # {}
      <4> HIDE DEF longest, claimed
      <4>1. CASE exact # {}
        <5>1. exact \subseteq skip /\ skip \subseteq Claims(Pre(q, d))
          BY <3>2 DEF Nearest, Reachable, Skip
        <5>2. d \in Claimed(q)
          BY <3>2, <4>1, <5>1 DEF Claimed
        <5>3. d = m
          BY <3>2, <3>4, <5>2
        <5> QED
          BY <3>4, <4>1, <5>1, <5>3
      <4>2. CASE exact = {}
        <5>1. found = Nearest(C)
          BY <3>4, <4>2 DEF FallBack
        <5>2. C \in SUBSET Node
          BY DEF Claims
        <5> QED
          BY <2>2, <5>1, <5>2, NearestOf
      <4> QED
        BY <4>1, <4>2
    <3>7. Self \in Node /\ q \notin ann[Self]
      BY <2>2, LookupAssumption DEF Claims
    <3> HIDE DEF found, longest, claimed
    <3> QED
      BY <3>5, <3>6, <3>7 DEF Answered
  <2> HIDE DEF longest, claimed
  <2> QED
    BY <2>1, <2>2 DEF claimed
<1> QED
  BY <1>1, TreeInvariance, PTL
=============================================================================
