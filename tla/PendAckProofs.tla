---------------------------- MODULE PendAckProofs ----------------------------
(***************************************************************************)
(* Proofs about PendAck, for any neighbours, senders, hash and timers: the *)
(* walks over list and chains neither lose nor double an entry, so that    *)
(* every announcement is in one place, entr_cnt does not wrap, and list    *)
(* and chains implement the two sets of PendSet.                           *)
(***************************************************************************)
EXTENDS PendAck, Induction, FiniteSetTheorems

-----------------------------------------------------------------------------
(* Walks.                                                                  *)

\* h lists the places of J, each once.
Lists(h, n, J) ==
    /\ n \in Nat /\ h \in [1..n -> J]
    /\ \A j \in J : \E k \in 1..n : h[k] = j
    /\ \A j, k \in 1..n : h[j] = h[k] => j = k

\* The steps of the walks.
OnlyStep(c, J, f) ==
    f = [j \in 0..Len(c) |->
            IF j = 0 THEN <<>>
            ELSE IF j \in J THEN Append(f[j - 1], c[j]) ELSE f[j - 1]]
PushedStep(q, c, J, f) ==
    f = [j \in 0..Len(c) |->
            IF j = 0 THEN q
            ELSE IF j \in J THEN <<c[j]>> \o f[j - 1] ELSE f[j - 1]]

LEMMA OnlyWalk ==
    ASSUME NEW X, NEW c \in Seq(X), NEW J
    PROVE  \E f : OnlyStep(c, J, f) /\ Only(c, J) = f[Len(c)]
<1> DEFINE T == [j \in 1..Len(c) |-> [s \in Seq(X) |->
                   IF j \in J THEN Append(s, c[j]) ELSE s]]
<1>1. T \in [1..Len(c) -> [Seq(X) -> Seq(X)]] /\ <<>> \in Seq(X) /\ Len(c) \in Nat
  OBVIOUS
<1> DEFINE n == Len(c)
           V == Seq(X)
           v == <<>>
<1> HIDE DEF T, n, V, v
<1>2. \E f : Iterates(f, n, V, v, T)
  <2>1. n \in Nat /\ v \in V /\ T \in [1..n -> [V -> V]]
    BY <1>1 DEF n, V, v
  <2> QED
    BY <2>1, Iterated
<1>20. PICK f \in [0..Len(c) -> Seq(X)] :
          f[0] = <<>> /\ \A k \in 1..Len(c) : f[k] = T[k][f[k - 1]]
  BY <1>2 DEF Iterates, n, V, v
<1>3. \A k \in 1..Len(c) :
          f[k] = IF k \in J THEN Append(f[k - 1], c[k]) ELSE f[k - 1]
  <2> SUFFICES ASSUME NEW k \in 1..Len(c)
               PROVE  f[k] = IF k \in J THEN Append(f[k - 1], c[k]) ELSE f[k - 1]
    OBVIOUS
  <2>1. f[k - 1] \in Seq(X) /\ f[k] = T[k][f[k - 1]]
    BY <1>20
  <2> QED
    BY <2>1 DEF T
<1>4. \A j \in 0..Len(c) :
          f[j] = IF j = 0 THEN <<>>
                 ELSE IF j \in J THEN Append(f[j - 1], c[j]) ELSE f[j - 1]
  <2> TAKE j \in 0..Len(c)
  <2>1. CASE j = 0
    BY <1>20, <2>1
  <2>2. CASE j # 0
    <3>1. j \in 1..Len(c)
      BY <2>2
    <3> QED
      BY <1>3, <2>2, <3>1
  <2> QED
    BY <2>1, <2>2
<1>5. f = [j \in 0..Len(c) |-> f[j]]
  BY <1>20
<1> DEFINE g == [j \in 0..Len(c) |->
            IF j = 0 THEN <<>>
            ELSE IF j \in J THEN Append(f[j - 1], c[j]) ELSE f[j - 1]]
<1>6. g = [j \in 0..Len(c) |-> g[j]] /\ \A j \in 0..Len(c) : f[j] = g[j]
  BY <1>4
<1> HIDE DEF g
<1>7. f = g
  BY <1>5, <1>6
<1>8. OnlyStep(c, J, f)
  BY <1>7 DEF OnlyStep, g
<1>9. OnlyStep(c, J, CHOOSE h : OnlyStep(c, J, h))
  BY <1>8
<1>10. Only(c, J) = (CHOOSE h : OnlyStep(c, J, h))[Len(c)]
  BY DEF Only, OnlyStep
<1> QED
  BY <1>9, <1>10

LEMMA PushedWalk ==
    ASSUME NEW X, NEW q \in Seq(X), NEW c \in Seq(X), NEW J
    PROVE  \E f : PushedStep(q, c, J, f) /\ Pushed(q, c, J) = f[Len(c)]
<1> DEFINE T == [j \in 1..Len(c) |-> [s \in Seq(X) |->
                   IF j \in J THEN <<c[j]>> \o s ELSE s]]
<1>1. T \in [1..Len(c) -> [Seq(X) -> Seq(X)]] /\ Len(c) \in Nat
  OBVIOUS
<1> DEFINE n == Len(c)
           V == Seq(X)
           v == q
<1> HIDE DEF T, n, V, v
<1>2. \E f : Iterates(f, n, V, v, T)
  <2>1. n \in Nat /\ v \in V /\ T \in [1..n -> [V -> V]]
    BY <1>1 DEF n, V, v
  <2> QED
    BY <2>1, Iterated
<1>20. PICK f \in [0..Len(c) -> Seq(X)] :
          f[0] = q /\ \A k \in 1..Len(c) : f[k] = T[k][f[k - 1]]
  BY <1>2 DEF Iterates, n, V, v
<1>3. \A k \in 1..Len(c) :
          f[k] = IF k \in J THEN <<c[k]>> \o f[k - 1] ELSE f[k - 1]
  <2> SUFFICES ASSUME NEW k \in 1..Len(c)
               PROVE  f[k] = IF k \in J THEN <<c[k]>> \o f[k - 1] ELSE f[k - 1]
    OBVIOUS
  <2>1. f[k - 1] \in Seq(X) /\ f[k] = T[k][f[k - 1]]
    BY <1>20
  <2> QED
    BY <2>1 DEF T
<1>4. \A j \in 0..Len(c) :
          f[j] = IF j = 0 THEN q
                 ELSE IF j \in J THEN <<c[j]>> \o f[j - 1] ELSE f[j - 1]
  <2> TAKE j \in 0..Len(c)
  <2>1. CASE j = 0
    BY <1>20, <2>1
  <2>2. CASE j # 0
    <3>1. j \in 1..Len(c)
      BY <2>2
    <3> QED
      BY <1>3, <2>2, <3>1
  <2> QED
    BY <2>1, <2>2
<1>5. f = [j \in 0..Len(c) |-> f[j]]
  BY <1>20
<1> DEFINE g == [j \in 0..Len(c) |->
            IF j = 0 THEN q
            ELSE IF j \in J THEN <<c[j]>> \o f[j - 1] ELSE f[j - 1]]
<1>6. g = [j \in 0..Len(c) |-> g[j]] /\ \A j \in 0..Len(c) : f[j] = g[j]
  BY <1>4
<1> HIDE DEF g
<1>7. f = g
  BY <1>5, <1>6
<1>8. PushedStep(q, c, J, f)
  BY <1>7 DEF PushedStep, g
<1>9. PushedStep(q, c, J, CHOOSE h : PushedStep(q, c, J, h))
  BY <1>8
<1>10. Pushed(q, c, J) = (CHOOSE h : PushedStep(q, c, J, h))[Len(c)]
  BY DEF Pushed, PushedStep
<1> QED
  BY <1>9, <1>10

\* Only keeps what is at the places of J, each entry once.
LEMMA OnlyIs ==
    ASSUME NEW X, NEW c \in Seq(X), NEW J \in SUBSET DOMAIN c
    PROVE  /\ Only(c, J) \in Seq(X)
           /\ \E h : /\ Lists(h, Len(Only(c, J)), J)
                     /\ \A k \in DOMAIN Only(c, J) : Only(c, J)[k] = c[h[k]]
<1>1. PICK f : OnlyStep(c, J, f) /\ Only(c, J) = f[Len(c)]
  BY OnlyWalk
<1> DEFINE K(m) == {j \in J : j <= m}
           Good(m) == /\ f[m] \in Seq(X)
                      /\ \E h : /\ Lists(h, Len(f[m]), K(m))
                                /\ \A k \in DOMAIN f[m] : f[m][k] = c[h[k]]
           P == {m \in 0..Len(c) : Good(m)}
<1>2. f[0] = <<>> /\ \A j \in 1..Len(c) :
          f[j] = IF j \in J THEN Append(f[j - 1], c[j]) ELSE f[j - 1]
  <2>1. \A j \in 0..Len(c) :
            f[j] = IF j = 0 THEN <<>>
                   ELSE IF j \in J THEN Append(f[j - 1], c[j]) ELSE f[j - 1]
    BY <1>1 DEF OnlyStep
  <2>2. \A j \in 1..Len(c) : j \in 0..Len(c) /\ j # 0
    OBVIOUS
  <2> QED
    BY <2>1, <2>2
<1>3. 0 \in P
  <2>1. K(0) = {} /\ f[0] = <<>>
    BY <1>2
  <2>2. Lists([k \in 1..0 |-> 0], 0, {})
    BY DEF Lists
  <2>3. Len(f[0]) = 0 /\ DOMAIN f[0] = {} /\ f[0] \in Seq(X)
    BY <2>1
  <2>4. Good(0)
    BY <2>1, <2>2, <2>3
  <2> HIDE DEF Good
  <2> QED
    BY <2>4
<1>4. ASSUME NEW m \in 1..Len(c), m - 1 \in P PROVE m \in P
  <2>1. f[m - 1] \in Seq(X)
    BY <1>4
  <2>2. PICK h : /\ Lists(h, Len(f[m - 1]), K(m - 1))
                 /\ \A k \in DOMAIN f[m - 1] : f[m - 1][k] = c[h[k]]
    BY <1>4
  <2>3. CASE m \in J
    <3> DEFINE n == Len(f[m - 1])
               g == [k \in 1..(n + 1) |-> IF k = n + 1 THEN m ELSE h[k]]
    <3>1. /\ f[m] = Append(f[m - 1], c[m]) /\ f[m] \in Seq(X) /\ Len(f[m]) = n + 1
          /\ f[m][n + 1] = c[m] /\ \A k \in 1..n : f[m][k] = f[m - 1][k]
      <4>0. f[m] = Append(f[m - 1], c[m])
        BY <1>2, <1>4, <2>3
      <4>1. f[m] = Append(f[m - 1], c[m]) /\ c[m] \in X
        BY <1>4, <4>0
      <4>2. f[m] \in Seq(X) /\ Len(f[m]) = n + 1
        BY <2>1, <4>1
      <4>3. f[m][n + 1] = c[m]
        BY <2>1, <4>1
      <4>4. \A k \in 1..n : f[m][k] = f[m - 1][k]
        BY <2>1, <4>1
      <4> QED
        BY <4>1, <4>2, <4>3, <4>4
    <3>2. Lists(g, n + 1, K(m))
      <4>1. \A k \in 1..n : h[k] \in K(m - 1)
        BY <2>2 DEF Lists
      <4>2. \A k \in 1..n : h[k] # m /\ h[k] \in K(m)
        BY <4>1
      <4>3. g \in [1..(n + 1) -> K(m)] /\ n + 1 \in Nat
        BY <2>1, <2>3, <4>2
      <4>4. \A j, k \in 1..(n + 1) : g[j] = g[k] => j = k
        <5> SUFFICES ASSUME NEW j \in 1..(n + 1), NEW k \in 1..(n + 1), g[j] = g[k]
                     PROVE  j = k
          OBVIOUS
        <5>1. CASE j = n + 1 \/ k = n + 1
          BY <2>1, <4>2, <5>1
        <5>2. CASE j \in 1..n /\ k \in 1..n
          BY <2>1, <2>2, <5>2 DEF Lists
        <5> QED
          BY <2>1, <5>1, <5>2
      <4>5. \A j \in K(m) : \E k \in 1..(n + 1) : g[k] = j
        <5> TAKE j \in K(m)
        <5>1. CASE j = m
          <6>1. n + 1 \in 1..(n + 1) /\ g[n + 1] = j
            BY <2>1, <5>1
          <6> QED
            BY <6>1
        <5>2. CASE j # m
          <6>1. j \in K(m - 1)
            BY <5>2
          <6>2. PICK k \in 1..n : h[k] = j
            BY <2>2, <6>1 DEF Lists
          <6>3. k \in 1..(n + 1) /\ g[k] = j
            BY <2>1, <6>2
          <6> QED
            BY <6>3
        <5> QED
          BY <5>1, <5>2
      <4> QED
        BY <4>3, <4>4, <4>5 DEF Lists
    <3>3. \A k \in DOMAIN f[m] : f[m][k] = c[g[k]]
      BY <2>1, <2>2, <3>1
    <3> HIDE DEF g
    <3>4. Good(m)
      BY <3>1, <3>2, <3>3
    <3> HIDE DEF Good
    <3> QED
      BY <3>4
  <2>4. CASE m \notin J
    <3>1. f[m] = f[m - 1] /\ K(m) = K(m - 1)
      BY <1>2, <2>4
    <3>2. Good(m)
      BY <2>1, <2>2, <3>1
    <3> HIDE DEF Good
    <3> QED
      BY <3>2
  <2> QED
    BY <2>3, <2>4
<1> HIDE DEF P
<1>5. \A m \in 1..Len(c) : m - 1 \in P => m \in P
  BY <1>4
<1>6. Len(c) \in Nat
  OBVIOUS
<1>7. \A m \in 0..Len(c) : m \in P
  BY <1>3, <1>5, <1>6, UpTo, Zenon
<1>8. Len(c) \in P
  BY <1>6, <1>7
<1>9. Good(Len(c))
  <2> HIDE DEF Good
  <2> QED
    BY <1>8 DEF P
<1>10. K(Len(c)) = J
  OBVIOUS
<1> QED
  BY <1>1, <1>9, <1>10

\* List r has n entries in front of q, those of c at the places h lists.
InFront(r, q, c, J) ==
    \E n \in Nat : \E h :
        /\ Lists(h, n, J) /\ Len(r) = n + Len(q)
        /\ \A k \in 1..n : r[k] = c[h[k]]
        /\ \A k \in DOMAIN q : r[n + k] = q[k]

\* Pushed puts what is at the places of J, each entry once, in front of q.
LEMMA PushedIs ==
    ASSUME NEW X, NEW q \in Seq(X), NEW c \in Seq(X), NEW J \in SUBSET DOMAIN c
    PROVE  Pushed(q, c, J) \in Seq(X) /\ InFront(Pushed(q, c, J), q, c, J)
<1>1. PICK f : PushedStep(q, c, J, f) /\ Pushed(q, c, J) = f[Len(c)]
  BY PushedWalk
<1> DEFINE K(m) == {j \in J : j <= m}
           Is(s, n, h, m) == /\ Lists(h, n, K(m)) /\ Len(s) = n + Len(q)
                             /\ \A k \in 1..n : s[k] = c[h[k]]
                             /\ \A k \in DOMAIN q : s[n + k] = q[k]
           Good(m) == f[m] \in Seq(X) /\ \E n \in Nat : \E h : Is(f[m], n, h, m)
           P == {m \in 0..Len(c) : Good(m)}
<1>2. f[0] = q /\ \A j \in 1..Len(c) :
          f[j] = IF j \in J THEN <<c[j]>> \o f[j - 1] ELSE f[j - 1]
  <2>1. \A j \in 0..Len(c) :
            f[j] = IF j = 0 THEN q
                   ELSE IF j \in J THEN <<c[j]>> \o f[j - 1] ELSE f[j - 1]
    BY <1>1 DEF PushedStep
  <2>2. \A j \in 1..Len(c) : j \in 0..Len(c) /\ j # 0
    OBVIOUS
  <2>3. 0 \in 0..Len(c)
    OBVIOUS
  <2>4. f[0] = q
    BY <2>1, <2>3
  <2>5. \A j \in 1..Len(c) :
            f[j] = IF j \in J THEN <<c[j]>> \o f[j - 1] ELSE f[j - 1]
    BY <2>1, <2>2
  <2> QED
    BY <2>4, <2>5
<1>3. 0 \in P
  <2>1. K(0) = {} /\ f[0] = q
    BY <1>2
  <2>2. Lists([k \in 1..0 |-> 0], 0, {})
    BY DEF Lists
  <2>3. Len(q) = 0 + Len(q) /\ \A k \in DOMAIN q : q[0 + k] = q[k]
    OBVIOUS
  <2>4. Is(f[0], 0, [k \in 1..0 |-> 0], 0)
    <3> DEFINE e == [k \in 1..0 |-> 0]
    <3> HIDE DEF e
    <3>1. Lists(e, 0, K(0))
      BY <2>1, <2>2 DEF e
    <3>2. Is(f[0], 0, e, 0)
      BY <2>1, <2>3, <3>1
    <3> QED
      BY <3>2 DEF e
  <2> HIDE DEF Is
  <2>5. 0 \in Nat /\ f[0] \in Seq(X)
    BY <2>1
  <2>6. Good(0)
    BY <2>4, <2>5
  <2> HIDE DEF Good
  <2> QED
    BY <2>6
<1>4. ASSUME NEW m \in 1..Len(c), m - 1 \in P PROVE m \in P
  <2>1. f[m - 1] \in Seq(X)
    BY <1>4
  <2>2. PICK n \in Nat : \E h : Is(f[m - 1], n, h, m - 1)
    BY <1>4
  <2>3. PICK h : Is(f[m - 1], n, h, m - 1)
    BY <2>2
  <2>4. CASE m \in J
    <3> DEFINE g == [k \in 1..(n + 1) |-> IF k = 1 THEN m ELSE h[k - 1]]
    <3>1. f[m] = <<c[m]>> \o f[m - 1]
      BY <1>2, <1>4, <2>4
    <3>2. c[m] \in X
      BY <1>4
    <3>3. /\ f[m] \in Seq(X) /\ Len(f[m]) = 1 + Len(f[m - 1]) /\ f[m][1] = c[m]
          /\ \A k \in 1..Len(f[m - 1]) : f[m][k + 1] = f[m - 1][k]
      BY <2>1, <3>1, <3>2
    <3>4. Lists(g, n + 1, K(m))
      <4>1. \A k \in 1..n : h[k] \in K(m - 1)
        BY <2>3 DEF Lists
      <4>2. \A k \in 1..n : h[k] # m /\ h[k] \in K(m)
        BY <4>1
      <4>3. g \in [1..(n + 1) -> K(m)] /\ n + 1 \in Nat
        BY <2>4, <4>2
      <4>4. \A j, k \in 1..(n + 1) : g[j] = g[k] => j = k
        <5> SUFFICES ASSUME NEW j \in 1..(n + 1), NEW k \in 1..(n + 1), g[j] = g[k]
                     PROVE  j = k
          OBVIOUS
        <5>1. CASE j = 1 \/ k = 1
          BY <4>2, <5>1
        <5>2. CASE j - 1 \in 1..n /\ k - 1 \in 1..n
          <6>1. h[j - 1] = h[k - 1]
            BY <5>2
          <6>2. j - 1 = k - 1
            BY <2>3, <5>2, <6>1 DEF Lists
          <6> QED
            BY <6>2
        <5> QED
          BY <5>1, <5>2
      <4>5. \A j \in K(m) : \E k \in 1..(n + 1) : g[k] = j
        <5> TAKE j \in K(m)
        <5>1. CASE j = m
          <6>1. 1 \in 1..(n + 1) /\ g[1] = j
            BY <5>1
          <6> QED
            BY <6>1
        <5>2. CASE j # m
          <6>1. j \in K(m - 1)
            BY <5>2
          <6>2. PICK k \in 1..n : h[k] = j
            BY <2>3, <6>1 DEF Lists
          <6>3. k + 1 \in 1..(n + 1) /\ g[k + 1] = j
            BY <6>2
          <6> QED
            BY <6>3
        <5> QED
          BY <5>1, <5>2
      <4> QED
        BY <4>3, <4>4, <4>5 DEF Lists
    <3>5. Len(f[m]) = (n + 1) + Len(q) /\ Len(f[m - 1]) = n + Len(q)
      BY <2>3, <3>3
    <3>6. \A k \in 1..(n + 1) : f[m][k] = c[g[k]]
      <4> TAKE k \in 1..(n + 1)
      <4>1. CASE k = 1
        BY <3>3, <4>1
      <4>2. CASE k # 1
        <5>1. k - 1 \in 1..n /\ k - 1 \in 1..Len(f[m - 1]) /\ (k - 1) + 1 = k
          BY <3>5, <4>2
        <5>2. f[m][k] = f[m - 1][k - 1]
          BY <3>3, <5>1
        <5> QED
          BY <2>3, <4>2, <5>1, <5>2
      <4> QED
        BY <4>1, <4>2
    <3>7. \A k \in DOMAIN q : f[m][(n + 1) + k] = q[k]
      <4> TAKE k \in DOMAIN q
      <4>1. n + k \in 1..Len(f[m - 1]) /\ (n + k) + 1 = (n + 1) + k
        BY <3>5
      <4> QED
        BY <2>3, <3>3, <4>1
    <3> HIDE DEF g
    <3>8. Is(f[m], n + 1, g, m)
      BY <3>4, <3>5, <3>6, <3>7
    <3> HIDE DEF Is
    <3>9. n + 1 \in Nat
      OBVIOUS
    <3>10. \E h1 : Is(f[m], n + 1, h1, m)
      BY <3>8
    <3>11. Good(m)
      BY <3>3, <3>9, <3>10
    <3> HIDE DEF Good
    <3> QED
      BY <3>11
  <2>5. CASE m \notin J
    <3>0. K(m) = K(m - 1)
      BY <1>4, <2>5
    <3>1. f[m] = f[m - 1] /\ K(m) = K(m - 1)
      BY <1>2, <1>4, <2>5, <3>0
    <3>2. Is(f[m], n, h, m)
      BY <2>3, <3>1
    <3> HIDE DEF Is
    <3>3. Good(m)
      BY <2>1, <3>1, <3>2
    <3> HIDE DEF Good
    <3> QED
      BY <3>3
  <2> QED
    BY <2>4, <2>5
<1> HIDE DEF P
<1>5. \A m \in 1..Len(c) : m - 1 \in P => m \in P
  BY <1>4
<1>6. Len(c) \in Nat
  OBVIOUS
<1>7. \A m \in 0..Len(c) : m \in P
  BY <1>3, <1>5, <1>6, UpTo, Zenon
<1>8. Len(c) \in P
  BY <1>6, <1>7
<1>9. Good(Len(c))
  <2> HIDE DEF Good
  <2> QED
    BY <1>8 DEF P
<1>10. K(Len(c)) = J
  OBVIOUS
<1> QED
  BY <1>1, <1>9, <1>10 DEF InFront

-----------------------------------------------------------------------------
(* The size of a table.                                                    *)

\* A place is in the table if its chain is, and is as long.
LEMMA PlacesAre ==
    ASSUME NEW N \in Nat, NEW X, NEW t \in [1..N -> Seq(X)]
    PROVE  \A i, j : <<i, j>> \in Places(t) <=> i \in 1..N /\ j \in 1..Len(t[i])
<1>1. \A i \in 1..N : DOMAIN t[i] = 1..Len(t[i])
  OBVIOUS
<1> QED
  BY <1>1 DEF Places

LEMMA PlacesFinite ==
    ASSUME NEW N \in Nat, NEW X, NEW t \in [1..N -> Seq(X)]
    PROVE  IsFiniteSet(Places(t)) /\ Size(t) \in Nat
<1> DEFINE Row(i) == {<<i, j>> : j \in DOMAIN t[i]}
           U(m) == UNION {Row(i) : i \in 1..m}
           P == {m \in 0..N : IsFiniteSet(U(m))}
<1>1. 0 \in P
  <2>1. U(0) = {}
    OBVIOUS
  <2> HIDE DEF U
  <2>2. IsFiniteSet(U(0))
    BY <2>1, FS_EmptySet
  <2> QED
    BY <2>2
<1>2. ASSUME NEW m \in 1..N, m - 1 \in P PROVE m \in P
  <2>1. DOMAIN t[m] = 1..Len(t[m]) /\ Len(t[m]) \in Nat
    BY <1>2
  <2>2. IsFiniteSet(1..Len(t[m]))
    BY <2>1, FS_Interval
  <2> DEFINE f == [j \in 1..Len(t[m]) |-> <<m, j>>]
  <2>3. f \in Surjection(1..Len(t[m]), Row(m))
    BY <2>1 DEF Surjection
  <2>4. IsFiniteSet(Row(m))
    <3> HIDE DEF f, Row
    <3> QED
      BY <2>2, <2>3, FS_Surjection
  <2>5. 1..m = 1..(m - 1) \cup {m}
    BY <1>2
  <2>6. U(m) = U(m - 1) \cup Row(m)
    <3> HIDE DEF Row
    <3> QED
      BY <2>5
  <2>7. IsFiniteSet(U(m - 1))
    BY <1>2
  <2> HIDE DEF U, Row
  <2>8. IsFiniteSet(U(m - 1) \cup Row(m))
    BY <2>4, <2>7, FS_Union
  <2>9. IsFiniteSet(U(m))
    BY <2>6, <2>8
  <2> QED
    BY <1>2, <2>9
<1> HIDE DEF P, U
<1>3. \A m \in 1..N : m - 1 \in P => m \in P
  BY <1>2
<1>4. \A m \in 0..N : m \in P
  BY <1>1, <1>3, UpTo, Zenon
<1>5. IsFiniteSet(U(N))
  <2>1. N \in 0..N
    OBVIOUS
  <2> QED
    BY <1>4, <2>1 DEF P
<1>6. U(N) = Places(t)
  BY DEF Places, U
<1> QED
  BY <1>5, <1>6, FS_CardinalityType DEF Size

\* A chain that gets shorter by one.
LEMMA OneLess ==
    ASSUME NEW N \in Nat, NEW X, NEW t \in [1..N -> Seq(X)],
           NEW b \in 1..N, NEW c \in Seq(X), Len(c) = Len(t[b]) - 1
    PROVE  Size([t EXCEPT ![b] = c]) = Size(t) - 1 /\ Size(t) \in Nat \ {0}
<1> DEFINE u == [t EXCEPT ![b] = c]
           last == <<b, Len(t[b])>>
<1>1. u \in [1..N -> Seq(X)] /\ u[b] = c /\ \A i \in 1..N \ {b} : u[i] = t[i]
  OBVIOUS
<1>2. Len(t[b]) \in Nat \ {0} /\ Len(c) \in Nat
  OBVIOUS
<1> HIDE DEF u
<1>3. \A i, j : <<i, j>> \in Places(u) <=> <<i, j>> \in Places(t) /\ <<i, j>> # last
  <2>1. \A i, j : <<i, j>> \in Places(t) <=> i \in 1..N /\ j \in 1..Len(t[i])
    BY PlacesAre
  <2>2. \A i, j : <<i, j>> \in Places(u) <=> i \in 1..N /\ j \in 1..Len(u[i])
    BY <1>1, PlacesAre
  <2>3. \A j : j \in 1..Len(c) <=> j \in 1..Len(t[b]) /\ j # Len(t[b])
    BY <1>2
  <2>4. \A i, j : <<i, j>> = last <=> i = b /\ j = Len(t[b])
    OBVIOUS
  <2> HIDE DEF last
  <2> SUFFICES ASSUME NEW i, NEW j
               PROVE  <<i, j>> \in Places(u) <=> <<i, j>> \in Places(t) /\ <<i, j>> # last
    OBVIOUS
  <2>5. CASE i = b
    <3>1. <<i, j>> \in Places(u) <=> j \in 1..Len(c)
      BY <1>1, <2>2, <2>5
    <3>2. <<i, j>> \in Places(t) <=> j \in 1..Len(t[b])
      BY <2>1, <2>5
    <3> QED
      BY <2>3, <2>4, <2>5, <3>1, <3>2
  <2>6. CASE i \in 1..N /\ i # b
    BY <1>1, <2>1, <2>2, <2>4, <2>6
  <2>7. CASE i \notin 1..N
    BY <2>1, <2>2, <2>7
  <2> QED
    BY <2>5, <2>6, <2>7
<1>4. \A p \in Places(u) \cup Places(t) : p = <<p[1], p[2]>>
  BY DEF Places
<1>5. Places(u) = Places(t) \ {last}
  BY <1>3, <1>4
<1>6. last \in Places(t)
  <2>1. \A i, j : <<i, j>> \in Places(t) <=> i \in 1..N /\ j \in 1..Len(t[i])
    BY PlacesAre
  <2>2. Len(t[b]) \in 1..Len(t[b])
    BY <1>2
  <2> QED
    BY <2>1, <2>2 DEF last
<1> HIDE DEF last
<1>7. IsFiniteSet(Places(t)) /\ IsFiniteSet(Places(u)) /\ Size(u) \in Nat /\ Size(t) \in Nat
  BY <1>1, PlacesFinite
<1>8. Size(u) = Size(t) - 1
  BY <1>5, <1>6, <1>7, FS_RemoveElement DEF Size
<1> QED
  BY <1>7, <1>8 DEF u

\* Chains that get longer by what h takes, without taking anything twice, from
\* the places of A.
LEMMA SomeMore ==
    ASSUME NEW N \in Nat, NEW X, NEW t \in [1..N -> Seq(X)], NEW u \in [1..N -> Seq(X)],
           NEW A, IsFiniteSet(A),
           \A i \in 1..N : Len(u[i]) >= Len(t[i]),
           NEW h \in [Places(u) \ Places(t) -> A], IsInjective(h)
    PROVE  Size(u) <= Size(t) + Cardinality(A)
<1>1. /\ IsFiniteSet(Places(t)) /\ IsFiniteSet(Places(u))
      /\ Size(u) \in Nat /\ Size(t) \in Nat
  BY PlacesFinite
<1>2. \A p \in Places(t) : p = <<p[1], p[2]>>
  BY DEF Places
<1>3. \A i, j : <<i, j>> \in Places(t) => <<i, j>> \in Places(u)
  <2> SUFFICES ASSUME NEW i, NEW j, <<i, j>> \in Places(t) PROVE <<i, j>> \in Places(u)
    OBVIOUS
  <2>1. i \in 1..N /\ j \in 1..Len(t[i])
    BY PlacesAre
  <2>2. Len(u[i]) >= Len(t[i]) /\ Len(u[i]) \in Nat /\ Len(t[i]) \in Nat
    BY <2>1
  <2>3. j \in 1..Len(u[i])
    BY <2>1, <2>2
  <2> QED
    BY <2>1, <2>3, PlacesAre
<1>4. Places(t) \subseteq Places(u)
  BY <1>2, <1>3
<1>5. Places(u) \cap Places(t) = Places(t)
  BY <1>4
<1>6. Cardinality(Places(u) \ Places(t)) = Size(u) - Size(t)
  BY <1>1, <1>5, FS_Difference DEF Size
<1>7. h \in Injection(Places(u) \ Places(t), A)
  BY DEF Injection
<1>8. Cardinality(Places(u) \ Places(t)) <= Cardinality(A)
  BY <1>7, FS_Injection
<1>9. Cardinality(A) \in Nat
  BY FS_CardinalityType
<1> QED
  BY <1>1, <1>6, <1>8, <1>9

-----------------------------------------------------------------------------
(* Packets, and the announcements of a list.                               *)

Key == [snder : Sender, seq : Nat, dst : Dst]
Entry == [type : {"ad"}, snder : Sender, seq : Nat, dst : Dst, left : 0..Retran]
Packet == Entry \cup [type : {"answer"}, dst : Dst]

\* An entry whose timer was counted down may have run out.
Worn == [type : {"ad"}, snder : Sender, seq : Nat, dst : Dst, left : Int]

\* The announcements of a list.
Anns(c) == {Ann(c[j]) : j \in AdsAt(c)}

LEMMA Packets ==
    /\ \A p \in Packet : IsAd(p) <=> p \in Entry
    /\ \A p \in Worn : IsAd(p) /\ Ann(p) \in Key /\ Ann(p).dst = p.dst
                       /\ Ann(p).snder = p.snder /\ Ann(p).seq = p.seq
                       /\ (p.left \in 0..Retran => p \in Entry)
    /\ Entry \subseteq Worn
<1>1. \A p \in Packet : IsAd(p) <=> p \in Entry
  BY DEF Packet, Entry, IsAd
<1>2. Entry \subseteq Worn
  <2>1. 0..Retran \subseteq Int
    BY PendAssumption
  <2> QED
    BY <2>1 DEF Entry, Worn
<1>3. \A p \in Worn : IsAd(p) /\ Ann(p) \in Key /\ Ann(p).dst = p.dst
                      /\ Ann(p).snder = p.snder /\ Ann(p).seq = p.seq
  BY DEF Worn, Key, IsAd, Ann
<1>4. \A p \in Worn : p.left \in 0..Retran => p \in Entry
  BY DEF Worn, Entry
<1> QED
  BY <1>1, <1>2, <1>3, <1>4

\* A list of entries has announcements only.
LEMMA AllAds ==
    ASSUME NEW c \in Seq(Worn)
    PROVE  AdsAt(c) = DOMAIN c /\ Anns(c) = {Ann(c[j]) : j \in DOMAIN c}
<1>1. \A j \in DOMAIN c : c[j] \in Worn
  OBVIOUS
<1>2. AdsAt(c) = DOMAIN c
  BY <1>1, Packets DEF AdsAt
<1> QED
  BY <1>2 DEF Anns

LEMMA EntriesAreWorn ==
    ASSUME NEW c \in Seq(Entry)
    PROVE  c \in Seq(Worn) /\ c \in Seq(Packet)
BY Packets DEF Packet

\* What stays in a chain.
LEMMA OnlyAnns ==
    ASSUME NEW c \in Seq(Worn), NEW J \in SUBSET DOMAIN c,
           \A j \in J : c[j].left \in 0..Retran
    PROVE  /\ Only(c, J) \in Seq(Entry)
           /\ \A k \in DOMAIN Only(c, J) : \E j \in J : Only(c, J)[k] = c[j]
           /\ Anns(Only(c, J)) = {Ann(c[j]) : j \in J}
           /\ Distinct(c) => Distinct(Only(c, J))
<1> DEFINE r == Only(c, J)
<1>1. r \in Seq(Worn)
  BY OnlyIs
<1>2. PICK h : Lists(h, Len(r), J) /\ \A k \in DOMAIN r : r[k] = c[h[k]]
  BY OnlyIs
<1> HIDE DEF r
<1>3. DOMAIN r = 1..Len(r) /\ Len(r) \in Nat
  BY <1>1
<1>4. \A k \in DOMAIN r : h[k] \in J /\ r[k] = c[h[k]]
  BY <1>2, <1>3 DEF Lists
<1>5. \A k \in DOMAIN r : r[k] \in Entry
  <2> TAKE k \in DOMAIN r
  <2>1. r[k] \in Worn /\ r[k].left \in 0..Retran
    BY <1>1, <1>4
  <2> QED
    BY <2>1, Packets
<1>6. r \in Seq(Entry)
  BY <1>1, <1>3, <1>5
<1>7. Anns(r) = {Ann(c[j]) : j \in J}
  <2>1. \A j \in J : \E k \in DOMAIN r : h[k] = j
    BY <1>2, <1>3 DEF Lists
  <2>2. Anns(r) = {Ann(r[k]) : k \in DOMAIN r}
    BY <1>1, AllAds
  <2> QED
    BY <1>4, <2>1, <2>2
<1>8. ASSUME Distinct(c) PROVE Distinct(r)
  <2>1. AdsAt(c) = DOMAIN c /\ AdsAt(r) = DOMAIN r
    BY <1>1, AllAds
  <2> SUFFICES ASSUME NEW j \in DOMAIN r, NEW k \in DOMAIN r, Ann(r[j]) = Ann(r[k])
               PROVE  j = k
    BY <2>1 DEF Distinct
  <2>2. h[j] = h[k]
    BY <1>4, <1>8, <2>1 DEF Distinct
  <2> QED
    BY <1>2, <1>3, <2>2 DEF Lists
<1> QED
  BY <1>4, <1>6, <1>7, <1>8 DEF r

\* What is put in front of a list.
LEMMA PushedAnns ==
    ASSUME NEW q \in Seq(Packet), NEW c \in Seq(Packet), NEW J \in SUBSET DOMAIN c
    PROVE  /\ Pushed(q, c, J) \in Seq(Packet)
           /\ Anns(Pushed(q, c, J)) = Anns(q) \cup {Ann(c[j]) : j \in J \cap AdsAt(c)}
           /\ (/\ Distinct(q)
               /\ \A j, k \in J \cap AdsAt(c) : Ann(c[j]) = Ann(c[k]) => j = k
               /\ \A j \in J \cap AdsAt(c) : Ann(c[j]) \notin Anns(q))
              => Distinct(Pushed(q, c, J))
<1> DEFINE r == Pushed(q, c, J)
<1>1. r \in Seq(Packet)
  BY PushedIs
<1>2. PICK n \in Nat : \E h :
          /\ Lists(h, n, J) /\ Len(r) = n + Len(q)
          /\ \A k \in 1..n : r[k] = c[h[k]]
          /\ \A k \in DOMAIN q : r[n + k] = q[k]
  <2>1. InFront(r, q, c, J)
    BY PushedIs
  <2> QED
    BY <2>1 DEF InFront
<1>3. PICK h : /\ Lists(h, n, J) /\ Len(r) = n + Len(q)
               /\ \A k \in 1..n : r[k] = c[h[k]]
               /\ \A k \in DOMAIN q : r[n + k] = q[k]
  BY <1>2
<1> HIDE DEF r
<1>4. /\ \A k \in 1..n : k \in DOMAIN r
      /\ \A k \in DOMAIN q : n + k \in DOMAIN r
      /\ \A k \in DOMAIN r : k \in 1..n \/ k - n \in DOMAIN q
  BY <1>1, <1>3
<1>5. \A k \in 1..n : k \in AdsAt(r) <=> h[k] \in J \cap AdsAt(c)
  <2>1. \A k \in 1..n : h[k] \in J /\ h[k] \in DOMAIN c
    BY <1>3 DEF Lists
  <2> QED
    BY <1>3, <1>4, <2>1 DEF AdsAt
<1>6. \A k \in DOMAIN q : n + k \in AdsAt(r) <=> k \in AdsAt(q)
  BY <1>3, <1>4 DEF AdsAt
<1>7. \A k \in AdsAt(r) : \/ k \in 1..n /\ h[k] \in J \cap AdsAt(c) /\ r[k] = c[h[k]]
                          \/ k - n \in AdsAt(q) /\ r[k] = q[k - n]
  <2> TAKE k \in AdsAt(r)
  <2>1. k \in DOMAIN r /\ k \in Nat
    BY <1>1 DEF AdsAt
  <2>2. CASE k \in 1..n
    BY <1>3, <1>5, <2>2
  <2>3. CASE k - n \in DOMAIN q
    <3>1. n + (k - n) = k
      BY <2>1
    <3> QED
      BY <1>3, <1>6, <2>3, <3>1
  <2> QED
    BY <1>4, <2>1, <2>2, <2>3
<1>8. Anns(r) = Anns(q) \cup {Ann(c[j]) : j \in J \cap AdsAt(c)}
  <2>1. \A j \in J \cap AdsAt(c) : \E k \in AdsAt(r) : r[k] = c[j]
    <3> TAKE j \in J \cap AdsAt(c)
    <3>1. PICK k \in 1..n : h[k] = j
      BY <1>3 DEF Lists
    <3> QED
      BY <1>3, <1>5, <3>1
  <2>2. \A j \in AdsAt(q) : \E k \in AdsAt(r) : r[k] = q[j]
    <3> TAKE j \in AdsAt(q)
    <3>1. j \in DOMAIN q
      BY DEF AdsAt
    <3>2. n + j \in AdsAt(r) /\ r[n + j] = q[j]
      BY <1>3, <1>6, <3>1
    <3> QED
      BY <3>2
  <2> QED
    BY <1>7, <2>1, <2>2 DEF Anns
<1>9. ASSUME Distinct(q),
             \A j, k \in J \cap AdsAt(c) : Ann(c[j]) = Ann(c[k]) => j = k,
             \A j \in J \cap AdsAt(c) : Ann(c[j]) \notin Anns(q)
      PROVE  Distinct(r)
  <2> SUFFICES ASSUME NEW j \in AdsAt(r), NEW k \in AdsAt(r), Ann(r[j]) = Ann(r[k])
               PROVE  j = k
    BY DEF Distinct
  <2>1. j \in Nat /\ k \in Nat
    BY <1>1 DEF AdsAt
  <2>2. \A i \in AdsAt(q) : Ann(q[i]) \in Anns(q)
    BY DEF Anns
  <2>3. CASE j \in 1..n /\ h[j] \in J \cap AdsAt(c) /\ r[j] = c[h[j]]
    <3>1. ~(k - n \in AdsAt(q) /\ r[k] = q[k - n])
      BY <1>9, <2>2, <2>3
    <3>2. k \in 1..n /\ h[k] = h[j]
      BY <1>7, <1>9, <2>3, <3>1
    <3> QED
      BY <1>3, <2>3, <3>2 DEF Lists
  <2>4. CASE j - n \in AdsAt(q) /\ r[j] = q[j - n]
    <3>1. ~(k \in 1..n /\ h[k] \in J \cap AdsAt(c) /\ r[k] = c[h[k]])
      BY <1>9, <2>2, <2>4
    <3>2. k - n \in AdsAt(q) /\ r[k] = q[k - n]
      BY <1>7, <3>1
    <3>3. j - n = k - n
      BY <1>9, <2>4, <3>2 DEF Distinct
    <3> QED
      BY <2>1, <3>3
  <2> QED
    BY <1>7, <2>3, <2>4
<1> QED
  BY <1>1, <1>8, <1>9 DEF r

\* A new timer changes no announcement.
LEMMA RenewedIs ==
    ASSUME NEW c \in Seq(Entry)
    PROVE  /\ Renewed(c) \in Seq(Entry) /\ DOMAIN Renewed(c) = DOMAIN c
           /\ \A j \in DOMAIN c : Ann(Renewed(c)[j]) = Ann(c[j])
           /\ AdsAt(Renewed(c)) = DOMAIN c
<1>1. DOMAIN c = 1..Len(c) /\ Len(c) \in Nat /\ Retran \in 0..Retran
  BY PendAssumption
<1>2. \A e \in Entry : /\ [e EXCEPT !.left = Retran] \in Entry
                       /\ Ann([e EXCEPT !.left = Retran]) = Ann(e)
  BY <1>1 DEF Entry, Ann
<1>3. \A j \in DOMAIN c : c[j] \in Entry
  OBVIOUS
<1>4. \A j \in DOMAIN c : Renewed(c)[j] \in Entry /\ Ann(Renewed(c)[j]) = Ann(c[j])
  BY <1>2, <1>3 DEF Renewed
<1>5. DOMAIN Renewed(c) = DOMAIN c
  BY DEF Renewed
<1>6. Renewed(c) \in Seq(Entry)
  <2>1. Renewed(c) = [j \in 1..Len(c) |-> Renewed(c)[j]]
    BY <1>1 DEF Renewed
  <2> HIDE DEF Renewed
  <2> QED
    BY <1>1, <1>4, <2>1
<1>7. AdsAt(Renewed(c)) = DOMAIN c
  BY <1>5, <1>6, AllAds, EntriesAreWorn
<1> QED
  BY <1>4, <1>5, <1>6, <1>7

\* The steps of the walk over the buckets.
AgainStep(q, t, due, f) ==
    f = [i \in 0..Len(t) |-> IF i = 0 THEN q
                             ELSE Pushed(f[i - 1], Renewed(t[i]), due[i])]

AgainIs(f, N, t, q, due) ==
    /\ f \in [0..N -> Seq(Packet)] /\ f[0] = q
    /\ \A i \in 1..N : f[i] = Pushed(f[i - 1], Renewed(t[i]), due[i])
    /\ Again(q, t, due) = f[N]

LEMMA AgainWalk ==
    ASSUME NEW N \in Nat, NEW t \in [1..N -> Seq(Entry)], NEW q \in Seq(Packet),
           NEW due, \A i \in 1..N : due[i] \in SUBSET DOMAIN t[i]
    PROVE  \E f : AgainIs(f, N, t, q, due)
<1> DEFINE T == [i \in 1..N |-> [s \in Seq(Packet) |-> Pushed(s, Renewed(t[i]), due[i])]]
           V == Seq(Packet)
<1>1. \A i \in 1..N : \A s \in Seq(Packet) : Pushed(s, Renewed(t[i]), due[i]) \in Seq(Packet)
  <2> TAKE i \in 1..N
  <2> TAKE s \in Seq(Packet)
  <2>1. Renewed(t[i]) \in Seq(Packet) /\ due[i] \in SUBSET DOMAIN Renewed(t[i])
    BY RenewedIs, EntriesAreWorn
  <2> QED
    BY <2>1, PushedAnns
<1>2. T \in [1..N -> [V -> V]]
  BY <1>1
<1>3. Len(t) = N
  OBVIOUS
<1> HIDE DEF T, V
<1>4. q \in V
  BY DEF V
<1>5. \E f : Iterates(f, N, V, q, T)
  BY <1>2, <1>4, Iterated
<1>6. PICK f \in [0..N -> Seq(Packet)] : f[0] = q /\ \A k \in 1..N : f[k] = T[k][f[k - 1]]
  BY <1>5 DEF Iterates, V
<1>7. \A i \in 1..N : f[i] = Pushed(f[i - 1], Renewed(t[i]), due[i])
  <2> TAKE i \in 1..N
  <2>1. f[i - 1] \in Seq(Packet) /\ f[i] = T[i][f[i - 1]]
    BY <1>6
  <2> QED
    BY <2>1 DEF T
<1> DEFINE g == [i \in 0..Len(t) |-> IF i = 0 THEN q
                                     ELSE Pushed(f[i - 1], Renewed(t[i]), due[i])]
<1>8. g = [i \in 0..N |-> g[i]] /\ \A i \in 0..N : f[i] = g[i]
  <2>1. \A i \in 0..N : i # 0 => i \in 1..N
    OBVIOUS
  <2> QED
    BY <1>3, <1>6, <1>7, <2>1
<1>9. f = [i \in 0..N |-> f[i]]
  BY <1>6
<1> HIDE DEF g
<1>10. f = g
  BY <1>8, <1>9
<1>11. AgainStep(q, t, due, f)
  BY <1>10 DEF AgainStep, g
<1>12. AgainStep(q, t, due, CHOOSE h : AgainStep(q, t, due, h))
  BY <1>11
<1>13. Again(q, t, due) = (CHOOSE h : AgainStep(q, t, due, h))[N]
  BY <1>3 DEF Again, AgainStep
<1> DEFINE h == CHOOSE h : AgainStep(q, t, due, h)
<1> HIDE DEF h
<1>14. AgainStep(q, t, due, h) /\ Again(q, t, due) = h[N]
  BY <1>12, <1>13 DEF h
<1>15. /\ DOMAIN h = 0..N /\ h[0] = q
       /\ \A i \in 1..N : h[i] = Pushed(h[i - 1], Renewed(t[i]), due[i])
  <2>1. \A i \in 1..N : i \in 0..N /\ i # 0
    OBVIOUS
  <2>2. 0 \in 0..N
    OBVIOUS
  <2> QED
    BY <1>3, <1>14, <2>1, <2>2 DEF AgainStep
<1> DEFINE P == {i \in 0..N : h[i] \in Seq(Packet)}
<1>16. \A i \in 1..N : i - 1 \in P => i \in P
  <2>1. \A i \in 1..N : i - 1 \in 0..N /\ i \in 0..N
    OBVIOUS
  <2> QED
    BY <1>1, <1>15, <2>1
<1>17. 0 \in P
  BY <1>15
<1> HIDE DEF P
<1>18. \A i \in 0..N : i \in P
  BY <1>16, <1>17, UpTo, Zenon
<1>19. h \in [0..N -> Seq(Packet)]
  <2>1. h = [i \in 0..N |-> h[i]]
    BY <1>3, <1>14 DEF AgainStep
  <2> QED
    BY <1>18, <2>1 DEF P
<1> QED
  BY <1>14, <1>15, <1>19 DEF AgainIs

\* What is queued again, in terms of the announcements.
AgainHas(N, t, q, due) ==
    \A a : a \in Anns(Again(q, t, due)) <=>
        a \in Anns(q) \/ \E i \in 1..N : \E j \in due[i] : a = Ann(t[i][j])

\* What is due joins the list, each announcement once if they differ.
LEMMA AgainAnns ==
    ASSUME NEW N \in Nat, NEW t \in [1..N -> Seq(Entry)], NEW q \in Seq(Packet),
           NEW due, \A i \in 1..N : due[i] \in SUBSET DOMAIN t[i]
    PROVE  /\ Again(q, t, due) \in Seq(Packet)
           /\ AgainHas(N, t, q, due)
           /\ (/\ Distinct(q)
               /\ \A i, k \in 1..N : \A j \in due[i], l \in due[k] :
                      Ann(t[i][j]) = Ann(t[k][l]) => i = k /\ j = l
               /\ \A i \in 1..N : \A j \in due[i] : Ann(t[i][j]) \notin Anns(q))
              => Distinct(Again(q, t, due))
<1>0. \E f : AgainIs(f, N, t, q, due)
  BY AgainWalk
<1>1. PICK f : /\ f \in [0..N -> Seq(Packet)] /\ f[0] = q
               /\ \A i \in 1..N : f[i] = Pushed(f[i - 1], Renewed(t[i]), due[i])
               /\ Again(q, t, due) = f[N]
  BY <1>0 DEF AgainIs
<1> DEFINE Sum(m) == \A a : a \in Anns(f[m]) <=>
                  a \in Anns(q) \/ \E i \in 1..m : \E j \in due[i] : a = Ann(t[i][j])
           Apart == /\ Distinct(q)
                    /\ \A i, k \in 1..N : \A j \in due[i], l \in due[k] :
                           Ann(t[i][j]) = Ann(t[k][l]) => i = k /\ j = l
                    /\ \A i \in 1..N : \A j \in due[i] : Ann(t[i][j]) \notin Anns(q)
           P == {m \in 0..N : Sum(m) /\ (Apart => Distinct(f[m]))}
<1>2. 0 \in P
  <2>1. Sum(0) /\ (Apart => Distinct(f[0]))
    BY <1>1
  <2> QED
    BY <2>1
<1>3. ASSUME NEW m \in 1..N, m - 1 \in P PROVE m \in P
  <2> DEFINE c == Renewed(t[m])
  <2>0. m - 1 \in 0..N /\ t[m] \in Seq(Entry) /\ due[m] \in SUBSET DOMAIN t[m]
    BY <1>3
  <2>1. /\ c \in Seq(Packet) /\ due[m] \in SUBSET DOMAIN c
        /\ AdsAt(c) = DOMAIN t[m] /\ \A j \in due[m] : Ann(c[j]) = Ann(t[m][j])
    BY <2>0, RenewedIs, EntriesAreWorn
  <2>2. f[m] = Pushed(f[m - 1], c, due[m]) /\ f[m - 1] \in Seq(Packet)
    BY <1>1, <1>3, <2>0
  <2>3. Sum(m - 1) /\ (Apart => Distinct(f[m - 1]))
    BY <1>3
  <2> HIDE DEF c
  <2>4. due[m] \cap AdsAt(c) = due[m]
    BY <2>0, <2>1
  <2>5. Anns(f[m]) = Anns(f[m - 1]) \cup {Ann(t[m][j]) : j \in due[m]}
    <3>1. Anns(f[m]) = Anns(f[m - 1]) \cup {Ann(c[j]) : j \in due[m] \cap AdsAt(c)}
      BY <2>1, <2>2, PushedAnns
    <3> QED
      BY <2>1, <2>4, <3>1
  <2>6. Sum(m)
    <3>1. \A i : i \in 1..m <=> i \in 1..(m - 1) \/ i = m
      BY <1>3
    <3> HIDE DEF P, Apart
    <3>2. \A a : a \in Anns(f[m]) <=>
              a \in Anns(f[m - 1]) \/ \E j \in due[m] : a = Ann(t[m][j])
      BY <2>5
    <3> SUFFICES ASSUME NEW a
                 PROVE  a \in Anns(f[m]) <=>
                    a \in Anns(q) \/ \E i \in 1..m : \E j \in due[i] : a = Ann(t[i][j])
      OBVIOUS
    <3>3. a \in Anns(f[m - 1]) <=>
              a \in Anns(q) \/ \E i \in 1..(m - 1) : \E j \in due[i] : a = Ann(t[i][j])
      BY <2>3
    <3> QED
      BY <3>1, <3>2, <3>3
  <2>7. ASSUME Apart PROVE Distinct(f[m])
    <3>1. \A j \in due[m] : Ann(c[j]) \notin Anns(f[m - 1])
      <4> TAKE j \in due[m]
      <4>1. \A i \in 1..(m - 1) : i \in 1..N /\ i # m
        BY <1>3
      <4> QED
        BY <1>3, <2>1, <2>3, <2>7, <4>1
    <3>2. \A j, k \in due[m] : Ann(c[j]) = Ann(c[k]) => j = k
      BY <1>3, <2>1, <2>7
    <3>3. Distinct(f[m - 1])
      BY <2>3, <2>7
    <3>4. /\ \A j \in due[m] \cap AdsAt(c) : Ann(c[j]) \notin Anns(f[m - 1])
          /\ \A j, k \in due[m] \cap AdsAt(c) : Ann(c[j]) = Ann(c[k]) => j = k
      BY <3>1, <3>2
    <3> HIDE DEF Apart, Sum, P
    <3>5. Distinct(Pushed(f[m - 1], c, due[m]))
      BY <2>1, <2>2, <3>3, <3>4, PushedAnns
    <3> QED
      BY <2>2, <3>5
  <2> HIDE DEF Sum, Apart
  <2> QED
    BY <1>3, <2>6, <2>7
<1> HIDE DEF P
<1>4. \A m \in 1..N : m - 1 \in P => m \in P
  BY <1>3
<1>5. \A m \in 0..N : m \in P
  BY <1>2, <1>4, UpTo, Zenon
<1>6. Sum(N) /\ (Apart => Distinct(f[N])) /\ f[N] \in Seq(Packet)
  <2>1. N \in 0..N
    OBVIOUS
  <2> HIDE DEF Sum, Apart
  <2> QED
    BY <1>1, <1>5, <2>1 DEF P
<1> QED
  BY <1>1, <1>6 DEF AgainHas

-----------------------------------------------------------------------------
(* The inductive invariant.  The types of list and table join the three    *)
(* invariants: DownOnlySpared and OnePlace need that what is queued or     *)
(* pending has a number below the next one, and entr_cnt that each walk    *)
(* takes out exactly what it unlinks.                                      *)

Shape ==
    /\ outq \in Seq(Packet)
    /\ chain \in [Index -> Seq(Entry)]
    /\ next \in [Sender -> Nat]
IInv == Shape /\ TypeOK /\ OnePlace /\ DownOnlySpared

LEMMA Indices ==
    /\ Cardinality(Index) \in Nat /\ Index = 1..Cardinality(Index)
    /\ \A s \in Sender : Bucket[s] \in Index
<1>1. [s \in Sender |-> Bucket[s]] \in Surjection(Sender, Index)
  BY DEF Surjection, Index
<1>2. IsFiniteSet(Index)
  BY <1>1, PendAssumption, FS_Surjection
<1>3. Cardinality(Index) \in Nat
  BY <1>2, FS_CardinalityType
<1> QED
  BY <1>3, PendAssumption DEF Index

\* The announcements of a table.
TableAnns(t) == UNION {{Ann(e) : e \in Range(t[i])} : i \in Index}

LEMMA InTable ==
    ASSUME NEW t \in [Index -> Seq(Entry)]
    PROVE  /\ \A a : a \in TableAnns(t) <=>
                  \E i \in Index : \E j \in DOMAIN t[i] : a = Ann(t[i][j])
           /\ \A i \in Index : \A j \in DOMAIN t[i] :
                 /\ t[i][j] \in Entry /\ Ann(t[i][j]) \in Key /\ AdsAt(t[i]) = DOMAIN t[i]
                 /\ Ann(t[i][j]).dst = t[i][j].dst /\ Ann(t[i][j]).snder = t[i][j].snder
                 /\ Ann(t[i][j]).seq = t[i][j].seq
           /\ \A i \in Index : Anns(t[i]) \subseteq TableAnns(t)
<1>1. \A a : a \in TableAnns(t) <=>
          \E i \in Index : \E j \in DOMAIN t[i] : a = Ann(t[i][j])
  BY DEF TableAnns, Range
<1>2. \A i \in Index : \A j \in DOMAIN t[i] : t[i][j] \in Entry
  OBVIOUS
<1>3. \A i \in Index : AdsAt(t[i]) = DOMAIN t[i]
  BY AllAds, EntriesAreWorn
<1>4. \A i \in Index : Anns(t[i]) \subseteq TableAnns(t)
  BY <1>1, <1>3 DEF Anns
<1>5. \A i \in Index : \A j \in DOMAIN t[i] :
          /\ Ann(t[i][j]) \in Key /\ Ann(t[i][j]).dst = t[i][j].dst
          /\ Ann(t[i][j]).snder = t[i][j].snder /\ Ann(t[i][j]).seq = t[i][j].seq
  BY <1>2, Packets
<1> QED
  BY <1>1, <1>2, <1>3, <1>4, <1>5

\* What is queued and pending, as these proofs name it.
LEMMA Names ==
    /\ Queued = Anns(outq) /\ Queued' = Anns(outq')
    /\ Pending = TableAnns(chain) /\ Pending' = TableAnns(chain')
BY DEF Queued, Anns, Pending, TableAnns

LEMMA ListAnns ==
    ASSUME NEW q \in Seq(Packet)
    PROVE  /\ Anns(q) \subseteq Key
           /\ \A j \in AdsAt(q) : j \in DOMAIN q /\ q[j] \in Entry
<1>1. \A j \in AdsAt(q) : j \in DOMAIN q /\ q[j] \in Entry
  BY Packets DEF AdsAt
<1> QED
  BY <1>1, Packets DEF Anns

-----------------------------------------------------------------------------
(* What a step does to the list.                                           *)

\* Announcement a has a number that was not used before this step.
Fresh(a) == /\ a \in Key /\ a.dst \in valid'
            /\ next[a.snder] <= a.seq /\ a.seq < next'[a.snder]

Counting == /\ next' \in [Sender -> Nat]
            /\ \A s \in Sender : next[s] <= next'[s]

\* The list gets new announcements only.
Grown(q) == /\ q \in Seq(Packet) /\ Distinct(q) /\ Queued \subseteq Anns(q)
            /\ \A a \in Anns(q) : a \in Queued \/ Fresh(a)

LEMMA UseNumberIs ==
    ASSUME Shape, NEW s \in Sender, UseNumber(s)
    PROVE  Counting /\ next'[s] = next[s] + 1
BY DEF Shape, UseNumber, Counting

LEMMA SameList ==
    ASSUME IInv
    PROVE  Grown(outq)
BY Names DEF Grown, IInv, Shape, OnePlace

LEMMA AnswerInFront ==
    ASSUME NEW q, Grown(q), NEW d \in Dst
    PROVE  Grown(<<Answer(d)>> \o q)
<1> DEFINE r == <<Answer(d)>> \o q
<1>1. Answer(d) \in Packet /\ ~IsAd(Answer(d))
  BY DEF Answer, Packet, IsAd
<1>2. q \in Seq(Packet)
  BY DEF Grown
<1>3. /\ r \in Seq(Packet) /\ r[1] = Answer(d)
      /\ \A j \in DOMAIN q : j + 1 \in DOMAIN r /\ r[j + 1] = q[j]
      /\ \A j \in DOMAIN r : j = 1 \/ j - 1 \in DOMAIN q
  BY <1>1, <1>2
<1> HIDE DEF r
<1>4. \A j \in AdsAt(r) : j \in Nat /\ j - 1 \in AdsAt(q) /\ r[j] = q[j - 1]
  <2> SUFFICES ASSUME NEW j \in AdsAt(r)
               PROVE  j \in Nat /\ j - 1 \in AdsAt(q) /\ r[j] = q[j - 1]
    OBVIOUS
  <2>1. j \in DOMAIN r /\ IsAd(r[j]) /\ j \in Nat
    BY <1>3 DEF AdsAt
  <2>2. j - 1 \in DOMAIN q
    BY <1>1, <1>3, <2>1
  <2>3. r[(j - 1) + 1] = q[j - 1] /\ (j - 1) + 1 = j
    BY <1>3, <2>1, <2>2
  <2> QED
    BY <2>1, <2>2, <2>3 DEF AdsAt
<1>5. \A j \in AdsAt(q) : j + 1 \in AdsAt(r) /\ r[j + 1] = q[j]
  BY <1>3 DEF AdsAt
<1>6. Anns(r) = Anns(q)
  BY <1>4, <1>5 DEF Anns
<1>7. Distinct(r)
  <2>1. Distinct(q)
    BY DEF Grown
  <2> SUFFICES ASSUME NEW j \in AdsAt(r), NEW k \in AdsAt(r), Ann(r[j]) = Ann(r[k])
               PROVE  j = k
    BY DEF Distinct
  <2>2. j - 1 = k - 1
    BY <1>4, <2>1 DEF Distinct
  <2> QED
    BY <1>4, <2>2
<1> QED
  BY <1>3, <1>6, <1>7 DEF Grown, r

\* prep_flood_lsa makes one announcement for a neighbour.
LEMMA FloodGrows ==
    ASSUME IInv, valid' \subseteq Dst, NEW s \in Sender, NEW but, UseNumber(s)
    PROVE  Grown(Flood(outq, s, but))
<1> DEFINE c == [i \in DOMAIN Nbr |-> Ad(s, next[s], Nbr[i])]
           J == Targets(s, but)
           F == Flood(outq, s, but)
<1>1. /\ outq \in Seq(Packet) /\ next[s] \in Nat /\ Counting
      /\ next'[s] = next[s] + 1
  BY UseNumberIs DEF IInv, Shape
<1>2. Nbr \in Seq(Dst) /\ DOMAIN Nbr = 1..Len(Nbr) /\ Len(Nbr) \in Nat
  BY PendAssumption
<1>3. \A d \in Dst : /\ Ad(s, next[s], d) \in Entry /\ IsAd(Ad(s, next[s], d))
                     /\ Ann(Ad(s, next[s], d)) = [snder |-> s, seq |-> next[s], dst |-> d]
  <2>1. Retran \in 0..Retran
    BY PendAssumption
  <2> QED
    BY <1>1, <2>1 DEF Ad, Entry, IsAd, Ann
<1>4. \A i \in DOMAIN Nbr : Nbr[i] \in Dst
  BY <1>2
<1>5. c \in Seq(Packet) /\ DOMAIN c = DOMAIN Nbr /\ AdsAt(c) = DOMAIN Nbr
  <2>1. \A i \in DOMAIN Nbr : c[i] \in Packet /\ IsAd(c[i])
    BY <1>3, <1>4 DEF Packet
  <2> QED
    BY <1>2, <2>1 DEF AdsAt
<1>6. \A i \in DOMAIN Nbr : Ann(c[i]) = [snder |-> s, seq |-> next[s], dst |-> Nbr[i]]
  BY <1>3, <1>4
<1>7. J \in SUBSET DOMAIN c /\ \A i \in J : Nbr[i] \in valid' /\ Nbr[i] \in Dst
  BY <1>4, <1>5 DEF Targets
<1>8. F = Pushed(outq, c, J)
  BY DEF Flood
<1> HIDE DEF c, J
<1>9. \A i \in J : Fresh(Ann(c[i]))
  <2> TAKE i \in J
  <2>1. Ann(c[i]) = [snder |-> s, seq |-> next[s], dst |-> Nbr[i]]
    BY <1>5, <1>6, <1>7
  <2>2. Ann(c[i]) \in Key
    BY <1>1, <1>7, <2>1 DEF Key
  <2>3. Ann(c[i]).dst = Nbr[i] /\ Ann(c[i]).snder = s /\ Ann(c[i]).seq = next[s]
    BY <2>1
  <2>4. next[s] <= next[s] /\ next[s] < next'[s]
    BY <1>1
  <2> QED
    BY <1>7, <2>2, <2>3, <2>4 DEF Fresh
<1>10. \A a \in Queued : ~Fresh(a)
  <2> SUFFICES ASSUME NEW a \in Queued PROVE ~(next[a.snder] <= a.seq)
    BY DEF Fresh
  <2>1. a \in Key /\ a.seq < next[a.snder]
    BY Names, ListAnns DEF IInv, Shape, TypeOK
  <2>2. a.seq \in Nat /\ next[a.snder] \in Nat
    BY <2>1 DEF Key, IInv, Shape
  <2> QED
    BY <2>1, <2>2
<1>11. /\ F \in Seq(Packet)
       /\ Anns(F) = Anns(outq) \cup {Ann(c[j]) : j \in J \cap AdsAt(c)}
  BY <1>1, <1>5, <1>7, <1>8, PushedAnns
<1>12. Distinct(F)
  <2>1. Distinct(outq)
    BY DEF IInv, OnePlace
  <2>2. \A j, k \in J \cap AdsAt(c) : Ann(c[j]) = Ann(c[k]) => j = k
    <3> SUFFICES ASSUME NEW j \in J, NEW k \in J, Ann(c[j]) = Ann(c[k]) PROVE j = k
      OBVIOUS
    <3>1. Nbr[j] = Nbr[k]
      <4>1. Ann(c[j]).dst = Nbr[j] /\ Ann(c[k]).dst = Nbr[k]
        BY <1>5, <1>6, <1>7
      <4> QED
        BY <4>1
    <3> QED
      BY <1>5, <1>7, <3>1, PendAssumption DEF IsInjective
  <2>3. \A j \in J \cap AdsAt(c) : Ann(c[j]) \notin Anns(outq)
    BY <1>9, <1>10, Names
  <2> QED
    BY <1>1, <1>5, <1>7, <1>8, <2>1, <2>2, <2>3, PushedAnns
<1> QED
  BY <1>9, <1>11, <1>12, Names DEF Grown, F

-----------------------------------------------------------------------------
(* What an answer does to the table.                                       *)

\* The table loses entries, or none, and entr_cnt stays above its size.
Less ==
    /\ chain' \in [Index -> Seq(Entry)]
    /\ \A i \in Index : Distinct(chain'[i])
    /\ \A i \in Index : \A j \in DOMAIN chain'[i] :
          \E k \in DOMAIN chain[i] : chain'[i][j] = chain[i][k]
    /\ cnt' \in Nat /\ cnt' >= Size(chain')

LEMMA SameTable ==
    ASSUME IInv, UNCHANGED <<chain, cnt>>
    PROVE  Less
BY DEF IInv, Shape, TypeOK, OnePlace, Less

\* A listing of the places but one of a sequence has one member less.
LEMMA ListsLess ==
    ASSUME NEW n \in Nat, NEW at \in 1..n, NEW h, NEW m, Lists(h, m, (1..n) \ {at})
    PROVE  m = n - 1
<1>1. h \in Bijection(1..m, (1..n) \ {at}) /\ m \in Nat
  BY DEF Lists, Bijection, Injection, Surjection, IsInjective
<1>2. ExistsBijection(1..m, (1..n) \ {at})
  BY <1>1 DEF ExistsBijection
<1>3. IsFiniteSet(1..m) /\ Cardinality(1..m) = m
  BY <1>1, FS_Interval
<1>4. Cardinality((1..n) \ {at}) = m
  BY <1>2, <1>3, FS_Bijection
<1>5. IsFiniteSet(1..n) /\ Cardinality(1..n) = n
  BY FS_Interval
<1> QED
  BY <1>4, <1>5, FS_RemoveElement

\* The walk of remove_pd_ack takes out one entry, or none.
LEMMA RemoveIs ==
    ASSUME IInv, NEW s \in Sender, NEW q, NEW d, RemovePdAck(s, q, d)
    PROVE  /\ Less
           /\ \/ UNCHANGED chain /\ Found(chain[Bucket[s]], s, q, d) = {}
              \/ \E at \in Found(chain[Bucket[s]], s, q, d) :
                    /\ \A i \in Index \ {Bucket[s]} : chain'[i] = chain[i]
                    /\ Anns(chain'[Bucket[s]])
                          = {Ann(chain[Bucket[s]][j]) : j \in DOMAIN chain[Bucket[s]] \ {at}}
<1> DEFINE b == Bucket[s]
           c == chain[b]
           found == Found(c, s, q, d)
<1>1. /\ b \in Index /\ chain \in [Index -> Seq(Entry)] /\ c \in Seq(Entry)
      /\ cnt \in Nat /\ cnt >= Size(chain) /\ \A i \in Index : Distinct(chain[i])
  BY Indices DEF IInv, Shape, TypeOK, OnePlace
<1>2. CASE found = {}
  <2>1. UNCHANGED <<chain, cnt>>
    BY <1>2 DEF RemovePdAck
  <2> QED
    BY <1>2, <2>1, SameTable
<1>3. CASE found # {}
  <2>1. found \in SUBSET Nat /\ found \subseteq DOMAIN c
    BY <1>1 DEF Found
  <2> DEFINE at == Min(found)
             J == DOMAIN c \ {at}
             r == Only(c, J)
  <2>2. at \in found
    <3> HIDE DEF found
    <3> QED
      BY <1>3, <2>1, MinNat
  <2>3. at \in 1..Len(c) /\ Len(c) \in Nat /\ J = (1..Len(c)) \ {at} /\ J \in SUBSET DOMAIN c
    <3>1. DOMAIN c = 1..Len(c) /\ Len(c) \in Nat
      BY <1>1
    <3> HIDE DEF at, c, found
    <3> QED
      BY <2>1, <2>2, <3>1
  <2>4. /\ chain' = [chain EXCEPT ![b] = r]
        /\ cnt' = cnt - 1 \/ cnt' = cnt
    <3>1. /\ chain' = [chain EXCEPT ![b] = Only(chain[b], DOMAIN chain[b] \ {at})]
          /\ cnt' = IF \A i \in 1..(at - 1) : c[i].snder # s THEN cnt - 1 ELSE cnt
      BY <1>3 DEF RemovePdAck
    <3> QED
      BY <3>1
  <2> HIDE DEF at, J
  <2>5. c \in Seq(Worn)
    BY <1>1, EntriesAreWorn
  <2>6. \A j \in J : c[j].left \in 0..Retran
    <3>1. \A j \in DOMAIN c : c[j] \in Entry
      BY <1>1
    <3> HIDE DEF c
    <3> QED
      BY <2>3, <3>1 DEF Entry
  <2>7. /\ r \in Seq(Entry) /\ Anns(r) = {Ann(c[j]) : j \in J} /\ Distinct(r)
        /\ \A k \in DOMAIN r : \E j \in J : r[k] = c[j]
    BY <1>1, <2>3, <2>5, <2>6, OnlyAnns
  <2>8. Len(r) = Len(c) - 1
    <3>1. \E h : Lists(h, Len(r), J)
      BY <1>1, <2>3, OnlyIs
    <3> HIDE DEF c, r
    <3> QED
      BY <2>3, <3>1, ListsLess
  <2> HIDE DEF r
  <2>9. /\ chain' \in [Index -> Seq(Entry)] /\ chain'[b] = r
        /\ \A i \in Index \ {b} : chain'[i] = chain[i]
    BY <1>1, <2>4, <2>7
  <2>10. Size(chain') = Size(chain) - 1 /\ Size(chain) \in Nat \ {0}
    <3> DEFINE N == Cardinality(Index)
    <3>1. N \in Nat /\ Index = 1..N
      BY Indices
    <3> HIDE DEF N, b
    <3>2. chain \in [1..N -> Seq(Entry)] /\ b \in 1..N
      BY <1>1, <3>1
    <3>3. r \in Seq(Entry) /\ Len(r) = Len(chain[b]) - 1
      BY <2>7, <2>8
    <3>4. Size([chain EXCEPT ![b] = r]) = Size(chain) - 1 /\ Size(chain) \in Nat \ {0}
      BY <3>1, <3>2, <3>3, OneLess
    <3> QED
      BY <2>4, <3>4
  <2>11. cnt' \in Nat /\ cnt' >= Size(chain')
    BY <1>1, <2>4, <2>10
  <2>12. Less
    <3>1. \A i \in Index : \A j \in DOMAIN chain'[i] :
              \E k \in DOMAIN chain[i] : chain'[i][j] = chain[i][k]
      <4> TAKE i \in Index
      <4>1. CASE i = b
        BY <2>3, <2>7, <2>9, <4>1
      <4>2. CASE i # b
        BY <2>9, <4>2
      <4> QED
        BY <4>1, <4>2
    <3>2. \A i \in Index : Distinct(chain'[i])
      BY <1>1, <2>7, <2>9
    <3> QED
      BY <2>9, <2>11, <3>1, <3>2 DEF Less
  <2>13. Anns(chain'[b]) = {Ann(c[j]) : j \in DOMAIN c \ {at}}
    BY <2>7, <2>9 DEF J
  <2> QED
    BY <2>2, <2>9, <2>12, <2>13
<1> QED
  BY <1>2, <1>3

\* Whatever is handled, with or without new announcements and an answer, the
\* invariant goes on.
LEMMA HandleInv ==
    ASSUME IInv, Grown(outq'), Counting, Less,
           valid \subseteq valid', valid' \subseteq Dst, UNCHANGED <<sent, spared>>
    PROVE  IInv' /\ Pending' \subseteq Pending /\ (Queued' \ Queued) \cap Pending = {}
<1>1. Shape'
  BY DEF Shape, Grown, Counting, Less
<1>2. /\ chain \in [Index -> Seq(Entry)] /\ chain' \in [Index -> Seq(Entry)]
      /\ outq' \in Seq(Packet) /\ outq \in Seq(Packet)
  BY <1>1 DEF IInv, Shape
<1>3. Pending' \subseteq Pending
  <2>1. \A a \in Pending' : \E i \in Index : \E j \in DOMAIN chain'[i] : a = Ann(chain'[i][j])
    BY <1>2, InTable, Names
  <2>2. \A i \in Index : \A j \in DOMAIN chain[i] : Ann(chain[i][j]) \in Pending
    BY <1>2, InTable, Names
  <2> QED
    BY <2>1, <2>2 DEF Less
<1>4. /\ Queued \subseteq Key /\ Pending \subseteq Key /\ sent \subseteq Key
      /\ \A a \in Queued \cup Pending : a.seq < next[a.snder]
      /\ Queued \cap Pending = {}
      /\ \A a \in Queued \cup Pending : a.dst \in valid \/ a \in spared
  BY DEF IInv, TypeOK, OnePlace, DownOnlySpared, Key
<1>5. \A a \in Key : Fresh(a) => a \notin Queued \cup Pending
  <2> SUFFICES ASSUME NEW a \in Key, Fresh(a), a \in Queued \cup Pending PROVE FALSE
    OBVIOUS
  <2>1. a.seq \in Nat /\ next[a.snder] \in Nat
    BY DEF Key, IInv, Shape
  <2> QED
    BY <1>4, <2>1 DEF Fresh
<1>6. \A a \in Queued' : a \in Queued \/ (a \in Key /\ Fresh(a))
  BY Names DEF Grown, Fresh
<1>7. (Queued' \ Queued) \cap Pending = {}
  BY <1>5, <1>6
<1>8. \A a \in Queued' \cup Pending' : a.seq < next'[a.snder]
  <2> SUFFICES ASSUME NEW a \in Queued \cup Pending PROVE a.seq < next'[a.snder]
    BY <1>3, <1>6 DEF Fresh
  <2>1. a.snder \in Sender /\ a.seq \in Nat
    BY <1>4 DEF Key
  <2>2. next[a.snder] \in Nat /\ next'[a.snder] \in Nat /\ next[a.snder] <= next'[a.snder]
    BY <2>1 DEF Counting, IInv, Shape
  <2> QED
    BY <1>4, <2>1, <2>2
<1>9. \A i \in Index : \A e \in Range(chain'[i]) : Bucket[e.snder] = i /\ e.left \in 0..Retran
  <2>1. \A i \in Index : \A e \in Range(chain'[i]) : e \in Range(chain[i])
    BY DEF Less, Range
  <2> QED
    BY <2>1 DEF IInv, TypeOK
<1>10. TypeOK'
  <2>1. Queued' \cup Pending' \cup sent' \subseteq Key
    BY <1>3, <1>4, <1>6
  <2> QED
    BY <1>8, <1>9, <2>1 DEF TypeOK, Key, Less
<1>11. OnePlace'
  BY <1>3, <1>4, <1>5, <1>6 DEF OnePlace, Grown, Less
<1>12. DownOnlySpared'
  BY <1>3, <1>4, <1>6 DEF DownOnlySpared, Fresh
<1> QED
  BY <1>1, <1>3, <1>7, <1>10, <1>11, <1>12 DEF IInv

-----------------------------------------------------------------------------
(* Sending: the list moves into the table.                                 *)

LEMMA SentIs ==
    ASSUME NEW q \in Seq(Entry), NEW c \in Seq(Packet), NEW J \in SUBSET AdsAt(c)
    PROVE  /\ Pushed(q, c, J) \in Seq(Entry)
           /\ \A k \in DOMAIN Pushed(q, c, J) :
                 \/ \E j \in J : Pushed(q, c, J)[k] = c[j]
                 \/ \E j \in DOMAIN q : Pushed(q, c, J)[k] = q[j]
           /\ Len(Pushed(q, c, J)) >= Len(q)
           /\ \E h : Lists(h, Len(Pushed(q, c, J)) - Len(q), J)
<1> DEFINE r == Pushed(q, c, J)
<1>1. q \in Seq(Packet) /\ J \in SUBSET DOMAIN c /\ Len(q) \in Nat
  BY EntriesAreWorn DEF AdsAt
<1>2. r \in Seq(Packet)
  BY <1>1, PushedIs
<1>3. PICK n \in Nat : \E h :
          /\ Lists(h, n, J) /\ Len(r) = n + Len(q)
          /\ \A k \in 1..n : r[k] = c[h[k]]
          /\ \A k \in DOMAIN q : r[n + k] = q[k]
  <2>1. InFront(r, q, c, J)
    BY <1>1, PushedIs
  <2> HIDE DEF r
  <2> QED
    BY <2>1 DEF InFront
<1>4. PICK h : /\ Lists(h, n, J) /\ Len(r) = n + Len(q)
               /\ \A k \in 1..n : r[k] = c[h[k]]
               /\ \A k \in DOMAIN q : r[n + k] = q[k]
  BY <1>3
<1> HIDE DEF r
<1>5. \A k \in DOMAIN r : \/ \E j \in J : r[k] = c[j]
                          \/ \E j \in DOMAIN q : r[k] = q[j]
  <2> TAKE k \in DOMAIN r
  <2>1. k \in 1..n \/ k - n \in DOMAIN q
    BY <1>1, <1>2, <1>4
  <2>2. CASE k \in 1..n
    <3>1. h[k] \in J /\ r[k] = c[h[k]]
      BY <1>4, <2>2 DEF Lists
    <3> QED
      BY <3>1
  <2>3. CASE k - n \in DOMAIN q
    <3>1. r[k] = q[k - n]
      <4>1. n + (k - n) = k
        BY <1>2
      <4> QED
        BY <1>4, <2>3, <4>1
    <3> QED
      BY <2>3, <3>1
  <2> QED
    BY <2>1, <2>2, <2>3
<1>6. \A j \in J : c[j] \in Entry
  BY ListAnns
<1>7. \A k \in DOMAIN r : r[k] \in Entry
  BY <1>5, <1>6
<1>8. r \in Seq(Entry)
  BY <1>2, <1>7
<1>9. Len(r) >= Len(q) /\ Lists(h, Len(r) - Len(q), J)
  <2>1. Len(r) - Len(q) = n
    BY <1>1, <1>4
  <2> QED
    BY <1>1, <1>4, <2>1
<1> QED
  BY <1>5, <1>8, <1>9 DEF r

LEMMA SendInv ==
    ASSUME IInv, SendRdInfo
    PROVE  IInv' /\ Queued' = {} /\ Pending' = Pending \cup Queued
<1> DEFINE A == AdsAt(outq)
           ads(i) == {j \in A : Bucket[outq[j].snder] = i}
<1>1. /\ outq \in Seq(Packet) /\ chain \in [Index -> Seq(Entry)]
      /\ outq' = <<>> /\ chain' = [i \in Index |-> Pushed(chain[i], outq, ads(i))]
      /\ cnt' = cnt + Cardinality(A) /\ sent' = sent \cup Queued
      /\ UNCHANGED <<next, valid, spared>>
  BY DEF IInv, Shape, SendRdInfo
<1>2. \A j \in A : /\ j \in DOMAIN outq /\ outq[j] \in Entry /\ Ann(outq[j]) \in Queued
                   /\ outq[j].left \in 0..Retran /\ Bucket[outq[j].snder] \in Index
  <2>1. \A j \in A : j \in DOMAIN outq /\ outq[j] \in Entry /\ Ann(outq[j]) \in Queued
    BY <1>1, ListAnns DEF Queued
  <2>2. \A e \in Entry : e.snder \in Sender /\ e.left \in 0..Retran
    BY DEF Entry
  <2> QED
    BY <2>1, <2>2, Indices
<1>3. \A i \in Index : ads(i) \in SUBSET A /\ ads(i) \in SUBSET DOMAIN outq
  BY <1>2
<1>4. \A i \in Index : /\ chain'[i] = Pushed(chain[i], outq, ads(i))
                       /\ chain[i] \in Seq(Entry) /\ chain[i] \in Seq(Packet)
  BY <1>1, EntriesAreWorn
<1> HIDE DEF A, ads
<1>5. \A i \in Index :
          /\ chain'[i] \in Seq(Entry) /\ Len(chain'[i]) >= Len(chain[i])
          /\ \E h : Lists(h, Len(chain'[i]) - Len(chain[i]), ads(i))
          /\ \A k \in DOMAIN chain'[i] :
                \/ \E j \in ads(i) : chain'[i][k] = outq[j]
                \/ \E j \in DOMAIN chain[i] : chain'[i][k] = chain[i][j]
  BY <1>1, <1>3, <1>4, SentIs DEF A
<1>6. chain' \in [Index -> Seq(Entry)]
  BY <1>1, <1>5
<1>7. \A i \in Index : /\ Anns(chain'[i]) = Anns(chain[i]) \cup {Ann(outq[j]) : j \in ads(i)}
                       /\ Distinct(chain'[i])
  <2> TAKE i \in Index
  <2>1. ads(i) \cap AdsAt(outq) = ads(i)
    BY <1>3 DEF A
  <2>2. Anns(chain[i]) \subseteq Pending
    BY <1>1, InTable, Names
  <2>3. \A j \in ads(i) : Ann(outq[j]) \notin Anns(chain[i])
    BY <1>2, <1>3, <2>2 DEF IInv, OnePlace
  <2>4. \A j, k \in ads(i) : Ann(outq[j]) = Ann(outq[k]) => j = k
    BY <1>3 DEF IInv, OnePlace, Distinct, A
  <2>5. Distinct(chain[i])
    BY DEF IInv, OnePlace
  <2>6. Anns(chain'[i]) = Anns(chain[i]) \cup {Ann(outq[j]) : j \in ads(i)}
    <3>1. Anns(chain'[i]) = Anns(chain[i]) \cup {Ann(outq[j]) : j \in ads(i) \cap AdsAt(outq)}
      BY <1>1, <1>3, <1>4, PushedAnns
    <3> QED
      BY <2>1, <3>1
  <2>7. Distinct(chain'[i])
    <3>1. /\ \A j \in ads(i) \cap AdsAt(outq) : Ann(outq[j]) \notin Anns(chain[i])
          /\ \A j, k \in ads(i) \cap AdsAt(outq) : Ann(outq[j]) = Ann(outq[k]) => j = k
      BY <2>3, <2>4
    <3> QED
      BY <1>1, <1>3, <1>4, <2>5, <3>1, PushedAnns
  <2> QED
    BY <2>6, <2>7
<1>8. Queued' = {}
  BY <1>1 DEF Queued, AdsAt
<1>9. Pending' = Pending \cup Queued
  <2>1. \A t \in [Index -> Seq(Entry)] : \A a :
            a \in TableAnns(t) <=> \E i \in Index : a \in Anns(t[i])
    <3> SUFFICES ASSUME NEW t \in [Index -> Seq(Entry)], NEW a
                 PROVE  a \in TableAnns(t) <=> \E i \in Index : a \in Anns(t[i])
      OBVIOUS
    <3>1. \A i \in Index : \A j \in DOMAIN t[i] : j \in AdsAt(t[i])
      BY InTable
    <3> QED
      BY <3>1, InTable DEF Anns
  <2>2. \A a : a \in Queued <=> \E i \in Index : \E j \in ads(i) : a = Ann(outq[j])
    BY <1>2 DEF Queued, ads, A
  <2> QED
    BY <1>1, <1>6, <1>7, <2>1, <2>2, Names
<1>10. cnt' \in Nat /\ cnt' >= Size(chain')
  <2> DEFINE N == Cardinality(Index)
             D == Places(chain') \ Places(chain)
             H(i) == CHOOSE h : Lists(h, Len(chain'[i]) - Len(chain[i]), ads(i))
             g == [p \in D |-> H(p[1])[p[2] - Len(chain[p[1]])]]
  <2>1. N \in Nat /\ Index = 1..N
    BY Indices
  <2>2. \A i \in Index : Lists(H(i), Len(chain'[i]) - Len(chain[i]), ads(i))
    BY <1>5
  <2> HIDE DEF H, N
  <2>3. chain \in [1..N -> Seq(Entry)] /\ chain' \in [1..N -> Seq(Entry)]
    BY <1>1, <1>6, <2>1
  <2>4. \A p \in D : /\ p = <<p[1], p[2]>> /\ p[1] \in Index
                     /\ p[2] - Len(chain[p[1]]) \in 1..(Len(chain'[p[1]]) - Len(chain[p[1]]))
                     /\ p[2] \in Nat /\ Len(chain[p[1]]) \in Nat
    <3>1. \A i, j : <<i, j>> \in Places(chain) <=> i \in 1..N /\ j \in 1..Len(chain[i])
      BY <2>1, <2>3, PlacesAre
    <3>2. \A i, j : <<i, j>> \in Places(chain') <=> i \in 1..N /\ j \in 1..Len(chain'[i])
      BY <2>1, <2>3, PlacesAre
    <3> SUFFICES ASSUME NEW i, NEW j, <<i, j>> \in D
                 PROVE  /\ i \in Index /\ j \in Nat /\ Len(chain[i]) \in Nat
                        /\ j - Len(chain[i]) \in 1..(Len(chain'[i]) - Len(chain[i]))
      <4>1. \A p \in Places(chain') : p = <<p[1], p[2]>>
        BY DEF Places
      <4> QED
        BY <4>1
    <3>3. i \in 1..N /\ j \in 1..Len(chain'[i]) /\ j \notin 1..Len(chain[i])
      BY <3>1, <3>2
    <3>4. Len(chain[i]) \in Nat /\ Len(chain'[i]) \in Nat
      BY <2>3, <3>3
    <3> QED
      BY <2>1, <3>3, <3>4
  <2>5. \A p \in D : g[p] \in ads(p[1])
    <3> SUFFICES ASSUME NEW p \in D PROVE g[p] \in ads(p[1])
      OBVIOUS
    <3> DEFINE i == p[1]
               k == p[2] - Len(chain[i])
               n == Len(chain'[i]) - Len(chain[i])
    <3>1. g[p] = H(i)[k] /\ i \in Index /\ k \in 1..n
      BY <2>4
    <3>2. Lists(H(i), n, ads(i))
      BY <2>2, <3>1
    <3> HIDE DEF i, k, n
    <3>3. g[p] \in ads(i)
      BY <3>1, <3>2 DEF Lists
    <3> QED
      BY <3>3 DEF i
  <2>6. g \in [D -> A]
    BY <1>3, <2>4, <2>5
  <2>7. IsInjective(g)
    <3> SUFFICES ASSUME NEW p \in D, NEW r \in D, g[p] = g[r] PROVE p = r
      BY DEF IsInjective
    <3>1. p[1] = r[1]
      BY <2>5 DEF ads
    <3> DEFINE i == p[1]
               l == Len(chain[i])
               n == Len(chain'[i]) - l
    <3>2. /\ p[2] - l \in 1..n /\ r[2] - l \in 1..n /\ p[2] \in Nat /\ r[2] \in Nat /\ l \in Nat
          /\ Lists(H(i), n, ads(i)) /\ H(i)[p[2] - l] = H(i)[r[2] - l]
      BY <2>2, <2>4, <3>1
    <3> HIDE DEF i, l, n
    <3>3. p[2] - l = r[2] - l
      BY <3>2 DEF Lists
    <3>4. p[2] = r[2]
      BY <3>2, <3>3
    <3> QED
      BY <2>4, <3>1, <3>4
  <2>8. IsFiniteSet(A) /\ Cardinality(A) \in Nat
    <3>1. A \in SUBSET (1..Len(outq)) /\ Len(outq) \in Nat
      BY <1>1, <1>2
    <3>2. IsFiniteSet(1..Len(outq))
      BY <3>1, FS_Interval
    <3> QED
      BY <3>1, <3>2, FS_Subset, FS_CardinalityType
  <2> HIDE DEF g
  <2>9. Size(chain') <= Size(chain) + Cardinality(A)
    <3>1. \A i \in 1..N : Len(chain'[i]) >= Len(chain[i])
      BY <1>5, <2>1
    <3> QED
      BY <2>1, <2>3, <2>6, <2>7, <2>8, <3>1, SomeMore
  <2>10. Size(chain) \in Nat /\ Size(chain') \in Nat
    BY <2>1, <2>3, PlacesFinite
  <2> QED
    BY <1>1, <2>8, <2>9, <2>10 DEF IInv, TypeOK
<1>11. Shape'
  <2>1. outq' \in Seq(Packet)
    BY <1>1
  <2> QED
    BY <1>1, <1>6, <2>1 DEF IInv, Shape
<1>12. TypeOK'
  <2>1. \A i \in Index : \A e \in Range(chain'[i]) :
            Bucket[e.snder] = i /\ e.left \in 0..Retran
    <3> SUFFICES ASSUME NEW i \in Index, NEW k \in DOMAIN chain'[i]
                 PROVE  /\ Bucket[chain'[i][k].snder] = i
                        /\ chain'[i][k].left \in 0..Retran
      BY DEF Range
    <3>1. CASE \E j \in ads(i) : chain'[i][k] = outq[j]
      <4>1. PICK j \in ads(i) : chain'[i][k] = outq[j]
        BY <3>1
      <4>2. Bucket[outq[j].snder] = i /\ outq[j].left \in 0..Retran
        BY <1>2 DEF ads
      <4> QED
        BY <4>1, <4>2
    <3>2. CASE \E j \in DOMAIN chain[i] : chain'[i][k] = chain[i][j]
      <4>1. \A j \in DOMAIN chain[i] : /\ Bucket[chain[i][j].snder] = i
                                       /\ chain[i][j].left \in 0..Retran
        BY DEF IInv, TypeOK, Range
      <4> QED
        BY <3>2, <4>1
    <3>3. \/ \E j \in ads(i) : chain'[i][k] = outq[j]
          \/ \E j \in DOMAIN chain[i] : chain'[i][k] = chain[i][j]
      BY <1>5
    <3> QED
      BY <3>1, <3>2, <3>3
  <2>2. /\ valid \subseteq Dst /\ Queued \cup Pending \cup sent \subseteq Key
        /\ \A a \in Queued \cup Pending : a.seq < next[a.snder]
    BY DEF IInv, TypeOK, Key
  <2>3. Queued' \cup Pending' \cup sent' \subseteq Key
    BY <1>1, <1>8, <1>9, <2>2
  <2>4. \A a \in Queued' \cup Pending' : a.seq < next'[a.snder]
    BY <1>1, <1>8, <1>9, <2>2
  <2>5. valid' \subseteq Dst
    BY <1>1, <2>2
  <2> QED
    BY <1>10, <2>1, <2>3, <2>4, <2>5 DEF TypeOK, Key
<1>13. OnePlace'
  BY <1>1, <1>7, <1>8 DEF OnePlace, Distinct, AdsAt
<1>14. DownOnlySpared'
  BY <1>1, <1>8, <1>9 DEF IInv, DownOnlySpared
<1> QED
  BY <1>8, <1>9, <1>11, <1>12, <1>13, <1>14 DEF IInv

-----------------------------------------------------------------------------
(* The tick.                                                               *)

LEMMA AgedIs ==
    ASSUME NEW c \in Seq(Entry)
    PROVE  /\ Aged(c) \in Seq(Worn) /\ DOMAIN Aged(c) = DOMAIN c
           /\ \A j \in DOMAIN c : /\ Ann(Aged(c)[j]) = Ann(c[j])
                                  /\ Aged(c)[j].snder = c[j].snder
                                  /\ ~RunOut(Aged(c)[j]) => Aged(c)[j].left \in 0..Retran
           /\ Distinct(c) => Distinct(Aged(c))
<1>1. DOMAIN c = 1..Len(c) /\ Len(c) \in Nat /\ Retran \in Nat
  BY PendAssumption
<1>2. \A e \in Entry : /\ [e EXCEPT !.left = e.left - 1] \in Worn
                       /\ Ann([e EXCEPT !.left = e.left - 1]) = Ann(e)
                       /\ [e EXCEPT !.left = e.left - 1].snder = e.snder
                       /\ [e EXCEPT !.left = e.left - 1].left = e.left - 1
                       /\ e.left \in 0..Retran
  BY <1>1 DEF Entry, Worn, Ann
<1>3. \A j \in DOMAIN c : c[j] \in Entry /\ Aged(c)[j] = [c[j] EXCEPT !.left = c[j].left - 1]
  BY DEF Aged
<1>4. DOMAIN Aged(c) = DOMAIN c /\ Aged(c) = [j \in 1..Len(c) |-> Aged(c)[j]]
  BY <1>1 DEF Aged
<1>5. \A j \in DOMAIN c : Aged(c)[j] \in Worn /\ Ann(Aged(c)[j]) = Ann(c[j])
  BY <1>2, <1>3
<1>6. Aged(c) \in Seq(Worn)
  BY <1>1, <1>4, <1>5
<1>7. \A j \in DOMAIN c : /\ Aged(c)[j].snder = c[j].snder
                          /\ ~RunOut(Aged(c)[j]) => Aged(c)[j].left \in 0..Retran
  <2> SUFFICES ASSUME NEW j \in DOMAIN c
               PROVE  /\ Aged(c)[j].snder = c[j].snder
                      /\ ~RunOut(Aged(c)[j]) => Aged(c)[j].left \in 0..Retran
    OBVIOUS
  <2> DEFINE e == c[j]
             l == Aged(c)[j].left
  <2>1. e \in Entry /\ Aged(c)[j] = [e EXCEPT !.left = e.left - 1]
    BY <1>3
  <2> HIDE DEF e
  <2>2. Aged(c)[j].snder = e.snder /\ l = e.left - 1 /\ e.left \in 0..Retran
    BY <1>2, <2>1
  <2> HIDE DEF l
  <2>3. l \in Int /\ (~(l < 0) => l \in 0..Retran)
    BY <1>1, <2>2
  <2>4. ~RunOut(Aged(c)[j]) => Aged(c)[j].left \in 0..Retran
    BY <2>3 DEF l, RunOut
  <2> QED
    BY <2>2, <2>4 DEF e
<1>8. Distinct(c) => Distinct(Aged(c))
  <2>1. AdsAt(c) = DOMAIN c /\ AdsAt(Aged(c)) = DOMAIN c
    BY <1>4, <1>6, AllAds, EntriesAreWorn
  <2> QED
    BY <1>5, <2>1 DEF Distinct
<1> QED
  BY <1>4, <1>5, <1>6, <1>7, <1>8

\* Two places of the table do not hold one announcement.
LEMMA Places1 ==
    ASSUME IInv
    PROVE  \A i, k \in Index : \A j \in DOMAIN chain[i], l \in DOMAIN chain[k] :
               Ann(chain[i][j]) = Ann(chain[k][l]) => i = k /\ j = l
<1> SUFFICES ASSUME NEW i \in Index, NEW k \in Index, NEW j \in DOMAIN chain[i],
                    NEW l \in DOMAIN chain[k], Ann(chain[i][j]) = Ann(chain[k][l])
             PROVE  i = k /\ j = l
  OBVIOUS
<1>1. chain \in [Index -> Seq(Entry)]
  BY DEF IInv, Shape
<1>2. Ann(chain[i][j]).snder = chain[i][j].snder /\ Ann(chain[k][l]).snder = chain[k][l].snder
  BY <1>1, InTable
<1>3. Bucket[chain[i][j].snder] = i /\ Bucket[chain[k][l].snder] = k
  BY DEF IInv, TypeOK, Range
<1>4. i = k
  BY <1>2, <1>3
<1>5. j \in AdsAt(chain[i]) /\ l \in AdsAt(chain[i])
  BY <1>1, <1>4, InTable
<1> QED
  BY <1>4, <1>5 DEF IInv, OnePlace, Distinct

\* What is pending for the neighbours that stay up.
Left(down) == {a \in Pending : a.dst \notin down}

LEMMA TickInv ==
    ASSUME IInv, NEW down \in SUBSET valid, NEW adv \in BOOLEAN, HandleTimeOut(down, adv)
    PROVE  /\ IInv' /\ Queued \subseteq Queued'
           /\ (Queued' \ Queued) \cap Pending \subseteq Left(down)
           /\ Pending' = Left(down) \ Queued'
<1> DEFINE aged == [i \in Index |-> Aged(chain[i])]
           left == [i \in Index |-> RmByAddr(chain[i], down)]
           due == [i \in Index |-> {j \in left[i] : RunOut(aged[i][j])}]
           K == [i \in Index |-> Kept(aged[i], left[i])]
<1>1. /\ chain \in [Index -> Seq(Entry)] /\ outq \in Seq(Packet)
      /\ next \in [Sender -> Nat] /\ Self \in Sender /\ valid \subseteq Dst
  BY PendAssumption DEF IInv, Shape, TypeOK
<1>2. /\ chain' = [i \in Index |-> Only(aged[i], K[i])]
      /\ valid' = valid \ down /\ sent' = sent
      /\ spared' = {a \in spared : a.dst \notin down} \cup {a \in Queued : a.dst \in down}
      /\ cnt' = cnt - (Size(chain) - Size(chain'))
      /\ IF adv \/ down # {}
         THEN UseNumber(Self) /\ outq' = Again(Flood(outq, Self, {}), chain, due)
         ELSE UNCHANGED next /\ outq' = Again(outq, chain, due)
  BY DEF HandleTimeOut, Unlinked
<1>3. \A i \in Index :
          /\ aged[i] = Aged(chain[i]) /\ chain[i] \in Seq(Entry)
          /\ K[i] \subseteq DOMAIN chain[i] /\ due[i] \subseteq DOMAIN chain[i]
          /\ \A j \in K[i] : ~RunOut(aged[i][j])
          /\ K[i] \cap due[i] = {}
          /\ \A j \in DOMAIN chain[i] : j \in K[i] \cup due[i] <=> chain[i][j].dst \notin down
  BY <1>1 DEF RmByAddr, Kept
<1> HIDE DEF aged, left, due, K
<1>4. PICK q : /\ Grown(q) /\ outq' = Again(q, chain, due) /\ Counting
  <2>1. CASE adv \/ down # {}
    <3>1. UseNumber(Self) /\ outq' = Again(Flood(outq, Self, {}), chain, due)
      BY <1>2, <2>1
    <3>2. Counting
      BY <1>1, <3>1, UseNumberIs DEF IInv
    <3>3. Grown(Flood(outq, Self, {}))
      BY <1>1, <1>2, <3>1, FloodGrows
    <3> QED
      BY <3>1, <3>2, <3>3
  <2>2. CASE ~(adv \/ down # {})
    <3>1. UNCHANGED next /\ outq' = Again(outq, chain, due)
      BY <1>2, <2>2
    <3>2. Counting
      BY <1>1, <3>1 DEF Counting
    <3> QED
      BY <3>1, <3>2, SameList
  <2> QED
    BY <2>1, <2>2
<1>5. \A i \in Index : \A j \in DOMAIN chain[i] :
          /\ Ann(chain[i][j]) \in Pending /\ Ann(chain[i][j]) \in Key
          /\ Ann(chain[i][j]).dst = chain[i][j].dst
  BY <1>1, InTable, Names
<1>6. \A a \in Pending : a \in Key /\ a \notin Queued /\ ~Fresh(a) /\ a.seq < next[a.snder]
  <2> SUFFICES ASSUME NEW a \in Pending
               PROVE a \in Key /\ a \notin Queued /\ ~Fresh(a) /\ a.seq < next[a.snder]
    OBVIOUS
  <2>1. a \in Key /\ a \notin Queued /\ a.seq < next[a.snder]
    BY DEF IInv, TypeOK, OnePlace, Key
  <2>2. a.seq \in Nat /\ next[a.snder] \in Nat
    BY <1>1, <2>1 DEF Key
  <2> QED
    BY <2>1, <2>2 DEF Fresh
<1>7. \A a \in Pending : a \notin Anns(q)
  BY <1>4, <1>6 DEF Grown
<1>8. /\ outq' \in Seq(Packet)
      /\ \A a : a \in Queued' <=>
             a \in Anns(q) \/ \E i \in Index : \E j \in due[i] : a = Ann(chain[i][j])
      /\ Distinct(outq')
  <2> DEFINE N == Cardinality(Index)
  <2>1. N \in Nat /\ Index = 1..N
    BY Indices
  <2> HIDE DEF N
  <2>2. chain \in [1..N -> Seq(Entry)] /\ \A i \in 1..N : due[i] \in SUBSET DOMAIN chain[i]
    BY <1>1, <1>3, <2>1
  <2>3. q \in Seq(Packet) /\ Distinct(q)
    BY <1>4 DEF Grown
  <2>4. \A i, k \in 1..N : \A j \in due[i], l \in due[k] :
            Ann(chain[i][j]) = Ann(chain[k][l]) => i = k /\ j = l
    BY <1>3, <2>1, Places1
  <2>5. \A i \in 1..N : \A j \in due[i] : Ann(chain[i][j]) \notin Anns(q)
    BY <1>3, <1>5, <1>7, <2>1
  <2>6. /\ Again(q, chain, due) \in Seq(Packet)
        /\ \A a : a \in Anns(Again(q, chain, due)) <=>
               a \in Anns(q) \/ \E i \in 1..N : \E j \in due[i] : a = Ann(chain[i][j])
    <3>1. Again(q, chain, due) \in Seq(Packet) /\ AgainHas(N, chain, q, due)
      BY <2>1, <2>2, <2>3, AgainAnns
    <3> QED
      BY <3>1 DEF AgainHas
  <2>7. Distinct(Again(q, chain, due))
    BY <2>1, <2>2, <2>3, <2>4, <2>5, AgainAnns
  <2> QED
    BY <1>4, <2>1, <2>6, <2>7, Names
<1>9. \A i \in Index :
          /\ chain'[i] \in Seq(Entry) /\ Distinct(chain'[i])
          /\ Anns(chain'[i]) = {Ann(chain[i][j]) : j \in K[i]}
          /\ \A k \in DOMAIN chain'[i] : Bucket[chain'[i][k].snder] = i
  <2> TAKE i \in Index
  <2> DEFINE c == chain[i]
  <2>1. /\ c \in Seq(Entry) /\ Distinct(c) /\ \A j \in DOMAIN c : Bucket[c[j].snder] = i
        /\ K[i] \subseteq DOMAIN c
    BY <1>1, <1>3 DEF IInv, OnePlace, TypeOK, Range
  <2>2. chain'[i] = Only(Aged(c), K[i])
    BY <1>2, <1>3
  <2>3. \A j \in K[i] : ~RunOut(Aged(c)[j])
    BY <1>3
  <2> HIDE DEF c
  <2>4. /\ Aged(c) \in Seq(Worn) /\ K[i] \in SUBSET DOMAIN Aged(c) /\ Distinct(Aged(c))
        /\ \A j \in K[i] : /\ Aged(c)[j].left \in 0..Retran
                           /\ Aged(c)[j].snder = c[j].snder
                           /\ Ann(Aged(c)[j]) = Ann(c[j])
    BY <2>1, <2>3, AgedIs
  <2>5. /\ chain'[i] \in Seq(Entry) /\ Distinct(chain'[i])
        /\ \A k \in DOMAIN chain'[i] : \E j \in K[i] : chain'[i][k] = Aged(c)[j]
        /\ Anns(chain'[i]) = {Ann(Aged(c)[j]) : j \in K[i]}
    BY <2>2, <2>4, OnlyAnns
  <2>6. Anns(chain'[i]) = {Ann(c[j]) : j \in K[i]}
    BY <2>4, <2>5
  <2>7. \A k \in DOMAIN chain'[i] : Bucket[chain'[i][k].snder] = i
    BY <2>1, <2>4, <2>5
  <2> QED
    BY <2>5, <2>6, <2>7 DEF c
<1>10. chain' \in [Index -> Seq(Entry)]
  BY <1>2, <1>9
<1>11. \A a : a \in Pending' <=> \E i \in Index : \E j \in K[i] : a = Ann(chain[i][j])
  <2>1. \A i \in Index : Anns(chain'[i]) \subseteq Pending'
    BY <1>10, InTable, Names
  <2>2. \A a \in Pending' : \E i \in Index : a \in Anns(chain'[i])
    <3>1. \A i \in Index : \A j \in DOMAIN chain'[i] : Ann(chain'[i][j]) \in Anns(chain'[i])
      BY <1>10, InTable DEF Anns
    <3> QED
      BY <1>10, <3>1, InTable, Names
  <2>3. \A i \in Index : \A a : a \in Anns(chain'[i]) <=> \E j \in K[i] : a = Ann(chain[i][j])
    <3>1. \A i \in Index : Anns(chain'[i]) = {Ann(chain[i][j]) : j \in K[i]}
      BY <1>9
    <3> QED
      BY <3>1
  <2> SUFFICES ASSUME NEW a
               PROVE  a \in Pending' <=> \E i \in Index : \E j \in K[i] : a = Ann(chain[i][j])
    OBVIOUS
  <2>4. a \in Pending' <=> \E i \in Index : a \in Anns(chain'[i])
    BY <2>1, <2>2
  <2> QED
    BY <2>3, <2>4
<1>12. Queued \subseteq Queued'
  BY <1>4, <1>8 DEF Grown
<1>13. \A a \in Queued' : a \in Queued \/ Fresh(a) \/ a \in Left(down)
  BY <1>3, <1>4, <1>5, <1>8 DEF Grown, Left
<1>14. (Queued' \ Queued) \cap Pending \subseteq Left(down)
  BY <1>6, <1>13
<1>15. Pending' = Left(down) \ Queued'
  <2>1. \A a \in Pending' : a \in Left(down) /\ a \notin Queued'
    <3> SUFFICES ASSUME NEW i \in Index, NEW j \in K[i]
                 PROVE  Ann(chain[i][j]) \in Left(down) /\ Ann(chain[i][j]) \notin Queued'
      BY <1>11
    <3>1. Ann(chain[i][j]) \in Left(down)
      BY <1>3, <1>5 DEF Left
    <3>2. \A k \in Index : \A l \in due[k] : Ann(chain[k][l]) # Ann(chain[i][j])
      BY <1>3, Places1
    <3>3. Ann(chain[i][j]) \notin Anns(q)
      BY <1>3, <1>5, <1>7
    <3> QED
      BY <1>8, <3>1, <3>2, <3>3
  <2>2. ASSUME NEW a \in Left(down), a \notin Queued' PROVE a \in Pending'
    <3>1. PICK i \in Index : \E j \in DOMAIN chain[i] : a = Ann(chain[i][j])
      BY <1>1, InTable, Names DEF Left
    <3>2. PICK j \in DOMAIN chain[i] : a = Ann(chain[i][j])
      BY <3>1
    <3>3. chain[i][j].dst \notin down
      BY <1>5, <3>2 DEF Left
    <3>4. j \in K[i]
      BY <1>3, <1>8, <2>2, <3>2, <3>3
    <3> QED
      BY <1>11, <3>2, <3>4
  <2> QED
    BY <2>1, <2>2
<1>16. Shape'
  BY <1>4, <1>8, <1>10 DEF Shape, Counting
<1>17. cnt' \in Nat /\ cnt' >= Size(chain')
  <2>1. Size(chain) \in Nat /\ Size(chain') \in Nat
    BY <1>1, <1>10, Indices, PlacesFinite
  <2> QED
    BY <1>2, <2>1 DEF IInv, TypeOK
<1>18. TypeOK'
  <2>1. \A a \in Queued' \cup Pending' : a \in Key /\ a.seq < next'[a.snder]
    <3> SUFFICES ASSUME NEW a \in Queued \cup Pending
                 PROVE  a \in Key /\ a.seq < next'[a.snder]
      BY <1>13, <1>15 DEF Fresh, Left
    <3>1. a \in Key /\ a.seq < next[a.snder]
      BY DEF IInv, TypeOK, Key
    <3>2. next[a.snder] \in Nat /\ next'[a.snder] \in Nat /\ next[a.snder] <= next'[a.snder]
          /\ a.seq \in Nat
      BY <1>1, <1>4, <3>1 DEF Counting, Key
    <3> QED
      BY <3>1, <3>2
  <2>2. valid' \subseteq Dst /\ sent' \subseteq Key
    BY <1>1, <1>2 DEF IInv, TypeOK, Key
  <2>3. \A i \in Index : \A e \in Range(chain'[i]) :
            Bucket[e.snder] = i /\ e.left \in 0..Retran
    <3>1. \A i \in Index : \A k \in DOMAIN chain'[i] : chain'[i][k].left \in 0..Retran
      <4>1. \A i \in Index : \A k \in DOMAIN chain'[i] : chain'[i][k] \in Entry
        BY <1>10
      <4>2. \A e \in Entry : e.left \in 0..Retran
        BY DEF Entry
      <4> QED
        BY <4>1, <4>2
    <3> QED
      BY <1>9, <3>1 DEF Range
  <2> QED
    BY <1>17, <2>1, <2>2, <2>3 DEF TypeOK, Key
<1>19. OnePlace'
  BY <1>8, <1>9, <1>15 DEF OnePlace
<1>20. DownOnlySpared'
  <2>1. \A a \in Queued : a.dst \in valid' \/ a \in spared'
    BY <1>2 DEF IInv, DownOnlySpared
  <2>2. \A a \in Left(down) : a.dst \in valid' \/ a \in spared'
    BY <1>2 DEF IInv, DownOnlySpared, Left
  <2> QED
    BY <1>13, <1>15, <2>1, <2>2 DEF DownOnlySpared, Fresh
<1> QED
  BY <1>12, <1>14, <1>15, <1>16, <1>18, <1>19, <1>20 DEF IInv


-----------------------------------------------------------------------------
(* The handlers.                                                           *)

\* What the invariant needs of the answer that came in.
LEMMA SentAre ==
    ASSUME IInv, NEW a \in sent
    PROVE  /\ a \in Key /\ a.snder \in Sender
           /\ a = [snder |-> a.snder, seq |-> a.seq, dst |-> a.dst]
BY DEF IInv, TypeOK, Key

\* A handler leaves the list and the table with the two facts that PendSet
\* promises, whatever it takes out of the table.
Kind == /\ IInv'
        /\ Queued \subseteq Queued' /\ (Queued' \ Queued) \cap Pending = {}

LEMMA KindIs ==
    ASSUME IInv, Grown(outq'), Counting, Less,
           valid \subseteq valid', valid' \subseteq Dst, UNCHANGED <<sent, spared>>
    PROVE  Kind
<1>1. IInv' /\ (Queued' \ Queued) \cap Pending = {}
  BY HandleInv
<1>2. Queued \subseteq Queued'
  BY Names DEF Grown
<1> QED
  BY <1>1, <1>2 DEF Kind

LEMMA FloodLocalInv ==
    ASSUME IInv, FloodLocal
    PROVE  Kind
<1>1. /\ UNCHANGED <<chain, cnt, valid, sent, spared>> /\ UseNumber(Self)
      /\ outq' = Flood(outq, Self, {}) /\ Self \in Sender
  BY PendAssumption DEF FloodLocal
<1>2. valid \subseteq valid' /\ valid' \subseteq Dst
  BY <1>1 DEF IInv, TypeOK
<1>3. Grown(outq')
  BY <1>1, <1>2, FloodGrows
<1>4. Counting /\ Less
  BY <1>1, UseNumberIs, SameTable DEF IInv
<1> QED
  BY <1>1, <1>2, <1>3, <1>4, KindIs

LEMMA RecvNewAdInv ==
    ASSUME IInv, NEW s \in Sender, NEW d \in Dst, RecvNewAd(s, d)
    PROVE  Kind
<1>1. /\ UNCHANGED <<chain, cnt, sent, spared>> /\ UseNumber(s)
      /\ valid' = valid \cup ({s} \cap Dst)
      /\ outq' = <<Answer(d)>> \o Flood(outq, s, {d}) \/ outq' = <<Answer(d)>> \o outq
  BY DEF RecvNewAd
<1>2. valid \subseteq valid' /\ valid' \subseteq Dst
  BY <1>1 DEF IInv, TypeOK
<1>3. Grown(Flood(outq, s, {d})) /\ Grown(outq)
  BY <1>1, <1>2, FloodGrows, SameList
<1>4. Grown(outq')
  BY <1>1, <1>3, AnswerInFront
<1>5. Counting /\ Less
  BY <1>1, UseNumberIs, SameTable DEF IInv
<1> QED
  BY <1>1, <1>2, <1>4, <1>5, KindIs

LEMMA SameNext ==
    ASSUME IInv, UNCHANGED next
    PROVE  Counting
BY DEF IInv, Shape, Counting

LEMMA RecvOldAdInv ==
    ASSUME IInv, NEW d \in Dst, RecvOldAd(d)
    PROVE  Kind
<1>1. /\ UNCHANGED <<chain, cnt, next, valid, sent, spared>>
      /\ outq' = <<Answer(d)>> \o outq
  BY DEF RecvOldAd
<1>2. valid \subseteq valid' /\ valid' \subseteq Dst
  BY <1>1 DEF IInv, TypeOK
<1>3. Grown(outq')
  BY <1>1, SameList, AnswerInFront
<1> QED
  BY <1>1, <1>2, <1>3, SameNext, SameTable, KindIs

LEMMA RecvAckInv ==
    ASSUME IInv, NEW a \in sent, RecvAck(a.snder, a.seq, a.dst)
    PROVE  Kind
<1>1. /\ UNCHANGED <<outq, next, valid, sent, spared>>
      /\ RemovePdAck(a.snder, a.seq, a.dst) /\ a.snder \in Sender
  BY SentAre DEF RecvAck
<1>2. valid \subseteq valid' /\ valid' \subseteq Dst
  BY <1>1 DEF IInv, TypeOK
<1>3. Grown(outq') /\ Counting
  BY <1>1, SameList, SameNext
<1>4. Less
  BY <1>1, RemoveIs
<1> QED
  BY <1>1, <1>2, <1>3, <1>4, KindIs

LEMMA RecvSeqInv ==
    ASSUME IInv, NEW s \in Sender, NEW d \in Dst, RecvSeq(s, d)
    PROVE  Kind
<1>1. /\ UNCHANGED <<valid, sent, spared>> /\ RemovePdAck(s, 0, d)
      /\ \/ UNCHANGED <<outq, next>>
         \/ UseNumber(s) /\ outq' = Flood(outq, s, {})
  BY DEF RecvSeq
<1>2. valid \subseteq valid' /\ valid' \subseteq Dst
  BY <1>1 DEF IInv, TypeOK
<1>3. Grown(outq') /\ Counting
  <2>1. CASE UNCHANGED <<outq, next>>
    BY <2>1, SameList, SameNext
  <2>2. CASE UseNumber(s) /\ outq' = Flood(outq, s, {})
    BY <1>2, <2>2, FloodGrows, UseNumberIs DEF IInv
  <2> QED
    BY <1>1, <2>1, <2>2
<1>4. Less
  BY <1>1, RemoveIs
<1> QED
  BY <1>1, <1>2, <1>3, <1>4, KindIs

LEMMA SameInv ==
    ASSUME IInv, UNCHANGED vars
    PROVE  IInv'
<1>1. Shape'
  BY DEF IInv, Shape, vars
<1>2. TypeOK'
  BY DEF IInv, TypeOK, Queued, AdsAt, Pending, Size, Places, vars
<1>3. OnePlace'
  BY DEF IInv, OnePlace, Queued, AdsAt, Pending, Distinct, vars
<1>4. DownOnlySpared'
  BY DEF IInv, DownOnlySpared, Queued, AdsAt, Pending, vars
<1> QED
  BY <1>1, <1>2, <1>3, <1>4 DEF IInv

LEMMA InitInv ==
    ASSUME Init
    PROVE  IInv /\ Queued = {} /\ Pending = {}
<1>1. Queued = {} /\ AdsAt(outq) = {}
  BY DEF Init, Queued, AdsAt
<1>2. Pending = {}
  BY DEF Init, Pending, Range
<1>3. Shape
  <2>1. next \in [Sender -> Nat]
    BY DEF Init
  <2>2. outq \in Seq(Packet)
    BY DEF Init
  <2>3. chain \in [Index -> Seq(Entry)]
    BY DEF Init
  <2> QED
    BY <2>1, <2>2, <2>3 DEF Shape
<1>4. Places(chain) = {} /\ Size(chain) = 0
  <2>1. Places(chain) = {}
    BY DEF Init, Places
  <2> QED
    BY <2>1, FS_EmptySet DEF Size
<1>5. TypeOK
  <2>1. \A i \in Index : Range(chain[i]) = {}
    BY DEF Init, Range
  <2>2. valid \subseteq Dst /\ sent = {} /\ cnt = 0
    BY DEF Init
  <2> QED
    BY <1>1, <1>2, <1>4, <2>1, <2>2 DEF TypeOK
<1>6. OnePlace
  BY <1>1 DEF Init, OnePlace, Distinct, AdsAt
<1>7. DownOnlySpared
  BY <1>1, <1>2 DEF DownOnlySpared
<1> QED
  BY <1>1, <1>2, <1>3, <1>5, <1>6, <1>7 DEF IInv

LEMMA StepInv ==
    ASSUME IInv, [Next]_vars
    PROVE  IInv'
<1>1. CASE FloodLocal
  BY <1>1, FloodLocalInv DEF Kind
<1>2. CASE SendRdInfo
  BY <1>2, SendInv
<1>3. ASSUME NEW d \in Dst, RecvOldAd(d) PROVE IInv'
  BY <1>3, RecvOldAdInv DEF Kind
<1>4. ASSUME NEW d \in Dst, NEW s \in Sender, RecvNewAd(s, d) PROVE IInv'
  BY <1>4, RecvNewAdInv DEF Kind
<1>5. ASSUME NEW d \in Dst, NEW s \in Sender, RecvSeq(s, d) PROVE IInv'
  BY <1>5, RecvSeqInv DEF Kind
<1>6. ASSUME NEW a \in sent, RecvAck(a.snder, a.seq, a.dst) PROVE IInv'
  BY <1>6, RecvAckInv DEF Kind
<1>7. ASSUME NEW down \in SUBSET valid, NEW adv \in BOOLEAN, HandleTimeOut(down, adv)
      PROVE  IInv'
  BY <1>7, TickInv
<1>8. CASE UNCHANGED vars
  BY <1>8, SameInv
<1> QED
  BY <1>1, <1>2, <1>3, <1>4, <1>5, <1>6, <1>7, <1>8 DEF Next, Tick

\* The list, the table and its counter keep their shape, every announcement is
\* in one place, and what is queued or pending for a neighbour that is down was
\* in the list when it went down.
THEOREM Inductive == Spec => []IInv
<1>1. Init => IInv
  BY InitInv
<1>2. IInv /\ [Next]_vars => IInv'
  BY StepInv
<1> QED
  BY <1>1, <1>2, PTL DEF Spec

\* Entries hang in the chain of their sender with a timer that has not run out,
\* numbers were handed out, and entr_cnt is never below the number of entries.
THEOREM Types == Spec => []TypeOK
<1>1. IInv => TypeOK
  BY DEF IInv
<1> QED
  BY <1>1, Inductive, PTL

\* No announcement is twice in the list and the table together: relinking the
\* entries of the chains, and queueing again what ran out, doubles none.
THEOREM OnePlaceAlways == Spec => []OnePlace
<1>1. IInv => OnePlace
  BY DEF IInv
<1> QED
  BY <1>1, Inductive, PTL

\* For a neighbour that is down there is only what was queued when it went down.
THEOREM DownOnlySparedAlways == Spec => []DownOnlySpared
<1>1. IInv => DownOnlySpared
  BY DEF IInv
<1> QED
  BY <1>1, Inductive, PTL


-----------------------------------------------------------------------------
(* List and chains implement the two sets of PendSet.                      *)

\* An entry that is taken for the one that was answered.
Other(a) ==
    /\ Confusable
    /\ \E x \in Pending : /\ x # a /\ x.seq = a.seq /\ x.dst = a.dst
                          /\ Pending' = Pending \ {x}

\* The walk of remove_pd_ack stops at the entry that was answered, at one that is
\* taken for it, or finds that there is none.
LEMMA RemoveKeeps ==
    ASSUME IInv, NEW a \in sent, RemovePdAck(a.snder, a.seq, a.dst)
    PROVE  Pending' = Pending \ {a} \/ Other(a)
<1> DEFINE s == a.snder
           b == Bucket[s]
           c == chain[b]
           found == Found(c, s, a.seq, a.dst)
<1>1. /\ a \in Key /\ s \in Sender /\ b \in Index
      /\ a = [snder |-> a.snder, seq |-> a.seq, dst |-> a.dst]
      /\ chain \in [Index -> Seq(Entry)]
  BY SentAre, Indices DEF IInv, Shape
<1>2. \A i \in Index : \A j \in DOMAIN chain[i] :
          /\ Ann(chain[i][j]) = [snder |-> chain[i][j].snder, seq |-> chain[i][j].seq,
                                 dst |-> chain[i][j].dst]
          /\ chain[i][j].snder = Ann(chain[i][j]).snder
          /\ chain[i][j].seq = Ann(chain[i][j]).seq
          /\ chain[i][j].dst = Ann(chain[i][j]).dst
          /\ Bucket[chain[i][j].snder] = i
  BY <1>1, InTable DEF Ann, IInv, TypeOK, Range
<1>3. \A x : x \in Pending <=> \E i \in Index : \E j \in DOMAIN chain[i] : x = Ann(chain[i][j])
  BY <1>1, InTable, Names
<1>4. CASE UNCHANGED chain /\ found = {}
  <2>1. Pending' = Pending
    BY <1>4 DEF Pending
  <2>2. a \notin Pending
    <3> SUFFICES ASSUME NEW i \in Index, NEW j \in DOMAIN chain[i], a = Ann(chain[i][j])
                 PROVE  FALSE
      BY <1>3
    <3>0. /\ chain[i][j].snder = Ann(chain[i][j]).snder
          /\ chain[i][j].seq = Ann(chain[i][j]).seq
          /\ chain[i][j].dst = Ann(chain[i][j]).dst
          /\ Bucket[chain[i][j].snder] = i
      BY <1>2
    <3>1. /\ chain[i][j].snder = s /\ chain[i][j].seq = a.seq /\ chain[i][j].dst = a.dst
          /\ i = b
      BY <3>0
    <3>2. j \in DOMAIN c /\ j \in 1..j
      <4>1. chain[i] \in Seq(Entry)
        BY <1>1
      <4>2. j \in Nat /\ j >= 1
        BY <4>1
      <4>3. j \in 1..j
        BY <4>2
      <4>4. i = b
        BY <3>1
      <4> HIDE DEF b
      <4>5. j \in DOMAIN chain[b]
        BY <4>4
      <4> QED
        BY <4>3, <4>5
    <3>3. j \in found
      BY <3>1, <3>2 DEF Found
    <3> QED
      BY <1>4, <3>3
  <2> QED
    BY <2>1, <2>2
<1>5. ASSUME NEW at \in found,
             \A i \in Index \ {b} : chain'[i] = chain[i],
             Anns(chain'[b]) = {Ann(c[j]) : j \in DOMAIN c \ {at}},
             chain' \in [Index -> Seq(Entry)]
      PROVE  Pending' = Pending \ {a} \/ Other(a)
  <2> DEFINE y == Ann(c[at])
  <2>1. at \in DOMAIN c /\ c[at].seq = a.seq /\ c[at].dst = a.dst
    BY <1>5 DEF Found
  <2>2. PICK i \in 1..at : c[i].snder = s
    BY <1>5 DEF Found
  <2>3. c \in Seq(Entry) /\ i \in DOMAIN c /\ i \in Nat /\ at \in Nat /\ i <= at
    BY <1>1, <2>1, <2>2
  <2>4. ASSUME c[at].snder # s PROVE Confusable
    <3>1. i < at
      BY <2>2, <2>3, <2>4
    <3>2. [snder |-> c[i].snder, seq |-> c[at].seq, dst |-> c[at].dst] \in sent
      BY <1>1, <2>1, <2>2
    <3> QED
      BY <1>1, <2>1, <2>2, <2>3, <2>4, <3>1, <3>2 DEF Confusable
  <2>5. /\ y = [snder |-> c[at].snder, seq |-> c[at].seq, dst |-> c[at].dst]
        /\ c[at].snder = y.snder /\ y.seq = a.seq /\ y.dst = a.dst /\ y \in Pending
    BY <1>1, <1>2, <1>3, <2>1
  <2> HIDE DEF y
  <2>6. \A x : x \in Pending' <=> \E k \in Index : x \in Anns(chain'[k])
    <3> HIDE DEF found, c, b
    <3>0. chain' \in [Index -> Seq(Entry)]
      BY <1>5
    <3>1. \A k \in Index : Anns(chain'[k]) \subseteq Pending'
      BY <3>0, InTable, Names
    <3>2. \A k \in Index : \A j \in DOMAIN chain'[k] : Ann(chain'[k][j]) \in Anns(chain'[k])
      BY <3>0, InTable DEF Anns
    <3>3. \A x \in Pending' : \E k \in Index : x \in Anns(chain'[k])
      BY <3>0, <3>2, InTable, Names
    <3> QED
      BY <3>1, <3>3
  <2>7. \A k \in Index \ {b} : \A x :
            x \in Anns(chain'[k]) <=> \E j \in DOMAIN chain[k] : x = Ann(chain[k][j])
    <3>1. \A k \in Index : AdsAt(chain[k]) = DOMAIN chain[k]
      BY <1>1, AllAds, EntriesAreWorn
    <3> QED
      BY <1>5, <3>1 DEF Anns
  <2>8. \A k \in Index : \A j \in DOMAIN chain[k] : Ann(chain[k][j]) = y => k = b /\ j = at
    BY <1>1, <2>1, Places1 DEF y
  <2>9. ASSUME NEW x PROVE x \in Pending' <=> x \in Pending \ {y}
    <3>1. ASSUME x \in Pending' PROVE x \in Pending \ {y}
      <4>1. PICK k \in Index : x \in Anns(chain'[k])
        BY <2>6, <3>1
      <4>2. CASE k = b
        <5>1. PICK j \in DOMAIN c \ {at} : x = Ann(c[j])
          BY <1>5, <4>1, <4>2
        <5> QED
          BY <1>1, <1>3, <2>8, <5>1
      <4>3. CASE k # b
        <5>1. PICK j \in DOMAIN chain[k] : x = Ann(chain[k][j])
          BY <2>7, <4>1, <4>3
        <5> QED
          BY <1>3, <2>8, <4>3, <5>1
      <4> QED
        BY <4>2, <4>3
    <3>2. ASSUME x \in Pending, x # y PROVE x \in Pending'
      <4>1. PICK k \in Index : \E j \in DOMAIN chain[k] : x = Ann(chain[k][j])
        BY <1>3, <3>2
      <4>2. PICK j \in DOMAIN chain[k] : x = Ann(chain[k][j])
        BY <4>1
      <4>3. CASE k = b
        <5>1. j \in DOMAIN c \ {at}
          BY <3>2, <4>2, <4>3 DEF y
        <5>2. x \in Anns(chain'[b])
          BY <1>5, <4>2, <4>3, <5>1
        <5> QED
          BY <1>1, <2>6, <5>2
      <4>4. CASE k # b
        BY <2>6, <2>7, <4>2, <4>4
      <4> QED
        BY <4>3, <4>4
    <3> QED
      BY <3>1, <3>2
  <2>10. Pending' = Pending \ {y}
    BY <2>9
  <2>11. CASE c[at].snder = s
    BY <1>1, <2>5, <2>10, <2>11
  <2>12. CASE c[at].snder # s
    BY <2>4, <2>5, <2>10, <2>12 DEF Other
  <2> QED
    BY <2>11, <2>12
<1>6. \/ UNCHANGED chain /\ found = {}
      \/ \E at \in found : /\ \A i \in Index \ {b} : chain'[i] = chain[i]
                           /\ Anns(chain'[b]) = {Ann(c[j]) : j \in DOMAIN c \ {at}}
  BY <1>1, RemoveIs
<1>7. chain' \in [Index -> Seq(Entry)]
  BY <1>1, RemoveIs DEF Less
<1> HIDE DEF found, c, b
<1> QED
  BY <1>4, <1>5, <1>6, <1>7

LEMMA HandleIs ==
    ASSUME Kind, Pending' = Pending \ answer'
    PROVE  PS!Next
BY DEF Kind, PS!Next, PS!Handle, PS!Grows

\* A handler that takes nothing out of the table answers nothing.
LEMMA QuietIs ==
    ASSUME Kind, UNCHANGED chain, answer' = {}
    PROVE  PS!Next
<1>1. Pending' = Pending
  BY DEF Pending
<1> QED
  BY <1>1, HandleIs

\* The answer of a neighbour takes out what it answers, or what is taken for it.
LEMMA AnsweredIs ==
    ASSUME IInv, Kind, NEW s, NEW q, NEW d,
           Answers(s, q, d), RemovePdAck(s, q, d)
    PROVE  PS!Next \/ Mistaken
<1> DEFINE a == [snder |-> s, seq |-> q, dst |-> d]
<1>1. answer' = {a} /\ a \in sent
  BY DEF Answers
<1>2. a.snder = s /\ a.seq = q /\ a.dst = d
  OBVIOUS
<1> HIDE DEF a
<1>3. RemovePdAck(a.snder, a.seq, a.dst)
  BY <1>2
<1>4. Pending' = Pending \ {a} \/ Other(a)
  BY <1>1, <1>3, RemoveKeeps
<1>5. CASE Other(a)
  <2>1. PS!Grows({})
    BY DEF Kind, PS!Grows
  <2> QED
    BY <1>1, <1>5, <2>1 DEF Other, Mistaken
<1> QED
  BY <1>1, <1>4, <1>5, HandleIs

LEMMA SendIs ==
    ASSUME IInv, SendRdInfo
    PROVE  PS!Next
BY SendInv DEF SendRdInfo, PS!Next, PS!Send

LEMMA TickIs ==
    ASSUME IInv, NEW down \in SUBSET valid, NEW adv \in BOOLEAN, HandleTimeOut(down, adv)
    PROVE  PS!Next
<1> DEFINE addrs == {a.dst : a \in Pending}
           now == down \cap addrs
           left == {a \in Pending : a.dst \notin now}
<1>1. left = Left(down)
  BY DEF Left
<1>2. /\ Queued \subseteq Queued' /\ (Queued' \ Queued) \cap Pending \subseteq left
      /\ Pending' = left \ Queued'
  BY <1>1, TickInv
<1>3. answer' = {}
  BY DEF HandleTimeOut
<1>4. now \in SUBSET addrs
  OBVIOUS
<1>5. PS!Tick
  BY <1>2, <1>3, <1>4 DEF PS!Tick, PS!Grows
<1> QED
  BY <1>5 DEF PS!Next

LEMMA StepIs ==
    ASSUME IInv, [Next]_vars
    PROVE  [PS!Next \/ Mistaken]_<<Queued, Pending, answer>>
<1>1. CASE FloodLocal
  BY <1>1, FloodLocalInv, QuietIs DEF FloodLocal
<1>2. CASE SendRdInfo
  BY <1>2, SendIs
<1>3. ASSUME NEW d \in Dst, RecvOldAd(d) PROVE PS!Next
  BY <1>3, RecvOldAdInv, QuietIs DEF RecvOldAd
<1>4. ASSUME NEW d \in Dst, NEW s \in Sender, RecvNewAd(s, d) PROVE PS!Next
  BY <1>4, RecvNewAdInv, QuietIs DEF RecvNewAd
<1>5. ASSUME NEW d \in Dst, NEW s \in Sender, RecvSeq(s, d) PROVE PS!Next \/ Mistaken
  <2>1. Kind
    BY <1>5, RecvSeqInv
  <2>2. Answers(s, 0, d) /\ RemovePdAck(s, 0, d)
    BY <1>5 DEF RecvSeq
  <2> QED
    BY <2>1, <2>2, AnsweredIs
<1>6. ASSUME NEW a \in sent, RecvAck(a.snder, a.seq, a.dst) PROVE PS!Next \/ Mistaken
  <2>1. Kind
    BY <1>6, RecvAckInv
  <2>2. Answers(a.snder, a.seq, a.dst) /\ RemovePdAck(a.snder, a.seq, a.dst)
    BY <1>6 DEF RecvAck
  <2> QED
    BY <2>1, <2>2, AnsweredIs
<1>7. ASSUME NEW down \in SUBSET valid, NEW adv \in BOOLEAN, HandleTimeOut(down, adv)
      PROVE  PS!Next
  BY <1>7, TickIs
<1>8. CASE UNCHANGED vars
  BY <1>8 DEF vars, Queued, AdsAt, Pending
<1> QED
  BY <1>1, <1>2, <1>3, <1>4, <1>5, <1>6, <1>7, <1>8 DEF Next, Tick

\* List, chains, walks and timers do what the queue and the pending set of PendSet
\* do: an announcement leaves the table only for its own answer, with its
\* neighbour, or to be queued again; or, where senders can be confused, for the
\* answer to one of the same number from the same neighbour.
THEOREM Refines == Spec => KeepsPending
<1>1. Init => PS!Init
  <2> SUFFICES ASSUME Init PROVE PS!Init
    OBVIOUS
  <2>1. Queued = {} /\ Pending = {} /\ answer = {}
    BY InitInv DEF Init
  <2> QED
    BY <2>1 DEF PS!Init
<1>2. IInv /\ [Next]_vars => [PS!Next \/ Mistaken]_<<Queued, Pending, answer>>
  BY StepIs
<1> QED
  BY <1>1, <1>2, Inductive, PTL DEF Spec, KeepsPending
=============================================================================
