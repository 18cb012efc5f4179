------------------------- MODULE LsaReliableProofs --------------------------
(***************************************************************************)
(* Proofs of what holds while no node crashes: numbers come from their     *)
(* owners, ACKs tell the truth, and flooding is reliable.                  *)
(*                                                                         *)
(* What the announcements carry: two with one number are the same, later   *)
(* ones have more objects, and so the tables of the nodes implement the    *)
(* directory of module LsaDirectory, and the prefix trees go with them.    *)
(*                                                                         *)
(* Every step is first shown to have one of four effects (Quiet, Own,      *)
(* Learn, Jump); the invariants and the refinement are then proved of the  *)
(* effects.                                                                *)
(***************************************************************************)
EXTENDS LsaFloodProofs

NoCrash == \A n \in Node : MaxBoot[n] <= 1

\* Packet p is in flight, queued or pending somewhere.
Around(p) == p \in net \/ \E k \in Node : p \in outq[k] \/ p \in pd[k]

\* Node n has number q of the LSA of s, or a later one.
Got(n, s, q) == lsa[n][s].st # "none" /\ q <= lsa[n][s].seq

\* A packet has a number its owner has used; an ACK has a number its source
\* has stored, and a SEQ a positive one.
Mail(p) ==
    /\ p.seq < lsa[p.snder][p.snder].seq
    /\ p.type = "ack" => Got(p.src, p.snder, p.seq)
    /\ p.type = "seq" => p.seq > 0

\* What a node stores of another one has a number the owner has used.
Views ==
    \A n, s \in Node :
        n # s /\ lsa[n][s].st # "none" => lsa[n][s].seq < lsa[s][s].seq

\* A node that does not run yet knows nothing; no entry, no objects.
Asleep ==
    \A n, s \in Node :
        /\ boots[n] = 0 => lsa[n][s].st = "none"
        /\ lsa[n][s].st = "none" => lsa[n][s].objs = {}

Honest == Asleep /\ Views /\ \A p \in Packet : Around(p) => Mail(p)

-----------------------------------------------------------------------------
(* The effects of a step.                                                  *)

\* The number and the objects node n has of s stay as they are.
SameView(n, s) ==
    /\ lsa'[n][s].seq = lsa[n][s].seq
    /\ lsa'[n][s].objs = lsa[n][s].objs
    /\ lsa'[n][s].st = "none" <=> lsa[n][s].st = "none"

\* Node k holds its own announcement q for d.
Holds(k, d, q) == \E p \in Ads(k) : p.snder = k /\ p.dst = d /\ p.seq = q

\* Nothing of k's own is let go before its destination has it, unless it is
\* not the last one, or another sender's entries are in the same chain.
Keeps(k) ==
    Alone(k) => \A d \in Node, q \in Nat :
        Holds(k, d, q) => \/ Holds(k, d, q)'
                          \/ Got(d, k, q)
                          \/ q + 1 < lsa[k][k].seq

\* No number and no object changes; at most answers are new.
Quiet ==
    /\ boots' = boots /\ nb' = nb
    /\ \A k, t \in Node : SameView(k, t)
    /\ \A p \in Packet : Around(p)' => \/ Around(p)
                                       \/ p.type # "ad" /\ Mail(p)
    /\ \A k \in Node : Keeps(k)

\* Node n announces its LSA, and goes on to the next number.
Own(n) ==
    /\ boots'[n] > 0 /\ \A k \in Node : k # n => boots'[k] = boots[k]
    /\ \A k \in Node : k # n => nb'[k] = nb[k]
    /\ ~Expiring => nb'[n] = Nbr[n] \/ (boots[n] > 0 /\ nb'[n] = nb[n])
    /\ \A k, t \in Node : k # n \/ t # n => SameView(k, t)
    /\ lsa'[n][n].seq = lsa[n][n].seq + 1
    /\ lsa'[n][n].st = "valid"
    /\ lsa[n][n].objs \subseteq lsa'[n][n].objs
    /\ \A p \in Packet : Around(p)' =>
          \/ Around(p)
          \/ /\ p.type = "ad" /\ p.snder = n /\ p.seq = lsa[n][n].seq
             /\ p.links = lsa'[n][n].links /\ p.objs = lsa'[n][n].objs
    /\ \A k \in Node : k # n => Keeps(k)
    /\ \A d \in nb'[n], q \in Nat : q = lsa[n][n].seq => Holds(n, d, q)'

\* The receiver of announcement m stores it, relays it and acknowledges it.
Learn(m) ==
    LET n == m.dst
        s == m.snder
    IN  /\ m \in net /\ m.type = "ad" /\ n # s
        /\ boots' = boots /\ \A k \in Node : nb[k] \subseteq nb'[k]
        /\ boots[n] > 0
        /\ \A k, t \in Node : k # n \/ t # s => SameView(k, t)
        /\ lsa[n][s].st = "none" \/ lsa[n][s].seq < m.seq
        /\ lsa'[n][s].st = "valid" /\ lsa'[n][s].seq = m.seq
        /\ lsa'[n][s].objs = m.objs
        /\ \A p \in Packet : Around(p)' =>
              \/ Around(p)
              \/ /\ p.type = "ad" /\ p.snder = s /\ p.seq = m.seq
                 /\ p.links = m.links /\ p.objs = m.objs
              \/ p.type = "ack" /\ p.src = n /\ p.snder = s /\ p.seq = m.seq
        /\ \A k \in Node : Keeps(k)

\* The receiver of the SEQ m moves the number of its copy on.
Jump(m) ==
    LET n == m.dst
        s == m.snder
    IN  /\ m \in net /\ n # s
        /\ boots' = boots /\ nb' = nb
        /\ \A k, t \in Node : k # n \/ t # s => SameView(k, t)
        /\ lsa[n][s].st # "none" /\ lsa'[n][s].st # "none"
        /\ lsa[n][s].seq < m.seq /\ lsa'[n][s].seq = m.seq
        /\ lsa'[n][s].objs = lsa[n][s].objs
        /\ \A p \in Packet : Around(p)' => Around(p)
        /\ \A k \in Node : Keeps(k)

-----------------------------------------------------------------------------
(* Every step has one of the effects.                                      *)

\* A node whose own announcements all stay keeps them.
LEMMA KeepsAll ==
    ASSUME NEW k \in Node, \A p \in Ads(k) : p.snder = k => p \in outq'[k] \cup pd'[k]
    PROVE  Keeps(k)
BY DEF Keeps, Holds, Ads

\* A start: the number goes from 0 to 1.
LEMMA EffectBoot ==
    ASSUME NoCrash, IType, NumbersOK, Honest, NEW n \in Node, Boot(n)
    PROVE  Own(n)
<1> DEFINE own == LocalLsa(0, Nbr[n], files[n])
           db  == [[s \in Node |-> NoLsa] EXCEPT ![n] = own]
           row == [db EXCEPT ![n] = Bump(own)]
           new == Flood(n, n, own, Nbr[n], {})
<1>1. boots[n] = 0
  <2>1. boots[n] \in Nat /\ boots[n] < MaxBoot[n] /\ MaxBoot[n] <= 1
    BY DEF Boot, NoCrash, IType, TypeOK
  <2>2. MaxBoot[n] \in Nat
    BY FloodAssumption
  <2>3. QED
    BY <2>1, <2>2
<1>2. /\ lsa' = [lsa EXCEPT ![n] = row] /\ outq' = [outq EXCEPT ![n] = new]
      /\ pd' = [pd EXCEPT ![n] = {}] /\ boots' = [boots EXCEPT ![n] = @ + 1]
      /\ nb' = [nb EXCEPT ![n] = Nbr[n]] /\ net' = net
  BY DEF Boot
<1>3. Nbr[n] \in SUBSET Node /\ n \notin Nbr[n] /\ files[n] \in SUBSET Obj
  BY FloodAssumption, NodeTypes
<1>4. /\ own \in Lsa /\ own.seq = 0 /\ own.st = "valid" /\ own.ttl > 0
      /\ own.links = Nbr[n] /\ own.objs = files[n]
  BY <1>3, LocalLsaType, FloodAssumption DEF LocalLsa
<1>5. /\ Bump(own).seq = 1 /\ Bump(own).st = "valid"
      /\ Bump(own).links = own.links /\ Bump(own).objs = own.objs
  BY <1>4 DEF Bump, Lsa
<1> HIDE DEF own
<1>6. /\ row[n] = Bump(own) /\ \A s \in Node : s # n => row[s] = NoLsa
  OBVIOUS
<1> HIDE DEF db, row
<1>7. /\ lsa'[n] = row /\ outq'[n] = new /\ pd'[n] = {} /\ boots'[n] = 1
      /\ nb'[n] = Nbr[n]
      /\ \A k \in Node : k # n => /\ lsa'[k] = lsa[k] /\ outq'[k] = outq[k]
                                  /\ pd'[k] = pd[k] /\ boots'[k] = boots[k]
                                  /\ nb'[k] = nb[k]
  BY <1>1, <1>2 DEF IType, TypeOK
<1>8. \A s \in Node : /\ lsa[n][s].st = "none" /\ lsa[n][s].objs = {}
                      /\ lsa[n][s].seq = 0
  BY <1>1 DEF Honest, Asleep, NumbersOK, Numbers, NoneIsZero
<1>9. \A k, t \in Node : k # n \/ t # n => SameView(k, t)
  <2>1. /\ NoLsa.st = "none" /\ NoLsa.objs = {} /\ NoLsa.seq = 0
    BY DEF NoLsa
  <2>2. ASSUME NEW k \in Node, NEW t \in Node, k # n PROVE SameView(k, t)
    BY <1>7, <2>2 DEF SameView
  <2>3. ASSUME NEW t \in Node, t # n PROVE SameView(n, t)
    BY <1>6, <1>7, <1>8, <2>1, <2>3 DEF SameView
  <2>4. QED
    BY <2>2, <2>3
<1>10. \A p \in new : /\ p.type = "ad" /\ p.snder = n /\ p.seq = 0
                      /\ p.links = own.links /\ p.objs = own.objs
  BY <1>4 DEF Flood, AdPacket
<1>11. ASSUME NEW d \in Nbr[n] PROVE Holds(n, d, 0)'
  <2>1. AdPacket(n, n, own, d) \in new
    BY <1>3 DEF Flood
  <2>2. /\ AdPacket(n, n, own, d).type = "ad" /\ AdPacket(n, n, own, d).snder = n
        /\ AdPacket(n, n, own, d).dst = d /\ AdPacket(n, n, own, d).seq = 0
    BY <1>4 DEF AdPacket
  <2> HIDE DEF new
  <2>3. QED
    BY <1>7, <2>1, <2>2 DEF Holds, Ads
<1> HIDE DEF new
<1>12. \A k \in Node : k # n => Keeps(k)
  BY <1>7, KeepsAll DEF Ads
<1>13. ASSUME NEW p \in Packet, Around(p)'
       PROVE  \/ Around(p)
              \/ /\ p.type = "ad" /\ p.snder = n /\ p.seq = lsa[n][n].seq
                 /\ p.links = lsa'[n][n].links /\ p.objs = lsa'[n][n].objs
  <2>1. p \in net \/ p \in new \/ \E k \in Node : p \in outq[k] \/ p \in pd[k]
    BY <1>2, <1>7, <1>13 DEF Around
  <2>2. QED
    BY <1>5, <1>6, <1>7, <1>8, <1>10, <2>1 DEF Around
<1>14. /\ lsa'[n][n].seq = lsa[n][n].seq + 1 /\ lsa'[n][n].st = "valid"
       /\ lsa[n][n].objs \subseteq lsa'[n][n].objs
  BY <1>5, <1>6, <1>7, <1>8
<1>15. \A d \in nb'[n], q \in Nat : q = lsa[n][n].seq => Holds(n, d, q)'
  BY <1>7, <1>8, <1>11
<1>16. QED
  BY <1>7, <1>9, <1>12, <1>13, <1>14, <1>15 DEF Own

\* A flood of the own LSA db[n] by a running node.
LEMMA EffectFloodOwn ==
    ASSUME IType, NEW n \in Node, boots[n] > 0, boots' = boots, net' = net,
           NEW db, NEW row, Bumped(n, db, row), lsa'[n] = row,
           db[n].st = "valid", db[n].seq = lsa[n][n].seq,
           lsa[n][n].objs \subseteq db[n].objs, lsa[n][n].st = "valid",
           \A s \in Node : s # n => /\ db[s].seq = lsa[n][s].seq
                                    /\ db[s].objs = lsa[n][s].objs
                                    /\ db[s].st = "none" <=> lsa[n][s].st = "none",
           NEW nbs \in SUBSET Node, n \notin nbs, nb'[n] = nbs,
           ~Expiring => nbs = nb[n],
           NEW new, new = Flood(n, n, db[n], nbs, {}),
           new \subseteq outq'[n],
           \A p \in outq'[n] \cup pd'[n] : p \in outq[n] \/ p \in pd[n] \/ p \in new,
           \A k \in Node : k # n => /\ lsa'[k] = lsa[k] /\ outq'[k] = outq[k]
                                    /\ pd'[k] = pd[k] /\ nb'[k] = nb[k]
    PROVE  Own(n)
<1>1. db[n] \in Lsa /\ db[n].seq \in Nat /\ lsa[n][n].seq \in Nat
  BY NodeTypes DEF Bumped, Lsa
<1>2. /\ row[n].st = "valid" /\ row[n].seq = lsa[n][n].seq + 1
      /\ \A s \in Node : s # n => row[s] = db[s]
  BY BumpOwn
<1>3. row[n].links = db[n].links /\ row[n].objs = db[n].objs
  <2>1. Bump(db[n]).links = db[n].links /\ Bump(db[n]).objs = db[n].objs
    BY <1>1 DEF Bump, Lsa
  <2>2. QED
    BY <2>1 DEF Bumped
<1>4. \A k, t \in Node : k # n \/ t # n => SameView(k, t)
  <2>1. ASSUME NEW k \in Node, NEW t \in Node, k # n PROVE SameView(k, t)
    BY <2>1 DEF SameView
  <2>2. ASSUME NEW t \in Node, t # n PROVE SameView(n, t)
    BY <1>2, <2>2 DEF SameView
  <2>3. QED
    BY <2>1, <2>2
<1>5. \A p \in new : /\ p.type = "ad" /\ p.snder = n /\ p.seq = lsa[n][n].seq
                     /\ p.links = lsa'[n][n].links /\ p.objs = lsa'[n][n].objs
  BY <1>3 DEF Flood, AdPacket
<1>6. ASSUME NEW p \in Packet, Around(p)' PROVE Around(p) \/ p \in new
  BY <1>6 DEF Around
<1>7. \A k \in Node : k # n => Keeps(k)
  BY KeepsAll DEF Ads
<1>8. ASSUME NEW d \in nbs, NEW q \in Nat, q = lsa[n][n].seq PROVE Holds(n, d, q)'
  <2> DEFINE p == AdPacket(n, n, db[n], d)
  <2>1. p \in new
    BY DEF Flood
  <2>2. p.type = "ad" /\ p.snder = n /\ p.dst = d /\ p.seq = q
    BY <1>8 DEF AdPacket
  <2> HIDE DEF p
  <2>3. QED
    BY <2>1, <2>2 DEF Holds, Ads
<1>9. QED
  BY <1>2, <1>3, <1>4, <1>5, <1>6, <1>7, <1>8 DEF Own

\* A new file: the announcement has it.
LEMMA EffectAddFile ==
    ASSUME IType, TablesOK, NEW n \in Node, NEW o \in Obj, AddFile(n, o)
    PROVE  Own(n)
<1> DEFINE fs  == files[n] \cup {o}
           db  == Reload(n, lsa[n], nb[n], fs)
           row == [db EXCEPT ![n] = Bump(db[n])]
           new == Flood(n, n, db[n], nb[n], {})
<1>1. /\ lsa' = [lsa EXCEPT ![n] = [db EXCEPT ![n] = Bump(@)]]
      /\ outq' = [outq EXCEPT ![n] = @ \cup new]
      /\ boots[n] > 0 /\ UNCHANGED <<boots, nb, pd, net>> /\ fs \in SUBSET Obj
  BY NodeTypes DEF AddFile
<1>2. lsa' = [lsa EXCEPT ![n] = row]
  BY <1>1 DEF Reload
<1>3. OwnFresh(lsa[n][n], nb[n], files[n]) /\ FlagsAgree(n, lsa[n], nb[n])
  BY <1>1 DEF TablesOK, NodeOK, Fit
<1>4. lsa[n][n].st = "valid" /\ lsa[n][n].objs \subseteq fs /\ n \notin nb[n]
  BY <1>3, FloodAssumption DEF OwnFresh, FlagsAgree
<1>5. lsa[n] \in [Node -> Lsa] /\ nb[n] \in SUBSET Node
  BY NodeTypes
<1> HIDE DEF fs
<1>6. db = Reload(n, lsa[n], nb[n], fs)
  OBVIOUS
<1>7. db[n].objs = fs
  BY <1>5 DEF Reload, LocalLsa
<1> HIDE DEF db
<1>8. /\ db \in [Node -> Lsa] /\ db[n].seq = lsa[n][n].seq /\ db[n].st = "valid"
      /\ \A s \in Node : s # n => db[s] = lsa[n][s]
  BY <1>1, <1>5, <1>6, ReloadNumbers
<1>9. Bumped(n, db, row)
  BY <1>8 DEF Bumped
<1>10. /\ lsa'[n] = row /\ outq'[n] = outq[n] \cup new
       /\ \A k \in Node : k # n => lsa'[k] = lsa[k] /\ outq'[k] = outq[k]
  BY <1>1, <1>2 DEF IType, TypeOK
<1>11. new = Flood(n, n, db[n], nb[n], {})
  OBVIOUS
<1> HIDE DEF row, new
<1>12. QED
  BY <1>1, <1>4, <1>5, <1>7, <1>8, <1>9, <1>10, <1>11, EffectFloodOwn

\* A tick that floods announces; one that does not changes no number.
LEMMA EffectHandleTimeOut ==
    ASSUME IType, TablesOK, NEW n \in Node,
           NEW expired \in SUBSET Aging(n), NEW adv \in BOOLEAN,
           NEW retran \in SUBSET pd[n], HandleTimeOut(n, expired, adv, retran)
    PROVE  Own(n) \/ Quiet
<1> DEFINE down  == expired \cap Nbr[n]
           nbs   == nb[n] \ down
           aged  == [s \in Node |-> IF s \in expired
                                    THEN [lsa[n][s] EXCEPT !.st = "invalid"]
                                    ELSE lsa[n][s]]
           db    == IF down = {} THEN aged ELSE Reload(n, aged, nbs, files[n])
           left  == {p \in pd[n] : p.dst \notin down}
           flood == adv \/ down # {}
           ads   == IF flood THEN Flood(n, n, db[n], nbs, {}) ELSE {}
           row   == IF flood THEN [db EXCEPT ![n] = Bump(db[n])] ELSE db
<1>0. /\ boots[n] > 0 /\ UNCHANGED <<boots, net>>
      /\ nb' = [nb EXCEPT ![n] = nbs]
      /\ lsa' = [lsa EXCEPT ![n] = row]
      /\ pd' = [pd EXCEPT ![n] = left \ retran]
      /\ outq' = [outq EXCEPT ![n] = @ \cup ads \cup retran]
  <2>1. lsa' = [lsa EXCEPT ![n] = IF adv \/ down # {}
                                  THEN [db EXCEPT ![n] = Bump(@)] ELSE db]
    BY DEF HandleTimeOut
  <2>2. [db EXCEPT ![n] = Bump(@)] = [db EXCEPT ![n] = Bump(db[n])]
    BY DEF Reload
  <2>3. QED
    BY <2>1, <2>2 DEF HandleTimeOut
<1>1. /\ lsa[n] \in [Node -> Lsa] /\ nbs \in SUBSET Node /\ files[n] \in SUBSET Obj
      /\ nb[n] \in SUBSET Node
  BY NodeTypes
<1>2. OwnFresh(lsa[n][n], nb[n], files[n]) /\ FlagsAgree(n, lsa[n], nb[n])
  BY <1>0 DEF TablesOK, NodeOK, Fit
<1>3. /\ lsa[n][n].st = "valid" /\ lsa[n][n].objs = files[n] /\ n \notin nbs
      /\ n \notin expired /\ (~Expiring => nbs = nb[n])
  BY <1>2, FloodAssumption DEF OwnFresh, FlagsAgree, Aging
<1>4. /\ aged \in [Node -> Lsa] /\ aged[n] = lsa[n][n]
      /\ \A s \in Node : /\ aged[s].seq = lsa[n][s].seq
                         /\ aged[s].objs = lsa[n][s].objs
                         /\ aged[s].st = "none" <=> lsa[n][s].st = "none"
  <2>1. \A l \in Lsa : /\ [l EXCEPT !.st = "invalid"] \in Lsa
                       /\ [l EXCEPT !.st = "invalid"].st = "invalid"
                       /\ [l EXCEPT !.st = "invalid"].seq = l.seq
                       /\ [l EXCEPT !.st = "invalid"].objs = l.objs
    BY DEF Lsa
  <2>2. \A s \in Node : lsa[n][s] \in Lsa
    BY <1>1
  <2>3. \A s \in Node : s \in expired => lsa[n][s].st = "valid"
    BY DEF Aging
  <2>4. QED
    BY <1>3, <2>1, <2>2, <2>3
<1> HIDE DEF aged, nbs
<1>5. /\ db \in [Node -> Lsa] /\ db[n].st = "valid"
      /\ \A s \in Node : /\ db[s].seq = lsa[n][s].seq
                         /\ db[s].objs = lsa[n][s].objs
                         /\ db[s].st = "none" <=> lsa[n][s].st = "none"
  <2>1. CASE down = {}
    <3>1. db = aged
      BY <2>1
    <3> HIDE DEF db
    <3>2. db[n].st = "valid"
      BY <1>3, <1>4, <3>1
    <3>3. QED
      BY <1>4, <3>1, <3>2
  <2>2. CASE down # {}
    <3>1. db = Reload(n, aged, nbs, files[n])
      BY <2>2
    <3>2. db[n].objs = files[n]
      BY <3>1, <1>4 DEF Reload, LocalLsa
    <3> HIDE DEF db
    <3>3. /\ db \in [Node -> Lsa] /\ db[n].seq = aged[n].seq
          /\ db[n].st = "valid" /\ \A s \in Node : s # n => db[s] = aged[s]
      <4>1. aged \in [Node -> Lsa] /\ nbs \in SUBSET Node /\ files[n] \in SUBSET Obj
        BY <1>1, <1>4
      <4>2. QED
        BY <3>1, <4>1, ReloadNumbers
    <3>4. ASSUME NEW s \in Node
          PROVE  /\ db[s].seq = lsa[n][s].seq
                 /\ db[s].objs = lsa[n][s].objs
                 /\ db[s].st = "none" <=> lsa[n][s].st = "none"
      <4>1. CASE s = n
        BY <1>3, <1>4, <3>2, <3>3, <4>1
      <4>2. CASE s # n
        BY <1>4, <3>3, <4>2
      <4>3. QED
        BY <4>1, <4>2
    <3>5. QED
      BY <3>3, <3>4
  <2>3. QED
    BY <2>1, <2>2
<1>6. /\ lsa'[n] = row /\ outq'[n] = outq[n] \cup ads \cup retran
      /\ pd'[n] = left \ retran /\ nb'[n] = nbs
      /\ \A k \in Node : k # n => /\ lsa'[k] = lsa[k] /\ outq'[k] = outq[k]
                                  /\ pd'[k] = pd[k] /\ nb'[k] = nb[k]
  <2> HIDE DEF db, row, ads, left
  <2>1. QED
    BY <1>0 DEF IType, TypeOK
<1>7. CASE flood
  <2>1. ads = Flood(n, n, db[n], nbs, {}) /\ row = [db EXCEPT ![n] = Bump(db[n])]
    BY <1>7
  <2>2. left \subseteq pd[n] /\ retran \subseteq pd[n]
    OBVIOUS
  <2> HIDE DEF db, ads, row, left, down, flood
  <2>3. Bumped(n, db, row)
    BY <1>5, <2>1 DEF Bumped
  <2>4. /\ ads \subseteq outq'[n]
        /\ \A p \in outq'[n] \cup pd'[n] : p \in outq[n] \/ p \in pd[n] \/ p \in ads
    BY <1>6, <2>2
  <2>5. Own(n)
    BY <1>0, <1>1, <1>3, <1>5, <1>6, <2>1, <2>3, <2>4, EffectFloodOwn
  <2>6. QED
    BY <2>5
<1>8. CASE ~flood
  <2>1. ads = {} /\ row = db /\ nbs = nb[n] /\ left = pd[n]
    BY <1>8 DEF nbs
  <2> HIDE DEF db, ads, row, left, down, flood
  <2>2. \A k, t \in Node : SameView(k, t)
    BY <1>5, <1>6, <2>1 DEF SameView
  <2>3. outq'[n] \cup pd'[n] = outq[n] \cup pd[n]
    BY <1>6, <2>1
  <2>4. \A k \in Node : outq'[k] \cup pd'[k] = outq[k] \cup pd[k]
    BY <1>6, <2>3
  <2>5. \A p \in Packet : Around(p)' => Around(p)
    BY <1>0, <2>4 DEF Around
  <2>6. \A k \in Node : Keeps(k)
    BY <2>4, KeepsAll DEF Ads
  <2>7. nb' = nb
    BY <1>0, <2>1 DEF IType, TypeOK
  <2>8. QED
    BY <1>0, <2>2, <2>5, <2>6, <2>7 DEF Quiet
<1>9. QED
  BY <1>7, <1>8

\* A new LSA: the node's own number and objects stay.
LEMMA EffectRecvNewAd ==
    ASSUME IType, TablesOK, NEW m \in net, RecvNewAd(m)
    PROVE  Learn(m)
<1> DEFINE n     == m.dst
           s     == m.snder
           new   == Stored(m)
           nbs   == IF IsBack(n, s) THEN nb[n] \cup {s} ELSE nb[n]
           got   == [lsa[n] EXCEPT ![s] = new]
           db    == IF IsBack(n, s) THEN Reload(n, got, nbs, files[n]) ELSE got
           relay == IF Relays(m) THEN Flood(n, s, new, nbs, {m.src}) ELSE {}
           ack   == Reply(m, "ack", m.seq)
<1>0. /\ Arrive(m) /\ s # n /\ IsNewer(m) /\ m.type = "ad"
      /\ lsa' = [lsa EXCEPT ![n] = db] /\ nb' = [nb EXCEPT ![n] = nbs]
      /\ outq' = [outq EXCEPT ![n] = @ \cup (relay \cup {ack})]
      /\ UNCHANGED <<boots, pd>>
  BY DEF RecvNewAd, Enqueue
<1>1. /\ m \in Packet /\ n \in Node /\ s \in Node /\ m.seq \in Nat /\ boots[n] > 0
  BY <1>0, ArriveType DEF IType, Up
<1>2. /\ new \in Lsa /\ new.st = "valid" /\ new.seq = m.seq
      /\ new.links = m.links /\ new.objs = m.objs
  BY <1>1, FloodAssumption DEF Stored, Lsa, Packet
<1>3. /\ nb[n] \in SUBSET Node /\ nbs \in SUBSET Node /\ files[n] \in SUBSET Obj
      /\ lsa[n] \in [Node -> Lsa]
  BY <1>1, NodeTypes
<1>4. lsa[n][n].st = "valid" /\ lsa[n][n].objs = files[n]
  BY <1>1 DEF TablesOK, NodeOK, Fit, OwnFresh
<1>5. lsa[n][s].st = "none" \/ lsa[n][s].seq < m.seq
  <2>1. lsa[n][s].seq \in Nat
    BY <1>1, NodeTypes
  <2>2. QED
    BY <1>0, <1>1, <2>1 DEF IsNewer, Entry
<1>6. nb[n] \subseteq nbs
  OBVIOUS
<1> HIDE DEF new
<1>7. /\ got \in [Node -> Lsa] /\ got[s] = new
      /\ \A t \in Node : t # s => got[t] = lsa[n][t]
  BY <1>1, <1>2, <1>3
<1> HIDE DEF got, nbs
<1>8. /\ db[s] = new
      /\ \A t \in Node : t # s => /\ db[t].seq = lsa[n][t].seq
                                  /\ db[t].objs = lsa[n][t].objs
                                  /\ db[t].st = "none" <=> lsa[n][t].st = "none"
  <2>1. CASE IsBack(n, s)
    <3>1. db = Reload(n, got, nbs, files[n])
      BY <2>1
    <3>2. db[n].objs = files[n]
      BY <1>1, <1>7, <3>1 DEF Reload, LocalLsa
    <3> HIDE DEF db
    <3>3. /\ db[n].seq = got[n].seq /\ db[n].st = "valid"
          /\ \A t \in Node : t # n => db[t] = got[t]
      <4>1. /\ got \in [Node -> Lsa] /\ nbs \in SUBSET Node /\ n \in Node
            /\ files[n] \in SUBSET Obj
        BY <1>1, <1>3, <1>7
      <4> HIDE DEF n
      <4>2. QED
        BY <3>1, <4>1, ReloadNumbers
    <3>4. ASSUME NEW t \in Node, t # s
          PROVE  /\ db[t].seq = lsa[n][t].seq
                 /\ db[t].objs = lsa[n][t].objs
                 /\ db[t].st = "none" <=> lsa[n][t].st = "none"
      <4>1. CASE t = n
        BY <1>0, <1>1, <1>4, <1>7, <3>2, <3>3, <4>1
      <4>2. CASE t # n
        BY <1>7, <3>3, <3>4, <4>2
      <4>3. QED
        BY <4>1, <4>2
    <3>5. QED
      BY <1>0, <1>1, <1>7, <3>3, <3>4
  <2>2. CASE ~IsBack(n, s)
    <3>1. db = got
      BY <2>2
    <3> HIDE DEF db
    <3>2. QED
      BY <1>7, <3>1
  <2>3. QED
    BY <2>1, <2>2
<1>9. \A p \in relay : /\ p.type = "ad" /\ p.snder = s /\ p.seq = m.seq
                       /\ p.links = m.links /\ p.objs = m.objs
  BY <1>2 DEF Flood, AdPacket
<1>10. /\ ack.type = "ack" /\ ack.src = n /\ ack.snder = s /\ ack.seq = m.seq
  BY DEF Reply
<1>11. net' \subseteq net
  BY <1>0 DEF Arrive
<1> HIDE DEF db, relay, ack
<1>12. /\ lsa'[n] = db /\ outq'[n] = outq[n] \cup (relay \cup {ack}) /\ nb'[n] = nbs
       /\ \A k \in Node : k # n => /\ lsa'[k] = lsa[k] /\ outq'[k] = outq[k]
                                   /\ nb'[k] = nb[k]
  BY <1>0, <1>1 DEF IType, TypeOK
<1> HIDE DEF n, s
<1>13. \A k, t \in Node : k # n \/ t # s => SameView(k, t)
  <2>1. ASSUME NEW k \in Node, NEW t \in Node, k # n PROVE SameView(k, t)
    BY <1>12, <2>1 DEF SameView
  <2>2. ASSUME NEW t \in Node, t # s PROVE SameView(n, t)
    BY <1>8, <1>12, <2>2 DEF SameView
  <2>3. QED
    BY <2>1, <2>2
<1>14. ASSUME NEW p \in Packet, Around(p)'
       PROVE  Around(p) \/ p \in relay \/ p = ack
  BY <1>0, <1>1, <1>11, <1>12, <1>14 DEF Around
<1>15. \A k \in Node : Keeps(k)
  <2>1. \A k \in Node : outq[k] \cup pd[k] \subseteq outq'[k] \cup pd'[k]
    BY <1>0, <1>1, <1>12
  <2>2. QED
    BY <2>1, KeepsAll DEF Ads
<1>16. \A p \in Packet : Around(p)' =>
          \/ Around(p)
          \/ /\ p.type = "ad" /\ p.snder = s /\ p.seq = m.seq
             /\ p.links = m.links /\ p.objs = m.objs
          \/ p.type = "ack" /\ p.src = n /\ p.snder = s /\ p.seq = m.seq
  BY <1>9, <1>10, <1>14
<1>17. \A k \in Node : nb[k] \subseteq nb'[k]
  BY <1>6, <1>12
<1>18. lsa'[n][s].st = "valid" /\ lsa'[n][s].seq = m.seq /\ lsa'[n][s].objs = m.objs
  BY <1>2, <1>8, <1>12
<1>19. QED
  BY <1>0, <1>1, <1>5, <1>13, <1>15, <1>16, <1>17, <1>18 DEF Learn, n, s

\* An answer: what is queued beside what was around is a truthful ACK or SEQ.
LEMMA EffectAnswer ==
    ASSUME IType, Honest, NEW m \in net, RecvRestartAd(m) \/ RecvStaleAd(m)
    PROVE  Quiet
<1> DEFINE n == m.dst
           s == m.snder
<1>1. /\ Arrive(m) /\ m.type = "ad"
      /\ UNCHANGED <<boots, nb, lsa, pd>>
  BY DEF RecvRestartAd, RecvStaleAd
<1>2. m \in Packet /\ n \in Node /\ s \in Node /\ m.seq \in Nat /\ net' \subseteq net
  BY <1>1, ArriveType DEF IType, Arrive
<1>3. Mail(m)
  BY <1>2 DEF Honest, Around
<1>4. lsa[n][s].seq \in Nat
  BY <1>2, NodeTypes
<1>5. \/ UNCHANGED outq
      \/ \E r : /\ outq' = [outq EXCEPT ![n] = @ \cup {r}]
                /\ r.type # "ad" /\ Mail(r)
  <2>1. CASE RecvRestartAd(m)
    <3> DEFINE r == Reply(m, "seq", lsa[n][s].seq)
    <3>1. /\ s # n /\ lsa[n][s].st # "none" /\ lsa[n][s].seq > 0
          /\ outq' = [outq EXCEPT ![n] = @ \cup {r}]
      BY <2>1 DEF RecvRestartAd, LooksRestarted, Entry, Enqueue
    <3>2. lsa[n][s].seq < lsa[s][s].seq
      BY <1>2, <3>1 DEF Honest, Views
    <3>3. r.type = "seq" /\ r.snder = s /\ r.seq = lsa[n][s].seq
      BY DEF Reply
    <3> HIDE DEF r, n, s
    <3>4. r.type # "ad" /\ Mail(r)
      BY <3>1, <3>2, <3>3 DEF Mail
    <3>5. QED
      BY <3>1, <3>4
  <2>2. CASE RecvStaleAd(m) /\ s # n
    <3> DEFINE r == Reply(m, "ack", m.seq)
    <3>1. /\ ~(lsa[n][s].st = "none" \/ m.seq > lsa[n][s].seq)
          /\ outq' = [outq EXCEPT ![n] = @ \cup {r}]
      BY <2>2 DEF RecvStaleAd, IsNewer, Entry, Enqueue
    <3>2. r.type = "ack" /\ r.snder = s /\ r.seq = m.seq /\ r.src = n
      BY DEF Reply
    <3> HIDE DEF r
    <3>3. m.seq < lsa[s][s].seq /\ lsa[n][s].st # "none" /\ m.seq <= lsa[n][s].seq
      BY <1>2, <1>3, <1>4, <3>1 DEF Mail
    <3> HIDE DEF n, s
    <3>4. r.type # "ad" /\ Mail(r)
      BY <3>2, <3>3 DEF Mail, Got
    <3>5. QED
      BY <3>1, <3>4
  <2>3. CASE RecvStaleAd(m) /\ s = n
    BY <2>3 DEF RecvStaleAd
  <2>4. QED
    BY <2>1, <2>2, <2>3
<1>6. \A k, t \in Node : SameView(k, t)
  BY <1>1 DEF SameView
<1>7. ASSUME NEW p \in Packet, Around(p)'
      PROVE  Around(p) \/ (p.type # "ad" /\ Mail(p))
  <2>1. CASE UNCHANGED outq
    BY <1>1, <1>2, <1>7, <2>1 DEF Around
  <2>2. CASE ~UNCHANGED outq
    <3>1. PICK r : /\ outq' = [outq EXCEPT ![n] = @ \cup {r}]
                   /\ r.type # "ad" /\ Mail(r)
      BY <1>5, <2>2
    <3> HIDE DEF n, s
    <3>2. \A k \in Node : outq'[k] \subseteq outq[k] \cup {r}
      BY <1>2, <3>1 DEF IType, TypeOK
    <3>3. Around(p) \/ p = r
      BY <1>1, <1>2, <1>7, <3>2 DEF Around
    <3>4. QED
      BY <3>1, <3>3
  <2>3. QED
    BY <2>1, <2>2
<1>8. \A k \in Node : Keeps(k)
  <2>1. \A k \in Node : outq[k] \subseteq outq'[k]
    <3> HIDE DEF n, s
    <3>1. QED
      BY <1>2, <1>5 DEF IType, TypeOK
  <2>2. QED
    BY <1>1, <2>1, KeepsAll DEF Ads
<1>9. QED
  BY <1>1, <1>6, <1>7, <1>8 DEF Quiet

\* A step that changes no entry, no flag and no queue.
LEMMA EffectPdOnly ==
    ASSUME IType, NEW n \in Node, UNCHANGED <<boots, nb, lsa, outq>>,
           net' \subseteq net, pd'[n] \subseteq pd[n],
           \A k \in Node : k # n => pd'[k] = pd[k], Keeps(n)
    PROVE  Quiet
<1>1. \A k, t \in Node : SameView(k, t)
  BY DEF SameView
<1>2. \A p \in Packet : Around(p)' => Around(p)
  BY DEF Around
<1>3. \A k \in Node : k # n => Keeps(k)
  BY KeepsAll DEF Ads
<1>4. QED
  BY <1>1, <1>2, <1>3 DEF Quiet

\* An ACK ends the retransmission of what its source has.
LEMMA EffectAck ==
    ASSUME IType, Honest, NEW m \in net, RecvAck(m) PROVE Quiet
<1> DEFINE n == m.dst
           s == m.snder
<1>1. /\ Arrive(m) /\ m.type = "ack" /\ UNCHANGED <<boots, nb, lsa, outq>>
      /\ Unpends(n, s, m.seq, m.src)
  BY DEF RecvAck, Unpends
<1>2. m \in Packet /\ n \in Node /\ s \in Node /\ net' \subseteq net
  BY <1>1, ArriveType DEF IType, Arrive
<1>3. Got(m.src, s, m.seq)
  BY <1>1, <1>2 DEF Honest, Around, Mail
<1> HIDE DEF n
<1>4. /\ pd'[n] \subseteq pd[n] /\ \A k \in Node : k # n => pd'[k] = pd[k]
      /\ \A p \in pd[n] \ pd'[n] :
            Bucket[p.snder] = Bucket[s] /\ p.seq = m.seq /\ p.dst = m.src
  BY <1>1, <1>2, UnpendStep DEF IType
<1>5. Keeps(n)
  <2> SUFFICES ASSUME Alone(n), NEW d \in Node, NEW q \in Nat, Holds(n, d, q)
               PROVE  Holds(n, d, q)' \/ Got(d, n, q)
    BY DEF Keeps
  <2>1. PICK p \in Ads(n) : p.snder = n /\ p.dst = d /\ p.seq = q
    BY DEF Holds
  <2>2. CASE p \in Ads(n)'
    BY <2>1, <2>2 DEF Holds
  <2>3. CASE p \notin Ads(n)'
    <3>1. Bucket[n] = Bucket[s] /\ p.seq = m.seq /\ p.dst = m.src
      BY <1>1, <1>4, <2>1, <2>3 DEF Ads
    <3>2. s = n
      BY <1>2, <3>1 DEF Alone
    <3>3. QED
      BY <1>3, <2>1, <3>1, <3>2
  <2>4. QED
    BY <2>2, <2>3
<1>6. QED
  BY <1>1, <1>2, <1>4, <1>5, EffectPdOnly

\* A SEQ about the node itself tells it nothing new: its number is past it.
LEMMA EffectSeqOwner ==
    ASSUME IType, Honest, NEW m \in net, RecvSeqOwner(m) PROVE Quiet
<1> DEFINE n == m.dst
<1>1. /\ Arrive(m) /\ m.type = "seq" /\ m.snder = n /\ UNCHANGED <<boots, nb>>
      /\ Unpends(n, n, 0, m.src)
      /\ ~(lsa[n][n].seq < m.seq + 1) => UNCHANGED <<lsa, outq>>
  BY DEF RecvSeqOwner, Unpends
<1>2. m \in Packet /\ n \in Node /\ m.seq \in Nat /\ net' \subseteq net
  BY <1>1, ArriveType DEF IType, Arrive
<1>3. m.seq > 0 /\ m.seq < lsa[n][n].seq /\ lsa[n][n].seq \in Nat
  BY <1>1, <1>2, NodeTypes DEF Honest, Around, Mail
<1>4. UNCHANGED <<lsa, outq>>
  BY <1>1, <1>2, <1>3
<1> HIDE DEF n
<1>5. /\ pd'[n] \subseteq pd[n] /\ \A k \in Node : k # n => pd'[k] = pd[k]
      /\ \A p \in pd[n] \ pd'[n] : p.seq = 0
  BY <1>1, <1>2, UnpendStep DEF IType
<1>6. Keeps(n)
  <2> SUFFICES ASSUME NEW d \in Node, NEW q \in Nat, Holds(n, d, q)
               PROVE  Holds(n, d, q)' \/ q + 1 < lsa[n][n].seq
    BY DEF Keeps
  <2>1. PICK p \in Ads(n) : p.snder = n /\ p.dst = d /\ p.seq = q
    BY DEF Holds
  <2>2. CASE p \in Ads(n)'
    BY <2>1, <2>2 DEF Holds
  <2>3. CASE p \notin Ads(n)'
    <3>1. p.seq = 0
      BY <1>4, <1>5, <2>1, <2>3 DEF Ads
    <3>2. QED
      BY <1>2, <1>3, <2>1, <3>1
  <2>4. QED
    BY <2>2, <2>3
<1>7. QED
  BY <1>1, <1>2, <1>4, <1>5, <1>6, EffectPdOnly

\* A SEQ about another node moves the number of the copy on, or does nothing.
LEMMA EffectSeqRelay ==
    ASSUME IType, NEW m \in net, RecvSeqRelay(m) PROVE Jump(m) \/ Quiet
<1> DEFINE n   == m.dst
           s   == m.snder
           l   == [lsa[n][s] EXCEPT !.seq = m.seq]
           row == [lsa[n] EXCEPT ![s] = l]
           far == lsa[n][s].st # "none" /\ lsa[n][s].seq < m.seq
<1>1. /\ Arrive(m) /\ s # n /\ UNCHANGED <<boots, nb, outq>>
      /\ Unpends(n, s, 0, m.src)
      /\ lsa' = IF far THEN [lsa EXCEPT ![n] = row] ELSE lsa
  BY DEF RecvSeqRelay, Entry, Unpends
<1>2. /\ m \in Packet /\ n \in Node /\ s \in Node /\ m.seq \in Nat
      /\ net' \subseteq net
  BY <1>1, ArriveType DEF IType, Arrive
<1>3. lsa[n] \in [Node -> Lsa] /\ lsa[n][s] \in Lsa
  BY <1>2, NodeTypes
<1>4. l.seq = m.seq /\ l.st = lsa[n][s].st /\ l.objs = lsa[n][s].objs
  BY <1>2, <1>3 DEF Lsa
<1> HIDE DEF l
<1>5. row[s] = l /\ \A t \in Node : t # s => row[t] = lsa[n][t]
  BY <1>2, <1>3
<1> HIDE DEF row, n, s
<1>6. /\ pd'[n] \subseteq pd[n] /\ \A k \in Node : k # n => pd'[k] = pd[k]
      /\ \A p \in pd[n] \ pd'[n] : Bucket[p.snder] = Bucket[s]
  BY <1>1, <1>2, UnpendStep DEF IType
<1>7. \A k \in Node : Keeps(k)
  <2> SUFFICES ASSUME NEW k \in Node, Alone(k) PROVE Keeps(k)
    BY DEF Keeps
  <2>1. \A p \in pd[k] : p.snder = k => p \in pd'[k]
    BY <1>1, <1>2, <1>6 DEF Alone
  <2>2. \A p \in Ads(k) : p.snder = k => p \in outq'[k] \cup pd'[k]
    BY <1>1, <2>1 DEF Ads
  <2>3. QED
    BY <2>2, KeepsAll
<1>8. CASE ~far
  BY <1>1, <1>2, <1>6, <1>7, <1>8, EffectPdOnly
<1>9. CASE far
  <2>1. lsa'[n] = row /\ \A k \in Node : k # n => lsa'[k] = lsa[k]
    BY <1>1, <1>2, <1>9 DEF IType, TypeOK
  <2>2. \A k, t \in Node : k # n \/ t # s => SameView(k, t)
    BY <1>5, <2>1 DEF SameView
  <2>3. /\ lsa[n][s].st # "none" /\ lsa'[n][s].st # "none"
        /\ lsa[n][s].seq < m.seq /\ lsa'[n][s].seq = m.seq
        /\ lsa'[n][s].objs = lsa[n][s].objs
    BY <1>2, <1>4, <1>5, <1>9, <2>1
  <2>4. \A p \in Packet : Around(p)' => Around(p)
    BY <1>1, <1>2, <1>6 DEF Around
  <2>5. Jump(m)
    BY <1>1, <1>7, <2>2, <2>3, <2>4 DEF Jump, n, s
  <2>6. QED
    BY <2>5
<1>10. QED
  BY <1>8, <1>9

\* Sending moves announcements, from the queue to the network and pd.
LEMMA EffectSend ==
    ASSUME IType, NEW n \in Node, SendRdInfo(n) PROVE Quiet
<1>1. /\ UNCHANGED <<boots, nb, lsa>> /\ net' = net \cup outq[n]
      /\ outq' = [outq EXCEPT ![n] = {}]
      /\ pd' = [pd EXCEPT ![n] = @ \cup Keep(outq[n])]
  BY DEF SendRdInfo
<1>2. /\ outq'[n] = {} /\ pd'[n] = pd[n] \cup Keep(outq[n])
      /\ \A k \in Node : k # n => outq'[k] = outq[k] /\ pd'[k] = pd[k]
  BY <1>1 DEF IType, TypeOK
<1>3. \A k, t \in Node : SameView(k, t)
  BY <1>1 DEF SameView
<1>4. \A p \in Packet : Around(p)' => Around(p)
  BY <1>1, <1>2 DEF Around, Keep
<1>5. \A k \in Node : Keeps(k)
  <2>1. \A k \in Node : \A p \in Ads(k) : p \in outq'[k] \cup pd'[k]
    BY <1>2 DEF Ads, Keep
  <2>2. QED
    BY <2>1, KeepsAll
<1>6. QED
  BY <1>1, <1>3, <1>4, <1>5 DEF Quiet

\* Every step has one of the four effects.
LEMMA Effects ==
    ASSUME NoCrash, IType, TablesOK, NumbersOK, Honest, [Next]_vars
    PROVE  \/ Quiet
           \/ \E n \in Node : Own(n)
           \/ \E m \in net : Learn(m) \/ Jump(m)
<1>1. ASSUME NEW n \in Node, Boot(n) PROVE Own(n)
  BY <1>1, EffectBoot
<1>2. ASSUME NEW n \in Node, NEW o \in Obj, AddFile(n, o) PROVE Own(n)
  BY <1>2, EffectAddFile
<1>3. ASSUME NEW m \in net, Receive(m) PROVE Quiet \/ Learn(m) \/ Jump(m)
  BY <1>3, EffectRecvNewAd, EffectAnswer, EffectAck, EffectSeqOwner,
     EffectSeqRelay DEF Receive
<1>4. ASSUME NEW n \in Node, SendRdInfo(n) PROVE Quiet
  BY <1>4, EffectSend
<1>5. ASSUME NEW n \in Node, NEW expired \in SUBSET Aging(n), NEW adv \in BOOLEAN,
             NEW retran \in SUBSET pd[n], HandleTimeOut(n, expired, adv, retran)
      PROVE  Own(n) \/ Quiet
  BY <1>5, EffectHandleTimeOut
<1>6. ASSUME NEW m \in net, Lose(m) PROVE Quiet
  <2>1. UNCHANGED <<boots, nb, lsa, outq, pd>> /\ net' \subseteq net
    BY <1>6 DEF Lose, nodeVars
  <2>2. QED
    BY <2>1, KeepsAll DEF Quiet, SameView, Around, Ads
<1>7. CASE UNCHANGED vars
  <2>1. UNCHANGED <<boots, nb, lsa, outq, pd, net>>
    BY <1>7 DEF vars
  <2>2. QED
    BY <2>1, KeepsAll DEF Quiet, SameView, Around, Ads
<1>8. QED
  BY <1>1, <1>2, <1>3, <1>4, <1>5, <1>6, <1>7 DEF Next

-----------------------------------------------------------------------------
(* Numbers come from their owners, and ACKs tell the truth.                *)

\* No number goes back, no entry disappears.
Later ==
    \A k, t \in Node : /\ lsa'[k][t].seq >= lsa[k][t].seq
                       /\ lsa[k][t].st # "none" => lsa'[k][t].st # "none"

\* Numbers are numbers, before and after a step.
LEMMA SeqNat ==
    ASSUME IType PROVE \A k, t \in Node : lsa[k][t].seq \in Nat
BY NodeTypes

\* No effect takes a number back.
LEMMA EffectLater ==
    ASSUME IType, IType', NumbersOK,
           \/ Quiet
           \/ \E n \in Node : Own(n)
           \/ \E m \in net : Learn(m) \/ Jump(m)
    PROVE  Later
<1>0. \A k, t \in Node : lsa[k][t].seq \in Nat
  BY NodeTypes
<1>1. \A k, t \in Node : SameView(k, t) => /\ lsa'[k][t].seq >= lsa[k][t].seq
                                           /\ lsa[k][t].st # "none" =>
                                                 lsa'[k][t].st # "none"
  BY <1>0 DEF SameView
<1>2. CASE Quiet
  BY <1>1, <1>2 DEF Quiet, Later
<1>3. ASSUME NEW n \in Node, Own(n) PROVE Later
  <2>1. lsa'[n][n].seq >= lsa[n][n].seq /\ lsa'[n][n].st # "none"
    BY <1>0, <1>3 DEF Own
  <2>2. \A k, t \in Node : k # n \/ t # n => SameView(k, t)
    BY <1>3 DEF Own
  <2>3. QED
    BY <1>1, <2>1, <2>2 DEF Later
<1>4. ASSUME NEW m \in net, Learn(m) PROVE Later
  <2>1. m \in Packet /\ m.seq \in Nat /\ m.dst \in Node /\ m.snder \in Node
    BY DEF IType, TypeOK, Packet
  <2>2. lsa[m.dst][m.snder].st = "none" => lsa[m.dst][m.snder].seq = 0
    BY <2>1 DEF NumbersOK, Numbers, NoneIsZero
  <2>3. /\ lsa'[m.dst][m.snder].seq >= lsa[m.dst][m.snder].seq
        /\ lsa'[m.dst][m.snder].st # "none"
    BY <1>0, <1>4, <2>1, <2>2 DEF Learn
  <2>4. \A k, t \in Node : k # m.dst \/ t # m.snder => SameView(k, t)
    BY <1>4 DEF Learn
  <2>5. QED
    BY <1>1, <2>3, <2>4 DEF Later
<1>5. ASSUME NEW m \in net, Jump(m) PROVE Later
  <2>1. m \in Packet /\ m.seq \in Nat /\ m.dst \in Node /\ m.snder \in Node
    BY DEF IType, TypeOK, Packet
  <2>2. /\ lsa'[m.dst][m.snder].seq >= lsa[m.dst][m.snder].seq
        /\ lsa'[m.dst][m.snder].st # "none"
    BY <1>0, <1>5, <2>1 DEF Jump
  <2>3. \A k, t \in Node : k # m.dst \/ t # m.snder => SameView(k, t)
    BY <1>5 DEF Jump
  <2>4. QED
    BY <1>1, <2>2, <2>3 DEF Later
<1>6. QED
  BY <1>2, <1>3, <1>4, <1>5

\* A packet that told the truth still does.
LEMMA MailKept ==
    ASSUME IType, IType', Later, NEW p \in Packet, Mail(p) PROVE Mail(p)'
<1>1. p.snder \in Node /\ p.src \in Node /\ p.seq \in Nat
  BY DEF Packet
<1>2. \A k, t \in Node : lsa[k][t].seq \in Nat /\ lsa'[k][t].seq \in Nat
  <2>1. \A k, t \in Node : lsa[k][t].seq \in Nat
    BY SeqNat
  <2>2. \A k, t \in Node : lsa'[k][t] \in Lsa
    BY DEF IType, TypeOK
  <2>3. QED
    BY <2>1, <2>2 DEF Lsa
<1>3. p.seq < lsa'[p.snder][p.snder].seq
  BY <1>1, <1>2 DEF Mail, Later
<1>4. p.type = "ack" => /\ lsa'[p.src][p.snder].st # "none"
                        /\ p.seq <= lsa'[p.src][p.snder].seq
  BY <1>1, <1>2 DEF Mail, Got, Later
<1>5. QED
  BY <1>3, <1>4 DEF Mail, Got

\* Before any node runs.
LEMMA HonestInit == Init => Honest
BY DEF Init, Honest, Asleep, Views, Around, NoLsa

\* Whoever stores, sends or answers uses a number its owner has used.
LEMMA HonestNext ==
    ASSUME NoCrash, IType, IType', TablesOK, NumbersOK, Honest, [Next]_vars
    PROVE  Honest'
<1>1. Later
  BY Effects, EffectLater
<1>2. \A p \in Packet : Around(p) => Mail(p)'
  BY <1>1, MailKept DEF Honest
<1>3. \A k, t \in Node : lsa[k][t].seq \in Nat
  BY SeqNat
<1>4. \A p \in net : p \in Packet /\ Mail(p) /\ p.dst \in Node /\ p.snder \in Node
  BY DEF IType, TypeOK, Packet, Honest, Around
<1>5. CASE Quiet
  <2>1. Asleep'
    BY <1>5 DEF Quiet, SameView, Honest, Asleep
  <2>2. Views'
    BY <1>5 DEF Quiet, SameView, Honest, Views
  <2>3. \A p \in Packet : Around(p)' => Mail(p)'
    BY <1>1, <1>2, <1>5, MailKept DEF Quiet
  <2>4. QED
    BY <2>1, <2>2, <2>3 DEF Honest
<1>6. ASSUME NEW n \in Node, Own(n) PROVE Honest'
  <2>1. Asleep'
    BY <1>6 DEF Own, SameView, Honest, Asleep
  <2>2. Views'
    <3> SUFFICES ASSUME NEW k \in Node, NEW t \in Node, k # t,
                        lsa'[k][t].st # "none"
                 PROVE  lsa'[k][t].seq < lsa'[t][t].seq
      BY DEF Views
    <3>1. lsa[k][t].st # "none" /\ lsa'[k][t].seq = lsa[k][t].seq
      BY <1>6 DEF Own, SameView
    <3>2. lsa[k][t].seq < lsa[t][t].seq
      BY <3>1 DEF Honest, Views
    <3>3. lsa'[t][t].seq = lsa[t][t].seq \/ lsa'[t][t].seq = lsa[t][t].seq + 1
      BY <1>6 DEF Own, SameView
    <3>4. QED
      BY <1>3, <3>1, <3>2, <3>3
  <2>3. ASSUME NEW p \in Packet, Around(p)' PROVE Mail(p)'
    <3>1. CASE Around(p)
      BY <1>2, <3>1
    <3>2. CASE p.type = "ad" /\ p.snder = n /\ p.seq = lsa[n][n].seq
      <4>1. lsa'[n][n].seq = lsa[n][n].seq + 1
        BY <1>6 DEF Own
      <4>2. p.seq < lsa'[p.snder][p.snder].seq
        BY <1>3, <3>2, <4>1
      <4>3. QED
        BY <3>2, <4>2 DEF Mail
    <3>3. QED
      BY <1>6, <2>3, <3>1, <3>2 DEF Own
  <2>4. QED
    BY <2>1, <2>2, <2>3 DEF Honest
<1>7. ASSUME NEW m \in net, Learn(m) PROVE Honest'
  <2> DEFINE n == m.dst
             s == m.snder
  <2>0. /\ m.seq < lsa[s][s].seq /\ n \in Node /\ s \in Node /\ n # s
        /\ m.seq \in Nat
    BY <1>4, <1>7 DEF Mail, Learn, Packet
  <2>1. /\ boots' = boots /\ boots[n] > 0
        /\ lsa'[n][s].st = "valid" /\ lsa'[n][s].seq = m.seq
        /\ \A k, t \in Node : k # n \/ t # s => SameView(k, t)
    BY <1>7 DEF Learn
  <2>2. \A p \in Packet : Around(p)' =>
           \/ Around(p)
           \/ p.type = "ad" /\ p.snder = s /\ p.seq = m.seq
           \/ p.type = "ack" /\ p.src = n /\ p.snder = s /\ p.seq = m.seq
    BY <1>7 DEF Learn
  <2> HIDE DEF n, s
  <2>3. lsa'[s][s].seq = lsa[s][s].seq
    BY <2>0, <2>1 DEF SameView
  <2>4. Asleep'
    <3> SUFFICES ASSUME NEW k \in Node, NEW t \in Node
                 PROVE  /\ boots'[k] = 0 => lsa'[k][t].st = "none"
                        /\ lsa'[k][t].st = "none" => lsa'[k][t].objs = {}
      BY DEF Asleep
    <3>1. CASE k = n /\ t = s
      BY <2>0, <2>1, <3>1 DEF IType, TypeOK
    <3>2. CASE k # n \/ t # s
      BY <2>1, <3>2 DEF SameView, Honest, Asleep
    <3>3. QED
      BY <3>1, <3>2
  <2>5. Views'
    <3> SUFFICES ASSUME NEW k \in Node, NEW t \in Node, k # t,
                        lsa'[k][t].st # "none"
                 PROVE  lsa'[k][t].seq < lsa'[t][t].seq
      BY DEF Views
    <3>1. lsa'[t][t].seq = lsa[t][t].seq
      BY <2>0, <2>1 DEF SameView
    <3>2. CASE k = n /\ t = s
      BY <2>0, <2>1, <3>1, <3>2
    <3>3. CASE k # n \/ t # s
      BY <2>1, <3>1, <3>3 DEF SameView, Honest, Views
    <3>4. QED
      BY <3>2, <3>3
  <2>6. ASSUME NEW p \in Packet, Around(p)' PROVE Mail(p)'
    <3>1. CASE Around(p)
      BY <1>2, <3>1
    <3>2. CASE p.type = "ad" /\ p.snder = s /\ p.seq = m.seq
      BY <2>0, <2>3, <3>2 DEF Mail
    <3>3. CASE p.type = "ack" /\ p.src = n /\ p.snder = s /\ p.seq = m.seq
      <4>1. /\ p.seq < lsa'[p.snder][p.snder].seq
            /\ lsa'[p.src][p.snder].st # "none"
            /\ p.seq <= lsa'[p.src][p.snder].seq
        BY <2>0, <2>1, <2>3, <3>3
      <4>2. QED
        BY <3>3, <4>1 DEF Mail, Got
    <3>4. QED
      BY <2>2, <2>6, <3>1, <3>2, <3>3
  <2>7. QED
    BY <2>4, <2>5, <2>6 DEF Honest
<1>8. ASSUME NEW m \in net, Jump(m) PROVE Honest'
  <2> DEFINE n == m.dst
             s == m.snder
  <2>0. /\ m.seq < lsa[s][s].seq /\ n \in Node /\ s \in Node /\ n # s
    BY <1>4, <1>8 DEF Mail, Jump
  <2>1. /\ boots' = boots
        /\ lsa[n][s].st # "none" /\ lsa'[n][s].st # "none"
        /\ lsa'[n][s].seq = m.seq
        /\ \A k, t \in Node : k # n \/ t # s => SameView(k, t)
        /\ \A p \in Packet : Around(p)' => Around(p)
    BY <1>8 DEF Jump
  <2> HIDE DEF n, s
  <2>2. Asleep'
    <3> SUFFICES ASSUME NEW k \in Node, NEW t \in Node
                 PROVE  /\ boots'[k] = 0 => lsa'[k][t].st = "none"
                        /\ lsa'[k][t].st = "none" => lsa'[k][t].objs = {}
      BY DEF Asleep
    <3>1. CASE k = n /\ t = s
      BY <2>0, <2>1, <3>1 DEF Honest, Asleep
    <3>2. CASE k # n \/ t # s
      BY <2>1, <3>2 DEF SameView, Honest, Asleep
    <3>3. QED
      BY <3>1, <3>2
  <2>3. Views'
    <3> SUFFICES ASSUME NEW k \in Node, NEW t \in Node, k # t,
                        lsa'[k][t].st # "none"
                 PROVE  lsa'[k][t].seq < lsa'[t][t].seq
      BY DEF Views
    <3>1. lsa'[t][t].seq = lsa[t][t].seq
      BY <2>0, <2>1 DEF SameView
    <3>2. CASE k = n /\ t = s
      BY <2>0, <2>1, <3>1, <3>2
    <3>3. CASE k # n \/ t # s
      BY <2>1, <3>1, <3>3 DEF SameView, Honest, Views
    <3>4. QED
      BY <3>2, <3>3
  <2>4. \A p \in Packet : Around(p)' => Mail(p)'
    BY <1>2, <2>1
  <2>5. QED
    BY <2>2, <2>3, <2>4 DEF Honest
<1>9. QED
  BY <1>5, <1>6, <1>7, <1>8, Effects

\* The invariants of a system in which no node crashes.
Sound == IType /\ TablesOK /\ NumbersOK /\ Honest

\* Sound is an invariant.
LEMMA SoundInductive == ASSUME NoCrash PROVE Spec => []Sound
<1>1. IType /\ IType' /\ TablesOK /\ NumbersOK /\ Honest /\ [Next]_vars => Honest'
  BY HonestNext
<1>2. Spec => []Honest
  BY <1>1, TypeInductive, TablesInductive, NumbersInductive, HonestInit, PTL DEF Spec
<1>3. QED
  BY <1>2, TypeInductive, TablesInductive, NumbersInductive, PTL DEF Sound

\* While no node crashes, no one stores, sends or answers with a number the
\* owner of the LSA has not used: a SEQ never makes a running owner jump.
THEOREM SeqBelowOwnerInvariance == ASSUME NoCrash PROVE Spec => []SeqBelowOwner
<1>1. Sound => SeqBelowOwner
  <2> SUFFICES ASSUME Sound PROVE SeqBelowOwner
    OBVIOUS
  <2>1. \A m \in net \cup UNION {outq[n] : n \in Node} : m \in Packet /\ Around(m)
    BY DEF Sound, IType, TypeOK, Around
  <2>2. \A m \in net \cup UNION {outq[n] : n \in Node} :
           m.seq < lsa[m.snder][m.snder].seq
    BY <2>1 DEF Sound, Honest, Mail
  <2>3. QED
    BY <2>2 DEF Sound, Honest, Views, SeqBelowOwner, Up
<1>2. QED
  BY <1>1, SoundInductive, PTL

\* While no node crashes, an ACK is never for more than its source stores.
THEOREM AckSoundInvariance == ASSUME NoCrash PROVE Spec => []AckSound
<1>1. Sound => AckSound
  <2> SUFFICES ASSUME Sound PROVE AckSound
    OBVIOUS
  <2>1. \A m \in net \cup UNION {outq[n] : n \in Node} : m \in Packet /\ Around(m)
    BY DEF Sound, IType, TypeOK, Around
  <2>2. QED
    BY <2>1 DEF Sound, Honest, Mail, Got, AckSound
<1>2. QED
  BY <1>1, SoundInductive, PTL

-----------------------------------------------------------------------------
(* Flooding is reliable.                                                   *)

\* All neighbours of node k are valid, and each has the last announcement of
\* k or will be sent it.
Held(k) ==
    /\ nb[k] = Nbr[k] /\ lsa[k][k].seq > 0
    /\ \A d \in nb[k], q \in Nat :
          q + 1 = lsa[k][k].seq => Got(d, k, q) \/ Holds(k, d, q)

HeldOK == \A k \in Node : Alone(k) /\ boots[k] > 0 => Held(k)

\* A step that keeps k's own LSA and announcements keeps its promise.
LEMMA HeldKept ==
    ASSUME IType, IType', Later, NEW k \in Node, Alone(k), Held(k), Keeps(k),
           SameView(k, k), nb'[k] = nb[k]
    PROVE  Held(k)'
<1>1. \A i, t \in Node : lsa[i][t].seq \in Nat /\ lsa'[i][t].seq \in Nat
  <2>1. \A i, t \in Node : lsa'[i][t] \in Lsa
    BY DEF IType, TypeOK
  <2>2. QED
    BY <2>1, SeqNat DEF Lsa
<1>2. ASSUME NEW d \in nb[k], NEW q \in Nat, q + 1 = lsa'[k][k].seq
      PROVE  Got(d, k, q)' \/ Holds(k, d, q)'
  <2>1. d \in Node /\ q + 1 = lsa[k][k].seq
    BY <1>2, NodeTypes DEF SameView
  <2>2. Got(d, k, q) => Got(d, k, q)'
    BY <1>1, <2>1 DEF Got, Later
  <2>3. Holds(k, d, q) => Holds(k, d, q)' \/ Got(d, k, q)
    BY <2>1 DEF Keeps
  <2>4. QED
    BY <2>1, <2>2, <2>3 DEF Held
<1>3. QED
  BY <1>2 DEF Held, SameView

\* While LSAs do not expire, every step keeps every promise.
LEMMA HeldNext ==
    ASSUME NoCrash, ~Expiring, Sound, Sound', HeldOK, [Next]_vars PROVE HeldOK'
<1>1. IType /\ IType' /\ Later
  BY Effects, EffectLater DEF Sound
<1>2. SUFFICES ASSUME NEW k \in Node, Alone(k), boots'[k] > 0 PROVE Held(k)'
  BY DEF HeldOK
<1>3. CASE Quiet
  <2>1. boots[k] > 0 /\ nb'[k] = nb[k] /\ SameView(k, k) /\ Keeps(k)
    BY <1>2, <1>3 DEF Quiet
  <2>2. QED
    BY <1>1, <1>2, <2>1, HeldKept DEF HeldOK
<1>4. ASSUME NEW n \in Node, Own(n) PROVE Held(k)'
  <2>1. CASE k # n
    <3>1. boots[k] > 0 /\ nb'[k] = nb[k] /\ SameView(k, k) /\ Keeps(k)
      BY <1>2, <1>4, <2>1 DEF Own
    <3>2. QED
      BY <1>1, <1>2, <3>1, HeldKept DEF HeldOK
  <2>2. CASE k = n
    <3>1. /\ nb'[k] = Nbr[k] /\ lsa'[k][k].seq = lsa[k][k].seq + 1
          /\ \A d \in nb'[k], q \in Nat : q = lsa[k][k].seq => Holds(k, d, q)'
      BY <1>2, <1>4, <2>2 DEF Own, HeldOK, Held
    <3>2. lsa[k][k].seq \in Nat
      BY <1>1, SeqNat
    <3>3. ASSUME NEW d \in nb'[k], NEW q \in Nat, q + 1 = lsa'[k][k].seq
          PROVE  Holds(k, d, q)'
      BY <3>1, <3>2, <3>3
    <3>4. QED
      BY <3>1, <3>2, <3>3 DEF Held
  <2>3. QED
    BY <2>1, <2>2
<1>5. ASSUME NEW m \in net, Learn(m) PROVE Held(k)'
  <2>1. boots[k] > 0 /\ nb[k] \subseteq nb'[k] /\ Keeps(k) /\ SameView(k, k)
    BY <1>2, <1>5 DEF Learn
  <2>2. nb'[k] \subseteq Nbr[k]
    BY <1>2 DEF Sound, TablesOK, NodeOK, Fit, FlagsAgree
  <2>3. nb'[k] = nb[k]
    BY <1>2, <2>1, <2>2 DEF HeldOK, Held
  <2>4. QED
    BY <1>1, <1>2, <2>1, <2>3, HeldKept DEF HeldOK
<1>6. ASSUME NEW m \in net, Jump(m) PROVE Held(k)'
  <2>1. boots[k] > 0 /\ nb'[k] = nb[k] /\ SameView(k, k) /\ Keeps(k)
    BY <1>2, <1>6 DEF Jump
  <2>2. QED
    BY <1>1, <1>2, <2>1, HeldKept DEF HeldOK
<1>7. QED
  BY <1>3, <1>4, <1>5, <1>6, Effects DEF Sound

\* Flooding is reliable while no node crashes and no LSA expires, whatever the
\* network loses, duplicates or reorders: each neighbour of a node has its
\* last announcement or something newer, or the node still holds it to send.
THEOREM NothingForgottenInvariance ==
    ASSUME NoCrash, ~Expiring PROVE Spec => []NothingForgotten
<1>1. Init => HeldOK
  BY DEF Init, HeldOK
<1>2. Sound /\ Sound' /\ HeldOK /\ [Next]_vars => HeldOK'
  BY HeldNext
<1>3. Sound /\ HeldOK => NothingForgotten
  <2> SUFFICES ASSUME Sound, HeldOK, NEW n \in Up, Alone(n), NEW d \in nb[n]
               PROVE  LET last == lsa[n][n].seq - 1
                      IN  \/ lsa[d][n].st # "none" /\ lsa[d][n].seq >= last
                          \/ \E p \in Ads(n) : p.snder = n /\ p.dst = d /\ p.seq = last
    BY DEF NothingForgotten
  <2> DEFINE last == lsa[n][n].seq - 1
  <2>1. n \in Node /\ Held(n) /\ d \in Node
    BY NodeTypes DEF HeldOK, Up, Sound
  <2>2. lsa[n][n].seq \in Nat /\ lsa[d][n].seq \in Nat
    BY <2>1, SeqNat DEF Sound
  <2>3. last \in Nat /\ last + 1 = lsa[n][n].seq
    BY <2>1, <2>2 DEF Held
  <2> HIDE DEF last
  <2>4. Got(d, n, last) \/ Holds(n, d, last)
    BY <2>1, <2>3 DEF Held
  <2>5. \/ lsa[d][n].st # "none" /\ lsa[d][n].seq >= last
        \/ \E p \in Ads(n) : p.snder = n /\ p.dst = d /\ p.seq = last
    BY <2>2, <2>3, <2>4 DEF Got, Holds
  <2>6. QED
    BY <2>5 DEF last
<1>4. QED
  BY <1>1, <1>2, <1>3, SoundInductive, PTL DEF Spec

-----------------------------------------------------------------------------
(* What announcements say.                                                 *)

\* Announcements p and r say the same of the same LSA.
Like(p, r) ==
    /\ p.type = "ad" /\ r.type = "ad" /\ p.snder = r.snder /\ p.seq = r.seq
    /\ p.links = r.links /\ p.objs = r.objs

\* An announcement that is around.
Ad(p) == p \in Packet /\ Around(p) /\ p.type = "ad"

\* Of two announcements of one LSA the later one has the objects of the other
\* one; with one number they are alike.
AdsOrdered ==
    \A p, r : Ad(p) /\ Ad(r) /\ p.snder = r.snder =>
        /\ p.seq <= r.seq => p.objs \subseteq r.objs
        /\ p.seq = r.seq => p.links = r.links

\* An announcement has no objects its owner does not have.
AdsOwned == \A p : Ad(p) => p.objs \subseteq lsa[p.snder][p.snder].objs

\* Neither does a copy of the LSA.
CopiesOwned ==
    \A n, s \in Node : n # s => lsa[n][s].objs \subseteq lsa[s][s].objs

\* An announcement that is newer than a copy has the objects of the copy.
AdsNewer ==
    \A p : Ad(p) => \A n \in Node :
        n # p.snder /\ lsa[n][p.snder].seq < p.seq =>
           lsa[n][p.snder].objs \subseteq p.objs

Contents == AdsOrdered /\ AdsOwned /\ CopiesOwned /\ AdsNewer

-----------------------------------------------------------------------------
(* Contents.                                                               *)

\* What a packet around consists of.
LEMMA AdParts ==
    ASSUME Sound, NEW p, Ad(p)
    PROVE  /\ p \in Packet /\ p.snder \in Node /\ p.seq \in Nat
           /\ p.seq < lsa[p.snder][p.snder].seq
BY DEF Ad, Packet, Sound, Honest, Mail

\* The announcements around are like some that were.
LEMMA AdsKept ==
    ASSUME Sound, Contents,
           \A p : Ad(p)' => \E r : Ad(r) /\ Like(p, r),
           \A s \in Node : lsa[s][s].objs \subseteq lsa'[s][s].objs
    PROVE  AdsOrdered' /\ AdsOwned'
<1>1. AdsOrdered'
  <2> SUFFICES ASSUME NEW p, NEW r, Ad(p)', Ad(r)', p.snder = r.snder
               PROVE  /\ p.seq <= r.seq => p.objs \subseteq r.objs
                      /\ p.seq = r.seq => p.links = r.links
    BY DEF AdsOrdered
  <2>1. PICK p1 : Ad(p1) /\ Like(p, p1)
    OBVIOUS
  <2>2. PICK r1 : Ad(r1) /\ Like(r, r1)
    OBVIOUS
  <2>3. /\ p1.snder = p.snder /\ p1.seq = p.seq
        /\ p1.objs = p.objs /\ p1.links = p.links
        /\ r1.snder = r.snder /\ r1.seq = r.seq
        /\ r1.objs = r.objs /\ r1.links = r.links
    BY <2>1, <2>2 DEF Like
  <2>4. /\ p1.seq <= r1.seq => p1.objs \subseteq r1.objs
        /\ p1.seq = r1.seq => p1.links = r1.links
    <3>1. p1.snder = r1.snder
      BY <2>3
    <3>2. QED
      BY <2>1, <2>2, <3>1 DEF Contents, AdsOrdered
  <2>5. QED
    BY <2>3, <2>4
<1>2. AdsOwned'
  <2> SUFFICES ASSUME NEW p, Ad(p)' PROVE p.objs \subseteq lsa'[p.snder][p.snder].objs
    BY DEF AdsOwned
  <2>1. PICK r : Ad(r) /\ Like(p, r)
    OBVIOUS
  <2>2. r.objs \subseteq lsa[r.snder][r.snder].objs /\ r.snder \in Node
    BY <2>1, AdParts DEF Contents, AdsOwned
  <2>3. QED
    BY <2>1, <2>2 DEF Like
<1>3. QED
  BY <1>1, <1>2

\* Before any node runs.
LEMMA ContentsInit == Init => Contents
BY DEF Init, Contents, AdsOrdered, AdsOwned, CopiesOwned, AdsNewer, Ad, Around,
       NoLsa

\* Every step keeps the contents in order.
LEMMA ContentsNext ==
    ASSUME NoCrash, Sound, Sound', Contents, [Next]_vars PROVE Contents'
<1>1. \A k, t \in Node : lsa[k][t].seq \in Nat
  BY SeqNat DEF Sound
<1>2. CASE Quiet
  <2>1. \A k, t \in Node : /\ lsa'[k][t].objs = lsa[k][t].objs
                           /\ lsa'[k][t].seq = lsa[k][t].seq
    BY <1>2 DEF Quiet, SameView
  <2>2. \A p : Ad(p)' => Ad(p)
    BY <1>2 DEF Quiet, Ad
  <2>3. AdsOrdered' /\ AdsOwned'
    BY <2>1, <2>2, AdsKept DEF Like, Ad
  <2>4. CopiesOwned'
    BY <2>1 DEF Contents, CopiesOwned
  <2>5. AdsNewer'
    BY <2>1, <2>2, AdParts DEF Contents, AdsNewer
  <2>6. QED
    BY <2>3, <2>4, <2>5 DEF Contents
<1>3. ASSUME NEW n \in Node, Own(n) PROVE Contents'
  <2>1. /\ \A k, t \in Node : k # n \/ t # n => /\ lsa'[k][t].objs = lsa[k][t].objs
                                                /\ lsa'[k][t].seq = lsa[k][t].seq
        /\ lsa[n][n].objs \subseteq lsa'[n][n].objs
    BY <1>3 DEF Own, SameView
  <2>2. \A p : Ad(p)' =>
           \/ Ad(p)
           \/ /\ p.snder = n /\ p.seq = lsa[n][n].seq
              /\ p.links = lsa'[n][n].links /\ p.objs = lsa'[n][n].objs
    BY <1>3 DEF Own, Ad
  <2>3. \A p : Ad(p) /\ p.snder = n => /\ p.seq < lsa[n][n].seq /\ p.seq \in Nat
                                       /\ p.objs \subseteq lsa'[n][n].objs
    BY <2>1, AdParts DEF Contents, AdsOwned
  <2>4. AdsOrdered'
    <3> SUFFICES ASSUME NEW p, NEW r, Ad(p)', Ad(r)', p.snder = r.snder
                 PROVE  /\ p.seq <= r.seq => p.objs \subseteq r.objs
                        /\ p.seq = r.seq => p.links = r.links
      BY DEF AdsOrdered
    <3>1. CASE Ad(p) /\ Ad(r)
      BY <3>1 DEF Contents, AdsOrdered
    <3>2. CASE ~Ad(r)
      <4>1. /\ r.snder = n /\ r.seq = lsa[n][n].seq
            /\ r.links = lsa'[n][n].links /\ r.objs = lsa'[n][n].objs
        BY <2>2, <3>2
      <4>2. QED
        BY <1>1, <2>2, <2>3, <4>1
    <3>3. CASE ~Ad(p) /\ Ad(r)
      <4>1. p.snder = n /\ p.seq = lsa[n][n].seq
        BY <2>2, <3>3
      <4>2. r.seq < lsa[n][n].seq /\ r.seq \in Nat
        BY <2>3, <3>3, <4>1
      <4>3. ~(p.seq <= r.seq) /\ p.seq # r.seq
        BY <1>1, <4>1, <4>2
      <4>4. QED
        BY <4>3
    <3>4. QED
      BY <3>1, <3>2, <3>3
  <2>5. AdsOwned'
    <3> SUFFICES ASSUME NEW p, Ad(p)' PROVE p.objs \subseteq lsa'[p.snder][p.snder].objs
      BY DEF AdsOwned
    <3>1. CASE Ad(p)
      <4>1. p.objs \subseteq lsa[p.snder][p.snder].objs /\ p.snder \in Node
        BY <3>1, AdParts DEF Contents, AdsOwned
      <4>2. QED
        BY <2>1, <4>1
    <3>2. CASE ~Ad(p)
      BY <2>2, <3>2
    <3>3. QED
      BY <3>1, <3>2
  <2>6. CopiesOwned'
    BY <2>1 DEF Contents, CopiesOwned
  <2>7. AdsNewer'
    <3> SUFFICES ASSUME NEW p, Ad(p)', NEW k \in Node, k # p.snder,
                        lsa'[k][p.snder].seq < p.seq
                 PROVE  lsa'[k][p.snder].objs \subseteq p.objs
      BY DEF AdsNewer
    <3>1. CASE Ad(p)
      BY <2>1, <3>1, AdParts DEF Contents, AdsNewer
    <3>2. CASE ~Ad(p)
      BY <2>1, <2>2, <3>2 DEF Contents, CopiesOwned
    <3>3. QED
      BY <3>1, <3>2
  <2>8. QED
    BY <2>4, <2>5, <2>6, <2>7 DEF Contents
<1>4. ASSUME NEW m \in net, Learn(m) PROVE Contents'
  <2> DEFINE n == m.dst
             s == m.snder
  <2>1. /\ Ad(m) /\ n \in Node /\ s \in Node /\ n # s
        /\ lsa'[n][s].seq = m.seq /\ lsa'[n][s].objs = m.objs
        /\ \A k, t \in Node : k # n \/ t # s => SameView(k, t)
    BY <1>4 DEF Learn, Ad, Around, Sound, IType, TypeOK, Packet
  <2>2. \A p : Ad(p)' => Ad(p) \/ Like(p, m)
    BY <1>4, <2>1 DEF Learn, Ad, Like
  <2> HIDE DEF n
  <2>3. \A k, t \in Node : k # n \/ t # s => /\ lsa'[k][t].objs = lsa[k][t].objs
                                             /\ lsa'[k][t].seq = lsa[k][t].seq
    BY <2>1 DEF SameView
  <2>4. \A p : Ad(p)' => \E r : Ad(r) /\ Like(p, r)
    BY <2>1, <2>2 DEF Like, Ad
  <2>5. \A t \in Node : lsa'[t][t].objs = lsa[t][t].objs
    BY <2>1, <2>3
  <2>6. AdsOrdered' /\ AdsOwned'
    BY <2>4, <2>5, AdsKept
  <2>7. CopiesOwned'
    <3> SUFFICES ASSUME NEW k \in Node, NEW t \in Node, k # t
                 PROVE  lsa'[k][t].objs \subseteq lsa'[t][t].objs
      BY DEF CopiesOwned
    <3>1. CASE k = n /\ t = s
      BY <2>1, <2>5, <3>1 DEF Contents, AdsOwned
    <3>2. CASE k # n \/ t # s
      BY <2>3, <2>5, <3>2 DEF Contents, CopiesOwned
    <3>3. QED
      BY <3>1, <3>2
  <2>8. AdsNewer'
    <3> SUFFICES ASSUME NEW p, Ad(p)', NEW k \in Node, k # p.snder,
                        lsa'[k][p.snder].seq < p.seq
                 PROVE  lsa'[k][p.snder].objs \subseteq p.objs
      BY DEF AdsNewer
    <3>1. PICK r : Ad(r) /\ Like(p, r)
      BY <2>4
    <3>2. r.snder \in Node /\ p.snder = r.snder /\ p.seq = r.seq /\ p.objs = r.objs
          /\ r.seq \in Nat /\ m.seq \in Nat
      BY <2>1, <3>1, AdParts DEF Like
    <3>3. CASE k = n /\ p.snder = s
      <4>1. m.seq <= r.seq
        BY <2>1, <3>2, <3>3
      <4>2. m.objs \subseteq r.objs
        BY <2>1, <3>1, <3>2, <3>3, <4>1 DEF Contents, AdsOrdered
      <4>3. QED
        BY <2>1, <3>2, <3>3, <4>2
    <3>4. CASE k # n \/ p.snder # s
      BY <2>3, <3>1, <3>2, <3>4 DEF Contents, AdsNewer
    <3>5. QED
      BY <3>3, <3>4
  <2>9. QED
    BY <2>6, <2>7, <2>8 DEF Contents
<1>5. ASSUME NEW m \in net, Jump(m) PROVE Contents'
  <2> DEFINE n == m.dst
             s == m.snder
  <2>1. /\ n \in Node /\ s \in Node /\ n # s /\ m.seq \in Nat
        /\ lsa[n][s].seq < m.seq
        /\ lsa'[n][s].seq = m.seq /\ lsa'[n][s].objs = lsa[n][s].objs
        /\ \A k, t \in Node : k # n \/ t # s => SameView(k, t)
    BY <1>5 DEF Jump, Sound, IType, TypeOK, Packet
  <2>2. \A p : Ad(p)' => Ad(p)
    BY <1>5 DEF Jump, Ad
  <2> HIDE DEF n, s
  <2>3. \A k, t \in Node : /\ lsa'[k][t].objs = lsa[k][t].objs
                           /\ lsa'[k][t].seq >= lsa[k][t].seq
                           /\ lsa'[k][t].seq \in Nat
    BY <1>1, <2>1 DEF SameView
  <2>4. AdsOrdered' /\ AdsOwned'
    BY <2>2, <2>3, AdsKept DEF Like, Ad
  <2>5. CopiesOwned'
    BY <2>3 DEF Contents, CopiesOwned
  <2>6. AdsNewer'
    <3> SUFFICES ASSUME NEW p, Ad(p)', NEW k \in Node, k # p.snder,
                        lsa'[k][p.snder].seq < p.seq
                 PROVE  lsa'[k][p.snder].objs \subseteq p.objs
      BY DEF AdsNewer
    <3>1. Ad(p) /\ p.snder \in Node /\ p.seq \in Nat
      BY <2>2, AdParts
    <3>2. lsa[k][p.snder].seq < p.seq
      BY <1>1, <2>3, <3>1
    <3>3. QED
      BY <2>3, <3>1, <3>2 DEF Contents, AdsNewer
  <2>7. QED
    BY <2>4, <2>5, <2>6 DEF Contents
<1>6. QED
  BY <1>2, <1>3, <1>4, <1>5, Effects DEF Sound

\* Contents is an invariant.
LEMMA ContentsInductive == ASSUME NoCrash PROVE Spec => []Contents
<1>1. Sound /\ Sound' /\ Contents /\ [Next]_vars => Contents'
  BY ContentsNext
<1>2. QED
  BY <1>1, SoundInductive, ContentsInit, PTL DEF Spec

\* While no node crashes, two announcements with one owner and one number say
\* the same, whichever nodes relayed them.
THEOREM PacketCoherentInvariance == ASSUME NoCrash PROVE Spec => []PacketCoherent
<1>1. Sound /\ Contents => PacketCoherent
  <2> SUFFICES ASSUME Sound, Contents PROVE PacketCoherent
    OBVIOUS
  <2>1. ASSUME NEW p \in net \cup UNION {outq[n] \cup pd[n] : n \in Node},
               p.type = "ad"
        PROVE  Ad(p)
    BY <2>1 DEF Ad, Around, Sound, IType, TypeOK
  <2>2. ASSUME NEW p, NEW r, Ad(p), Ad(r), p.snder = r.snder, p.seq = r.seq
        PROVE  p.links = r.links /\ p.objs = r.objs
    <3>1. p.seq \in Nat /\ r.seq \in Nat
      BY <2>2, AdParts
    <3>2. p.seq <= r.seq /\ r.seq <= p.seq
      BY <2>2, <3>1
    <3>3. p.objs \subseteq r.objs /\ r.objs \subseteq p.objs /\ p.links = r.links
      BY <2>2, <3>2 DEF Contents, AdsOrdered
    <3>4. QED
      BY <3>3
  <2>3. QED
    BY <2>1, <2>2 DEF PacketCoherent
<1>2. QED
  BY <1>1, SoundInductive, ContentsInductive, PTL

-----------------------------------------------------------------------------
(* The refinement.                                                         *)

\* The version of s that n has, as the directory counts.
Version(n, s) == IF n = s \/ lsa[n][s].st = "none" THEN 0 ELSE lsa[n][s].seq + 1

\* The objects of s that n knows of.
Copy(n, s) == IF n = s THEN {} ELSE lsa[n][s].objs

\* What is seen of s at n stays, if its view stays.
LEMMA VersionSame ==
    ASSUME NEW n \in Node, NEW s \in Node, n = s \/ SameView(n, s)
    PROVE  Version(n, s)' = Version(n, s) /\ Copy(n, s)' = Copy(n, s)
BY DEF Version, Copy, SameView

\* Nothing is published before any node runs.
LEMMA DirectoryInit == Init => Directory!Init
BY DEF Init, NoLsa, Directory!Init

\* Every step publishes a version, has a node learn of one, or neither.
LEMMA DirectoryNext ==
    ASSUME NoCrash, Sound, Sound', Contents, Contents', [Next]_vars
    PROVE  [Directory!Next]_(<<[s \in Node |-> lsa[s][s].seq],
                               [s \in Node |-> lsa[s][s].objs],
                               [n \in Node |-> [s \in Node |-> Version(n, s)]],
                               [n \in Node |-> [s \in Node |-> Copy(n, s)]]>>)
<1> DEFINE pub  == [s \in Node |-> lsa[s][s].seq]
           cat  == [s \in Node |-> lsa[s][s].objs]
           seen == [n \in Node |-> [s \in Node |-> Version(n, s)]]
           copy == [n \in Node |-> [s \in Node |-> Copy(n, s)]]
<1>0. \A k, t \in Node : lsa[k][t].seq \in Nat /\ lsa'[k][t].objs \in SUBSET Obj
  <2>1. \A k, t \in Node : lsa'[k][t] \in Lsa
    BY DEF Sound, IType, TypeOK
  <2>2. QED
    BY <2>1, SeqNat DEF Sound, Lsa
<1>1. CASE Quiet
  <2>1. \A k, t \in Node : SameView(k, t)
    BY <1>1 DEF Quiet
  <2>2. /\ \A t \in Node : lsa'[t][t].seq = lsa[t][t].seq /\ lsa'[t][t].objs = lsa[t][t].objs
        /\ \A k, t \in Node : Version(k, t)' = Version(k, t) /\ Copy(k, t)' = Copy(k, t)
    BY <2>1, VersionSame DEF SameView
  <2>3. pub' = pub /\ cat' = cat /\ seen' = seen /\ copy' = copy
    BY <2>2
  <2>4. QED
    BY <2>3
<1>2. ASSUME NEW n \in Node, Own(n)
      PROVE  /\ pub' = [pub EXCEPT ![n] = @ + 1]
             /\ cat[n] \subseteq lsa'[n][n].objs /\ lsa'[n][n].objs \in SUBSET Obj
             /\ cat' = [cat EXCEPT ![n] = lsa'[n][n].objs]
             /\ seen' = seen /\ copy' = copy
  <2>1. /\ \A k, t \in Node : k # n \/ t # n => SameView(k, t)
        /\ lsa'[n][n].seq = lsa[n][n].seq + 1
        /\ lsa[n][n].objs \subseteq lsa'[n][n].objs
    BY <1>2 DEF Own
  <2>2. /\ \A t \in Node : t # n => /\ lsa'[t][t].seq = lsa[t][t].seq
                                    /\ lsa'[t][t].objs = lsa[t][t].objs
        /\ \A k, t \in Node : Version(k, t)' = Version(k, t) /\ Copy(k, t)' = Copy(k, t)
    BY <2>1, VersionSame DEF SameView
  <2>3. pub' = [pub EXCEPT ![n] = @ + 1]
    BY <2>1, <2>2
  <2>4. cat' = [cat EXCEPT ![n] = lsa'[n][n].objs]
    BY <2>1, <2>2
  <2>5. seen' = seen /\ copy' = copy
    BY <2>2
  <2>6. QED
    BY <1>0, <2>1, <2>3, <2>4, <2>5
<1>3. ASSUME NEW m \in net, Learn(m) \/ Jump(m)
      PROVE  \E n, s \in Node :
                /\ n # s
                /\ \E v \in seen[n][s] + 1 .. pub[s] : seen' = [seen EXCEPT ![n][s] = v]
                /\ \E os \in SUBSET cat[s] :
                      copy[n][s] \subseteq os /\ copy' = [copy EXCEPT ![n][s] = os]
                /\ pub' = pub /\ cat' = cat
  <2> DEFINE n == m.dst
             s == m.snder
  <2>1. /\ n \in Node /\ s \in Node /\ n # s /\ m.seq \in Nat
        /\ m.seq < lsa[s][s].seq
    BY <1>3 DEF Learn, Jump, Sound, IType, TypeOK, Packet, Honest, Around, Mail
  <2>2. /\ \A k, t \in Node : k # n \/ t # s => SameView(k, t)
        /\ lsa[n][s].st = "none" \/ lsa[n][s].seq < m.seq
        /\ lsa'[n][s].st # "none" /\ lsa'[n][s].seq = m.seq
    BY <1>3 DEF Learn, Jump
  <2>3. lsa[n][s].objs \subseteq lsa'[n][s].objs
    <3>1. CASE Jump(m)
      BY <3>1 DEF Jump
    <3>2. CASE Learn(m)
      <4>1. Ad(m) /\ lsa'[n][s].objs = m.objs
        BY <3>2 DEF Learn, Ad, Around, Sound, IType, TypeOK
      <4>2. lsa[n][s].st = "none" => lsa[n][s].objs = {}
        BY <2>1 DEF Sound, Honest, Asleep
      <4>3. lsa[n][s].seq < m.seq => lsa[n][s].objs \subseteq m.objs
        BY <2>1, <4>1 DEF Contents, AdsNewer
      <4>4. QED
        BY <2>2, <4>1, <4>2, <4>3
    <3>3. QED
      BY <1>3, <3>1, <3>2
  <2> HIDE DEF n, s
  <2>4. lsa'[n][s].objs \subseteq lsa[s][s].objs
    <3>1. lsa'[n][s].objs \subseteq lsa'[s][s].objs
      BY <2>1 DEF Contents, CopiesOwned
    <3>2. QED
      BY <2>1, <2>2, <3>1 DEF SameView
  <2>5. \A t \in Node : lsa'[t][t].seq = lsa[t][t].seq /\ lsa'[t][t].objs = lsa[t][t].objs
    BY <2>1, <2>2 DEF SameView
  <2>6. \A k, t \in Node : k # n \/ t # s =>
           Version(k, t)' = Version(k, t) /\ Copy(k, t)' = Copy(k, t)
    BY <2>2, VersionSame
  <2>7. /\ Version(n, s)' = m.seq + 1 /\ Copy(n, s)' = lsa'[n][s].objs
        /\ Copy(n, s) = lsa[n][s].objs
    BY <2>1, <2>2 DEF Version, Copy
  <2>8. m.seq + 1 \in Version(n, s) + 1 .. lsa[s][s].seq
    BY <1>0, <2>1, <2>2 DEF Version
  <2>9. pub' = pub /\ cat' = cat
    BY <2>5
  <2>10. seen' = [seen EXCEPT ![n][s] = m.seq + 1]
    BY <2>1, <2>6, <2>7
  <2>11. copy' = [copy EXCEPT ![n][s] = lsa'[n][s].objs]
    BY <2>1, <2>6, <2>7
  <2>12. /\ seen[n][s] = Version(n, s) /\ pub[s] = lsa[s][s].seq
         /\ cat[s] = lsa[s][s].objs /\ copy[n][s] = lsa[n][s].objs
    BY <2>1, <2>7
  <2> HIDE DEF pub, cat, seen, copy
  <2>13. \E v \in seen[n][s] + 1 .. pub[s] : seen' = [seen EXCEPT ![n][s] = v]
    BY <2>8, <2>10, <2>12
  <2>14. \E os \in SUBSET cat[s] :
            copy[n][s] \subseteq os /\ copy' = [copy EXCEPT ![n][s] = os]
    BY <2>3, <2>4, <2>11, <2>12
  <2>15. QED
    BY <2>1, <2>9, <2>13, <2>14
<1> HIDE DEF pub, cat, seen, copy
<1>4. CASE \E n \in Node : Own(n)
  <2>1. PICK n \in Node : Own(n)
    BY <1>4
  <2>2. /\ pub' = [pub EXCEPT ![n] = @ + 1]
        /\ \E os \in SUBSET Obj : cat[n] \subseteq os /\ cat' = [cat EXCEPT ![n] = os]
        /\ seen' = seen /\ copy' = copy
    BY <1>2, <2>1
  <2>3. QED
    BY <2>2 DEF Directory!Next, Directory!Publish, Version, Copy, pub, cat, seen, copy
<1>5. CASE \E m \in net : Learn(m) \/ Jump(m)
  BY <1>3, <1>5 DEF Directory!Next, Directory!Learn, Version, Copy, pub, cat, seen, copy
<1>6. QED
  BY <1>1, <1>4, <1>5, Effects DEF Sound

\* While no node crashes, and whatever the network loses, doubles or reorders,
\* the tables of the nodes implement the directory: a copy is at a version its
\* owner has published, moves only to later ones, and loses no object.
THEOREM DirectoryRefinement == ASSUME NoCrash PROVE Spec => ImplementsDirectory
<1>1. Sound /\ Sound' /\ Contents /\ Contents' /\ [Next]_vars =>
         [Directory!Next]_(<<[s \in Node |-> lsa[s][s].seq],
                             [s \in Node |-> lsa[s][s].objs],
                             [n \in Node |-> [s \in Node |->
                                 IF n = s \/ lsa[n][s].st = "none"
                                 THEN 0 ELSE lsa[n][s].seq + 1]],
                             [n \in Node |-> [s \in Node |->
                                 IF n = s THEN {} ELSE lsa[n][s].objs]]>>)
  BY DirectoryNext DEF Version, Copy
<1>2. QED
  BY <1>1, DirectoryInit, SoundInductive, ContentsInductive, PTL
     DEF Spec, ImplementsDirectory, Directory!Spec

-----------------------------------------------------------------------------
(* The prefix tree.                                                        *)

\* What the prefix tree has for an entry l.
InTree(l) == IF l.st = "valid" THEN l.objs ELSE {}

\* The tree of node k goes with its table.
TreeOK(k) == boots[k] > 0 => \A s \in Node : pft[k][s] = InTree(lsa[k][s])

Trees == \A k \in Node : TreeOK(k)

\* A step of node n, if the entries it changes are changed in the tree too.
LEMMA TreeStep ==
    ASSUME Sound, Trees, NEW n \in Node, NEW row, NEW tree,
           lsa' = [lsa EXCEPT ![n] = row], pft' = [pft EXCEPT ![n] = tree],
           \A k \in Node : k # n => boots'[k] = boots[k],
           \A s \in Node : tree[s] = InTree(row[s])
    PROVE  Trees'
<1>1. lsa'[n] = row /\ pft'[n] = tree
  BY DEF Sound, IType, TypeOK
<1>2. \A k \in Node : k # n => lsa'[k] = lsa[k] /\ pft'[k] = pft[k]
  BY DEF Sound, IType, TypeOK
<1>3. QED
  BY <1>1, <1>2 DEF Trees, TreeOK, InTree

\* A step that leaves the trees and all they depend on alone.
LEMMA TreeSame ==
    ASSUME Trees, boots' = boots, pft' = pft,
           \A k, s \in Node : /\ lsa'[k][s].st = lsa[k][s].st
                              /\ lsa'[k][s].objs = lsa[k][s].objs
    PROVE  Trees'
BY DEF Trees, TreeOK, InTree

\* A start builds the tree anew.
LEMMA TreeBoot == ASSUME Sound, Trees, NEW n \in Node, Boot(n) PROVE Trees'
<1> DEFINE own  == LocalLsa(0, Nbr[n], files[n])
           db   == [[s \in Node |-> NoLsa] EXCEPT ![n] = own]
           row  == [db EXCEPT ![n] = Bump(own)]
           tree == [s \in Node |-> IF s = n THEN own.objs ELSE {}]
<1>1. /\ lsa' = [lsa EXCEPT ![n] = row] /\ pft' = [pft EXCEPT ![n] = tree]
      /\ boots' = [boots EXCEPT ![n] = @ + 1]
  BY DEF Boot
<1>2. Bump(own).st = "valid" /\ Bump(own).objs = own.objs
  BY DEF Bump, LocalLsa
<1>3. \A s \in Node : tree[s] = InTree(row[s])
  BY <1>2 DEF InTree, NoLsa
<1> HIDE DEF row, tree
<1>4. \A k \in Node : k # n => boots'[k] = boots[k]
  BY <1>1 DEF Sound, IType, TypeOK
<1>5. QED
  BY <1>1, <1>3, <1>4, TreeStep

\* A new file joins the tree and the own entry.
LEMMA TreeAddFile ==
    ASSUME Sound, Trees, NEW n \in Node, NEW o \in Obj, AddFile(n, o) PROVE Trees'
<1> DEFINE fs   == files[n] \cup {o}
           db   == Reload(n, lsa[n], nb[n], fs)
           row  == [db EXCEPT ![n] = Bump(db[n])]
           tree == [pft[n] EXCEPT ![n] = pft[n][n] \cup fs]
<1>1. /\ boots[n] > 0 /\ boots' = boots
      /\ lsa' = [lsa EXCEPT ![n] = row] /\ pft' = [pft EXCEPT ![n] = tree]
  BY DEF AddFile, Reload, Sound, IType, TypeOK
<1>2. /\ lsa[n][n].st = "valid" /\ lsa[n][n].objs = files[n]
      /\ pft[n] \in [Node -> SUBSET Obj] /\ lsa[n] \in [Node -> Lsa]
  BY <1>1 DEF Sound, TablesOK, NodeOK, Fit, OwnFresh, IType, TypeOK
<1>3. /\ row[n].st = "valid" /\ row[n].objs = fs
      /\ \A s \in Node : s # n => row[s] = lsa[n][s]
  BY <1>2 DEF Bump, Reload, LocalLsa
<1>4. \A s \in Node : pft[n][s] = InTree(lsa[n][s])
  BY <1>1 DEF Trees, TreeOK
<1>5. tree[n] = pft[n][n] \cup fs /\ \A s \in Node : s # n => tree[s] = pft[n][s]
  BY <1>2
<1> HIDE DEF row, tree, fs
<1>6. \A s \in Node : tree[s] = InTree(row[s])
  <2>1. tree[n] = InTree(row[n])
    <3>1. pft[n][n] = files[n]
      BY <1>2, <1>4 DEF InTree
    <3>2. tree[n] = fs
      BY <1>5, <3>1 DEF fs
    <3> QED
      BY <1>3, <3>2 DEF InTree
  <2>2. ASSUME NEW s \in Node, s # n PROVE tree[s] = InTree(row[s])
    <3>1. tree[s] = pft[n][s] /\ row[s] = lsa[n][s]
      BY <1>3, <1>5, <2>2
    <3>2. pft[n][s] = InTree(lsa[n][s])
      BY <1>4
    <3> QED
      BY <3>1, <3>2
  <2> QED
    BY <2>1, <2>2
<1>7. QED
  BY <1>1, <1>6, TreeStep

\* A new announcement has all the objects of the one it replaces, so that the
\* ones added to the tree are all there are.
LEMMA TreeRecvNewAd ==
    ASSUME Sound, Contents, Trees, NEW m \in net, RecvNewAd(m) PROVE Trees'
<1> DEFINE n    == m.dst
           s    == m.snder
           new  == Stored(m)
           nbs  == IF IsBack(n, s) THEN nb[n] \cup {s} ELSE nb[n]
           got  == [lsa[n] EXCEPT ![s] = new]
           row  == IF IsBack(n, s) THEN Reload(n, got, nbs, files[n]) ELSE got
           tree == [pft[n] EXCEPT ![s] = pft[n][s] \cup m.objs]
<1>1. /\ n \in Node /\ s \in Node /\ n # s /\ boots[n] > 0 /\ Ad(m)
      /\ m.seq \in Nat /\ (lsa[n][s].st = "none" \/ m.seq > lsa[n][s].seq)
  <2>1. m \in Packet /\ m.type = "ad" /\ m.snder # m.dst /\ IsNewer(m)
    BY DEF RecvNewAd, Sound, IType, TypeOK
  <2>2. QED
    BY <2>1 DEF RecvNewAd, Arrive, IsNewer, Entry, Ad, Around, Packet
<1>2. /\ pft' = [pft EXCEPT ![n] = tree] /\ lsa' = [lsa EXCEPT ![n] = row]
      /\ boots' = boots
  BY DEF RecvNewAd, Sound, IType, TypeOK
<1>3. /\ lsa[n][n].st = "valid" /\ lsa[n][n].objs = files[n]
      /\ pft[n] \in [Node -> SUBSET Obj] /\ lsa[n] \in [Node -> Lsa]
  BY <1>1 DEF Sound, TablesOK, NodeOK, Fit, OwnFresh, IType, TypeOK
<1>4. \A t \in Node : pft[n][t] = InTree(lsa[n][t])
  BY <1>1 DEF Trees, TreeOK
<1>5. pft[n][s] \subseteq m.objs
  <2>1. lsa[n][s].st # "none" => lsa[n][s].seq < m.seq /\ lsa[n][s].seq \in Nat
    BY <1>1, SeqNat DEF Sound
  <2>2. lsa[n][s].st # "none" => lsa[n][s].objs \subseteq m.objs
    BY <1>1, <2>1 DEF Contents, AdsNewer
  <2>3. QED
    BY <1>1, <1>4, <2>2 DEF InTree
<1>6. tree[s] = m.objs /\ \A t \in Node : t # s => tree[t] = pft[n][t]
  BY <1>1, <1>3, <1>5
<1>7. /\ got[s] = new /\ \A t \in Node : t # s => got[t] = lsa[n][t]
      /\ \A t \in Node : t # n => Reload(n, got, nbs, files[n])[t] = got[t]
      /\ InTree(Reload(n, got, nbs, files[n])[n]) = files[n]
  BY <1>1, <1>3 DEF Reload, LocalLsa, InTree
<1>8. InTree(new) = m.objs
  BY DEF InTree, Stored
<1> HIDE DEF new, got, nbs
<1>9. \A t \in Node : InTree(row[t]) = IF t = s THEN m.objs ELSE InTree(lsa[n][t])
  BY <1>1, <1>3, <1>7, <1>8 DEF InTree
<1>10. \A t \in Node : tree[t] = InTree(row[t])
  BY <1>4, <1>6, <1>9
<1> HIDE DEF n, row, tree
<1>11. QED
  BY <1>1, <1>2, <1>10, TreeStep

\* A SEQ changes numbers only.
LEMMA TreeSeq ==
    ASSUME Sound, Trees, NEW m \in net, RecvSeqRelay(m) \/ RecvSeqOwner(m)
    PROVE  Trees'
<1>1. /\ m.dst \in Node /\ m.snder \in Node
      /\ \A k \in Node : lsa[k] \in [Node -> Lsa]
  BY DEF Sound, IType, TypeOK, Packet
<1>2. boots' = boots /\ pft' = pft
  BY DEF RecvSeqRelay, RecvSeqOwner
<1>3. \A l \in Lsa : \A q : /\ [l EXCEPT !.seq = q].st = l.st
                            /\ [l EXCEPT !.seq = q].objs = l.objs
  BY DEF Lsa
<1>4. \E q, t : \/ lsa' = lsa
                \/ /\ t \in Node
                   /\ lsa' = [lsa EXCEPT ![m.dst][t] = [lsa[m.dst][t] EXCEPT !.seq = q]]
  <2>1. CASE RecvSeqRelay(m)
    BY <1>1, <2>1 DEF RecvSeqRelay
  <2>2. CASE RecvSeqOwner(m)
    <3> DEFINE own == [lsa[m.dst][m.dst] EXCEPT !.seq = m.seq + 1]
    <3>1. lsa' = lsa \/ lsa' = [lsa EXCEPT ![m.dst][m.dst] = Bump(own)]
      BY <2>2 DEF RecvSeqOwner
    <3>2. Bump(own) = [lsa[m.dst][m.dst] EXCEPT !.seq = own.seq + 1]
      BY <1>1 DEF Bump, Lsa
    <3>3. QED
      BY <1>1, <3>1, <3>2
  <2>3. QED
    BY <2>1, <2>2
<1>5. \A k, s \in Node : /\ lsa'[k][s].st = lsa[k][s].st
                         /\ lsa'[k][s].objs = lsa[k][s].objs
  <2>1. PICK q, t : \/ lsa' = lsa
                    \/ /\ t \in Node
                       /\ lsa' = [lsa EXCEPT ![m.dst][t] = [lsa[m.dst][t] EXCEPT !.seq = q]]
    BY <1>4
  <2> DEFINE l == [lsa[m.dst][t] EXCEPT !.seq = q]
  <2>2. t \in Node => l.st = lsa[m.dst][t].st /\ l.objs = lsa[m.dst][t].objs
    BY <1>1, <1>3
  <2>3. lsa' = lsa \/ (t \in Node /\ lsa' = [lsa EXCEPT ![m.dst][t] = l])
    BY <2>1
  <2> HIDE DEF l
  <2>4. CASE lsa' = lsa
    BY <2>4
  <2>5. CASE t \in Node /\ lsa' = [lsa EXCEPT ![m.dst][t] = l]
    <3>1. /\ lsa'[m.dst][t] = l
          /\ \A k, s \in Node : k # m.dst \/ s # t => lsa'[k][s] = lsa[k][s]
      BY <1>1, <2>5 DEF Sound, IType, TypeOK
    <3>2. QED
      BY <2>2, <2>5, <3>1
  <2>6. QED
    BY <2>3, <2>4, <2>5
<1>6. QED
  BY <1>2, <1>5, TreeSame

\* The entries that time out were valid, and all they had leaves the tree.
LEMMA TreeHandleTimeOut ==
    ASSUME Sound, Trees, NEW n \in Node, NEW expired \in SUBSET Aging(n),
           NEW adv \in BOOLEAN, NEW retran \in SUBSET pd[n],
           HandleTimeOut(n, expired, adv, retran)
    PROVE  Trees'
<1> DEFINE down == expired \cap Nbr[n]
           nbs  == nb[n] \ down
           aged == [s \in Node |-> IF s \in expired
                                   THEN [lsa[n][s] EXCEPT !.st = "invalid"]
                                   ELSE lsa[n][s]]
           db   == IF down = {} THEN aged ELSE Reload(n, aged, nbs, files[n])
           row  == IF adv \/ down # {} THEN [db EXCEPT ![n] = Bump(db[n])] ELSE db
           tree == RmObjs(pft[n], lsa[n], expired)
<1>1. /\ boots[n] > 0 /\ boots' = boots
      /\ lsa' = [lsa EXCEPT ![n] = row] /\ pft' = [pft EXCEPT ![n] = tree]
  <2>1. /\ lsa' = [lsa EXCEPT ![n] = IF adv \/ down # {}
                                     THEN [db EXCEPT ![n] = Bump(@)] ELSE db]
        /\ pft' = [pft EXCEPT ![n] = RmObjs(@, lsa[n], expired)]
        /\ boots[n] > 0 /\ boots' = boots
    BY DEF HandleTimeOut
  <2>2. [db EXCEPT ![n] = Bump(@)] = [db EXCEPT ![n] = Bump(db[n])]
    BY DEF Reload
  <2>3. QED
    BY <2>1, <2>2 DEF Sound, IType, TypeOK
<1>2. /\ lsa[n][n].st = "valid" /\ lsa[n][n].objs = files[n]
      /\ lsa[n] \in [Node -> Lsa]
  BY <1>1 DEF Sound, TablesOK, NodeOK, Fit, OwnFresh, IType, TypeOK
<1>3. /\ expired \subseteq Node /\ n \notin expired
      /\ \A s \in expired : lsa[n][s].st = "valid"
  BY DEF Aging
<1>4. \A s \in Node : pft[n][s] = InTree(lsa[n][s])
  BY <1>1 DEF Trees, TreeOK
<1>5. \A s \in Node : InTree(aged[s]) = IF s \in expired THEN {} ELSE InTree(lsa[n][s])
  <2>1. \A l \in Lsa : [l EXCEPT !.st = "invalid"].st = "invalid"
    BY DEF Lsa
  <2>2. QED
    BY <1>2, <2>1 DEF InTree
<1>6. /\ aged[n] = lsa[n][n]
      /\ \A s \in Node : s # n => Reload(n, aged, nbs, files[n])[s] = aged[s]
      /\ InTree(Reload(n, aged, nbs, files[n])[n]) = files[n]
      /\ Reload(n, aged, nbs, files[n])[n].st = "valid"
  BY <1>3 DEF Reload, LocalLsa, InTree
<1> HIDE DEF aged, nbs, down
<1>7. \A s \in Node : InTree(db[s]) = InTree(aged[s])
  BY <1>2, <1>6 DEF InTree
<1>8. db[n] \in Lsa /\ DOMAIN db = Node
  <2>1. LocalLsa(lsa[n][n].seq, nbs, files[n]) \in Lsa
    <3>1. /\ nbs \in SUBSET Node /\ files[n] \in SUBSET Obj
          /\ lsa[n][n].seq \in Nat
      BY <1>2 DEF nbs, Sound, IType, TypeOK, Lsa
    <3>2. QED
      BY <3>1, LocalLsaType
  <2>2. DOMAIN aged = Node
    BY DEF aged
  <2>3. aged[n].seq = lsa[n][n].seq
    BY <1>6
  <2>4. QED
    BY <1>2, <1>6, <2>1, <2>2, <2>3 DEF Reload
<1> HIDE DEF db
<1>9. \A s \in Node : InTree(row[s]) = InTree(db[s])
  <2>1. Bump(db[n]).st = db[n].st /\ Bump(db[n]).objs = db[n].objs
    BY <1>8 DEF Bump, Lsa
  <2>2. QED
    BY <1>8, <2>1 DEF InTree
<1>10. \A s \in Node : tree[s] = IF s \in expired THEN {} ELSE pft[n][s]
  BY <1>3, <1>4 DEF RmObjs, InTree
<1>11. \A s \in Node : tree[s] = InTree(row[s])
  BY <1>4, <1>5, <1>7, <1>9, <1>10
<1> HIDE DEF row, tree
<1>12. QED
  BY <1>1, <1>11, TreeStep

\* Every step keeps the trees.
LEMMA TreesNext == ASSUME Sound, Contents, Trees, [Next]_vars PROVE Trees'
<1>1. ASSUME NEW n \in Node, Boot(n) PROVE Trees'
  BY <1>1, TreeBoot
<1>2. ASSUME NEW n \in Node, NEW o \in Obj, AddFile(n, o) PROVE Trees'
  BY <1>2, TreeAddFile
<1>3. ASSUME NEW m \in net, Receive(m) PROVE Trees'
  <2>1. CASE RecvRestartAd(m) \/ RecvStaleAd(m) \/ RecvAck(m)
    BY <2>1, TreeSame DEF RecvRestartAd, RecvStaleAd, RecvAck
  <2>2. QED
    BY <1>3, <2>1, TreeRecvNewAd, TreeSeq DEF Receive
<1>4. ASSUME NEW n \in Node, SendRdInfo(n) PROVE Trees'
  BY <1>4, TreeSame DEF SendRdInfo
<1>5. ASSUME NEW n \in Node, NEW expired \in SUBSET Aging(n), NEW adv \in BOOLEAN,
             NEW retran \in SUBSET pd[n], HandleTimeOut(n, expired, adv, retran)
      PROVE  Trees'
  BY <1>5, TreeHandleTimeOut
<1>6. ASSUME NEW m \in net, Lose(m) PROVE Trees'
  BY <1>6, TreeSame DEF Lose, nodeVars
<1>7. CASE UNCHANGED vars
  BY <1>7, TreeSame DEF vars
<1>8. QED
  BY <1>1, <1>2, <1>3, <1>4, <1>5, <1>6, <1>7 DEF Next

\* While no node crashes, the prefix tree of a node has exactly the objects of
\* its valid LSAs, although it is only ever added to and taken from.
THEOREM PftInvariance == ASSUME NoCrash PROVE Spec => []PftFresh
<1>1. Init => Trees
  BY DEF Init, Trees, TreeOK
<1>2. Sound /\ Contents /\ Trees /\ [Next]_vars => Trees'
  BY TreesNext
<1>3. Trees => PftFresh
  BY DEF Trees, TreeOK, InTree, PftFresh, Up
<1>4. QED
  BY <1>1, <1>2, <1>3, SoundInductive, ContentsInductive, PTL DEF Spec
=============================================================================
