--------------------------- MODULE LsaFloodProofs ---------------------------
(***************************************************************************)
(* Proofs about LsaFlood, for every topology and every bound, whatever the *)
(* network does and whoever crashes: the types, and that the tables of a   *)
(* node never part, its own LSA, its neighbour flags, its route table and  *)
(* its place in wrset.                                                     *)
(***************************************************************************)
EXTENDS LsaFlood, TLAPS

\* The type invariant with what keeps it going: the node's own LSA has the
\* full ttl, so that what is flooded always has a positive one.
OwnTtl == \A n \in Up : lsa[n][n].ttl = MaxTtl
IType == TypeOK /\ OwnTtl

\* An announcement made of a stored entry is a packet, if its ttl is positive.
LEMMA AdPacketType ==
    ASSUME NEW n \in Node, NEW s \in Node, NEW d \in Node, NEW l \in Lsa, l.ttl > 0
    PROVE  AdPacket(n, s, l, d) \in Packet /\ AdPacket(n, s, l, d).type = "ad"
BY FloodAssumption DEF AdPacket, Packet, Lsa

\* Flooding makes announcements, and nothing else.
LEMMA FloodType ==
    ASSUME NEW n \in Node, NEW s \in Node, NEW l \in Lsa, l.ttl > 0,
           NEW nbs \in SUBSET Node, NEW from
    PROVE  /\ Flood(n, s, l, nbs, from) \in SUBSET Packet
           /\ \A p \in Flood(n, s, l, nbs, from) : p.type = "ad"
BY AdPacketType DEF Flood

\* An ACK or SEQ is a packet.
LEMMA ReplyType ==
    ASSUME NEW m \in Packet, NEW t \in {"ack", "seq"}, NEW q \in Nat
    PROVE  Reply(m, t, q) \in Packet
BY FloodAssumption DEF Reply, Packet

\* init_local_lsa builds an entry with the full ttl.
LEMMA LocalLsaType ==
    ASSUME NEW q \in Nat, NEW nbs \in SUBSET Node, NEW fs \in SUBSET Obj
    PROVE  LocalLsa(q, nbs, fs) \in Lsa /\ LocalLsa(q, nbs, fs).ttl = MaxTtl
BY FloodAssumption DEF LocalLsa, Lsa

\* Increasing the number of an entry leaves an entry.
LEMMA BumpType ==
    ASSUME NEW l \in Lsa
    PROVE  Bump(l) \in Lsa /\ Bump(l).ttl = l.ttl
BY DEF Bump, Lsa

\* reload_local_lsa leaves a table, and gives the own entry the full ttl.
LEMMA ReloadType ==
    ASSUME NEW n \in Node, NEW db \in [Node -> Lsa],
           NEW nbs \in SUBSET Node, NEW fs \in SUBSET Obj
    PROVE  /\ Reload(n, db, nbs, fs) \in [Node -> Lsa]
           /\ Reload(n, db, nbs, fs)[n].ttl = MaxTtl
<1>1. db[n].seq \in Nat
  BY DEF Lsa
<1>2. QED
  BY <1>1, LocalLsaType DEF Reload

\* What the route table is computed from is a topology.
LEMMA RouteInputType ==
    ASSUME NEW n \in Node, NEW db \in [Node -> Lsa], NEW nbs \in SUBSET Node
    PROVE  RouteInput(n, db, nbs) \in
               [known : SUBSET Node, row : [Node -> SUBSET Node]]
<1>1. \A s \in Node : db[s].links \in SUBSET Node
  BY DEF Lsa
<1>2. QED
  BY <1>1 DEF RouteInput, Known

\* Setting the number of an entry (update_seq_num) leaves an entry.
LEMMA WithSeqType ==
    ASSUME NEW l \in Lsa, NEW q \in Nat
    PROVE  /\ [l EXCEPT !.seq = q] \in Lsa
           /\ [l EXCEPT !.seq = q].ttl = l.ttl
           /\ [l EXCEPT !.seq = q + 1] \in Lsa
           /\ [l EXCEPT !.seq = q + 1].ttl = l.ttl
BY DEF Lsa

\* Queuing packets leaves queues of packets.
LEMMA EnqueueType ==
    ASSUME TypeOK, NEW n \in Node, NEW packets \in SUBSET Packet,
           Enqueue(n, packets)
    PROVE  outq' \in [Node -> SUBSET Packet] /\ wr' \in [Node -> BOOLEAN]
BY DEF TypeOK, Enqueue

\* update_route_info leaves topologies.
LEMMA UpdateRouteInfoType ==
    ASSUME TypeOK, NEW n \in Node, NEW changed \in BOOLEAN,
           NEW db \in [Node -> Lsa], NEW nbs \in SUBSET Node,
           UpdateRouteInfo(n, changed, db, nbs)
    PROVE  rt' \in [Node -> [known : SUBSET Node, row : [Node -> SUBSET Node]]]
BY RouteInputType DEF TypeOK, UpdateRouteInfo

\* What remove_pd_ack may take out: at most entries with this number for this
\* node, in the chain of this sender.
LEMMA Unpended ==
    ASSUME NEW pending, NEW s, NEW q, NEW d, NEW left \in Unpend(pending, s, q, d)
    PROVE  /\ left \subseteq pending
           /\ \A p \in pending \ left :
                 Bucket[p.snder] = Bucket[s] /\ p.seq = q /\ p.dst = d
<1> DEFINE like  == {p \in pending : /\ Bucket[p.snder] = Bucket[s]
                                     /\ p.seq = q /\ p.dst = d}
           exact == {p \in like : p.snder = s}
<1>1. left = pending \ exact \/ \E p \in like : left = pending \ {p}
  BY DEF Unpend
<1>2. CASE left = pending \ exact
  BY <1>2
<1>3. CASE \E p \in like : left = pending \ {p}
  BY <1>3
<1>4. QED
  BY <1>1, <1>2, <1>3

\* remove_pd_ack at node n.
Unpends(n, s, q, d) ==
    \E left \in Unpend(pd[n], s, q, d) : pd' = [pd EXCEPT ![n] = left]

\* The table of pending announcements after it.
LEMMA UnpendStep ==
    ASSUME TypeOK, NEW n \in Node, NEW s, NEW q, NEW d, Unpends(n, s, q, d)
    PROVE  /\ pd' \in [Node -> SUBSET {p \in Packet : p.type = "ad"}]
           /\ pd'[n] \subseteq pd[n] /\ \A k \in Node : k # n => pd'[k] = pd[k]
           /\ \A p \in pd[n] \ pd'[n] :
                 Bucket[p.snder] = Bucket[s] /\ p.seq = q /\ p.dst = d
<1>1. PICK left \in Unpend(pd[n], s, q, d) : pd' = [pd EXCEPT ![n] = left]
  BY DEF Unpends
<1>2. /\ left \subseteq pd[n]
      /\ \A p \in pd[n] \ left :
            Bucket[p.snder] = Bucket[s] /\ p.seq = q /\ p.dst = d
  BY Unpended
<1>3. QED
  BY <1>1, <1>2 DEF TypeOK

\* What a datagram that arrives consists of.
LEMMA ArriveType ==
    ASSUME TypeOK, NEW m \in net, Arrive(m)
    PROVE  /\ m \in Packet /\ m.dst \in Node /\ m.src \in Node /\ m.snder \in Node
           /\ m.seq \in Nat /\ m.dst \in Up
           /\ Entry(m) \in Lsa /\ Entry(m).seq \in Nat
           /\ net' \in SUBSET Packet
<1>1. m \in Packet
  BY DEF TypeOK
<1>2. /\ m.dst \in Node /\ m.src \in Node /\ m.snder \in Node /\ m.seq \in Nat
  BY <1>1 DEF Packet
<1>3. Entry(m) \in Lsa
  BY <1>2 DEF TypeOK, Entry
<1>4. Entry(m).seq \in Nat
  BY <1>3 DEF Lsa
<1>5. net' \in SUBSET Packet
  BY DEF TypeOK, Arrive
<1>6. QED
  BY <1>1, <1>2, <1>3, <1>4, <1>5 DEF Arrive, Up

\* Before any node runs, every variable has its type.
LEMMA TypeInit == Init => IType
<1> SUFFICES ASSUME Init PROVE IType
  OBVIOUS
<1>1. NoLsa \in Lsa
  BY FloodAssumption DEF NoLsa, Lsa
<1>2. \A n \in Node : lsa[n] \in [Node -> Lsa]
  BY <1>1 DEF Init
<1>3. rt \in [Node -> [known : SUBSET Node, row : [Node -> SUBSET Node]]]
  <2>1. \A n \in Node : RouteInput(n, lsa[n], {}) \in
           [known : SUBSET Node, row : [Node -> SUBSET Node]]
    BY <1>2, RouteInputType
  <2>2. QED
    BY <2>1 DEF Init
<1>4. lsa \in [Node -> [Node -> Lsa]]
  BY <1>1 DEF Init
<1>5. boots \in [Node -> Nat] /\ \A n \in Node : boots[n] <= MaxBoot[n]
  BY FloodAssumption DEF Init
<1>5a. files \in [Node -> SUBSET Obj] /\ nb \in [Node -> SUBSET Node]
  BY DEF Init
<1>5b. pft \in [Node -> [Node -> SUBSET Obj]] /\ outq \in [Node -> SUBSET Packet]
  BY DEF Init
<1>5c. /\ pd \in [Node -> SUBSET {p \in Packet : p.type = "ad"}]
       /\ wr \in [Node -> BOOLEAN] /\ net \in SUBSET Packet
  BY DEF Init
<1>5d. TypeOK
  BY <1>3, <1>4, <1>5, <1>5a, <1>5b, <1>5c DEF TypeOK
<1>6. OwnTtl
  BY DEF Init, OwnTtl, Up
<1>7. QED
  BY <1>5d, <1>6 DEF IType

\* A start or restart keeps the types.
LEMMA TypeBoot == ASSUME IType, NEW n \in Node, Boot(n) PROVE IType'
<1> DEFINE own == LocalLsa(0, Nbr[n], files[n])
<1> DEFINE db == [[s \in Node |-> NoLsa] EXCEPT ![n] = own]
<1>1. own \in Lsa /\ own.ttl = MaxTtl /\ own.objs \in SUBSET Obj
  BY FloodAssumption, LocalLsaType DEF IType, TypeOK, LocalLsa
<1>2. Bump(own) \in Lsa /\ Bump(own).ttl = MaxTtl
  BY <1>1, BumpType
<1>3. db \in [Node -> Lsa]
  BY <1>1, FloodAssumption DEF NoLsa, Lsa
<1>4. RouteInput(n, db, Nbr[n]) \in [known : SUBSET Node, row : [Node -> SUBSET Node]]
  BY <1>3, RouteInputType, FloodAssumption
<1>5. Flood(n, n, own, Nbr[n], {}) \in SUBSET Packet
  BY <1>1, FloodType, FloodAssumption
<1> HIDE DEF own
<1>6. lsa' = [lsa EXCEPT ![n] = [db EXCEPT ![n] = Bump(own)]]
  BY DEF Boot, own
<1> HIDE DEF db
<1>7. lsa' \in [Node -> [Node -> Lsa]]
  BY <1>2, <1>3, <1>6 DEF IType, TypeOK
<1>8. rt' = [rt EXCEPT ![n] = RouteInput(n, db, Nbr[n])]
  BY DEF Boot, own, db
<1>9. /\ outq' = [outq EXCEPT ![n] = Flood(n, n, own, Nbr[n], {})]
      /\ pft' = [pft EXCEPT ![n] = [s \in Node |-> IF s = n THEN own.objs ELSE {}]]
  BY DEF Boot, own
<1>10. boots' \in [Node -> Nat] /\ \A k \in Node : boots'[k] <= MaxBoot[k]
  <2>1. boots \in [Node -> Nat] /\ \A k \in Node : boots[k] <= MaxBoot[k]
    BY DEF IType, TypeOK
  <2>2. boots' = [boots EXCEPT ![n] = @ + 1] /\ boots[n] < MaxBoot[n]
    BY DEF Boot
  <2>3. MaxBoot[n] \in Nat
    BY FloodAssumption
  <2>4. QED
    BY <2>1, <2>2, <2>3
<1>11. TypeOK'
  <2>1. files' \in [Node -> SUBSET Obj] /\ nb' \in [Node -> SUBSET Node]
    BY FloodAssumption DEF IType, TypeOK, Boot
  <2>2. rt' \in [Node -> [known : SUBSET Node, row : [Node -> SUBSET Node]]]
    BY <1>4, <1>8 DEF IType, TypeOK
  <2>3. pft' \in [Node -> [Node -> SUBSET Obj]]
    BY <1>1, <1>9 DEF IType, TypeOK
  <2>4. outq' \in [Node -> SUBSET Packet]
    BY <1>5, <1>9 DEF IType, TypeOK
  <2>5. /\ pd' \in [Node -> SUBSET {p \in Packet : p.type = "ad"}]
        /\ wr' \in [Node -> BOOLEAN] /\ net' \in SUBSET Packet
    BY DEF IType, TypeOK, Boot
  <2>6. QED
    BY <1>7, <1>10, <2>1, <2>2, <2>3, <2>4, <2>5 DEF TypeOK
<1>12. OwnTtl'
  <2> SUFFICES ASSUME NEW k \in Node, boots'[k] > 0 PROVE lsa'[k][k].ttl = MaxTtl
    BY DEF OwnTtl, Up
  <2>1. CASE k = n
    BY <2>1, <1>2, <1>3, <1>6 DEF IType, TypeOK
  <2>2. CASE k # n
    BY <2>2, <1>6 DEF IType, TypeOK, OwnTtl, Up, Boot
  <2>3. QED
    BY <2>1, <2>2
<1>13. QED
  BY <1>11, <1>12 DEF IType

\* A new file keeps the types.
LEMMA TypeAddFile ==
    ASSUME IType, NEW n \in Node, NEW o \in Obj, AddFile(n, o) PROVE IType'
<1> DEFINE fs == files[n] \cup {o}
           db == Reload(n, lsa[n], nb[n], fs)
<1>1. fs \in SUBSET Obj /\ nb[n] \in SUBSET Node /\ lsa[n] \in [Node -> Lsa]
  BY DEF IType, TypeOK
<1>2. db \in [Node -> Lsa] /\ db[n].ttl = MaxTtl /\ db[n] \in Lsa
  <2> HIDE DEF fs
  <2>1. Reload(n, lsa[n], nb[n], fs) \in [Node -> Lsa]
    BY <1>1, ReloadType
  <2>2. Reload(n, lsa[n], nb[n], fs)[n].ttl = MaxTtl
    BY <1>1, ReloadType
  <2>3. QED
    BY <2>1, <2>2
<1>3. Bump(db[n]) \in Lsa /\ Bump(db[n]).ttl = MaxTtl
  BY <1>2, BumpType
<1>4. Flood(n, n, db[n], nb[n], {}) \in SUBSET Packet
  BY <1>1, <1>2, FloodType, FloodAssumption
<1>5. /\ files' = [files EXCEPT ![n] = fs]
      /\ lsa' = [lsa EXCEPT ![n] = [db EXCEPT ![n] = Bump(db[n])]]
      /\ pft' = [pft EXCEPT ![n][n] = @ \cup fs]
      /\ outq' = [outq EXCEPT ![n] = @ \cup Flood(n, n, db[n], nb[n], {})]
  BY <1>2 DEF AddFile
<1> HIDE DEF fs, db
<1>6. lsa' \in [Node -> [Node -> Lsa]]
  BY <1>2, <1>3, <1>5 DEF IType, TypeOK
<1>7. TypeOK'
  <2>1. files' \in [Node -> SUBSET Obj] /\ pft' \in [Node -> [Node -> SUBSET Obj]]
    BY <1>1, <1>5 DEF IType, TypeOK
  <2>2. outq' \in [Node -> SUBSET Packet]
    BY <1>4, <1>5 DEF IType, TypeOK
  <2>3. wr' \in [Node -> BOOLEAN]
    BY DEF IType, TypeOK, AddFile
  <2>4. QED
    BY <1>6, <2>1, <2>2, <2>3 DEF IType, TypeOK, AddFile
<1>8. OwnTtl'
  <2> SUFFICES ASSUME NEW k \in Node, boots[k] > 0 PROVE lsa'[k][k].ttl = MaxTtl
    BY DEF OwnTtl, Up, AddFile
  <2>1. CASE k = n
    BY <2>1, <1>2, <1>3, <1>5 DEF IType, TypeOK
  <2>2. CASE k # n
    BY <2>2, <1>5 DEF IType, TypeOK, OwnTtl, Up
  <2>3. QED
    BY <2>1, <2>2
<1>9. QED
  BY <1>7, <1>8 DEF IType

\* Storing and relaying a new LSA keeps the types: it is relayed only with a ttl left.
LEMMA TypeRecvNewAd == ASSUME IType, NEW m \in net, RecvNewAd(m) PROVE IType'
<1> DEFINE n     == m.dst
           s     == m.snder
           new   == Stored(m)
           nbs   == IF IsBack(n, s) THEN nb[n] \cup {s} ELSE nb[n]
           got   == [lsa[n] EXCEPT ![s] = new]
           db    == IF IsBack(n, s) THEN Reload(n, got, nbs, files[n]) ELSE got
           relay == IF Relays(m) THEN Flood(n, s, new, nbs, {m.src}) ELSE {}
<1>0. /\ Arrive(m) /\ s # n
      /\ nb' = [nb EXCEPT ![n] = nbs]
      /\ lsa' = [lsa EXCEPT ![n] = db]
      /\ pft' = [pft EXCEPT ![n][s] = @ \cup m.objs]
      /\ UpdateRouteInfo(n, TRUE, db, nbs)
      /\ Enqueue(n, relay \cup {Reply(m, "ack", m.seq)})
      /\ UNCHANGED <<boots, files, pd>>
  BY DEF RecvNewAd
<1>1. /\ m \in Packet /\ n \in Node /\ s \in Node /\ m.seq \in Nat /\ n \in Up
      /\ net' \in SUBSET Packet
  BY <1>0, ArriveType DEF IType
<1>2. /\ m.ttl \in 1..MaxTtl /\ m.links \in SUBSET Node /\ m.objs \in SUBSET Obj
  BY <1>1 DEF Packet
<1>3. new \in Lsa
  BY <1>1, <1>2, FloodAssumption DEF Stored, Lsa
<1>4. nbs \in SUBSET Node /\ nb[n] \in SUBSET Node /\ files[n] \in SUBSET Obj
  BY <1>1 DEF IType, TypeOK
<1>5. got \in [Node -> Lsa] /\ got[n] = lsa[n][n]
  BY <1>0, <1>1, <1>3 DEF IType, TypeOK
<1>6. db \in [Node -> Lsa] /\ db[n].ttl = MaxTtl
  <2>1. lsa[n][n].ttl = MaxTtl
    BY <1>1 DEF IType, OwnTtl
  <2> HIDE DEF got, nbs
  <2>2. /\ Reload(n, got, nbs, files[n]) \in [Node -> Lsa]
        /\ Reload(n, got, nbs, files[n])[n].ttl = MaxTtl
    BY <1>1, <1>4, <1>5, ReloadType
  <2>3. QED
    BY <1>1, <1>5, <2>1, <2>2
<1>7. relay \in SUBSET Packet
  <2>1. Relays(m) => new.ttl > 0
    BY <1>2, FloodAssumption DEF Relays, Stored
  <2>2. QED
    BY <1>1, <1>3, <1>4, <2>1, FloodType
<1>8. Reply(m, "ack", m.seq) \in Packet
  BY <1>1, ReplyType
<1> HIDE DEF new, nbs, got, db, relay
<1>9. outq' \in [Node -> SUBSET Packet] /\ wr' \in [Node -> BOOLEAN]
  BY <1>0, <1>1, <1>7, <1>8, EnqueueType DEF IType
<1>10. rt' \in [Node -> [known : SUBSET Node, row : [Node -> SUBSET Node]]]
  BY <1>0, <1>1, <1>4, <1>6, UpdateRouteInfoType DEF IType
<1>11. lsa' \in [Node -> [Node -> Lsa]] /\ nb' \in [Node -> SUBSET Node]
  BY <1>0, <1>1, <1>4, <1>6 DEF IType, TypeOK
<1>12. pft' \in [Node -> [Node -> SUBSET Obj]]
  BY <1>0, <1>1, <1>2 DEF IType, TypeOK
<1>13. TypeOK'
  BY <1>0, <1>1, <1>9, <1>10, <1>11, <1>12 DEF IType, TypeOK
<1>14. OwnTtl'
  BY <1>0, <1>1, <1>6 DEF IType, TypeOK, OwnTtl, Up
<1>15. QED
  BY <1>13, <1>14 DEF IType

\* The other datagrams change less.
LEMMA TypeReceive == ASSUME IType, NEW m \in net, Receive(m) PROVE IType'
<1>1. CASE RecvNewAd(m)
  BY <1>1, TypeRecvNewAd
<1>2. CASE RecvStaleAd(m) /\ m.snder = m.dst
  BY <1>2, ArriveType DEF RecvStaleAd, IType, TypeOK, OwnTtl, Up
<1>3. CASE RecvRestartAd(m) \/ (RecvStaleAd(m) /\ m.snder # m.dst)
  <2>1. PICK t \in {"ack", "seq"}, q \in Nat :
           Enqueue(m.dst, {Reply(m, t, q)})
    BY <1>3, ArriveType DEF RecvRestartAd, RecvStaleAd, IType
  <2>2. Arrive(m)
    BY <1>3 DEF RecvRestartAd, RecvStaleAd
  <2>3. m \in Packet /\ m.dst \in Node /\ net' \in SUBSET Packet
    BY <2>2, ArriveType DEF IType
  <2>4. outq' \in [Node -> SUBSET Packet] /\ wr' \in [Node -> BOOLEAN]
    BY <2>1, <2>3, ReplyType, EnqueueType DEF IType
  <2>5. QED
    BY <1>3, <2>3, <2>4 DEF RecvRestartAd, RecvStaleAd, IType, TypeOK, OwnTtl, Up
<1>4. CASE RecvAck(m)
  <2>1. net' \in SUBSET Packet /\ m.dst \in Node
    BY <1>4, ArriveType DEF RecvAck, IType
  <2>2. pd' \in [Node -> SUBSET {p \in Packet : p.type = "ad"}]
    <3>1. Unpends(m.dst, m.snder, m.seq, m.src)
      BY <1>4 DEF RecvAck, Unpends
    <3>2. QED
      BY <2>1, <3>1, UnpendStep DEF IType
  <2>3. QED
    BY <1>4, <2>1, <2>2 DEF RecvAck, IType, TypeOK, OwnTtl, Up
<1>5. CASE RecvSeqRelay(m)
  <2>1. /\ net' \in SUBSET Packet /\ m.dst \in Node /\ m.snder \in Node
        /\ m.seq \in Nat /\ m.snder # m.dst
    BY <1>5, ArriveType DEF RecvSeqRelay, IType
  <2>2. pd' \in [Node -> SUBSET {p \in Packet : p.type = "ad"}]
    <3>1. Unpends(m.dst, m.snder, 0, m.src)
      BY <1>5 DEF RecvSeqRelay, Unpends
    <3>2. QED
      BY <2>1, <3>1, UnpendStep DEF IType
  <2> DEFINE l == [lsa[m.dst][m.snder] EXCEPT !.seq = m.seq]
  <2>3. l \in Lsa
    <3>1. lsa[m.dst][m.snder] \in Lsa
      BY <2>1 DEF IType, TypeOK
    <3>2. QED
      BY <2>1, <3>1, WithSeqType
  <2>4. lsa' = lsa \/ lsa' = [lsa EXCEPT ![m.dst] = [@ EXCEPT ![m.snder] = l]]
    BY <1>5 DEF RecvSeqRelay
  <2> HIDE DEF l
  <2> DEFINE row == [lsa[m.dst] EXCEPT ![m.snder] = l]
  <2>5. /\ row \in [Node -> Lsa] /\ row[m.dst] = lsa[m.dst][m.dst]
        /\ lsa' = lsa \/ lsa' = [lsa EXCEPT ![m.dst] = row]
    BY <2>1, <2>3, <2>4 DEF IType, TypeOK
  <2> HIDE DEF row
  <2>6. lsa' \in [Node -> [Node -> Lsa]] /\ \A k \in Node : lsa'[k][k] = lsa[k][k]
    <3>1. CASE lsa' = lsa
      BY <3>1 DEF IType, TypeOK
    <3>2. CASE lsa' = [lsa EXCEPT ![m.dst] = row]
      BY <2>1, <2>5, <3>2 DEF IType, TypeOK
    <3>3. QED
      BY <2>5, <3>1, <3>2
  <2>7. QED
    BY <1>5, <2>1, <2>2, <2>6 DEF RecvSeqRelay, IType, TypeOK, OwnTtl, Up
<1>6. CASE RecvSeqOwner(m)
  <2> DEFINE n == m.dst
             own == [lsa[n][n] EXCEPT !.seq = m.seq + 1]
  <2>1. /\ net' \in SUBSET Packet /\ n \in Node /\ n \in Up /\ m.seq \in Nat
    BY <1>6, ArriveType DEF RecvSeqOwner, IType
  <2>2. pd' \in [Node -> SUBSET {p \in Packet : p.type = "ad"}]
    <3>1. Unpends(m.dst, m.dst, 0, m.src)
      BY <1>6 DEF RecvSeqOwner, Unpends
    <3>2. QED
      BY <2>1, <3>1, UnpendStep DEF IType
  <2>3. own \in Lsa /\ own.ttl = MaxTtl
    <3>1. lsa[n][n] \in Lsa /\ lsa[n][n].ttl = MaxTtl
      BY <2>1 DEF IType, TypeOK, OwnTtl
    <3>2. QED
      BY <2>1, <3>1, WithSeqType
  <2>4. Bump(own) \in Lsa /\ Bump(own).ttl = MaxTtl
    BY <2>3, BumpType
  <2>5. Flood(n, n, own, nb[n], {}) \in SUBSET Packet
    <3>1. nb[n] \in SUBSET Node /\ own.ttl > 0
      BY <2>1, <2>3, FloodAssumption DEF IType, TypeOK
    <3> HIDE DEF own
    <3>2. QED
      BY <2>1, <2>3, <3>1, FloodType
  <2>6. \/ UNCHANGED <<lsa, outq, wr>>
        \/ /\ lsa' = [lsa EXCEPT ![n] = [@ EXCEPT ![n] = Bump(own)]]
           /\ Enqueue(n, Flood(n, n, own, nb[n], {}))
    BY <1>6 DEF RecvSeqOwner
  <2> HIDE DEF n, own
  <2>7. outq' \in [Node -> SUBSET Packet] /\ wr' \in [Node -> BOOLEAN]
    BY <2>1, <2>5, <2>6, EnqueueType DEF IType, TypeOK
  <2>8. lsa' \in [Node -> [Node -> Lsa]]
    <3> DEFINE row == [lsa[n] EXCEPT ![n] = Bump(own)]
    <3>1. row \in [Node -> Lsa]
      BY <2>1, <2>4 DEF IType, TypeOK
    <3>2. lsa' = lsa \/ lsa' = [lsa EXCEPT ![n] = row]
      BY <2>6
    <3> HIDE DEF row
    <3>3. QED
      BY <2>1, <3>1, <3>2 DEF IType, TypeOK
  <2>9. \A k \in Node : lsa'[k][k].ttl = lsa[k][k].ttl \/ (k = n /\ lsa'[k][k].ttl = MaxTtl)
    BY <2>1, <2>4, <2>6 DEF IType, TypeOK
  <2>10. QED
    BY <1>6, <2>1, <2>2, <2>7, <2>8, <2>9 DEF RecvSeqOwner, IType, TypeOK, OwnTtl, Up
<1>7. CASE RecvStaleAd(m)
  BY <1>2, <1>3, <1>7
<1>8. QED
  BY <1>1, <1>3, <1>4, <1>5, <1>6, <1>7 DEF Receive

\* Sending keeps the types; only announcements become pending.
LEMMA TypeSend == ASSUME IType, NEW n \in Node, SendRdInfo(n) PROVE IType'
BY DEF SendRdInfo, Keep, IType, TypeOK, OwnTtl, Up

\* A tick of the timer keeps the types.
LEMMA TypeHandleTimeOut ==
    ASSUME IType, NEW n \in Node, NEW expired \in SUBSET Aging(n),
           NEW adv \in BOOLEAN, NEW retran \in SUBSET pd[n],
           HandleTimeOut(n, expired, adv, retran)
    PROVE  IType'
<1> DEFINE down == expired \cap Nbr[n]
           nbs  == nb[n] \ down
           aged == [s \in Node |-> IF s \in expired
                                   THEN [lsa[n][s] EXCEPT !.st = "invalid"]
                                   ELSE lsa[n][s]]
           db   == IF down = {} THEN aged ELSE Reload(n, aged, nbs, files[n])
           left == {p \in pd[n] : p.dst \notin down}
           ads  == IF adv \/ down # {} THEN Flood(n, n, db[n], nbs, {}) ELSE {}
<1>0. /\ n \in Up
      /\ nb' = [nb EXCEPT ![n] = nbs]
      /\ lsa' = [lsa EXCEPT ![n] = IF adv \/ down # {}
                                   THEN [db EXCEPT ![n] = Bump(@)] ELSE db]
      /\ pft' = [pft EXCEPT ![n] = RmObjs(@, lsa[n], expired)]
      /\ UpdateRouteInfo(n, expired # {}, db, nbs)
      /\ pd' = [pd EXCEPT ![n] = left \ retran]
      /\ outq' = [outq EXCEPT ![n] = @ \cup ads \cup retran]
      /\ wr' = [wr EXCEPT ![n] = @ \/ adv \/ down # {} \/ retran # {}]
      /\ UNCHANGED <<boots, files, net>>
  BY DEF HandleTimeOut, Up
<1>1. nbs \in SUBSET Node /\ files[n] \in SUBSET Obj /\ n \notin expired
  BY DEF IType, TypeOK, Aging
<1>2. aged \in [Node -> Lsa] /\ aged[n].ttl = MaxTtl
  <2>1. \A s \in Node : lsa[n][s] \in Lsa
    BY DEF IType, TypeOK
  <2>2. \A l \in Lsa : [l EXCEPT !.st = "invalid"] \in Lsa
    BY DEF Lsa
  <2>3. aged[n] = lsa[n][n] /\ lsa[n][n].ttl = MaxTtl
    BY <1>0, <1>1 DEF IType, OwnTtl
  <2>4. QED
    BY <2>1, <2>2, <2>3
<1> HIDE DEF aged, nbs, down
<1>3. db \in [Node -> Lsa] /\ db[n].ttl = MaxTtl /\ db[n] \in Lsa
  <2>1. /\ Reload(n, aged, nbs, files[n]) \in [Node -> Lsa]
        /\ Reload(n, aged, nbs, files[n])[n].ttl = MaxTtl
    BY <1>1, <1>2, ReloadType
  <2>2. QED
    BY <1>2, <2>1
<1> HIDE DEF db
<1>4. ads \in SUBSET Packet
  BY <1>1, <1>3, FloodType, FloodAssumption
<1> HIDE DEF ads
<1>5. Bump(db[n]) \in Lsa /\ Bump(db[n]).ttl = MaxTtl
  BY <1>3, BumpType
<1> DEFINE row == IF adv \/ down # {} THEN [db EXCEPT ![n] = Bump(db[n])] ELSE db
<1>6. row \in [Node -> Lsa] /\ row[n].ttl = MaxTtl /\ lsa' = [lsa EXCEPT ![n] = row]
  BY <1>0, <1>3, <1>5
<1> HIDE DEF row
<1>7. lsa' \in [Node -> [Node -> Lsa]] /\ nb' \in [Node -> SUBSET Node]
  <2>1. lsa' \in [Node -> [Node -> Lsa]]
    BY <1>6 DEF IType, TypeOK
  <2>2. nb' \in [Node -> SUBSET Node]
    BY <1>0, <1>1 DEF IType, TypeOK
  <2>3. QED
    BY <2>1, <2>2
<1>8. rt' \in [Node -> [known : SUBSET Node, row : [Node -> SUBSET Node]]]
  BY <1>0, <1>1, <1>3, UpdateRouteInfoType DEF IType
<1>9. pft' \in [Node -> [Node -> SUBSET Obj]]
  BY <1>0 DEF RmObjs, IType, TypeOK
<1>10. /\ retran \in SUBSET {p \in Packet : p.type = "ad"}
       /\ left \ retran \in SUBSET {p \in Packet : p.type = "ad"}
  BY DEF IType, TypeOK
<1> HIDE DEF left
<1>11. /\ pd' \in [Node -> SUBSET {p \in Packet : p.type = "ad"}]
       /\ outq' \in [Node -> SUBSET Packet] /\ wr' \in [Node -> BOOLEAN]
  BY <1>0, <1>4, <1>10 DEF IType, TypeOK
<1>12. TypeOK'
  BY <1>0, <1>7, <1>8, <1>9, <1>11 DEF IType, TypeOK
<1>13. OwnTtl'
  BY <1>0, <1>6 DEF IType, TypeOK, OwnTtl, Up
<1>14. QED
  BY <1>12, <1>13 DEF IType

\* The type invariant, strengthened as its induction needs it.
LEMMA TypeInductive == Spec => []IType
<1>1. IType /\ [Next]_vars => IType'
  <2> SUFFICES ASSUME IType, [Next]_vars PROVE IType'
    OBVIOUS
  <2>1. ASSUME NEW n \in Node, Boot(n) PROVE IType'
    BY <2>1, TypeBoot
  <2>2. ASSUME NEW n \in Node, NEW o \in Obj, AddFile(n, o) PROVE IType'
    BY <2>2, TypeAddFile
  <2>3. ASSUME NEW m \in net, Receive(m) PROVE IType'
    BY <2>3, TypeReceive
  <2>4. ASSUME NEW n \in Node, SendRdInfo(n) PROVE IType'
    BY <2>4, TypeSend
  <2>5. ASSUME NEW n \in Node, NEW expired \in SUBSET Aging(n), NEW adv \in BOOLEAN,
               NEW retran \in SUBSET pd[n], HandleTimeOut(n, expired, adv, retran)
        PROVE  IType'
    BY <2>5, TypeHandleTimeOut
  <2>6. ASSUME NEW m \in net, Lose(m) PROVE IType'
    BY <2>6 DEF Lose, nodeVars, IType, TypeOK, OwnTtl, Up
  <2>7. CASE UNCHANGED vars
    BY <2>7 DEF vars, IType, TypeOK, OwnTtl, Up
  <2>8. QED
    BY <2>1, <2>2, <2>3, <2>4, <2>5, <2>6, <2>7 DEF Next
<1>2. QED
  BY <1>1, TypeInit, PTL DEF Spec

\* Type correctness: every table, queue and packet of every node stays what
\* the code declares it to be, in every topology.
THEOREM TypeInvariance == Spec => []TypeOK
<1>1. IType => TypeOK
  BY DEF IType
<1>2. QED
  BY <1>1, TypeInductive, PTL

-----------------------------------------------------------------------------
(* The tables.                                                             *)

\* The own entry describes the node.
OwnFresh(own, nbs, fs) ==
    own.st = "valid" /\ own.links = nbs /\ own.objs = fs

\* The neighbour flags and the table say the same.
FlagsAgree(k, db, nbs) ==
    /\ nbs \subseteq Nbr[k]
    /\ \A s \in Nbr[k] : s \in nbs <=> db[s].st # "invalid"

\* Table db, neighbours nbs, files fs and routes r of node k fit together.
Fit(k, db, nbs, fs, r) ==
    /\ OwnFresh(db[k], nbs, fs)
    /\ FlagsAgree(k, db, nbs)
    /\ r = RouteInput(k, db, nbs)

NodeOK(k) ==
    /\ outq[k] # {} => wr[k]
    /\ boots[k] > 0 => Fit(k, lsa[k], nb[k], files[k], rt[k])

TablesOK == \A k \in Node : NodeOK(k)

-----------------------------------------------------------------------------
(* Tables.                                                                 *)

\* The routes do not depend on numbers, objects or the own entry's links.
LEMMA RouteInputSame ==
    ASSUME NEW n \in Node, NEW db \in [Node -> Lsa], NEW db2 \in [Node -> Lsa],
           NEW nbs \in SUBSET Node,
           \A s \in Node : /\ db2[s].st = db[s].st
                           /\ s # n => db2[s].links = db[s].links
    PROVE  RouteInput(n, db2, nbs) = RouteInput(n, db, nbs)
<1>1. Known(db2) = Known(db)
  BY DEF Known
<1>2. [s \in Node |-> IF s = n THEN nbs
                      ELSE IF db2[s].st = "valid" THEN db2[s].links ELSE {}]
      = [s \in Node |-> IF s = n THEN nbs
                        ELSE IF db[s].st = "valid" THEN db[s].links ELSE {}]
  OBVIOUS
<1>3. QED
  BY <1>1, <1>2 DEF RouteInput

\* Tables still fit together after numbers, or the own objects, have changed.
LEMMA FitKept ==
    ASSUME NEW n \in Node, NEW db \in [Node -> Lsa], NEW db2 \in [Node -> Lsa],
           NEW nbs \in SUBSET Node, NEW fs, NEW fs2, NEW r,
           Fit(n, db, nbs, fs, r),
           \A s \in Node : /\ db2[s].st = db[s].st
                           /\ s # n => db2[s].links = db[s].links,
           db2[n].links = nbs, db2[n].objs = fs2
    PROVE  Fit(n, db2, nbs, fs2, r)
<1>1. r = RouteInput(n, db2, nbs)
  BY RouteInputSame DEF Fit
<1>2. OwnFresh(db2[n], nbs, fs2)
  BY DEF Fit, OwnFresh
<1>3. FlagsAgree(n, db2, nbs)
  BY FloodAssumption DEF Fit, FlagsAgree
<1>4. QED
  BY <1>1, <1>2, <1>3 DEF Fit

\* Increasing the own number changes nothing that has to fit.
LEMMA FitBump ==
    ASSUME NEW n \in Node, NEW db \in [Node -> Lsa], NEW nbs \in SUBSET Node,
           NEW fs, NEW r, Fit(n, db, nbs, fs, r)
    PROVE  Fit(n, [db EXCEPT ![n] = Bump(db[n])], nbs, fs, r)
<1> DEFINE db2 == [db EXCEPT ![n] = Bump(db[n])]
<1>1. Bump(db[n]) \in Lsa
  BY BumpType
<1>2. /\ Bump(db[n]).st = db[n].st /\ Bump(db[n]).links = db[n].links
      /\ Bump(db[n]).objs = db[n].objs
  BY DEF Bump, Lsa
<1>3. db2 \in [Node -> Lsa]
  BY <1>1
<1>4. db2[n] = Bump(db[n]) /\ \A s \in Node : s # n => db2[s] = db[s]
  OBVIOUS
<1>5. db[n].links = nbs /\ db[n].objs = fs
  BY DEF Fit, OwnFresh
<1> HIDE DEF db2
<1>6. Fit(n, db2, nbs, fs, r)
  BY <1>2, <1>3, <1>4, <1>5, FitKept
<1>7. QED
  BY <1>6 DEF db2

\* reload_local_lsa makes the own entry fit, and leaves the flags in agreement.
LEMMA ReloadFits ==
    ASSUME NEW n \in Node, NEW db \in [Node -> Lsa], NEW nbs \in SUBSET Node,
           NEW fs \in SUBSET Obj, FlagsAgree(n, db, nbs)
    PROVE  /\ OwnFresh(Reload(n, db, nbs, fs)[n], nbs, fs)
           /\ FlagsAgree(n, Reload(n, db, nbs, fs), nbs)
           /\ \A s \in Node : s # n => Reload(n, db, nbs, fs)[s] = db[s]
<1>1. /\ Reload(n, db, nbs, fs)[n] = LocalLsa(db[n].seq, nbs, fs)
      /\ \A s \in Node : s # n => Reload(n, db, nbs, fs)[s] = db[s]
  BY DEF Reload
<1>2. n \notin Nbr[n] /\ Nbr[n] \subseteq Node
  BY FloodAssumption
<1>3. OwnFresh(LocalLsa(db[n].seq, nbs, fs), nbs, fs)
  BY DEF OwnFresh, LocalLsa
<1>4. QED
  BY <1>1, <1>2, <1>3 DEF FlagsAgree

\* A step that leaves the tables of node k alone.
LEMMA OtherNode ==
    ASSUME NEW k \in Node, NodeOK(k), boots'[k] = boots[k], files'[k] = files[k],
           nb'[k] = nb[k], lsa'[k] = lsa[k], rt'[k] = rt[k],
           outq'[k] # {} => outq[k] # {} \/ wr'[k], wr[k] => wr'[k] \/ outq'[k] = {}
    PROVE  NodeOK(k)'
BY DEF NodeOK

-----------------------------------------------------------------------------
(* Every action.                                                           *)

\* Before any node runs.
LEMMA TablesInit == Init => TablesOK
BY DEF Init, TablesOK, NodeOK

\* A start or restart.
LEMMA TablesBoot ==
    ASSUME IType, TablesOK, NEW n \in Node, Boot(n) PROVE TablesOK'
<1> DEFINE own == LocalLsa(0, Nbr[n], files[n])
           db  == [[s \in Node |-> NoLsa] EXCEPT ![n] = own]
<1>1. Nbr[n] \in SUBSET Node /\ files[n] \in SUBSET Obj /\ n \notin Nbr[n]
  BY FloodAssumption DEF IType, TypeOK
<1>2. own \in Lsa
  BY <1>1, LocalLsaType
<1>3. OwnFresh(own, Nbr[n], files[n])
  BY DEF OwnFresh, LocalLsa
<1>4. NoLsa \in Lsa /\ NoLsa.st = "none"
  BY FloodAssumption DEF NoLsa, Lsa
<1>5. lsa' = [lsa EXCEPT ![n] = [db EXCEPT ![n] = Bump(own)]]
  BY DEF Boot
<1>6. rt' = [rt EXCEPT ![n] = RouteInput(n, db, Nbr[n])]
  BY DEF Boot
<1> HIDE DEF own
<1>7. /\ db \in [Node -> Lsa] /\ db[n] = own
      /\ \A s \in Node : s # n => db[s] = NoLsa
  BY <1>2, <1>4
<1> HIDE DEF db
<1>8. Fit(n, db, Nbr[n], files[n], RouteInput(n, db, Nbr[n]))
  BY <1>1, <1>3, <1>4, <1>7 DEF Fit, FlagsAgree
<1> DEFINE row == [db EXCEPT ![n] = Bump(db[n])]
<1>9. Fit(n, row, Nbr[n], files[n], RouteInput(n, db, Nbr[n]))
  BY <1>1, <1>7, <1>8, FitBump
<1>10. lsa' = [lsa EXCEPT ![n] = row]
  BY <1>5, <1>7
<1> HIDE DEF row
<1>11. /\ lsa'[n] = row /\ nb'[n] = Nbr[n] /\ files' = files
       /\ rt'[n] = RouteInput(n, db, Nbr[n]) /\ wr'[n] = TRUE
  BY <1>6, <1>10 DEF Boot, IType, TypeOK
<1>12. ASSUME NEW k \in Node, k # n PROVE NodeOK(k)'
  <2>1. /\ boots'[k] = boots[k] /\ files'[k] = files[k] /\ nb'[k] = nb[k]
        /\ lsa'[k] = lsa[k] /\ rt'[k] = rt[k] /\ outq'[k] = outq[k]
        /\ wr'[k] = wr[k]
    BY <1>6, <1>10, <1>12 DEF Boot, IType, TypeOK
  <2>2. QED
    BY <2>1, OtherNode DEF TablesOK
<1>13. NodeOK(n)'
  BY <1>9, <1>11 DEF NodeOK
<1>14. QED
  BY <1>12, <1>13 DEF TablesOK


\* A new file.
LEMMA TablesAddFile ==
    ASSUME IType, TablesOK, NEW n \in Node, NEW o \in Obj, AddFile(n, o)
    PROVE  TablesOK'
<1> DEFINE fs  == files[n] \cup {o}
           db  == Reload(n, lsa[n], nb[n], fs)
           row == [db EXCEPT ![n] = Bump(db[n])]
<1>1. /\ fs \in SUBSET Obj /\ nb[n] \in SUBSET Node /\ lsa[n] \in [Node -> Lsa]
      /\ Fit(n, lsa[n], nb[n], files[n], rt[n])
  BY DEF IType, TypeOK, TablesOK, NodeOK, AddFile
<1>2. /\ files' = [files EXCEPT ![n] = fs]
      /\ lsa' = [lsa EXCEPT ![n] = [db EXCEPT ![n] = Bump(@)]]
      /\ wr' = [wr EXCEPT ![n] = TRUE]
      /\ outq' = [outq EXCEPT ![n] = @ \cup Flood(n, n, db[n], nb[n], {})]
      /\ UNCHANGED <<boots, nb, rt>>
  BY DEF AddFile
<1> HIDE DEF fs
<1>3. db \in [Node -> Lsa]
  BY <1>1, ReloadType
<1>4. /\ OwnFresh(db[n], nb[n], fs)
      /\ \A s \in Node : s # n => db[s] = lsa[n][s]
  BY <1>1, ReloadFits DEF Fit
<1>5. Fit(n, db, nb[n], fs, rt[n])
  <2> HIDE DEF db
  <2>1. lsa[n][n].st = "valid"
    BY <1>1 DEF Fit, OwnFresh
  <2>2. QED
    BY <1>1, <1>3, <1>4, <2>1, FitKept DEF OwnFresh
<1>6. lsa' = [lsa EXCEPT ![n] = row]
  BY <1>2, <1>3
<1>7. Fit(n, row, nb[n], fs, rt[n])
  <2> HIDE DEF db
  <2>1. QED
    BY <1>1, <1>3, <1>5, FitBump
<1> HIDE DEF db, row
<1>8. ASSUME NEW k \in Node, k # n PROVE NodeOK(k)'
  <2>1. /\ boots'[k] = boots[k] /\ files'[k] = files[k] /\ nb'[k] = nb[k]
        /\ lsa'[k] = lsa[k] /\ rt'[k] = rt[k] /\ outq'[k] = outq[k]
        /\ wr'[k] = wr[k]
    BY <1>2, <1>6, <1>8 DEF IType, TypeOK
  <2>2. QED
    BY <2>1, OtherNode DEF TablesOK
<1>9. NodeOK(n)'
  <2>1. /\ lsa'[n] = row /\ nb'[n] = nb[n] /\ files'[n] = fs
        /\ rt'[n] = rt[n] /\ wr'[n] = TRUE
    BY <1>2, <1>6 DEF IType, TypeOK
  <2>2. QED
    BY <1>7, <2>1 DEF NodeOK
<1>10. QED
  BY <1>8, <1>9 DEF TablesOK

\* A new LSA: the neighbour that is back gets its flag, the own LSA its link.
LEMMA TablesRecvNewAd ==
    ASSUME IType, TablesOK, NEW m \in net, RecvNewAd(m) PROVE TablesOK'
<1> DEFINE n     == m.dst
           s     == m.snder
           new   == Stored(m)
           nbs   == IF IsBack(n, s) THEN nb[n] \cup {s} ELSE nb[n]
           got   == [lsa[n] EXCEPT ![s] = new]
           db    == IF IsBack(n, s) THEN Reload(n, got, nbs, files[n]) ELSE got
           relay == IF Relays(m) THEN Flood(n, s, new, nbs, {m.src}) ELSE {}
<1>0. /\ Arrive(m) /\ s # n
      /\ nb' = [nb EXCEPT ![n] = nbs]
      /\ lsa' = [lsa EXCEPT ![n] = db]
      /\ rt' = [rt EXCEPT ![n] = RouteInput(n, db, nbs)]
      /\ Enqueue(n, relay \cup {Reply(m, "ack", m.seq)})
      /\ UNCHANGED <<boots, files>>
  BY DEF RecvNewAd, UpdateRouteInfo
<1>1. /\ m \in Packet /\ n \in Node /\ s \in Node /\ m.seq \in Nat /\ boots[n] > 0
  BY <1>0, ArriveType DEF IType, Up
<1>2. new \in Lsa /\ new.st = "valid"
  BY <1>1, FloodAssumption DEF Stored, Lsa, Packet
<1>3. /\ nb[n] \in SUBSET Node /\ nbs \in SUBSET Node /\ files[n] \in SUBSET Obj
      /\ lsa[n] \in [Node -> Lsa]
  BY <1>1 DEF IType, TypeOK
<1>4. OwnFresh(lsa[n][n], nb[n], files[n]) /\ FlagsAgree(n, lsa[n], nb[n])
  BY <1>1 DEF TablesOK, NodeOK, Fit
<1> HIDE DEF new
<1>5. /\ got \in [Node -> Lsa] /\ got[n] = lsa[n][n] /\ got[s] = new
      /\ \A t \in Node : t # s => got[t] = lsa[n][t]
  BY <1>0, <1>1, <1>2, <1>3
<1> HIDE DEF got
<1>6. FlagsAgree(n, got, nbs)
  <2>1. \A t \in Nbr[n] : t \in Node
    BY <1>1, FloodAssumption
  <2>2. nbs \subseteq Nbr[n]
    BY <1>4 DEF FlagsAgree, IsBack
  <2>3. ASSUME NEW t \in Nbr[n] PROVE t \in nbs <=> got[t].st # "invalid"
    <3>1. CASE t = s
      BY <1>2, <1>4, <1>5, <3>1 DEF FlagsAgree, IsBack
    <3>2. CASE t # s
      BY <1>4, <1>5, <2>1, <3>2 DEF FlagsAgree
    <3>3. QED
      BY <3>1, <3>2
  <2>4. QED
    BY <2>2, <2>3 DEF FlagsAgree
<1>7. OwnFresh(db[n], nbs, files[n]) /\ FlagsAgree(n, db, nbs)
  <2>1. CASE IsBack(n, s)
    <3> HIDE DEF nbs
    <3>1. QED
      BY <1>1, <1>3, <1>5, <1>6, <2>1, ReloadFits
  <2>2. CASE ~IsBack(n, s)
    BY <1>4, <1>5, <1>6, <2>2
  <2>3. QED
    BY <2>1, <2>2
<1> HIDE DEF nbs, db, relay
<1>8. Fit(n, db, nbs, files[n], RouteInput(n, db, nbs))
  BY <1>7 DEF Fit
<1>9. outq' = [outq EXCEPT ![n] = @ \cup (relay \cup {Reply(m, "ack", m.seq)})]
  BY <1>0 DEF Enqueue
<1>10. wr' = [wr EXCEPT ![n] = TRUE]
  BY <1>0 DEF Enqueue
<1> HIDE DEF n
<1>11. ASSUME NEW k \in Node, k # n PROVE NodeOK(k)'
  <2>1. /\ boots'[k] = boots[k] /\ files'[k] = files[k] /\ nb'[k] = nb[k]
        /\ lsa'[k] = lsa[k] /\ rt'[k] = rt[k] /\ outq'[k] = outq[k]
        /\ wr'[k] = wr[k]
    BY <1>0, <1>1, <1>9, <1>10, <1>11 DEF IType, TypeOK
  <2>2. QED
    BY <2>1, OtherNode DEF TablesOK
<1>12. NodeOK(n)'
  <2>1. /\ lsa'[n] = db /\ nb'[n] = nbs /\ files'[n] = files[n]
        /\ rt'[n] = RouteInput(n, db, nbs) /\ wr'[n] = TRUE
    BY <1>0, <1>1, <1>10 DEF IType, TypeOK
  <2>2. QED
    BY <1>8, <2>1 DEF NodeOK
<1>13. QED
  BY <1>1, <1>11, <1>12 DEF TablesOK

\* Setting the number of one entry of a table leaves it fitting.
LEMMA FitSeq ==
    ASSUME NEW n \in Node, NEW s \in Node, NEW db \in [Node -> Lsa],
           NEW nbs \in SUBSET Node, NEW fs, NEW r, Fit(n, db, nbs, fs, r),
           NEW l \in Lsa, l.st = db[s].st, l.links = db[s].links,
           l.objs = db[s].objs
    PROVE  Fit(n, [db EXCEPT ![s] = l], nbs, fs, r)
<1> DEFINE db2 == [db EXCEPT ![s] = l]
<1>1. /\ db2 \in [Node -> Lsa] /\ db2[s] = l
      /\ \A t \in Node : t # s => db2[t] = db[t]
  OBVIOUS
<1>2. db[n].links = nbs /\ db[n].objs = fs
  BY DEF Fit, OwnFresh
<1> HIDE DEF db2
<1>3. \A t \in Node : db2[t].st = db[t].st /\ db2[t].links = db[t].links
  BY <1>1
<1>4. db2[n].objs = fs
  BY <1>1, <1>2
<1>5. Fit(n, db2, nbs, fs, r)
  BY <1>1, <1>2, <1>3, <1>4, FitKept
<1>6. QED
  BY <1>5 DEF db2

\* The other datagrams change at most sequence numbers.
LEMMA TablesReceive ==
    ASSUME IType, TablesOK, NEW m \in net, Receive(m) PROVE TablesOK'
<1>1. CASE RecvNewAd(m)
  BY <1>1, TablesRecvNewAd
<1>2. CASE RecvRestartAd(m) \/ RecvStaleAd(m) \/ RecvAck(m)
  <2>1. /\ UNCHANGED <<boots, files, nb, lsa, rt>>
        /\ UNCHANGED <<outq, wr>> \/ \E ps : Enqueue(m.dst, ps)
    BY <1>2 DEF RecvRestartAd, RecvStaleAd, RecvAck
  <2> SUFFICES ASSUME NEW k \in Node PROVE NodeOK(k)'
    BY DEF TablesOK
  <2>2. \/ outq'[k] = outq[k] /\ wr'[k] = wr[k]
        \/ wr'[k] = TRUE
    BY <2>1 DEF Enqueue, IType, TypeOK
  <2>3. QED
    BY <2>1, <2>2 DEF TablesOK, NodeOK
<1>3. CASE RecvSeqRelay(m)
  <2> DEFINE n == m.dst
             s == m.snder
             l == [lsa[n][s] EXCEPT !.seq = m.seq]
             row == [lsa[n] EXCEPT ![s] = l]
  <2>1. /\ n \in Node /\ s \in Node /\ s # n /\ m.seq \in Nat /\ boots[n] > 0
        /\ UNCHANGED <<boots, files, nb, rt, outq, wr>>
    BY <1>3, ArriveType DEF RecvSeqRelay, IType, Up
  <2>2. lsa' = lsa \/ lsa' = [lsa EXCEPT ![n] = row]
    BY <1>3 DEF RecvSeqRelay
  <2>3. /\ lsa[n] \in [Node -> Lsa] /\ nb[n] \in SUBSET Node /\ lsa[n][s] \in Lsa
        /\ Fit(n, lsa[n], nb[n], files[n], rt[n])
    BY <2>1 DEF IType, TypeOK, TablesOK, NodeOK
  <2>4. /\ l \in Lsa /\ l.st = lsa[n][s].st /\ l.links = lsa[n][s].links
        /\ l.objs = lsa[n][s].objs
    BY <2>1, <2>3 DEF Lsa
  <2> HIDE DEF l, n, s
  <2>5. Fit(n, row, nb[n], files[n], rt[n])
    BY <2>1, <2>3, <2>4, FitSeq
  <2> HIDE DEF row
  <2>6. \A k \in Node : lsa'[k] = lsa[k] \/ (k = n /\ lsa'[k] = row)
    BY <2>1, <2>2 DEF IType, TypeOK
  <2>7. QED
    BY <2>1, <2>5, <2>6 DEF TablesOK, NodeOK
<1>4. CASE RecvSeqOwner(m)
  <2> DEFINE n == m.dst
             own == [lsa[n][n] EXCEPT !.seq = m.seq + 1]
             row == [lsa[n] EXCEPT ![n] = Bump(own)]
  <2>1. /\ n \in Node /\ m.seq \in Nat /\ boots[n] > 0
        /\ UNCHANGED <<boots, files, nb, rt>>
    BY <1>4, ArriveType DEF RecvSeqOwner, IType, Up
  <2>2. \/ UNCHANGED <<lsa, outq, wr>>
        \/ /\ lsa' = [lsa EXCEPT ![n] = row]
           /\ \E ps : Enqueue(n, ps)
    BY <1>4 DEF RecvSeqOwner
  <2>3. /\ lsa[n] \in [Node -> Lsa] /\ nb[n] \in SUBSET Node /\ lsa[n][n] \in Lsa
        /\ Fit(n, lsa[n], nb[n], files[n], rt[n])
    BY <2>1 DEF IType, TypeOK, TablesOK, NodeOK
  <2>4. /\ Bump(own) \in Lsa /\ Bump(own).st = lsa[n][n].st
        /\ Bump(own).links = lsa[n][n].links /\ Bump(own).objs = lsa[n][n].objs
    <3>1. own \in Lsa /\ own.st = lsa[n][n].st /\ own.links = lsa[n][n].links
          /\ own.objs = lsa[n][n].objs
      BY <2>1, <2>3 DEF Lsa
    <3> HIDE DEF own
    <3>2. QED
      BY <3>1, BumpType DEF Bump, Lsa
  <2> HIDE DEF own, n
  <2>5. Fit(n, row, nb[n], files[n], rt[n])
    BY <2>1, <2>3, <2>4, FitSeq
  <2> HIDE DEF row
  <2>6. ASSUME NEW k \in Node
        PROVE  /\ lsa'[k] = lsa[k] \/ (k = n /\ lsa'[k] = row)
               /\ (outq'[k] = outq[k] /\ wr'[k] = wr[k]) \/ wr'[k] = TRUE
    <3>1. CASE UNCHANGED <<lsa, outq, wr>>
      BY <3>1
    <3>2. CASE /\ lsa' = [lsa EXCEPT ![n] = row]
               /\ \E ps : Enqueue(n, ps)
      <4>1. lsa'[k] = lsa[k] \/ (k = n /\ lsa'[k] = row)
        BY <2>1, <3>2 DEF IType, TypeOK
      <4>2. PICK ps : /\ outq' = [outq EXCEPT ![n] = @ \cup ps]
                      /\ wr' = [wr EXCEPT ![n] = TRUE]
        BY <3>2 DEF Enqueue
      <4>3. (outq'[k] = outq[k] /\ wr'[k] = wr[k]) \/ wr'[k] = TRUE
        BY <4>2 DEF IType, TypeOK
      <4>4. QED
        BY <4>1, <4>3
    <3>3. QED
      BY <2>2, <3>1, <3>2
  <2>7. QED
    BY <2>1, <2>5, <2>6 DEF TablesOK, NodeOK
<1>5. QED
  BY <1>1, <1>2, <1>3, <1>4 DEF Receive

\* Sending empties the queue and leaves wrset.
LEMMA TablesSend ==
    ASSUME IType, TablesOK, NEW n \in Node, SendRdInfo(n) PROVE TablesOK'
<1> SUFFICES ASSUME NEW k \in Node PROVE NodeOK(k)'
  BY DEF TablesOK
<1>1. /\ UNCHANGED <<boots, files, nb, lsa, rt>>
      /\ outq' = [outq EXCEPT ![n] = {}] /\ wr' = [wr EXCEPT ![n] = FALSE]
  BY DEF SendRdInfo
<1>1a. k = n => outq'[k] = {}
  BY <1>1 DEF IType, TypeOK
<1>1b. k # n => outq'[k] = outq[k] /\ wr'[k] = wr[k]
  BY <1>1 DEF IType, TypeOK
<1>2. QED
  BY <1>1, <1>1a, <1>1b DEF TablesOK, NodeOK

\* A tick: neighbours and LSAs go down together, and the own LSA follows.
LEMMA TablesHandleTimeOut ==
    ASSUME IType, TablesOK, NEW n \in Node, NEW expired \in SUBSET Aging(n),
           NEW adv \in BOOLEAN, NEW retran \in SUBSET pd[n],
           HandleTimeOut(n, expired, adv, retran)
    PROVE  TablesOK'
<1> DEFINE down == expired \cap Nbr[n]
           nbs  == nb[n] \ down
           aged == [s \in Node |-> IF s \in expired
                                   THEN [lsa[n][s] EXCEPT !.st = "invalid"]
                                   ELSE lsa[n][s]]
           db   == IF down = {} THEN aged ELSE Reload(n, aged, nbs, files[n])
           ads  == IF adv \/ down # {} THEN Flood(n, n, db[n], nbs, {}) ELSE {}
           row  == IF adv \/ down # {} THEN [db EXCEPT ![n] = Bump(db[n])] ELSE db
<1>0. /\ boots[n] > 0
      /\ nb' = [nb EXCEPT ![n] = nbs]
      /\ lsa' = [lsa EXCEPT ![n] = row]
      /\ UpdateRouteInfo(n, expired # {}, db, nbs)
      /\ outq' = [outq EXCEPT ![n] = @ \cup ads \cup retran]
      /\ wr' = [wr EXCEPT ![n] = @ \/ adv \/ down # {} \/ retran # {}]
      /\ UNCHANGED <<boots, files>>
  <2>1. lsa' = [lsa EXCEPT ![n] = IF adv \/ down # {}
                                  THEN [db EXCEPT ![n] = Bump(@)] ELSE db]
    BY DEF HandleTimeOut
  <2>2. [db EXCEPT ![n] = Bump(@)] = [db EXCEPT ![n] = Bump(db[n])]
    BY DEF Reload
  <2>3. QED
    BY <2>1, <2>2 DEF HandleTimeOut
<1>1. /\ nb[n] \in SUBSET Node /\ nbs \in SUBSET Node /\ files[n] \in SUBSET Obj
      /\ lsa[n] \in [Node -> Lsa] /\ Nbr[n] \subseteq Node /\ n \notin Nbr[n]
      /\ expired \subseteq Node /\ n \notin expired
  BY FloodAssumption DEF IType, TypeOK, Aging
<1>2. Fit(n, lsa[n], nb[n], files[n], rt[n])
  BY <1>0 DEF TablesOK, NodeOK
<1>3. /\ aged \in [Node -> Lsa] /\ aged[n] = lsa[n][n]
      /\ \A s \in expired : aged[s].st = "invalid"
      /\ \A s \in Node : s \notin expired => aged[s] = lsa[n][s]
  <2>1. \A l \in Lsa : [l EXCEPT !.st = "invalid"] \in Lsa
                       /\ [l EXCEPT !.st = "invalid"].st = "invalid"
    BY DEF Lsa
  <2>2. \A s \in Node : lsa[n][s] \in Lsa
    BY <1>1
  <2>3. QED
    BY <1>1, <2>1, <2>2
<1> HIDE DEF aged
<1>4. FlagsAgree(n, aged, nbs)
  BY <1>1, <1>2, <1>3 DEF Fit, FlagsAgree
<1>5. /\ OwnFresh(db[n], nbs, files[n]) /\ FlagsAgree(n, db, nbs)
      /\ db \in [Node -> Lsa]
  <2>1. CASE down = {}
    BY <1>2, <1>3, <1>4, <2>1 DEF Fit
  <2>2. CASE down # {}
    <3> HIDE DEF nbs
    <3>1. db = Reload(n, aged, nbs, files[n])
      BY <2>2
    <3>2. QED
      BY <1>1, <1>3, <1>4, <3>1, ReloadFits, ReloadType
  <2>3. QED
    BY <2>1, <2>2
<1>6. Fit(n, db, nbs, files[n], rt'[n])
  <2>1. CASE expired # {}
    <3>1. rt'[n] = RouteInput(n, db, nbs)
      <4> HIDE DEF db, nbs
      <4>1. QED
        BY <1>0, <2>1 DEF UpdateRouteInfo, IType, TypeOK
    <3>2. QED
      BY <1>5, <3>1 DEF Fit
  <2>2. CASE expired = {}
    <3>1. rt' = rt /\ nbs = nb[n] /\ db = aged
      BY <1>0, <2>2 DEF UpdateRouteInfo
    <3>2. aged = lsa[n]
      BY <1>1, <1>3, <2>2
    <3>3. QED
      BY <1>2, <3>1, <3>2
  <2>3. QED
    BY <2>1, <2>2
<1> HIDE DEF nbs, db
<1>7. Fit(n, row, nbs, files[n], rt'[n])
  BY <1>1, <1>5, <1>6, FitBump
<1>8. adv \/ down # {} \/ ads = {}
  OBVIOUS
<1> HIDE DEF row, ads, down
<1>9. ASSUME NEW k \in Node, k # n PROVE NodeOK(k)'
  <2>1. /\ boots'[k] = boots[k] /\ files'[k] = files[k] /\ nb'[k] = nb[k]
        /\ lsa'[k] = lsa[k] /\ outq'[k] = outq[k] /\ wr'[k] = wr[k]
    BY <1>0, <1>9 DEF IType, TypeOK
  <2>2. rt'[k] = rt[k]
    BY <1>0, <1>9 DEF UpdateRouteInfo, IType, TypeOK
  <2>3. QED
    BY <2>1, <2>2, OtherNode DEF TablesOK
<1>10. NodeOK(n)'
  <2>1. /\ lsa'[n] = row /\ nb'[n] = nbs /\ files'[n] = files[n]
        /\ outq'[n] = outq[n] \cup ads \cup retran
    BY <1>0 DEF IType, TypeOK
  <2>2. wr'[n] = (wr[n] \/ adv \/ down # {} \/ retran # {})
    BY <1>0 DEF IType, TypeOK
  <2>3. outq[n] # {} => wr[n]
    BY DEF TablesOK, NodeOK
  <2>4. outq'[n] # {} => wr'[n]
    BY <1>8, <2>1, <2>2, <2>3
  <2>5. QED
    BY <1>7, <2>1, <2>4 DEF NodeOK
<1>11. QED
  BY <1>9, <1>10 DEF TablesOK

-----------------------------------------------------------------------------
(* The theorems: in every topology, whatever the network does and whoever  *)
(* restarts.                                                               *)

\* Every step keeps the tables of every node fitting together.
LEMMA TablesInductive == Spec => []TablesOK
<1>1. IType /\ TablesOK /\ [Next]_vars => TablesOK'
  <2> SUFFICES ASSUME IType, TablesOK, [Next]_vars PROVE TablesOK'
    OBVIOUS
  <2>1. ASSUME NEW n \in Node, Boot(n) PROVE TablesOK'
    BY <2>1, TablesBoot
  <2>2. ASSUME NEW n \in Node, NEW o \in Obj, AddFile(n, o) PROVE TablesOK'
    BY <2>2, TablesAddFile
  <2>3. ASSUME NEW m \in net, Receive(m) PROVE TablesOK'
    BY <2>3, TablesReceive
  <2>4. ASSUME NEW n \in Node, SendRdInfo(n) PROVE TablesOK'
    BY <2>4, TablesSend
  <2>5. ASSUME NEW n \in Node, NEW expired \in SUBSET Aging(n), NEW adv \in BOOLEAN,
               NEW retran \in SUBSET pd[n], HandleTimeOut(n, expired, adv, retran)
        PROVE  TablesOK'
    BY <2>5, TablesHandleTimeOut
  <2>6. ASSUME NEW m \in net, Lose(m) PROVE TablesOK'
    BY <2>6 DEF Lose, nodeVars, TablesOK, NodeOK
  <2>7. CASE UNCHANGED vars
    BY <2>7 DEF vars, TablesOK, NodeOK
  <2>8. QED
    BY <2>1, <2>2, <2>3, <2>4, <2>5, <2>6, <2>7 DEF Next
<1>2. QED
  BY <1>1, TypeInductive, TablesInit, PTL DEF Spec

\* The own LSA of a running node describes its neighbours and its files as
\* they are: reload_local_lsa is missing nowhere.
THEOREM LocalLsaInvariance == Spec => []LocalLsaFresh
<1>1. TablesOK => LocalLsaFresh
  BY DEF TablesOK, NodeOK, Fit, OwnFresh, LocalLsaFresh, Up
<1>2. QED
  BY <1>1, TablesInductive, PTL

\* A neighbour is flagged down exactly while its LSA is timed out.
THEOREM NbLsaInvariance == Spec => []NbLsaAgree
<1>1. TablesOK => NbLsaAgree
  BY DEF TablesOK, NodeOK, Fit, FlagsAgree, NbLsaAgree, Up
<1>2. QED
  BY <1>1, TablesInductive, PTL

\* The route table is the one of the stored LSAs and the valid neighbours:
\* update_route_info is missing nowhere.
THEOREM RouteInvariance == Spec => []RouteFresh
<1>1. TablesOK => RouteFresh
  BY DEF TablesOK, NodeOK, Fit, RouteFresh, Up
<1>2. QED
  BY <1>1, TablesInductive, PTL

\* Together: the tables of a node never part.
THEOREM TablesInvariance == Spec => []TablesAgree
BY LocalLsaInvariance, NbLsaInvariance, RouteInvariance, PTL DEF TablesAgree

\* Nothing waits in a queue without the socket being in wrset.
THEOREM WakeupInvariance == Spec => []QueuedImpliesWr
<1>1. TablesOK => QueuedImpliesWr
  BY DEF TablesOK, NodeOK, QueuedImpliesWr
<1>2. QED
  BY <1>1, TablesInductive, PTL

-----------------------------------------------------------------------------
(* Sequence numbers: what a node stores never goes back, what it has       *)
(* queued or pending is never above what it stores, and there is at most   *)
(* one copy of it per neighbour.                                           *)

\* Table db2 is at least as far as table db.
Ahead(db, db2) ==
    \A s \in Node : /\ db2[s].seq >= db[s].seq
                    /\ db[s].st # "none" => db2[s].st # "none"

\* A sender without an entry has no number.
NoneIsZero(db) == \A s \in Node : db[s].st = "none" => db[s].seq = 0

\* Announcement p is not above what table db of node n allows.
Bound(n, db, p) ==
    IF p.snder = n THEN p.seq < db[n].seq
                   ELSE db[p.snder].st # "none" /\ p.seq <= db[p.snder].seq

\* An ACK for p would be one for r as well.
SameKey(p, r) == p.snder = r.snder /\ p.seq = r.seq /\ p.dst = r.dst

\* No two announcements of the set, queued or pending, have the same key.
Once(q, pend) ==
    /\ \A p \in q : p.type = "ad" => p \notin pend
    /\ \A p, r \in q \cup pend :
          p.type = "ad" /\ r.type = "ad" /\ SameKey(p, r) => p = r

\* The announcements in new may join what is in old: none has the key of
\* another one, and none is above what table db2 of node n allows.
NewFor(n, db2, old, new) ==
    /\ new \in SUBSET Packet
    /\ \A p \in new : p.type = "ad" /\ Bound(n, db2, p)
    /\ \A p, r \in new : SameKey(p, r) => p = r
    /\ \A p \in new : \A r \in old : r.type = "ad" => ~SameKey(p, r)

\* Queue q and pending set pend of node n are in order with its table db.
Numbers(n, db, q, pend) ==
    /\ NoneIsZero(db)
    /\ \A p \in q \cup pend : p.type = "ad" => Bound(n, db, p)
    /\ Once(q, pend)

\* One step of node n, with table db, queue q and pending set pend before it
\* and db2, q2 and pend2 after it: it queues the announcements in new, moves
\* those in back from pending to the queue and drops others from pending.
Step(n, db, q, pend, db2, q2, pend2, new, back) ==
    /\ n \in Node /\ db \in [Node -> Lsa] /\ db2 \in [Node -> Lsa]
    /\ q \in SUBSET Packet /\ q2 \in SUBSET Packet
    /\ pend \in SUBSET Packet /\ pend2 \subseteq pend /\ back \subseteq pend
    /\ Numbers(n, db, q, pend)
    /\ Ahead(db, db2) /\ NoneIsZero(db2)
    /\ NewFor(n, db2, q \cup pend, new)
    /\ \A p \in q2 : p.type = "ad" => p \in q \/ p \in new \/ p \in back
    /\ pend2 \cap back = {}

NumbersOK == \A k \in Node : Numbers(k, lsa[k], outq[k], pd[k])

\* No table of a node that does not restart goes back.
Grows == \A k \in Node : boots'[k] = boots[k] => Ahead(lsa[k], lsa'[k])

-----------------------------------------------------------------------------
(* Queues and tables.                                                      *)

\* What was in bounds stays in bounds when the table moves on.
LEMMA BoundKept ==
    ASSUME NEW n \in Node, NEW db \in [Node -> Lsa], NEW db2 \in [Node -> Lsa],
           Ahead(db, db2), NEW p \in Packet, Bound(n, db, p)
    PROVE  Bound(n, db2, p)
<1>1. p.snder \in Node /\ p.seq \in Nat
  BY DEF Packet
<1>2. \A s \in Node : db[s].seq \in Nat /\ db2[s].seq \in Nat
  BY DEF Lsa
<1>3. QED
  BY <1>1, <1>2 DEF Ahead, Bound

\* A step leaves queue and pending set in order.
LEMMA Advance ==
    ASSUME NEW n, NEW db, NEW q, NEW pend, NEW db2, NEW q2, NEW pend2,
           NEW new, NEW back, Step(n, db, q, pend, db2, q2, pend2, new, back)
    PROVE  Numbers(n, db2, q2, pend2)
<1> USE DEF Step
<1>1. \A p \in q \cup pend : p.type = "ad" => Bound(n, db2, p)
  BY BoundKept DEF Numbers
<1>2. /\ \A p \in new : p.type = "ad" /\ Bound(n, db2, p)
      /\ \A p, r \in new : SameKey(p, r) => p = r
      /\ \A p \in new : \A r \in q \cup pend : r.type = "ad" => ~SameKey(p, r)
  BY DEF NewFor
<1>3. ASSUME NEW p \in q2 \cup pend2, p.type = "ad"
      PROVE  p \in q \cup pend \/ p \in new
  BY <1>3
<1>4. \A p \in q2 \cup pend2 : p.type = "ad" => Bound(n, db2, p)
  BY <1>1, <1>2, <1>3
<1>5. \A p \in q2 : p.type = "ad" => p \notin pend2
  BY <1>2 DEF Numbers, Once, SameKey
<1>6. \A p, r \in q2 \cup pend2 :
         p.type = "ad" /\ r.type = "ad" /\ SameKey(p, r) => p = r
  BY <1>2, <1>3 DEF Numbers, Once, SameKey
<1>7. QED
  BY <1>4, <1>5, <1>6 DEF Numbers, Once

\* Nothing new is new.
LEMMA NothingNew == ASSUME NEW n, NEW db2, NEW old PROVE NewFor(n, db2, old, {})
BY DEF NewFor

\* A flood of a number not used before is new, one copy per neighbour.
LEMMA FloodNew ==
    ASSUME NEW n \in Node, NEW s \in Node, NEW l \in Lsa, l.ttl > 0,
           NEW nbs \in SUBSET Node, NEW from, NEW db2 \in [Node -> Lsa],
           NEW old \in SUBSET Packet,
           s = n => l.seq < db2[s].seq,
           s # n => db2[s].st # "none" /\ l.seq <= db2[s].seq,
           \A r \in old : r.type = "ad" /\ r.snder = s => r.seq < l.seq
    PROVE  NewFor(n, db2, old, Flood(n, s, l, nbs, from))
<1> DEFINE new == Flood(n, s, l, nbs, from)
<1>1. new \in SUBSET Packet /\ \A p \in new : p.type = "ad"
  BY FloodType
<1>2. \A p \in new : /\ p.snder = s /\ p.seq = l.seq
                     /\ p = AdPacket(n, s, l, p.dst)
  BY DEF Flood, AdPacket
<1>3. l.seq \in Nat /\ \A r \in old : r.seq \in Nat
  BY DEF Lsa, Packet
<1> HIDE DEF new
<1>4. \A p \in new : Bound(n, db2, p)
  BY <1>2 DEF Bound
<1>5. \A p, r \in new : SameKey(p, r) => p = r
  BY <1>2 DEF SameKey
<1>6. \A p \in new : \A r \in old : r.type = "ad" => ~SameKey(p, r)
  BY <1>2, <1>3 DEF SameKey
<1>7. NewFor(n, db2, old, new)
  BY <1>1, <1>4, <1>5, <1>6 DEF NewFor
<1>8. QED
  BY <1>7 DEF new

-----------------------------------------------------------------------------
(* Every action.                                                           *)

\* What the invariants proved so far say of a node.
LEMMA NodeTypes ==
    ASSUME IType, NEW n \in Node
    PROVE  /\ lsa[n] \in [Node -> Lsa] /\ nb[n] \in SUBSET Node
           /\ files[n] \in SUBSET Obj /\ outq[n] \in SUBSET Packet
           /\ pd[n] \in SUBSET Packet /\ \A p \in pd[n] : p.type = "ad"
           /\ \A s \in Node : lsa[n][s] \in Lsa /\ lsa[n][s].seq \in Nat
<1>1. \A s \in Node : lsa[n][s] \in Lsa
  BY DEF IType, TypeOK
<1>2. \A s \in Node : lsa[n][s].seq \in Nat
  BY <1>1 DEF Lsa
<1>3. QED
  BY <1>1, <1>2 DEF IType, TypeOK

\* Every table is as far as itself.
LEMMA AheadSame == ASSUME NEW db \in [Node -> Lsa] PROVE Ahead(db, db)
BY DEF Ahead, Lsa

\* A step of node n alone: the others keep what they have.
LEMMA NodeStep ==
    ASSUME IType, NumbersOK, NEW n \in Node,
           \A k \in Node : k # n => /\ lsa'[k] = lsa[k] /\ outq'[k] = outq[k]
                                    /\ pd'[k] = pd[k],
           Numbers(n, lsa'[n], outq'[n], pd'[n]),
           boots'[n] = boots[n] => Ahead(lsa[n], lsa'[n])
    PROVE  NumbersOK' /\ Grows
<1>1. \A k \in Node : k # n => Ahead(lsa[k], lsa'[k])
  BY AheadSame, NodeTypes
<1>2. Grows
  BY <1>1 DEF Grows
<1>3. NumbersOK'
  BY DEF NumbersOK
<1>4. QED
  BY <1>2, <1>3

\* Before any node runs.
LEMMA NumbersInit == Init => NumbersOK
BY DEF Init, NumbersOK, Numbers, NoneIsZero, NoLsa, Once

\* A start or restart: only the own flood is queued, with number 0.
LEMMA NumbersBoot ==
    ASSUME IType, NumbersOK, NEW n \in Node, Boot(n) PROVE NumbersOK' /\ Grows
<1> DEFINE own == LocalLsa(0, Nbr[n], files[n])
           db  == [[s \in Node |-> NoLsa] EXCEPT ![n] = own]
           row == [db EXCEPT ![n] = Bump(own)]
           new == Flood(n, n, own, Nbr[n], {})
<1>1. /\ Nbr[n] \in SUBSET Node /\ files[n] \in SUBSET Obj
  BY FloodAssumption, NodeTypes
<1>2. own \in Lsa /\ own.ttl > 0 /\ own.seq = 0 /\ own.st = "valid"
  BY <1>1, LocalLsaType, FloodAssumption DEF LocalLsa
<1>3. Bump(own) \in Lsa /\ Bump(own).seq = 1 /\ Bump(own).st = "valid"
  BY <1>2, BumpType DEF Bump, Lsa
<1>4. /\ lsa' = [lsa EXCEPT ![n] = row] /\ outq' = [outq EXCEPT ![n] = new]
      /\ pd' = [pd EXCEPT ![n] = {}] /\ boots' = [boots EXCEPT ![n] = @ + 1]
  BY DEF Boot
<1> HIDE DEF own
<1>5. NoLsa \in Lsa /\ NoLsa.st = "none" /\ NoLsa.seq = 0
  BY FloodAssumption DEF NoLsa, Lsa
<1>6. /\ row \in [Node -> Lsa] /\ row[n] = Bump(own)
      /\ \A s \in Node : s # n => row[s] = NoLsa
  BY <1>2, <1>3, <1>5
<1> HIDE DEF db, row
<1>7. NewFor(n, row, {}, new)
  <2>1. own.seq < row[n].seq
    BY <1>2, <1>3, <1>6
  <2>2. QED
    BY <1>1, <1>2, <1>6, <2>1, FloodNew
<1> HIDE DEF new
<1>8. NoneIsZero(row)
  BY <1>3, <1>5, <1>6 DEF NoneIsZero
<1>9. Numbers(n, row, new, {})
  BY <1>7, <1>8 DEF Numbers, Once, NewFor
<1>10. /\ lsa'[n] = row /\ outq'[n] = new /\ pd'[n] = {}
       /\ \A k \in Node : k # n => /\ lsa'[k] = lsa[k] /\ outq'[k] = outq[k]
                                   /\ pd'[k] = pd[k]
  BY <1>4 DEF IType, TypeOK
<1>11. boots'[n] # boots[n]
  BY <1>4 DEF IType, TypeOK
<1>12. QED
  BY <1>9, <1>10, <1>11, NodeStep

\* What the tables of a running node say of its own entry.
LEMMA OwnEntry ==
    ASSUME IType, TablesOK, NEW n \in Node, boots[n] > 0
    PROVE  lsa[n][n].st = "valid" /\ lsa[n][n].ttl = MaxTtl
BY DEF IType, OwnTtl, Up, TablesOK, NodeOK, Fit, OwnFresh

\* Rebuilding the own LSA keeps every number.
LEMMA ReloadNumbers ==
    ASSUME NEW n \in Node, NEW db \in [Node -> Lsa], NEW nbs \in SUBSET Node,
           NEW fs \in SUBSET Obj, NEW db2, db2 = Reload(n, db, nbs, fs)
    PROVE  /\ db2 \in [Node -> Lsa] /\ db2[n].seq = db[n].seq
           /\ db2[n].st = "valid" /\ db2[n].ttl = MaxTtl
           /\ \A s \in Node : s # n => db2[s] = db[s]
<1>1. db2 \in [Node -> Lsa]
  BY ReloadType
<1>2. db2[n] = LocalLsa(db[n].seq, nbs, fs)
  BY DEF Reload
<1>3. \A s \in Node : s # n => db2[s] = db[s]
  BY DEF Reload
<1>4. QED
  BY <1>1, <1>2, <1>3 DEF LocalLsa

\* Table row is table db with the own number increased.
Bumped(n, db, row) == db \in [Node -> Lsa] /\ row = [db EXCEPT ![n] = Bump(db[n])]

\* Increasing the own number.
LEMMA BumpOwn ==
    ASSUME NEW n \in Node, NEW db, NEW row, Bumped(n, db, row)
    PROVE  /\ row \in [Node -> Lsa] /\ row[n].st = db[n].st
           /\ row[n].seq = db[n].seq + 1
           /\ \A s \in Node : s # n => row[s] = db[s]
<1>1. db[n] \in Lsa /\ db[n].seq \in Nat
  BY DEF Lsa, Bumped
<1>2. /\ Bump(db[n]) \in Lsa /\ Bump(db[n]).seq = db[n].seq + 1
      /\ Bump(db[n]).st = db[n].st
  BY <1>1, BumpType DEF Bump, Lsa
<1>3. QED
  BY <1>2 DEF Bumped

\* The own LSA is flooded with the number it has, which is then increased.
LEMMA FloodOwn ==
    ASSUME NEW n \in Node, NEW db, NEW row, Bumped(n, db, row),
           NEW nbs \in SUBSET Node, NEW old \in SUBSET Packet, db[n].ttl = MaxTtl,
           \A r \in old : r.type = "ad" /\ r.snder = n => r.seq < db[n].seq
    PROVE  NewFor(n, row, old, Flood(n, n, db[n], nbs, {}))
<1>1. db[n] \in Lsa /\ db[n].seq \in Nat /\ db[n].ttl > 0
  BY FloodAssumption DEF Lsa, Bumped
<1>2. db[n].seq < row[n].seq /\ row \in [Node -> Lsa]
  BY <1>1, BumpOwn
<1>3. QED
  BY <1>1, <1>2, FloodNew

\* A new file: the own LSA is flooded with the next number.
LEMMA NumbersAddFile ==
    ASSUME IType, TablesOK, NumbersOK, NEW n \in Node, NEW o \in Obj, AddFile(n, o)
    PROVE  NumbersOK' /\ Grows
<1> DEFINE fs  == files[n] \cup {o}
           db  == Reload(n, lsa[n], nb[n], fs)
           row == [db EXCEPT ![n] = Bump(db[n])]
           new == Flood(n, n, db[n], nb[n], {})
           old == outq[n] \cup pd[n]
<1>1. /\ lsa' = [lsa EXCEPT ![n] = [db EXCEPT ![n] = Bump(@)]]
      /\ outq' = [outq EXCEPT ![n] = @ \cup new]
      /\ boots[n] > 0 /\ UNCHANGED <<boots, pd>> /\ fs \in SUBSET Obj
  BY NodeTypes DEF AddFile
<1> HIDE DEF fs
<1>1a. db = Reload(n, lsa[n], nb[n], fs)
  OBVIOUS
<1>1b. lsa' = [lsa EXCEPT ![n] = row]
  BY <1>1 DEF Reload
<1> HIDE DEF db
<1>2. /\ db \in [Node -> Lsa] /\ db[n].seq = lsa[n][n].seq /\ db[n].st = "valid"
      /\ db[n].ttl = MaxTtl /\ \A s \in Node : s # n => db[s] = lsa[n][s]
  <2>1. lsa[n] \in [Node -> Lsa] /\ nb[n] \in SUBSET Node
    BY NodeTypes
  <2>2. QED
    BY <1>1, <1>1a, <2>1, ReloadNumbers
<1>3. Bumped(n, db, row)
  BY <1>2 DEF Bumped
<1>4. Numbers(n, lsa[n], outq[n], pd[n]) /\ old \in SUBSET Packet
  BY NodeTypes DEF NumbersOK
<1>5. \A r \in old : r.type = "ad" /\ r.snder = n => r.seq < db[n].seq
  BY <1>2, <1>4 DEF Numbers, Bound
<1>6. NewFor(n, row, old, new)
  <2> HIDE DEF row, old
  <2>1. nb[n] \in SUBSET Node
    BY NodeTypes
  <2>2. QED
    BY <1>2, <1>3, <1>4, <1>5, <2>1, FloodOwn
<1> HIDE DEF row, new
<1>7. Ahead(lsa[n], row) /\ NoneIsZero(row) /\ row \in [Node -> Lsa]
  BY <1>2, <1>3, <1>4, BumpOwn, NodeTypes DEF Ahead, NoneIsZero, Numbers
<1>8. /\ lsa'[n] = row /\ outq'[n] = outq[n] \cup new /\ pd'[n] = pd[n]
      /\ \A k \in Node : k # n => /\ lsa'[k] = lsa[k] /\ outq'[k] = outq[k]
                                  /\ pd'[k] = pd[k]
  BY <1>1, <1>1b DEF IType, TypeOK
<1>9. Numbers(n, row, outq[n] \cup new, pd[n])
  <2>1. outq[n] \cup new \in SUBSET Packet
    BY <1>6, NodeTypes DEF NewFor
  <2>2. Step(n, lsa[n], outq[n], pd[n], row, outq[n] \cup new, pd[n], new, {})
    BY <1>4, <1>6, <1>7, <2>1, NodeTypes DEF Step
  <2>3. QED
    BY <2>2, Advance
<1>10. QED
  BY <1>7, <1>8, <1>9, NodeStep

\* A new LSA: it is above what was stored, and so above all that is queued.
LEMMA NumbersRecvNewAd ==
    ASSUME IType, TablesOK, NumbersOK, NEW m \in net, RecvNewAd(m)
    PROVE  NumbersOK' /\ Grows
<1> DEFINE n     == m.dst
           s     == m.snder
           new   == Stored(m)
           nbs   == IF IsBack(n, s) THEN nb[n] \cup {s} ELSE nb[n]
           got   == [lsa[n] EXCEPT ![s] = new]
           db    == IF IsBack(n, s) THEN Reload(n, got, nbs, files[n]) ELSE got
           relay == IF Relays(m) THEN Flood(n, s, new, nbs, {m.src}) ELSE {}
           ack   == Reply(m, "ack", m.seq)
<1>0. /\ Arrive(m) /\ s # n /\ IsNewer(m)
      /\ lsa' = [lsa EXCEPT ![n] = db]
      /\ outq' = [outq EXCEPT ![n] = @ \cup (relay \cup {ack})]
      /\ UNCHANGED <<boots, pd>>
  BY DEF RecvNewAd, Enqueue
<1>1. /\ m \in Packet /\ n \in Node /\ s \in Node /\ m.seq \in Nat /\ boots[n] > 0
  BY <1>0, ArriveType DEF IType, Up
<1>2. new \in Lsa /\ new.st = "valid" /\ new.seq = m.seq
  BY <1>1, FloodAssumption DEF Stored, Lsa, Packet
<1>3. /\ nb[n] \in SUBSET Node /\ nbs \in SUBSET Node /\ files[n] \in SUBSET Obj
      /\ lsa[n] \in [Node -> Lsa]
      /\ outq[n] \in SUBSET Packet /\ pd[n] \in SUBSET Packet
  BY <1>1, NodeTypes
<1>4. Numbers(n, lsa[n], outq[n], pd[n])
  BY <1>1 DEF NumbersOK
<1>5. /\ lsa[n][s].st = "none" \/ m.seq > lsa[n][s].seq
      /\ lsa[n][s].st = "none" => lsa[n][s].seq = 0
      /\ lsa[n][s].seq \in Nat /\ lsa[n][n].seq \in Nat
  BY <1>0, <1>1, <1>4, NodeTypes DEF IsNewer, Entry, Numbers, NoneIsZero
<1>6. Relays(m) => new.ttl > 0
  BY <1>1 DEF Relays, Stored, Packet
<1> HIDE DEF new
<1>7. /\ got \in [Node -> Lsa] /\ got[s] = new
      /\ \A t \in Node : t # s => got[t] = lsa[n][t]
  BY <1>1, <1>2, <1>3
<1> HIDE DEF got, nbs
<1>8. /\ db \in [Node -> Lsa] /\ db[s] = new /\ db[n].seq = lsa[n][n].seq
      /\ lsa[n][n].st # "none" => db[n].st # "none"
      /\ \A t \in Node : t # s /\ t # n => db[t] = lsa[n][t]
  <2>1. CASE IsBack(n, s)
    <3>1. db = Reload(n, got, nbs, files[n])
      BY <2>1
    <3> HIDE DEF db
    <3>2. /\ db \in [Node -> Lsa] /\ db[n].seq = got[n].seq
          /\ db[n].st = "valid" /\ \A t \in Node : t # n => db[t] = got[t]
      BY <1>1, <1>3, <1>7, <3>1, ReloadNumbers
    <3>3. QED
      BY <1>0, <1>1, <1>7, <3>2
  <2>2. CASE ~IsBack(n, s)
    BY <1>0, <1>1, <1>7, <2>2
  <2>3. QED
    BY <2>1, <2>2
<1>8a. lsa[n][n].st = "valid"
  BY <1>1, OwnEntry
<1> HIDE DEF db
<1>9. Ahead(lsa[n], db) /\ NoneIsZero(db)
  <2>1. Ahead(lsa[n], db)
    BY <1>0, <1>1, <1>2, <1>5, <1>8, NodeTypes DEF Ahead
  <2>2. NoneIsZero(db)
    BY <1>0, <1>1, <1>2, <1>4, <1>8, <1>8a DEF NoneIsZero, Numbers
  <2>3. QED
    BY <2>1, <2>2
<1>10. NewFor(n, db, outq[n] \cup pd[n], relay)
  <2>1. CASE Relays(m)
    <3>1. db[s].st # "none" /\ new.seq <= db[s].seq
      BY <1>1, <1>2, <1>8
    <3>2. ASSUME NEW r \in outq[n] \cup pd[n], r.type = "ad", r.snder = s
          PROVE  r.seq < new.seq
      <4>1. lsa[n][s].st # "none" /\ r.seq <= lsa[n][s].seq /\ r.seq \in Nat
        BY <1>0, <1>3, <1>4, <3>2 DEF Numbers, Bound, Packet
      <4>2. QED
        BY <1>1, <1>2, <1>5, <4>1
    <3>3. outq[n] \cup pd[n] \in SUBSET Packet
      BY <1>3
    <3> DEFINE old == outq[n] \cup pd[n]
    <3> HIDE DEF old
    <3>4. /\ old \in SUBSET Packet
          /\ \A r \in old : r.type = "ad" /\ r.snder = s => r.seq < new.seq
      BY <3>2, <3>3 DEF old
    <3>5. NewFor(n, db, old, Flood(n, s, new, nbs, {m.src}))
      BY <1>0, <1>1, <1>2, <1>3, <1>6, <1>8, <2>1, <3>1, <3>4, FloodNew
    <3>6. QED
      BY <2>1, <3>5 DEF old
  <2>2. CASE ~Relays(m)
    BY <2>2, NothingNew
  <2>3. QED
    BY <2>1, <2>2
<1>11. ack \in Packet /\ ack.type = "ack"
  BY <1>1, ReplyType DEF Reply
<1> HIDE DEF relay, ack
<1> DEFINE q2 == outq[n] \cup (relay \cup {ack})
<1>12. q2 \in SUBSET Packet
  BY <1>3, <1>10, <1>11 DEF NewFor
<1>13. Step(n, lsa[n], outq[n], pd[n], db, q2, pd[n], relay, {})
  BY <1>1, <1>3, <1>4, <1>8, <1>9, <1>10, <1>11, <1>12 DEF Step
<1>14. Numbers(n, db, q2, pd[n])
  BY <1>13, Advance
<1>15. /\ lsa'[n] = db /\ outq'[n] = q2 /\ pd'[n] = pd[n]
       /\ \A k \in Node : k # n => /\ lsa'[k] = lsa[k] /\ outq'[k] = outq[k]
                                   /\ pd'[k] = pd[k]
  BY <1>0, <1>1 DEF IType, TypeOK
<1> HIDE DEF n, q2
<1>16. QED
  BY <1>1, <1>9, <1>14, <1>15, NodeStep

\* A step of node n that queues no announcement.
LEMMA NodeQuietStep ==
    ASSUME IType, NumbersOK, NEW n \in Node, NEW row \in [Node -> Lsa],
           Ahead(lsa[n], row), NoneIsZero(row),
           lsa'[n] = row, outq'[n] \in SUBSET Packet, pd'[n] \subseteq pd[n],
           \A p \in outq'[n] : p.type = "ad" => p \in outq[n],
           \A k \in Node : k # n => /\ lsa'[k] = lsa[k] /\ outq'[k] = outq[k]
                                    /\ pd'[k] = pd[k]
    PROVE  NumbersOK' /\ Grows
<1>1. Numbers(n, lsa[n], outq[n], pd[n])
  BY DEF NumbersOK
<1>2. Step(n, lsa[n], outq[n], pd[n], row, outq'[n], pd'[n], {}, {})
  BY <1>1, NodeTypes, NothingNew DEF Step
<1>3. Numbers(n, row, outq'[n], pd'[n])
  BY <1>2, Advance
<1>4. QED
  BY <1>3, NodeStep

\* The other datagrams: answers are queued, pending announcements taken out,
\* and a SEQ moves a number on.
LEMMA NumbersReceive ==
    ASSUME IType, TablesOK, NumbersOK, NEW m \in net, Receive(m)
    PROVE  NumbersOK' /\ Grows
<1> DEFINE n == m.dst
           s == m.snder
<1>0. Arrive(m)
  BY DEF Receive, RecvRestartAd, RecvNewAd, RecvStaleAd, RecvAck, RecvSeqRelay,
         RecvSeqOwner
<1>1. m \in Packet /\ n \in Node /\ s \in Node /\ m.seq \in Nat /\ boots[n] > 0
  BY <1>0, ArriveType DEF IType, Up
<1>2. /\ lsa[n] \in [Node -> Lsa] /\ nb[n] \in SUBSET Node
      /\ outq[n] \in SUBSET Packet /\ pd[n] \in SUBSET Packet
      /\ lsa[n][s] \in Lsa /\ lsa[n][n] \in Lsa
      /\ Numbers(n, lsa[n], outq[n], pd[n]) /\ NoneIsZero(lsa[n])
  BY <1>1, NodeTypes DEF NumbersOK, Numbers
<1>3. lsa[n][s].seq \in Nat /\ lsa[n][n].seq \in Nat /\ Ahead(lsa[n], lsa[n])
  BY <1>2, AheadSame DEF Lsa
<1>4. CASE RecvNewAd(m)
  BY <1>4, NumbersRecvNewAd
<1>5. CASE RecvRestartAd(m) \/ RecvStaleAd(m)
  <2>1. /\ UNCHANGED <<lsa, pd>>
        /\ \/ UNCHANGED outq
           \/ \E t \in {"ack", "seq"}, q \in Nat :
                 outq' = [outq EXCEPT ![n] = @ \cup {Reply(m, t, q)}]
    BY <1>1, <1>3, <1>5 DEF RecvRestartAd, RecvStaleAd, Enqueue, Entry
  <2>2. CASE UNCHANGED outq
    BY <1>1, <1>2, <1>3, <2>1, <2>2, NodeQuietStep
  <2>3. CASE \E t \in {"ack", "seq"}, q \in Nat :
                 outq' = [outq EXCEPT ![n] = @ \cup {Reply(m, t, q)}]
    <3>1. PICK t \in {"ack", "seq"}, q \in Nat :
                 outq' = [outq EXCEPT ![n] = @ \cup {Reply(m, t, q)}]
      BY <2>3
    <3>2. Reply(m, t, q) \in Packet /\ Reply(m, t, q).type # "ad"
      BY <1>1, ReplyType DEF Reply
    <3>3. /\ outq'[n] = outq[n] \cup {Reply(m, t, q)}
          /\ \A k \in Node : k # n => outq'[k] = outq[k]
      BY <1>1, <3>1 DEF IType, TypeOK
    <3> HIDE DEF n
    <3>4. QED
      BY <1>1, <1>2, <1>3, <2>1, <3>2, <3>3, NodeQuietStep
  <2>4. QED
    BY <2>1, <2>2, <2>3
<1>6. CASE RecvAck(m)
  <2>1. /\ UNCHANGED <<lsa, outq>>
        /\ Unpends(n, s, m.seq, m.src)
    BY <1>6 DEF RecvAck, Unpends
  <2>2. /\ pd'[n] \subseteq pd[n] /\ \A k \in Node : k # n => pd'[k] = pd[k]
    BY <1>1, <2>1, UnpendStep DEF IType
  <2> HIDE DEF n
  <2>3. QED
    BY <1>1, <1>2, <1>3, <2>1, <2>2, NodeQuietStep
<1>7. CASE RecvSeqRelay(m)
  <2> DEFINE l   == [lsa[n][s] EXCEPT !.seq = m.seq]
             far == lsa[n][s].st # "none" /\ lsa[n][s].seq < m.seq
             row == IF far THEN [lsa[n] EXCEPT ![s] = l] ELSE lsa[n]
  <2>1. /\ UNCHANGED outq
        /\ Unpends(n, s, 0, m.src)
    BY <1>7 DEF RecvSeqRelay, Unpends
  <2>2. lsa' = IF far THEN [lsa EXCEPT ![n] = [@ EXCEPT ![s] = l]] ELSE lsa
    BY <1>7 DEF RecvSeqRelay, Entry
  <2>3. /\ pd'[n] \subseteq pd[n] /\ \A k \in Node : k # n => pd'[k] = pd[k]
    BY <1>1, <2>1, UnpendStep DEF IType
  <2>4. l \in Lsa /\ l.seq = m.seq /\ l.st = lsa[n][s].st
    BY <1>1, <1>2 DEF Lsa
  <2> HIDE DEF l, n, s
  <2>5. row \in [Node -> Lsa] /\ Ahead(lsa[n], row) /\ NoneIsZero(row)
    <3>1. CASE far
      <4>1. /\ row[s] = l /\ \A t \in Node : t # s => row[t] = lsa[n][t]
            /\ row \in [Node -> Lsa]
        BY <1>1, <1>2, <2>4, <3>1
      <4> HIDE DEF row
      <4>2. Ahead(lsa[n], row)
        BY <1>1, <1>2, <1>3, <2>4, <3>1, <4>1, NodeTypes DEF Ahead
      <4>3. NoneIsZero(row)
        BY <1>1, <1>2, <2>4, <3>1, <4>1 DEF NoneIsZero
      <4>4. QED
        BY <4>1, <4>2, <4>3
    <3>2. CASE ~far
      BY <1>2, <1>3, <3>2
    <3>3. QED
      BY <3>1, <3>2
  <2>6. lsa' = [lsa EXCEPT ![n] = row]
    BY <1>1, <2>2 DEF IType, TypeOK
  <2> HIDE DEF row
  <2>7. lsa'[n] = row /\ \A k \in Node : k # n => lsa'[k] = lsa[k]
    BY <1>1, <2>6 DEF IType, TypeOK
  <2>8. QED
    BY <1>1, <1>2, <2>1, <2>3, <2>5, <2>7, NodeQuietStep
<1>8. CASE RecvSeqOwner(m)
  <2> DEFINE own == [lsa[n][n] EXCEPT !.seq = m.seq + 1]
             far == lsa[n][n].seq < m.seq + 1
             db  == [lsa[n] EXCEPT ![n] = own]
             row == [db EXCEPT ![n] = Bump(db[n])]
             new == Flood(n, n, db[n], nb[n], {})
             old == outq[n] \cup pd[n]
  <2>1. /\ UNCHANGED boots
        /\ Unpends(n, n, 0, m.src)
    BY <1>8 DEF RecvSeqOwner, Unpends
  <2>2. IF far THEN /\ lsa' = [lsa EXCEPT ![n] = [@ EXCEPT ![n] = Bump(own)]]
                    /\ outq' = [outq EXCEPT ![n] = @ \cup Flood(n, n, own, nb[n], {})]
        ELSE UNCHANGED <<lsa, outq>>
    BY <1>8 DEF RecvSeqOwner, Enqueue
  <2>3. /\ pd'[n] \subseteq pd[n] /\ \A k \in Node : k # n => pd'[k] = pd[k]
    BY <1>1, <2>1, UnpendStep DEF IType
  <2>4. CASE ~far
    <3> HIDE DEF n
    <3>1. QED
      BY <1>1, <1>2, <1>3, <2>2, <2>3, <2>4, NodeQuietStep
  <2>5. CASE far
    <3>1. lsa[n][n].st = "valid" /\ lsa[n][n].ttl = MaxTtl
      BY <1>1, OwnEntry
    <3>2. own \in Lsa /\ own.seq = m.seq + 1 /\ own.st = "valid" /\ own.ttl = MaxTtl
      BY <1>1, <1>2, <3>1 DEF Lsa
    <3> HIDE DEF own, n
    <3>3. /\ db \in [Node -> Lsa] /\ db[n] = own
          /\ \A t \in Node : t # n => db[t] = lsa[n][t]
      BY <1>1, <1>2, <3>2
    <3>4. lsa' = [lsa EXCEPT ![n] = row]
      <4>1. row = [lsa[n] EXCEPT ![n] = Bump(own)]
        BY <1>1, <1>2, <3>3
      <4>2. QED
        BY <2>2, <2>5, <4>1
    <3>5. outq' = [outq EXCEPT ![n] = @ \cup new]
      BY <2>2, <2>5, <3>3
    <3> HIDE DEF db
    <3>6. Bumped(n, db, row)
      BY <3>3 DEF Bumped
    <3> HIDE DEF row
    <3>7. /\ row \in [Node -> Lsa] /\ row[n].st = "valid"
          /\ row[n].seq = m.seq + 2
          /\ \A t \in Node : t # n => row[t] = lsa[n][t]
      BY <1>1, <3>2, <3>3, <3>6, BumpOwn
    <3>8. Ahead(lsa[n], row) /\ NoneIsZero(row)
      BY <1>1, <1>2, <1>3, <2>5, <3>7, NodeTypes DEF Ahead, NoneIsZero
    <3>9. /\ old \in SUBSET Packet
          /\ \A r \in old : r.type = "ad" /\ r.snder = n => r.seq < db[n].seq
      <4>1. \A r \in old : r \in Packet /\ r.seq \in Nat
        BY <1>2 DEF Packet
      <4>2. \A r \in old : r.type = "ad" /\ r.snder = n => r.seq < lsa[n][n].seq
        BY <1>2 DEF Numbers, Bound
      <4>3. db[n].seq = m.seq + 1
        BY <3>2, <3>3
      <4> HIDE DEF old
      <4>4. QED
        BY <1>1, <1>3, <2>5, <4>1, <4>2, <4>3
    <3>10. NewFor(n, row, old, new)
      <4>1. db[n].ttl = MaxTtl
        BY <3>2, <3>3
      <4> HIDE DEF old
      <4>2. QED
        BY <1>1, <1>2, <3>6, <3>9, <4>1, FloodOwn
    <3> HIDE DEF new
    <3>11. Step(n, lsa[n], outq[n], pd[n], row, outq[n] \cup new, pd'[n], new, {})
      BY <1>1, <1>2, <2>3, <3>7, <3>8, <3>10 DEF Step, NewFor
    <3>12. Numbers(n, row, outq[n] \cup new, pd'[n])
      BY <3>11, Advance
    <3>13. /\ lsa'[n] = row /\ outq'[n] = outq[n] \cup new
           /\ \A k \in Node : k # n => lsa'[k] = lsa[k] /\ outq'[k] = outq[k]
      BY <1>1, <3>4, <3>5 DEF IType, TypeOK
    <3>14. QED
      BY <1>1, <2>3, <3>8, <3>12, <3>13, NodeStep
  <2>6. QED
    BY <2>4, <2>5
<1>9. QED
  BY <1>4, <1>5, <1>6, <1>7, <1>8 DEF Receive

\* Sending: the queued announcements become the pending ones.
LEMMA NumbersSend ==
    ASSUME IType, NumbersOK, NEW n \in Node, SendRdInfo(n)
    PROVE  NumbersOK' /\ Grows
<1>1. /\ UNCHANGED <<boots, lsa>>
      /\ outq' = [outq EXCEPT ![n] = {}]
      /\ pd' = [pd EXCEPT ![n] = @ \cup Keep(outq[n])]
  BY DEF SendRdInfo
<1>2. /\ outq'[n] = {} /\ pd'[n] = pd[n] \cup Keep(outq[n])
      /\ \A k \in Node : k # n => outq'[k] = outq[k] /\ pd'[k] = pd[k]
  BY <1>1 DEF IType, TypeOK
<1>3. Numbers(n, lsa[n], outq[n], pd[n])
  BY DEF NumbersOK
<1>4. \A p \in outq'[n] \cup pd'[n] : p \in outq[n] \cup pd[n]
  BY <1>2 DEF Keep
<1>5. Numbers(n, lsa[n], outq'[n], pd'[n])
  BY <1>2, <1>3, <1>4 DEF Numbers, Once
<1>6. Ahead(lsa[n], lsa'[n])
  BY <1>1, NodeTypes, AheadSame
<1>7. QED
  BY <1>1, <1>2, <1>5, <1>6, NodeStep

\* A tick: an own flood has the next number, a retransmission leaves the
\* pending set before it is queued.
LEMMA NumbersHandleTimeOut ==
    ASSUME IType, TablesOK, NumbersOK, NEW n \in Node,
           NEW expired \in SUBSET Aging(n), NEW adv \in BOOLEAN,
           NEW retran \in SUBSET pd[n], HandleTimeOut(n, expired, adv, retran)
    PROVE  NumbersOK' /\ Grows
<1> DEFINE down  == expired \cap Nbr[n]
           nbs   == nb[n] \ down
           aged  == [s \in Node |-> IF s \in expired
                                    THEN [lsa[n][s] EXCEPT !.st = "invalid"]
                                    ELSE lsa[n][s]]
           db    == IF down = {} THEN aged ELSE Reload(n, aged, nbs, files[n])
           left  == {p \in pd[n] : p.dst \notin down}
           flood == adv \/ down # {}
           ads   == IF flood THEN Flood(n, n, db[n], nbs, {}) ELSE {}
           row   == IF flood THEN [db EXCEPT ![n] = Bump(db[n])] ELSE db
           old   == outq[n] \cup pd[n]
<1>0. /\ boots[n] > 0 /\ UNCHANGED boots
      /\ lsa' = [lsa EXCEPT ![n] = row]
      /\ pd' = [pd EXCEPT ![n] = left \ retran]
      /\ outq' = [outq EXCEPT ![n] = @ \cup ads \cup retran]
  <2>1. lsa' = [lsa EXCEPT ![n] = IF adv \/ down # {}
                                  THEN [db EXCEPT ![n] = Bump(@)] ELSE db]
    BY DEF HandleTimeOut
  <2>2. [db EXCEPT ![n] = Bump(@)] = [db EXCEPT ![n] = Bump(db[n])]
    BY DEF Reload
  <2>3. QED
    BY <2>1, <2>2 DEF HandleTimeOut
<1>1. /\ lsa[n] \in [Node -> Lsa] /\ nbs \in SUBSET Node /\ files[n] \in SUBSET Obj
      /\ outq[n] \in SUBSET Packet /\ pd[n] \in SUBSET Packet
      /\ Numbers(n, lsa[n], outq[n], pd[n]) /\ NoneIsZero(lsa[n])
      /\ old \in SUBSET Packet
      /\ \A s \in Node : lsa[n][s].seq \in Nat
  BY NodeTypes DEF NumbersOK, Numbers
<1>2. lsa[n][n].st = "valid" /\ lsa[n][n].ttl = MaxTtl /\ n \notin expired
  BY <1>0, OwnEntry DEF Aging
<1>3. \A s \in Node : s \in expired => lsa[n][s].st = "valid"
  BY DEF Aging
<1>4. /\ aged \in [Node -> Lsa] /\ aged[n] = lsa[n][n]
      /\ \A s \in Node : /\ aged[s].seq = lsa[n][s].seq
                         /\ aged[s].st = "none" <=> lsa[n][s].st = "none"
  <2>1. \A l \in Lsa : /\ [l EXCEPT !.st = "invalid"] \in Lsa
                       /\ [l EXCEPT !.st = "invalid"].st = "invalid"
                       /\ [l EXCEPT !.st = "invalid"].seq = l.seq
    BY DEF Lsa
  <2>2. \A s \in Node : lsa[n][s] \in Lsa
    BY <1>1
  <2>3. QED
    BY <1>2, <1>3, <2>1, <2>2
<1> HIDE DEF aged, nbs
<1>5. /\ db \in [Node -> Lsa] /\ db[n].st = "valid" /\ db[n].ttl = MaxTtl
      /\ \A s \in Node : /\ db[s].seq = lsa[n][s].seq
                         /\ db[s].st = "none" <=> lsa[n][s].st = "none"
  <2>1. CASE down = {}
    BY <1>2, <1>4, <2>1
  <2>2. CASE down # {}
    <3>1. db = Reload(n, aged, nbs, files[n])
      BY <2>2
    <3> HIDE DEF db
    <3>2. /\ db \in [Node -> Lsa] /\ db[n].seq = aged[n].seq
          /\ db[n].st = "valid" /\ db[n].ttl = MaxTtl
          /\ \A s \in Node : s # n => db[s] = aged[s]
      <4>1. aged \in [Node -> Lsa] /\ nbs \in SUBSET Node /\ files[n] \in SUBSET Obj
        BY <1>1, <1>4
      <4>2. QED
        BY <3>1, <4>1, ReloadNumbers
    <3>3. ASSUME NEW s \in Node
          PROVE  db[s].seq = lsa[n][s].seq /\ (db[s].st = "none" <=> lsa[n][s].st = "none")
      <4>1. CASE s = n
        BY <1>2, <1>4, <3>2, <4>1
      <4>2. CASE s # n
        BY <1>4, <3>2, <4>2
      <4>3. QED
        BY <4>1, <4>2
    <3>4. QED
      BY <3>2, <3>3
  <2>3. QED
    BY <2>1, <2>2
<1> HIDE DEF db
<1>6. /\ row \in [Node -> Lsa]
      /\ flood => row[n].seq = lsa[n][n].seq + 1
      /\ ~flood => row[n].seq = lsa[n][n].seq
      /\ row[n].st = "valid"
      /\ \A s \in Node : s # n => row[s] = db[s]
  <2>1. CASE flood
    <3>1. Bumped(n, db, row)
      BY <1>5, <2>1 DEF Bumped
    <3> HIDE DEF row
    <3>2. QED
      BY <1>5, <2>1, <3>1, BumpOwn
  <2>2. CASE ~flood
    BY <1>5, <2>2
  <2>3. QED
    BY <2>1, <2>2
<1>7. NewFor(n, row, old, ads)
  <2>1. CASE flood
    <3>1. Bumped(n, db, row)
      BY <1>5, <2>1 DEF Bumped
    <3>2. \A r \in old : r.type = "ad" /\ r.snder = n => r.seq < db[n].seq
      <4>1. \A r \in old : r.type = "ad" /\ r.snder = n => r.seq < lsa[n][n].seq
        BY <1>1 DEF Numbers, Bound
      <4> HIDE DEF old
      <4>2. QED
        BY <1>5, <4>1
    <3> HIDE DEF row, old, flood
    <3>3. NewFor(n, row, old, Flood(n, n, db[n], nbs, {}))
      BY <1>1, <1>5, <3>1, <3>2, FloodOwn
    <3>4. QED
      BY <2>1, <3>3
  <2>2. CASE ~flood
    BY <2>2, NothingNew
  <2>3. QED
    BY <2>1, <2>2
<1> HIDE DEF row, flood, ads, left
<1>8. Ahead(lsa[n], row)
  BY <1>1, <1>5, <1>6 DEF Ahead
<1>9. NoneIsZero(row)
  BY <1>1, <1>5, <1>6 DEF NoneIsZero
<1> DEFINE q2 == outq[n] \cup ads \cup retran
<1>10. left \subseteq pd[n]
  BY DEF left
<1>11. q2 \in SUBSET Packet
  BY <1>1, <1>7 DEF NewFor
<1>12. Step(n, lsa[n], outq[n], pd[n], row, q2, left \ retran, ads, retran)
  <2>1. /\ \A p \in q2 : p.type = "ad" => p \in outq[n] \/ p \in ads \/ p \in retran
        /\ (left \ retran) \cap retran = {} /\ left \ retran \subseteq pd[n]
    BY <1>10
  <2> HIDE DEF q2
  <2>2. QED
    BY <1>1, <1>6, <1>7, <1>8, <1>9, <1>11, <2>1 DEF Step
<1>13. Numbers(n, row, q2, left \ retran)
  BY <1>12, Advance
<1>14. /\ lsa'[n] = row /\ outq'[n] = q2 /\ pd'[n] = left \ retran
       /\ \A k \in Node : k # n => /\ lsa'[k] = lsa[k] /\ outq'[k] = outq[k]
                                   /\ pd'[k] = pd[k]
  BY <1>0 DEF IType, TypeOK
<1> HIDE DEF q2
<1>15. QED
  BY <1>8, <1>13, <1>14, NodeStep

-----------------------------------------------------------------------------
(* The theorems: in every topology, whatever the network does and whoever  *)
(* restarts.                                                               *)

\* A step that changes no table and no queue.
LEMMA NumbersIdle ==
    ASSUME IType, NumbersOK, UNCHANGED <<boots, lsa, outq, pd>>
    PROVE  NumbersOK' /\ Grows
BY AheadSame, NodeTypes DEF NumbersOK, Grows

\* Every step keeps the numbers in order, and no table goes back.
LEMMA NumbersNext ==
    ASSUME IType, TablesOK, NumbersOK, [Next]_vars PROVE NumbersOK' /\ Grows
<1>1. ASSUME NEW n \in Node, Boot(n) PROVE NumbersOK' /\ Grows
  BY <1>1, NumbersBoot
<1>2. ASSUME NEW n \in Node, NEW o \in Obj, AddFile(n, o) PROVE NumbersOK' /\ Grows
  BY <1>2, NumbersAddFile
<1>3. ASSUME NEW m \in net, Receive(m) PROVE NumbersOK' /\ Grows
  BY <1>3, NumbersReceive
<1>4. ASSUME NEW n \in Node, SendRdInfo(n) PROVE NumbersOK' /\ Grows
  BY <1>4, NumbersSend
<1>5. ASSUME NEW n \in Node, NEW expired \in SUBSET Aging(n), NEW adv \in BOOLEAN,
             NEW retran \in SUBSET pd[n], HandleTimeOut(n, expired, adv, retran)
      PROVE  NumbersOK' /\ Grows
  BY <1>5, NumbersHandleTimeOut
<1>6. ASSUME NEW m \in net, Lose(m) PROVE NumbersOK' /\ Grows
  BY <1>6, NumbersIdle DEF Lose, nodeVars
<1>7. CASE UNCHANGED vars
  BY <1>7, NumbersIdle DEF vars
<1>8. QED
  BY <1>1, <1>2, <1>3, <1>4, <1>5, <1>6, <1>7 DEF Next

\* The numbers are always in order.
LEMMA NumbersInductive == Spec => []NumbersOK
<1>1. IType /\ TablesOK /\ NumbersOK /\ [Next]_vars => NumbersOK'
  BY NumbersNext
<1>2. QED
  BY <1>1, TypeInductive, TablesInductive, NumbersInit, PTL DEF Spec

\* No queued or pending announcement is above what the node stores of its
\* owner, and none of its own has the number it will use next.
THEOREM SeqBoundInvariance == Spec => []QueuedSeqBound
<1>1. NumbersOK => QueuedSeqBound
  BY DEF NumbersOK, Numbers, Bound, QueuedSeqBound, Ads
<1>2. QED
  BY <1>1, NumbersInductive, PTL

\* A neighbour's ACK takes out the one copy there is: none is both queued and
\* pending, and no two are alike.
THEOREM PendingOnceInvariance == Spec => []PendingOnce
<1>1. NumbersOK => PendingOnce
  BY DEF NumbersOK, Numbers, Once, SameKey, PendingOnce, Ads
<1>2. QED
  BY <1>1, NumbersInductive, PTL

\* Nothing a node has stored goes back to an older number, unless the node
\* itself restarts.
THEOREM ViewsOnlyMoveOn == Spec => ViewMonotone
<1> DEFINE A == \A n, s \in Node :
                   boots'[n] = boots[n] =>
                      /\ lsa'[n][s].seq >= lsa[n][s].seq
                      /\ lsa[n][s].st # "none" => lsa'[n][s].st # "none"
<1>1. IType /\ TablesOK /\ NumbersOK /\ [Next]_vars => A
  BY NumbersNext DEF Grows, Ahead
<1> HIDE DEF A
<1>2. Spec => [][A]_vars
  BY <1>1, TypeInductive, TablesInductive, NumbersInductive, PTL DEF Spec
<1>3. QED
  BY <1>2 DEF ViewMonotone, A

-----------------------------------------------------------------------------
(* Who an announcement is sent to.                                         *)

\* None of the packets S is an announcement to its owner.
NotHome(S) == \A p \in S : p.type = "ad" => p.dst # p.snder

AwayOK == NotHome(net) /\ \A k \in Node : NotHome(outq[k]) /\ NotHome(pd[k])

\* prep_flood_lsa leaves out the owner.
LEMMA FloodNotHome ==
    ASSUME NEW n, NEW s, NEW l, NEW nbs, NEW from
    PROVE  NotHome(Flood(n, s, l, nbs, from))
BY DEF NotHome, Flood, AdPacket

\* A step in which one node queues only such packets.
LEMMA AwayStep ==
    ASSUME TypeOK, AwayOK, NEW n \in Node, NEW new, NotHome(new),
           net' \subseteq net, outq'[n] \subseteq outq[n] \cup pd[n] \cup new,
           pd'[n] \subseteq pd[n],
           \A k \in Node : k # n => outq'[k] = outq[k] /\ pd'[k] = pd[k]
    PROVE  AwayOK'
BY DEF AwayOK, NotHome

\* The same for a step that receives a datagram.
LEMMA AwayEnqueue ==
    ASSUME TypeOK, AwayOK, NEW m \in net, m.dst \in Node, Arrive(m), NEW new,
           NotHome(new), Enqueue(m.dst, new), pd' = pd
    PROVE  AwayOK'
<1>1. net' \subseteq net
  BY DEF Arrive
<1>2. /\ outq'[m.dst] = outq[m.dst] \cup new
      /\ \A k \in Node : k # m.dst => outq'[k] = outq[k]
  BY DEF Enqueue, TypeOK
<1>3. QED
  BY <1>1, <1>2, AwayStep

\* Every step queues announcements for other nodes only.
LEMMA AwayNext == ASSUME TypeOK, AwayOK, [Next]_vars PROVE AwayOK'
<1>1. ASSUME NEW n \in Node, Boot(n) PROVE AwayOK'
  <2> DEFINE new == Flood(n, n, LocalLsa(0, Nbr[n], files[n]), Nbr[n], {})
  <2>1. NotHome(new)
    BY FloodNotHome
  <2>2. /\ net' = net /\ outq' = [outq EXCEPT ![n] = new]
        /\ pd' = [pd EXCEPT ![n] = {}]
    BY <1>1 DEF Boot
  <2> HIDE DEF new
  <2>3. QED
    BY <2>1, <2>2, AwayStep DEF TypeOK
<1>2. ASSUME NEW n \in Node, NEW o \in Obj, AddFile(n, o) PROVE AwayOK'
  <2> DEFINE new == Flood(n, n, Reload(n, lsa[n], nb[n], files[n] \cup {o})[n],
                          nb[n], {})
  <2>1. NotHome(new)
    BY FloodNotHome
  <2>2. net' = net /\ outq' = [outq EXCEPT ![n] = @ \cup new] /\ pd' = pd
    BY <1>2 DEF AddFile
  <2> HIDE DEF new
  <2>3. QED
    BY <2>1, <2>2, AwayStep DEF TypeOK
<1>3. ASSUME NEW m \in net, Receive(m) PROVE AwayOK'
  <2>1. m.dst \in Node
    BY ArriveType, <1>3 DEF TypeOK, Packet
  <2>2. \A type \in {"ack", "seq"} : \A q : NotHome({Reply(m, type, q)})
    BY DEF NotHome, Reply
  <2>3. net' \subseteq net
    BY <1>3 DEF Receive, Arrive, RecvRestartAd, RecvNewAd, RecvStaleAd, RecvAck,
                RecvSeqRelay, RecvSeqOwner
  <2>4. CASE RecvRestartAd(m)
    BY <2>1, <2>2, <2>4, AwayEnqueue DEF RecvRestartAd
  <2>5. CASE RecvNewAd(m)
    <3>1. PICK relay : /\ NotHome(relay)
                       /\ Enqueue(m.dst, relay \cup {Reply(m, "ack", m.seq)})
      BY <2>5, FloodNotHome DEF RecvNewAd, NotHome
    <3>2. NotHome(relay \cup {Reply(m, "ack", m.seq)})
      BY <2>2, <3>1 DEF NotHome
    <3>3. QED
      BY <2>1, <2>5, <3>1, <3>2, AwayEnqueue DEF RecvNewAd
  <2>6. CASE RecvStaleAd(m)
    <3>1. CASE m.snder = m.dst
      BY <2>3, <2>6, <3>1 DEF RecvStaleAd, AwayOK, NotHome
    <3>2. CASE m.snder # m.dst
      BY <2>1, <2>2, <2>6, <3>2, AwayEnqueue DEF RecvStaleAd
    <3>3. QED
      BY <3>1, <3>2
  <2>7. CASE RecvAck(m)
    <3>1. /\ pd'[m.dst] \subseteq pd[m.dst]
          /\ \A k \in Node : k # m.dst => pd'[k] = pd[k]
      <4>1. Unpends(m.dst, m.snder, m.seq, m.src)
        BY <2>7 DEF RecvAck, Unpends
      <4>2. QED
        BY <2>1, <4>1, UnpendStep
    <3>2. QED
      BY <2>1, <2>3, <2>7, <3>1 DEF RecvAck, AwayOK, NotHome
  <2>8. CASE RecvSeqRelay(m)
    <3>1. /\ pd'[m.dst] \subseteq pd[m.dst]
          /\ \A k \in Node : k # m.dst => pd'[k] = pd[k]
      <4>1. Unpends(m.dst, m.snder, 0, m.src)
        BY <2>8 DEF RecvSeqRelay, Unpends
      <4>2. QED
        BY <2>1, <4>1, UnpendStep
    <3>2. QED
      BY <2>1, <2>3, <2>8, <3>1 DEF RecvSeqRelay, AwayOK, NotHome
  <2>9. CASE RecvSeqOwner(m)
    <3>1. PICK new : /\ NotHome(new)
                     /\ outq' = [outq EXCEPT ![m.dst] = @ \cup new] \/ outq' = outq
      BY <2>9, FloodNotHome DEF RecvSeqOwner, Enqueue
    <3>2. /\ pd'[m.dst] \subseteq pd[m.dst]
          /\ \A k \in Node : k # m.dst => pd'[k] = pd[k]
      <4>1. Unpends(m.dst, m.dst, 0, m.src)
        BY <2>9 DEF RecvSeqOwner, Unpends
      <4>2. QED
        BY <2>1, <4>1, UnpendStep
    <3>3. /\ outq'[m.dst] \subseteq outq[m.dst] \cup new
          /\ \A k \in Node : k # m.dst => outq'[k] = outq[k]
      BY <2>1, <3>1 DEF TypeOK
    <3>4. QED
      BY <2>1, <2>3, <3>1, <3>2, <3>3, AwayStep
  <2>10. QED
    BY <1>3, <2>4, <2>5, <2>6, <2>7, <2>8, <2>9 DEF Receive
<1>4. ASSUME NEW n \in Node, SendRdInfo(n) PROVE AwayOK'
  BY <1>4 DEF SendRdInfo, Keep, AwayOK, NotHome, TypeOK
<1>5. ASSUME NEW n \in Node, NEW expired \in SUBSET Aging(n), NEW adv \in BOOLEAN,
             NEW retran \in SUBSET pd[n], HandleTimeOut(n, expired, adv, retran)
      PROVE  AwayOK'
  <2> DEFINE down == expired \cap Nbr[n]
             nbs  == nb[n] \ down
             aged == [s \in Node |-> IF s \in expired
                                     THEN [lsa[n][s] EXCEPT !.st = "invalid"]
                                     ELSE lsa[n][s]]
             db   == IF down = {} THEN aged ELSE Reload(n, aged, nbs, files[n])
             left == {p \in pd[n] : p.dst \notin down}
             ads  == IF adv \/ down # {} THEN Flood(n, n, db[n], nbs, {}) ELSE {}
  <2>1. /\ net' = net /\ outq' = [outq EXCEPT ![n] = @ \cup ads \cup retran]
        /\ pd' = [pd EXCEPT ![n] = left \ retran]
    BY <1>5 DEF HandleTimeOut
  <2>2. left \subseteq pd[n]
    OBVIOUS
  <2> HIDE DEF down, nbs, db, left
  <2>3. NotHome(ads)
    BY FloodNotHome DEF NotHome
  <2> HIDE DEF ads
  <2>4. /\ outq'[n] \subseteq outq[n] \cup pd[n] \cup ads /\ pd'[n] \subseteq pd[n]
        /\ \A k \in Node : k # n => outq'[k] = outq[k] /\ pd'[k] = pd[k]
    BY <2>1, <2>2 DEF TypeOK
  <2>5. net' \subseteq net
    BY <2>1
  <2>6. QED
    BY <2>3, <2>4, <2>5, AwayStep
<1>6. ASSUME NEW m \in net, Lose(m) PROVE AwayOK'
  BY <1>6 DEF Lose, nodeVars, AwayOK, NotHome
<1>7. CASE UNCHANGED vars
  BY <1>7 DEF vars, nodeVars, AwayOK, NotHome
<1>8. QED
  BY <1>1, <1>2, <1>3, <1>4, <1>5, <1>6, <1>7 DEF Next

\* In no topology does an announcement come back to its owner, which would
\* never acknowledge it.
THEOREM NoAdToOwnerInvariance == Spec => []NoAdToOwner
<1>1. Init => AwayOK
  BY DEF Init, AwayOK, NotHome
<1>2. TypeOK /\ AwayOK /\ [Next]_vars => AwayOK'
  BY AwayNext
<1>3. TypeOK /\ AwayOK => NoAdToOwner
  BY DEF AwayOK, NotHome, NoAdToOwner
<1>4. QED
  BY <1>1, <1>2, <1>3, TypeInvariance, PTL DEF Spec
=============================================================================
