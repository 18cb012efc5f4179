------------------------------ MODULE LsaFlood ------------------------------
(***************************************************************************)
(* The link-state core of the routing daemon `routed`: every node owns one *)
(* link-state announcement (LSA), floods it to its neighbours over UDP,    *)
(* relays the LSAs of others, acknowledges them, retransmits what is not   *)
(* acknowledged, expires what it no longer hears of, and resynchronises    *)
(* its sequence number after a restart.  Sources: client_info.c (packets   *)
(* and their handlers), lsa.c (the LSA table), sel_timeout.c (the timer),  *)
(* config.c (neighbour and file tables) and routed.c (start-up).           *)
(*                                                                         *)
(* One action is one run of a handler by the single-threaded event loop of *)
(* one node.  Abstractions: addresses are node ids; time_left and          *)
(* g_adv_timeout are not counted, a tick finds any set of timers expired;  *)
(* the route table is represented by the topology it was last computed     *)
(* from (module RouteCalc computes the table itself), and the prefix tree  *)
(* by the object/node associations stored in it (module ObjLookup has the  *)
(* tree itself); queues and the network are sets, so that identical        *)
(* datagrams count once; malloc and file operations succeed.               *)
(***************************************************************************)
EXTENDS Naturals, FiniteSets

CONSTANTS
    Node,         \* the node ids
    Nbr,          \* Nbr[n]: the neighbours listed in n's node*.conf, n left out
    Bucket,       \* Bucket[s]: the chain of g_pd_ack_ht for sender s
    Obj,          \* the object names
    MaxTtl,       \* LSA_MAX_TTL, 32 in the code
    MaxSeq,       \* bound: n starts no flood of its own from MaxSeq[n] on
    MaxBoot,      \* bound: n is started MaxBoot[n] times; 1: it never crashes
    MaxNet,       \* bound: a node sends only while this many datagrams fit
    Losing,       \* whether the network loses datagrams
    Duplicating,  \* whether the network duplicates datagrams
    Expiring      \* whether LSAs time out (neighbor and LSA timeouts)

ASSUME FloodAssumption ==
    /\ Nbr \in [Node -> SUBSET Node]
    /\ \A n \in Node : n \notin Nbr[n]
    /\ DOMAIN Bucket = Node
    /\ MaxTtl \in Nat \ {0}
    /\ MaxSeq \in [Node -> Nat]
    /\ MaxBoot \in [Node -> Nat]
    /\ MaxNet \in Nat
    /\ Losing \in BOOLEAN
    /\ Duplicating \in BOOLEAN
    /\ Expiring \in BOOLEAN

VARIABLES
    boots,  \* boots[n]: how often n was started; 0 while it is not running yet
    files,  \* files[n]: the objects in n's node*.files, which survive a crash
    nb,     \* nb[n]: the neighbours of n with is_valid set
    lsa,    \* lsa[n][s]: the entry of n's g_lsa_ht for sender s
    rt,     \* rt[n]: the topology n's route table was last computed from
    pft,    \* pft[n][s]: the objects n's prefix tree associates with node s
    outq,   \* outq[n]: pd_lsa_head of n's routing socket, the packets to send
    pd,     \* pd[n]: g_pd_ack_ht, the announcements sent and not yet acked
    wr,     \* wr[n]: whether the routing socket is in n's wrset
    net     \* the datagrams in flight

nodeVars == <<files, nb, lsa, rt, pft, outq, pd, wr>>
vars == <<boots, files, nb, lsa, rt, pft, outq, pd, wr, net>>

-----------------------------------------------------------------------------
(* Data.                                                                   *)

\* An entry of g_lsa_ht; "none" stands for a sender without an entry.
Lsa == [st : {"none", "valid", "invalid"}, ttl : 0..MaxTtl, seq : Nat,
        links : SUBSET Node, objs : SUBSET Obj]

NoLsa == [st |-> "none", ttl |-> 0, seq |-> 0, links |-> {}, objs |-> {}]

\* A datagram: an lsa_header_t with its payload, and the addresses it travels
\* between.  An "ack" or "seq" packet is a bare header.
Packet == [type : {"ad", "ack", "seq"}, src : Node, dst : Node, snder : Node,
           seq : Nat, ttl : 1..MaxTtl, links : SUBSET Node, objs : SUBSET Obj]

Known(db) == {s \in Node : db[s].st # "none"}

\* The graph update_route_info works on: the nodes that have an entry, the
\* valid neighbours as the node's own row, and the links of each valid entry.
RouteInput(n, db, nbs) ==
    [known |-> Known(db),
     row   |-> [s \in Node |-> IF s = n THEN nbs
                               ELSE IF db[s].st = "valid" THEN db[s].links
                               ELSE {}]]

\* init_local_lsa: the node's own LSA from its valid neighbours and its files.
LocalLsa(seq, nbs, fs) ==
    [st |-> "valid", ttl |-> MaxTtl, seq |-> seq, links |-> nbs, objs |-> fs]

\* lsa_create_ad_ann
AdPacket(n, s, l, d) ==
    [type |-> "ad", src |-> n, dst |-> d, snder |-> s, seq |-> l.seq,
     ttl |-> l.ttl, links |-> l.links, objs |-> l.objs]

-----------------------------------------------------------------------------
(* Bugs this code does not have.  None of these operators is used: each is *)
(* what the operator it is named after could have been by mistake, to see  *)
(* that the properties would notice.                                       *)

BugFloodToOwner(n, s, l, nbs, from) == {AdPacket(n, s, l, d) : d \in nbs \ from}
BugBumpForgotten(l) == l
BugReloadForgotten(n, db, nbs, fs) == db
BugReloadFromZero(n, db, nbs, fs) == [db EXCEPT ![n] = LocalLsa(0, nbs, fs)]
BugRmObjsForgotten(tree, db, gone) == tree
BugIsNewerAlways(m) == TRUE
BugEnqueueNoWakeup(n, packets) ==
    outq' = [outq EXCEPT ![n] = @ \cup packets] /\ UNCHANGED wr
BugUnpendAnyNumber(pending, s, q, d) ==
    {{p \in pending : p.snder # s \/ p.dst # d}}
BugKeepNothing(packets) == {}
BugKeepAll(packets) == packets

-----------------------------------------------------------------------------
(* The helpers of the handlers.                                            *)

\* prep_flood_lsa: entry l of sender s goes to every valid neighbour, but not
\* to its owner and not back to where it came from.
Flood(n, s, l, nbs, from) ==
    {AdPacket(n, s, l, d) : d \in nbs \ ({s} \cup from)}

\* lsa_create_ack_ann and lsa_create_seq_ann: the header of m sent back.
Reply(m, type, seq) ==
    [type |-> type, src |-> m.dst, dst |-> m.src, snder |-> m.snder,
     seq |-> seq, ttl |-> 1, links |-> {}, objs |-> {}]

\* remove_pd_ack: what may be left pending once node d answered for number q of
\* s.  The walk starts at the first entry of s and from there on compares number
\* and address only: it may end at an entry of another sender in that chain.
Unpend(pending, s, q, d) ==
    LET like  == {p \in pending : /\ Bucket[p.snder] = Bucket[s]
                                 /\ p.seq = q /\ p.dst = d}
        exact == {p \in like : p.snder = s}
        first == {p \in pending : p.snder = s} \ exact
    IN  {pending \ exact} \cup
        IF first = {} THEN {} ELSE {pending \ {p} : p \in like}

Bump(l) == [l EXCEPT !.seq = @ + 1]

\* reload_local_lsa: rebuild n's own LSA, with the sequence number it has.
Reload(n, db, nbs, fs) ==
    [db EXCEPT ![n] = LocalLsa(db[n].seq, nbs, fs)]

\* pft_rm_obj_frm_lsa, for every entry that has timed out.
RmObjs(tree, db, gone) ==
    [s \in Node |-> IF s \in gone THEN tree[s] \ db[s].objs ELSE tree[s]]

\* update_route_info, called when changed.
UpdateRouteInfo(n, changed, db, nbs) ==
    rt' = IF changed THEN [rt EXCEPT ![n] = RouteInput(n, db, nbs)] ELSE rt

\* A packet for the routing socket, which joins wrset (need_wrset).
Enqueue(n, packets) ==
    /\ outq' = [outq EXCEPT ![n] = @ \cup packets]
    /\ wr'   = [wr EXCEPT ![n] = TRUE]

\* What clnt_send_rd_info keeps to be acknowledged, of what it sends.
Keep(packets) == {p \in packets : p.type = "ad"}

-----------------------------------------------------------------------------
(* Start-up and the local requests.                                        *)

Init ==
    /\ boots = [n \in Node |-> 0]
    /\ files \in [Node -> SUBSET Obj]
    /\ nb    = [n \in Node |-> {}]
    /\ lsa   = [n \in Node |-> [s \in Node |-> NoLsa]]
    /\ rt    = [n \in Node |-> RouteInput(n, lsa[n], {})]
    /\ pft   = [n \in Node |-> [s \in Node |-> {}]]
    /\ outq  = [n \in Node |-> {}]
    /\ pd    = [n \in Node |-> {}]
    /\ wr    = [n \in Node |-> FALSE]
    /\ net   = {}

\* main, up to its loop: the first start of node n, or a restart after a crash
\* that lost everything but node*.files.  Datagrams on their way stay there.
Boot(n) ==
    LET own == LocalLsa(0, Nbr[n], files[n])
        db  == [[s \in Node |-> NoLsa] EXCEPT ![n] = own]
    IN  /\ boots[n] < MaxBoot[n]
        /\ boots' = [boots EXCEPT ![n] = @ + 1]
        /\ nb'    = [nb EXCEPT ![n] = Nbr[n]]
        /\ lsa'   = [lsa EXCEPT ![n] = [db EXCEPT ![n] = Bump(own)]]
        /\ rt'    = [rt EXCEPT ![n] = RouteInput(n, db, Nbr[n])]
        /\ pft'   = [pft EXCEPT ![n] = [s \in Node |->
                                         IF s = n THEN own.objs ELSE {}]]
        /\ outq'  = [outq EXCEPT ![n] = Flood(n, n, own, Nbr[n], {})]
        /\ pd'    = [pd EXCEPT ![n] = {}]
        /\ wr'    = [wr EXCEPT ![n] = TRUE]
        /\ UNCHANGED <<files, net>>

\* process_clnt_request, ADDFILE branch, with add_localfile: a new object is
\* written to the file list, announced and flooded.  (The branch for a name
\* that exists changes nothing.)
AddFile(n, o) ==
    LET fs  == files[n] \cup {o}
        db  == Reload(n, lsa[n], nb[n], fs)
    IN  /\ boots[n] > 0
        /\ o \notin files[n]
        /\ lsa[n][n].seq < MaxSeq[n]
        /\ files' = [files EXCEPT ![n] = fs]
        /\ lsa'   = [lsa EXCEPT ![n] = [db EXCEPT ![n] = Bump(@)]]
        /\ pft'   = [pft EXCEPT ![n][n] = @ \cup fs]
        /\ outq'  = [outq EXCEPT ![n] = @ \cup Flood(n, n, db[n], nb[n], {})]
        /\ wr'    = [wr EXCEPT ![n] = TRUE]
        /\ UNCHANGED <<boots, nb, rt, pd, net>>

-----------------------------------------------------------------------------
(* clnt_process_rt_inf: one datagram is read from the routing socket.      *)

Arrive(m) ==
    /\ m \in net
    /\ boots[m.dst] > 0
    /\ \/ net' = net \ {m}
       \/ Duplicating /\ net' = net

Entry(m) == lsa[m.dst][m.snder]

\* seq_num 0 for an entry that is further on: the owner seems to have restarted.
LooksRestarted(m) == m.seq = 0 /\ Entry(m).st # "none" /\ Entry(m).seq > 0

IsNewer(m) == Entry(m).st = "none" \/ m.seq > Entry(m).seq

\* A configured neighbour that is down.
IsBack(n, s) == s \in Nbr[n] \ nb[n]

Relays(m) == m.ttl - 1 > 0

\* update_lsa_entr: what an announcement becomes in the table.
Stored(m) ==
    [st |-> "valid", ttl |-> m.ttl - 1, seq |-> m.seq,
     links |-> m.links, objs |-> m.objs]

\* Tell a restarted owner how far its sequence numbers had come.
RecvRestartAd(m) ==
    /\ Arrive(m)
    /\ m.type = "ad" /\ m.snder # m.dst
    /\ LooksRestarted(m)
    /\ Enqueue(m.dst, {Reply(m, "seq", Entry(m).seq)})
    /\ UNCHANGED <<boots, files, nb, lsa, rt, pft, pd>>

\* A new LSA is stored, entered in the prefix tree and the route table,
\* relayed while its ttl lasts, and acknowledged.  If its owner is a neighbour
\* that was down, the neighbour is up again; the local LSA is rebuilt, but not
\* flooded before the next advertisement.
RecvNewAd(m) ==
    LET n    == m.dst
        s    == m.snder
        new  == Stored(m)
        nbs  == IF IsBack(n, s) THEN nb[n] \cup {s} ELSE nb[n]
        got  == [lsa[n] EXCEPT ![s] = new]
        db   == IF IsBack(n, s) THEN Reload(n, got, nbs, files[n]) ELSE got
        relay == IF Relays(m) THEN Flood(n, s, new, nbs, {m.src}) ELSE {}
    IN  /\ Arrive(m)
        /\ m.type = "ad" /\ s # n
        /\ ~LooksRestarted(m) /\ IsNewer(m)
        /\ nb'   = [nb EXCEPT ![n] = nbs]
        /\ lsa'  = [lsa EXCEPT ![n] = db]
        /\ pft'  = [pft EXCEPT ![n][s] = @ \cup m.objs]
        /\ UpdateRouteInfo(n, TRUE, db, nbs)
        /\ Enqueue(n, relay \cup {Reply(m, "ack", m.seq)})
        /\ UNCHANGED <<boots, files, pd>>

\* An LSA that is not newer is acknowledged only; the node's own is ignored.
RecvStaleAd(m) ==
    /\ Arrive(m)
    /\ m.type = "ad"
    /\ IF m.snder = m.dst THEN UNCHANGED <<outq, wr>>
       ELSE /\ ~LooksRestarted(m) /\ ~IsNewer(m)
            /\ Enqueue(m.dst, {Reply(m, "ack", m.seq)})
    /\ UNCHANGED <<boots, files, nb, lsa, rt, pft, pd>>

RecvAck(m) ==
    /\ Arrive(m)
    /\ m.type = "ack"
    /\ \E left \in Unpend(pd[m.dst], m.snder, m.seq, m.src) :
          pd' = [pd EXCEPT ![m.dst] = left]
    /\ UNCHANGED <<boots, files, nb, lsa, rt, pft, outq, wr>>

\* A SEQ for the LSA of another node: the stored copy takes over the number,
\* with the content it has.
RecvSeqRelay(m) ==
    LET n == m.dst
    IN  /\ Arrive(m)
        /\ m.type = "seq" /\ m.snder # n
        /\ \E left \in Unpend(pd[n], m.snder, 0, m.src) :
              pd' = [pd EXCEPT ![n] = left]
        /\ lsa' = IF Entry(m).st # "none" /\ Entry(m).seq < m.seq
                  THEN [lsa EXCEPT ![n][m.snder].seq = m.seq]
                  ELSE lsa
        /\ UNCHANGED <<boots, files, nb, rt, pft, outq, wr>>

\* A SEQ for the node's own LSA: if its number is behind, go past the number
\* the network remembers and flood at once.
RecvSeqOwner(m) ==
    LET n   == m.dst
        own == [lsa[n][n] EXCEPT !.seq = m.seq + 1]
    IN  /\ Arrive(m)
        /\ m.type = "seq" /\ m.snder = n
        /\ \E left \in Unpend(pd[n], n, 0, m.src) : pd' = [pd EXCEPT ![n] = left]
        /\ IF lsa[n][n].seq < m.seq + 1
           THEN /\ lsa' = [lsa EXCEPT ![n][n] = Bump(own)]
                /\ Enqueue(n, Flood(n, n, own, nb[n], {}))
           ELSE UNCHANGED <<lsa, outq, wr>>
        /\ UNCHANGED <<boots, files, nb, rt, pft>>

Receive(m) ==
    \/ RecvRestartAd(m) \/ RecvNewAd(m) \/ RecvStaleAd(m)
    \/ RecvAck(m) \/ RecvSeqRelay(m) \/ RecvSeqOwner(m)

-----------------------------------------------------------------------------
(* Sending, the timer and the network.                                     *)

\* clnt_send_rd_info: everything queued is sent; announcements stay pending
\* until they are answered.  Afterwards the socket leaves wrset.
SendRdInfo(n) ==
    /\ wr[n]
    /\ net = {} \/ Cardinality(net \cup outq[n]) <= MaxNet
    /\ net'  = net \cup outq[n]
    /\ pd'   = [pd EXCEPT ![n] = @ \cup Keep(outq[n])]
    /\ outq' = [outq EXCEPT ![n] = {}]
    /\ wr'   = [wr EXCEPT ![n] = FALSE]
    /\ UNCHANGED <<boots, files, nb, lsa, rt, pft>>

\* The entries whose time_left can run out: valid, and not the node's own.
Aging(n) ==
    IF Expiring THEN {s \in Node \ {n} : lsa[n][s].st = "valid"} ELSE {}

\* handle_time_out: one tick of node n that finds these LSA timers expired,
\* the advertisement timer expired or not (adv), and these retransmission
\* timers expired (retran, of what is still pending by then).
HandleTimeOut(n, expired, adv, retran) ==
    LET down == expired \cap Nbr[n]
        nbs  == nb[n] \ down
        aged == [s \in Node |-> IF s \in expired
                                THEN [lsa[n][s] EXCEPT !.st = "invalid"]
                                ELSE lsa[n][s]]
        db   == IF down = {} THEN aged ELSE Reload(n, aged, nbs, files[n])
        left == {p \in pd[n] : p.dst \notin down}
        ads  == IF adv \/ down # {} THEN Flood(n, n, db[n], nbs, {}) ELSE {}
    IN  /\ boots[n] > 0
        /\ expired \subseteq Aging(n)
        /\ retran \subseteq left
        /\ adv \/ down # {} => lsa[n][n].seq < MaxSeq[n]
        /\ nb'   = [nb EXCEPT ![n] = nbs]
        /\ lsa'  = [lsa EXCEPT ![n] = IF adv \/ down # {}
                                      THEN [db EXCEPT ![n] = Bump(@)] ELSE db]
        /\ pft'  = [pft EXCEPT ![n] = RmObjs(@, lsa[n], expired)]
        /\ UpdateRouteInfo(n, expired # {}, db, nbs)
        /\ pd'   = [pd EXCEPT ![n] = left \ retran]
        /\ outq' = [outq EXCEPT ![n] = @ \cup ads \cup retran]
        /\ wr'   = [wr EXCEPT ![n] = @ \/ adv \/ down # {} \/ retran # {}]
        /\ UNCHANGED <<boots, files, net>>

\* A datagram is lost, or its destination is not up.
Lose(m) ==
    /\ m \in net
    /\ Losing \/ boots[m.dst] = 0
    /\ net' = net \ {m}
    /\ UNCHANGED <<boots, nodeVars>>

Next ==
    \/ \E n \in Node : Boot(n)
    \/ \E n \in Node, o \in Obj : AddFile(n, o)
    \/ \E m \in net : Receive(m)
    \/ \E n \in Node : SendRdInfo(n)
    \/ \E n \in Node : \E expired \in SUBSET Aging(n), adv \in BOOLEAN,
                          retran \in SUBSET pd[n] :
          HandleTimeOut(n, expired, adv, retran)
    \/ \E m \in net : Lose(m)

Spec == Init /\ [][Next]_vars

-----------------------------------------------------------------------------
(* Fairness: the loop of a node keeps running, its retransmission timers   *)
(* fire, the network does not keep datagrams for ever and does not lose    *)
(* every copy of one that is sent again and again.                         *)

\* Following the neighbour lists from s, the nodes that can hear of s.
Hears(s) ==
    {d \in Node \ {s} : \/ d \in Nbr[s]
                        \/ \E via \in Nbr[s] : d \in Nbr[via]}

\* A tick that finds what n keeps for node d of the LSA of s due.
Retransmit(n, s, d) ==
    LET due == {p \in pd[n] : p.snder = s /\ p.dst = d}
    IN  /\ due # {}
        /\ \E expired \in SUBSET Aging(n), adv \in BOOLEAN :
              HandleTimeOut(n, expired, adv, due)

\* The last announcement of s reaches d, over whichever hop.
DeliverLast(s, d) ==
    \E m \in net : /\ m.type = "ad" /\ m.snder = s /\ m.dst = d
                   /\ m.seq + 1 = lsa[s][s].seq
                   /\ Receive(m)

\* (SendRdInfo is enabled as long as something is queued, but for the bound
\* MaxNet, which other senders may reach time and again: hence SF.)
Fairness ==
    /\ \A n \in Node : WF_vars(Boot(n)) /\ SF_vars(SendRdInfo(n))
    /\ \A n, s \in Node : \A d \in Nbr[n] : WF_vars(Retransmit(n, s, d))
    /\ WF_vars(\E m \in net : Receive(m) \/ Lose(m))
    /\ \A s \in Node : \A d \in Hears(s) : SF_vars(DeliverLast(s, d))

FairSpec == Spec /\ Fairness

-----------------------------------------------------------------------------
(* Properties.                                                             *)

Up == {n \in Node : boots[n] > 0}

\* The announcements node n has queued or keeps for retransmission.
Ads(n) == {p \in outq[n] \cup pd[n] : p.type = "ad"}

\* Every variable has its type; only announcements are pending.
TypeOK ==
    /\ boots \in [Node -> Nat] /\ \A n \in Node : boots[n] <= MaxBoot[n]
    /\ files \in [Node -> SUBSET Obj]
    /\ nb \in [Node -> SUBSET Node]
    /\ lsa \in [Node -> [Node -> Lsa]]
    /\ rt \in [Node -> [known : SUBSET Node, row : [Node -> SUBSET Node]]]
    /\ pft \in [Node -> [Node -> SUBSET Obj]]
    /\ outq \in [Node -> SUBSET Packet]
    /\ pd \in [Node -> SUBSET {p \in Packet : p.type = "ad"}]
    /\ wr \in [Node -> BOOLEAN]
    /\ net \in SUBSET Packet

\* The local LSA always describes the node as it is: its links are the valid
\* neighbours, its objects the file list (reload_local_lsa is called wherever
\* one of the two changes).
LocalLsaFresh ==
    \A n \in Up : /\ lsa[n][n].st = "valid"
                  /\ lsa[n][n].links = nb[n]
                  /\ lsa[n][n].objs = files[n]

\* A configured neighbour is down (is_valid unset) exactly when its LSA has
\* timed out: the two flags, set in lsa.c and config.c, never part.
NbLsaAgree ==
    \A n \in Up : /\ nb[n] \subseteq Nbr[n]
                  /\ \A s \in Nbr[n] : s \in nb[n] <=> lsa[n][s].st # "invalid"

\* No lost wakeup: while a packet is queued, the routing socket is in wrset,
\* so that the loop will send it.
QueuedImpliesWr == \A n \in Node : outq[n] # {} => wr[n]

\* The route table is always the one of the stored LSAs and valid neighbours:
\* update_route_info runs after everything that changes its input.
RouteFresh == \A n \in Up : rt[n] = RouteInput(n, lsa[n], nb[n])

\* The tables of a node, which different files of the code update, agree.
TablesAgree == LocalLsaFresh /\ NbLsaAgree /\ RouteFresh

\* No announcement is ever sent to the node it is about.  That node would
\* ignore it without an ACK, and it would be retransmitted for ever.
NoAdToOwner ==
    \A p \in net \cup UNION {outq[n] \cup pd[n] : n \in Node} :
        p.type = "ad" => p.dst # p.snder

\* At most one copy of an announcement per neighbour is queued or pending, so
\* that one ACK (remove_pd_ack takes out one entry) ends its retransmission.
PendingOnce ==
    \A n \in Node :
        /\ {p \in outq[n] : p.type = "ad"} \cap pd[n] = {}
        /\ \A p, q \in Ads(n) :
              p.snder = q.snder /\ p.seq = q.seq /\ p.dst = q.dst => p = q

\* A node never has in its queues a number it could hand out again: its own
\* announcements are below its next number, the relayed ones not above the
\* entry they were copied from.
QueuedSeqBound ==
    \A n \in Node : \A p \in Ads(n) :
        IF p.snder = n THEN p.seq < lsa[n][n].seq
                       ELSE /\ lsa[n][p.snder].st # "none"
                            /\ p.seq <= lsa[n][p.snder].seq

\* What a node has stored of another node never goes back to an older
\* sequence number, whatever is lost, duplicated, reordered or restarted,
\* unless the node itself restarts; its own number never goes back either.
ViewMonotone ==
    [][\A n, s \in Node :
          boots'[n] = boots[n] =>
             /\ lsa'[n][s].seq >= lsa[n][s].seq
             /\ lsa[n][s].st # "none" => lsa'[n][s].st # "none"]_vars

-----------------------------------------------------------------------------
(* What holds while no node crashes (MaxBoot[n] = 1).                      *)

\* No one stores, sends or answers with a sequence number the owner of the LSA
\* has not used yet; so a SEQ never makes a running owner jump.
SeqBelowOwner ==
    /\ \A n \in Up, s \in Node :
          n # s /\ lsa[n][s].st # "none" => lsa[n][s].seq < lsa[s][s].seq
    /\ \A m \in net \cup UNION {outq[n] : n \in Node} :
          m.seq < lsa[m.snder][m.snder].seq

\* Two announcements of one LSA with one number are the same LSA, whichever
\* nodes they passed.
PacketCoherent ==
    LET all == {p \in net \cup UNION {outq[n] \cup pd[n] : n \in Node} :
                   p.type = "ad"}
    IN  \A p, q \in all :
           p.snder = q.snder /\ p.seq = q.seq =>
              p.links = q.links /\ p.objs = q.objs

\* An ACK is never sent for more than the acknowledging node has stored.
AckSound ==
    \A m \in net \cup UNION {outq[n] : n \in Node} :
        m.type = "ack" => /\ lsa[m.src][m.snder].st # "none"
                          /\ m.seq <= lsa[m.src][m.snder].seq

\* The reliability of flooding: a valid neighbour has the last announcement a
\* node made, or something newer, or the node still holds it to (re)send.
\* While LSAs do not expire this survives loss, reordering and the ACKs of older
\* announcements; unless another sender shares the chain of the node's own.
Alone(s) == \A r \in Node : Bucket[r] = Bucket[s] => r = s
NothingForgotten ==
    \A n \in Up : Alone(n) => \A d \in nb[n] :
        LET last == lsa[n][n].seq - 1
        IN  \/ lsa[d][n].st # "none" /\ lsa[d][n].seq >= last
            \/ \E p \in Ads(n) : p.snder = n /\ p.dst = d /\ p.seq = last

\* The prefix tree associates with a node exactly the objects of its valid
\* LSA: what pft_add_obj_frm_lsa accumulates, pft_rm_obj_frm_lsa takes out.
PftFresh ==
    \A n \in Up, s \in Node :
        pft[n][s] = IF lsa[n][s].st = "valid" THEN lsa[n][s].objs ELSE {}

\* What this code loses: a stored copy that has the number of an announcement
\* its owner still keeps for the node has its content.  RecvSeqRelay gives an
\* old copy a new number, and the announcement is then taken for a stale one.
StoredIsAnnounced ==
    \A s \in Up : \A p \in pd[s] :
        LET copy == lsa[p.dst][s]
        IN  p.snder = s /\ copy.st # "none" /\ copy.seq = p.seq =>
                copy.links = p.links /\ copy.objs = p.objs

-----------------------------------------------------------------------------
(* Liveness and the abstract specification.                                *)

\* Once announcing stops, every node within two hops ends up with the last
\* announcement of every other one, although the network loses datagrams; but
\* for senders that share a chain.
Convergence ==
    <>[](\A s \in Node : \A d \in Hears(s) :
          Alone(s) =>
            /\ lsa[d][s].st = "valid"
            /\ lsa[d][s].seq + 1 = lsa[s][s].seq)

\* Without crashes the nodes' tables implement a directory of versions.
Directory == INSTANCE LsaDirectory WITH
    pub  <- [s \in Node |-> lsa[s][s].seq],
    cat  <- [s \in Node |-> lsa[s][s].objs],
    seen <- [n \in Node |-> [s \in Node |->
                IF n = s \/ lsa[n][s].st = "none" THEN 0 ELSE lsa[n][s].seq + 1]],
    copy <- [n \in Node |-> [s \in Node |->
                IF n = s THEN {} ELSE lsa[n][s].objs]]

\* Every copy is at a version its owner has published, and only ever moves on
\* to later versions with no object taken back, whatever the network does.
ImplementsDirectory == Directory!Spec
=============================================================================
