------------------------------- MODULE PendAck -------------------------------
(***************************************************************************)
(* What one node keeps to send and to have acknowledged, as the code has   *)
(* it: the list pd_lsa_head of its routing socket, newest packet first,    *)
(* and the chains of the hash table g_pd_ack_ht, whose key is the sender   *)
(* of an announcement.  LsaFlood abstracts both to sets; here the chains,  *)
(* the walks over them and the retransmission timers are explicit, and of  *)
(* the LSA table only which numbers are used up.                           *)
(* Sources: ht.h, client_info.c (clnt_send_rd_info, remove_pd_ack,         *)
(* clnt_rm_pd_ad_ann_by_addr, clnt_process_rt_inf, prep_flood_lsa) and     *)
(* sel_timeout.c.                                                          *)
(***************************************************************************)
EXTENDS Naturals, Integers, FiniteSets, FiniteSetsExt, SequencesExt

CONSTANTS
    Self,      \* the node
    Nbr,       \* its neighbours, in the order prep_flood_lsa finds them
    Sender,    \* the owners of the announcements, Self and others
    Bucket,    \* Bucket[s]: the chain for sender s, uint_to_idx
    Retran,    \* the ticks a timer starts with, retran_timeout_interval
    MaxSeq,    \* bound: announcements of each sender
    MaxReply   \* bound: replies that are queued at once

Dst == {Nbr[i] : i \in DOMAIN Nbr}
Index == {Bucket[s] : s \in Sender}

ASSUME PendAssumption ==
    /\ Nbr \in Seq(Dst) /\ IsInjective(Nbr) /\ IsFiniteSet(Sender)
    /\ Self \in Sender \ Dst
    /\ DOMAIN Bucket = Sender
    /\ Index = 1..Cardinality(Index)
    /\ Retran \in Nat
    /\ MaxSeq \in [Sender -> Nat]
    /\ MaxReply \in Nat

VARIABLES
    outq,    \* pd_lsa_head, first the packet that was queued last
    chain,   \* chain[i]: the entries of bucket i, first the one inserted last
    cnt,     \* entr_cnt of the table
    next,    \* next[s]: the number of the next announcement of s
    valid,   \* the neighbours with is_valid
    sent,    \* the announcements that were sent, so that an answer may come
    spared,  \* those that were queued for a neighbour when it went down
    answer   \* what the message handled last answered: none of them or one

vars == <<outq, chain, cnt, next, valid, sent, spared, answer>>

\* A packet, and the entry it becomes; an ACK or SEQ needs only its address.
Ad(s, q, d) == [type |-> "ad", snder |-> s, seq |-> q, dst |-> d, left |-> Retran]
Answer(d) == [type |-> "answer", dst |-> d]

IsAd(p) == p.type = "ad"
Ann(p) == [snder |-> p.snder, seq |-> p.seq, dst |-> p.dst]
AdsAt(c) == {j \in DOMAIN c : IsAd(c[j])}
Queued == {Ann(outq[j]) : j \in AdsAt(outq)}
Pending == UNION {{Ann(e) : e \in Range(chain[i])} : i \in Index}

\* The places of a table, and so its number of entries.
Places(t) == UNION {{<<i, j>> : j \in DOMAIN t[i]} : i \in DOMAIN t}
Size(t) == Cardinality(Places(t))

\* A walk over c that keeps the entries at the places of J.
Only(c, J) ==
    LET upto[j \in 0..Len(c)] ==
            IF j = 0 THEN <<>>
            ELSE IF j \in J THEN Append(upto[j - 1], c[j]) ELSE upto[j - 1]
    IN  upto[Len(c)]

\* A walk over c that puts each of the entries at the places of J in front of q.
Pushed(q, c, J) ==
    LET upto[j \in 0..Len(c)] ==
            IF j = 0 THEN q
            ELSE IF j \in J THEN <<c[j]>> \o upto[j - 1] ELSE upto[j - 1]
    IN  upto[Len(c)]

-----------------------------------------------------------------------------
(* Bugs this code does not have, to see that the properties would notice.  *)

BugFoundBefore(c, s, q, d) ==
    {j \in DOMAIN c : c[j].snder = s /\ c[j].seq <= q /\ c[j].dst = d}
BugRmByAddrFirst(c, down) == {j \in DOMAIN c : j = 1 => c[j].dst \notin down}
BugUseNumberAgain(s) == next[s] < MaxSeq[s] /\ UNCHANGED next
BugKeptAll(c, J) == J
BugAgedFirst(c) ==
    IF c = <<>> THEN c ELSE <<[Head(c) EXCEPT !.left = @ - 1]>> \o Tail(c)

-----------------------------------------------------------------------------
(* The table and the list.                                                 *)

\* Where the walk of remove_pd_ack can stop: it starts at the first entry of
\* s, and from there on looks at number and address only.
Found(c, s, q, d) ==
    {j \in DOMAIN c : /\ \E i \in 1..j : c[i].snder = s
                      /\ c[j].seq = q /\ c[j].dst = d}

\* remove_pd_ack.  HT_REMOVE takes out the first entry of s, if the walk ended
\* there; any other entry is unlinked here, and entr_cnt stays.
RemovePdAck(s, q, d) ==
    LET c     == chain[Bucket[s]]
        found == Found(c, s, q, d)
    IN  IF found = {} THEN UNCHANGED <<chain, cnt>>
        ELSE LET at == Min(found)
             IN  /\ chain' = [chain EXCEPT ![Bucket[s]] = Only(@, DOMAIN @ \ {at})]
                 /\ cnt' = IF \A i \in 1..(at - 1) : c[i].snder # s
                           THEN cnt - 1 ELSE cnt

\* The places of a chain that clnt_rm_pd_ad_ann_by_addr leaves.
RmByAddr(c, down) == {j \in DOMAIN c : c[j].dst \notin down}

\* What became of entr_cnt when the loops of sel_timeout.c or
\* clnt_rm_pd_ad_ann_by_addr unlinked entries, one decrement each.
Unlinked(t, u) == Size(t) - Size(u)

\* The timers of a chain counted down, and which of those at J have not run out.
Aged(c) == [j \in DOMAIN c |-> [c[j] EXCEPT !.left = @ - 1]]
RunOut(e) == e.left < 0
Kept(c, J) == {j \in J : ~RunOut(c[j])}

\* prep_retran_pkt for the entries of t at the places due, bucket by bucket:
\* each is put in front of list q, with a new timer.
Renewed(c) == [j \in DOMAIN c |-> [c[j] EXCEPT !.left = Retran]]
Again(q, t, due) ==
    LET upto[i \in 0..Len(t)] ==
            IF i = 0 THEN q ELSE Pushed(upto[i - 1], Renewed(t[i]), due[i])
    IN  upto[Len(t)]

\* The neighbours prep_flood_lsa makes an announcement of s for.
Targets(s, but) == {i \in DOMAIN Nbr : Nbr[i] \in valid' \ (but \cup {s})}

\* prep_flood_lsa: one announcement of s after the other is put in front.
Flood(q, s, but) ==
    Pushed(q, [i \in DOMAIN Nbr |-> Ad(s, next[s], Nbr[i])], Targets(s, but))

UseNumber(s) ==
    /\ next[s] < MaxSeq[s]
    /\ next' = [next EXCEPT ![s] = @ + 1]

CanReply == Cardinality(DOMAIN outq \ AdsAt(outq)) < MaxReply

-----------------------------------------------------------------------------
(* The handlers.                                                           *)

Init ==
    /\ outq = <<>> /\ chain = [i \in Index |-> <<>>] /\ cnt = 0
    /\ next = [s \in Sender |-> 0]
    /\ valid = Dst
    /\ sent = {} /\ spared = {} /\ answer = {}

\* The start of the node, and an ADDFILE of its server.
FloodLocal ==
    /\ UNCHANGED <<chain, cnt, valid, sent, spared>>
    /\ UseNumber(Self)
    /\ outq' = Flood(outq, Self, {})
    /\ answer' = {}

\* A new announcement of s comes from neighbour d.  If s is a neighbour that
\* was down it is up again; the announcement is relayed, if its ttl allows,
\* and answered.
RecvNewAd(s, d) ==
    /\ CanReply /\ s # Self
    /\ UseNumber(s)
    /\ valid' = valid \cup ({s} \cap Dst)
    /\ \/ outq' = <<Answer(d)>> \o Flood(outq, s, {d})
       \/ outq' = <<Answer(d)>> \o outq
    /\ answer' = {}
    /\ UNCHANGED <<chain, cnt, sent, spared>>

\* Any other announcement is answered with an ACK or a SEQ.
RecvOldAd(d) ==
    /\ CanReply
    /\ outq' = <<Answer(d)>> \o outq
    /\ answer' = {}
    /\ UNCHANGED <<chain, cnt, next, valid, sent, spared>>

\* The answer of d for something that was sent to it.
Answers(s, q, d) ==
    /\ answer' = {[snder |-> s, seq |-> q, dst |-> d]}
    /\ answer' \subseteq sent

\* The ACK of d for number q of s, which may come twice.
RecvAck(s, q, d) ==
    /\ Answers(s, q, d)
    /\ RemovePdAck(s, q, d)
    /\ UNCHANGED <<outq, next, valid, sent, spared>>

\* A SEQ answers number 0.  If it is about the node itself and its number is
\* behind, the node floods.
RecvSeq(s, d) ==
    /\ Answers(s, 0, d)
    /\ UNCHANGED <<valid, sent, spared>>
    /\ RemovePdAck(s, 0, d)
    /\ \/ UNCHANGED <<outq, next>>
       \/ s = Self /\ UseNumber(s) /\ outq' = Flood(outq, s, {})

\* clnt_send_rd_info: from the front of the list on, announcements move into
\* the table, each to the head of its chain; answers are freed.
SendRdInfo ==
    LET ads(i) == {j \in AdsAt(outq) : Bucket[outq[j].snder] = i}
    IN  /\ outq # <<>>
        /\ outq' = <<>>
        /\ chain' = [i \in Index |-> Pushed(chain[i], outq, ads(i))]
        /\ cnt' = cnt + Cardinality(AdsAt(outq))
        /\ sent' = sent \cup Queued
        /\ answer' = {}
        /\ UNCHANGED <<next, valid, spared>>

\* handle_time_out: for each of the neighbours that are down what is pending
\* is removed, though not what is queued; the node floods if one is, or if it
\* is time to advertise (adv); every timer is counted down, and what has run
\* out leaves its chain and is queued again, in the order of the buckets.
HandleTimeOut(down, adv) ==
    LET aged == [i \in Index |-> Aged(chain[i])]
        left == [i \in Index |-> RmByAddr(chain[i], down)]
        due  == [i \in Index |-> {j \in left[i] : RunOut(aged[i][j])}]
    IN  /\ down \subseteq valid
        /\ valid' = valid \ down
        /\ IF adv \/ down # {}
           THEN UseNumber(Self) /\ outq' = Again(Flood(outq, Self, {}), chain, due)
           ELSE UNCHANGED next /\ outq' = Again(outq, chain, due)
        /\ chain' = [i \in Index |-> Only(aged[i], Kept(aged[i], left[i]))]
        /\ cnt' = cnt - Unlinked(chain, chain')
        /\ spared' = {a \in spared : a.dst \notin down}
                        \cup {a \in Queued : a.dst \in down}
        /\ answer' = {}
        /\ UNCHANGED sent

Tick == \E down \in SUBSET valid, adv \in BOOLEAN : HandleTimeOut(down, adv)

Next ==
    \/ FloodLocal \/ SendRdInfo
    \/ \E d \in Dst : RecvOldAd(d) \/ \E s \in Sender : RecvNewAd(s, d) \/ RecvSeq(s, d)
    \/ \E a \in sent : RecvAck(a.snder, a.seq, a.dst)
    \/ Tick

Spec == Init /\ [][Next]_vars

\* The timer ticks, and what is queued is sent (LsaFlood: the same fairness).
FairSpec == Spec /\ WF_vars(SendRdInfo) /\ WF_vars(Tick)

-----------------------------------------------------------------------------
(* Properties.                                                             *)

\* The entries of a chain have the right key and a timer that has not run out;
\* what is numbered was handed out.  entr_cnt, a size_t, is never below the
\* number of entries, so that it does not wrap (it gets too high: remove_pd_ack
\* forgets it).
TypeOK ==
    /\ valid \subseteq Dst
    /\ Queued \cup Pending \cup sent
         \subseteq [snder : Sender, seq : Nat, dst : Dst]
    /\ \A i \in Index : \A e \in Range(chain[i]) :
          Bucket[e.snder] = i /\ e.left \in 0..Retran
    /\ cnt \in Nat /\ cnt >= Size(chain)
    /\ \A a \in Queued \cup Pending : a.seq < next[a.snder]

\* Two senders share a chain, and an answer about the one can be taken for an
\* answer about the other: the walk of remove_pd_ack would stop there.
Confusable ==
    \E i \in Index : \E j, k \in DOMAIN chain[i] :
        /\ j < k /\ chain[i][j].snder # chain[i][k].snder
        /\ [snder |-> chain[i][j].snder, seq |-> chain[i][k].seq,
            dst |-> chain[i][k].dst] \in sent

PS == INSTANCE PendSet WITH queue <- Queued, pending <- Pending

\* Then one leaves the table that has the number and neighbour of the answer.
Mistaken ==
    /\ Confusable /\ PS!Grows({})
    /\ \E a \in answer', b \in Pending : /\ b # a /\ b.seq = a.seq /\ b.dst = a.dst
                                         /\ Pending' = Pending \ {b}

\* The list and the chains with their walks, unlinking and timers do what the
\* two sets of PendSet promise: an announcement leaves the table only for its
\* own answer, with its neighbour, or to be sent again; or, where two senders
\* can be confused, for the answer to one announcement of the other.
KeepsPending == PS!Init /\ [][PS!Next \/ Mistaken]_<<Queued, Pending, answer>>

\* No announcement is twice in the list and the table together, so that one
\* answer is enough to stop its retransmission.
Distinct(c) ==
    \A j, k \in AdsAt(c) : Ann(c[j]) = Ann(c[k]) => j = k
OnePlace ==
    /\ Queued \cap Pending = {}
    /\ Distinct(outq) /\ \A i \in Index : Distinct(chain[i])

\* The node sends nothing to a neighbour that is down, but for what was in its
\* list when the neighbour went down: that is still sent, and retransmitted.
DownOnlySpared ==
    \A a \in Queued \cup Pending : a.dst \in valid \/ a \in spared

\* Nothing stays in the table for good: it is answered, dropped with its
\* neighbour, or sent again.
Retransmitted ==
    \A a \in [snder : Sender, seq : 0..1, dst : Dst] :
        a \in Pending ~> a \notin Pending
=============================================================================
