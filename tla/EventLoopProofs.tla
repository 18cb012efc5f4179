-------------------------- MODULE EventLoopProofs --------------------------
(***************************************************************************)
(* Proofs about the event loop, for any number of clients and descriptors  *)
(* and whatever the clients send: select is given the descriptors that are *)
(* open, each of one client; a packet to send keeps the routing socket     *)
(* among those to be written; each request is read as it was sent, and     *)
(* answered in its place; and nothing but the circumstances that are       *)
(* marked takes the daemon down.                                           *)
(***************************************************************************)
EXTENDS EventLoop, Induction

\* The fields of a client's side, whatever is in them.
SockFields == {"st", "fd", "plan", "sent", "ans", "torn", "edge", "ahead"}
IsSock(s) == DOMAIN s = SockFields /\ s = [x \in SockFields |-> s[x]]

SockType ==
    /\ DOMAIN sock = Client
    /\ \A k \in Client : IsSock(sock[k]) /\ sock[k].fd \in Fd \cup {0}

\* Who waits to be accepted is no client twice, nor one that has a descriptor or
\* has yet to connect; and accept is called only if somebody waits.
BacklogOK ==
    /\ backlog \in Seq(Client)
    /\ \A i \in DOMAIN backlog : sock[backlog[i]].fd = 0 /\ sock[backlog[i]].st # "new"
    /\ \A i, j \in DOMAIN backlog : backlog[i] = backlog[j] => i = j
    /\ \A k \in Client : sock[k].st = "new" => sock[k].fd = 0
    /\ LcSock \in toRead => backlog # <<>>
    /\ toRead # {} => pc \in {"read", "down"}

SocketsOK == SockType /\ BacklogOK /\ FdSetsMatch

-----------------------------------------------------------------------------
(* Descriptors.                                                            *)

LEMMA Fds ==
    /\ LcSock # RdSock /\ LcSock # 0 /\ RdSock # 0
    /\ LcSock \notin Fd /\ RdSock \notin Fd /\ 0 \notin Fd
<1>1. \A f \in Fd : f \in Nat /\ RdSock < f
  BY LoopAssumption
<1> QED
  BY <1>1, LoopAssumption

\* The lowest free descriptor is one.
LEMMA MinFd ==
    ASSUME NEW S, S \subseteq Fd, S # {}
    PROVE  Min(S) \in S
<1>1. S \in SUBSET Nat
  BY LoopAssumption
<1> QED
  BY <1>1, MinNat

\* The client of a descriptor in use.
LEMMA ClientOf ==
    ASSUME FdSetsMatch, NEW f \in Fd, f \in exist
    PROVE  /\ ClientAt(f) \in Client /\ sock[ClientAt(f)].fd = f
           /\ \A k \in Client : sock[k].fd = f => k = ClientAt(f)
<1>1. \E k \in Client : Attached(k) /\ sock[k].fd = f
  BY Fds DEF FdSetsMatch
<1>2. ClientAt(f) \in Client /\ Attached(ClientAt(f)) /\ sock[ClientAt(f)].fd = f
  BY <1>1 DEF ClientAt
<1> QED
  BY <1>2 DEF FdSetsMatch

-----------------------------------------------------------------------------
(* What a step does to the sockets.                                        *)

\* Nobody gets or loses a descriptor, or begins to wait.
SameSocks ==
    /\ DOMAIN sock' = Client
    /\ \A k \in Client : /\ IsSock(sock'[k]) /\ sock'[k].fd = sock[k].fd
                         /\ sock'[k].st = "new" => sock[k].st = "new"
    /\ UNCHANGED <<exist, rdset, backlog>>
    /\ wrset' \subseteq exist

LEMMA SameSocksStep ==
    ASSUME SocketsOK, SameSocks,
           LcSock \in toRead' => backlog # <<>>,
           toRead' # {} => pc' \in {"read", "down"}
    PROVE  SocketsOK'
<1>1. SockType'
  BY DEF SocketsOK, SockType, SameSocks
<1>2. BacklogOK'
  <2>1. \A i \in DOMAIN backlog : backlog[i] \in Client
    BY DEF SocketsOK, BacklogOK
  <2> QED
    BY <2>1 DEF SocketsOK, BacklogOK, SameSocks
<1>3. FdSetsMatch'
  <2>1. \A k \in Client : Attached(k)' <=> Attached(k)
    BY DEF Attached, SameSocks
  <2> QED
    BY <2>1 DEF SocketsOK, FdSetsMatch, SameSocks
<1> QED
  BY <1>1, <1>2, <1>3 DEF SocketsOK

\* A connection is given up.
LEMMA RemoveStep ==
    ASSUME SocketsOK, NEW f \in Fd, f \in exist, NEW s, IsSock(s),
           RemoveClntInfo(f, ClientAt(f), s),
           UNCHANGED backlog, toRead' \subseteq toRead, pc' = pc
    PROVE  SocketsOK'
<1> DEFINE k == ClientAt(f)
<1>1. k \in Client /\ sock[k].fd = f /\ f # 0 /\ \A j \in Client : sock[j].fd = f => j = k
  BY ClientOf, Fds DEF SocketsOK
<1>2. /\ DOMAIN sock' = Client
      /\ sock'[k] = [s EXCEPT !.fd = 0, !.st = "closed"]
      /\ \A j \in Client \ {k} : sock'[j] = sock[j]
  BY <1>1 DEF RemoveClntInfo, SocketsOK, SockType
<1>3. sock'[k].fd = 0 /\ sock'[k].st = "closed" /\ IsSock(sock'[k])
  BY <1>2 DEF IsSock, SockFields
<1> HIDE DEF k
<1>4. SockType'
  BY <1>1, <1>2, <1>3 DEF SocketsOK, SockType
<1>5. BacklogOK'
  <2>1. \A i \in DOMAIN backlog : backlog[i] \in Client \ {k}
    BY <1>1 DEF SocketsOK, BacklogOK
  <2>2. \A i \in DOMAIN backlog : sock'[backlog[i]] = sock[backlog[i]]
    BY <1>2, <2>1
  <2>3. \A j \in Client : sock'[j].st = "new" => sock'[j].fd = 0
    BY <1>2, <1>3 DEF SocketsOK, BacklogOK
  <2> QED
    BY <2>2, <2>3 DEF SocketsOK, BacklogOK
<1>6. FdSetsMatch'
  <2>1. rdset' = rdset \ {f} /\ wrset' = wrset \ {f} /\ exist' = exist \ {f}
    BY DEF RemoveClntInfo
  <2>2. \A j \in Client : Attached(j)' <=> Attached(j) /\ j # k
    BY <1>1, <1>2, <1>3 DEF Attached
  <2>3. \A j \in Client : Attached(j)' => sock'[j] = sock[j] /\ sock[j].fd # f
    BY <1>1, <1>2, <2>2
  <2>4. exist' = {LcSock, RdSock} \cup {sock'[j].fd : j \in {i \in Client : Attached(i)'}}
    <3>1. exist = {LcSock, RdSock} \cup {sock[j].fd : j \in {i \in Client : Attached(i)}}
      BY DEF SocketsOK, FdSetsMatch
    <3>2. \A g : g \in exist' => g \in {LcSock, RdSock} \/ \E j \in Client : Attached(j)' /\ g = sock'[j].fd
      BY <1>1, <1>2, <2>1, <2>2, <3>1
    <3>3. \A j \in Client : Attached(j)' => sock'[j].fd \in exist'
      BY <2>1, <2>2, <2>3, <3>1
    <3>4. {LcSock, RdSock} \subseteq exist'
      BY <2>1, <3>1, Fds
    <3> QED
      BY <3>2, <3>3, <3>4
  <2>5. \A i, j \in Client : Attached(i)' /\ sock'[i].fd = sock'[j].fd => i = j
    <3> SUFFICES ASSUME NEW i \in Client, NEW j \in Client, Attached(i)',
                        sock'[i].fd = sock'[j].fd
                 PROVE  i = j
      OBVIOUS
    <3>1. Attached(j)'
      BY DEF Attached
    <3> QED
      BY <2>2, <2>3, <3>1 DEF SocketsOK, FdSetsMatch
  <2> QED
    BY <2>1, <2>4, <2>5 DEF SocketsOK, FdSetsMatch
<1> QED
  BY <1>4, <1>5, <1>6 DEF SocketsOK

\* The first client that waits gets the lowest free descriptor.
LEMMA AcceptStep == SocketsOK /\ AcceptNew => SocketsOK'
<1> SUFFICES ASSUME SocketsOK, AcceptNew PROVE SocketsOK'
  OBVIOUS
<1>1. backlog # <<>> /\ toRead' = toRead \ {LcSock} /\ pc' = pc /\ wrset' = wrset
  BY DEF SocketsOK, BacklogOK, AcceptNew, Reading, NextFd
<1>2. CASE Fd \subseteq exist
  <2>1. SameSocks
    BY <1>2 DEF AcceptNew, SameSocks, SocketsOK, SockType, FdSetsMatch
  <2> QED
    BY <1>1, <2>1, SameSocksStep DEF SocketsOK, BacklogOK
<1>3. CASE ~(Fd \subseteq exist)
  <2> DEFINE f == Min(Fd \ exist)
             k == Head(backlog)
  <2>1. f \in Fd \ exist /\ f # 0
    BY <1>3, MinFd, Fds
  <2>2. /\ k \in Client /\ k = backlog[1]
        /\ backlog' = Tail(backlog) /\ backlog' \in Seq(Client)
        /\ \A i \in DOMAIN backlog' : /\ backlog'[i] = backlog[i + 1]
                                      /\ i + 1 \in DOMAIN backlog /\ i + 1 # 1
                                      /\ backlog[i + 1] \in Client
    <3>1. backlog' = Tail(backlog)
      BY <1>3 DEF AcceptNew
    <3>2. backlog \in Seq(Client) /\ Len(backlog) > 0
      BY <1>1 DEF SocketsOK, BacklogOK
    <3>3. k = backlog[1] /\ k \in Client
      BY <3>2
    <3>4. backlog' \in Seq(Client) /\ Len(backlog') = Len(backlog) - 1
      BY <3>1, <3>2
    <3>5. \A i \in DOMAIN backlog' : backlog'[i] = backlog[i + 1] /\ i \in Nat \ {0}
      BY <3>1, <3>2, <3>4
    <3>6. \A i \in DOMAIN backlog' : i + 1 \in DOMAIN backlog /\ backlog[i + 1] \in Client
      BY <3>2, <3>4
    <3>7. \A i \in DOMAIN backlog' : i + 1 # 1
      BY <3>5
    <3> QED
      BY <3>1, <3>3, <3>4, <3>5, <3>6, <3>7
  <2>3. /\ rdset' = rdset \cup {f} /\ exist' = exist \cup {f}
        /\ sock' = [sock EXCEPT ![k].fd = f]
    BY <1>3 DEF AcceptNew, CreateClntInfo
  <2>4. sock[k].fd = 0 /\ sock[k].st # "new" /\ IsSock(sock[k])
    BY <1>1, <2>2 DEF SocketsOK, BacklogOK, SockType
  <2> HIDE DEF f, k
  <2>5. /\ DOMAIN sock' = Client
        /\ sock'[k].fd = f /\ sock'[k].st = sock[k].st /\ IsSock(sock'[k])
        /\ \A j \in Client \ {k} : sock'[j] = sock[j]
    BY <2>2, <2>3, <2>4 DEF SocketsOK, SockType, IsSock, SockFields
  <2>6. SockType'
    BY <2>1, <2>5 DEF SocketsOK, SockType
  <2>7. BacklogOK'
    <3>1. \A i \in DOMAIN backlog' : backlog'[i] \in Client \ {k}
      BY <1>1, <2>2 DEF SocketsOK, BacklogOK
    <3>2. \A i \in DOMAIN backlog' : sock'[backlog'[i]].fd = 0 /\ sock'[backlog'[i]].st # "new"
      BY <2>2, <2>5, <3>1 DEF SocketsOK, BacklogOK
    <3>3. \A i, j \in DOMAIN backlog' : backlog'[i] = backlog'[j] => i = j
      <4> SUFFICES ASSUME NEW i \in DOMAIN backlog', NEW j \in DOMAIN backlog',
                          backlog'[i] = backlog'[j]
                   PROVE  i = j
        OBVIOUS
      <4>1. i + 1 = j + 1
        BY <2>2 DEF SocketsOK, BacklogOK
      <4>2. i \in Nat /\ j \in Nat
        BY <2>2
      <4> QED
        BY <4>1, <4>2
    <3>4. \A j \in Client : sock'[j].st = "new" => sock'[j].fd = 0
      BY <2>4, <2>5 DEF SocketsOK, BacklogOK
    <3> QED
      BY <1>1, <2>2, <3>2, <3>3, <3>4 DEF SocketsOK, BacklogOK
  <2>8. FdSetsMatch'
    <3>1. \A j \in Client : Attached(j)' <=> Attached(j) \/ j = k
      BY <2>1, <2>2, <2>5 DEF Attached
    <3>2. exist = {LcSock, RdSock} \cup {sock[j].fd : j \in {i \in Client : Attached(i)}}
      BY DEF SocketsOK, FdSetsMatch
    <3>3. ~Attached(k)
      BY <2>4 DEF Attached
    <3>4. exist' = {LcSock, RdSock} \cup {sock'[j].fd : j \in {i \in Client : Attached(i)'}}
      <4>1. \A g : g \in exist' =>
                \/ g \in {LcSock, RdSock}
                \/ \E j \in Client : Attached(j)' /\ g = sock'[j].fd
        BY <2>2, <2>3, <2>5, <3>1, <3>2, <3>3
      <4>2. \A j \in Client : Attached(j)' => sock'[j].fd \in exist'
        BY <2>2, <2>3, <2>5, <3>1, <3>2
      <4>3. {LcSock, RdSock} \subseteq exist'
        BY <2>3, <3>2
      <4> QED
        BY <4>1, <4>2, <4>3
    <3>5. \A i, j \in Client : Attached(i)' /\ sock'[i].fd = sock'[j].fd => i = j
      <4> SUFFICES ASSUME NEW i \in Client, NEW j \in Client, Attached(i)',
                          sock'[i].fd = sock'[j].fd
                   PROVE  i = j
        OBVIOUS
      <4>1. Attached(j)'
        BY DEF Attached
      <4>2. \A n \in Client \ {k} : Attached(n)' => Attached(n) /\ sock'[n].fd # f
        BY <2>1, <2>5, <3>1, <3>2
      <4> QED
        BY <2>5, <4>1, <4>2 DEF SocketsOK, FdSetsMatch
    <3> QED
      BY <1>1, <2>3, <3>4, <3>5 DEF SocketsOK, FdSetsMatch
  <2> QED
    BY <2>6, <2>7, <2>8 DEF SocketsOK
<1> QED
  BY <1>2, <1>3

\* A client connects.
LEMMA ConnectStep ==
    ASSUME SocketsOK, NEW k \in Client, Connect(k)
    PROVE  SocketsOK'
<1>1. /\ sock[k].st = "new" /\ sock[k].fd = 0 /\ IsSock(sock[k])
      /\ UNCHANGED <<exist, rdset, wrset>> /\ toRead' = toRead /\ pc' = pc
      /\ backlog' = Append(backlog, k)
  BY DEF Connect, SocketsOK, SockType, BacklogOK, loopVars, daemonVars
<1>2. /\ DOMAIN sock' = Client
      /\ sock'[k].fd = 0 /\ sock'[k].st = "open" /\ IsSock(sock'[k])
      /\ \A j \in Client \ {k} : sock'[j] = sock[j]
  <2>1. PICK p : sock' = [sock EXCEPT ![k].st = "open", ![k].plan = p]
    BY DEF Connect
  <2> QED
    BY <1>1, <2>1 DEF SocketsOK, SockType, IsSock, SockFields
<1>3. SockType'
  BY <1>2 DEF SocketsOK, SockType
<1>4. BacklogOK'
  <2>1. /\ backlog \in Seq(Client) /\ Len(backlog) \in Nat
        /\ \A i \in DOMAIN backlog : backlog[i] \in Client \ {k}
    BY <1>1 DEF SocketsOK, BacklogOK
  <2>2. /\ backlog' \in Seq(Client) /\ backlog' # <<>>
        /\ DOMAIN backlog' = DOMAIN backlog \cup {Len(backlog) + 1}
        /\ backlog'[Len(backlog) + 1] = k
        /\ \A i \in DOMAIN backlog : backlog'[i] = backlog[i]
    BY <1>1, <2>1
  <2>3. \A i, j \in DOMAIN backlog' : backlog'[i] = backlog'[j] => i = j
    BY <2>1, <2>2 DEF SocketsOK, BacklogOK
  <2>4. \A i \in DOMAIN backlog' : sock'[backlog'[i]].fd = 0 /\ sock'[backlog'[i]].st # "new"
    BY <1>2, <2>1, <2>2 DEF SocketsOK, BacklogOK
  <2>5. \A j \in Client : sock'[j].st = "new" => sock'[j].fd = 0
    BY <1>2 DEF SocketsOK, BacklogOK
  <2> QED
    BY <1>1, <2>2, <2>3, <2>4, <2>5 DEF SocketsOK, BacklogOK
<1>5. FdSetsMatch'
  <2>1. \A j \in Client : (Attached(j)' <=> Attached(j)) /\ sock'[j].fd = sock[j].fd
    BY <1>1, <1>2 DEF Attached
  <2> QED
    BY <1>1, <2>1 DEF SocketsOK, FdSetsMatch
<1> QED
  BY <1>3, <1>4, <1>5 DEF SocketsOK

\* What a client does to an open connection, and what the daemon remembers of it
\* (Mark, Answered), leaves the descriptor alone.
LEMMA OneSock ==
    ASSUME SocketsOK, NEW k \in Client, NEW s, IsSock(s), s.fd = sock[k].fd,
           s.st = "new" => sock[k].st = "new",
           sock' = [sock EXCEPT ![k] = s],
           UNCHANGED <<exist, rdset, backlog>>, wrset' \subseteq exist
    PROVE  SameSocks
<1> QED
  BY DEF SameSocks, SocketsOK, SockType

LEMMA MarkedSock ==
    ASSUME NEW s, IsSock(s), NEW c
    PROVE  IsSock(Mark(s, c)) /\ Mark(s, c).fd = s.fd /\ Mark(s, c).st = s.st
<1> QED
  BY DEF IsSock, SockFields, Mark

LEMMA AnsweredSock ==
    ASSUME NEW s, IsSock(s), NEW c, NEW t, NEW st \in AfterSend(t)
    PROVE  /\ IsSock(Answered(s, c, st)) /\ Answered(s, c, st).fd = s.fd
           /\ Answered(s, c, st).st = st
           /\ st = "new" => t = "new"
<1>1. st = "new" => t = "new"
  BY DEF AfterSend
<1> QED
  BY <1>1 DEF IsSock, SockFields, Answered

LEMMA ClientStep ==
    ASSUME SocketsOK, NEW k \in Client, Send(k) \/ Close(k) \/ Reset(k)
    PROVE  SocketsOK'
<1>1. IsSock(sock[k]) /\ sock[k].st # "new" /\ wrset \subseteq exist
  BY DEF SocketsOK, SockType, FdSetsMatch, BacklogOK, Send, Close, Reset, Attached
<1>2. \E s : /\ IsSock(s) /\ s.fd = sock[k].fd /\ s.st # "new"
             /\ sock' = [sock EXCEPT ![k] = s]
  <2>1. CASE Send(k)
    <3>1. PICK n, b : sock' = [sock EXCEPT ![k].sent = n, ![k].ahead = b]
      BY <2>1 DEF Send
    <3>2. sock' = [sock EXCEPT ![k] = [sock[k] EXCEPT !.sent = n, !.ahead = b]]
      BY <3>1
    <3> DEFINE s == [sock[k] EXCEPT !.sent = n, !.ahead = b]
    <3>3. IsSock(s) /\ s.fd = sock[k].fd /\ s.st = sock[k].st
      BY <1>1 DEF IsSock, SockFields
    <3> QED
      BY <1>1, <3>2, <3>3
  <2>2. CASE Close(k) \/ Reset(k)
    <3>1. PICK st \in {"eof", "reset"} : sock' = [sock EXCEPT ![k].st = st]
      BY <2>2 DEF Close, Reset
    <3>2. sock' = [sock EXCEPT ![k] = [sock[k] EXCEPT !.st = st]]
      BY <3>1
    <3> DEFINE s == [sock[k] EXCEPT !.st = st]
    <3>3. IsSock(s) /\ s.fd = sock[k].fd /\ s.st # "new"
      BY <1>1 DEF IsSock, SockFields
    <3> QED
      BY <1>1, <3>2, <3>3
  <2> QED
    BY <2>1, <2>2
<1>3. UNCHANGED <<exist, rdset, wrset, backlog, toRead, pc>>
  BY DEF Send, Close, Reset, loopVars, daemonVars
<1>4. SameSocks
  BY <1>1, <1>2, <1>3, OneSock
<1> QED
  BY <1>3, <1>4, SameSocksStep DEF SocketsOK, BacklogOK

-----------------------------------------------------------------------------
(* The loop.                                                               *)

\* The steps that leave all client's sides as they are.
LEMMA OtherStep ==
    ASSUME SocketsOK, Select \/ PhaseDone \/ ProcessRtInf \/ SendRdInfo \/ Datagram
    PROVE  SocketsOK'
<1>1. LcSock \in Readables => backlog # <<>>
  BY Fds DEF Readables, SocketsOK, SockType
<1>2. RdSock \in exist /\ wrset \subseteq exist
  BY DEF SocketsOK, FdSetsMatch
<1>3. UNCHANGED <<sock, exist, rdset, backlog>> /\ wrset' \subseteq exist
  BY <1>2 DEF Select, PhaseDone, ProcessRtInf, SendRdInfo, Datagram, loopVars, daemonVars
<1>4. SameSocks
  BY <1>3 DEF SameSocks, SocketsOK, SockType
<1>5. LcSock \in toRead' => backlog # <<>>
  BY <1>1 DEF Select, PhaseDone, ProcessRtInf, SendRdInfo, Datagram, Reading, loopVars,
              SocketsOK, BacklogOK
<1>6. toRead' # {} => pc' \in {"read", "down"}
  BY DEF Select, PhaseDone, ProcessRtInf, SendRdInfo, Datagram, Reading, Writing, loopVars,
         SocketsOK, BacklogOK
<1> QED
  BY <1>4, <1>5, <1>6, SameSocksStep

LEMMA RecvStep ==
    ASSUME SocketsOK, NEW f \in Fd, RecvData(f) \/ PeerClosed(f) \/ PeerReset(f)
    PROVE  SocketsOK'
<1>1. pc = "read" /\ f \in exist /\ toRead' = toRead \ {f}
  BY DEF RecvData, PeerClosed, PeerReset, Reading, NextFd
<1>2. CASE RecvData(f) \/ PeerReset(f)
  <2>1. UNCHANGED <<sock, exist, rdset, backlog>> /\ wrset' \subseteq exist
    BY <1>1, <1>2 DEF RecvData, PeerReset, WrWithData, daemonVars, SocketsOK, FdSetsMatch
  <2>2. SameSocks
    BY <2>1 DEF SameSocks, SocketsOK, SockType
  <2>3. pc' \in {"read", "down"}
    BY <1>1, <1>2 DEF RecvData, PeerReset
  <2> QED
    BY <1>1, <2>2, <2>3, SameSocksStep DEF SocketsOK, BacklogOK
<1>3. CASE PeerClosed(f)
  <2>1. IsSock(NoSock)
    BY DEF NoSock, IsSock, SockFields
  <2> QED
    BY <1>1, <1>3, <2>1, RemoveStep DEF PeerClosed
<1> QED
  BY <1>2, <1>3

\* A connection is handled for writing.
LEMMA WriteStep ==
    ASSUME SocketsOK, NEW f \in Fd, WriteConn(f)
    PROVE  SocketsOK'
<1> DEFINE k == ClientAt(f)
           marked == Mark(sock[k], conn[f])
<1>1. f \in exist
  BY DEF WriteConn, Writing, NextFd
<1>2. k \in Client /\ IsSock(sock[k])
  BY <1>1, ClientOf DEF SocketsOK, SockType
<1>3. IsSock(marked) /\ marked.fd = sock[k].fd /\ marked.st = sock[k].st
  BY <1>2, MarkedSock
<1>4. PICK c : ServeRequest(f, c) \/ SigPipe(f, c) \/ NoFullReq(f, c) \/ ParserLost(f, c)
  BY DEF WriteConn
<1>5. toRead' = toRead /\ UNCHANGED backlog
  BY <1>4 DEF ServeRequest, SigPipe, NoFullReq, ParserLost
<1>6. toRead = {}
  BY DEF WriteConn, Writing, SocketsOK, BacklogOK
<1>7. CASE SigPipe(f, c) \/ NoFullReq(f, c) \/ ParserLost(f, c)
  <2>1. sock' = [sock EXCEPT ![k] = marked]
    BY <1>7 DEF SigPipe, NoFullReq, ParserLost
  <2>2. UNCHANGED <<exist, rdset>> /\ wrset' \subseteq exist
    BY <1>7 DEF SigPipe, NoFullReq, ParserLost, daemonVars, SocketsOK, FdSetsMatch
  <2> HIDE DEF marked
  <2>3. SameSocks
    BY <1>2, <1>3, <1>5, <2>1, <2>2, OneSock
  <2> QED
    BY <1>5, <1>6, <2>3, SameSocksStep
<1>8. CASE ServeRequest(f, c)
  <2>4. PICK st \in AfterSend(sock[k].st) :
          IF c.rst = "BAD_REQUEST" THEN RemoveClntInfo(f, k, Answered(marked, c, st))
          ELSE /\ conn' = [conn EXCEPT ![f] = UpdateConn(c)]
               /\ wrset' = WrAfter(f, Adds(c))
               /\ sock' = [sock EXCEPT ![k] = Answered(marked, c, st)]
               /\ UNCHANGED <<rdset, exist>>
    BY <1>8 DEF ServeRequest
  <2> DEFINE s == Answered(marked, c, st)
  <2>1. IsSock(s) /\ s.fd = sock[k].fd /\ (s.st = "new" => sock[k].st = "new")
    <3> HIDE DEF marked
    <3> QED
      BY <1>3, <2>4, AnsweredSock
  <2>2. CASE c.rst = "BAD_REQUEST"
    <3>1. RemoveClntInfo(f, k, s) /\ pc' = pc
      BY <2>2, <2>4, <1>8 DEF ServeRequest
    <3> HIDE DEF s
    <3> QED
      BY <1>1, <1>5, <2>1, <3>1, RemoveStep
  <2>3. CASE c.rst # "BAD_REQUEST"
    <3>1. sock' = [sock EXCEPT ![k] = s] /\ UNCHANGED <<rdset, exist>> /\ wrset' = WrAfter(f, Adds(c))
      BY <2>3, <2>4
    <3>2. wrset' \subseteq exist
      BY <3>1 DEF WrAfter, SocketsOK, FdSetsMatch
    <3> HIDE DEF s
    <3>3. SameSocks
      BY <1>2, <1>5, <2>1, <3>1, <3>2, OneSock
    <3> QED
      BY <1>5, <1>6, <3>3, SameSocksStep
  <2> QED
    BY <2>2, <2>3
<1> QED
  BY <1>4, <1>7, <1>8

LEMMA InitSockets == Init => SocketsOK
<1> SUFFICES ASSUME Init PROVE SocketsOK
  OBVIOUS
<1>1. SockType
  <2>1. PICK p \in Plan : sock = [k \in Client |-> [NoSock EXCEPT !.plan = p[k]]]
    BY DEF Init
  <2>2. \A k \in Client : IsSock([NoSock EXCEPT !.plan = p[k]])
    BY DEF NoSock, IsSock, SockFields
  <2> QED
    BY <2>1, <2>2 DEF SockType, NoSock
<1>2. BacklogOK
  BY DEF Init, BacklogOK, NoSock
<1>3. FdSetsMatch
  BY DEF Init, FdSetsMatch, NoSock, Attached
<1> QED
  BY <1>1, <1>2, <1>3 DEF SocketsOK

LEMMA SocketsStep == SocketsOK /\ [Next]_vars => SocketsOK'
<1> SUFFICES ASSUME SocketsOK, [Next]_vars PROVE SocketsOK'
  OBVIOUS
<1>1. CASE Select \/ PhaseDone \/ ProcessRtInf \/ SendRdInfo \/ Datagram
  BY <1>1, OtherStep
<1>2. CASE AcceptNew
  BY <1>2, AcceptStep
<1>3. ASSUME NEW f \in Fd, RecvData(f) \/ PeerClosed(f) \/ PeerReset(f) PROVE SocketsOK'
  BY <1>3, RecvStep
<1>4. ASSUME NEW f \in Fd, WriteConn(f) PROVE SocketsOK'
  BY <1>4, WriteStep
<1>5. ASSUME NEW k \in Client, Connect(k) PROVE SocketsOK'
  BY <1>5, ConnectStep
<1>6. ASSUME NEW k \in Client, Send(k) \/ Close(k) \/ Reset(k) PROVE SocketsOK'
  BY <1>6, ClientStep
<1>7. CASE UNCHANGED vars
  <2>1. SameSocks
    BY <1>7 DEF vars, SameSocks, SocketsOK, SockType, FdSetsMatch
  <2> QED
    BY <1>7, <2>1, SameSocksStep DEF vars, SocketsOK, BacklogOK
<1> QED
  BY <1>1, <1>2, <1>3, <1>4, <1>5, <1>6, <1>7 DEF Next, Loop, Environment

\* The descriptors select is given are those that are open, and none belongs to
\* two clients, however connections come, end and take over descriptors.
THEOREM FdSetsInvariance == Spec => []FdSetsMatch
<1>1. SocketsOK => FdSetsMatch
  BY DEF SocketsOK
<1> QED
  BY <1>1, InitSockets, SocketsStep, PTL DEF Spec

-----------------------------------------------------------------------------
(* Packets to send.                                                        *)

\* The routing socket is in wrset whenever it has packets, whichever socket they
\* were queued for; no other descriptor that is taken out of wrset is its own.
THEOREM RoutingAwakeInvariance == Spec => []RoutingAwake
<1>1. Init => RoutingAwake
  BY DEF Init, RoutingAwake
<1>2. RoutingAwake /\ [Next]_vars => RoutingAwake'
  <2> SUFFICES ASSUME RoutingAwake, [Next]_vars PROVE RoutingAwake'
    OBVIOUS
  <2>1. CASE Select \/ PhaseDone \/ AcceptNew \/ ProcessRtInf \/ SendRdInfo \/ Datagram
    BY <2>1 DEF RoutingAwake, Select, PhaseDone, AcceptNew, ProcessRtInf, SendRdInfo,
                Datagram, loopVars, daemonVars
  <2>2. ASSUME NEW f \in Fd, RecvData(f) \/ PeerClosed(f) \/ PeerReset(f)
        PROVE  RoutingAwake'
    BY <2>2, Fds DEF RoutingAwake, RecvData, PeerClosed, PeerReset, RemoveClntInfo,
                     WrWithData, daemonVars
  <2>3. ASSUME NEW f \in Fd, WriteConn(f) PROVE RoutingAwake'
    <3>1. PICK c : ServeRequest(f, c) \/ SigPipe(f, c) \/ NoFullReq(f, c) \/ ParserLost(f, c)
      BY <2>3 DEF WriteConn
    <3>2. CASE SigPipe(f, c) \/ NoFullReq(f, c) \/ ParserLost(f, c)
      BY <3>2, Fds DEF RoutingAwake, SigPipe, NoFullReq, ParserLost, daemonVars
    <3>3. CASE ServeRequest(f, c)
      <4>1. CASE c.rst = "BAD_REQUEST"
        <5>1. ~Adds(c)
          BY <4>1 DEF Adds
        <5>2. (queued' => queued) /\ wrset' = wrset \ {f}
          BY <3>3, <4>1, <5>1 DEF ServeRequest, RemoveClntInfo
        <5> QED
          BY <5>2, Fds DEF RoutingAwake
      <4>2. CASE c.rst # "BAD_REQUEST"
        <5>1. wrset' = WrAfter(f, Adds(c)) /\ (queued' => queued \/ Adds(c))
          BY <3>3, <4>2 DEF ServeRequest
        <5> QED
          BY <5>1 DEF RoutingAwake, WrAfter
      <4> QED
        BY <4>1, <4>2
    <3> QED
      BY <3>1, <3>2, <3>3
  <2>4. ASSUME NEW k \in Client, Connect(k) \/ Send(k) \/ Close(k) \/ Reset(k)
        PROVE  RoutingAwake'
    BY <2>4 DEF RoutingAwake, Connect, Send, Close, Reset, daemonVars
  <2>5. CASE UNCHANGED vars
    BY <2>5 DEF vars, RoutingAwake
  <2> QED
    BY <2>1, <2>2, <2>3, <2>4, <2>5 DEF Next, Loop, Environment
<1> QED
  BY <1>1, <1>2, PTL DEF Spec

-----------------------------------------------------------------------------
(* The parser.                                                             *)

\* The fields of a connection, whatever is in them.
ConnFields == {"data", "junk", "first", "pos", "node", "st", "meth", "len1", "len2",
               "f1", "f2", "rst", "ret"}
IsConn(c) == DOMAIN c = ConnFields /\ c = [x \in ConnFields |-> c[x]]

Start(c) == [c EXCEPT !.ret = "go"]
OneStep(d) == IF d.st = "DONE" \/ d.ret # "go" THEN d ELSE ParseStep(d)
Parsed(c) == OneStep(OneStep(OneStep(OneStep(OneStep(Start(c))))))

\* The equation of Run in ParseReq.
RunIs(c, f) ==
    f = [k \in 0..5 |->
            IF k = 0 THEN {[c EXCEPT !.ret = "go"]}
            ELSE {IF d.st = "DONE" \/ d.ret # "go" THEN d ELSE ParseStep(d) : d \in f[k - 1]}]

LEMMA ParseReqIs ==
    ASSUME NEW c
    PROVE  ParseReq(c) = IF c.node = "null" THEN {[c EXCEPT !.ret = "crash"]}
                         ELSE {Parsed(c)}
<1> DEFINE d0 == Start(c)
           d1 == OneStep(d0)
           d2 == OneStep(d1)
           d3 == OneStep(d2)
           d4 == OneStep(d3)
           d5 == OneStep(d4)
           g == [k \in 0..5 |-> IF k = 0 THEN {d0} ELSE IF k = 1 THEN {d1}
                                ELSE IF k = 2 THEN {d2} ELSE IF k = 3 THEN {d3}
                                ELSE IF k = 4 THEN {d4} ELSE {d5}]
           h == CHOOSE f : RunIs(c, f)
           N(S) == {OneStep(d) : d \in S}
<1>1. /\ g[0] = {d0} /\ g[1] = {d1} /\ g[2] = {d2} /\ g[3] = {d3} /\ g[4] = {d4}
      /\ g[5] = {d5} /\ DOMAIN g = 0..5 /\ g = [k \in 0..5 |-> g[k]]
  OBVIOUS
<1>2. \A d : N({d}) = {OneStep(d)}
  OBVIOUS
<1>3. N({d0}) = {d1} /\ N({d1}) = {d2} /\ N({d2}) = {d3} /\ N({d3}) = {d4} /\ N({d4}) = {d5}
  BY <1>2
<1> HIDE DEF g, d1, d2, d3, d4, d5, d0, N
<1>4. \A k \in 0..5 : g[k] = IF k = 0 THEN {d0} ELSE N(g[k - 1])
  <2>1. /\ g[1] = N(g[0]) /\ g[2] = N(g[1]) /\ g[3] = N(g[2])
        /\ g[4] = N(g[3]) /\ g[5] = N(g[4])
    BY <1>1, <1>3
  <2> SUFFICES ASSUME NEW k \in 0..5 PROVE g[k] = IF k = 0 THEN {d0} ELSE N(g[k - 1])
    OBVIOUS
  <2>2. k = 0 \/ k = 1 \/ k = 2 \/ k = 3 \/ k = 4 \/ k = 5
    OBVIOUS
  <2> QED
    BY <1>1, <2>1, <2>2
<1>5. g = [k \in 0..5 |-> IF k = 0 THEN {d0} ELSE N(g[k - 1])]
  BY <1>1, <1>4
<1>6. RunIs(c, g)
  BY <1>5 DEF RunIs, N, OneStep, d0, Start
<1>7. RunIs(c, h)
  BY <1>6
<1>8. ParseReq(c) = IF c.node = "null" THEN {[c EXCEPT !.ret = "crash"]} ELSE h[5]
  BY DEF ParseReq, RunIs
<1> HIDE DEF h
<1>9. h = [k \in 0..5 |-> IF k = 0 THEN {d0} ELSE N(h[k - 1])]
  BY <1>7 DEF RunIs, N, OneStep, d0, Start
<1>10. /\ h[0] = {d0} /\ h[1] = N(h[0]) /\ h[2] = N(h[1]) /\ h[3] = N(h[2])
       /\ h[4] = N(h[3]) /\ h[5] = N(h[4])
  <2>1. \A k \in 0..5 : h[k] = IF k = 0 THEN {d0} ELSE N(h[k - 1])
    BY <1>9
  <2> QED
    BY <2>1
<1>11. h[5] = {d5}
  BY <1>3, <1>10
<1> QED
  BY <1>8, <1>11 DEF d5, d4, d3, d2, d1, d0, Parsed

\* What the parser relies on and keeps, in every state.
ConnOK(c) ==
    /\ IsConn(c) /\ c.data \in Seq(STRING)
    /\ c.pos \in 0..(Len(c.data) + 1)
    /\ c.st \in {"NEW", "METHOD_DONE", "LEN1_DONE", "FIELD1_DONE", "LEN2_DONE", "DONE",
                 "ERROR"}
    /\ c.rst = IF c.st = "ERROR" THEN "BAD_REQUEST" ELSE "OK"
    /\ c.st = "LEN1_DONE" => c.len1 \in 1..Field1Max
    /\ c.st = "LEN2_DONE" => c.len2 \in 1..Field2Max
    /\ c.st \in {"FIELD1_DONE", "LEN2_DONE"} => Len(c.f1) \in 1..Field1Max
    /\ c.st = "DONE" => Len(c.f1) \in 1..Field1Max

\* While it runs: a node that is NULL is one behind the chain.
Running(d) ==
    /\ ConnOK(d)
    /\ d.node = "null" => PastChain(d, d.pos)
    /\ d.ret = "crash" => PastChain(d, Len(d.data) + 1)
    /\ d.st = "ERROR" => d.ret # "go"

\* The parser reads, it does not receive.
SameData(c, d) == d.data = c.data /\ d.junk = c.junk /\ d.first = c.first

LEMMA RunOutIs ==
    ASSUME NEW c
    PROVE  /\ RunOut(c).ret \in {"crash", "wait"} /\ RunOut(c).pos = c.pos
           /\ RunOut(c).ret = "crash" => PastChain(c, Len(c.data) + 1)
BY DEF RunOut

\* What is found lies before the next position, which is at most the one behind the
\* junk; otherwise the position stays.
Reads(c, r) ==
    /\ r.ret \in {"go", "failed", "wait", "crash"}
    /\ r.ret = "crash" => PastChain(c, Len(c.data) + 1)
    /\ r.ret # "go" => r.pos = c.pos
    /\ r.ret \in {"go", "failed"} => c.pos <= Len(c.data)
    /\ r.ret = "go" => r.pos \in (c.pos + 1)..(Len(c.data) + 1)

LEMMA FieldReads ==
    ASSUME NEW c, Len(c.data) \in Nat, c.pos \in Nat, NEW size \in Nat
    PROVE  Reads(c, GetNextField(c, size))
<1> DEFINE r == GetNextField(c, size)
           n == Len(c.data)
           from == Min(FieldFrom(c))
           spaces == {i \in Readable(c) : from < i /\ ByteAt(c, i) = Space}
           full == from + size
<1>1. Readable(c) = c.pos..n /\ Readable(c) \in SUBSET Nat
  BY DEF Readable
<1>2. FieldFrom(c) \in SUBSET Readable(c) /\ FieldFrom(c) \in SUBSET Nat
  BY <1>1 DEF FieldFrom
<1>3. CASE FieldFrom(c) = {}
  <2>1. r = RunOut(c)
    BY <1>3 DEF GetNextField
  <2> QED
    BY <2>1, RunOutIs DEF Reads
<1>4. CASE FieldFrom(c) # {}
  <2>1. from \in Readable(c)
    BY <1>2, <1>4, MinNat
  <2>2. c.pos <= n
    BY <1>1, <2>1
  <2>3. r = IF \E i \in spaces : i < full
            THEN Found(c, from, Min(spaces) - 1, Min(spaces) + 1)
            ELSE IF full \in Readable(c)
            THEN [ret |-> "failed", val |-> <<>>, pos |-> c.pos]
            ELSE RunOut(c)
    BY <1>4 DEF GetNextField
  <2> HIDE DEF from
  <2>4. spaces \in SUBSET Nat /\ \A i \in spaces : i \in c.pos..n
    BY <1>1
  <2> HIDE DEF spaces, full, r
  <2>5. CASE \E i \in spaces : i < full
    <3>1. Min(spaces) \in c.pos..n
      BY <2>4, <2>5, MinNat
    <3>2. r.ret = "go" /\ r.pos = Min(spaces) + 1
      BY <2>3, <2>5 DEF Found
    <3>3. r.pos \in (c.pos + 1)..(n + 1)
      BY <3>1, <3>2
    <3> QED
      BY <2>2, <3>2, <3>3 DEF Reads, r, n
  <2>6. CASE ~(\E i \in spaces : i < full) /\ full \in Readable(c)
    <3>1. r.ret = "failed" /\ r.pos = c.pos
      BY <2>3, <2>6
    <3> QED
      BY <2>2, <3>1 DEF Reads, r, n
  <2>7. CASE ~(\E i \in spaces : i < full) /\ full \notin Readable(c)
    <3>1. r = RunOut(c)
      BY <2>3, <2>7
    <3> QED
      BY <3>1, RunOutIs DEF Reads, r
  <2> QED
    BY <2>5, <2>6, <2>7
<1> QED
  BY <1>3, <1>4

LEMMA BytesRead ==
    ASSUME NEW c, Len(c.data) \in Nat, c.pos \in Nat, NEW size \in Nat \ {0}
    PROVE  /\ Reads(c, GetBytes(c, size)) /\ GetBytes(c, size).ret # "failed"
           /\ GetBytes(c, size).ret = "go" => Len(GetBytes(c, size).val) = size
<1> DEFINE r == GetBytes(c, size)
<1>1. CASE c.pos + size - 1 \in Readable(c)
  <2>1. /\ r.ret = "go" /\ r.pos = c.pos + size
        /\ r.val = [i \in 1..(c.pos + size - 1 - c.pos + 1) |-> ByteAt(c, c.pos + i - 1)]
    BY <1>1 DEF GetBytes, Found, Bytes
  <2>2. c.pos + size - 1 - c.pos + 1 = size
    OBVIOUS
  <2>3. Len(r.val) = size
    BY <2>1, <2>2
  <2>4. c.pos <= Len(c.data) /\ r.pos \in (c.pos + 1)..(Len(c.data) + 1)
    BY <1>1, <2>1 DEF Readable
  <2> QED
    BY <2>1, <2>3, <2>4 DEF Reads
<1>2. CASE c.pos + size - 1 \notin Readable(c)
  <2>1. r = RunOut(c)
    BY <1>2 DEF GetBytes
  <2> QED
    BY <2>1, RunOutIs DEF Reads
<1> QED
  BY <1>1, <1>2

\* Of the fields, Advance sets three.
LEMMA AdvanceIs ==
    ASSUME NEW c, IsConn(c), NEW r
    PROVE  /\ IsConn(Advance(c, r)) /\ SameData(c, Advance(c, r))
           /\ Advance(c, r).ret = r.ret /\ Advance(c, r).pos = r.pos
           /\ Advance(c, r).node = IF r.ret = "go" /\ PastChain(c, r.pos) THEN "null"
                                   ELSE c.node
           /\ Advance(c, r).st = c.st /\ Advance(c, r).rst = c.rst
           /\ Advance(c, r).meth = c.meth
           /\ Advance(c, r).len1 = c.len1 /\ Advance(c, r).len2 = c.len2
           /\ Advance(c, r).f1 = c.f1 /\ Advance(c, r).f2 = c.f2
BY DEF Advance, IsConn, ConnFields, SameData

LEMMA AdvanceRuns ==
    ASSUME NEW c, Running(c), NEW r, Reads(c, r), c.st # "ERROR"
    PROVE  Running(Advance(c, r))
<1> DEFINE d == Advance(c, r)
<1>1. IsConn(c) /\ c.pos \in 0..(Len(c.data) + 1) /\ Len(c.data) \in Nat
  BY DEF Running, ConnOK
<1>2. /\ IsConn(d) /\ d.data = c.data /\ d.ret = r.ret /\ d.pos = r.pos
      /\ d.node = IF r.ret = "go" /\ PastChain(c, r.pos) THEN "null" ELSE c.node
      /\ d.st = c.st /\ d.rst = c.rst /\ d.len1 = c.len1 /\ d.len2 = c.len2 /\ d.f1 = c.f1
  BY <1>1, AdvanceIs DEF SameData
<1> HIDE DEF d
<1>3. d.pos \in 0..(Len(d.data) + 1)
  BY <1>1, <1>2 DEF Reads
<1>4. /\ PastChain(d, d.pos) <=> PastChain(c, r.pos)
      /\ PastChain(d, Len(d.data) + 1) <=> PastChain(c, Len(c.data) + 1)
  BY <1>2 DEF PastChain
<1>5. d.node = "null" => PastChain(d, d.pos)
  <2>1. CASE r.ret # "go"
    BY <1>2, <1>4, <2>1 DEF Reads, Running
  <2>2. CASE r.ret = "go" /\ ~PastChain(c, r.pos)
    <3>1. c.pos # Len(c.data) + 1
      BY <1>1, <2>2 DEF Reads
    <3>2. c.node # "null"
      BY <3>1 DEF Running, PastChain
    <3> QED
      BY <1>2, <2>2, <3>2
  <2>3. CASE r.ret = "go" /\ PastChain(c, r.pos)
    BY <1>2, <1>4, <2>3
  <2> QED
    BY <2>1, <2>2, <2>3
<1>6. ConnOK(d)
  BY <1>2, <1>3 DEF Running, ConnOK
<1>7. d.ret = "crash" => PastChain(d, Len(d.data) + 1)
  BY <1>2, <1>4 DEF Reads
<1> QED
  BY <1>2, <1>5, <1>6, <1>7 DEF Running, d

LEMMA BadRuns ==
    ASSUME NEW c, Running(c)
    PROVE  Running(BadRequest(c)) /\ SameData(c, BadRequest(c))
<1> DEFINE d == BadRequest(c)
<1>1. /\ IsConn(d) /\ d.data = c.data /\ d.pos = c.pos /\ d.node = c.node
      /\ d.st = "ERROR" /\ d.rst = "BAD_REQUEST" /\ d.ret = "stop"
      /\ SameData(c, d)
  BY DEF BadRequest, IsConn, ConnFields, SameData, Running, ConnOK
<1> HIDE DEF d
<1>2. ConnOK(d)
  BY <1>1 DEF Running, ConnOK
<1>3. PastChain(d, d.pos) <=> PastChain(c, c.pos)
  BY <1>1 DEF PastChain
<1> QED
  BY <1>1, <1>2, <1>3 DEF Running, d

\* A field has been read: what changes in the record besides the position.
Moved(d, e) ==
    /\ IsConn(e) /\ SameData(d, e)
    /\ e.pos = d.pos /\ e.node = d.node /\ e.ret = d.ret /\ e.rst = d.rst

LEMMA MovedRuns ==
    ASSUME NEW d, Running(d), d.st \notin {"DONE", "ERROR"}, NEW e, Moved(d, e),
           e.st \in {"METHOD_DONE", "LEN1_DONE", "FIELD1_DONE", "LEN2_DONE", "DONE"},
           e.st = "LEN1_DONE" => e.len1 \in 1..Field1Max,
           e.st = "LEN2_DONE" => e.len2 \in 1..Field2Max,
           e.st \in {"FIELD1_DONE", "LEN2_DONE", "DONE"} => Len(e.f1) \in 1..Field1Max
    PROVE  Running(e)
<1>1. /\ e.data = d.data /\ e.pos = d.pos /\ e.node = d.node /\ e.ret = d.ret
      /\ e.rst = d.rst /\ IsConn(e)
  BY DEF Moved, SameData
<1>2. /\ d.data \in Seq(STRING) /\ d.pos \in 0..(Len(d.data) + 1) /\ d.rst = "OK"
  BY DEF Running, ConnOK
<1>3. ConnOK(e)
  BY <1>1, <1>2 DEF ConnOK
<1>4. /\ PastChain(e, e.pos) <=> PastChain(d, d.pos)
      /\ PastChain(e, Len(e.data) + 1) <=> PastChain(d, Len(d.data) + 1)
  BY <1>1 DEF PastChain
<1> QED
  BY <1>1, <1>3, <1>4 DEF Running

LEMMA MethodRuns ==
    ASSUME NEW c, Running(c), c.st = "NEW"
    PROVE  Running(ParseMethod(c)) /\ SameData(c, ParseMethod(c))
<1> DEFINE r == GetNextField(c, MethodRoom)
           d == Advance(c, r)
<1>1. IsConn(c) /\ Len(c.data) \in Nat /\ c.pos \in Nat
  BY DEF Running, ConnOK
<1>2. Reads(c, r)
  BY <1>1, FieldReads, ParserAssumption
<1>3. ParseMethod(c) = IF r.ret = "failed" THEN BadRequest(c)
                       ELSE IF r.ret \in {"wait", "crash"} THEN d
                       ELSE IF r.val \in {<<m>> : m \in Method}
                       THEN [d EXCEPT !.meth = r.val[1], !.st = "METHOD_DONE"]
                       ELSE BadRequest(d)
  BY DEF ParseMethod
<1> HIDE DEF r
<1>4. Running(d) /\ SameData(c, d) /\ d.st = "NEW" /\ IsConn(d)
  BY <1>1, <1>2, AdvanceRuns, AdvanceIs
<1> HIDE DEF d
<1> DEFINE e == [d EXCEPT !.meth = r.val[1], !.st = "METHOD_DONE"]
<1>5. Moved(d, e) /\ e.st = "METHOD_DONE"
  BY <1>4 DEF Moved, SameData, IsConn, ConnFields
<1> HIDE DEF e
<1>6. Running(e) /\ SameData(d, e)
  BY <1>4, <1>5, MovedRuns DEF Moved
<1>7. /\ Running(BadRequest(c)) /\ SameData(c, BadRequest(c))
      /\ Running(BadRequest(d)) /\ SameData(d, BadRequest(d))
  BY <1>4, BadRuns
<1>8. SameData(c, e) /\ SameData(c, BadRequest(d))
  BY <1>4, <1>6, <1>7 DEF SameData
<1> QED
  BY <1>3, <1>4, <1>6, <1>7, <1>8 DEF e

LEMMA LenRuns ==
    ASSUME NEW c, Running(c), c.st \in {"METHOD_DONE", "FIELD1_DONE"}
    PROVE  Running(ParseLen(c)) /\ SameData(c, ParseLen(c))
<1> DEFINE r == GetNextField(c, LenRoom)
           d == Advance(c, r)
           InRange(max) == IsNum(r.val) /\ Num(r.val) \in 1..max
           e == [d EXCEPT !.len1 = Num(r.val), !.st = "LEN1_DONE"]
           g == [d EXCEPT !.len2 = Num(r.val), !.st = "LEN2_DONE"]
<1>1. IsConn(c) /\ Len(c.data) \in Nat /\ c.pos \in Nat
  BY DEF Running, ConnOK
<1>2. Reads(c, r)
  BY <1>1, FieldReads, ParserAssumption
<1>3. ParseLen(c) = IF r.ret = "failed" THEN BadRequest(c)
                    ELSE IF r.ret \in {"wait", "crash"} THEN d
                    ELSE IF c.st = "METHOD_DONE" /\ InRange(Field1Max) THEN e
                    ELSE IF c.st = "FIELD1_DONE" /\ InRange(Field2Max) THEN g
                    ELSE BadRequest(d)
  BY DEF ParseLen
<1> HIDE DEF r
<1>4. Running(d) /\ SameData(c, d) /\ d.st = c.st /\ IsConn(d) /\ d.f1 = c.f1
  BY <1>1, <1>2, AdvanceRuns, AdvanceIs
<1> HIDE DEF d
<1>5. /\ Moved(d, e) /\ e.st = "LEN1_DONE" /\ e.len1 = Num(r.val)
      /\ Moved(d, g) /\ g.st = "LEN2_DONE" /\ g.len2 = Num(r.val) /\ g.f1 = d.f1
  BY <1>4 DEF Moved, SameData, IsConn, ConnFields
<1>6. c.st = "FIELD1_DONE" => Len(d.f1) \in 1..Field1Max
  BY <1>4 DEF Running, ConnOK
<1> HIDE DEF e, g
<1>7. InRange(Field1Max) => Running(e)
  BY <1>4, <1>5, MovedRuns
<1>8. c.st = "FIELD1_DONE" /\ InRange(Field2Max) => Running(g)
  BY <1>4, <1>5, <1>6, MovedRuns
<1>9. /\ Running(BadRequest(c)) /\ SameData(c, BadRequest(c))
      /\ Running(BadRequest(d)) /\ SameData(d, BadRequest(d))
  BY <1>4, BadRuns
<1>10. SameData(c, e) /\ SameData(c, g) /\ SameData(c, BadRequest(d))
  BY <1>4, <1>5, <1>9 DEF SameData, Moved
<1> QED
  BY <1>3, <1>4, <1>7, <1>8, <1>9, <1>10

LEMMA DataRuns ==
    ASSUME NEW c, Running(c), c.st \in {"LEN1_DONE", "LEN2_DONE"}
    PROVE  Running(ParseData(c)) /\ SameData(c, ParseData(c))
<1> DEFINE size == IF c.st = "LEN1_DONE" THEN c.len1 ELSE c.len2
           r == GetBytes(c, size)
           d == Advance(c, r)
           e == FieldDone(d, r.val)
<1>1. /\ IsConn(c) /\ Len(c.data) \in Nat /\ c.pos \in Nat /\ size \in Nat \ {0}
      /\ (c.st = "LEN1_DONE" => size \in 1..Field1Max)
      /\ (c.st = "LEN2_DONE" => Len(c.f1) \in 1..Field1Max)
  BY ParserAssumption DEF Running, ConnOK
<1>2. Reads(c, r) /\ (r.ret = "go" => Len(r.val) = size)
  BY <1>1, BytesRead
<1>3. ParseData(c) = IF r.ret = "go" THEN e ELSE d
  BY DEF ParseData
<1> HIDE DEF r, size
<1>4. Running(d) /\ SameData(c, d) /\ d.st = c.st /\ IsConn(d) /\ d.f1 = c.f1
  BY <1>1, <1>2, AdvanceRuns, AdvanceIs
<1> HIDE DEF d
<1>5. ASSUME r.ret = "go" PROVE Running(e) /\ SameData(c, e)
  <2>1. CASE c.st = "LEN1_DONE"
    <3>1. e = [d EXCEPT !.f1 = r.val,
                        !.st = IF d.meth = "GETRD" THEN "DONE" ELSE "FIELD1_DONE"]
      BY <1>4, <2>1 DEF FieldDone
    <3>2. Moved(d, e) /\ e.st \in {"DONE", "FIELD1_DONE"} /\ e.f1 = r.val
      BY <1>4, <3>1 DEF Moved, SameData, IsConn, ConnFields
    <3> HIDE DEF e
    <3>3. Len(e.f1) \in 1..Field1Max
      BY <1>1, <1>2, <1>5, <2>1, <3>2
    <3> QED
      BY <1>4, <2>1, <3>2, <3>3, MovedRuns DEF Moved, SameData
  <2>2. CASE c.st = "LEN2_DONE"
    <3>1. e = [d EXCEPT !.f2 = r.val, !.st = "DONE"]
      BY <1>4, <2>2 DEF FieldDone
    <3>2. Moved(d, e) /\ e.st = "DONE" /\ e.f1 = d.f1
      BY <1>4, <3>1 DEF Moved, SameData, IsConn, ConnFields
    <3> HIDE DEF e
    <3> QED
      BY <1>1, <1>4, <2>2, <3>2, MovedRuns DEF Moved, SameData
  <2> QED
    BY <2>1, <2>2
<1> QED
  BY <1>3, <1>4, <1>5

LEMMA StepRuns ==
    ASSUME NEW c, Running(c)
    PROVE  Running(OneStep(c)) /\ SameData(c, OneStep(c))
<1>1. CASE c.st = "DONE" \/ c.ret # "go"
  BY <1>1 DEF OneStep, SameData
<1>2. CASE c.st # "DONE" /\ c.ret = "go"
  <2>1. c.st \in {"NEW", "METHOD_DONE", "LEN1_DONE", "FIELD1_DONE", "LEN2_DONE"}
    BY <1>2 DEF Running, ConnOK
  <2>2. OneStep(c) = IF c.st = "NEW" THEN ParseMethod(c)
                     ELSE IF c.st \in {"METHOD_DONE", "FIELD1_DONE"} THEN ParseLen(c)
                     ELSE ParseData(c)
    BY <1>2, <2>1 DEF OneStep, ParseStep
  <2> QED
    BY <2>1, <2>2, MethodRuns, LenRuns, DataRuns
<1> QED
  BY <1>1, <1>2

\* What a call of parse_req makes of a connection that is not at the end of a request.
LEMMA ParseRuns ==
    ASSUME NEW c, ConnOK(c), c.st \notin {"DONE", "ERROR"}, NEW d \in ParseReq(c)
    PROVE  /\ ConnOK(d) /\ SameData(c, d)
           /\ d.ret = "crash" \/ d.node = "null" =>
                 c.node = "null" \/ PastChain(d, Len(d.data) + 1)
           /\ d.node = "null" /\ c.node # "null" => d.pos % BUFBLK_SIZE = 0
<1>1. CASE c.node = "null"
  <2>1. d = [c EXCEPT !.ret = "crash"]
    BY <1>1, ParseReqIs
  <2>2. /\ IsConn(d) /\ SameData(c, d) /\ d.data = c.data /\ d.pos = c.pos
        /\ d.st = c.st /\ d.rst = c.rst
        /\ d.len1 = c.len1 /\ d.len2 = c.len2 /\ d.f1 = c.f1
    BY <2>1 DEF ConnOK, IsConn, ConnFields, SameData
  <2>3. ConnOK(d)
    BY <2>2 DEF ConnOK
  <2> QED
    BY <1>1, <2>2, <2>3
<1>2. CASE c.node # "null"
  <2> DEFINE d0 == Start(c)
             d1 == OneStep(d0)
             d2 == OneStep(d1)
             d3 == OneStep(d2)
             d4 == OneStep(d3)
             d5 == OneStep(d4)
  <2>1. d = d5
    BY <1>2, ParseReqIs DEF Parsed
  <2>2. /\ IsConn(d0) /\ SameData(c, d0) /\ d0.data = c.data /\ d0.pos = c.pos
        /\ d0.st = c.st /\ d0.rst = c.rst /\ d0.node = c.node /\ d0.ret = "go"
        /\ d0.len1 = c.len1 /\ d0.len2 = c.len2 /\ d0.f1 = c.f1
    BY DEF ConnOK, IsConn, ConnFields, SameData, Start
  <2>3. Running(d0)
    <3> HIDE DEF d0
    <3>1. ConnOK(d0)
      BY <2>2 DEF ConnOK
    <3> QED
      BY <1>2, <2>2, <3>1 DEF Running
  <2> HIDE DEF d0
  <2>4. Running(d1) /\ SameData(d0, d1)
    BY <2>3, StepRuns
  <2> HIDE DEF d1
  <2>5. Running(d2) /\ SameData(d1, d2)
    BY <2>4, StepRuns
  <2> HIDE DEF d2
  <2>6. Running(d3) /\ SameData(d2, d3)
    BY <2>5, StepRuns
  <2> HIDE DEF d3
  <2>7. Running(d4) /\ SameData(d3, d4)
    BY <2>6, StepRuns
  <2> HIDE DEF d4
  <2>8. Running(d5) /\ SameData(d4, d5)
    BY <2>7, StepRuns
  <2> HIDE DEF d5
  <2>9. SameData(c, d5)
    BY <2>2, <2>4, <2>5, <2>6, <2>7, <2>8 DEF SameData
  <2>10. PastChain(d5, d5.pos) => PastChain(d5, Len(d5.data) + 1) /\ d5.pos % BUFBLK_SIZE = 0
    BY DEF PastChain
  <2> QED
    BY <2>1, <2>8, <2>9, <2>10 DEF Running
<1> QED
  BY <1>1, <1>2

-----------------------------------------------------------------------------
(* What a client sends.                                                    *)

\* u is s and then t.
Joins(s, t, u) ==
    /\ Len(u) = Len(s) + Len(t)
    /\ \A x \in 1..Len(s) : u[x] = s[x]
    /\ \A x \in 1..Len(t) : u[Len(s) + x] = t[x]

LEMMA ConcatJoins ==
    ASSUME NEW S, NEW s \in Seq(S), NEW t \in Seq(S)
    PROVE  s \o t \in Seq(S) /\ Joins(s, t, s \o t)
BY DEF Joins

\* The bytes of the first i of the sequences ss, for every i.
PrefixFn(ss, F) ==
    /\ F \in [0..Len(ss) -> Seq(STRING)] /\ F[0] = <<>>
    /\ \A i \in 1..Len(ss) : F[i] = F[i - 1] \o ss[i]

LEMMA PrefixAt ==
    ASSUME NEW ss \in Seq(Seq(STRING)), NEW F, PrefixFn(ss, F), NEW i \in 1..Len(ss)
    PROVE  /\ F[i - 1] \in Seq(STRING) /\ F[i] \in Seq(STRING) /\ ss[i] \in Seq(STRING)
           /\ F[i] = F[i - 1] \o ss[i]
           /\ Joins(F[i - 1], ss[i], F[i])
<1>1. F \in [0..Len(ss) -> Seq(STRING)]
  BY DEF PrefixFn
<1>2. i - 1 \in 0..Len(ss) /\ i \in 0..Len(ss) /\ ss[i] \in Seq(STRING)
  OBVIOUS
<1>3. F[i] = F[i - 1] \o ss[i]
  BY DEF PrefixFn
<1> QED
  BY <1>1, <1>2, <1>3, ConcatJoins

LEMMA PrefixesExist ==
    ASSUME NEW ss \in Seq(Seq(STRING))
    PROVE  \E F : PrefixFn(ss, F)
<1> DEFINE V == Seq(STRING)
           T == [i \in 1..Len(ss) |-> [s \in V |-> s \o ss[i]]]
<1>1. Len(ss) \in Nat /\ <<>> \in V /\ \A i \in 1..Len(ss) : ss[i] \in V
  OBVIOUS
<1>2. \A i \in 1..Len(ss) : [s \in V |-> s \o ss[i]] \in [V -> V]
  BY <1>1
<1>3. T \in [1..Len(ss) -> [V -> V]]
  BY <1>2
<1>4. \A i \in 1..Len(ss), s \in V : T[i][s] = s \o ss[i]
  OBVIOUS
<1> HIDE DEF T
<1>5. PICK F : Iterates(F, Len(ss), V, <<>>, T)
  BY <1>1, <1>3, Iterated
<1>6. F \in [0..Len(ss) -> V] /\ F[0] = <<>>
  BY <1>5 DEF Iterates
<1>7. \A i \in 1..Len(ss) : F[i] = F[i - 1] \o ss[i]
  <2> SUFFICES ASSUME NEW i \in 1..Len(ss) PROVE F[i] = F[i - 1] \o ss[i]
    OBVIOUS
  <2>1. i - 1 \in 0..Len(ss)
    BY <1>1
  <2>2. F[i - 1] \in V
    BY <1>6, <2>1
  <2>3. F[i] = T[i][F[i - 1]]
    BY <1>5 DEF Iterates
  <2> QED
    BY <1>4, <2>2, <2>3
<1>8. PrefixFn(ss, F)
  BY <1>6, <1>7 DEF PrefixFn
<1> QED
  BY <1>8

\* The equation of flatten in FlattenSeq.
Flattens(ss, f) ==
    f = [i \in 1..Len(ss) |-> IF i = 1 THEN ss[i] ELSE f[i - 1] \o ss[i]]

LEMMA FlattenIs ==
    ASSUME NEW ss \in Seq(Seq(STRING)), NEW F, PrefixFn(ss, F)
    PROVE  FlattenSeq(ss) = F[Len(ss)]
<1> DEFINE n == Len(ss)
           g == [i \in 1..n |-> F[i]]
           h == CHOOSE f : Flattens(ss, f)
<1>1. n \in Nat /\ F[0] = <<>>
  BY DEF PrefixFn
<1>2. CASE n = 0
  <2>1. FlattenSeq(ss) = ss
    BY <1>2 DEF FlattenSeq
  <2> QED
    BY <1>1, <1>2, <2>1
<1>3. CASE n # 0
  <2>1. n \in Nat \ {0} /\ 1 \in 1..n
    BY <1>1, <1>3
  <2>2. F[1] = ss[1]
    <3>1. F[1] = F[1 - 1] \o ss[1] /\ ss[1] \in Seq(STRING)
      BY <2>1, PrefixAt
    <3>2. 1 - 1 = 0
      OBVIOUS
    <3>3. F[1] = <<>> \o ss[1]
      BY <1>1, <3>1, <3>2
    <3> QED
      BY <3>1, <3>3
  <2>3. \A i \in 1..n : g[i] = IF i = 1 THEN ss[i] ELSE g[i - 1] \o ss[i]
    <3> SUFFICES ASSUME NEW i \in 1..n
                 PROVE  g[i] = IF i = 1 THEN ss[i] ELSE g[i - 1] \o ss[i]
      OBVIOUS
    <3>1. F[i] = F[i - 1] \o ss[i]
      BY PrefixAt
    <3>2. i # 1 => g[i - 1] = F[i - 1]
      OBVIOUS
    <3> QED
      BY <2>2, <3>1, <3>2
  <2>4. Flattens(ss, g)
    BY <2>3 DEF Flattens
  <2>5. Flattens(ss, h)
    BY <2>4
  <2>6. FlattenSeq(ss) = h[n]
    BY <1>3 DEF FlattenSeq, Flattens
  <2> HIDE DEF h, g
  <2>7. \A i \in 1..n : h[i] = IF i = 1 THEN ss[i] ELSE h[i - 1] \o ss[i]
    BY <2>5 DEF Flattens
  <2> DEFINE P == {i \in 0..n : i = 0 \/ h[i] = F[i]}
  <2>8. 0 \in P
    BY <2>1
  <2>9. ASSUME NEW i \in 1..n, i - 1 \in P PROVE i \in P
    <3>1. F[i] = F[i - 1] \o ss[i]
      BY PrefixAt
    <3>2. CASE i = 1
      BY <2>2, <2>7, <3>2
    <3>3. CASE i # 1
      <4>1. h[i] = h[i - 1] \o ss[i]
        BY <2>7, <3>3
      <4>2. i - 1 # 0 /\ i \in 0..n
        BY <2>1, <3>3
      <4>3. h[i - 1] = F[i - 1]
        BY <2>9, <4>2
      <4>4. h[i] = F[i]
        BY <3>1, <4>1, <4>3, Zenon
      <4> QED
        BY <4>2, <4>4
    <3> QED
      BY <3>2, <3>3
  <2>10. \A i \in 1..n : i - 1 \in P => i \in P
    BY <2>9
  <2> HIDE DEF P
  <2>11. \A i \in 0..n : i \in P
    BY <1>1, <2>8, <2>10, UpTo, Zenon
  <2>12. h[n] = F[n]
    BY <2>1, <2>11 DEF P
  <2> QED
    BY <2>6, <2>12
<1> QED
  BY <1>2, <1>3

\* What is sent first is sent still.
LEMMA PrefixOf ==
    ASSUME NEW ss \in Seq(Seq(STRING)), NEW F, PrefixFn(ss, F),
           NEW i \in 0..Len(ss), NEW j \in i..Len(ss)
    PROVE  /\ Len(F[i]) <= Len(F[j])
           /\ \A x \in 1..Len(F[i]) : F[j][x] = F[i][x]
<1> DEFINE Kept(m) == /\ Len(F[i]) <= Len(F[i + m])
                      /\ \A x \in 1..Len(F[i]) : F[i + m][x] = F[i][x]
           P == {m \in 0..(Len(ss) - i) : Kept(m)}
<1>1. Len(ss) \in Nat /\ Len(ss) - i \in Nat
  OBVIOUS
<1>2. F[i] \in Seq(STRING) /\ Len(F[i]) \in Nat
  BY DEF PrefixFn
<1>3. Kept(0)
  BY <1>2
<1>4. ASSUME NEW m \in 1..(Len(ss) - i), Kept(m - 1) PROVE Kept(m)
  <2> DEFINE l == i + m
  <2>1. l \in 1..Len(ss) /\ i + (m - 1) = l - 1
    BY <1>1
  <2>2. Joins(F[l - 1], ss[l], F[l]) /\ F[l - 1] \in Seq(STRING) /\ ss[l] \in Seq(STRING)
    BY <2>1, PrefixAt
  <2> HIDE DEF l
  <2>3. Len(F[i]) <= Len(F[l - 1]) /\ \A x \in 1..Len(F[i]) : F[l - 1][x] = F[i][x]
    BY <1>4, <2>1
  <2>4. /\ Len(F[l]) = Len(F[l - 1]) + Len(ss[l]) /\ Len(ss[l]) \in Nat /\ Len(F[l - 1]) \in Nat
        /\ \A x \in 1..Len(F[l - 1]) : F[l][x] = F[l - 1][x]
    BY <2>2 DEF Joins
  <2>5. Len(F[i]) <= Len(F[l])
    <3> DEFINE a == Len(F[i])
               b == Len(F[l - 1])
               c == Len(F[l])
               d == Len(ss[l])
    <3>1. a <= b /\ c = b + d /\ a \in Nat /\ b \in Nat /\ d \in Nat
      BY <1>2, <2>3, <2>4
    <3> HIDE DEF a, b, c, d
    <3>2. a <= c
      BY <3>1
    <3> QED
      BY <3>2 DEF a, c
  <2>6. \A x \in 1..Len(F[i]) : F[l][x] = F[i][x]
    BY <1>2, <2>3, <2>4
  <2> QED
    BY <2>5, <2>6 DEF l
<1> HIDE DEF Kept
<1>5. 0 \in P
  BY <1>1, <1>3
<1>6. \A m \in 1..(Len(ss) - i) : m - 1 \in P => m \in P
  BY <1>4
<1> HIDE DEF P
<1>7. \A m \in 0..(Len(ss) - i) : m \in P
  BY <1>1, <1>5, <1>6, UpTo, Zenon
<1>8. j - i \in 0..(Len(ss) - i) /\ i + (j - i) = j
  BY <1>1
<1>9. Kept(j - i)
  BY <1>7, <1>8 DEF P
<1> QED
  BY <1>8, <1>9 DEF Kept

\* The items of a plan lie behind each other in the stream.
LaidOut(p) ==
    /\ Stream(p) \in Seq(STRING)
    /\ \A i \in 0..Len(p) : End(p, i) \in 0..Len(Stream(p))
    /\ End(p, 0) = 0 /\ End(p, Len(p)) = Len(Stream(p))
    /\ \A i \in 1..Len(p) : End(p, i) = End(p, i - 1) + Len(p[i].bytes)
    /\ \A i \in 1..Len(p) : \A j \in 1..Len(p[i].bytes) :
          Stream(p)[End(p, i - 1) + j] = p[i].bytes[j]
    /\ \A i, j \in 0..Len(p) : i <= j => End(p, i) <= End(p, j)

LEMMA PlanLaidOut ==
    ASSUME NEW p \in Seq(Item)
    PROVE  LaidOut(p)
<1> DEFINE n == Len(p)
           ss == [i \in DOMAIN p |-> p[i].bytes]
<1>1. n \in Nat /\ DOMAIN p = 1..n /\ \A i \in 1..n : p[i] \in Item
  OBVIOUS
<1>2. \A i \in 1..n : p[i].bytes \in Seq(STRING)
  BY <1>1 DEF Item
<1>3. ss \in Seq(Seq(STRING)) /\ Len(ss) = n /\ \A i \in 1..n : ss[i] = p[i].bytes
  BY <1>1, <1>2
<1>4. Stream(p) = FlattenSeq(ss)
  BY DEF Stream
<1> HIDE DEF ss
<1>5. PICK F : PrefixFn(ss, F)
  BY <1>3, PrefixesExist
<1>6. F \in [0..n -> Seq(STRING)] /\ F[0] = <<>>
  BY <1>1, <1>3, <1>5 DEF PrefixFn
<1>7. ASSUME NEW i \in 0..n PROVE Stream(SubSeq(p, 1, i)) = F[i]
  <2> DEFINE q == SubSeq(p, 1, i)
             ts == [j \in DOMAIN q |-> q[j].bytes]
             G == [j \in 0..i |-> F[j]]
  <2>1. q \in Seq(Item) /\ Len(q) = i /\ DOMAIN q = 1..i /\ \A j \in 1..i : q[j] = p[j]
    BY <1>1
  <2>2. ts \in Seq(Seq(STRING)) /\ Len(ts) = i /\ \A j \in 1..i : ts[j] = ss[j]
    <3> HIDE DEF q, ts
    <3>1. \A j \in 1..i : j \in 1..n
      BY <1>1
    <3>2. \A j \in 1..i : q[j].bytes = ss[j] /\ q[j].bytes \in Seq(STRING)
      BY <1>2, <1>3, <2>1, <3>1
    <3>3. i \in Nat
      BY <1>1
    <3>4. ts = [j \in 1..i |-> q[j].bytes]
      BY <2>1 DEF ts
    <3> QED
      BY <3>2, <3>3, <3>4
  <2>3. /\ G \in [0..i -> Seq(STRING)] /\ G[0] = <<>> /\ G[i] = F[i]
        /\ \A j \in 0..i : G[j] = F[j]
    BY <1>1, <1>6
  <2>4. Stream(q) = FlattenSeq(ts)
    BY DEF Stream
  <2> HIDE DEF q, ts, G
  <2>5. \A j \in 1..i : G[j] = G[j - 1] \o ts[j]
    <3> SUFFICES ASSUME NEW j \in 1..i PROVE G[j] = G[j - 1] \o ts[j]
      OBVIOUS
    <3>1. j \in 1..Len(ss) /\ j - 1 \in 0..i /\ j \in 0..i
      BY <1>1, <1>3
    <3>2. F[j] = F[j - 1] \o ss[j]
      BY <1>3, <1>5, <3>1, PrefixAt
    <3>3. G[j] = F[j] /\ G[j - 1] = F[j - 1] /\ ts[j] = ss[j]
      BY <2>2, <2>3, <3>1
    <3> QED
      BY <3>2, <3>3, Zenon
  <2>6. PrefixFn(ts, G)
    BY <2>2, <2>3, <2>5 DEF PrefixFn
  <2>7. FlattenSeq(ts) = G[i]
    BY <2>2, <2>6, FlattenIs
  <2> QED
    BY <2>3, <2>4, <2>7 DEF q
<1>8. Stream(p) = F[n]
  BY <1>3, <1>4, <1>5, FlattenIs
<1>9. \A i \in 0..n : End(p, i) = Len(F[i])
  BY <1>7 DEF End
<1>10. ASSUME NEW i \in 0..n, NEW j \in 0..n, i <= j
       PROVE  /\ Len(F[i]) <= Len(F[j])
              /\ \A x \in 1..Len(F[i]) : F[j][x] = F[i][x]
  <2>1. j \in i..Len(ss) /\ i \in 0..Len(ss)
    BY <1>1, <1>3, <1>10
  <2> QED
    BY <1>3, <1>5, <2>1, PrefixOf
<1>11. ASSUME NEW i \in 1..n
       PROVE  /\ F[i - 1] \in Seq(STRING) /\ p[i].bytes \in Seq(STRING)
              /\ Joins(F[i - 1], p[i].bytes, F[i])
  BY <1>2, <1>3, <1>5, PrefixAt
<1>12. ASSUME NEW i \in 1..n
       PROVE  Len(F[i]) = Len(F[i - 1]) + Len(p[i].bytes)
  BY <1>11 DEF Joins
<1>13. ASSUME NEW i \in 1..n, NEW j \in 1..Len(p[i].bytes)
       PROVE  F[n][Len(F[i - 1]) + j] = p[i].bytes[j]
  <2>1. Joins(F[i - 1], p[i].bytes, F[i]) /\ F[i - 1] \in Seq(STRING)
    BY <1>11
  <2>2. F[i][Len(F[i - 1]) + j] = p[i].bytes[j]
    BY <2>1 DEF Joins
  <2>3. Len(F[i - 1]) + j \in 1..Len(F[i])
    <3> DEFINE a == Len(F[i - 1])
               b == Len(p[i].bytes)
               c == Len(F[i])
    <3>1. c = a + b
      BY <1>12
    <3>2. a \in Nat
      BY <2>1
    <3>3. j \in 1..b
      BY <1>13
    <3>4. b \in Nat
      BY <1>2
    <3> HIDE DEF a, b, c
    <3>5. a + j \in 1..c
      BY <3>1, <3>2, <3>3, <3>4
    <3> QED
      BY <3>5 DEF a, c
  <2>4. i \in 0..n /\ n \in 0..n /\ i <= n
    BY <1>1
  <2>5. \A x \in 1..Len(F[i]) : F[n][x] = F[i][x]
    BY <1>10, <2>4
  <2> QED
    BY <2>2, <2>3, <2>5
<1>14. \A i \in 1..n : i - 1 \in 0..n /\ i \in 0..n
  BY <1>1
<1>15. 0 \in 0..n /\ n \in 0..n
  BY <1>1
<1>16. F[n] \in Seq(STRING) /\ \A i \in 0..n : Len(F[i]) \in Nat
  BY <1>6, <1>15
<1>17. \A i \in 0..n : Len(F[i]) \in 0..Len(F[n])
  BY <1>1, <1>10, <1>15, <1>16
<1>18. Len(F[0]) = 0
  BY <1>6
<1> HIDE DEF n
<1>19. \A i \in 1..n : End(p, i) = End(p, i - 1) + Len(p[i].bytes)
  BY <1>9, <1>12, <1>14
<1>20. \A i \in 1..n : \A j \in 1..Len(p[i].bytes) :
          Stream(p)[End(p, i - 1) + j] = p[i].bytes[j]
  BY <1>8, <1>9, <1>13, <1>14
<1>21. Stream(p) \in Seq(STRING) /\ End(p, 0) = 0 /\ End(p, n) = Len(Stream(p))
  BY <1>8, <1>9, <1>15, <1>16, <1>18
<1>22. \A i \in 0..n : End(p, i) \in 0..Len(Stream(p))
  BY <1>8, <1>9, <1>17
<1>23. \A i, j \in 0..n : i <= j => End(p, i) <= End(p, j)
  BY <1>9, <1>10
<1> QED
  BY <1>19, <1>20, <1>21, <1>22, <1>23 DEF LaidOut, n

-----------------------------------------------------------------------------
(* The parser keeps up with what was sent.                                 *)

LEMMA MinIs ==
    ASSUME NEW S \in SUBSET Nat, NEW m \in S, \A x \in S : m <= x
    PROVE  Min(S) = m
<1>1. Min(S) \in S /\ Min(S) <= m
  BY MinNat
<1>2. m <= Min(S) /\ Min(S) \in Nat /\ m \in Nat
  BY <1>1
<1> QED
  BY <1>1, <1>2

\* At position a of what was received, behind spaces, there is a word of m bytes,
\* as far as it has come, and a space behind it.
WordAt(c, a, m) ==
    LET n == Len(c.data) IN
    /\ \A x \in c.pos..(a - 1) : x < n => c.data[x + 1] = Space
    /\ \A x \in a..(a + m - 1) : x < n => c.data[x + 1] # Space
    /\ a + m < n => c.data[a + m + 1] = Space

LEMMA FieldFromIs ==
    ASSUME NEW c, Len(c.data) \in Nat, c.pos \in Nat, NEW a \in c.pos..Len(c.data),
           ByteAt(c, a) # Space, \A x \in c.pos..(a - 1) : ByteAt(c, x) = Space
    PROVE  FieldFrom(c) # {} /\ Min(FieldFrom(c)) = a
<1>1. Readable(c) = c.pos..Len(c.data)
  BY DEF Readable
<1>2. FieldFrom(c) \in SUBSET Nat /\ a \in FieldFrom(c)
  BY <1>1 DEF FieldFrom
<1>3. \A x \in FieldFrom(c) : a <= x
  BY <1>1 DEF FieldFrom
<1> QED
  BY <1>2, <1>3, MinIs

\* A whole word is found, with the space behind it; for the rest of one the parser
\* waits.
LEMMA WordRead ==
    ASSUME NEW c, Len(c.data) \in Nat, c.pos \in Nat, c.junk # Space,
           NEW a \in Nat, c.pos <= a, NEW m \in Nat \ {0}, NEW size \in Nat, m < size,
           WordAt(c, a, m)
    PROVE  GetNextField(c, size) =
              IF a + m < Len(c.data) THEN Found(c, a, a + m - 1, a + m + 1) ELSE RunOut(c)
<1> DEFINE n == Len(c.data)
           Spaces(from) == {i \in Readable(c) : from < i /\ ByteAt(c, i) = Space}
           Result(from) ==
               IF \E i \in Spaces(from) : i < from + size
               THEN Found(c, from, Min(Spaces(from)) - 1, Min(Spaces(from)) + 1)
               ELSE IF from + size \in Readable(c)
               THEN [ret |-> "failed", val |-> <<>>, pos |-> c.pos]
               ELSE RunOut(c)
<1>1. Readable(c) = c.pos..n /\ n \in Nat
  BY DEF Readable
<1>2. ASSUME FieldFrom(c) # {} PROVE GetNextField(c, size) = Result(Min(FieldFrom(c)))
  <2> DEFINE from == Min(FieldFrom(c))
             spaces == {i \in Readable(c) : from < i /\ ByteAt(c, i) = Space}
             full == from + size
  <2>1. GetNextField(c, size) =
            IF \E i \in spaces : i < full
            THEN Found(c, from, Min(spaces) - 1, Min(spaces) + 1)
            ELSE IF full \in Readable(c)
            THEN [ret |-> "failed", val |-> <<>>, pos |-> c.pos]
            ELSE RunOut(c)
    BY <1>2 DEF GetNextField
  <2> QED
    BY <2>1, Zenon
<1>3. \A x \in 0..n : ByteAt(c, x) = IF x < n THEN c.data[x + 1] ELSE c.junk
  BY DEF ByteAt
<1>4. /\ \A x \in c.pos..(a - 1) : x < n => ByteAt(c, x) = Space
      /\ \A x \in a..(a + m - 1) : x < n => ByteAt(c, x) # Space
      /\ a + m < n => ByteAt(c, a + m) = Space
      /\ ByteAt(c, n) # Space
  BY <1>1 DEF WordAt, ByteAt
<1>5. CASE a + m < n
  <2>1. FieldFrom(c) # {} /\ Min(FieldFrom(c)) = a
    <3>1. a \in c.pos..n /\ ByteAt(c, a) # Space
      BY <1>4, <1>5
    <3>2. \A x \in c.pos..(a - 1) : ByteAt(c, x) = Space
      BY <1>4, <1>5
    <3> QED
      BY <3>1, <3>2, FieldFromIs
  <2>2. Spaces(a) \in SUBSET Nat /\ a + m \in Spaces(a)
    BY <1>1, <1>4, <1>5
  <2>3. \A x \in Spaces(a) : a + m <= x
    <3> SUFFICES ASSUME NEW x \in Spaces(a), x < a + m PROVE FALSE
      BY <1>1
    <3>1. x \in a..(a + m - 1) /\ x < n
      BY <1>1, <1>5
    <3> QED
      BY <1>4, <3>1
  <2>4. Min(Spaces(a)) = a + m
    BY <2>2, <2>3, MinIs
  <2>5. Result(a) = Found(c, a, a + m - 1, a + m + 1)
    BY <2>2, <2>4
  <2> QED
    BY <1>2, <1>5, <2>1, <2>5
<1>6. CASE n <= a + m
  <2>1. CASE n < c.pos
    <3>1. FieldFrom(c) = {}
      BY <1>1, <2>1 DEF FieldFrom
    <3> QED
      BY <1>6, <3>1 DEF GetNextField
  <2>2. CASE c.pos <= n
    <3> DEFINE from == IF n < a THEN n ELSE a
    <3>1. from \in c.pos..n /\ from \in Nat
      BY <1>1, <2>2
    <3>2. ByteAt(c, from) # Space
      BY <1>1, <1>4
    <3>3. \A x \in c.pos..(from - 1) : ByteAt(c, x) = Space
      BY <1>1, <1>4
    <3>4. \A i \in Readable(c) : from < i => ByteAt(c, i) # Space
      <4> SUFFICES ASSUME NEW i \in c.pos..n, from < i PROVE ByteAt(c, i) # Space
        BY <1>1
      <4>1. CASE i = n
        BY <1>4, <4>1
      <4>2. CASE i # n
        <5>1. i \in a..(a + m - 1) /\ i < n
          BY <1>1, <1>6, <4>2
        <5> QED
          BY <1>4, <5>1
      <4> QED
        BY <4>1, <4>2
    <3>5. from + size \notin Readable(c)
      BY <1>1, <1>6
    <3> HIDE DEF from
    <3>6. FieldFrom(c) # {} /\ Min(FieldFrom(c)) = from
      BY <3>1, <3>2, <3>3, FieldFromIs
    <3>7. Result(from) = RunOut(c)
      BY <3>4, <3>5
    <3> QED
      BY <1>2, <1>6, <3>6, <3>7
  <2> QED
    BY <1>1, <2>1, <2>2
<1> QED
  BY <1>1, <1>5, <1>6

\* The bytes that are found are those received.
LEMMA BytesAre ==
    ASSUME NEW c, Len(c.data) \in Nat, NEW a \in Nat, NEW m \in Nat \ {0},
           a + m <= Len(c.data), NEW val \in Seq(STRING), Len(val) = m,
           \A j \in 1..m : c.data[a + j] = val[j]
    PROVE  Bytes(c, a, a + m - 1) = val
<1>1. a + m - 1 - a + 1 = m
  OBVIOUS
<1>2. Bytes(c, a, a + m - 1) = [j \in 1..m |-> ByteAt(c, a + j - 1)]
  BY <1>1 DEF Bytes
<1>3. \A j \in 1..m : ByteAt(c, a + j - 1) = val[j]
  <2> SUFFICES ASSUME NEW j \in 1..m PROVE ByteAt(c, a + j - 1) = val[j]
    OBVIOUS
  <2>1. a + j - 1 < Len(c.data) /\ a + j - 1 + 1 = a + j
    OBVIOUS
  <2> QED
    BY <2>1 DEF ByteAt
<1>4. val = [j \in 1..m |-> val[j]]
  OBVIOUS
<1> QED
  BY <1>2, <1>3, <1>4

\* A length and its field, behind o others in the sequence s.
HasText(s, o, num, val) ==
    /\ s[o + 1] = Space
    /\ \A j \in 1..Len(num) : s[o + 1 + j] = num[j]
    /\ s[o + 2 + Len(num)] = Space
    /\ \A j \in 1..Len(val) : s[o + 2 + Len(num) + j] = val[j]
TextEnd(o, num, val) == o + 2 + Len(num) + Len(val)

\* What the bytes are taken from.
Byte == STRING \cup Method \cup {Space}

LEMMA BytesOf ==
    /\ \A x \in Method \cup {Space} :
          <<x>> \in Seq(Byte) /\ Len(<<x>>) = 1 /\ <<x>>[1] = x
    /\ \A s \in Seq(STRING) : s \in Seq(Byte)
<1>1. \A x \in Method \cup {Space} : x \in Byte
  BY DEF Byte
<1>2. STRING \subseteq Byte
  BY DEF Byte
<1> HIDE DEF Byte
<1>3. ASSUME NEW x \in Byte PROVE <<x>> \in Seq(Byte) /\ Len(<<x>>) = 1 /\ <<x>>[1] = x
  BY <1>3
<1>4. ASSUME NEW s \in Seq(STRING) PROVE s \in Seq(Byte)
  <2>1. /\ Len(s) \in Nat /\ DOMAIN s = 1..Len(s) /\ s = [j \in 1..Len(s) |-> s[j]]
        /\ \A j \in 1..Len(s) : s[j] \in STRING
    BY <1>4
  <2>2. \A j \in 1..Len(s) : s[j] \in Byte
    BY <1>2, <2>1
  <2> QED
    BY <2>1, <2>2
<1> QED
  BY <1>1, <1>3, <1>4

LEMMA TextIs ==
    ASSUME NEW num \in Seq(STRING), NEW val \in Seq(STRING)
    PROVE  /\ Text(num, val) \in Seq(Byte)
           /\ Len(Text(num, val)) = 2 + Len(num) + Len(val)
           /\ HasText(Text(num, val), 0, num, val)
<1> DEFINE u == <<Space>> \o num
           v == u \o <<Space>>
           w == v \o val
<1>1. Text(num, val) = w
  BY DEF Text
<1>2. <<Space>> \in Seq(Byte) /\ Len(<<Space>>) = 1 /\ <<Space>>[1] = Space
  BY BytesOf
<1>13. num \in Seq(Byte) /\ val \in Seq(Byte)
  BY BytesOf
<1>3. u \in Seq(Byte) /\ Joins(<<Space>>, num, u)
  BY <1>2, <1>13, ConcatJoins
<1> HIDE DEF u
<1>4. /\ u \in Seq(Byte) /\ Len(u) = 1 + Len(num) /\ u[1] = Space
      /\ \A j \in 1..Len(num) : u[1 + j] = num[j]
  BY <1>2, <1>3 DEF Joins
<1>5. v \in Seq(Byte) /\ Joins(u, <<Space>>, v)
  BY <1>2, <1>4, ConcatJoins
<1> HIDE DEF v
<1>6. /\ v \in Seq(Byte) /\ Len(v) = 2 + Len(num) /\ v[1] = Space
      /\ v[2 + Len(num)] = Space
      /\ \A j \in 1..Len(num) : v[1 + j] = num[j]
  <2>1. /\ v \in Seq(Byte) /\ Len(v) = Len(u) + 1
        /\ \A x \in 1..Len(u) : v[x] = u[x]
        /\ \A x \in 1..1 : v[Len(u) + x] = <<Space>>[x]
    BY <1>2, <1>5 DEF Joins
  <2>2. v[Len(u) + 1] = Space
    BY <1>2, <2>1
  <2>3. Len(num) \in Nat
    OBVIOUS
  <2>4. 1 \in 1..Len(u) /\ \A j \in 1..Len(num) : 1 + j \in 1..Len(u)
    BY <1>4, <2>3
  <2>5. v[1] = Space /\ \A j \in 1..Len(num) : v[1 + j] = num[j]
    BY <1>4, <2>1, <2>4
  <2>6. Len(u) + 1 = 2 + Len(num)
    BY <1>4, <2>3
  <2> QED
    BY <2>1, <2>2, <2>5, <2>6
<1>7. w \in Seq(Byte) /\ Joins(v, val, w)
  BY <1>13, <1>6, ConcatJoins
<1> HIDE DEF w
<1>8. /\ w \in Seq(Byte) /\ Len(w) = Len(v) + Len(val)
      /\ \A x \in 1..Len(v) : w[x] = v[x]
      /\ \A j \in 1..Len(val) : w[Len(v) + j] = val[j]
  BY <1>7 DEF Joins
<1>9. Len(num) \in Nat /\ Len(val) \in Nat
  OBVIOUS
<1>10. /\ 1 \in 1..Len(v) /\ 2 + Len(num) \in 1..Len(v)
       /\ \A j \in 1..Len(num) : 1 + j \in 1..Len(v)
  BY <1>6, <1>9
<1>11. /\ w[1] = Space /\ w[2 + Len(num)] = Space
       /\ \A j \in 1..Len(num) : w[1 + j] = num[j]
  BY <1>6, <1>8, <1>10
<1>12. HasText(w, 0, num, val)
  BY <1>6, <1>8, <1>9, <1>11 DEF HasText
<1> QED
  BY <1>1, <1>6, <1>8, <1>12

\* It is found behind b more, where the sequence goes on.
LEMMA TextMoved ==
    ASSUME NEW s, NEW b \in Nat, NEW t, Len(t) \in Nat, \A j \in 1..Len(t) : s[b + j] = t[j],
           NEW o \in Nat, NEW num \in Seq(STRING), NEW val \in Seq(STRING),
           HasText(t, o, num, val), TextEnd(o, num, val) <= Len(t)
    PROVE  HasText(s, b + o, num, val)
<1> DEFINE l == Len(num)
           v == Len(val)
<1>1. l \in Nat /\ v \in Nat /\ o + 2 + l + v <= Len(t)
  BY DEF TextEnd
<1>2. /\ t[o + 1] = Space
      /\ \A j \in 1..l : t[o + 1 + j] = num[j]
      /\ t[o + 2 + l] = Space
      /\ \A j \in 1..v : t[o + 2 + l + j] = val[j]
  BY DEF HasText
<1> HIDE DEF l, v
<1>3. s[b + o + 1] = Space
  <2>1. o + 1 \in 1..Len(t) /\ b + (o + 1) = b + o + 1
    BY <1>1
  <2> QED
    BY <1>2, <2>1
<1>4. s[b + o + 2 + l] = Space
  <2>1. o + 2 + l \in 1..Len(t) /\ b + (o + 2 + l) = b + o + 2 + l
    BY <1>1
  <2> QED
    BY <1>2, <2>1
<1>5. ASSUME NEW j \in 1..l PROVE s[b + o + 1 + j] = num[j]
  <2>1. o + 1 + j \in 1..Len(t) /\ b + (o + 1 + j) = b + o + 1 + j
    BY <1>1, <1>5
  <2> QED
    BY <1>2, <1>5, <2>1
<1>6. ASSUME NEW j \in 1..v PROVE s[b + o + 2 + l + j] = val[j]
  <2>1. o + 2 + l + j \in 1..Len(t) /\ b + (o + 2 + l + j) = b + o + 2 + l + j
    BY <1>1, <1>6
  <2> QED
    BY <1>2, <1>6, <2>1
<1> QED
  BY <1>3, <1>4, <1>5, <1>6 DEF HasText, l, v

\* A plan: its items are requests and words that are none.
Planned(p) == p \in Seq(Item) /\ \A i \in DOMAIN p : IsGet(p[i]) \/ IsAdd(p[i]) \/ IsBad(p[i])

\* A request in the stream, behind i others.
GetAt(p, i) ==
    LET q == p[i + 1]
        b == End(p, i)
    IN  /\ Stream(p)[b + 1] = q.req.meth
        /\ HasText(Stream(p), b + 1, q.nums[1], q.req.f1)
        /\ End(p, i + 1) = TextEnd(b + 1, q.nums[1], q.req.f1)
        /\ End(p, i + 1) \in FieldEnd(p)
AddAt(p, i) ==
    LET q == p[i + 1]
        b == End(p, i)
        x == TextEnd(b + 1, q.nums[1], q.req.f1)
    IN  /\ Stream(p)[b + 1] = q.req.meth
        /\ HasText(Stream(p), b + 1, q.nums[1], q.req.f1) /\ x \in FieldEnd(p)
        /\ HasText(Stream(p), x, q.nums[2], q.req.f2)
        /\ End(p, i + 1) = TextEnd(x, q.nums[2], q.req.f2)
        /\ End(p, i + 1) \in FieldEnd(p)
BadAt(p, i) ==
    LET b == End(p, i) IN
    /\ Stream(p)[b + 1] \notin Method \cup {Space} /\ Stream(p)[b + 2] = Space
    /\ End(p, i + 1) = b + 2

\* An item at its place.
LEMMA ItemIn ==
    ASSUME NEW p, Planned(p), NEW i \in 0..(Len(p) - 1)
    PROVE  /\ p[i + 1] \in Item /\ i + 1 \in DOMAIN p
           /\ IsGet(p[i + 1]) \/ IsAdd(p[i + 1]) \/ IsBad(p[i + 1])
           /\ End(p, i) \in Nat
           /\ End(p, i + 1) = End(p, i) + Len(p[i + 1].bytes)
           /\ \A j \in 1..Len(p[i + 1].bytes) : Stream(p)[End(p, i) + j] = p[i + 1].bytes[j]
           /\ \A e \in p[i + 1].ends : End(p, i) + e \in FieldEnd(p)
<1>1. p \in Seq(Item) /\ i + 1 \in 1..Len(p) /\ i + 1 - 1 = i /\ i \in 0..Len(p)
  BY DEF Planned
<1>2. p[i + 1] \in Item /\ i + 1 \in DOMAIN p
  BY <1>1
<1>3. LaidOut(p)
  BY <1>1, PlanLaidOut
<1>4. End(p, i) \in Nat
  <2>1. Stream(p) \in Seq(STRING) /\ End(p, i) \in 0..Len(Stream(p))
    BY <1>1, <1>3 DEF LaidOut
  <2> QED
    BY <2>1
<1>5. /\ End(p, i + 1) = End(p, i) + Len(p[i + 1].bytes)
      /\ \A j \in 1..Len(p[i + 1].bytes) : Stream(p)[End(p, i) + j] = p[i + 1].bytes[j]
  BY <1>1, <1>3 DEF LaidOut
<1>6. \A e \in p[i + 1].ends : End(p, i) + e \in FieldEnd(p)
  <2> DEFINE E(j) == {End(p, j - 1) + e : e \in p[j].ends}
  <2>1. FieldEnd(p) = UNION {E(j) : j \in DOMAIN p}
    BY DEF FieldEnd
  <2>2. E(i + 1) = {End(p, i) + e : e \in p[i + 1].ends}
    BY <1>1
  <2> HIDE DEF E
  <2>3. E(i + 1) \subseteq FieldEnd(p)
    BY <1>2, <2>1
  <2> QED
    BY <2>2, <2>3
<1> QED
  BY <1>2, <1>4, <1>5, <1>6 DEF Planned

LEMMA GetIsAt ==
    ASSUME NEW p, Planned(p), NEW i \in 0..(Len(p) - 1), IsGet(p[i + 1])
    PROVE  GetAt(p, i)
<1> DEFINE q == p[i + 1]
           b == End(p, i)
           num == q.nums[1]
           val == q.req.f1
           t == Text(num, val)
           s == <<"GETRD">> \o t
<1>1. /\ q \in Item /\ b \in Nat
      /\ End(p, i + 1) = b + Len(q.bytes)
      /\ \A j \in 1..Len(q.bytes) : Stream(p)[b + j] = q.bytes[j]
      /\ \A e \in q.ends : b + e \in FieldEnd(p)
  BY ItemIn
<1>2. q.bytes = s /\ q.req.meth = "GETRD" /\ q.ends = {Len(q.bytes)} /\ Len(q.nums) = 1
  BY DEF IsGet
<1>3. num \in Seq(STRING) /\ val \in Seq(STRING)
  BY <1>1, <1>2 DEF Item
<1> HIDE DEF num, val
<1>4. t \in Seq(Byte) /\ Len(t) = 2 + Len(num) + Len(val) /\ HasText(t, 0, num, val)
  BY <1>3, TextIs
<1> HIDE DEF t
<1>5. /\ Len(s) = 1 + Len(t) /\ s[1] = "GETRD"
      /\ \A j \in 1..Len(t) : s[1 + j] = t[j]
  <2>1. <<"GETRD">> \in Seq(Byte) /\ Len(<<"GETRD">>) = 1 /\ <<"GETRD">>[1] = "GETRD"
    <3>1. "GETRD" \in Method
      BY DEF Method
    <3> QED
      BY <3>1, BytesOf
  <2>2. Joins(<<"GETRD">>, t, s)
    BY <1>4, <2>1, ConcatJoins
  <2> HIDE DEF s
  <2> QED
    BY <2>1, <2>2 DEF Joins
<1> HIDE DEF s
<1>6. Len(num) \in Nat /\ Len(val) \in Nat /\ Len(s) = 3 + Len(num) + Len(val)
  BY <1>3, <1>4, <1>5
<1>7. HasText(s, 1, num, val)
  <2>1. \A j \in 1..Len(t) : s[1 + j] = t[j]
    BY <1>5
  <2>2. TextEnd(0, num, val) <= Len(t) /\ Len(t) \in Nat
    BY <1>4, <1>6 DEF TextEnd
  <2>3. HasText(s, 1 + 0, num, val)
    BY <1>3, <1>4, <2>1, <2>2, TextMoved
  <2>4. 1 + 0 = 1
    OBVIOUS
  <2> QED
    BY <2>3, <2>4
<1>8. TextEnd(1, num, val) <= Len(s) /\ Len(s) \in Nat
  BY <1>6 DEF TextEnd
<1>9. HasText(Stream(p), b + 1, num, val)
  <2> HIDE DEF b, q
  <2>1. \A j \in 1..Len(s) : Stream(p)[b + j] = s[j]
    BY <1>1, <1>2
  <2> QED
    BY <1>1, <1>3, <1>7, <1>8, <2>1, TextMoved
<1>10. Stream(p)[b + 1] = q.req.meth
  <2>1. 1 \in 1..Len(q.bytes)
    BY <1>2, <1>6
  <2> HIDE DEF b, q
  <2> QED
    BY <1>1, <1>2, <1>5, <2>1
<1>11. End(p, i + 1) = TextEnd(b + 1, num, val)
  <2>1. End(p, i + 1) = b + Len(s)
    BY <1>1, <1>2
  <2> HIDE DEF b, q
  <2> QED
    BY <1>1, <1>6, <2>1 DEF TextEnd
<1>12. End(p, i + 1) \in FieldEnd(p)
  BY <1>1, <1>2
<1> QED
  BY <1>9, <1>10, <1>11, <1>12 DEF GetAt, num, val

LEMMA AddIsAt ==
    ASSUME NEW p, Planned(p), NEW i \in 0..(Len(p) - 1), IsAdd(p[i + 1])
    PROVE  AddAt(p, i)
<1> DEFINE q == p[i + 1]
           b == End(p, i)
           num1 == q.nums[1]
           val1 == q.req.f1
           num2 == q.nums[2]
           val2 == q.req.f2
           t1 == Text(num1, val1)
           t2 == Text(num2, val2)
           u == <<"ADDFILE">> \o t1
           s == u \o t2
<1>1. /\ q \in Item /\ b \in Nat
      /\ End(p, i + 1) = b + Len(q.bytes)
      /\ \A j \in 1..Len(q.bytes) : Stream(p)[b + j] = q.bytes[j]
      /\ \A e \in q.ends : b + e \in FieldEnd(p)
  BY ItemIn
<1>2. /\ q.bytes = s /\ q.req.meth = "ADDFILE" /\ Len(q.nums) = 2
      /\ q.ends = {1 + Len(t1), Len(q.bytes)}
  BY DEF IsAdd
<1>3. /\ num1 \in Seq(STRING) /\ val1 \in Seq(STRING)
      /\ num2 \in Seq(STRING) /\ val2 \in Seq(STRING)
  BY <1>1, <1>2 DEF Item
<1> HIDE DEF num1, val1, num2, val2
<1>4. /\ t1 \in Seq(Byte) /\ Len(t1) = 2 + Len(num1) + Len(val1) /\ HasText(t1, 0, num1, val1)
      /\ t2 \in Seq(Byte) /\ Len(t2) = 2 + Len(num2) + Len(val2) /\ HasText(t2, 0, num2, val2)
  BY <1>3, TextIs
<1> HIDE DEF t1, t2
<1>5. /\ u \in Seq(Byte) /\ Len(u) = 1 + Len(t1) /\ u[1] = "ADDFILE"
      /\ \A j \in 1..Len(t1) : u[1 + j] = t1[j]
  <2>1. <<"ADDFILE">> \in Seq(Byte) /\ Len(<<"ADDFILE">>) = 1 /\ <<"ADDFILE">>[1] = "ADDFILE"
    <3>1. "ADDFILE" \in Method
      BY DEF Method
    <3> QED
      BY <3>1, BytesOf
  <2>2. u \in Seq(Byte) /\ Joins(<<"ADDFILE">>, t1, u)
    BY <1>4, <2>1, ConcatJoins
  <2> HIDE DEF u
  <2> QED
    BY <2>1, <2>2 DEF Joins
<1> HIDE DEF u
<1>6. /\ Len(s) = Len(u) + Len(t2)
      /\ \A j \in 1..Len(u) : s[j] = u[j]
      /\ \A j \in 1..Len(t2) : s[Len(u) + j] = t2[j]
  <2>1. Joins(u, t2, s)
    BY <1>4, <1>5, ConcatJoins
  <2> HIDE DEF s
  <2> QED
    BY <2>1 DEF Joins
<1> HIDE DEF s
<1>7. /\ Len(num1) \in Nat /\ Len(val1) \in Nat /\ Len(num2) \in Nat /\ Len(val2) \in Nat
      /\ Len(u) = 3 + Len(num1) + Len(val1)
      /\ Len(s) = 5 + Len(num1) + Len(val1) + Len(num2) + Len(val2)
  BY <1>3, <1>4, <1>5, <1>6
<1> DEFINE S == Stream(p)
           o == 1 + Len(t1)
<1>8. \A j \in 1..Len(s) : S[b + j] = s[j]
  BY <1>1, <1>2
<1>9. End(p, i + 1) = b + Len(s) /\ End(p, i + 1) \in FieldEnd(p) /\ b + o \in FieldEnd(p)
  <2>1. Len(q.bytes) \in q.ends /\ 1 + Len(t1) \in q.ends /\ Len(q.bytes) = Len(s)
    BY <1>2
  <2> HIDE DEF q, b
  <2> QED
    BY <1>1, <2>1
<1> HIDE DEF S, q, b
<1>10. S[b + 1] = "ADDFILE"
  BY <1>5, <1>6, <1>7, <1>8
<1>11. \A j \in 1..Len(t1) : S[b + 1 + j] = t1[j]
  <2> SUFFICES ASSUME NEW j \in 1..Len(t1) PROVE S[b + 1 + j] = t1[j]
    OBVIOUS
  <2>1. 1 + j \in 1..Len(u) /\ 1 + j \in 1..Len(s) /\ b + (1 + j) = b + 1 + j
    BY <1>1, <1>4, <1>5, <1>7
  <2> QED
    BY <1>5, <1>6, <1>8, <2>1
<1>12. \A j \in 1..Len(t2) : S[b + o + j] = t2[j]
  <2> SUFFICES ASSUME NEW j \in 1..Len(t2) PROVE S[b + o + j] = t2[j]
    OBVIOUS
  <2>1. o = Len(u) /\ Len(u) \in Nat /\ b \in Nat
    BY <1>1, <1>5, <1>7
  <2>2. Len(s) = Len(u) + Len(t2) /\ Len(t2) \in Nat
    BY <1>4, <1>6
  <2>3. o + j \in 1..Len(s) /\ b + (o + j) = b + o + j
    BY <2>1, <2>2
  <2> QED
    BY <1>6, <1>8, <2>1, <2>3
<1>13. o \in Nat /\ o = 3 + Len(num1) + Len(val1)
  BY <1>4, <1>7
<1> HIDE DEF o
<1>14. HasText(S, b + 1, num1, val1)
  <2>1. TextEnd(0, num1, val1) <= Len(t1) /\ Len(t1) \in Nat
    BY <1>4, <1>7 DEF TextEnd
  <2> DEFINE c == b + 1
  <2>2. c \in Nat /\ \A j \in 1..Len(t1) : S[c + j] = t1[j]
    BY <1>1, <1>11
  <2> HIDE DEF c
  <2>3. HasText(S, c + 0, num1, val1)
    BY <1>3, <1>4, <2>1, <2>2, TextMoved
  <2>4. HasText(S, b + 1 + 0, num1, val1)
    BY <2>3 DEF c
  <2>5. b + 1 + 0 = b + 1
    BY <1>1
  <2> QED
    BY <2>4, <2>5
<1>15. HasText(S, b + o, num2, val2)
  <2>1. TextEnd(0, num2, val2) <= Len(t2) /\ Len(t2) \in Nat
    BY <1>4, <1>7 DEF TextEnd
  <2> DEFINE c == b + o
  <2>2. c \in Nat /\ \A j \in 1..Len(t2) : S[c + j] = t2[j]
    BY <1>1, <1>12, <1>13
  <2> HIDE DEF c
  <2>3. HasText(S, c + 0, num2, val2)
    BY <1>3, <1>4, <2>1, <2>2, TextMoved
  <2>4. HasText(S, b + o + 0, num2, val2)
    BY <2>3 DEF c
  <2>5. b + o + 0 = b + o
    BY <1>1, <1>13
  <2> QED
    BY <2>4, <2>5
<1>16. TextEnd(b + 1, num1, val1) = b + o
  BY <1>1, <1>7, <1>13 DEF TextEnd
<1>17. End(p, i + 1) = TextEnd(b + o, num2, val2)
  BY <1>1, <1>7, <1>9, <1>13 DEF TextEnd
<1> QED
  BY <1>2, <1>9, <1>10, <1>14, <1>15, <1>16, <1>17
     DEF AddAt, S, q, b, num1, val1, num2, val2

LEMMA BadIsAt ==
    ASSUME NEW p, Planned(p), NEW i \in 0..(Len(p) - 1), IsBad(p[i + 1])
    PROVE  BadAt(p, i)
<1> DEFINE q == p[i + 1]
           b == End(p, i)
           s == <<q.bytes[1], Space>>
<1>1. /\ End(p, i + 1) = b + Len(q.bytes) /\ b \in Nat
      /\ \A j \in 1..Len(q.bytes) : Stream(p)[b + j] = q.bytes[j]
  BY ItemIn
<1>2. q.bytes[1] \notin Method \cup {Space} /\ q.bytes = s
  BY DEF IsBad
<1>3. Len(s) = 2 /\ s[2] = Space
  OBVIOUS
<1>4. Len(q.bytes) = 2 /\ q.bytes[2] = Space
  BY <1>2, <1>3
<1> HIDE DEF q, b, s
<1>5. 1 \in 1..Len(q.bytes) /\ 2 \in 1..Len(q.bytes)
  BY <1>4
<1>6. Stream(p)[b + 1] = q.bytes[1] /\ Stream(p)[b + 2] = Space /\ End(p, i + 1) = b + 2
  BY <1>1, <1>4, <1>5
<1> QED
  BY <1>2, <1>6 DEF BadAt, b

\* What was received is from the stream, and the byte behind it neither looks like
\* the end of a word nor is taken for the last one of a field.
Synced(p, c) ==
    /\ Planned(p)
    /\ c.data \in Seq(STRING) /\ Len(c.data) <= Len(Stream(p))
    /\ \A x \in 1..Len(c.data) : c.data[x] = Stream(p)[x]
    /\ c.junk # Space
    /\ Len(c.data) + 1 \notin FieldEnd(p)

\* The parser is at the first byte of an item, or where it should be in one that is
\* a request, and has what it has read of that.
Halfway(p, i, c) ==
    LET q == p[i + 1]
        b == End(p, i)
        x == TextEnd(b + 1, q.nums[1], q.req.f1)
    IN  /\ c.meth = q.req.meth
        /\ \/ c.st = "METHOD_DONE" /\ c.pos = b + 2
           \/ /\ c.st = "LEN1_DONE" /\ c.pos = b + 1 + 2 + Len(q.nums[1])
              /\ c.len1 = Len(q.req.f1)
           \/ c.st = "FIELD1_DONE" /\ IsAdd(q) /\ c.pos = x /\ c.f1 = q.req.f1
           \/ /\ c.st = "LEN2_DONE" /\ IsAdd(q) /\ c.pos = x + 2 + Len(q.nums[2])
              /\ c.f1 = q.req.f1 /\ c.len2 = Len(q.req.f2)
           \/ /\ c.st = "DONE" /\ c.pos = End(p, i + 1) /\ c.f1 = q.req.f1
              /\ IsAdd(q) => c.f2 = q.req.f2
Aligned(p, i, c) ==
    \/ c.st = "NEW" /\ c.pos = End(p, i)
    \/ i < Len(p) /\ IsBad(p[i + 1]) /\ c.st = "ERROR" /\ c.pos = End(p, i + 1)
    \/ i < Len(p) /\ (IsGet(p[i + 1]) \/ IsAdd(p[i + 1])) /\ Halfway(p, i, c)

\* Alignment is about these fields.
SamePlace(c, d) ==
    /\ d.st = c.st /\ d.pos = c.pos /\ d.meth = c.meth
    /\ d.len1 = c.len1 /\ d.len2 = c.len2 /\ d.f1 = c.f1 /\ d.f2 = c.f2

LEMMA SameAligned ==
    ASSUME NEW p, NEW i, NEW c, Aligned(p, i, c), NEW d, SamePlace(c, d)
    PROVE  Aligned(p, i, d)
BY DEF Aligned, Halfway, SamePlace

LEMMA NumBytes ==
    ASSUME NEW num \in Seq(STRING), IsNum(num)
    PROVE  \A j \in 1..Len(num) : num[j] # Space
<1>1. Space \notin DOMAIN DigitValue
  BY DEF Space, DigitValue
<1>2. \A j \in 1..Len(num) : num[j] \in DOMAIN DigitValue
  BY DEF IsNum
<1> QED
  BY <1>1, <1>2

\* A length in the stream is read right, and not before all of it has come.
LEMMA NumRead ==
    ASSUME NEW p, NEW c, Synced(p, c), NEW o \in Nat, c.pos \in {o, o + 1},
           NEW num \in Seq(STRING), NEW val, HasText(Stream(p), o, num, val),
           Len(num) \in 1..(LenRoom - 1), IsNum(num)
    PROVE  LET r == GetNextField(c, LenRoom) IN
           \/ r.ret = "go" /\ r.val = num /\ r.pos = o + 2 + Len(num)
           \/ r.ret \in {"wait", "crash"} /\ r.pos = c.pos
<1> DEFINE n == Len(c.data)
           S == Stream(p)
           m == Len(num)
           r == GetNextField(c, LenRoom)
           a == o + 1
<1>1. c.data \in Seq(STRING) /\ n \in Nat /\ c.junk # Space /\ \A x \in 1..n : c.data[x] = S[x]
  BY DEF Synced
<1>2. S[o + 1] = Space /\ S[o + 2 + m] = Space /\ \A j \in 1..m : S[o + 1 + j] = num[j]
  BY DEF HasText
<1>3. \A j \in 1..m : num[j] # Space
  BY NumBytes
<1>4. m \in Nat \ {0} /\ LenRoom \in Nat /\ m < LenRoom /\ a \in Nat /\ c.pos \in Nat /\ c.pos <= a
  BY ParserAssumption
<1>5. WordAt(c, a, m)
  <2> HIDE DEF n, m, S
  <2>1. \A x \in c.pos..(a - 1) : x < n => c.data[x + 1] = Space
    <3> SUFFICES ASSUME NEW x \in c.pos..(a - 1), x < n PROVE c.data[x + 1] = Space
      OBVIOUS
    <3>1. x = o /\ x + 1 \in 1..n
      BY <1>1, <1>4
    <3> QED
      BY <1>1, <1>2, <3>1
  <2>2. \A x \in a..(a + m - 1) : x < n => c.data[x + 1] # Space
    <3> SUFFICES ASSUME NEW x \in a..(a + m - 1), x < n PROVE c.data[x + 1] # Space
      OBVIOUS
    <3>1. m \in Nat /\ n \in Nat /\ x \in (o + 1)..(o + 1 + m - 1)
      BY <1>1, <1>4
    <3>2. x + 1 \in 1..n /\ x - o \in 1..m /\ o + 1 + (x - o) = x + 1
      BY <3>1
    <3>3. S[x + 1] = num[x - o]
      BY <1>2, <3>2
    <3> QED
      BY <1>1, <1>3, <3>2, <3>3
  <2>3. a + m < n => c.data[a + m + 1] = Space
    <3> SUFFICES ASSUME a + m < n PROVE c.data[a + m + 1] = Space
      OBVIOUS
    <3>1. a + m + 1 \in 1..n /\ a + m + 1 = o + 2 + m
      BY <1>1, <1>4
    <3> QED
      BY <1>1, <1>2, <3>1
  <2> QED
    BY <2>1, <2>2, <2>3 DEF WordAt, n
<1>6. r = IF a + m < n THEN Found(c, a, a + m - 1, a + m + 1) ELSE RunOut(c)
  BY <1>1, <1>4, <1>5, WordRead
<1>7. CASE a + m < n
  <2>1. \A j \in 1..m : c.data[a + j] = num[j]
    <3> SUFFICES ASSUME NEW j \in 1..m PROVE c.data[a + j] = num[j]
      OBVIOUS
    <3>1. a + j \in 1..n /\ a + j = o + 1 + j
      BY <1>1, <1>4, <1>7
    <3> QED
      BY <1>1, <1>2, <3>1
  <2>2. Bytes(c, a, a + m - 1) = num
    <3>1. a + m <= n /\ a \in Nat /\ m \in Nat \ {0} /\ Len(num) = m
      BY <1>1, <1>4, <1>7
    <3> QED
      BY <1>1, <2>1, <3>1, BytesAre
  <2>3. a + m + 1 = o + 2 + m
    BY <1>4
  <2> HIDE DEF r
  <2>4. r.ret = "go" /\ r.val = num /\ r.pos = o + 2 + m
    BY <1>6, <1>7, <2>2, <2>3 DEF Found
  <2> QED
    BY <2>4 DEF r
<1>8. CASE ~(a + m < n)
  <2> HIDE DEF r
  <2>1. r = RunOut(c)
    BY <1>6, <1>8
  <2> QED
    BY <2>1, RunOutIs DEF r
<1> QED
  BY <1>7, <1>8

\* So is a field, because its last byte is there when the one before it is.
LEMMA ValRead ==
    ASSUME NEW p, NEW c, Synced(p, c), NEW o \in Nat,
           NEW num \in Seq(STRING), NEW val \in Seq(STRING), Len(val) # 0,
           HasText(Stream(p), o, num, val), TextEnd(o, num, val) \in FieldEnd(p),
           c.pos = o + 2 + Len(num)
    PROVE  LET r == GetBytes(c, Len(val)) IN
           \/ r.ret = "go" /\ r.val = val /\ r.pos = TextEnd(o, num, val)
           \/ r.ret \in {"wait", "crash"} /\ r.pos = c.pos
<1> DEFINE n == Len(c.data)
           S == Stream(p)
           m == Len(val)
           r == GetBytes(c, m)
<1>1. c.data \in Seq(STRING) /\ n \in Nat /\ \A x \in 1..n : c.data[x] = S[x]
  BY DEF Synced
<1>2. \A j \in 1..m : S[c.pos + j] = val[j]
  BY DEF HasText
<1>3. n + 1 # c.pos + m
  BY DEF Synced, TextEnd
<1>4. m \in Nat \ {0} /\ c.pos \in Nat /\ TextEnd(o, num, val) = c.pos + m
  BY DEF TextEnd
<1>5. CASE c.pos + m - 1 \in Readable(c)
  <2>1. c.pos + m <= n
    <3>1. c.pos + m - 1 <= n
      BY <1>5 DEF Readable
    <3>2. n \in Nat /\ m \in Nat /\ c.pos \in Nat /\ n + 1 # c.pos + m
      BY <1>1, <1>3, <1>4
    <3> HIDE DEF n, m
    <3> QED
      BY <3>1, <3>2
  <2>2. \A j \in 1..m : c.data[c.pos + j] = val[j]
    <3> SUFFICES ASSUME NEW j \in 1..m PROVE c.data[c.pos + j] = val[j]
      OBVIOUS
    <3> HIDE DEF n
    <3>1. c.pos + j \in 1..n
      BY <1>1, <1>4, <2>1
    <3> QED
      BY <1>1, <1>2, <3>1
  <2>3. Bytes(c, c.pos, c.pos + m - 1) = val
    BY <1>1, <1>4, <2>1, <2>2, BytesAre
  <2>4. r = Found(c, c.pos, c.pos + m - 1, c.pos + m)
    BY <1>5 DEF GetBytes
  <2> HIDE DEF r
  <2>5. r.ret = "go" /\ r.val = val /\ r.pos = c.pos + m
    BY <2>3, <2>4 DEF Found
  <2> QED
    BY <1>4, <2>5 DEF r
<1>6. CASE c.pos + m - 1 \notin Readable(c)
  <2>1. r = RunOut(c)
    BY <1>6 DEF GetBytes
  <2> HIDE DEF r
  <2> QED
    BY <2>1, RunOutIs DEF r
<1> QED
  BY <1>5, <1>6

\* The first word of an item is one byte.
LEMMA FirstRead ==
    ASSUME NEW p, NEW c, Synced(p, c), c.pos \in Nat,
           Stream(p)[c.pos + 1] # Space, Stream(p)[c.pos + 2] = Space
    PROVE  LET r == GetNextField(c, MethodRoom) IN
           \/ r.ret = "go" /\ r.val = <<Stream(p)[c.pos + 1]>> /\ r.pos = c.pos + 2
           \/ r.ret \in {"wait", "crash"} /\ r.pos = c.pos
<1> DEFINE n == Len(c.data)
           S == Stream(p)
           r == GetNextField(c, MethodRoom)
           a == c.pos
<1>1. c.data \in Seq(STRING) /\ n \in Nat /\ c.junk # Space /\ \A x \in 1..n : c.data[x] = S[x]
  BY DEF Synced
<1>2. MethodRoom \in Nat /\ 1 < MethodRoom
  BY ParserAssumption
<1>3. WordAt(c, a, 1)
  <2> HIDE DEF n, S
  <2>1. \A x \in a..(a - 1) : x < n => c.data[x + 1] = Space
    OBVIOUS
  <2>2. \A x \in a..(a + 1 - 1) : x < n => c.data[x + 1] # Space
    <3> SUFFICES ASSUME NEW x \in a..(a + 1 - 1), x < n PROVE c.data[x + 1] # Space
      OBVIOUS
    <3>1. x = a /\ x + 1 \in 1..n
      BY <1>1
    <3> QED
      BY <1>1, <3>1 DEF S
  <2>3. a + 1 < n => c.data[a + 1 + 1] = Space
    <3> SUFFICES ASSUME a + 1 < n PROVE c.data[a + 1 + 1] = Space
      OBVIOUS
    <3>1. a + 1 + 1 \in 1..n /\ a + 1 + 1 = a + 2
      BY <1>1
    <3> QED
      BY <1>1, <3>1 DEF S
  <2> QED
    BY <2>1, <2>2, <2>3 DEF WordAt, n
<1>4. r = IF a + 1 < n THEN Found(c, a, a + 1 - 1, a + 1 + 1) ELSE RunOut(c)
  BY <1>1, <1>2, <1>3, WordRead
<1>5. CASE a + 1 < n
  <2>1. a + 1 - 1 = a /\ a + 1 + 1 = a + 2 /\ a - a + 1 = 1 /\ a + 1 \in 1..n
    BY <1>1, <1>5
  <2>2. Bytes(c, a, a) = [j \in 1..1 |-> ByteAt(c, a + j - 1)]
    BY <2>1 DEF Bytes
  <2>3. ByteAt(c, a + 1 - 1) = S[a + 1]
    BY <1>1, <1>5, <2>1 DEF ByteAt
  <2>4. Bytes(c, a, a) = <<S[a + 1]>>
    BY <2>2, <2>3
  <2> HIDE DEF r
  <2>5. r.ret = "go" /\ r.val = <<S[a + 1]>> /\ r.pos = a + 2
    BY <1>4, <1>5, <2>1, <2>4 DEF Found
  <2> QED
    BY <2>5 DEF r
<1>6. CASE ~(a + 1 < n)
  <2> HIDE DEF r
  <2>1. r = RunOut(c)
    BY <1>4, <1>6
  <2> QED
    BY <2>1, RunOutIs DEF r
<1> QED
  BY <1>5, <1>6

\* Behind the last item nothing is read.
LEMMA NothingRead ==
    ASSUME NEW p, NEW c, Synced(p, c), c.pos = Len(Stream(p))
    PROVE  LET r == GetNextField(c, MethodRoom) IN
           r.ret \in {"wait", "crash"} /\ r.pos = c.pos
<1> DEFINE n == Len(c.data)
           r == GetNextField(c, MethodRoom)
<1>1. c.data \in Seq(STRING) /\ n \in Nat /\ c.junk # Space /\ n <= c.pos
  BY DEF Synced
<1>2. MethodRoom \in Nat /\ 1 < MethodRoom
  BY ParserAssumption
<1>3. c.pos \in Nat
  <2>1. p \in Seq(Item)
    BY DEF Synced, Planned
  <2>2. Stream(p) \in Seq(STRING)
    BY <2>1, PlanLaidOut DEF LaidOut
  <2> QED
    BY <2>2
<1>4. WordAt(c, c.pos, 1)
  BY <1>1, <1>3 DEF WordAt
<1>5. r = RunOut(c)
  BY <1>1, <1>2, <1>3, <1>4, WordRead
<1> HIDE DEF r
<1> QED
  BY <1>5, RunOutIs DEF r

\* A request among the items, with all that is known of it.
RequestAt(p, i) ==
    LET q == p[i + 1]
        b == End(p, i)
        x == TextEnd(b + 1, q.nums[1], q.req.f1)
    IN  /\ Stream(p)[b + 1] = q.req.meth
        /\ q.nums[1] \in Seq(STRING) /\ q.req.f1 \in Seq(STRING)
        /\ Measures(q.nums[1], q.req.f1, Field1Max)
        /\ HasText(Stream(p), b + 1, q.nums[1], q.req.f1) /\ x \in FieldEnd(p)
        /\ IsGet(q) => q.req.meth = "GETRD" /\ End(p, i + 1) = x
        /\ IsAdd(q) => /\ q.req.meth = "ADDFILE"
                       /\ q.nums[2] \in Seq(STRING) /\ q.req.f2 \in Seq(STRING)
                       /\ Measures(q.nums[2], q.req.f2, Field2Max)
                       /\ HasText(Stream(p), x, q.nums[2], q.req.f2)
                       /\ End(p, i + 1) = TextEnd(x, q.nums[2], q.req.f2)
                       /\ End(p, i + 1) \in FieldEnd(p)

LEMMA KindsDiffer ==
    ASSUME NEW q
    PROVE  ~(IsGet(q) /\ IsAdd(q)) /\ ~(IsBad(q) /\ (IsGet(q) \/ IsAdd(q)))
<1>1. IsBad(q) => q.req.meth = ""
  <2>1. IsBad(q) => q.req = Malformed
    BY DEF IsBad
  <2>2. Malformed.meth = ""
    BY DEF Malformed
  <2> QED
    BY <2>1, <2>2, Zenon
<1>2. IsGet(q) => q.req.meth = "GETRD"
  BY DEF IsGet
<1>3. IsAdd(q) => q.req.meth = "ADDFILE"
  BY DEF IsAdd
<1> QED
  BY <1>1, <1>2, <1>3

LEMMA RequestIs ==
    ASSUME NEW p, Planned(p), NEW i \in 0..(Len(p) - 1), IsGet(p[i + 1]) \/ IsAdd(p[i + 1])
    PROVE  RequestAt(p, i) /\ End(p, i) \in Nat
<1> DEFINE q == p[i + 1]
<1>1. q \in Item /\ End(p, i) \in Nat
  BY ItemIn
<1>2. q.nums \in Seq(Seq(STRING)) /\ q.req.f1 \in Seq(STRING) /\ q.req.f2 \in Seq(STRING)
  BY <1>1 DEF Item
<1>3. CASE IsGet(q)
  <2>1. GetAt(p, i)
    BY <1>3, GetIsAt
  <2>2. /\ Len(q.nums) = 1 /\ Measures(q.nums[1], q.req.f1, Field1Max)
        /\ q.req.meth = "GETRD"
    BY <1>3 DEF IsGet
  <2>3. q.nums[1] \in Seq(STRING)
    BY <1>2, <2>2
  <2>4. ~IsAdd(q)
    BY <1>3, KindsDiffer
  <2> QED
    BY <1>1, <1>2, <2>1, <2>2, <2>3, <2>4 DEF RequestAt, GetAt
<1>4. CASE IsAdd(q)
  <2>1. AddAt(p, i)
    BY <1>4, AddIsAt
  <2>2. /\ Len(q.nums) = 2 /\ Measures(q.nums[1], q.req.f1, Field1Max)
        /\ Measures(q.nums[2], q.req.f2, Field2Max)
        /\ q.req.meth = "ADDFILE"
    BY <1>4 DEF IsAdd
  <2>3. q.nums[1] \in Seq(STRING) /\ q.nums[2] \in Seq(STRING)
    BY <1>2, <2>2
  <2>4. ~IsGet(q)
    BY <1>4, KindsDiffer
  <2> QED
    BY <1>1, <1>2, <2>1, <2>2, <2>3, <2>4 DEF RequestAt, AddAt
<1> QED
  BY <1>3, <1>4

\* A read that does not go through leaves the parser where it is.
LEMMA StaysAligned ==
    ASSUME NEW p, NEW i, NEW c, IsConn(c), Aligned(p, i, c), NEW r, r.pos = c.pos
    PROVE  Aligned(p, i, Advance(c, r))
<1>1. SamePlace(c, Advance(c, r))
  BY AdvanceIs DEF SamePlace
<1> QED
  BY <1>1, SameAligned

LEMMA MethodAligned ==
    ASSUME NEW p, NEW c, Synced(p, c), IsConn(c), NEW i \in 0..Len(p),
           c.st = "NEW", c.pos = End(p, i)
    PROVE  Aligned(p, i, ParseMethod(c))
<1> DEFINE r == GetNextField(c, MethodRoom)
           d == Advance(c, r)
           e == [d EXCEPT !.meth = r.val[1], !.st = "METHOD_DONE"]
           S == Stream(p)
           q == p[i + 1]
<1>1. ParseMethod(c) = IF r.ret = "failed" THEN BadRequest(c)
                       ELSE IF r.ret \in {"wait", "crash"} THEN d
                       ELSE IF r.val \in {<<m>> : m \in Method} THEN e
                       ELSE BadRequest(d)
  BY DEF ParseMethod
<1>2. Planned(p) /\ p \in Seq(Item) /\ LaidOut(p)
  BY PlanLaidOut DEF Synced, Planned
<1>3. Aligned(p, i, c)
  BY DEF Aligned
<1>4. c.pos \in Nat
  <2>1. S \in Seq(STRING) /\ End(p, i) \in 0..Len(S)
    BY <1>2 DEF LaidOut
  <2> QED
    BY <2>1
<1>5. IsConn(d) /\ d.pos = r.pos
  BY AdvanceIs
<1>6. CASE i = Len(p)
  <2>1. c.pos = Len(S)
    BY <1>2, <1>6 DEF LaidOut
  <2>2. r.ret \in {"wait", "crash"} /\ r.pos = c.pos
    BY <2>1, NothingRead
  <2> HIDE DEF r
  <2>3. Aligned(p, i, d)
    BY <1>3, <2>2, StaysAligned
  <2> QED
    BY <1>1, <2>2, <2>3
<1>7. CASE i # Len(p)
  <2>1. i \in 0..(Len(p) - 1) /\ i < Len(p)
    BY <1>2, <1>7
  <2>2. IsGet(q) \/ IsAdd(q) \/ IsBad(q)
    BY <1>2, <2>1, ItemIn
  <2>3. ASSUME S[c.pos + 1] # Space, S[c.pos + 2] = Space
        PROVE  \/ r.ret = "go" /\ r.val = <<S[c.pos + 1]>> /\ r.pos = c.pos + 2
               \/ r.ret \in {"wait", "crash"} /\ r.pos = c.pos
    BY <1>4, <2>3, FirstRead
  <2>4. CASE IsBad(q)
    <3>1. /\ S[c.pos + 1] \notin Method \cup {Space} /\ S[c.pos + 2] = Space
          /\ End(p, i + 1) = c.pos + 2
      BY <1>2, <2>1, <2>4, BadIsAt DEF BadAt
    <3>2. <<S[c.pos + 1]>> \notin {<<m>> : m \in Method}
      BY <3>1
    <3> HIDE DEF r
    <3>3. CASE r.ret = "go"
      <4>1. ParseMethod(c) = BadRequest(d)
        BY <1>1, <2>3, <3>1, <3>2, <3>3
      <4>2. BadRequest(d).st = "ERROR" /\ BadRequest(d).pos = r.pos
        <5> HIDE DEF d
        <5> QED
          BY <1>5 DEF BadRequest, IsConn, ConnFields
      <4>3. r.pos = End(p, i + 1)
        BY <2>3, <3>1, <3>3
      <4> QED
        BY <2>1, <2>4, <4>1, <4>2, <4>3 DEF Aligned
    <3>4. CASE r.ret # "go"
      <4>1. r.ret \in {"wait", "crash"} /\ r.pos = c.pos
        BY <2>3, <3>1, <3>4
      <4>2. Aligned(p, i, d)
        BY <1>3, <4>1, StaysAligned
      <4> QED
        BY <1>1, <4>1, <4>2
    <3> QED
      BY <3>3, <3>4
  <2>5. CASE IsGet(q) \/ IsAdd(q)
    <3>1. RequestAt(p, i)
      BY <1>2, <2>1, <2>5, RequestIs
    <3>2. S[c.pos + 1] = q.req.meth /\ q.req.meth \in Method /\ S[c.pos + 2] = Space
      <4>1. S[c.pos + 1] = q.req.meth /\ q.req.meth \in {"GETRD", "ADDFILE"}
        BY <2>5, <3>1 DEF RequestAt
      <4>2. S[c.pos + 1 + 1] = Space
        BY <3>1 DEF RequestAt, HasText
      <4>3. c.pos + 1 + 1 = c.pos + 2
        BY <1>4
      <4> QED
        BY <4>1, <4>2, <4>3 DEF Method
    <3>3. q.req.meth # Space
      BY <3>2 DEF Method, Space
    <3>4. <<q.req.meth>> \in {<<m>> : m \in Method} /\ <<q.req.meth>>[1] = q.req.meth
      BY <3>2
    <3> HIDE DEF r, q, S
    <3>5. CASE r.ret = "go"
      <4>1. r.val = <<q.req.meth>> /\ r.pos = c.pos + 2
        BY <2>3, <3>2, <3>3, <3>5
      <4>2. ParseMethod(c) = e /\ r.val[1] = q.req.meth
        BY <1>1, <3>4, <3>5, <4>1
      <4>3. e.st = "METHOD_DONE" /\ e.meth = q.req.meth /\ e.pos = c.pos + 2
        <5> HIDE DEF d
        <5> QED
          BY <1>5, <4>1, <4>2 DEF IsConn, ConnFields
      <4> HIDE DEF e
      <4>4. Halfway(p, i, e)
        BY <4>3 DEF Halfway, q
      <4> QED
        BY <2>1, <2>5, <4>2, <4>4 DEF Aligned, q
    <3>6. CASE r.ret # "go"
      <4>1. r.ret \in {"wait", "crash"} /\ r.pos = c.pos
        BY <2>3, <3>2, <3>3, <3>6
      <4>2. Aligned(p, i, d)
        BY <1>3, <4>1, StaysAligned
      <4> QED
        BY <1>1, <4>1, <4>2
    <3> QED
      BY <3>5, <3>6
  <2> QED
    BY <2>2, <2>4, <2>5
<1> QED
  BY <1>6, <1>7

\* The parser is in a request.
LEMMA InRequest ==
    ASSUME NEW p, Planned(p), NEW i \in 0..Len(p), NEW c, Aligned(p, i, c),
           c.st \notin {"NEW", "ERROR"}
    PROVE  /\ i < Len(p) /\ (IsGet(p[i + 1]) \/ IsAdd(p[i + 1]))
           /\ Halfway(p, i, c) /\ RequestAt(p, i) /\ End(p, i) \in Nat
<1>1. i < Len(p) /\ (IsGet(p[i + 1]) \/ IsAdd(p[i + 1])) /\ Halfway(p, i, c)
  BY DEF Aligned
<1>2. Len(p) \in Nat
  BY DEF Planned
<1>3. i \in 0..(Len(p) - 1)
  BY <1>1, <1>2
<1> QED
  BY <1>1, <1>3, RequestIs

LEMMA TextEndIn ==
    ASSUME NEW o \in Nat, NEW num \in Seq(STRING), NEW val \in Seq(STRING)
    PROVE  TextEnd(o, num, val) \in Nat
<1>1. Len(num) \in Nat /\ Len(val) \in Nat
  OBVIOUS
<1> QED
  BY <1>1 DEF TextEnd

LEMMA LenAligned ==
    ASSUME NEW p, NEW c, Synced(p, c), IsConn(c), NEW i \in 0..Len(p), Aligned(p, i, c),
           c.st \in {"METHOD_DONE", "FIELD1_DONE"}
    PROVE  Aligned(p, i, ParseLen(c))
<1> DEFINE r == GetNextField(c, LenRoom)
           d == Advance(c, r)
           e == [d EXCEPT !.len1 = Num(r.val), !.st = "LEN1_DONE"]
           g == [d EXCEPT !.len2 = Num(r.val), !.st = "LEN2_DONE"]
           InRange(max) == IsNum(r.val) /\ Num(r.val) \in 1..max
           q == p[i + 1]
           b == End(p, i)
           x == TextEnd(b + 1, q.nums[1], q.req.f1)
           S == Stream(p)
<1>1. ParseLen(c) = IF r.ret = "failed" THEN BadRequest(c)
                    ELSE IF r.ret \in {"wait", "crash"} THEN d
                    ELSE IF c.st = "METHOD_DONE" /\ InRange(Field1Max) THEN e
                    ELSE IF c.st = "FIELD1_DONE" /\ InRange(Field2Max) THEN g
                    ELSE BadRequest(d)
  BY DEF ParseLen
<1>2. /\ i < Len(p) /\ (IsGet(q) \/ IsAdd(q))
      /\ Halfway(p, i, c) /\ RequestAt(p, i) /\ b \in Nat
  BY InRequest DEF Synced
<1>3. /\ IsConn(d) /\ d.pos = r.pos /\ d.st = c.st /\ d.meth = c.meth /\ d.f1 = c.f1
  BY AdvanceIs
<1>4. /\ c.meth = q.req.meth
      /\ c.st = "METHOD_DONE" => c.pos = b + 2
      /\ c.st = "FIELD1_DONE" => IsAdd(q) /\ c.pos = x /\ c.f1 = q.req.f1
  BY <1>2 DEF Halfway
<1>5. ASSUME r.ret \in {"wait", "crash"}, r.pos = c.pos PROVE Aligned(p, i, ParseLen(c))
  <2> HIDE DEF r
  <2>1. Aligned(p, i, d)
    BY <1>5, StaysAligned
  <2> QED
    BY <1>1, <1>5, <2>1
<1>6. CASE c.st = "METHOD_DONE"
  <2> DEFINE num == q.nums[1]
             val == q.req.f1
  <2>1. /\ num \in Seq(STRING) /\ HasText(S, b + 1, num, val)
        /\ Len(num) \in 1..(LenRoom - 1) /\ IsNum(num)
        /\ Num(num) = Len(val) /\ Len(val) \in 1..Field1Max
    BY <1>2 DEF RequestAt, Measures
  <2>2. b + 1 \in Nat /\ c.pos \in {b + 1, b + 1 + 1}
    BY <1>2, <1>4, <1>6
  <2>3. \/ r.ret = "go" /\ r.val = num /\ r.pos = b + 1 + 2 + Len(num)
        \/ r.ret \in {"wait", "crash"} /\ r.pos = c.pos
    <3> HIDE DEF b, num, val
    <3> QED
      BY <2>1, <2>2, NumRead
  <2>4. CASE r.ret = "go"
    <3> HIDE DEF r, q, b
    <3>1. r.val = num /\ r.pos = b + 1 + 2 + Len(num)
      BY <2>3, <2>4
    <3>2. ParseLen(c) = e
      BY <1>1, <1>6, <2>1, <2>4, <3>1
    <3>3. /\ e.st = "LEN1_DONE" /\ e.meth = q.req.meth /\ e.pos = b + 1 + 2 + Len(num)
          /\ e.len1 = Len(val)
      <4> HIDE DEF d
      <4> QED
        BY <1>3, <1>4, <2>1, <3>1 DEF IsConn, ConnFields
    <3> HIDE DEF e
    <3>4. Halfway(p, i, e)
      BY <3>3 DEF Halfway, q, b
    <3> QED
      BY <1>2, <3>2, <3>4 DEF Aligned, q
  <2> QED
    BY <1>5, <2>3, <2>4
<1>7. CASE c.st = "FIELD1_DONE"
  <2> DEFINE num == q.nums[2]
             val == q.req.f2
  <2>0. IsAdd(q)
    BY <1>4, <1>7
  <2>1. /\ num \in Seq(STRING) /\ HasText(S, x, num, val)
        /\ Len(num) \in 1..(LenRoom - 1) /\ IsNum(num)
        /\ Num(num) = Len(val) /\ Len(val) \in 1..Field2Max
    BY <1>2, <2>0 DEF RequestAt, Measures
  <2>2. x \in Nat /\ c.pos = x
    <3>1. q.nums[1] \in Seq(STRING) /\ q.req.f1 \in Seq(STRING)
      BY <1>2 DEF RequestAt
    <3>2. b + 1 \in Nat
      BY <1>2
    <3>3. x \in Nat
      BY <3>1, <3>2, TextEndIn
    <3> QED
      BY <1>4, <1>7, <3>3
  <2>3. \/ r.ret = "go" /\ r.val = num /\ r.pos = x + 2 + Len(num)
        \/ r.ret \in {"wait", "crash"} /\ r.pos = c.pos
    <3> HIDE DEF x, num, val
    <3>1. c.pos \in {x, x + 1}
      BY <2>2
    <3> QED
      BY <2>1, <2>2, <3>1, NumRead
  <2>4. CASE r.ret = "go"
    <3> HIDE DEF r, q, b, x
    <3>1. r.val = num /\ r.pos = x + 2 + Len(num)
      BY <2>3, <2>4
    <3>2. ParseLen(c) = g
      BY <1>1, <1>7, <2>1, <2>4, <3>1
    <3>3. /\ g.st = "LEN2_DONE" /\ g.meth = q.req.meth /\ g.pos = x + 2 + Len(num)
          /\ g.len2 = Len(val) /\ g.f1 = q.req.f1
      <4> HIDE DEF d
      <4> QED
        BY <1>3, <1>4, <1>7, <2>1, <3>1 DEF IsConn, ConnFields
    <3> HIDE DEF g
    <3>4. Halfway(p, i, g)
      BY <2>0, <3>3 DEF Halfway, q, b, x
    <3> QED
      BY <1>2, <3>2, <3>4 DEF Aligned, q
  <2> QED
    BY <1>5, <2>3, <2>4
<1> QED
  BY <1>6, <1>7

LEMMA DataAligned ==
    ASSUME NEW p, NEW c, Synced(p, c), IsConn(c), NEW i \in 0..Len(p), Aligned(p, i, c),
           c.st \in {"LEN1_DONE", "LEN2_DONE"}
    PROVE  Aligned(p, i, ParseData(c))
<1> DEFINE size == IF c.st = "LEN1_DONE" THEN c.len1 ELSE c.len2
           r == GetBytes(c, size)
           d == Advance(c, r)
           e == FieldDone(d, r.val)
           q == p[i + 1]
           b == End(p, i)
           x == TextEnd(b + 1, q.nums[1], q.req.f1)
           S == Stream(p)
<1>1. ParseData(c) = IF r.ret = "go" THEN e ELSE d
  BY DEF ParseData
<1>2. /\ i < Len(p) /\ (IsGet(q) \/ IsAdd(q))
      /\ Halfway(p, i, c) /\ RequestAt(p, i) /\ b \in Nat
  BY InRequest DEF Synced
<1>3. /\ IsConn(d) /\ d.pos = r.pos /\ d.st = c.st /\ d.meth = c.meth /\ d.f1 = c.f1
  BY AdvanceIs
<1>4. /\ c.meth = q.req.meth
      /\ c.st = "LEN1_DONE" => c.pos = b + 1 + 2 + Len(q.nums[1]) /\ c.len1 = Len(q.req.f1)
      /\ c.st = "LEN2_DONE" => /\ IsAdd(q) /\ c.pos = x + 2 + Len(q.nums[2])
                               /\ c.f1 = q.req.f1 /\ c.len2 = Len(q.req.f2)
  BY <1>2 DEF Halfway
<1>5. ASSUME r.ret \in {"wait", "crash"}, r.pos = c.pos PROVE Aligned(p, i, ParseData(c))
  <2> HIDE DEF r
  <2>1. Aligned(p, i, d)
    BY <1>5, StaysAligned
  <2> QED
    BY <1>1, <1>5, <2>1
<1>6. CASE c.st = "LEN1_DONE"
  <2> DEFINE num == q.nums[1]
             val == q.req.f1
  <2>1. /\ num \in Seq(STRING) /\ val \in Seq(STRING) /\ HasText(S, b + 1, num, val)
        /\ x \in FieldEnd(p) /\ Len(val) # 0
    BY <1>2 DEF RequestAt, Measures
  <2>2. b + 1 \in Nat /\ c.pos = b + 1 + 2 + Len(num) /\ size = Len(val)
    BY <1>2, <1>4, <1>6
  <2>3. \/ r.ret = "go" /\ r.val = val /\ r.pos = x
        \/ r.ret \in {"wait", "crash"} /\ r.pos = c.pos
    <3>1. x = TextEnd(b + 1, num, val)
      OBVIOUS
    <3> HIDE DEF b, x, num, val, size
    <3> QED
      BY <2>1, <2>2, <3>1, ValRead
  <2>4. CASE r.ret = "go"
    <3> HIDE DEF r, q, b, x
    <3>1. r.val = val /\ r.pos = x /\ ParseData(c) = e
      BY <1>1, <2>3, <2>4
    <3>2. e = [d EXCEPT !.f1 = r.val,
                        !.st = IF d.meth = "GETRD" THEN "DONE" ELSE "FIELD1_DONE"]
      BY <1>3, <1>6 DEF FieldDone
    <3>3. /\ e.meth = q.req.meth /\ e.pos = x /\ e.f1 = val
          /\ e.st = IF q.req.meth = "GETRD" THEN "DONE" ELSE "FIELD1_DONE"
      <4> HIDE DEF d
      <4> QED
        BY <1>3, <1>4, <3>1, <3>2 DEF IsConn, ConnFields
    <3> HIDE DEF e
    <3>4. Halfway(p, i, e)
      <4>1. CASE IsGet(q)
        <5>1. q.req.meth = "GETRD" /\ End(p, i + 1) = x
          BY <1>2, <4>1 DEF RequestAt, q, b, x
        <5>2. ~IsAdd(q)
          BY <4>1, KindsDiffer
        <5>3. e.st = "DONE" /\ e.pos = End(p, i + 1) /\ e.f1 = q.req.f1
          BY <3>3, <5>1
        <5> QED
          BY <3>3, <5>2, <5>3 DEF Halfway, q
      <4>2. CASE IsAdd(q)
        <5>1. q.req.meth = "ADDFILE"
          BY <1>2, <4>2 DEF RequestAt, q
        <5>2. e.st = "FIELD1_DONE" /\ e.pos = x /\ e.f1 = q.req.f1
          BY <3>3, <5>1
        <5> QED
          BY <3>3, <4>2, <5>2 DEF Halfway, q, b, x
      <4> QED
        BY <1>2, <4>1, <4>2
    <3> QED
      BY <1>2, <3>1, <3>4 DEF Aligned, q
  <2> QED
    BY <1>5, <2>3, <2>4
<1>7. CASE c.st = "LEN2_DONE"
  <2> DEFINE num == q.nums[2]
             val == q.req.f2
  <2>0. IsAdd(q)
    BY <1>4, <1>7
  <2>1. /\ num \in Seq(STRING) /\ val \in Seq(STRING) /\ HasText(S, x, num, val)
        /\ End(p, i + 1) = TextEnd(x, num, val)
        /\ TextEnd(x, num, val) \in FieldEnd(p) /\ Len(val) # 0
    BY <1>2, <2>0 DEF RequestAt, Measures
  <2>2. x \in Nat
    <3>1. q.nums[1] \in Seq(STRING) /\ q.req.f1 \in Seq(STRING)
      BY <1>2 DEF RequestAt
    <3>2. b + 1 \in Nat
      BY <1>2
    <3> QED
      BY <3>1, <3>2, TextEndIn
  <2>3. c.pos = x + 2 + Len(num) /\ size = Len(val)
    BY <1>4, <1>7
  <2>4. \/ r.ret = "go" /\ r.val = val /\ r.pos = TextEnd(x, num, val)
        \/ r.ret \in {"wait", "crash"} /\ r.pos = c.pos
    <3> HIDE DEF x, num, val, size
    <3> QED
      BY <2>1, <2>2, <2>3, ValRead
  <2>5. CASE r.ret = "go"
    <3> HIDE DEF r, q, b, x
    <3>1. r.val = val /\ r.pos = End(p, i + 1) /\ ParseData(c) = e
      BY <1>1, <2>1, <2>4, <2>5
    <3>2. e = [d EXCEPT !.f2 = r.val, !.st = "DONE"]
      BY <1>3, <1>7 DEF FieldDone
    <3>3. /\ e.meth = q.req.meth /\ e.pos = End(p, i + 1) /\ e.f1 = q.req.f1 /\ e.f2 = val
          /\ e.st = "DONE"
      <4> HIDE DEF d
      <4> QED
        BY <1>3, <1>4, <1>7, <3>1, <3>2 DEF IsConn, ConnFields
    <3> HIDE DEF e
    <3>4. Halfway(p, i, e)
      BY <3>3 DEF Halfway, q
    <3> QED
      BY <1>2, <3>1, <3>4 DEF Aligned, q
  <2> QED
    BY <1>5, <2>4, <2>5
<1> QED
  BY <1>6, <1>7

LEMMA StepAligned ==
    ASSUME NEW p, NEW c, Synced(p, c), Running(c), NEW i \in 0..Len(p), Aligned(p, i, c)
    PROVE  /\ Running(OneStep(c)) /\ Synced(p, OneStep(c))
           /\ Aligned(p, i, OneStep(c))
<1>1. Running(OneStep(c)) /\ SameData(c, OneStep(c))
  BY StepRuns
<1>2. Synced(p, OneStep(c))
  BY <1>1 DEF Synced, SameData
<1>3. CASE c.st = "DONE" \/ c.ret # "go"
  BY <1>1, <1>2, <1>3 DEF OneStep
<1>4. CASE c.st # "DONE" /\ c.ret = "go"
  <2>1. /\ c.st \in {"NEW", "METHOD_DONE", "LEN1_DONE", "FIELD1_DONE", "LEN2_DONE"}
        /\ IsConn(c)
    BY <1>4 DEF Running, ConnOK
  <2>2. OneStep(c) = IF c.st = "NEW" THEN ParseMethod(c)
                     ELSE IF c.st \in {"METHOD_DONE", "FIELD1_DONE"} THEN ParseLen(c)
                     ELSE ParseData(c)
    BY <1>4, <2>1 DEF OneStep, ParseStep
  <2>3. CASE c.st = "NEW"
    <3>1. c.pos = End(p, i)
      BY <2>3 DEF Aligned, Halfway
    <3>2. Aligned(p, i, ParseMethod(c))
      BY <2>1, <2>3, <3>1, MethodAligned
    <3> QED
      BY <1>1, <1>2, <2>2, <2>3, <3>2
  <2>4. CASE c.st \in {"METHOD_DONE", "FIELD1_DONE"}
    <3>1. Aligned(p, i, ParseLen(c))
      BY <2>1, <2>4, LenAligned
    <3> QED
      BY <1>1, <1>2, <2>2, <2>4, <3>1
  <2>5. CASE c.st \in {"LEN1_DONE", "LEN2_DONE"}
    <3>1. Aligned(p, i, ParseData(c))
      BY <2>1, <2>5, DataAligned
    <3> QED
      BY <1>1, <1>2, <2>2, <2>5, <3>1
  <2> QED
    BY <2>1, <2>3, <2>4, <2>5
<1> QED
  BY <1>3, <1>4

\* What parse_req has read after a call is what was sent.
LEMMA ParseAligned ==
    ASSUME NEW p, NEW c, Synced(p, c), ConnOK(c), c.st \notin {"DONE", "ERROR"},
           NEW i \in 0..Len(p), Aligned(p, i, c), NEW d \in ParseReq(c)
    PROVE  Aligned(p, i, d)
<1>1. CASE c.node = "null"
  <2>1. d = [c EXCEPT !.ret = "crash"]
    BY <1>1, ParseReqIs
  <2>2. SamePlace(c, d)
    BY <2>1 DEF ConnOK, IsConn, ConnFields, SamePlace
  <2> QED
    BY <2>2, SameAligned
<1>2. CASE c.node # "null"
  <2> DEFINE d0 == Start(c)
             d1 == OneStep(d0)
             d2 == OneStep(d1)
             d3 == OneStep(d2)
             d4 == OneStep(d3)
             d5 == OneStep(d4)
             Good(x) == Running(x) /\ Synced(p, x) /\ Aligned(p, i, x)
  <2>1. d = d5
    BY <1>2, ParseReqIs DEF Parsed
  <2>2. /\ IsConn(d0) /\ SameData(c, d0) /\ SamePlace(c, d0)
        /\ d0.rst = c.rst /\ d0.node = c.node /\ d0.ret = "go"
    BY DEF ConnOK, IsConn, ConnFields, SameData, SamePlace, Start
  <2>3. Good(d0)
    <3> HIDE DEF d0
    <3>1. ConnOK(d0)
      BY <2>2 DEF ConnOK, SameData, SamePlace
    <3>2. Running(d0)
      BY <1>2, <2>2, <3>1 DEF Running, SamePlace
    <3>3. Aligned(p, i, d0)
      BY <2>2, SameAligned
    <3>4. Synced(p, d0)
      BY <2>2 DEF Synced, SameData
    <3> QED
      BY <3>2, <3>3, <3>4
  <2>4. ASSUME NEW x, Good(x) PROVE Good(OneStep(x))
    BY <2>4, StepAligned
  <2> HIDE DEF Good, d0
  <2>5. Good(d1)
    BY <2>3, <2>4
  <2>6. Good(d2)
    BY <2>4, <2>5
  <2>7. Good(d3)
    BY <2>4, <2>6
  <2>8. Good(d4)
    BY <2>4, <2>7
  <2>9. Good(d5)
    BY <2>4, <2>8
  <2> QED
    BY <2>1, <2>9 DEF Good
<1> QED
  BY <1>1, <1>2

-----------------------------------------------------------------------------
(* A connection and its client.                                            *)

\* A connection between two requests or in the middle of one.
Idle(c) ==
    /\ ConnOK(c) /\ c.st \notin {"DONE", "ERROR"} /\ c.first \in Nat
    /\ c.node = "null" => c.pos % BUFBLK_SIZE = 0

Due(s) == Min({Len(s.ans) + 1, Len(s.plan)})

IsAnswers(a) ==
    /\ Len(a) \in Nat /\ DOMAIN a = 1..Len(a) /\ a = [j \in 1..Len(a) |-> a[j]]

\* The answers a client has are to the requests it sent.
Replies(s) ==
    /\ Len(s.ans) <= Len(s.plan)
    /\ \A j \in DOMAIN s.ans : s.ans[j].req = s.plan[j].req

\* What a client may send: something in one of the scenarios, or nothing at all.
Script(k) == {p[k] : p \in Plan} \cup {<<>>}
SockStates == {"new", "open", "eof", "reset", "gone", "closed"}

\* A client that has gone, and waited for its answers, has them all.
Side(k, s) ==
    /\ IsSock(s) /\ s.plan \in Script(k)
    /\ s.sent \in 0..Len(Stream(s.plan))
    /\ s.st \in SockStates
    /\ s.st = "new" => s.ans = <<>> /\ s.sent = 0
    /\ IsAnswers(s.ans)
    /\ ~s.torn => Replies(s)
    /\ ~s.ahead => s.sent <= End(s.plan, Due(s))
    /\ s.st = "gone" /\ ~s.torn /\ ~s.ahead => s.sent <= End(s.plan, Len(s.ans))

\* What the two ends of an open connection have to do with each other.
Link(s, c) ==
    /\ Len(c.data) <= s.sent
    /\ \A x \in 1..Len(c.data) : c.data[x] = Stream(s.plan)[x]
    /\ c.node = "null" => s.edge
    /\ ~s.torn => Aligned(s.plan, Len(s.ans), c)
    /\ ~s.torn /\ ~s.ahead => c.first <= End(s.plan, Len(s.ans)) \div BUFBLK_SIZE

LEMMA Scripted ==
    ASSUME NEW k \in Client, NEW q \in Script(k)
    PROVE  Planned(q)
<1>1. CASE q = <<>>
  BY <1>1 DEF Planned
<1>2. CASE q # <<>>
  <2>1. PICK p \in Plan : q = p[k]
    BY <1>2 DEF Script
  <2>2. p[k] \in Seq(Item) /\ \A i \in DOMAIN p[k] : IsGet(p[k][i]) \/ IsAdd(p[k][i]) \/ IsBad(p[k][i])
    BY PlanAssumption
  <2> QED
    BY <2>1, <2>2 DEF Planned
<1> QED
  BY <1>1, <1>2

LEMMA SidePlanned ==
    ASSUME NEW k \in Client, NEW s, Side(k, s)
    PROVE  /\ Planned(s.plan) /\ LaidOut(s.plan) /\ Len(s.plan) \in Nat
           /\ Stream(s.plan) \in Seq(STRING) /\ Len(s.ans) \in Nat
           /\ Due(s) \in 0..Len(s.plan) /\ Due(s) <= Len(s.ans) + 1
           /\ Due(s) \in {Len(s.ans) + 1, Len(s.plan)}
<1>1. Planned(s.plan)
  <2>1. s.plan \in Script(k)
    BY DEF Side
  <2> QED
    BY <2>1, Scripted
<1>2. LaidOut(s.plan) /\ Len(s.plan) \in Nat
  BY <1>1, PlanLaidOut DEF Planned
<1>3. Stream(s.plan) \in Seq(STRING)
  BY <1>2 DEF LaidOut
<1>4. Len(s.ans) \in Nat
  BY DEF Side, IsAnswers
<1>5. {Len(s.ans) + 1, Len(s.plan)} \in SUBSET Nat
  BY <1>2, <1>4
<1>6. /\ Due(s) \in {Len(s.ans) + 1, Len(s.plan)}
      /\ \A x \in {Len(s.ans) + 1, Len(s.plan)} : Due(s) <= x
  BY <1>5, MinNat DEF Due
<1>7. Due(s) \in 0..Len(s.plan) /\ Due(s) <= Len(s.ans) + 1
  BY <1>2, <1>4, <1>6
<1> QED
  BY <1>1, <1>2, <1>3, <1>4, <1>6, <1>7

\* What the parser is handed is in step, unless it is marked.
LEMMA MarkIs ==
    ASSUME NEW s, IsSock(s), NEW c
    PROVE  LET t == Mark(s, c) IN
           /\ IsSock(t) /\ t.fd = s.fd /\ t.st = s.st /\ t.plan = s.plan /\ t.sent = s.sent
           /\ t.ans = s.ans /\ t.ahead = s.ahead
           /\ t.torn = (s.torn \/ c.junk = Space \/ Len(c.data) + 1 \in FieldEnd(s.plan))
           /\ t.edge = (s.edge \/ (Len(c.data) + 1) % BUFBLK_SIZE = 0)
BY DEF IsSock, SockFields, Mark

LEMMA MarkedSide ==
    ASSUME NEW k \in Client, NEW s, NEW c, Side(k, s), Link(s, c)
    PROVE  Side(k, Mark(s, c)) /\ Link(Mark(s, c), c)
<1> DEFINE t == Mark(s, c)
<1>1. /\ IsSock(t) /\ t.fd = s.fd /\ t.st = s.st /\ t.plan = s.plan /\ t.sent = s.sent
      /\ t.ans = s.ans /\ t.ahead = s.ahead
      /\ (s.torn => t.torn) /\ (s.edge => t.edge)
  BY MarkIs DEF Side
<1> HIDE DEF t
<1>2. Due(t) = Due(s) /\ (Replies(s) => Replies(t))
  BY <1>1 DEF Due, Replies
<1>3. Side(k, t)
  BY <1>1, <1>2 DEF Side
<1>4. Link(t, c)
  BY <1>1 DEF Link
<1> QED
  BY <1>3, <1>4 DEF t

LEMMA MarkedSynced ==
    ASSUME NEW k \in Client, NEW s, NEW c, Side(k, s), Link(s, c), Idle(c), ~Mark(s, c).torn
    PROVE  ~s.torn /\ Synced(s.plan, c)
<1>1. ~s.torn /\ c.junk # Space /\ Len(c.data) + 1 \notin FieldEnd(s.plan)
  <2>1. Mark(s, c).torn = (s.torn \/ c.junk = Space \/ Len(c.data) + 1 \in FieldEnd(s.plan))
    BY MarkIs DEF Side
  <2> QED
    BY <2>1
<1>2. Planned(s.plan) /\ Stream(s.plan) \in Seq(STRING)
  BY SidePlanned
<1>3. c.data \in Seq(STRING) /\ Len(c.data) \in Nat
  BY DEF Idle, ConnOK
<1>4. Len(c.data) <= s.sent /\ s.sent \in 0..Len(Stream(s.plan))
  BY DEF Side, Link
<1>5. Len(Stream(s.plan)) \in Nat
  BY <1>2
<1>6. Len(c.data) <= Len(Stream(s.plan))
  BY <1>3, <1>4, <1>5
<1> QED
  BY <1>1, <1>2, <1>3, <1>6 DEF Synced, Link

\* What is handed back.
LEMMA ParsedOK ==
    ASSUME NEW k \in Client, NEW s, NEW c, Side(k, s), Link(s, c), Idle(c),
           NEW d \in ParseReq(c)
    PROVE  /\ ConnOK(d) /\ SameData(c, d)
           /\ d.ret = "crash" => Mark(s, c).edge
           /\ d.ret # "crash" /\ d.node = "null" =>
                 Mark(s, c).edge /\ d.pos % BUFBLK_SIZE = 0
           /\ ~Mark(s, c).torn => /\ ~s.torn /\ Len(s.ans) \in 0..Len(s.plan)
                                  /\ Aligned(s.plan, Len(s.ans), d)
<1>1. /\ ConnOK(d) /\ SameData(c, d)
      /\ d.ret = "crash" \/ d.node = "null" => c.node = "null" \/ PastChain(d, Len(d.data) + 1)
      /\ d.node = "null" /\ c.node # "null" => d.pos % BUFBLK_SIZE = 0
  BY ParseRuns DEF Idle
<1>2. c.node = "null" => d.ret = "crash"
  <2>1. c.node = "null" => d = [c EXCEPT !.ret = "crash"]
    BY ParseReqIs
  <2>2. [c EXCEPT !.ret = "crash"].ret = "crash"
    BY DEF Idle, ConnOK, IsConn, ConnFields
  <2> QED
    BY <2>1, <2>2
<1>3. d.ret = "crash" \/ d.node = "null" => Mark(s, c).edge
  <2>1. Mark(s, c).edge = (s.edge \/ (Len(c.data) + 1) % BUFBLK_SIZE = 0)
    BY MarkIs DEF Side
  <2>2. PastChain(d, Len(d.data) + 1) => (Len(c.data) + 1) % BUFBLK_SIZE = 0
    BY <1>1 DEF PastChain, SameData
  <2>3. c.node = "null" => s.edge
    BY DEF Link
  <2> QED
    BY <1>1, <2>1, <2>2, <2>3
<1>4. ASSUME ~Mark(s, c).torn
      PROVE  ~s.torn /\ Len(s.ans) \in 0..Len(s.plan) /\ Aligned(s.plan, Len(s.ans), d)
  <2>1. ~s.torn /\ Synced(s.plan, c)
    BY <1>4, MarkedSynced
  <2>2. Aligned(s.plan, Len(s.ans), c)
    BY <2>1 DEF Link
  <2>3. Len(s.ans) \in 0..Len(s.plan)
    BY <2>1, SidePlanned DEF Side, Replies
  <2> QED
    BY <2>1, <2>2, <2>3, ParseAligned DEF Idle
<1> QED
  BY <1>1, <1>2, <1>3, <1>4

\* The parser has stopped in a request.
LEMMA WaitingOK ==
    ASSUME NEW k \in Client, NEW s, NEW c, Side(k, s), Link(s, c), Idle(c),
           NEW d \in ParseReq(c), d.ret # "crash", ~FullReq(d)
    PROVE  Idle(Waiting(d)) /\ Link(Mark(s, c), Waiting(d))
<1> DEFINE t == Mark(s, c)
           e == Waiting(d)
<1>1. /\ ConnOK(d) /\ SameData(c, d)
      /\ d.node = "null" => t.edge /\ d.pos % BUFBLK_SIZE = 0
      /\ ~t.torn => ~s.torn /\ Aligned(s.plan, Len(s.ans), d)
  BY ParsedOK
<1>2. d.st \notin {"DONE", "ERROR"}
  BY DEF FullReq
<1>3. /\ IsConn(e) /\ e.data = d.data /\ e.first = d.first /\ e.node = d.node
      /\ e.rst = d.rst /\ SamePlace(d, e)
  BY <1>1 DEF Waiting, ConnOK, IsConn, ConnFields, SamePlace
<1> HIDE DEF e
<1>4. t.plan = s.plan /\ t.sent = s.sent /\ t.ans = s.ans /\ t.ahead = s.ahead
  BY MarkIs DEF Side
<1>5. e.data = c.data /\ e.first = c.first
  BY <1>1, <1>3 DEF SameData
<1>6. Idle(e)
  BY <1>1, <1>2, <1>3, <1>5 DEF Idle, ConnOK, SamePlace
<1>7. ~t.torn => ~s.torn /\ Aligned(t.plan, Len(t.ans), e)
  BY <1>1, <1>3, <1>4, SameAligned
<1> HIDE DEF t
<1>8. Link(t, e)
  BY <1>1, <1>3, <1>4, <1>5, <1>7 DEF Link
<1> QED
  BY <1>6, <1>8 DEF t, e

\* The answer is appended.
LEMMA AppendedAnswers ==
    ASSUME NEW a, IsAnswers(a), NEW e
    PROVE  LET b == Append(a, e) IN
           /\ IsAnswers(b) /\ Len(b) = Len(a) + 1 /\ DOMAIN b = 1..(Len(a) + 1)
           /\ \A j \in 1..Len(a) : b[j] = a[j]
           /\ b[Len(a) + 1] = e
<1> DEFINE S == {a[j] : j \in 1..Len(a)} \cup {e}
           b == Append(a, e)
<1>1. a \in Seq(S) /\ e \in S /\ Len(a) \in Nat
  <2>1. Len(a) \in Nat /\ a = [j \in 1..Len(a) |-> a[j]] /\ \A j \in 1..Len(a) : a[j] \in S
    BY DEF IsAnswers
  <2> HIDE DEF S
  <2>2. a \in Seq(S)
    BY <2>1
  <2> QED
    BY <2>1, <2>2 DEF S
<1> HIDE DEF S
<1>2. /\ b \in Seq(S) /\ Len(b) = Len(a) + 1
      /\ \A j \in 1..Len(a) : b[j] = a[j]
      /\ b[Len(a) + 1] = e
  BY <1>1
<1> HIDE DEF b
<1>3. Len(b) \in Nat /\ DOMAIN b = 1..Len(b) /\ b = [j \in 1..Len(b) |-> b[j]]
  BY <1>2
<1> QED
  BY <1>2, <1>3 DEF IsAnswers, b

LEMMA AnsweredIs ==
    ASSUME NEW s, IsSock(s), NEW c, NEW st
    PROVE  LET t == Answered(s, c, st) IN
           /\ IsSock(t) /\ t.fd = s.fd /\ t.plan = s.plan /\ t.sent = s.sent
           /\ t.torn = s.torn /\ t.edge = s.edge /\ t.ahead = s.ahead
           /\ t.ans = Append(s.ans, Answer(c))
           /\ t.st = st
BY DEF IsSock, SockFields, Answered

\* A parser that is in step asks for what was sent.
LEMMA AskedIs ==
    ASSUME NEW p, Planned(p), NEW i \in 0..Len(p),
           NEW d, ConnOK(d), FullReq(d), Aligned(p, i, d)
    PROVE  /\ i + 1 \in 1..Len(p) /\ Asked(d) = p[i + 1].req
           /\ d.pos = End(p, i + 1)
<1> DEFINE q == p[i + 1]
<1>1. Len(p) \in Nat /\ d.st \in {"DONE", "ERROR"}
  BY DEF Planned, FullReq
<1>2. /\ i < Len(p)
      /\ \/ IsBad(q) /\ d.st = "ERROR" /\ d.pos = End(p, i + 1)
         \/ (IsGet(q) \/ IsAdd(q)) /\ Halfway(p, i, d)
  BY <1>1 DEF Aligned
<1>3. i + 1 \in 1..Len(p) /\ i \in 0..(Len(p) - 1)
  BY <1>1, <1>2
<1>4. CASE IsBad(q) /\ d.st = "ERROR" /\ d.pos = End(p, i + 1)
  <2>1. d.rst # "OK" /\ q.req = Malformed
    BY <1>4 DEF ConnOK, IsBad
  <2> QED
    BY <1>3, <1>4, <2>1 DEF Asked
<1>5. CASE (IsGet(q) \/ IsAdd(q)) /\ Halfway(p, i, d)
  <2>1. /\ d.st = "DONE" /\ d.rst = "OK" /\ d.meth = q.req.meth /\ d.f1 = q.req.f1
        /\ d.pos = End(p, i + 1)
        /\ IsAdd(q) => d.f2 = q.req.f2
    BY <1>1, <1>5 DEF Halfway, ConnOK
  <2>2. q \in Item
    BY <1>3, ItemIn
  <2>3. q.req = [meth |-> q.req.meth, f1 |-> q.req.f1, f2 |-> q.req.f2]
    BY <2>2 DEF Item
  <2>4. IsGet(q) => q.req.meth = "GETRD" /\ q.req.f2 = <<>>
    BY DEF IsGet
  <2>5. IsAdd(q) => q.req.meth = "ADDFILE"
    BY DEF IsAdd
  <2> DEFINE f2 == IF d.meth = "GETRD" THEN <<>> ELSE d.f2
  <2>6. f2 = q.req.f2
    BY <1>5, <2>1, <2>4, <2>5
  <2>7. Asked(d) = [meth |-> d.meth, f1 |-> d.f1, f2 |-> f2]
    BY <2>1 DEF Asked
  <2> HIDE DEF f2, q
  <2> QED
    BY <1>3, <2>1, <2>3, <2>6, <2>7 DEF q
<1> QED
  BY <1>2, <1>4, <1>5

\* A request is answered, and the blocks it was in are freed.
LEMMA ServedSide ==
    ASSUME NEW k \in Client, NEW s, NEW c, Side(k, s), Link(s, c), Idle(c), s.st # "new",
           NEW d \in ParseReq(c), d.ret # "crash", FullReq(d), NEW st \in AfterSend(s.st)
    PROVE  LET t == Answered(Mark(s, c), d, st) IN
           /\ Side(k, t) /\ t.fd = s.fd /\ t.plan = s.plan /\ t.sent = s.sent
           /\ t.torn = Mark(s, c).torn /\ t.edge = Mark(s, c).edge /\ t.ahead = s.ahead
           /\ Len(t.ans) = Len(s.ans) + 1
<1> DEFINE m == Mark(s, c)
           t == Answered(m, d, st)
           n == Len(s.ans)
<1>1. /\ IsSock(m) /\ m.fd = s.fd /\ m.st = s.st /\ m.plan = s.plan /\ m.sent = s.sent
      /\ m.ans = s.ans /\ m.ahead = s.ahead
  BY MarkIs DEF Side
<1> HIDE DEF m
<1>2. /\ IsSock(t) /\ t.fd = m.fd /\ t.plan = m.plan /\ t.sent = m.sent
      /\ t.torn = m.torn /\ t.edge = m.edge /\ t.ahead = m.ahead
      /\ t.ans = Append(m.ans, Answer(d))
      /\ t.st = st
  BY <1>1, AnsweredIs
<1> HIDE DEF t
<1>3. /\ IsAnswers(t.ans) /\ Len(t.ans) = n + 1 /\ DOMAIN t.ans = 1..(n + 1)
      /\ \A j \in 1..n : t.ans[j] = s.ans[j]
      /\ t.ans[n + 1] = Answer(d)
  <2>1. IsAnswers(s.ans)
    BY DEF Side
  <2> QED
    BY <1>1, <1>2, <2>1, AppendedAnswers
<1>4. /\ Planned(s.plan) /\ LaidOut(s.plan) /\ Len(s.plan) \in Nat /\ n \in Nat
      /\ Due(s) \in 0..Len(s.plan) /\ Due(s) \in {n + 1, Len(s.plan)} /\ Due(s) <= n + 1
  BY SidePlanned
<1>5. ASSUME ~t.torn PROVE Replies(t)
  <2>1. ~s.torn /\ n \in 0..Len(s.plan) /\ Aligned(s.plan, n, d) /\ ConnOK(d)
    BY <1>2, <1>5, ParsedOK DEF m
  <2>2. n + 1 \in 1..Len(s.plan) /\ Asked(d) = s.plan[n + 1].req
    BY <1>4, <2>1, AskedIs
  <2>3. \A j \in 1..n : s.ans[j].req = s.plan[j].req
    BY <2>1 DEF Side, Replies, IsAnswers
  <2>4. Answer(d).req = Asked(d)
    BY DEF Answer
  <2>5. Len(t.ans) <= Len(t.plan)
    BY <1>1, <1>2, <1>3, <2>2
  <2>6. \A j \in DOMAIN t.ans : t.ans[j].req = t.plan[j].req
    BY <1>1, <1>2, <1>3, <1>4, <2>2, <2>3, <2>4
  <2> QED
    BY <2>5, <2>6 DEF Replies
<1>6. ~t.ahead => t.sent <= End(t.plan, Due(t))
  <2> DEFINE e1 == End(s.plan, Due(s))
             e2 == End(s.plan, Due(t))
  <2>1. Due(t) \in 0..Len(s.plan) /\ Due(s) <= Due(t)
    <3>1. Due(t) = Min({n + 1 + 1, Len(s.plan)})
      BY <1>1, <1>2, <1>3 DEF Due
    <3>2. {n + 1 + 1, Len(s.plan)} \in SUBSET Nat
      BY <1>4
    <3>3. Due(t) \in {n + 1 + 1, Len(s.plan)} /\ \A x \in {n + 1 + 1, Len(s.plan)} : Due(t) <= x
      BY <3>1, <3>2, MinNat
    <3> QED
      BY <1>4, <3>3
  <2>2. e1 <= e2 /\ e1 \in Nat /\ e2 \in Nat
    <3>1. Len(Stream(s.plan)) \in Nat
      BY <1>4 DEF LaidOut
    <3> QED
      BY <1>4, <2>1, <3>1 DEF LaidOut
  <2>3. s.sent \in Nat /\ (~s.ahead => s.sent <= e1)
    <3>1. Len(Stream(s.plan)) \in Nat
      BY <1>4 DEF LaidOut
    <3> QED
      BY <3>1 DEF Side
  <2> HIDE DEF e1, e2
  <2>4. ~s.ahead => s.sent <= e2
    BY <2>2, <2>3
  <2> QED
    BY <1>1, <1>2, <2>4 DEF e2
<1>7. ASSUME ~t.torn, ~t.ahead PROVE t.sent <= End(t.plan, Len(t.ans))
  <2>1. Len(t.ans) <= Len(s.plan)
    BY <1>1, <1>2, <1>5, <1>7 DEF Replies
  <2>2. Due(s) = Len(t.ans)
    BY <1>3, <1>4, <2>1
  <2>3. s.sent <= End(s.plan, Due(s))
    BY <1>1, <1>2, <1>7 DEF Side
  <2> QED
    BY <1>1, <1>2, <2>2, <2>3
<1>8. st \in SockStates /\ st # "new"
  BY DEF AfterSend, Side, SockStates
<1>9. Side(k, t)
  BY <1>1, <1>2, <1>3, <1>5, <1>6, <1>7, <1>8 DEF Side
<1> QED
  BY <1>1, <1>2, <1>3, <1>9 DEF t, m

\* An item is longer than the byte that may be taken for received.
LEMMA ItemRoom ==
    ASSUME NEW p, Planned(p), NEW i \in 0..(Len(p) - 1)
    PROVE  End(p, i) \in Nat /\ End(p, i + 1) \in Nat /\ End(p, i) + 2 <= End(p, i + 1)
<1> DEFINE q == p[i + 1]
           b == End(p, i)
           e == End(p, i + 1)
           x == TextEnd(b + 1, q.nums[1], q.req.f1)
<1>1. b \in Nat /\ (IsGet(q) \/ IsAdd(q) \/ IsBad(q))
  BY ItemIn
<1>2. CASE IsBad(q)
  <2>1. e = b + 2
    BY <1>2, BadIsAt DEF BadAt
  <2> QED
    BY <1>1, <2>1
<1>3. CASE IsGet(q) \/ IsAdd(q)
  <2>1. RequestAt(p, i)
    BY <1>3, RequestIs
  <2>2. q.nums[1] \in Seq(STRING) /\ q.req.f1 \in Seq(STRING)
    BY <2>1 DEF RequestAt
  <2> DEFINE l == Len(q.nums[1])
             v == Len(q.req.f1)
  <2>3. x = b + 1 + 2 + l + v
    BY DEF TextEnd
  <2>4. l \in Nat /\ v \in Nat
    BY <2>2
  <2>5. x \in Nat /\ b + 2 <= x
    <3> HIDE DEF x, b, l, v
    <3> QED
      BY <1>1, <2>3, <2>4
  <2>6. CASE IsGet(q)
    <3>1. e = x
      BY <2>1, <2>6 DEF RequestAt
    <3> HIDE DEF x, e
    <3> QED
      BY <1>1, <2>5, <3>1 DEF e
  <2>7. CASE IsAdd(q)
    <3>1. /\ q.nums[2] \in Seq(STRING) /\ q.req.f2 \in Seq(STRING)
          /\ e = TextEnd(x, q.nums[2], q.req.f2)
      BY <2>1, <2>7 DEF RequestAt
    <3> DEFINE l2 == Len(q.nums[2])
               v2 == Len(q.req.f2)
    <3>2. l2 \in Nat /\ v2 \in Nat
      BY <3>1
    <3>3. e = x + 2 + l2 + v2
      BY <3>1 DEF TextEnd
    <3>4. e \in Nat /\ b + 2 <= e
      <4> HIDE DEF x, b, e, l2, v2
      <4> QED
        BY <1>1, <2>5, <3>2, <3>3
    <3> QED
      BY <1>1, <3>4
  <2> QED
    BY <1>3, <2>6, <2>7
<1> QED
  BY <1>1, <1>2, <1>3

\* A request is complete that a client sent, who has gone since: it did not wait, or
\* the request was taken to end too early.
LEMMA GoneAnswered ==
    ASSUME NEW k \in Client, NEW s, NEW c, Side(k, s), Link(s, c), Idle(c), s.st = "gone",
           NEW d \in ParseReq(c), FullReq(d)
    PROVE  Mark(s, c).ahead \/ Mark(s, c).torn
<1> DEFINE n == Len(s.ans)
<1> SUFFICES ASSUME ~Mark(s, c).ahead, ~Mark(s, c).torn PROVE FALSE
  OBVIOUS
<1>1. ~s.ahead
  BY MarkIs DEF Side
<1>2. /\ ~s.torn /\ n \in 0..Len(s.plan) /\ Aligned(s.plan, n, d)
      /\ ConnOK(d) /\ SameData(c, d)
  BY ParsedOK
<1>3. Planned(s.plan) /\ Len(s.plan) \in Nat /\ Stream(s.plan) \in Seq(STRING)
  BY SidePlanned
<1>4. n + 1 \in 1..Len(s.plan) /\ d.pos = End(s.plan, n + 1)
  BY <1>2, <1>3, AskedIs
<1>5. s.sent <= End(s.plan, n)
  BY <1>1, <1>2 DEF Side
<1>6. d.pos \in 0..(Len(c.data) + 1) /\ Len(c.data) \in Nat
  BY <1>2 DEF ConnOK, SameData, Idle
<1>7. Len(c.data) <= s.sent /\ s.sent \in Nat
  <2>1. Len(Stream(s.plan)) \in Nat
    BY <1>3
  <2> QED
    BY <2>1 DEF Link, Side
<1>8. n \in 0..(Len(s.plan) - 1)
  BY <1>2, <1>3, <1>4
<1> DEFINE a == End(s.plan, n)
           b == End(s.plan, n + 1)
<1>9. a \in Nat /\ b \in Nat /\ a + 2 <= b
  BY <1>3, <1>8, ItemRoom
<1>10. d.pos = b /\ s.sent <= a
  BY <1>4, <1>5
<1> HIDE DEF a, b, n
<1> QED
  BY <1>6, <1>7, <1>9, <1>10

\* Blocks are counted as bytes are.
LEMMA Blocks ==
    ASSUME NEW a \in Nat, NEW b \in Nat, a <= b
    PROVE  /\ a \div BUFBLK_SIZE \in Nat /\ b \div BUFBLK_SIZE \in Nat
           /\ a \div BUFBLK_SIZE <= b \div BUFBLK_SIZE
<1>1. BUFBLK_SIZE \in Nat \ {0}
  BY ParserAssumption
<1> QED
  BY <1>1

LEMMA ServedLink ==
    ASSUME NEW k \in Client, NEW s, NEW c, Side(k, s), Link(s, c), Idle(c), s.st # "new",
           NEW d \in ParseReq(c), d.ret # "crash", FullReq(d), d.rst # "BAD_REQUEST",
           NEW st \in AfterSend(s.st)
    PROVE  Idle(UpdateConn(d)) /\ Link(Answered(Mark(s, c), d, st), UpdateConn(d))
<1> DEFINE m == Mark(s, c)
           t == Answered(m, d, st)
           e == UpdateConn(d)
           n == Len(s.ans)
<1>1. /\ t.plan = s.plan /\ t.sent = s.sent /\ t.torn = m.torn /\ t.edge = m.edge
      /\ t.ahead = s.ahead /\ Len(t.ans) = n + 1
  BY ServedSide
<1>2. /\ ConnOK(d) /\ SameData(c, d)
      /\ d.node = "null" => m.edge /\ d.pos % BUFBLK_SIZE = 0
      /\ ~m.torn => ~s.torn /\ n \in 0..Len(s.plan) /\ Aligned(s.plan, n, d)
  BY ParsedOK
<1>3. d.st = "DONE"
  BY <1>2 DEF FullReq, ConnOK
<1>4. /\ IsConn(e) /\ e.data = d.data /\ e.first = CurrBuf(d) /\ e.node = d.node /\ e.pos = d.pos
      /\ e.st = "NEW" /\ e.rst = "OK"
  <2>1. IsConn(d)
    BY <1>2 DEF ConnOK
  <2> DEFINE u == [d EXCEPT !.st = "NEW", !.rst = "OK", !.len1 = 0, !.len2 = 0,
                            !.meth = "", !.f1 = <<>>, !.f2 = <<>>]
  <2>2. /\ IsConn(u) /\ u.data = d.data /\ u.node = d.node /\ u.pos = d.pos
        /\ u.st = "NEW" /\ u.rst = "OK"
    BY <2>1 DEF IsConn, ConnFields
  <2>3. e = [u EXCEPT !.first = CurrBuf(u)]
    BY DEF UpdateConn, FreeBuf
  <2>4. CurrBuf(u) = CurrBuf(d)
    BY <2>2 DEF CurrBuf
  <2> HIDE DEF u, e
  <2> QED
    BY <2>2, <2>3, <2>4 DEF IsConn, ConnFields
<1>5. e.data = c.data /\ e.first = Len(c.data) \div BUFBLK_SIZE
  BY <1>2, <1>4 DEF SameData, CurrBuf
<1>6. c.data \in Seq(STRING) /\ Len(c.data) \in Nat
  BY DEF Idle, ConnOK
<1> HIDE DEF m, t, e
<1>7. e.first \in Nat
  <2>1. Len(c.data) \div BUFBLK_SIZE \in Nat
    BY <1>6, Blocks
  <2> QED
    BY <1>5, <2>1
<1>8. Idle(e)
  BY <1>2, <1>4, <1>7 DEF Idle, ConnOK
<1>9. ASSUME ~t.torn
      PROVE  /\ Aligned(s.plan, n + 1, e)
             /\ ~t.ahead => e.first <= End(s.plan, n + 1) \div BUFBLK_SIZE
  <2>1. ~s.torn /\ n \in 0..Len(s.plan) /\ Aligned(s.plan, n, d)
    BY <1>1, <1>2, <1>9
  <2>2. /\ Planned(s.plan) /\ LaidOut(s.plan) /\ Len(s.plan) \in Nat /\ n \in Nat
        /\ Due(s) \in 0..Len(s.plan) /\ Due(s) \in {n + 1, Len(s.plan)} /\ Due(s) <= n + 1
    BY SidePlanned
  <2>3. n + 1 \in 1..Len(s.plan) /\ d.pos = End(s.plan, n + 1)
    BY <1>2, <1>3, <2>1, <2>2, AskedIs
  <2>4. Aligned(s.plan, n + 1, e)
    BY <1>4, <2>3 DEF Aligned
  <2>5. ASSUME ~t.ahead PROVE e.first <= End(s.plan, n + 1) \div BUFBLK_SIZE
    <3> DEFINE a == Len(c.data)
               b == End(s.plan, n + 1)
    <3>1. Due(s) = n + 1
      BY <2>2, <2>3
    <3>2. s.sent <= b
      BY <1>1, <2>5, <3>1 DEF Side
    <3>3. s.sent \in Nat /\ b \in Nat
      <4>1. Len(Stream(s.plan)) \in Nat
        BY <2>2 DEF LaidOut
      <4> QED
        BY <2>2, <2>3, <4>1 DEF Side, LaidOut
    <3>4. a <= s.sent
      BY DEF Link
    <3>5. e.first = a \div BUFBLK_SIZE /\ a \in Nat
      BY <1>5, <1>6
    <3> HIDE DEF a, b
    <3>6. a <= b
      BY <3>2, <3>3, <3>4, <3>5
    <3>7. a \div BUFBLK_SIZE <= b \div BUFBLK_SIZE
      BY <3>3, <3>5, <3>6, Blocks
    <3> QED
      BY <3>5, <3>7 DEF b
  <2> QED
    BY <2>4, <2>5
<1>10. Link(t, e)
  <2>1. Len(e.data) <= t.sent /\ \A x \in 1..Len(e.data) : e.data[x] = Stream(t.plan)[x]
    BY <1>1, <1>5 DEF Link
  <2>2. e.node = "null" => t.edge
    BY <1>1, <1>2, <1>4
  <2> QED
    BY <1>1, <1>9, <2>1, <2>2 DEF Link
<1> QED
  BY <1>8, <1>10 DEF t, m, e

\* The parser is not before the request it is in.
LEMMA AlignedPos ==
    ASSUME NEW p, Planned(p), NEW i \in 0..Len(p), NEW c, Aligned(p, i, c),
           c.st \notin {"DONE", "ERROR"}
    PROVE  End(p, i) \in Nat /\ End(p, i) <= c.pos
<1>1. Len(p) \in Nat /\ End(p, i) \in Nat
  <2>1. p \in Seq(Item)
    BY DEF Planned
  <2>2. LaidOut(p) /\ Len(p) \in Nat
    BY <2>1, PlanLaidOut
  <2>3. Len(Stream(p)) \in Nat /\ End(p, i) \in 0..Len(Stream(p))
    BY <2>2 DEF LaidOut
  <2> QED
    BY <2>2, <2>3
<1>2. CASE c.st = "NEW" /\ c.pos = End(p, i)
  BY <1>1, <1>2
<1>3. CASE i < Len(p) /\ (IsGet(p[i + 1]) \/ IsAdd(p[i + 1])) /\ Halfway(p, i, c)
  <2> DEFINE q == p[i + 1]
             b == End(p, i)
             l1 == Len(q.nums[1])
             v1 == Len(q.req.f1)
             l2 == Len(q.nums[2])
  <2>1. i \in 0..(Len(p) - 1)
    BY <1>1, <1>3
  <2>2. RequestAt(p, i)
    BY <1>3, <2>1, RequestIs
  <2>3. l1 \in Nat /\ v1 \in Nat /\ (IsAdd(q) => l2 \in Nat)
    BY <2>2 DEF RequestAt
  <2>4. \/ c.pos = b + 2 \/ c.pos = b + 1 + 2 + l1
        \/ c.pos = b + 1 + 2 + l1 + v1
        \/ IsAdd(q) /\ c.pos = b + 1 + 2 + l1 + v1 + 2 + l2
    BY <1>3 DEF Halfway, TextEnd
  <2> HIDE DEF q, b, l1, v1, l2
  <2>5. b \in Nat
    BY <1>1 DEF b
  <2>6. b <= c.pos
    BY <2>3, <2>4, <2>5
  <2> QED
    BY <1>1, <2>6 DEF b
<1> QED
  BY <1>2, <1>3 DEF Aligned

\* Blocks are freed too early only under one of the circumstances.
LEMMA DanglingOK ==
    ASSUME NEW k \in Client, NEW s, NEW c, Side(k, s), Link(s, c), Idle(c), Dangling(c)
    PROVE  Mark(s, c).torn \/ Mark(s, c).ahead
<1> SUFFICES ASSUME ~Mark(s, c).torn, ~Mark(s, c).ahead PROVE FALSE
  OBVIOUS
<1>1. ~s.torn /\ ~s.ahead /\ Synced(s.plan, c)
  <2>1. Mark(s, c).ahead = s.ahead
    BY MarkIs DEF Side
  <2> QED
    BY <2>1, MarkedSynced
<1> DEFINE n == Len(s.ans)
           b == End(s.plan, n)
<1>2. n \in 0..Len(s.plan) /\ Planned(s.plan)
  BY <1>1, SidePlanned DEF Side, Replies
<1>3. Aligned(s.plan, n, c) /\ c.first <= b \div BUFBLK_SIZE
  BY <1>1 DEF Link
<1>4. b \in Nat /\ b <= c.pos
  BY <1>2, <1>3, AlignedPos DEF Idle
<1>5. c.pos \in Nat /\ c.first \in Nat
  <2>1. Len(c.data) \in Nat
    BY DEF Idle, ConnOK
  <2> QED
    BY <2>1 DEF Idle, ConnOK
<1>6. /\ b \div BUFBLK_SIZE \in Nat /\ c.pos \div BUFBLK_SIZE \in Nat
      /\ b \div BUFBLK_SIZE <= c.pos \div BUFBLK_SIZE
  BY <1>4, <1>5, Blocks
<1> HIDE DEF b
<1> QED
  BY <1>3, <1>5, <1>6 DEF Dangling, b

\* Bytes are received.
LEMMA ReceivedOK ==
    ASSUME NEW k \in Client, NEW s, NEW c, Side(k, s), Link(s, c), Idle(c),
           NEW n \in Nat, n <= s.sent - Len(c.data), NEW junk
    PROVE  LET from == Len(c.data)
               e    == Receive(c, SubSeq(Stream(s.plan), from + 1, from + n), junk)
           IN  Idle(e) /\ Link(s, e)
<1> DEFINE a == Len(c.data)
           t == Stream(s.plan)
           u == SubSeq(t, a + 1, a + n)
           e == Receive(c, u, junk)
<1>1. t \in Seq(STRING) /\ Len(t) \in Nat
  BY SidePlanned
<1>2. c.data \in Seq(STRING) /\ a \in Nat /\ s.sent \in Nat /\ s.sent <= Len(t) /\ a <= s.sent
  BY <1>1 DEF Idle, ConnOK, Side, Link
<1>3. a + n <= Len(t) /\ a + n <= s.sent
  BY <1>1, <1>2
<1>4. u \in Seq(STRING) /\ Len(u) = n /\ \A x \in 1..n : u[x] = t[a + x]
  BY <1>1, <1>2, <1>3
<1>5. c.data \o u \in Seq(STRING) /\ Joins(c.data, u, c.data \o u)
  BY <1>2, <1>4, ConcatJoins
<1>6. /\ IsConn(e) /\ e.data = c.data \o u /\ e.pos = c.pos /\ e.st = c.st /\ e.rst = c.rst
      /\ e.first = c.first /\ e.node = c.node /\ SamePlace(c, e)
  BY DEF Receive, Idle, ConnOK, IsConn, ConnFields, SamePlace
<1> HIDE DEF e, u, t
<1>7. /\ e.data \in Seq(STRING) /\ Len(e.data) = a + n
      /\ \A x \in 1..(a + n) : e.data[x] = t[x]
  <2>1. Len(e.data) = a + n
    BY <1>4, <1>5, <1>6 DEF Joins
  <2>2. ASSUME NEW x \in 1..(a + n) PROVE e.data[x] = t[x]
    <3>1. CASE x <= a
      <4>1. x \in 1..a
        BY <1>2, <3>1
      <4> QED
        BY <1>5, <1>6, <4>1 DEF Joins, Link, t
    <3>2. CASE x > a
      <4>1. x - a \in 1..n /\ a + (x - a) = x
        BY <1>2, <3>2
      <4> QED
        BY <1>4, <1>5, <1>6, <4>1 DEF Joins
    <3> QED
      BY <1>2, <3>1, <3>2
  <2> QED
    BY <1>5, <1>6, <2>1, <2>2
<1>8. Idle(e)
  <2>1. c.pos \in 0..(a + 1)
    BY DEF Idle, ConnOK
  <2>2. e.pos \in 0..(Len(e.data) + 1)
    BY <1>2, <1>6, <1>7, <2>1
  <2> QED
    BY <1>6, <1>7, <2>2 DEF Idle, ConnOK, SamePlace
<1>9. Link(s, e)
  <2>1. ~s.torn => Aligned(s.plan, Len(s.ans), e)
    BY <1>6, SameAligned DEF Link
  <2> QED
    BY <1>3, <1>6, <1>7, <2>1 DEF Link, t
<1> QED
  BY <1>8, <1>9 DEF e, u, t

-----------------------------------------------------------------------------
(* All connections and their clients.                                      *)

SetsOK ==
    /\ pc \in {"select", "read", "write", "down", "freed"}
    /\ toRead \subseteq Fd \cup {LcSock, RdSock}
    /\ toWrite \subseteq Fd \cup {RdSock}
    /\ wrset \subseteq Fd \cup {RdSock}
    /\ \A name \in files : Len(name) \in 1..Field1Max
    /\ queued \in BOOLEAN /\ dgrams \in 0..MaxDgram

\* A connection that nobody has is as create_clnt_info leaves it, and a client that
\* waits to be accepted has no answers.
ClientsOK ==
    /\ DOMAIN conn = Fd
    /\ \A f \in Fd : Idle(conn[f])
    /\ \A f \in Fd \ exist : conn[f] = NewConn
    /\ \A k \in Client : Side(k, sock[k])
    /\ \A k \in Client : Attached(k) => Link(sock[k], conn[sock[k].fd])
    /\ \A i \in DOMAIN backlog : sock[backlog[i]].ans = <<>>

LoopInv == SocketsOK /\ SetsOK /\ ClientsOK

\* The answers that are due begin with none.
LEMMA FirstDue ==
    ASSUME NEW k \in Client, NEW p \in Script(k)
    PROVE  /\ Len(Stream(p)) \in Nat /\ Len(p) \in Nat
           /\ \A i \in 0..Len(p) : End(p, i) \in 0..Len(Stream(p))
           /\ End(p, 0) = 0
<1>1. p \in Seq(Item)
  BY Scripted DEF Planned
<1>2. LaidOut(p) /\ Len(p) \in Nat
  BY <1>1, PlanLaidOut
<1>3. Stream(p) \in Seq(STRING)
  BY <1>2 DEF LaidOut
<1>4. Len(Stream(p)) \in Nat
  BY <1>3
<1> QED
  BY <1>2, <1>4 DEF LaidOut

LEMMA NoAnswers == IsAnswers(<<>>) /\ Len(<<>>) = 0
<1>1. Len(<<>>) = 0 /\ DOMAIN <<>> = 1..0 /\ <<>> = [j \in 1..0 |-> <<>>[j]]
  OBVIOUS
<1> QED
  BY <1>1 DEF IsAnswers

\* A client's side before anything was sent on the connection.
LEMMA FreshSide ==
    ASSUME NEW k \in Client, NEW s, IsSock(s), s.plan \in Script(k),
           s.sent = 0, s.ans = <<>>, s.st \in SockStates
    PROVE  Side(k, s)
<1>1. /\ Len(Stream(s.plan)) \in Nat /\ Len(s.plan) \in Nat
      /\ \A i \in 0..Len(s.plan) : End(s.plan, i) \in 0..Len(Stream(s.plan))
  BY FirstDue
<1>2. Due(s) \in 0..Len(s.plan)
  <2>1. Due(s) = Min({1, Len(s.plan)})
    BY NoAnswers DEF Due
  <2>2. {1, Len(s.plan)} \in SUBSET Nat
    BY <1>1
  <2>3. Due(s) \in {1, Len(s.plan)} /\ \A x \in {1, Len(s.plan)} : Due(s) <= x
    BY <2>1, <2>2, MinNat
  <2> QED
    BY <1>1, <2>3
<1>3. End(s.plan, Due(s)) \in 0..Len(Stream(s.plan))
  BY <1>1, <1>2
<1>4. s.sent <= End(s.plan, Due(s))
  BY <1>1, <1>3
<1>5. Replies(s)
  BY <1>1, NoAnswers DEF Replies
<1>6. 0 <= End(s.plan, 0)
  BY <1>1, FirstDue
<1> QED
  BY <1>1, <1>4, <1>5, <1>6, NoAnswers DEF Side

LEMMA NewIdle ==
    /\ Idle(NewConn)
    /\ NewConn.data = <<>> /\ NewConn.pos = 0 /\ NewConn.first = 0 /\ NewConn.st = "NEW"
    /\ NewConn.node = "block"
<1>1. /\ IsConn(NewConn) /\ NewConn.data = <<>> /\ NewConn.pos = 0 /\ NewConn.first = 0
      /\ NewConn.st = "NEW" /\ NewConn.rst = "OK" /\ NewConn.node = "block"
  BY DEF NewConn, IsConn, ConnFields
<1>2. <<>> \in Seq(STRING) /\ Len(<<>>) = 0
  OBVIOUS
<1> QED
  BY <1>1, <1>2 DEF Idle, ConnOK

LEMMA NewLink ==
    ASSUME NEW k \in Client, NEW s, Side(k, s), s.ans = <<>>
    PROVE  Link(s, NewConn)
<1>1. /\ Len(Stream(s.plan)) \in Nat /\ End(s.plan, 0) = 0
  <2>1. s.plan \in Script(k)
    BY DEF Side
  <2> QED
    BY <2>1, FirstDue
<1>2. Aligned(s.plan, 0, NewConn)
  BY <1>1, NewIdle DEF Aligned
<1>3. 0 <= End(s.plan, 0) \div BUFBLK_SIZE
  <2>1. 0 \div BUFBLK_SIZE \in Nat
    BY Blocks
  <2> QED
    BY <1>1, <2>1
<1>4. s.sent \in Nat
  BY <1>1 DEF Side
<1>5. Len(<<>>) = 0
  OBVIOUS
<1> QED
  BY <1>2, <1>3, <1>4, <1>5, NewIdle DEF Link

\* A step about one client: its side, and what the daemon has of it.
LEMMA OneClient ==
    ASSUME SocketsOK, ClientsOK, NEW k \in Client, UNCHANGED <<exist, backlog>>,
           Side(k, sock'[k]), sock'[k].fd = sock[k].fd,
           \A j \in Client \ {k} : sock'[j] = sock[j],
           DOMAIN conn' = Fd, \A g \in Fd : g # sock[k].fd => conn'[g] = conn[g],
           Attached(k) => /\ Idle(conn'[sock[k].fd])
                          /\ Link(sock'[k], conn'[sock[k].fd]),
           Attached(k) \/ sock'[k].ans = sock[k].ans
    PROVE  ClientsOK'
<1>1. /\ sock[k].fd \in Fd \cup {0} /\ (Attached(k) => sock[k].fd \in exist)
      /\ \A j \in Client : Attached(j) /\ sock[j].fd = sock[k].fd => j = k
      /\ \A i \in DOMAIN backlog : backlog[i] \in Client /\ ~Attached(backlog[i])
  BY DEF SocketsOK, SockType, BacklogOK, FdSetsMatch, Attached
<1>2. \A f \in Fd : Idle(conn'[f])
  BY Fds DEF ClientsOK, Attached
<1>3. \A f \in Fd \ exist' : conn'[f] = NewConn
  <2> SUFFICES ASSUME NEW f \in Fd \ exist' PROVE conn'[f] = NewConn
    OBVIOUS
  <2>1. f # sock[k].fd
    BY <1>1, Fds DEF Attached
  <2> QED
    BY <2>1 DEF ClientsOK
<1>4. \A j \in Client : Side(j, sock'[j])
  BY DEF ClientsOK
<1>5. ASSUME NEW j \in Client, Attached(j)' PROVE Link(sock'[j], conn'[sock'[j].fd])
  <2>1. CASE j = k
    BY <1>5, <2>1 DEF Attached
  <2>2. CASE j # k
    <3>1. sock'[j] = sock[j] /\ Attached(j)
      BY <1>5, <2>2 DEF Attached
    <3>2. sock[j].fd \in Fd /\ sock[j].fd # sock[k].fd
      BY <1>1, <2>2, <3>1 DEF SocketsOK, SockType, Attached
    <3> QED
      BY <3>1, <3>2 DEF ClientsOK
  <2> QED
    BY <2>1, <2>2
<1>6. \A i \in DOMAIN backlog' : sock'[backlog'[i]].ans = <<>>
  BY <1>1 DEF ClientsOK
<1> QED
  BY <1>2, <1>3, <1>4, <1>5, <1>6 DEF ClientsOK

\* A connection is given up.
LEMMA RemoveClient ==
    ASSUME SocketsOK, ClientsOK, NEW f \in Fd, f \in exist, NEW s, Side(ClientAt(f), s),
           RemoveClntInfo(f, ClientAt(f), s), UNCHANGED backlog
    PROVE  ClientsOK'
<1> DEFINE k == ClientAt(f)
<1>1. /\ k \in Client /\ sock[k].fd = f /\ f # 0
      /\ \A j \in Client : sock[j].fd = f => j = k
  BY ClientOf, Fds DEF SocketsOK
<1>2. /\ exist' = exist \ {f} /\ conn' = [conn EXCEPT ![f] = NewConn]
      /\ sock'[k] = [s EXCEPT !.fd = 0, !.st = "closed"]
      /\ \A j \in Client \ {k} : sock'[j] = sock[j]
  BY <1>1 DEF RemoveClntInfo, SocketsOK, SockType
<1> DEFINE t == [s EXCEPT !.fd = 0, !.st = "closed"]
<1>3. /\ IsSock(t) /\ t.fd = 0 /\ t.st = "closed" /\ t.plan = s.plan /\ t.sent = s.sent
      /\ t.ans = s.ans /\ t.ahead = s.ahead /\ t.torn = s.torn
  BY DEF Side, IsSock, SockFields
<1> HIDE DEF t
<1>4. Side(k, t)
  <2>1. Due(t) = Due(s) /\ (Replies(s) => Replies(t))
    BY <1>3 DEF Due, Replies
  <2> QED
    BY <1>3, <2>1 DEF Side, SockStates
<1> HIDE DEF k
<1>5. /\ DOMAIN conn' = Fd /\ conn'[f] = NewConn
      /\ \A g \in Fd \ {f} : conn'[g] = conn[g]
  BY <1>2 DEF ClientsOK
<1>6. \A g \in Fd : Idle(conn'[g])
  BY <1>5, NewIdle DEF ClientsOK
<1>7. \A g \in Fd \ exist' : conn'[g] = NewConn
  BY <1>2, <1>5 DEF ClientsOK
<1>8. \A j \in Client : Side(j, sock'[j])
  BY <1>2, <1>3, <1>4 DEF ClientsOK, t
<1>9. ASSUME NEW j \in Client, Attached(j)' PROVE Link(sock'[j], conn'[sock'[j].fd])
  <2>1. j # k
    BY <1>2, <1>3, <1>9 DEF Attached, t
  <2>2. sock'[j] = sock[j] /\ Attached(j)
    BY <1>2, <1>9, <2>1 DEF Attached
  <2>3. sock[j].fd \in Fd \ {f}
    BY <1>1, <2>1, <2>2 DEF SocketsOK, SockType, Attached
  <2> QED
    BY <1>5, <2>2, <2>3 DEF ClientsOK
<1>10. \A i \in DOMAIN backlog' : sock'[backlog'[i]].ans = <<>>
  <2>1. \A i \in DOMAIN backlog : backlog[i] \in Client \ {k}
    BY <1>1 DEF SocketsOK, BacklogOK
  <2> QED
    BY <1>2, <2>1 DEF ClientsOK
<1> QED
  BY <1>5, <1>6, <1>7, <1>8, <1>9, <1>10 DEF ClientsOK

\* The first client that waits gets a descriptor.
LEMMA AcceptClient ==
    ASSUME SocketsOK, ClientsOK, AcceptNew
    PROVE  ClientsOK'
<1>1. backlog # <<>>
  BY DEF SocketsOK, BacklogOK, AcceptNew, Reading, NextFd
<1>2. CASE Fd \subseteq exist
  BY <1>2 DEF AcceptNew, ClientsOK, Attached
<1>3. CASE ~(Fd \subseteq exist)
  <2> DEFINE f == Min(Fd \ exist)
             k == Head(backlog)
             s == sock[k]
             t == [s EXCEPT !.fd = f]
  <2>1. f \in Fd \ exist /\ f # 0
    BY <1>3, MinFd, Fds
  <2>2. /\ k \in Client /\ k = backlog[1] /\ 1 \in DOMAIN backlog
        /\ \A i \in DOMAIN backlog' : /\ i + 1 \in DOMAIN backlog /\ i + 1 # 1
                                      /\ backlog'[i] = backlog[i + 1]
                                      /\ backlog[i + 1] \in Client
    <3>1. backlog' = Tail(backlog)
      BY <1>3 DEF AcceptNew
    <3>2. backlog \in Seq(Client) /\ Len(backlog) > 0
      BY <1>1 DEF SocketsOK, BacklogOK
    <3>3. k = backlog[1] /\ k \in Client /\ 1 \in DOMAIN backlog
      BY <3>2
    <3>4. backlog' \in Seq(Client) /\ Len(backlog') = Len(backlog) - 1
      BY <3>1, <3>2
    <3>5. \A i \in DOMAIN backlog' : backlog'[i] = backlog[i + 1] /\ i \in Nat \ {0}
      BY <3>1, <3>2, <3>4
    <3>6. \A i \in DOMAIN backlog' : i + 1 \in DOMAIN backlog /\ backlog[i + 1] \in Client
      BY <3>2, <3>4
    <3>7. \A i \in DOMAIN backlog' : i + 1 # 1
      BY <3>5
    <3> QED
      BY <3>3, <3>5, <3>6, <3>7
  <2>3. /\ exist' = exist \cup {f} /\ conn' = conn
        /\ sock' = [sock EXCEPT ![k] = t]
    BY <1>3 DEF AcceptNew, CreateClntInfo
  <2>4. s.fd = 0 /\ Side(k, s) /\ s.ans = <<>>
    BY <1>1, <2>2 DEF SocketsOK, BacklogOK, ClientsOK
  <2>5. /\ IsSock(t) /\ t.fd = f /\ t.st = s.st /\ t.plan = s.plan /\ t.sent = s.sent
        /\ t.ans = s.ans /\ t.ahead = s.ahead /\ t.torn = s.torn
    BY <2>4 DEF Side, IsSock, SockFields
  <2> HIDE DEF t
  <2>6. Side(k, t)
    <3>1. Due(t) = Due(s) /\ (Replies(s) => Replies(t))
      BY <2>5 DEF Due, Replies
    <3> QED
      BY <2>4, <2>5, <3>1 DEF Side
  <2>7. conn[f] = NewConn
    BY <2>1 DEF ClientsOK
  <2>8. Link(t, NewConn)
    BY <2>2, <2>4, <2>5, <2>6, NewLink
  <2> HIDE DEF f, k, s
  <2>9. /\ DOMAIN conn' = Fd /\ (\A g \in Fd : Idle(conn'[g]))
        /\ \A g \in Fd \ exist' : conn'[g] = NewConn
    BY <2>3 DEF ClientsOK
  <2>10. sock'[k] = t /\ \A j \in Client \ {k} : sock'[j] = sock[j]
    BY <2>2, <2>3 DEF SocketsOK, SockType
  <2>11. \A j \in Client : Side(j, sock'[j])
    BY <2>6, <2>10 DEF ClientsOK
  <2>12. ASSUME NEW j \in Client, Attached(j)' PROVE Link(sock'[j], conn'[sock'[j].fd])
    <3>1. CASE j = k
      BY <2>3, <2>5, <2>7, <2>8, <2>10, <3>1
    <3>2. CASE j # k
      <4>1. sock'[j] = sock[j] /\ Attached(j)
        BY <2>10, <2>12, <3>2 DEF Attached
      <4> QED
        BY <2>3, <4>1 DEF ClientsOK
    <3> QED
      BY <3>1, <3>2
  <2>13. \A i \in DOMAIN backlog' : sock'[backlog'[i]].ans = <<>>
    <3>1. \A i \in DOMAIN backlog' : backlog'[i] \in Client \ {k}
      BY <1>1, <2>2 DEF SocketsOK, BacklogOK
    <3> QED
      BY <2>2, <2>10, <3>1 DEF ClientsOK
  <2> QED
    BY <2>9, <2>11, <2>12, <2>13 DEF ClientsOK
<1> QED
  BY <1>2, <1>3

\* A client connects.
LEMMA ConnectClient ==
    ASSUME SocketsOK, ClientsOK, NEW k \in Client, Connect(k)
    PROVE  ClientsOK'
<1> DEFINE s == sock[k]
<1>1. /\ s.st = "new" /\ s.fd = 0 /\ Side(k, s) /\ UNCHANGED <<exist, conn>>
      /\ backlog' = Append(backlog, k)
  BY DEF Connect, SocketsOK, BacklogOK, ClientsOK, daemonVars
<1>2. IsSock(s) /\ s.ans = <<>> /\ s.sent = 0
  BY <1>1 DEF Side
<1> DEFINE t == [s EXCEPT !.st = "open"]
<1>4. sock' = [sock EXCEPT ![k] = t]
  BY DEF Connect
<1>5. /\ IsSock(t) /\ t.fd = s.fd /\ t.st = "open" /\ t.plan = s.plan
      /\ t.sent = s.sent /\ t.ans = s.ans
  BY <1>2 DEF IsSock, SockFields
<1> HIDE DEF t, s
<1>6. Side(k, t)
  <2>1. s.plan \in Script(k) /\ t.st \in SockStates
    BY <1>1, <1>5 DEF Side, SockStates
  <2> QED
    BY <1>2, <1>5, <2>1, FreshSide
<1>7. sock'[k] = t /\ \A j \in Client \ {k} : sock'[j] = sock[j]
  BY <1>4 DEF SocketsOK, SockType
<1>8. /\ \A j \in Client : Side(j, sock'[j])
      /\ \A j \in Client : Attached(j)' => Attached(j) /\ sock'[j] = sock[j]
  BY <1>1, <1>5, <1>6, <1>7 DEF ClientsOK, Attached
<1>9. \A i \in DOMAIN backlog' : sock'[backlog'[i]].ans = <<>>
  <2>1. /\ backlog \in Seq(Client) /\ Len(backlog) \in Nat
        /\ \A i \in DOMAIN backlog : backlog[i] \in Client \ {k}
    BY <1>1 DEF SocketsOK, BacklogOK, s
  <2>2. /\ DOMAIN backlog' = DOMAIN backlog \cup {Len(backlog) + 1}
        /\ backlog'[Len(backlog) + 1] = k
        /\ \A i \in DOMAIN backlog : backlog'[i] = backlog[i]
    BY <1>1, <2>1
  <2> QED
    BY <1>2, <1>5, <1>7, <2>1, <2>2 DEF ClientsOK
<1> QED
  BY <1>1, <1>8, <1>9 DEF ClientsOK

\* A client sends, closes or resets.
LEMMA ClientActs ==
    ASSUME SocketsOK, ClientsOK, NEW k \in Client, Send(k) \/ Close(k) \/ Reset(k)
    PROVE  ClientsOK'
<1> DEFINE s == sock[k]
<1>1. /\ IsSock(s) /\ s.st = "open" /\ Side(k, s)
      /\ UNCHANGED <<exist, backlog, conn>>
  BY DEF SocketsOK, SockType, BacklogOK, ClientsOK, Send, Close, Reset, Attached, daemonVars
<1>2. \E t : /\ Side(k, t) /\ t.fd = s.fd /\ t.ans = s.ans
             /\ \A c : Link(s, c) => Link(t, c)
             /\ sock' = [sock EXCEPT ![k] = t]
  <2>1. CASE Send(k)
    <3> DEFINE due == Due(s)
               B == (s.sent + 1)..End(s.plan, IF Pipelining THEN Len(s.plan) ELSE due)
    <3>1. PICK n \in (Cuts(s.plan) \cup Ends(s.plan)) \cap B :
             sock' = [sock EXCEPT ![k].sent = n, ![k].ahead = @ \/ n > End(s.plan, due)]
      BY <2>1 DEF Send, Due
    <3> DEFINE ahead == s.ahead \/ n > End(s.plan, due)
               t == [s EXCEPT !.sent = n, !.ahead = ahead]
    <3>2. sock' = [sock EXCEPT ![k] = t]
      BY <3>1
    <3>3. /\ IsSock(t) /\ t.fd = s.fd /\ t.st = s.st /\ t.plan = s.plan /\ t.sent = n
          /\ t.ans = s.ans /\ t.ahead = ahead /\ t.torn = s.torn /\ t.edge = s.edge
      BY <1>1 DEF IsSock, SockFields
    <3>4. /\ Len(Stream(s.plan)) \in Nat /\ Len(s.plan) \in Nat
          /\ \A i \in 0..Len(s.plan) : End(s.plan, i) \in 0..Len(Stream(s.plan))
          /\ due \in 0..Len(s.plan)
      <4>1. s.plan \in Script(k)
        BY <1>1 DEF Side
      <4> QED
        BY <1>1, <4>1, FirstDue, SidePlanned
    <3>5. s.sent \in Nat /\ End(s.plan, due) \in Nat
      BY <1>1, <3>4 DEF Side
    <3>6. n \in 0..Len(Stream(s.plan)) /\ s.sent <= n
      <4> DEFINE i == IF Pipelining THEN Len(s.plan) ELSE due
                 b == End(s.plan, i)
      <4>1. i \in 0..Len(s.plan)
        BY <3>4
      <4>2. b \in 0..Len(Stream(s.plan))
        BY <3>4, <4>1
      <4>3. n \in (s.sent + 1)..b
        BY <3>1
      <4> HIDE DEF b
      <4> QED
        BY <3>4, <3>5, <4>2, <4>3
    <3>7. ASSUME ~t.ahead PROVE ~s.ahead /\ t.sent <= End(s.plan, due)
      <4>1. ~s.ahead /\ ~(n > End(s.plan, due))
        <5> HIDE DEF t, s, due
        <5>1. t.ahead = (s.ahead \/ n > End(s.plan, due))
          BY <3>3
        <5> QED
          BY <3>7, <5>1
      <4> DEFINE e == End(s.plan, due)
      <4>2. n \in Nat /\ e \in Nat /\ ~(n > e) /\ t.sent = n
        BY <3>3, <3>4, <3>5, <3>6, <4>1
      <4> HIDE DEF e, t
      <4>3. t.sent <= e
        BY <4>2
      <4> QED
        BY <4>1, <4>3 DEF e
    <3> HIDE DEF t, s
    <3>8. Due(t) = due /\ (Replies(s) => Replies(t))
      BY <3>3 DEF Due, Replies
    <3>9. Side(k, t)
      BY <1>1, <3>3, <3>6, <3>7, <3>8 DEF Side, SockStates, s
    <3>10. ASSUME NEW c, Link(s, c) PROVE Link(t, c)
      <4>1. Len(c.data) <= t.sent
        <5>1. Len(c.data) <= s.sent
          BY <3>10 DEF Link
        <5> QED
          BY <3>3, <3>5, <3>6, <5>1
      <4> QED
        BY <3>3, <3>7, <3>10, <4>1 DEF Link
    <3> QED
      BY <3>2, <3>3, <3>9, <3>10
  <2>2. CASE Close(k) \/ Reset(k)
    <3>1. PICK st \in {"eof", "reset"} : sock' = [sock EXCEPT ![k].st = st]
      BY <2>2 DEF Close, Reset
    <3> DEFINE t == [s EXCEPT !.st = st]
    <3>2. sock' = [sock EXCEPT ![k] = t]
      BY <3>1
    <3>3. /\ IsSock(t) /\ t.fd = s.fd /\ t.st = st /\ t.plan = s.plan /\ t.sent = s.sent
          /\ t.ans = s.ans /\ t.ahead = s.ahead /\ t.torn = s.torn /\ t.edge = s.edge
      BY <1>1 DEF IsSock, SockFields
    <3> HIDE DEF t, s
    <3>4. Due(t) = Due(s) /\ (Replies(s) => Replies(t))
      BY <3>3 DEF Due, Replies
    <3>5. Side(k, t)
      BY <1>1, <3>1, <3>3, <3>4 DEF Side, SockStates
    <3>6. \A c : Link(s, c) => Link(t, c)
      BY <3>3 DEF Link
    <3> QED
      BY <3>2, <3>3, <3>5, <3>6
  <2> QED
    BY <2>1, <2>2
<1>3. PICK t : /\ Side(k, t) /\ t.fd = s.fd /\ t.ans = s.ans
               /\ \A c : Link(s, c) => Link(t, c)
               /\ sock' = [sock EXCEPT ![k] = t]
  BY <1>2
<1>4. sock'[k] = t /\ \A j \in Client \ {k} : sock'[j] = sock[j]
  BY <1>3 DEF SocketsOK, SockType
<1>5. Attached(k) => /\ Idle(conn'[sock[k].fd]) /\ Link(sock'[k], conn'[sock[k].fd])
  <2>1. Attached(k) => sock[k].fd \in Fd
    BY DEF SocketsOK, SockType, Attached
  <2> QED
    BY <1>1, <1>3, <1>4, <2>1 DEF ClientsOK
<1>6. DOMAIN conn' = Fd /\ \A g \in Fd : g # sock[k].fd => conn'[g] = conn[g]
  BY <1>1 DEF ClientsOK
<1> QED
  BY <1>1, <1>3, <1>4, <1>5, <1>6, OneClient

\* A connection is handled for reading.
LEMMA RecvClient ==
    ASSUME SocketsOK, ClientsOK, NEW f \in Fd, RecvData(f) \/ PeerClosed(f) \/ PeerReset(f)
    PROVE  ClientsOK'
<1> DEFINE k == ClientAt(f)
           s == sock[k]
           c == conn[f]
<1>1. /\ f \in exist /\ k \in Client /\ s.fd = f /\ Attached(k)
      /\ \A j \in Client : sock[j].fd = f => j = k
  <2>1. f \in exist
    BY DEF RecvData, PeerClosed, PeerReset, Reading, NextFd
  <2> QED
    BY <2>1, ClientOf, Fds DEF SocketsOK, Attached
<1>2. Side(k, s) /\ Link(s, c) /\ Idle(c)
  BY <1>1 DEF ClientsOK
<1>3. CASE RecvData(f)
  <2> DEFINE n == Min({Avail(k), Room(c)})
             from == Len(c.data)
  <2>1. PICK junk \in Junk :
           conn' = [conn EXCEPT ![f] = Receive(@,
                       SubSeq(Stream(s.plan), from + 1, from + n), junk)]
    BY <1>3 DEF RecvData
  <2>2. n \in Nat /\ n <= s.sent - from
    <3>1. from \in Nat /\ s.sent \in Nat /\ from <= s.sent
      <4>1. Len(Stream(s.plan)) \in Nat
        BY <1>1, <1>2, SidePlanned
      <4> QED
        BY <1>2, <4>1 DEF Side, Link, Idle, ConnOK
    <3>2. Avail(k) = s.sent - from
      BY <1>1 DEF Avail
    <3> HIDE DEF from, s
    <3>3. Avail(k) \in Nat
      BY <3>1, <3>2
    <3>4. Room(c) \in Nat
      <4>1. BUFBLK_SIZE \in Nat \ {0}
        BY ParserAssumption
      <4>2. from % BUFBLK_SIZE \in 0..(BUFBLK_SIZE - 1)
        BY <3>1, <4>1
      <4>3. Room(c) = BUFBLK_SIZE - (from % BUFBLK_SIZE)
        BY DEF Room, from
      <4> QED
        BY <4>1, <4>2, <4>3
    <3>5. {Avail(k), Room(c)} \in SUBSET Nat
      BY <3>3, <3>4
    <3>6. n \in {Avail(k), Room(c)} /\ \A x \in {Avail(k), Room(c)} : n <= x
      BY <3>5, MinNat
    <3> QED
      BY <3>2, <3>3, <3>4, <3>6
  <2> DEFINE d == Receive(c, SubSeq(Stream(s.plan), from + 1, from + n), junk)
  <2>3. Idle(d) /\ Link(s, d)
    <3> HIDE DEF n, s, c
    <3> QED
      BY <1>1, <1>2, <2>2, ReceivedOK
  <2>4. conn' = [conn EXCEPT ![f] = d] /\ UNCHANGED <<sock, exist, backlog>>
    BY <1>3, <2>1 DEF RecvData
  <2> HIDE DEF d
  <2>5. /\ DOMAIN conn' = Fd /\ conn'[f] = d
        /\ \A g \in Fd : g # f => conn'[g] = conn[g]
    BY <2>4 DEF ClientsOK
  <2> QED
    BY <1>1, <1>2, <2>3, <2>4, <2>5, OneClient
<1>4. CASE PeerClosed(f)
  <2>1. IsSock(NoSock)
    BY DEF NoSock, IsSock, SockFields
  <2>2. NoSock.plan = <<>> /\ NoSock.sent = 0 /\ NoSock.ans = <<>> /\ NoSock.st = "new"
    BY DEF NoSock
  <2>3. Side(k, NoSock)
    BY <1>1, <2>1, <2>2, FreshSide DEF Script, SockStates
  <2> QED
    BY <1>1, <1>4, <2>3, RemoveClient DEF PeerClosed
<1>5. CASE PeerReset(f)
  BY <1>5 DEF PeerReset, ClientsOK, Attached, daemonVars
<1> QED
  BY <1>3, <1>4, <1>5

\* A connection is handled for writing.
LEMMA WriteClient ==
    ASSUME SocketsOK, ClientsOK, NEW f \in Fd, WriteConn(f)
    PROVE  ClientsOK'
<1> DEFINE k == ClientAt(f)
           s == sock[k]
           c == conn[f]
           m == Mark(s, c)
<1>1. /\ f \in exist /\ k \in Client /\ s.fd = f /\ Attached(k) /\ s.st # "new"
      /\ \A j \in Client : sock[j].fd = f => j = k
  <2>1. f \in exist
    BY DEF WriteConn, Writing, NextFd
  <2>2. k \in Client /\ s.fd = f /\ \A j \in Client : sock[j].fd = f => j = k
    BY <2>1, ClientOf DEF SocketsOK
  <2> QED
    BY <2>1, <2>2, Fds DEF Attached, SocketsOK, BacklogOK
<1>2. Side(k, s) /\ Link(s, c) /\ Idle(c)
  BY <1>1 DEF ClientsOK
<1>3. PICK d \in ParseReq(c) :
         ServeRequest(f, d) \/ SigPipe(f, d) \/ NoFullReq(f, d) \/ ParserLost(f, d)
  BY DEF WriteConn
<1>4. /\ Side(k, m) /\ Link(m, c) /\ m.fd = s.fd /\ m.ans = s.ans
  <2>1. Side(k, m) /\ Link(m, c)
    BY <1>1, <1>2, MarkedSide
  <2>2. m.fd = s.fd /\ m.ans = s.ans
    BY <1>2, MarkIs DEF Side
  <2> QED
    BY <2>1, <2>2
<1>5. CASE NoFullReq(f, d)
  <2> DEFINE e == Waiting(d)
  <2>1. Idle(e) /\ Link(m, e)
    BY <1>1, <1>2, <1>5, WaitingOK DEF NoFullReq
  <2>2. /\ conn' = [conn EXCEPT ![f] = e] /\ sock' = [sock EXCEPT ![k] = m]
        /\ UNCHANGED <<exist, backlog>>
    BY <1>5 DEF NoFullReq
  <2> HIDE DEF e, m
  <2>3. /\ DOMAIN conn' = Fd /\ conn'[f] = e
        /\ \A g \in Fd : g # f => conn'[g] = conn[g]
        /\ sock'[k] = m /\ \A j \in Client \ {k} : sock'[j] = sock[j]
    BY <1>1, <2>2 DEF ClientsOK, SocketsOK, SockType
  <2> QED
    BY <1>1, <1>4, <2>1, <2>2, <2>3, OneClient
<1>6. CASE SigPipe(f, d) \/ ParserLost(f, d)
  <2>1. sock' = [sock EXCEPT ![k] = m] /\ UNCHANGED <<conn, exist, backlog>>
    BY <1>6 DEF SigPipe, ParserLost, daemonVars
  <2> HIDE DEF m
  <2>2. sock'[k] = m /\ \A j \in Client \ {k} : sock'[j] = sock[j]
    BY <1>1, <2>1 DEF SocketsOK, SockType
  <2>3. DOMAIN conn' = Fd /\ \A g \in Fd : g # f => conn'[g] = conn[g]
    BY <2>1 DEF ClientsOK
  <2> QED
    BY <1>1, <1>2, <1>4, <2>1, <2>2, <2>3, OneClient
<1>7. CASE ServeRequest(f, d)
  <2>5. PICK st \in AfterSend(s.st) :
           IF d.rst = "BAD_REQUEST" THEN RemoveClntInfo(f, k, Answered(m, d, st))
           ELSE /\ conn' = [conn EXCEPT ![f] = UpdateConn(d)]
                /\ wrset' = WrAfter(f, Adds(d))
                /\ sock' = [sock EXCEPT ![k] = Answered(m, d, st)]
                /\ UNCHANGED <<rdset, exist>>
    BY <1>7 DEF ServeRequest
  <2> DEFINE t == Answered(m, d, st)
             e == UpdateConn(d)
  <2>1. d.ret # "crash" /\ FullReq(d) /\ UNCHANGED backlog
    BY <1>7 DEF ServeRequest
  <2>2. Side(k, t) /\ t.fd = s.fd
    BY <1>1, <1>2, <2>1, <2>5, ServedSide
  <2>3. CASE d.rst = "BAD_REQUEST"
    <3>1. RemoveClntInfo(f, k, t)
      BY <2>3, <2>5
    <3> HIDE DEF t
    <3> QED
      BY <1>1, <2>1, <2>2, <3>1, RemoveClient
  <2>4. CASE d.rst # "BAD_REQUEST"
    <3>1. Idle(e) /\ Link(t, e)
      BY <1>1, <1>2, <2>1, <2>4, <2>5, ServedLink
    <3>2. /\ conn' = [conn EXCEPT ![f] = e] /\ sock' = [sock EXCEPT ![k] = t]
          /\ UNCHANGED <<exist, backlog>>
      BY <2>1, <2>4, <2>5
    <3> HIDE DEF e, t
    <3>3. /\ DOMAIN conn' = Fd /\ conn'[f] = e
          /\ \A g \in Fd : g # f => conn'[g] = conn[g]
          /\ sock'[k] = t /\ \A j \in Client \ {k} : sock'[j] = sock[j]
      BY <1>1, <3>2 DEF ClientsOK, SocketsOK, SockType
    <3> QED
      BY <1>1, <2>2, <3>1, <3>2, <3>3, OneClient
  <2> QED
    BY <2>3, <2>4
<1> QED
  BY <1>3, <1>5, <1>6, <1>7

LEMMA ClientsStep == SocketsOK /\ ClientsOK /\ [Next]_vars => ClientsOK'
<1> SUFFICES ASSUME SocketsOK, ClientsOK, [Next]_vars PROVE ClientsOK'
  OBVIOUS
<1>1. CASE Select \/ PhaseDone \/ ProcessRtInf \/ SendRdInfo \/ Datagram \/ UNCHANGED vars
  BY <1>1 DEF Select, PhaseDone, ProcessRtInf, SendRdInfo, Datagram, vars, daemonVars,
              ClientsOK, Attached
<1>2. CASE AcceptNew
  BY <1>2, AcceptClient
<1>3. ASSUME NEW f \in Fd, RecvData(f) \/ PeerClosed(f) \/ PeerReset(f) PROVE ClientsOK'
  BY <1>3, RecvClient
<1>4. ASSUME NEW f \in Fd, WriteConn(f) PROVE ClientsOK'
  BY <1>4, WriteClient
<1>5. ASSUME NEW k \in Client, Connect(k) PROVE ClientsOK'
  BY <1>5, ConnectClient
<1>6. ASSUME NEW k \in Client, Send(k) \/ Close(k) \/ Reset(k) PROVE ClientsOK'
  BY <1>6, ClientActs
<1> QED
  BY <1>1, <1>2, <1>3, <1>4, <1>5, <1>6 DEF Next, Loop, Environment

-----------------------------------------------------------------------------
(* The loop's own state.                                                   *)

LEMMA SetsStep == SocketsOK /\ ClientsOK /\ SetsOK /\ [Next]_vars => SetsOK'
<1> SUFFICES ASSUME SocketsOK, ClientsOK, SetsOK, [Next]_vars PROVE SetsOK'
  OBVIOUS
<1>1. exist \subseteq Fd \cup {LcSock, RdSock} /\ rdset = exist
  BY DEF SocketsOK, FdSetsMatch, SockType, Attached
<1>2. CASE Select
  BY <1>1, <1>2 DEF Select, Readables, SetsOK, daemonVars
<1>3. CASE PhaseDone \/ UNCHANGED vars
  BY <1>3 DEF PhaseDone, SetsOK, vars, daemonVars
<1>4. CASE ProcessRtInf \/ SendRdInfo
  BY <1>4 DEF ProcessRtInf, SendRdInfo, Reading, Writing, SetsOK
<1>5. CASE Datagram
  <2>1. dgrams' \in 0..MaxDgram
    BY <1>5, LoopAssumption DEF Datagram, SetsOK
  <2> QED
    BY <1>5, <2>1 DEF Datagram, SetsOK, loopVars, daemonVars
<1>6. CASE AcceptNew
  BY <1>6 DEF AcceptNew, Reading, SetsOK
<1>7. ASSUME NEW f \in Fd, RecvData(f) \/ PeerClosed(f) \/ PeerReset(f) PROVE SetsOK'
  BY <1>7 DEF RecvData, PeerClosed, PeerReset, Reading, RemoveClntInfo, WrWithData, SetsOK,
              daemonVars
<1>8. ASSUME NEW f \in Fd, WriteConn(f) PROVE SetsOK'
  <2>1. toWrite' \subseteq toWrite
    BY <1>8 DEF WriteConn, Writing
  <2>2. PICK d \in ParseReq(conn[f]) :
           ServeRequest(f, d) \/ SigPipe(f, d) \/ NoFullReq(f, d) \/ ParserLost(f, d)
    BY <1>8 DEF WriteConn
  <2>3. CASE NoFullReq(f, d)
    BY <2>1, <2>3 DEF NoFullReq, SetsOK
  <2>4. CASE ParserLost(f, d)
    BY <2>1, <2>4 DEF ParserLost, SetsOK, daemonVars
  <2>6. FullReq(d) => (Adds(d) => Len(d.f1) \in 1..Field1Max)
    <3>1. ConnOK(d)
      BY ParseRuns DEF ClientsOK, Idle
    <3>2. FullReq(d) /\ d.rst = "OK" => d.st = "DONE"
      BY <3>1 DEF FullReq, ConnOK
    <3> QED
      BY <3>1, <3>2 DEF Adds, ConnOK
  <2>7. CASE SigPipe(f, d)
    <3>1. \A name \in files' : Len(name) \in 1..Field1Max
      BY <2>6, <2>7 DEF SigPipe, SetsOK
    <3> QED
      BY <2>1, <2>7, <3>1 DEF SigPipe, SetsOK
  <2>5. CASE ServeRequest(f, d)
    <3>2. \A name \in files' : Len(name) \in 1..Field1Max
      BY <2>5, <2>6 DEF ServeRequest, SetsOK
    <3>3. queued' \in BOOLEAN
      <4>1. queued' = (queued \/ Adds(d))
        BY <2>5 DEF ServeRequest
      <4>2. (queued \/ Adds(d)) \in BOOLEAN
        OBVIOUS
      <4> QED
        BY <4>1, <4>2, Zenon
    <3>4. wrset' \subseteq Fd \cup {RdSock}
      BY <2>5 DEF ServeRequest, RemoveClntInfo, WrAfter, SetsOK
    <3> QED
      BY <2>1, <2>5, <3>2, <3>3, <3>4 DEF ServeRequest, SetsOK
  <2> QED
    BY <2>2, <2>3, <2>4, <2>5, <2>7
<1>9. ASSUME NEW k \in Client, Connect(k) \/ Send(k) \/ Close(k) \/ Reset(k) PROVE SetsOK'
  BY <1>9 DEF Connect, Send, Close, Reset, SetsOK, loopVars, daemonVars
<1> QED
  BY <1>2, <1>3, <1>4, <1>5, <1>6, <1>7, <1>8, <1>9 DEF Next, Loop, Environment

LEMMA InitLoop == Init => LoopInv
<1> SUFFICES ASSUME Init PROVE LoopInv
  OBVIOUS
<1>1. SocketsOK
  BY InitSockets
<1>2. SetsOK
  BY LoopAssumption DEF Init, SetsOK
<1>6. PICK p \in Plan : sock = [k \in Client |-> [NoSock EXCEPT !.plan = p[k]]]
  BY DEF Init
<1>3. ASSUME NEW k \in Client
      PROVE  /\ IsSock(sock[k]) /\ sock[k].plan \in Script(k) /\ sock[k].sent = 0
             /\ sock[k].ans = <<>> /\ sock[k].st \in SockStates /\ ~Attached(k)
  BY <1>3, <1>6 DEF NoSock, IsSock, SockFields, Script, SockStates, Attached
<1>4. \A k \in Client : Side(k, sock[k])
  BY <1>3, FreshSide
<1>5. ClientsOK
  <2>1. \A k \in Client : ~Attached(k)
    BY <1>3
  <2>2. DOMAIN conn = Fd /\ (\A f \in Fd : conn[f] = NewConn) /\ DOMAIN backlog = {}
    BY DEF Init
  <2> QED
    BY <1>4, <2>1, <2>2, NewIdle DEF ClientsOK
<1> QED
  BY <1>1, <1>2, <1>5 DEF LoopInv

LEMMA LoopStep == LoopInv /\ [Next]_vars => LoopInv'
BY SocketsStep, SetsStep, ClientsStep DEF LoopInv

LEMMA LoopInvariance == Spec => []LoopInv
BY InitLoop, LoopStep, PTL DEF Spec

\* The records of all connections stay within what the code declares, and a request
\* is read from bytes that were received, or the one behind them.
THEOREM TypeInvariance == Spec => []TypeOK
<1>1. LoopInv => TypeOK
  <2> SUFFICES ASSUME LoopInv PROVE TypeOK
    OBVIOUS
  <2>1. exist \subseteq Fd \cup {LcSock, RdSock} /\ rdset = exist
    BY DEF LoopInv, SocketsOK, FdSetsMatch, SockType, Attached
  <2>2. \A k \in Client : /\ sock[k].st \in {"new", "open", "eof", "reset", "gone", "closed"}
                          /\ sock[k].fd \in Fd \cup {0}
    BY DEF LoopInv, SocketsOK, SockType, ClientsOK, Side, SockStates
  <2>3. ASSUME NEW f \in Fd
        PROVE  /\ conn[f].st \in {"NEW", "METHOD_DONE", "LEN1_DONE", "FIELD1_DONE", "LEN2_DONE"}
               /\ conn[f].rst = "OK"
               /\ conn[f].pos \in 0..(Len(conn[f].data) + 1)
               /\ conn[f].node = "null" => conn[f].pos % BUFBLK_SIZE = 0
    <3>1. Idle(conn[f])
      BY DEF LoopInv, ClientsOK
    <3> QED
      BY <3>1 DEF Idle, ConnOK
  <2> QED
    BY <2>1, <2>2, <2>3 DEF LoopInv, SetsOK, TypeOK
<1> QED
  BY <1>1, LoopInvariance, PTL

\* Every answer is to the request that was sent in its place, for requests of any
\* lengths in segments of any lengths and blocks of any size.
THEOREM AnswersMatchInvariance == Spec => []AnswersMatch
<1>1. LoopInv => AnswersMatch
  <2> SUFFICES ASSUME LoopInv, NEW k \in Client, ~sock[k].torn
               PROVE  /\ Len(sock[k].ans) <= Len(sock[k].plan)
                      /\ \A i \in DOMAIN sock[k].ans :
                            sock[k].ans[i].req = sock[k].plan[i].req
    BY DEF AnswersMatch
  <2>1. Replies(sock[k])
    BY DEF LoopInv, ClientsOK, Side
  <2> QED
    BY <2>1 DEF Replies
<1> QED
  BY <1>1, LoopInvariance, PTL

\* What the daemon goes down for.
LEMMA StaysUpStep == LoopInv /\ StaysUp /\ [Next]_vars => StaysUp'
<1> SUFFICES ASSUME LoopInv, StaysUp, [Next]_vars, ~Up' PROVE StaysUp'
  BY DEF StaysUp
<1> DEFINE Blamed(s, p) == \/ s.st = "reset"
                          \/ s.edge
                          \/ /\ s.ahead \/ s.torn
                             /\ p = "freed" \/ s.st = "gone"
<1>1. StaysUp <=> (~Up => \E k \in Client : Blamed(sock[k], pc))
  BY DEF StaysUp
<1>2. (\E k \in Client : Blamed(sock'[k], pc')) => StaysUp'
  BY DEF StaysUp
<1>3. ASSUME NEW f \in Fd, PeerReset(f) PROVE StaysUp'
  <2>1. f \in exist
    BY <1>3 DEF PeerReset, Reading, NextFd
  <2>2. ClientAt(f) \in Client /\ sock'[ClientAt(f)].st = "reset"
    BY <1>3, <2>1, ClientOf DEF PeerReset, LoopInv, SocketsOK, daemonVars
  <2> QED
    BY <1>2, <2>2
<1>4. ASSUME NEW f \in Fd, WriteConn(f) PROVE StaysUp'
  <2> DEFINE k == ClientAt(f)
             m == Mark(sock[k], conn[f])
  <2>1. f \in exist /\ pc = "write"
    BY <1>4 DEF WriteConn, Writing, NextFd
  <2>2. /\ k \in Client /\ Side(k, sock[k]) /\ Idle(conn[f]) /\ Link(sock[k], conn[f])
    <3>1. k \in Client /\ sock[k].fd = f
      BY <2>1, ClientOf DEF LoopInv, SocketsOK
    <3> QED
      BY <3>1, Fds DEF LoopInv, ClientsOK, Attached
  <2>3. PICK d \in ParseReq(conn[f]) :
           ServeRequest(f, d) \/ SigPipe(f, d) \/ NoFullReq(f, d) \/ ParserLost(f, d)
    BY <1>4 DEF WriteConn
  <2>4. SigPipe(f, d) \/ ParserLost(f, d)
    BY <1>4, <2>1, <2>3 DEF ServeRequest, NoFullReq, Up
  <2>5. sock' = [sock EXCEPT ![k] = m]
    BY <2>4 DEF SigPipe, ParserLost
  <2>6. m.edge \/ ((m.ahead \/ m.torn) /\ (pc' = "freed" \/ m.st = "gone"))
    <3>3. CASE SigPipe(f, d)
      <4>1. m.st = "gone" /\ sock[k].st = "gone" /\ FullReq(d)
        BY <2>2, <3>3, MarkIs DEF SigPipe, Side
      <4> QED
        BY <2>2, <4>1, GoneAnswered
    <3>1. CASE Dangling(conn[f]) /\ pc' = "freed"
      BY <2>2, <3>1, DanglingOK
    <3>2. CASE d.ret = "crash"
      BY <2>2, <3>2, ParsedOK
    <3> QED
      BY <2>4, <3>1, <3>2, <3>3 DEF ParserLost
  <2> HIDE DEF m
  <2>7. sock'[k] = m
    BY <2>2, <2>5 DEF LoopInv, SocketsOK, SockType
  <2>8. Blamed(sock'[k], pc')
    BY <2>6, <2>7
  <2> QED
    BY <1>2, <2>2, <2>8
<1>5. ASSUME NEW j \in Client, Reset(j) PROVE StaysUp'
  <2>1. pc' = pc /\ sock' = [sock EXCEPT ![j].st = "reset"]
    BY <1>5 DEF Reset, loopVars
  <2>2. sock'[j].st = "reset"
    <3>1. sock' = [sock EXCEPT ![j] = [sock[j] EXCEPT !.st = "reset"]]
      BY <2>1
    <3>2. [sock[j] EXCEPT !.st = "reset"].st = "reset"
      <4>1. IsSock(sock[j])
        BY DEF LoopInv, SocketsOK, SockType
      <4> QED
        BY <4>1 DEF IsSock, SockFields
    <3> QED
      BY <3>1, <3>2 DEF LoopInv, SocketsOK, SockType
  <2> QED
    BY <1>2, <2>2
<1>6. CASE UNCHANGED vars
  <2>1. ~Up /\ sock' = sock /\ pc' = pc
    BY <1>6 DEF vars, Up
  <2> QED
    BY <1>1, <1>2, <2>1
<1>7. CASE Select \/ PhaseDone \/ AcceptNew \/ ProcessRtInf \/ SendRdInfo \/ Datagram
  BY <1>7 DEF Select, PhaseDone, AcceptNew, ProcessRtInf, SendRdInfo, Datagram, Reading,
              Writing, Up, loopVars
<1>8. ASSUME NEW f \in Fd, RecvData(f) \/ PeerClosed(f) PROVE StaysUp'
  BY <1>8 DEF RecvData, PeerClosed, Reading, Up
<1>9. ASSUME NEW j \in Client, Connect(j) \/ Send(j) \/ Close(j) PROVE StaysUp'
  BY <1>9 DEF Connect, Send, Close, Up, loopVars
<1> QED
  BY <1>3, <1>4, <1>5, <1>6, <1>7, <1>8, <1>9 DEF Next, Loop, Environment

\* Nothing but a reset connection, one parsed at the end of a block, and a client
\* that does not wait or a field of which was cut, takes the daemon down: a client
\* that closes, whenever it does, does not, if it waits for its answers.
THEOREM StaysUpInvariance == Spec => []StaysUp
<1>1. Init => StaysUp
  BY DEF Init, StaysUp, Up
<1> QED
  BY <1>1, InitLoop, LoopStep, StaysUpStep, PTL DEF Spec
=============================================================================
