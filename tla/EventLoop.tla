------------------------------ MODULE EventLoop ------------------------------
(***************************************************************************)
(* The loop of one daemon: select, process_read, process_write, and the    *)
(* sockets they work on, with the clients at the other end.  Sources:      *)
(* routed.c (the loop), rt_ctrl.c, and client_info.c from clnt_set to      *)
(* send_clnt_resp; what a connection holds is in module ReqParser.         *)
(*                                                                         *)
(* One action is one socket handled by process_read or process_write, so   *)
(* that sockets of one pass can affect each other.  What a packet or an     *)
(* added file does to the tables is in LsaFlood; here it leaves packets to *)
(* send on the routing socket (queued).  Only local objects are looked up  *)
(* (ObjLookup has the rest), and the timer is left out.                    *)
(*                                                                         *)
(* What clients do takes place while the loop is in select: what they do   *)
(* during a pass, before their socket is read or after it, is as if done   *)
(* before the pass or after it.  Only that a connection breaks can matter  *)
(* later, before the socket is written.                                    *)
(***************************************************************************)
EXTENDS ReqParser

CONSTANTS
    Client,     \* the clients; each connects at most once
    LcSock,     \* the descriptor of the listening socket
    RdSock,     \* that of the UDP socket of the routing port
    Fd,         \* those the kernel has for connections
    Plan,       \* the scenarios: p[k] is what client k sends in p, a sequence of
                \* items: the bytes, where the fields in them end, their lengths in
                \* digits, the request; <<>> for a client that does not come.
                \* Bound: where in an item segments may end (cuts)
    Junk,       \* what a byte behind the received ones may be
    Pipelining, \* whether clients send on before the answer has come
    Resetting,  \* whether connections are reset
    NoMemory,   \* whether there may be no memory for an announcement
    MaxDgram    \* bound: datagrams that arrive

ASSUME LoopAssumption ==
    /\ LcSock \in Nat \ {0} /\ RdSock \in Nat /\ Fd \subseteq Nat
    /\ LcSock < RdSock /\ \A f \in Fd : RdSock < f
    /\ IsFiniteSet(Fd)
    /\ Pipelining \in BOOLEAN /\ Resetting \in BOOLEAN /\ NoMemory \in BOOLEAN
    /\ MaxDgram \in Nat
    /\ Junk # {} /\ Junk \subseteq STRING

\* The two kinds of items: a request as webserver.py writes it, the method and
\* twice at most a length and a field of that length; a word that is no method.
Malformed == [meth |-> "", f1 |-> <<>>, f2 |-> <<>>]
Item == [bytes : Seq(STRING), ends : SUBSET Nat, cuts : SUBSET Nat,
         nums : Seq(Seq(STRING)),
         req : [meth : STRING, f1 : Seq(STRING), f2 : Seq(STRING)]]

Text(num, val) == <<Space>> \o num \o <<Space>> \o val
Measures(num, val, max) ==
    /\ Len(num) \in 1..(LenRoom - 1) /\ IsNum(num)
    /\ Num(num) = Len(val) /\ Len(val) \in 1..max

IsGet(q) ==
    /\ q.req.meth = "GETRD" /\ q.req.f2 = <<>>
    /\ Len(q.nums) = 1 /\ Measures(q.nums[1], q.req.f1, Field1Max)
    /\ q.bytes = <<"GETRD">> \o Text(q.nums[1], q.req.f1)
    /\ q.ends = {Len(q.bytes)}
IsAdd(q) ==
    /\ q.req.meth = "ADDFILE"
    /\ Len(q.nums) = 2 /\ Measures(q.nums[1], q.req.f1, Field1Max)
    /\ Measures(q.nums[2], q.req.f2, Field2Max)
    /\ q.bytes = <<"ADDFILE">> \o Text(q.nums[1], q.req.f1) \o Text(q.nums[2], q.req.f2)
    /\ q.ends = {1 + Len(Text(q.nums[1], q.req.f1)), Len(q.bytes)}
IsBad(q) ==
    /\ q.req = Malformed /\ q.ends = {}
    /\ q.bytes[1] \notin Method \cup {Space} /\ q.bytes = <<q.bytes[1], Space>>

ASSUME PlanAssumption ==
    \A p \in Plan :
        /\ p \in [Client -> Seq(Item)]
        /\ \A k \in Client : \A i \in DOMAIN p[k] :
              IsGet(p[k][i]) \/ IsAdd(p[k][i]) \/ IsBad(p[k][i])

VARIABLES
    pc,       \* where the loop is: "select", "read", "write"; or "down" (it
              \* crashed), "freed" (the parser reads a block that was freed)
    toRead,   \* tmp_rdset: what select found readable, not yet handled
    toWrite,  \* tmp_wrset
    rdset,    \* the descriptors that select watches for reading
    wrset,    \* and for writing
    exist,    \* the descriptors with is_exist set in clnt_set
    conn,     \* conn[f]: the rest of clnt_set[f], a record of ReqParser
    files,    \* the names in g_lfile_ht
    queued,   \* whether pd_lsa_head of the routing socket has packets
    sock,     \* sock[k]: the connection of client k as the kernel has it
    backlog,  \* the clients that wait to be accepted
    udp,      \* the datagrams that wait in the routing socket
    dgrams    \* how many arrived so far

loopVars == <<pc, toRead, toWrite>>
daemonVars == <<rdset, wrset, exist, conn, files, queued>>
vars == <<pc, toRead, toWrite, rdset, wrset, exist, conn, files, queued, sock,
          backlog, udp, dgrams>>

-----------------------------------------------------------------------------
(* Bugs this code does not have, to see that the properties would notice.  *)

BugRemoveClntInfo(f, k, s) ==
    /\ exist' = exist \ {f}
    /\ rdset' = rdset \ {f}
    /\ UNCHANGED wrset
    /\ conn' = [conn EXCEPT ![f] = NewConn]
    /\ sock' = [sock EXCEPT ![k] = [s EXCEPT !.fd = 0, !.st = "closed"]]
BugWrAfterForgotten(f, adds) == wrset
BugWrWithData(f) == wrset

-----------------------------------------------------------------------------
(* Clients and the kernel.                                                 *)

\* A client's side: the bytes of its plan that it has sent, and the answers.
\* Its connection is open, closed by the client ("eof") or reset by it; the next
\* send fails when it was reset, or was sent on after it was closed ("gone").
\* The marks torn, edge and ahead remember, for the properties, when it met a
\* circumstance in which the parser goes wrong.
NoSock == [st |-> "new", fd |-> 0, plan |-> <<>>, sent |-> 0, ans |-> <<>>,
           torn |-> FALSE, edge |-> FALSE, ahead |-> FALSE]

\* The daemon runs.
Up == pc \notin {"down", "freed"}

Stream(plan) == FlattenSeq([i \in DOMAIN plan |-> plan[i].bytes])
End(plan, i) == Len(Stream(SubSeq(plan, 1, i)))

Ends(plan) == {End(plan, i) : i \in DOMAIN plan}
Cuts(plan) == UNION {{End(plan, i - 1) + e : e \in plan[i].cuts} : i \in DOMAIN plan}

Attached(k) == sock[k].fd # 0
ClientAt(f) == CHOOSE k \in Client : Attached(k) /\ sock[k].fd = f
Avail(k) == sock[k].sent - Len(conn[sock[k].fd].data)

Connect(k) ==
    /\ pc = "select"
    /\ sock[k].st = "new" /\ sock[k].plan # <<>>
    /\ sock' = [sock EXCEPT ![k].st = "open"]
    /\ backlog' = Append(backlog, k)
    /\ UNCHANGED <<loopVars, daemonVars, udp, dgrams>>

\* A segment, of any length; a client that does not pipeline waits for its
\* answer before it goes on to the next request.
Send(k) ==
    LET s   == sock[k]
        due == Min({Len(s.ans) + 1, Len(s.plan)})
    IN  /\ pc = "select"
        /\ s.st = "open"
        /\ \E n \in (Cuts(s.plan) \cup Ends(s.plan)) \cap
                ((s.sent + 1)..End(s.plan, IF Pipelining THEN Len(s.plan) ELSE due)) :
              sock' = [sock EXCEPT ![k].sent = n,
                                   ![k].ahead = @ \/ n > End(s.plan, due)]
        /\ UNCHANGED <<loopVars, daemonVars, backlog, udp, dgrams>>

\* The client closes its end, in the middle of a request or not.
Close(k) ==
    /\ pc \in {"select", "write"}
    /\ sock[k].st = "open"
    /\ sock' = [sock EXCEPT ![k].st = "eof"]
    /\ UNCHANGED <<loopVars, daemonVars, backlog, udp, dgrams>>

Reset(k) ==
    /\ Resetting /\ pc \in {"select", "write"}
    /\ sock[k].st = "open" /\ Attached(k)
    /\ sock' = [sock EXCEPT ![k].st = "reset"]
    /\ UNCHANGED <<loopVars, daemonVars, backlog, udp, dgrams>>

\* A datagram: an announcement, an ACK or a SEQ ("lsa"), one with a header of
\* no such type, or one too short for a header.
Datagram ==
    /\ pc = "select"
    /\ dgrams < MaxDgram
    /\ dgrams' = dgrams + 1
    /\ \E d \in {"lsa", "other", "runt"} : udp' = Append(udp, d)
    /\ UNCHANGED <<loopVars, daemonVars, sock, backlog>>

Readables ==
    {f \in rdset : \/ f = LcSock /\ backlog # <<>>
                   \/ f = RdSock /\ udp # <<>>
                   \/ \E k \in Client : /\ sock[k].fd = f
                                        /\ Avail(k) > 0 \/ sock[k].st # "open"}

-----------------------------------------------------------------------------
(* The loop.                                                               *)

Init ==
    /\ pc = "select" /\ toRead = {} /\ toWrite = {}
    /\ rdset = {LcSock, RdSock} /\ wrset = {RdSock}
    /\ exist = {LcSock, RdSock}
    /\ conn = [f \in Fd |-> NewConn]
    /\ files = {} /\ queued = TRUE
    /\ \E p \in Plan : sock = [k \in Client |-> [NoSock EXCEPT !.plan = p[k]]]
    /\ backlog = <<>> /\ udp = <<>> /\ dgrams = 0

\* select returns as soon as a socket is ready; all in wrset can be written.
Select ==
    /\ pc = "select"
    /\ Readables \cup wrset # {}
    /\ pc' = "read" /\ toRead' = Readables /\ toWrite' = wrset
    /\ UNCHANGED <<daemonVars, sock, backlog, udp, dgrams>>

\* get_next_fd: the lowest descriptor of a set whose entry still exists.
NextFd(fds, f) == f \in fds \cap exist /\ \A g \in fds \cap exist : f <= g

\* process_read is done, or process_write is.
PhaseDone ==
    /\ \/ pc = "read" /\ toRead \cap exist = {} /\ pc' = "write"
       \/ pc = "write" /\ toWrite \cap exist = {} /\ pc' = "select"
    /\ toRead' = {}
    /\ toWrite' = IF pc = "read" THEN toWrite ELSE {}
    /\ UNCHANGED <<daemonVars, sock, backlog, udp, dgrams>>

Reading(f) == pc = "read" /\ NextFd(toRead, f) /\ toRead' = toRead \ {f}
Writing(f) == pc = "write" /\ NextFd(toWrite, f) /\ toWrite' = toWrite \ {f}

\* The entry of a descriptor is set up, or given up with the descriptor.
CreateClntInfo(f) ==
    /\ exist' = exist \cup {f}
    /\ UNCHANGED conn
    /\ rdset' = rdset \cup {f}
RemoveClntInfo(f, k, s) ==
    /\ exist' = exist \ {f}
    /\ rdset' = rdset \ {f}
    /\ wrset' = wrset \ {f}
    /\ conn' = [conn EXCEPT ![f] = NewConn]
    /\ sock' = [sock EXCEPT ![k] = [s EXCEPT !.fd = 0, !.st = "closed"]]

\* accept_new: the first connection of the backlog, at the lowest descriptor.
\* Without a free one accept fails, and the connection stays.
AcceptNew ==
    /\ Reading(LcSock)
    /\ IF Fd \subseteq exist
       THEN UNCHANGED <<rdset, exist, conn, sock, backlog>>
       ELSE LET f == Min(Fd \ exist)
            IN  /\ CreateClntInfo(f)
                /\ sock' = [sock EXCEPT ![Head(backlog)].fd = f]
                /\ backlog' = Tail(backlog)
    /\ UNCHANGED <<pc, toWrite, wrset, files, queued, udp, dgrams>>

WrWithData(f) == wrset \cup {f}

\* recv returned bytes: they are stored, and parsed when the socket is handled
\* for writing.
RecvData(f) ==
    LET k == ClientAt(f)
        n == Min({Avail(k), Room(conn[f])})
        from == Len(conn[f].data)
    IN  /\ Reading(f) /\ f \in Fd /\ Avail(k) > 0
        /\ \E junk \in Junk :
              conn' = [conn EXCEPT ![f] = Receive(@,
                          SubSeq(Stream(sock[k].plan), from + 1, from + n), junk)]
        /\ wrset' = WrWithData(f)
        /\ UNCHANGED <<pc, toWrite, rdset, exist, files, queued, sock, backlog,
                       udp, dgrams>>

\* recv returned 0: the client has closed; what it still asked for is not done,
\* and the client is forgotten.
PeerClosed(f) ==
    LET k == ClientAt(f)
    IN  /\ Reading(f) /\ f \in Fd /\ Avail(k) = 0 /\ sock[k].st \in {"eof", "gone"}
        /\ RemoveClntInfo(f, k, NoSock)
        /\ UNCHANGED <<pc, toWrite, files, queued, backlog, udp, dgrams>>

\* recv failed: assert(0).
PeerReset(f) ==
    LET k == ClientAt(f)
    IN  /\ Reading(f) /\ f \in Fd /\ Avail(k) = 0 /\ sock[k].st = "reset"
        /\ pc' = "down"
        /\ UNCHANGED <<toWrite, daemonVars, sock, backlog, udp, dgrams>>

\* Only these are read; a datagram without a whole header is looked at twice,
\* one of no known type once, with MSG_PEEK each time, and stay in the socket.
Taken(d) == d = "lsa"

\* clnt_process_rt_inf: an LSA may leave packets to send.  An announcement for
\* which malloc fails stays in the socket, too.
ProcessRtInf ==
    /\ Reading(RdSock)
    /\ IF Taken(Head(udp))
       THEN \/ udp' = Tail(udp) /\ wrset' = wrset \cup {RdSock} /\ queued' = TRUE
            \/ udp' = Tail(udp) /\ UNCHANGED <<wrset, queued>>
            \/ NoMemory /\ UNCHANGED <<udp, wrset, queued>>
       ELSE UNCHANGED <<udp, wrset, queued>>
    /\ UNCHANGED <<pc, toWrite, rdset, exist, conn, files, sock, backlog, dgrams>>

\* clnt_send_rd_info
SendRdInfo ==
    /\ Writing(RdSock)
    /\ queued' = FALSE
    /\ wrset' = wrset \ {RdSock}
    /\ UNCHANGED <<pc, toRead, rdset, exist, conn, files, sock, backlog, udp, dgrams>>

\* process_clnt_request and fill_local_resp: the status of the answer to c.
Status(c) ==
    CASE c.rst # "OK" -> c.rst
      [] c.rst = "OK" /\ c.meth = "GETRD" ->
            IF c.f1 \in files THEN "OK" ELSE "NOT_FOUND"
      [] OTHER -> IF c.f1 \in files THEN "RECORD_EXISTS" ELSE "OK"
Adds(c) == c.rst = "OK" /\ c.meth = "ADDFILE" /\ c.f1 \notin files

\* What an answer tells of the request it is for.
Asked(c) ==
    IF c.rst # "OK" THEN Malformed
    ELSE [meth |-> c.meth, f1 |-> c.f1,
          f2 |-> IF c.meth = "GETRD" THEN <<>> ELSE c.f2]
Answer(c) == [req |-> Asked(c), status |-> Status(c)]

\* send_clnt_resp.  On a connection that was reset send fails, with an error that
\* is cleared thereby; a closed client may answer with a reset.  The next send is
\* on a broken connection.
AfterSend(st) ==
    CASE st = "eof"   -> {"eof", "gone"}
      [] st = "reset" -> {"gone"}
      [] OTHER        -> {st}
Answered(s, c, st) == [s EXCEPT !.ans = Append(@, Answer(c)), !.st = st]

\* A client's connection is about to be parsed: the circumstances.
\* - the bytes so far lack just the last one of a field, or the junk is a space;
\* - they end just before the end of a block.
FieldEnd(plan) ==
    UNION {{End(plan, i - 1) + e : e \in plan[i].ends} : i \in DOMAIN plan}
Mark(s, c) ==
    LET n == Len(c.data)
    IN  [s EXCEPT !.torn = @ \/ c.junk = Space \/ n + 1 \in FieldEnd(s.plan),
                  !.edge = @ \/ (n + 1) % BUFBLK_SIZE = 0]

\* An answered connection stays in wrset, there may be a next request; an added
\* object has to be flooded.
WrAfter(f, adds) == IF adds THEN wrset \cup {RdSock} ELSE wrset

\* process_write on a connection, of which the parser has made c.
\* The request is complete: it is done and answered; a bad one ends the
\* connection.
ServeRequest(f, c) ==
    LET k == ClientAt(f)
    IN  /\ ~Dangling(conn[f]) /\ c.ret # "crash" /\ FullReq(c)
        /\ sock[k].st # "gone"
        /\ files' = IF Adds(c) THEN files \cup {c.f1} ELSE files
        /\ queued' = (queued \/ Adds(c))
        /\ \E st \in AfterSend(sock[k].st) :
              LET s == Answered(Mark(sock[k], conn[f]), c, st)
              IN  IF c.rst = "BAD_REQUEST"
                  THEN RemoveClntInfo(f, k, s)
                  ELSE /\ conn' = [conn EXCEPT ![f] = UpdateConn(c)]
                       /\ wrset' = WrAfter(f, Adds(c))
                       /\ sock' = [sock EXCEPT ![k] = s]
                       /\ UNCHANGED <<rdset, exist>>
        /\ UNCHANGED <<pc, toRead, backlog, udp, dgrams>>

\* send on a broken connection: without MSG_NOSIGNAL, and SIGPIPE not being
\* handled anywhere, it ends the process.  The request has been done by then.
SigPipe(f, c) ==
    LET k == ClientAt(f)
    IN  /\ ~Dangling(conn[f]) /\ c.ret # "crash" /\ FullReq(c)
        /\ sock[k].st = "gone"
        /\ files' = IF Adds(c) THEN files \cup {c.f1} ELSE files
        /\ pc' = "down"
        /\ sock' = [sock EXCEPT ![k] = Mark(@, conn[f])]
        /\ UNCHANGED <<toRead, rdset, wrset, exist, conn, queued, backlog, udp, dgrams>>

\* The request is not complete.
NoFullReq(f, c) ==
    LET k == ClientAt(f)
    IN  /\ ~Dangling(conn[f]) /\ c.ret # "crash" /\ ~FullReq(c)
        /\ conn' = [conn EXCEPT ![f] = Waiting(c)]
        /\ wrset' = wrset \ {f}
        /\ sock' = [sock EXCEPT ![k] = Mark(@, conn[f])]
        /\ UNCHANGED <<pc, toRead, rdset, exist, files, queued, backlog, udp, dgrams>>

\* The parser reads through NULL, or in a block that was freed: the latter is
\* undefined, and the model ends there.
ParserLost(f, c) ==
    LET k == ClientAt(f)
    IN  /\ \/ Dangling(conn[f]) /\ pc' = "freed"
           \/ ~Dangling(conn[f]) /\ c.ret = "crash" /\ pc' = "down"
        /\ sock' = [sock EXCEPT ![k] = Mark(@, conn[f])]
        /\ UNCHANGED <<toRead, daemonVars, backlog, udp, dgrams>>

WriteConn(f) ==
    /\ Writing(f) /\ f \in Fd
    /\ \E c \in ParseReq(conn[f]) :
          \/ ServeRequest(f, c) \/ SigPipe(f, c)
          \/ NoFullReq(f, c) \/ ParserLost(f, c)

Loop ==
    \/ Select \/ PhaseDone \/ AcceptNew \/ ProcessRtInf \/ SendRdInfo
    \/ \E f \in Fd : \/ RecvData(f) \/ PeerClosed(f) \/ PeerReset(f)
                      \/ WriteConn(f)

Environment ==
    \/ \E k \in Client : Connect(k) \/ Send(k) \/ Close(k) \/ Reset(k)
    \/ Datagram

Next == Loop \/ Environment

Spec == Init /\ [][Next]_vars

\* The loop goes on as long as the daemon runs.
FairSpec == Spec /\ WF_vars(Loop)

-----------------------------------------------------------------------------
(* Properties.                                                             *)

TypeOK ==
    /\ pc \in {"select", "read", "write", "down", "freed"}
    /\ toRead \subseteq Fd \cup {LcSock, RdSock}
    /\ toWrite \subseteq Fd \cup {RdSock}
    /\ exist \subseteq Fd \cup {LcSock, RdSock}
    /\ rdset \subseteq Fd \cup {LcSock, RdSock}
    /\ wrset \subseteq Fd \cup {RdSock}
    /\ \A name \in files : Len(name) \in 1..Field1Max
    /\ queued \in BOOLEAN /\ dgrams \in 0..MaxDgram
    /\ \A k \in Client : sock[k].st \in {"new", "open", "eof", "reset", "gone", "closed"}
    /\ \A k \in Client : sock[k].fd \in Fd \cup {0}
    /\ \A f \in Fd :
          /\ conn[f].st \in {"NEW", "METHOD_DONE", "LEN1_DONE", "FIELD1_DONE", "LEN2_DONE"}
          /\ conn[f].rst = "OK"
          /\ conn[f].pos \in 0..(Len(conn[f].data) + 1)
          /\ conn[f].node = "null" => conn[f].pos % BUFBLK_SIZE = 0

\* The sets that select is given are those of the open descriptors, and each
\* open connection belongs to one client: a descriptor that is closed and given
\* to the next connection takes nothing along.
FdSetsMatch ==
    /\ rdset = exist
    /\ wrset \subseteq exist
    /\ exist = {LcSock, RdSock} \cup {sock[k].fd : k \in {j \in Client : Attached(j)}}
    /\ \A j, k \in Client : Attached(j) /\ sock[j].fd = sock[k].fd => j = k

\* Whatever the segments, the requests answered are those sent, in their order;
\* unless the parser ran when just the last byte of a field was missing, or
\* with a space behind the bytes received (buf_ctrl.c:25).
AnswersMatch ==
    \A k \in Client :
        LET s == sock[k] IN
        ~s.torn => /\ Len(s.ans) <= Len(s.plan)
                   /\ \A i \in DOMAIN s.ans : s.ans[i].req = s.plan[i].req

\* What an added object or an LSA leaves to send keeps the routing socket in
\* wrset, whichever socket of the pass it comes from.
RoutingAwake == queued => RdSock \in wrset

\* A client that waits for each answer before it goes on, does not reset its
\* connection, and whose segments never end just before the last byte of a field
\* or of a block, cannot bring the daemon down, even by closing; if it goes down
\* - recv failed on a connection that was reset (rt_ctrl.c:93), or
\* - bytes were parsed that ended just before the end of a block, or
\* - blocks were freed (client_info.c:157) that had not been read, or an answer
\*   was sent to a client that had gone (client_info.c:275), and a client had not
\*   waited, or a request was taken to end too early (buf_ctrl.c:25).
\* (A GETRD for an object of another node can do so, too: ObjLookup!LookupDefined.)
StaysUp ==
    ~Up => \E k \in Client : \/ sock[k].st = "reset"
                             \/ sock[k].edge
                             \/ /\ sock[k].ahead \/ sock[k].torn
                                /\ pc = "freed" \/ sock[k].st = "gone"

\* Whatever the segments and the other clients, there is again and again a moment
\* at which every request sent is answered, if its client and the daemon last.
EveryRequestServed ==
    []<>(\A k \in Client : \A i \in DOMAIN sock[k].plan :
            \/ sock[k].sent < End(sock[k].plan, i) \/ Len(sock[k].ans) >= i
            \/ sock[k].torn \/ sock[k].st # "open" \/ ~Up)

\* What the code does not do: a datagram too short for a header is discarded
\* (the comment at client_info.c:437), and does not keep back the ones behind it.
RuntsDiscarded ==
    udp # <<>> /\ Head(udp) = "runt" ~> udp = <<>> \/ Head(udp) # "runt" \/ ~Up
=============================================================================
