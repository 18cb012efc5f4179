# A TLA+ development of the 441-dhttp routing daemon

This directory models, checks and proves properties of the program under
`src/`: a distributed web server in which every node runs a routing daemon
(`routed`, in C) and a small web server (`webserver.py`).  The daemons tell each
other by link-state announcements (LSAs) over UDP who their neighbours are and
which objects they store; each of them computes a route table and a prefix tree
of object names, and tells its web server, over TCP, which neighbour to ask for
an object.

References such as `client_info.c:478` are to `src/src/`.

## The system

| component | state | operations | talks to |
|---|---|---|---|
| flooding: `client_info.c`, `lsa.c`, `sel_timeout.c` | `g_lsa_ht` (the LSA of every node heard of), `pd_lsa_head` (packets to send), `g_pd_ack_ht` (announcements not yet acknowledged), the timers | start-up, the handlers of AD, ACK and SEQ packets, flooding, retransmission, expiry | other daemons by UDP; calls the route calculation, the prefix tree, the neighbour table |
| configuration: `config.c` | `g_nb_nodes_ht` with `is_valid` of each neighbour, `g_lfile_ht`, and `node*.files` on disk | loading at start, adding a file, marking a neighbour | read by flooding and lookup |
| route calculation: `dijkstra.c` | `g_route_table` | `update_route_info`, `find_route_entry` | reads the LSA and neighbour tables |
| prefix tree and lookup: `pft.c`, `forward.c` | `g_obj_pft` | add and remove the objects of an LSA, `lookup_file` | fed by flooding, asked by the request handler, reads the route table |
| dynamic array: `darr.c` | the node ids at a tree node | append, remove by swapping, merge | the prefix tree |
| event loop: `routed.c`, `rt_ctrl.c` | `rdset`, `wrset`, the client table `clnt_set` | `select`, reading, writing, the two-second tick | everything above |
| parser and buffers: `parser.c`, `buf_ctrl.c` | a chain of blocks and a parser state per TCP client | `parse_req`, `get_bytes`, `free_buf` | the event loop |
| hash tables: `ht.h`, `ht.c` | bucket chains | insert, find, remove | everything that has a table |
| answers: `resp.c` | none | formatting | the request handler |
| web server: `webserver.py` | the uploaded files | fetch, relay, upload | the local daemon by TCP, other web servers by HTTP |

The daemon is one thread: a handler runs to its end before the next one starts,
so that the interleavings are those of the handlers of *different* nodes, of the
messages between them, of the timer and of the local requests.  What is hard in
it:

* the network loses, duplicates and reorders; an announcement reaches a node
  over several paths, each with its own delay;
* a restarted node has lost everything but its file list, numbers its LSA from 0
  again, and must find out how far its numbers had come (the SEQ packets);
* several tables have to agree: the LSA table, the neighbour flags, the local
  LSA, the route table and the prefix tree are updated by different functions;
* whatever is queued must be sent, whatever is sent must be kept until it is
  acknowledged, and nothing may be kept for ever;
* arithmetic at boundaries: infinite distances, the ends of the binary search,
  arrays that are cut;
* descriptors, buffers and parser states belong to connections that come and go in
  the middle of a pass of the loop;
* the web server is not one thread: an upload is several requests to the daemon and
  several changes of the directory of files, between which others run and the daemon
  may crash; a fetch passes through several nodes that do not know the same.

What makes each component correct is stated as the properties of its module below;
`PROJECT.json` lists the hazards at their lines, with the properties that would catch
them, and says of the few others why no property does.

## The modules

**`LsaFlood`** is the core: all nodes of a network and the datagrams between
them.  One action is one handler, with every call it makes.

| action | code |
|---|---|
| `Boot(n)` | `main` up to its loop: load the two files, local LSA, prefix tree, route table, first flood. Also a restart after a crash: everything but `files` is lost, what is in the network is not |
| `AddFile(n, o)` | `process_clnt_request`, ADDFILE: `add_localfile`, `reload_local_lsa`, `pft_add_obj_frm_lsa`, flood, `wrset` |
| `RecvNewAd(m)` | `clnt_process_rt_inf`, an announcement to be stored: `update_lsa_entr`, prefix tree, a down neighbour made valid and the local LSA rebuilt, `update_route_info`, relay while the ttl lasts, ACK |
| `RecvRestartAd(m)` | number 0 against a stored higher one: answer with a SEQ |
| `RecvStaleAd(m)` | not newer: ACK only; the node's own LSA: ignored |
| `RecvAck(m)` | `remove_pd_ack`: one entry of the chain goes, which the walk finds by number and address alone once it is past the first one (`Unpend`) |
| `RecvSeqRelay(m)`, `RecvSeqOwner(m)` | SEQ for another node's LSA (`update_seq_num`) or for the own one (jump past it and flood) |
| `SendRdInfo(n)` | `process_write` on the routing socket: `clnt_send_rd_info`, then out of `wrset` |
| `HandleTimeOut(n, expired, adv, retran)` | one tick: expire LSAs (prefix tree, neighbour flag, pending table), rebuild and flood, recompute the routes, requeue what is to be retransmitted |
| `Lose(m)` | the network |

State: `lsa[n][s]` is the entry of `g_lsa_ht` for sender `s` ("none" if there is
no entry), `nb[n]` the neighbours with `is_valid`, `outq[n]` the list
`pd_lsa_head`, `pd[n]` the table `g_pd_ack_ht`, `wr[n]` the bit of the routing
socket in `wrset`, `files[n]` the file list, which is both in memory and on disk.
`rt[n]` is not the route table but the topology it was last computed from, and
`pft[n][s]` the associations in the prefix tree: the two modules below take over
from there.  The order of a queue is not kept (UDP reorders anyway), and two
identical datagrams count once.  The order of a chain of `g_pd_ack_ht` is not kept
either: `Bucket` says which senders share one, and where the walk of an ACK ends
depends on the order, `Unpend` has every outcome.  Timers are not counted down: a tick may find any
set of them expired, which includes every real schedule.

**`LsaDirectory`** is what flooding promises while no node restarts: each owner
publishes versions of its catalogue, each other node has a copy of a published
version, which only moves forward.  `LsaFlood!ImplementsDirectory` states that
the nodes' tables refine it (`pub` is the owner's next number, `seen` the number
in the copy plus one).  Its `Init` is any directory whose copies are not ahead of
their owners, since the refinement may also begin at a later state of the nodes.

**`RouteCalc`** is `update_route_info` on any LSA table: `ConstructGraph`, one
`Round` of Dijkstra's algorithm per action, `FillRouteTable`, and the binary
search of `find_route_entry` as an operator.  The order of `g_node_id` is that of
the hash table, so a round may visit any unvisited node of least distance.

**`ObjLookup`** is the prefix tree with its arrays and `lookup_file`.  A name is
the sequence of its levels.  `AddObjFrmLsa`, `RmObjFrmLsa` and `NewRoutes` are the
three ways its state changes; `pft_get_obj_list` and `lookup_file` are operators
that the properties evaluate in every state for every query.

**`PendAck`** looks into one node of `LsaFlood`: `outq` is the list `pd_lsa_head`
(newest first), `chain[i]` bucket i of `g_pd_ack_ht` (last insertion first), and
every entry has its timer.  Its actions are the handlers of `LsaFlood` again, with
the LSA table reduced to the numbers that are used up: `FloodLocal`, `RecvNewAd`,
`RecvOldAd`, `RecvAck`, `RecvSeq`, `SendRdInfo`, and `HandleTimeOut`, which is
`clnt_rm_pd_ad_ann_by_addr`, the flood, and `process_retran_timeout` in their order.
`RemovePdAck` is the walk as the code has it, which compares the sender for its first
step only.  Every loop that relinks a chain is one of two walks: `Only` (what stays)
and `Pushed` (what is put in front of another list, one by one).

**`PendSet`** is what `LsaFlood` takes for granted of that: two sets, of which the
pending one loses an announcement only to the answer for it, to the end of its
neighbour, or to the queue.  `PendAck!KeepsPending` is the refinement; the one step it
adds is `Mistaken`, in which the answer to an announcement of one sender takes out one
of the other that has the same number and neighbour.

**`ReqParser`** is one TCP connection as an operator per function: the chain of
blocks (`CurrBuf`, `Room`, `Readable`, `GetBytes`, `GetNextField`, `FreeBuf`) and the
parser (`ParseMethod`, `ParseLen`, `ParseData`, `ParseReq`).  Bytes are counted from the
start of the connection, so that a block is a quotient; the byte behind the last one
received, which `get_next_byte` may read, is any byte (`Junk`).

**`EventLoop`** is one daemon around it: `select`, then `process_read` and
`process_write` with one action per descriptor (`AcceptNew`, `RecvData`, `PeerClosed`,
`PeerReset`, `ProcessRtInf`, `SendRdInfo`, and `WriteConn` with the three ends it may
have), in the order of the descriptors; and the clients and the kernel at the other
end (`Connect`, `Send`, `Close`, `Reset`, `Datagram`).  What a client does during a
pass is the same to the daemon as if done before or after it, but for one thing: a
connection that ends behind `recv` and before the answers.  `Close` and `Reset` may
therefore come in the writing phase too; `AfterSend` is what a send then meets, and
`SigPipe` the end of the daemon at the next one.  A datagram is taken out of the socket
only if it is an announcement, ACK or SEQ (`Taken`) and there is memory for it
(`NoMemory`).  `exist` and `conn` are
`clnt_set`, `queued` says whether `outq` of `LsaFlood` has packets.  A client follows a
plan, a sequence of items: requests as `webserver.py` writes them (`IsGet`, `IsAdd`), and
words that are no method (`IsBad`); `PlanAssumption` says no more of them.

**`Web`** is the web server of every node and what it needs of the daemon: the list
of files in memory and as lines on disk, what each node knows of the others'
objects, and the routes, which stay as they are.  An upload is a thread that goes from
`Begin` over `Check` (GETRD), `Save`, and `AddDone`, `AddRefused`, `AddUnhandled` (the
daemon falls before it handles the request) or `AddNoDaemon` (ADDFILE) to `Finish`; the
connection of a check does not outlive the daemon (`CrashOf`).  A fetch is one `Hop`
after the other, the name in it going through a URL: `InUrl` drops what `urlopen` and
Flask drop (spaces at the end, `?`, `#` and what follows) and decodes the %-escapes,
whose values are the constant `Quoted`.  `Crash` and `Restart` are those of the daemon;
a line is written and read word by word (`Line`, `Strtok`, `Loaded`).

How they fit together: `ObjLookup` and `RouteCalc` start from what `LsaFlood` keeps in
`pft` and `rt`; `PendAck` refines its `outq` and `pd`; `EventLoop` is the schedule of
its handlers inside a node and the path of an ADDFILE to it; `Web` uses the daemon's
requests as steps, its lookup with names that are no prefixes of each other, and
takes from `LsaFlood` that a node learns of the others in the end.  `EventLoop`
EXTENDS `ReqParser`; the rest are tied by refinement (`Directory`, `PS`) or by these
abstractions, since their product is far beyond TLC.

`MCLsaFlood`, `MCRouteCalc`, `MCObjLookup`, `MCPendAck`, `MCEventLoop` and `MCWeb` hold
the instances for TLC; the modules whose names end in `Proofs` the proofs.

The "Bugs" section of a module holds variants of its operators that the code does
*not* have: replacing an operator by its variant must make the property break that
is meant to notice.  `PROJECT.json` pairs them.

## The runs

| run | instance | shows |
|---|---|---|
| `FloodRestart` | 2 nodes, neighbours of each other, one with an object and one that may add it, which crashes and starts again; losses, timeouts; at most 2 datagrams in flight | `TypeOK`; the local LSA describes the node, the two neighbour flags agree, the route table is never stale (`TablesAgree`); no lost wakeup (`QueuedImpliesWr`); one pending copy per neighbour (`PendingOnce`); no number is used twice (`QueuedSeqBound`); the prefix tree follows the LSAs (`PftFresh`); stored numbers never go back (`ViewMonotone`) |
| `FloodRing` | a to b to c to a, ttl 3, losses, duplicates, fairness; after its first announcement a adds an object and advertises, in either order, so that announcements 1 and 2, of different content or of the same, meet over the stored one | nobody is ahead of the owner (`SeqBelowOwner`), a number has one content (`PacketCoherent`), an ACK is never premature (`AckSound`), an LSA that comes round is not sent to its owner (`NoAdToOwner`), nothing is forgotten (`NothingForgotten`); refinement of the directory (`ImplementsDirectory`); every node ends up with the last announcement of those it can hear, two hops away too (`Convergence`) |
| `FloodStored` | a triangle in which a's LSA reaches c directly and through b | **violation**, finding 1 |
| `Route` | every LSA table of 4 nodes with up to 2 links each, in any order, unknown nodes among them | the loop invariant of Dijkstra's algorithm; shortest distances in the graph that was constructed (`ShortestPaths`); next hops one link nearer; the binary search |
| `RouteStop` | the same | **violation**, finding 3 |
| `Lookup` | 3 nodes, the names /a/, /a/b/ and /a/b/c, queries for those and for /a/b/d, two finite costs | the tree holds what the LSAs hold; the nearest exact match is served, a name that nobody claims by a claimant of its longest prefix, and the local node answers only for files it has |
| `LookupNull` | 2 nodes, the names /a/ and /a/b/c | **violation**, finding 2 |
| `LastPre` | as `Lookup` | **violation**, finding 4 |
| `Loop` | 2 clients and 2 descriptors, a GETRD against an ADDFILE or a bad request; one client with every segmentation of four plans, two pipelined requests, a bad one first and a length of two digits among them; closing and resets, before a pass and inside it; blocks of 7 bytes, junk that is a space or not; one datagram of any kind, no memory for it or enough | the descriptor sets are those of the connections through every reuse (`FdSetsMatch`); an ADDFILE or LSA in any place of a pass wakes the routing socket (`RoutingAwake`); requests are answered as they were sent unless a junk byte was taken for data or for the end of a length (`AnswersMatch`), and are answered in the end (`EveryRequestServed`); the listed ways for the daemon to fall are the only ones (`StaysUp`) |
| `Datagrams` | the same daemon without clients, two datagrams | **violation**, finding 5 |
| `PendAck` | a node with 2 neighbours, its own and one other sender in one chain, timers of two ticks | one place for each announcement (`OnePlace`); only what was queued in time goes to a down neighbour (`DownOnlySpared`); refinement of the two sets (`KeepsPending`); nothing stays pending for good (`Retransmitted`); the counter never wraps (in `TypeOK`) |
| `Web` | 4 nodes in a chain; two uploads of equal or different names and contents to one node that crashes, or to the two ends with a fetch between; a name with a space inside, before, or alone; names with `?`, with a leading `/` or `\`, and with `%41`, `%2541` and `%2F` beside the names they decode to | one name is accepted once (`OneUploadWins`); what was answered 200 survives crashes (`AckedServed`); a file vanishes only with an undone upload of the same content (`FileBehindObject`); a fetch gets the object asked for (`FetchIsRight`) and ends although the nodes know different owners (`FetchEnds`) |

### Bounds

`MaxSeq[n]` stops the *local* causes of a flood (a new file, an advertisement, a
neighbour down) at that number; floods that answer a SEQ are not bounded, nor need to
be. With a bound of 2, in `FloodRestart`, a node floods at its start, and once more, so
that an old and a new announcement, their ACKs and their retransmissions coexist; after a
restart the numbers 0, 1, 2 and the jumps by SEQ meet the remembered ones. `MaxBoot` of 2
is one crash, 1 none. `MaxNet` bounds how much a node adds to the network at once: a node
sends when what it has queued fits, or when the network is empty; two datagrams in flight
are enough for any pair of messages to be reordered, and the receiver may handle other
messages between. The run has 967,243 states; with a network that duplicates, too, the
same properties hold on 1,246,286, in twice the time (what is retransmitted arrives twice
in any case). `b` has the object at its start, `a` may add it between its announcements
(`FileSpec`). That `PftFresh` holds here although `a` crashes is due to `MaxSeq`: with
more announcements from before the crash it would not (see the hazards), and its theorem
assumes that there is none.

`FloodRing` begins where each node has been started and the first announcement of each
is stored by the others and acknowledged (`Settled`, a state that `Spec` reaches), which
leaves room for what matters there: `MaxSeq` of 3 lets the owner of the object announce
twice more, with the object from the first or the second on, while older copies are
queued, pending and relayed along the other way round. `MaxNet` is 1: an LSA still
overtakes another one, since what a node has queued or pending waits there for any
time, and several may be sent at once. `MaxTtl` is 2 (3 in the ring) instead of 32: one
hop is relayed and the next one is not. `Bucket` puts all senders in one chain in
`FloodRestart` and `FloodStored`, and each in its own in `FloodRing`: sharing one breaks
`NothingForgotten` and `Convergence` (see the observations). The flood runs do not check
for deadlock: with the bounds, and without losses, the system comes to rest.

In `RouteCalc` four nodes suffice for a path of length 3, for two paths of equal
length, for an unreachable node and for an LSA of a node that is unknown; the value
of `Infinity` only has to exceed the number of nodes.

In `PendAck` two announcements of the node and one that it relays fill a chain with
three entries for one neighbour and two for the other, so that each walk meets its
target first, in the middle and last, behind an entry of another sender or before it.
`MaxReply` of 1 keeps one ACK in the list: it is only in the way of the announcements.
In `EventLoop` two descriptors with two clients are enough for a descriptor to be
closed and given away in one pass; blocks of 7 bytes end in the middle of a field in
some plans and just behind a request in another, and a segment may end at each place
around that.  With a length of two digits it may end between them; the limits of the
fields are scaled with the model's bytes. `cuts` says where in an item segments may end
besides its end: everywhere for the client that is alone (in the long request, around its
length, the end of a block and its own end), nowhere for the two, which are there for the
descriptors. `Datagrams` leaves the clients out, which do not matter to it.  In `Web` one
or two crashes let a daemon die with the line written and the answer not sent, and read
its list again; a chain of four is the smallest in which two nodes that know different
owners are neighbours and neither is an owner.  The escapes are one that gives a letter,
one that gives an escape, and one that gives a slash.

### Fairness

`Fairness` of `LsaFlood` assumes of the code that its loop keeps running: a node that can
start does, the queue is sent when the socket is in `wrset`, and what stays pending for
a neighbour is found due by some tick.  (The sending is strongly fair only because
`MaxNet` can disable it for a while, which nothing in the code does.)  Of the network it
assumes that a datagram does not stay for ever, and that when the last announcement of an
owner is sent to a node again and again, one copy arrives (`SF` on its delivery).  Nothing
is assumed of ACKs.  Advertisements and expiry are not fair: convergence has to come
from retransmission alone.

`EventLoop` assumes that the loop goes on (`WF` of its step) as long as the daemon is
up; clients need not send, wait or close.  `PendAck` assumes of the loop that what is
queued is sent and that the timer ticks (`WF` of each; `select` leaves in `tv` what is
left of the interval, so that traffic does not put the tick off for ever).  `Web` assumes
that a request to a daemon is answered (`WF` of `Hop`: `Loop` shows it) and that what a
node has reaches the others (`WF` of `Learn`: `Convergence`).

## Findings

1. **A late first announcement is taken for a restart** (`FloodStored`,
   `client_info.c:478`).  In a triangle, c has a's announcement 1 directly; b still
   relays announcement 0 to c.  c answers b with a SEQ, since 0 is less than 1 and
   must be a restart.  `update_seq_num` gives b's copy of announcement 0 the number
   1.  The real announcement 1 is then acknowledged by b as stale, and its new
   object is unknown to b (and to everyone behind b) until a's next advertisement.
2. **A lookup reads through NULL** (`LookupNull`, `pft.c:196`): with /a/ and
   /a/b/c announced, GETRD /a/b/d.
3. **An unknown node hides known ones** (`RouteStop`, `dijkstra.c:313`).  `nbr_id` moves
   on only behind a known node, so that the scan of an LSA ends at the first link to a
   node that has no LSA, where the comment at `dijkstra.c:307` says that only the link
   to it is left out.  Nodes behind the later links are taken to be out of reach.  What
   the table does hold is shortest in the graph that was constructed (`ShortestPaths`),
   and in the topology if in each LSA the links to known nodes come first
   (`ShortestWhenScanned`).
4. **`last_pre` is the exact match** (`LastPre`, `pft.c:187`).  `forward.c:69` and the
   example above `pft_get_obj_list` say that it is the longest prefix without the exact
   match.  The code takes the last array on the way, which for a claimed name is its own:
   if none of its claimants can be reached, the second pass of `lookup_file` tries the
   same ones again, and a claimant of a prefix that can be reached is not asked.  For
   names that nobody claims it is the longest prefix (`LongestServed`).
5. **A runt is not discarded** (`Datagrams`, `client_info.c:437`): the `recvfrom` under
   "discard the diagram" has `MSG_PEEK` like the one before it.  The datagram stays first
   in the socket, `select` returns at once again and again, and no later packet is read.

### Observations

Other weaknesses that the model shows.  Where one contradicts a comment or a document
that is quoted with it; there is no run of its own, because a property of a passing run
states precisely how far the code does hold what is said.

* An announcement that was in the list when its neighbour went down is still sent,
  and retransmitted for ever: the cleanup (`sel_timeout.c:97`) searches the pending
  table only (`DownOnlySpared`).  `client_info.c:664` says "don't send to down neighbor",
  and does so where packets are queued.
* `remove_pd_ack` can take out the entry of another sender (`client_info.c:385`,
  `Mistaken`, `Unpend`), though the comment above says "find the exact one": ids that
  are equal modulo 50 share a chain.  That announcement is then not sent again if it was
  lost, which is why `NothingForgotten` and `Convergence` are stated for owners that are
  alone in their chain (`Alone`).  It also forgets `entr_cnt` for all but the first entry:
  the counter gets too high, never too low.
* A request is parsed with the byte behind the last one received (`buf_ctrl.c:25`): if
  just the last byte of a field is missing it is made up; if it is a space behind the
  first digits of a length, the length ends there; and if the bytes end just before the
  end of a block the parser follows a NULL pointer (`torn` and `edge`).
* With pipelined requests the block the parser is in is freed (`client_info.c:157`).  So
  it is if a length is cut as above: the request ends too early, and what is left of it
  is in blocks that are freed.  A connection that is reset ends the daemon
  (`rt_ctrl.c:93`).  So does an answer on a connection that is broken, by SIGPIPE
  (`client_info.c:275`: no `MSG_NOSIGNAL`, and no handler): it takes a client that closes
  or resets between the reading and the answering of requests it has pipelined, or of one
  that was cut.  These and the NULL pointer are the reasons in `StaysUp`; the daemon of
  `EventLoop` looks up its own objects only, with those of others finding 2 comes to them.
* A datagram of no known type, and an announcement for which `malloc` fails
  (`client_info.c:457`), stay in the socket like a runt.
* An upload that is undone removes a file that an earlier one of the same content
  needs, also if the two do not overlap: a name that is too long is enough
  (`FileBehindObject`).  So does one whose answer was lost because the daemon crashed
  behind the line it had written; after the restart the object has no file.
* A name with a space is not read back from its line as it was written: after a
  restart `a b` is `a`, with `b` as its path, and can be uploaded once more, and ` a` is
  `a`, which is then served to those who ask for `a` (`Entries` in `FetchIsRight`).  A
  blank name is accepted, and keeps the daemon from starting again (`AckedServed`,
  `OneUploadWins`).  `README.txt:93` says that "after rebooting, the node can still know
  what files it has"; `AckedServed` has it for all names without a space.
* A name changes on its way through a URL: it is cut at a `?` or `#`, its %-escapes are
  decoded (`%41` is asked for as `A`), spaces at its end are dropped, and one that begins
  with `\` arrives as another one (`Clean` in `FetchIsRight`).

## Proofs

The proofs hold for every value of the constants that the assumption of the module
allows (`FloodAssumption`, `RouteAssumption`, `LookupAssumption`, `PendAssumption`,
`ParserAssumption`, `LoopAssumption` and `PlanAssumption`, `WebAssumption`): every set of
nodes and neighbour lists, every bound, every kind of network, any number of clients,
uploads and names, requests and fields of any length, blocks of any size. Where something
else is assumed the theorem says so. `LsaReliableProofs` extends `LsaFloodProofs`;
`Induction` has what several need of numbers and of functions defined by recursion over
them.

| module | theorems | assumed besides |
|---|---|---|
| `LsaFloodProofs` | `TypeInvariance` (`TypeOK`), `TablesInvariance` (`TablesAgree`), `WakeupInvariance` (`QueuedImpliesWr`) | |
| | `SeqBoundInvariance` (`QueuedSeqBound`), `PendingOnceInvariance` (`PendingOnce`), `ViewsOnlyMoveOn` (`ViewMonotone`), `NoAdToOwnerInvariance` (`NoAdToOwner`) | |
| `LsaReliableProofs` | `SeqBelowOwnerInvariance` (`SeqBelowOwner`), `AckSoundInvariance` (`AckSound`) | `NoCrash` |
| | `NothingForgottenInvariance` (`NothingForgotten`) | `NoCrash`, `~Expiring` |
| | `PacketCoherentInvariance` (`PacketCoherent`), `DirectoryRefinement` (`ImplementsDirectory`), `PftInvariance` (`PftFresh`) | `NoCrash` |
| `RouteCalcProofs` | `TypeInvariance` (`TypeOK`), `RoundInvariance` (`RoundInvariant`), `DistancesAreShortest`, `ShortestPathsInvariance` (`ShortestPaths`), `ShortestWhenScanned` (`ShortestInTopology` where no scan ends early), `NextHopAdvancesInvariance` (`NextHopAdvances`), `FindsEveryEntryInvariance` (`FindsEveryEntry`) | |
| `ObjLookupProofs` | `TypeInvariance` (`TypeOK`), `TreeHoldsLsasInvariance` (`TreeHoldsLsas`), `ExactServedInvariance` (`ExactServed`), `LongestServedInvariance` (`LongestServed`) | |
| `PendAckProofs` | `Types` (`TypeOK`), `OnePlaceAlways` (`OnePlace`), `DownOnlySparedAlways` (`DownOnlySpared`), `Refines` (`KeepsPending`) | |
| `EventLoopProofs` | `FdSetsInvariance` (`FdSetsMatch`), `RoutingAwakeInvariance` (`RoutingAwake`), `TypeInvariance` (`TypeOK`), `AnswersMatchInvariance` (`AnswersMatch`), `StaysUpInvariance` (`StaysUp`) | |
| `WebProofs` | `OneUploadWinsInvariance` (`OneUploadWins`), `FileBehindObjectInvariance` (`FileBehindObject`), `AckedServedInvariance` (`AckedServed`), `FetchIsRightInvariance` (`FetchIsRight`) | |

`NoCrash` (every `MaxBoot[n]` is at most 1) is no convenience: a restarted owner
numbers from 0 again, so that the properties that assume it are false with a crash.
`~Expiring` is needed as well: at a timeout the pending table is searched for what a
down neighbour is still to get, and the neighbour becomes valid again without it.
`NothingForgotten` and `Convergence` speak of the owners for which `Alone` holds.

*Types.*  `TypeOK` is not inductive: a relayed packet has the ttl of the stored entry,
and is a packet only if that is positive.  For a relayed LSA `Relays` sees to it; for
the own one it has to be known that its entry always has the full ttl (`OwnTtl`).
`IType` is the two together.

*Tables.*  `QueuedImpliesWr` and the three parts of `TablesAgree` are inductive only
together (`TablesOK`): the route table, for one, is recomputed from the neighbour flags, and
`handle_time_out` rebuilds the local LSA only if a neighbour went down.

*Numbers.*  `QueuedSeqBound`, `PendingOnce` and `ViewMonotone` rest on `NumbersOK`: a
flood uses a number that is in no queue yet, because all in the queues are below the
next own number, or not above the stored copy, which the flood replaces.

*Effects.*  Without crashes every step has one of four effects (lemma
`Effects`): nothing is said or learnt but answers (`Quiet`), a node announces its
LSA (`Own`), a node stores an announcement (`Learn`), or a copy takes over the number of
a SEQ (`Jump`).  The invariants `Honest` (numbers and ACKs), `HeldOK` (what is kept for
the neighbours) and `Contents` (what announcements with one number, or an older and a
newer one, have in common) are proved of the effects, and so is the refinement: `Own`
is `Publish`, `Learn` and `Jump` are `Learn` of the directory, `Quiet` is a stutter.
That no object is taken back in a copy needs `Contents`: a newer announcement has all
objects of the copy it replaces (`AdsNewer`), although `Jump` gives an old content a
newer number (finding 1).  The prefix tree follows from the same fact.

*Routes.*  `RoundInvariant` is inductive with the types: a visited node keeps its
distance because no later one is nearer.  That distances are not too small is an
invariant of its own (`NotTooSmall`): every function that grows by at most one over
each link stays below the distances, in every round; at the end the distances are such
a function themselves, and so the greatest one.  At the end `prev` makes a tree of the
nodes that can be reached (`Tree`), from which the rest follows: the nodes within k
links, as the reference counts them, are those with a distance of at most k
(`WithinTree`), and no distance is as large as the number of nodes (`Near`); following
`prev` from any node ends at the node itself, and the last step but one is the next hop
(`HopExists`, `HopLeads`).  The table is sorted because a finite set of numbers can be
counted from the least one up (`Counted`); of the binary search, one comparison keeps
what there is to find in the half that is kept (`Halved`), and the induction is over the
size of the window (`SearchFinds`).

*Prefix tree.*  An array must be without repetition (`Once`) for the removal by
swapping to take the node out; `ArraysOK` says so, and that each array lists exactly
the nodes that announce its name.  What a lookup finds is then a matter of how it
walks: the tree has the first levels of a name and no more (`Descent`), the arrays on
the way, laid one behind the other, can be told from the last one by their length alone
(`FlattenLast`), and the last one that is not empty is that of the longest claimed
prefix (`LongestIs`).

*Pending table.*  The three invariants and the types of list and chains are inductive
together (`IInv`): a new announcement is in no place yet because everything queued or
pending has a number below the next one.  The two walks are the work: `OnlyIs` and
`PushedIs` say that their result lists the places of a set, each once (`Lists`), and
from that follow what announcements it holds (`OnlyAnns`, `PushedAnns`), that it doubles
none, and how the size of the table changes (`OneLess`, `SomeMore`, for `entr_cnt`).
The induction along a walk is over a set of numbers, the positions up to which the
claim holds (`UpTo` of `Induction`: a set that has 0 and with every number the next one
has them all).
Each handler then has one of three effects on the two sets (`Kind`, `SendInv`,
`TickInv`), and the refinement is read off; only for an ACK or SEQ it must be known
where the walk stops: at the entry it is for, at none, or at one that differs from it in
the sender alone (`RemoveKeeps`), which is `Mistaken`.

*Event loop.*  That two clients never share a descriptor needs that nobody is in the
backlog twice or has a descriptor already, and that `accept` is called only if
somebody waits (`BacklogOK`).

*Parser.*  `LoopInv` adds what holds of each client (`Side`) and between a client and
its connection (`Link`).  Its core is `Aligned`: unless `torn`, the parser stands where
an item of the plan begins, or at the place in it that its state says, with the lengths
and fields it has read equal to those sent.  That a call of `parse_req` keeps this
(`ParseAligned`) is proved step by step (`MethodAligned`, `LenAligned`, `DataAligned`)
from where the items lie in the stream (`PlanLaidOut`, `RequestIs`) and from what a
reader finds there (`FirstRead`, `NumRead`, `ValRead`).  It is here that a length cut by
a junk space turned up, which `StaysUp` had not allowed for, and which no plan with
lengths of one digit shows.
For `StaysUp` it must be known in addition that a NULL node is always at a place where
`edge` was set (`ParseRuns`), that what is freed ends before the next request as
long as the client waits (`first` in `Link`, `DanglingOK`), and that a client that waits
for its answer, if its request is not cut, gets one in a pass, so that no second send can
meet a broken connection.

*Uploads.*  Why an accepted name cannot be accepted again is that it is in the list,
and comes back into it after a crash (`Listed`): a line is read as it was written if the
name is one word (`OneWordLine`, of `Strtok`).  For the files, an upload is followed
from the moment it saves its own (`FilesOK`).  What is served is what was accepted
because every entry in memory comes from a line, and every line from an upload
(`Backed`), whose lines stay (`EveryStep`).  A fetch is right because a clean name
comes through a URL unchanged (`SafeInUrl`, `CleanName`) and a node looks into its own list for what
is in it (`KnowsOwn`); and it finds an owner as long as nobody crashes, because what is
known only grows (`FetchInv`, which all steps but the fetch's own keep by `Onward`).

Every invariant and action property that a passing run checks is also proved, some of
them without crashes, as the table says.  Only
model-checked are the liveness properties, which are beyond the prover: `Convergence`,
`EveryRequestServed`, `Retransmitted`, `FetchEnds`; and the five
violations of the findings, which are counterexamples.

## Not modelled

Allocation failures (but for the one in `ProcessRtInf`), the wording of requests and
answers, logging, and the capacity of
arrays (`darr.c:39` resizes in bytes what is counted in elements; what happens then is
up to the allocator).  `ObjLookup` takes an LSA's objects to include those of the one
it replaces, which is so as long as its owner does not restart.  A crashed node that
stays down is a node that does nothing and whose datagrams are lost.  The two-second
interval and what `select` leaves of it: a tick may come at any time.  The web server's
own failures (a full disk, no socket), and that it relays the error page of the next
node as if it were the object.  Node ids are
taken to be the same on all nodes, and each neighbour to have one address.  See
`PROJECT.json` for the components that are left out and why.

## What could follow

1. Convergence with restarts, expiry and periodic advertisements: it needs fairness of
   advertisements, an end of expiry, and a property that allows what finding 1 and the
   restart hazards of `PROJECT.json` do in between.
2. `PftFresh` with restarts, which fails when a restarted owner announces less; the
   objects that may stay behind could be stated instead.
