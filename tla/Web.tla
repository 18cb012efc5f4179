--------------------------------- MODULE Web ---------------------------------
(***************************************************************************)
(* The web server of each node (webserver.py), whose threads use the       *)
(* routing daemon over its local port, with the parts of the daemon they   *)
(* meet: the list of files in memory and in node*.files (config.c), the    *)
(* lookup of an object (forward.c) and the answers (resp.c).               *)
(*                                                                         *)
(* A browser uploads an object, which takes several steps of a thread, or  *)
(* fetches one, which goes from node to node.  A request to a daemon is    *)
(* one step of it (EventLoop).  Routes stay as they are: what changes here *)
(* is who has which object, and who knows it.  That an LSA reaches every   *)
(* node is in LsaFlood, the prefixes of names in ObjLookup; no name here   *)
(* is a prefix of another.                                                 *)
(*                                                                         *)
(* A name, and a line of node*.files, is a sequence of tokens: "/", "\",   *)
(* " ", "?" and "#" (which end the path in a URL), "%" with two digits,    *)
(* and others.  The file of an object, static/<hash>, is one token that    *)
(* stands for the content.                                                 *)
(***************************************************************************)
EXTENDS Integers, FiniteSets, FiniteSetsExt, SequencesExt

CONSTANTS
    Node,      \* the node ids
    Dist,      \* Dist[n][m]: the cost of m in the route table of n
    MaxName,   \* OBJ_NAME_LEN, in tokens
    Quoted,    \* Quoted[t]: the token that t, a "%" with two digits, stands for
    Job,       \* the uploads
    Plan       \* what the users do and what fails: records of
               \*   upload: [Job -> [node, name, content]]
               \*   ask: the pairs of node and name a browser may ask for
               \*   crashes: how often a daemon may crash
               \*   failing: whether node*.files may be impossible to open

\* What separates the words of a line.
Space == " "

ASSUME WebAssumption ==
    /\ Dist \in [Node -> [Node -> Nat]]
    /\ \A n, m \in Node : /\ Dist[n][m] = 0 <=> n = m
                          /\ n # m => \E h \in Node : Dist[n][h] = 1 /\ Dist[h][m] = Dist[n][m] - 1
    /\ MaxName \in Nat
    /\ DOMAIN Quoted \cap {"/", "\\"} = {}
    /\ \A p \in Plan : DOMAIN p.upload = Job /\ p.crashes \in Nat
    /\ \A p \in Plan, j \in Job :
          LET u == p.upload[j]
          IN  /\ u.node \in Node /\ u.content # Space
              /\ u.name # <<>> /\ u.name \in Seq(Range(u.name))
    /\ \A p \in Plan : \A a \in p.ask : a[2] \in Seq(Range(a[2]))

VARIABLES
    plan,    \* the member of Plan that happens
    up,      \* the nodes whose daemon runs
    table,   \* table[n]: g_lfile_ht, pairs <<name, path>>, first found first
    disk,    \* disk[n]: the lines of node*.files
    static,  \* static[n]: the contents in the directory of that name
    known,   \* known[n][m]: the objects n's prefix tree has for node m
    job,     \* job[j]: where the thread of upload j is, and its result
    fetch,   \* where the fetch is, the name as it is there, and its result
    crashed  \* how many crashes there were

vars == <<plan, up, table, disk, static, known, job, fetch, crashed>>

Up(j) == plan.upload[j]

-----------------------------------------------------------------------------
(* Bugs this code does not have, to see that the properties would notice.  *)

BugAppendLine(n, line) == UNCHANGED disk
BugNearest(n, nodes) == nodes
BugHas(t, name) == FALSE
BugUnescape(name) ==
    IF Head(name) = "\\" THEN SubSeq(name, 3, Len(name)) ELSE name
BugUndo(n, c, ok) == static' = [static EXCEPT ![n] = @ \ {c}]

-----------------------------------------------------------------------------
(* Names and lines.                                                        *)

\* strtok(" \n"): the word of a line that starts at or after position from,
\* none if there is none, and where the next search starts.
Strtok(line, from) ==
    LET starts == {i \in from..Len(line) : line[i] # Space}
        first  == Min(starts)
        last   == Min({i \in first..Len(line) + 1 :
                          i = Len(line) + 1 \/ line[i] = Space})
    IN  IF starts = {} THEN [ok |-> FALSE, word |-> <<>>, next |-> from]
        ELSE [ok |-> TRUE, word |-> SubSeq(line, first, last - 1), next |-> last]

\* A line of node*.files: what add_localfile appends, and what load_localfile
\* makes of it.
Line(name, path) == name \o <<Space>> \o path
Loads(line) == Strtok(line, Strtok(line, 1).next).ok
Loaded(line) == LET name == Strtok(line, 1)
                IN  <<name.word, Strtok(line, name.next).word>>

\* escape_html_str, at a daemon.
Escape(name) == IF Head(name) = "/" THEN <<"\\", "\\">> \o Tail(name) ELSE name

\* The way through a URL.  urlopen drops the spaces at the end and leaves a "%"
\* as it is; the peer keeps what comes before "?" or "#" and decodes each "%".
InUrl(name) ==
    LET ends == {i \in DOMAIN name : \/ name[i] \in {"?", "#"}
                                     \/ \A k \in i..Len(name) : name[k] = Space}
        path == SubSeq(name, 1, Min(ends \cup {Len(name) + 1}) - 1)
    IN  [i \in DOMAIN path |-> IF path[i] \in DOMAIN Quoted THEN Quoted[path[i]] ELSE path[i]]

\* What the peer's route <path:obj> takes, and relay_request makes of it.
Routed(name) == name # <<>> /\ Head(name) # "/"
Unescape(name) ==
    IF Head(name) = "\\" THEN <<"/">> \o SubSeq(name, 3, Len(name)) ELSE name

-----------------------------------------------------------------------------
(* The daemon.                                                             *)

Names(t) == {e[1] : e \in Range(t)}
Has(t, name) == name \in Names(t)

\* The path of an object in the table: the entry inserted last is found.
PathOf(t, name) == t[Min({i \in DOMAIN t : t[i][1] = name})][2]

AppendLine(n, line) == disk' = [disk EXCEPT ![n] = Append(@, line)]

\* The nodes that lookup_file finds for a name at n, the nearest of them.
Nearest(n, nodes) == {m \in nodes : \A k \in nodes : Dist[n][m] <= Dist[n][k]}
Lookup(n, name) ==
    IF Len(name) \in 1..MaxName
    THEN Nearest(n, {m \in Node : name \in known[n][m]}) ELSE {}

\* The neighbours on a shortest way.
NextHops(n, m) == {h \in Node : Dist[n][h] = 1 /\ Dist[h][m] = Dist[n][m] - 1}

\* A crash loses what was in memory; a fetch under way may now fail, and the
\* connections end on which uploads were to check for their names.
CrashOf(n, jobs) ==
    /\ crashed < plan.crashes
    /\ job' = [j \in Job |-> IF jobs[j] = "check" /\ Up(j).node = n THEN "cut" ELSE jobs[j]]
    /\ crashed' = crashed + 1
    /\ up' = up \ {n}
    /\ table' = [table EXCEPT ![n] = <<>>]
    /\ known' = [known EXCEPT ![n] = [m \in Node |-> {}]]
    /\ fetch' = [fetch EXCEPT !.sure = FALSE]

Crash(n) ==
    /\ n \in up
    /\ CrashOf(n, job)
    /\ UNCHANGED <<plan, disk, static>>

\* main: load_localfile, init_lsa.  A line without two words ends the start.
Restart(n) ==
    LET t == Reverse([i \in DOMAIN disk[n] |-> Loaded(disk[n][i])])
    IN  /\ n \notin up
        /\ \A i \in DOMAIN disk[n] : Loads(disk[n][i])
        /\ up' = up \cup {n}
        /\ table' = [table EXCEPT ![n] = t]
        /\ known' = [known EXCEPT ![n][n] = Names(t)]
        /\ UNCHANGED <<plan, disk, static, job, fetch, crashed>>

\* An LSA of m reaches n; what m named before stays in the tree.
Learn(n, m) ==
    /\ n # m /\ {n, m} \subseteq up
    /\ known' = [known EXCEPT ![n][m] = @ \cup Names(table[m])]
    /\ UNCHANGED <<plan, up, table, disk, static, job, fetch, crashed>>

-----------------------------------------------------------------------------
(* rd_addfile: the steps of one thread.                                    *)

Step(j, from, to) == job[j] = from /\ job' = [job EXCEPT ![j] = to]
daemon == <<plan, up, table, disk, known, fetch, crashed>>

\* Connect; without a daemon the upload fails before anything was done.
Begin(j) ==
    /\ IF Up(j).node \in up THEN Step(j, "new", "check") ELSE Step(j, "new", "500")
    /\ UNCHANGED <<daemon, static>>

\* GETRD on that connection: an object that is found is not added again.  All
\* other answers are taken to say that it is not there, also none (recv gives ""
\* or raises) because the daemon has crashed, whether or not it runs again.
Check(j) ==
    /\ \/ IF Lookup(Up(j).node, Up(j).name) # {}
          THEN Step(j, "check", "exists") ELSE Step(j, "check", "save")
       \/ Step(j, "cut", "save")
       \/ Step(j, "cut", "500")
    /\ UNCHANGED <<daemon, static>>

\* The file is saved under a temporary name, hashed and moved.
Save(j) ==
    LET n == Up(j).node
    IN  /\ Step(j, "save", "add")
        /\ static' = [static EXCEPT ![n] = @ \cup {Up(j).content}]
        /\ UNCHANGED daemon

\* Nobody listens: connect raises, and the file stays.
AddNoDaemon(j) ==
    /\ Up(j).node \notin up
    /\ Step(j, "add", "500")
    /\ UNCHANGED <<daemon, static>>

\* The daemon crashes after the thread has connected and before it handles
\* ADDFILE: recv gives "", or raises, and then the file stays.
AddUnhandled(j) ==
    /\ Up(j).node \in up
    /\ job[j] = "add"
    /\ \E to \in {"noanswer", "500"} : CrashOf(Up(j).node, [job EXCEPT ![j] = to])
    /\ UNCHANGED <<plan, disk, static>>

\* ADDFILE is refused (the name is too long, or in the list), or the list
\* cannot be opened.
AddRefused(j) ==
    LET n == Up(j).node
    IN  /\ n \in up
        /\ \/ Len(Up(j).name) > MaxName
           \/ Has(table[n], Up(j).name)
           \/ plan.failing
        /\ Step(j, "add", "refused")
        /\ UNCHANGED <<daemon, static>>

\* add_localfile: the line is written, then the entry made; the new LSA is
\* entered in the prefix tree.  The daemon may crash after it has written.
AddDone(j) ==
    LET n == Up(j).node
        t == <<<<Up(j).name, <<Up(j).content>>>>>> \o table[n]
    IN  /\ n \in up
        /\ Len(Up(j).name) <= MaxName
        /\ ~Has(table[n], Up(j).name)
        /\ AppendLine(n, Line(Up(j).name, <<Up(j).content>>))
        /\ \/ /\ Step(j, "add", "added")
              /\ table' = [table EXCEPT ![n] = t]
              /\ known' = [known EXCEPT ![n][n] = @ \cup Names(t)]
              /\ UNCHANGED <<up, fetch, crashed>>
           \/ job[j] = "add" /\ CrashOf(n, [job EXCEPT ![j] = "noanswer"])
        /\ UNCHANGED <<plan, static>>

\* An answer other than OK, or none: the file is removed, whoever else may have
\* saved the same content.
Undo(n, c, ok) ==
    static' = [static EXCEPT ![n] = IF ok THEN @ ELSE @ \ {c}]
Finish(j) ==
    /\ \/ Step(j, "added", "200")
       \/ Step(j, "refused", "undone")
       \/ Step(j, "noanswer", "lost")
    /\ Undo(Up(j).node, Up(j).content, job[j] = "added")
    /\ UNCHANGED daemon

-----------------------------------------------------------------------------
(* rd_getfile and relay_request: one fetch, from node to node.             *)

NoFetch == [at |-> "none", node |-> Min(Node), name |-> <<>>, asked |-> <<>>,
            file |-> <<>>, sure |-> FALSE]

\* Every node knows of some node that has the object (for the properties).
KnownEverywhere(name) == up = Node /\ \A n \in Node : Lookup(n, name) # {}

Ask(n, name) ==
    /\ fetch.at = "none"
    /\ <<n, name>> \in plan.ask
    /\ fetch' = [NoFetch EXCEPT !.at = "lookup", !.node = n, !.name = name,
                    !.asked = name, !.sure = KnownEverywhere(name)]
    /\ UNCHANGED <<plan, up, table, disk, static, known, job, crashed>>

Ends(at, file) == fetch' = [fetch EXCEPT !.at = at, !.file = file]

\* The answer is a file of this node, or the URL of a neighbour, where the same
\* is done with the name that arrives there; else the browser gets an error.  A
\* daemon that does not run may have crashed before the thread connected or after.
Hop ==
    LET n == fetch.node
        found == Lookup(n, fetch.name)
        onward == InUrl(Escape(fetch.name))
    IN  /\ fetch.at = "lookup"
        /\ \/ n \notin up /\ \E at \in {"500", "404"} : Ends(at, <<>>)
           \/ n \in up /\ found = {} /\ Ends("404", <<>>)
           \/ /\ n \in up /\ n \in found
              /\ LET path == PathOf(table[n], fetch.name)
                 IN  IF path \in {<<c>> : c \in static[n]} THEN Ends("file", path)
                     ELSE Ends("nofile", path)
           \/ \E m \in found \ {n} : \E h \in NextHops(n, m) :
                 /\ n \in up
                 /\ IF Routed(onward)
                    THEN fetch' = [fetch EXCEPT !.node = h, !.name = Unescape(onward)]
                    ELSE Ends("404", <<>>)
        /\ UNCHANGED <<plan, up, table, disk, static, known, job, crashed>>

-----------------------------------------------------------------------------
Init ==
    /\ plan \in Plan
    /\ up = Node
    /\ table = [n \in Node |-> <<>>]
    /\ disk = [n \in Node |-> <<>>]
    /\ static = [n \in Node |-> {}]
    /\ known = [n \in Node |-> [m \in Node |-> {}]]
    /\ job = [j \in Job |-> "new"]
    /\ fetch = NoFetch
    /\ crashed = 0

Upload(j) ==
    \/ Begin(j) \/ Check(j) \/ Save(j)
    \/ AddNoDaemon(j) \/ AddUnhandled(j) \/ AddRefused(j) \/ AddDone(j) \/ Finish(j)

Next ==
    \/ \E n \in Node : Crash(n) \/ Restart(n)
    \/ \E n, m \in Node : Learn(n, m)
    \/ \E j \in Job : Upload(j)
    \/ \E n \in Node, name \in {a[2] : a \in plan.ask} : Ask(n, name)
    \/ Hop

Spec == Init /\ [][Next]_vars

\* Threads run, and LSAs reach every node (Convergence of LsaFlood).
FairSpec == Spec /\ WF_vars(Hop) /\ WF_vars(\E n, m \in Node : Learn(n, m))

-----------------------------------------------------------------------------
(* Properties.                                                             *)

Word(name) == Strtok(name, 1).word

\* Of two uploads of one name to one node, at most one succeeds, though the
\* check for the name and its addition are two requests to the daemon, which may
\* crash between; unless it does and the name has a space, of which the list
\* keeps only the beginning.
OneUploadWins ==
    \A i, j \in Job : /\ i # j /\ job[i] = "200" /\ job[j] = "200"
                      /\ Up(i).node = Up(j).node
                      /\ Word(Up(i).name) = Up(i).name \/ crashed = 0
                      => Up(i).name # Up(j).name

\* An upload that was answered 200 is served by its node while that runs, also
\* after crashes, with the path it was given, if its name is one word and no
\* other name in the list begins with it.  (A name with a space is another one
\* after a restart, and its path is lost.)
AckedServed ==
    \A j \in Job :
        LET n == Up(j).node
            name == Up(j).name
            alike == {i \in DOMAIN disk[n] : Word(disk[n][i]) = name}
        IN  job[j] = "200" /\ n \in up /\ Word(name) = name /\ Cardinality(alike) <= 1
              => Has(table[n], name) /\ PathOf(table[n], name) = <<Up(j).content>>

\* A file that an object in the list needs is missing only after an upload of
\* the same content was undone: another one, or one that got no answer because of a
\* crash.
FileBehindObject ==
    \A j \in Job :
        LET n == Up(j).node
        IN  job[j] \in {"added", "200"} /\ Up(j).content \notin static[n]
              => \E i \in Job \ {j} : /\ job[i] \in {"undone", "lost"}
                                      /\ Up(i).node = n
                                      /\ Up(i).content = Up(j).content

\* The names that come through a URL, and a restart, as they are.
Clean(name) == /\ Head(name) # "\\"
               /\ ({"?", "#", Space} \cup DOMAIN Quoted) \cap Range(name) = {}

\* What the list of its node makes of an upload: name and path, and after a crash
\* what is read from its line.
Entries(j) ==
    LET name == Up(j).name
        path == <<Up(j).content>>
    IN  {<<name, path>>} \cup IF crashed > 0 THEN {Loaded(Line(name, path))} ELSE {}

\* A fetch that ends with a file ends with the one that an upload to that node
\* has under the name that was asked for, whichever way it was relayed.  (Its
\* own file, but after a crash for a name with a space: " a" is then "a", and
\* of "a b" the path is "b".)
\* If every node knew of some owner when it began, though of different ones,
\* and no daemon has crashed since, it does not end for want of a node that has
\* the object.
FetchIsRight ==
    fetch.at # "none" /\ Clean(fetch.asked) =>
        /\ fetch.at = "file" =>
              \E j \in Job : /\ Up(j).node = fetch.node
                             /\ <<fetch.asked, fetch.file>> \in Entries(j)
        /\ fetch.sure => fetch.at \in {"lookup", "file", "nofile"}

\* A fetch ends: nodes that know of different owners may send it back and
\* forth, but only until they have learnt of each other's.
FetchEnds == fetch.at = "lookup" ~> fetch.at # "lookup"
=============================================================================
