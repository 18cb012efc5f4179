----------------------------- MODULE MCLsaFlood -----------------------------
(***************************************************************************)
(* Instances of LsaFlood for TLC: the topologies and bounds of the runs.   *)
(***************************************************************************)
EXTENDS LsaFlood

CONSTANTS a, b, c, o

\* Every node is a neighbour of every other one.
Full == [n \in Node |-> Node \ {n}]

\* a -> b -> c -> a: an LSA comes round to a node next to its owner.
Ring == [n \in Node |-> IF n = a THEN {b} ELSE IF n = b THEN {c} ELSE {a}]

\* A triangle in which the LSAs of a reach c directly and through b.
Detour == [n \in Node |-> IF n = a THEN {b, c} ELSE IF n = b THEN {c} ELSE {}]

\* The chains of the senders: all in one, or each in its own.
OneChain == [n \in Node |-> 1]
OwnChains == [n \in Node |-> n]

\* Bounds on the floods and the starts of the nodes.
OnlyA(k) == [n \in Node |-> IF n = a THEN k ELSE 1]
One == OnlyA(1)
ATwo == OnlyA(2)
AThree == OnlyA(3)
Two == [n \in Node |-> 2]

\* b has a file when it first starts, or no node has one.
FileInit == Init /\ files = [n \in Node |-> IF n = b THEN {o} ELSE {}]
FileSpec == FileInit /\ [][Next]_vars
EmptyInit == Init /\ files = [n \in Node |-> {}]
EmptySpec == EmptyInit /\ [][Next]_vars

\* A later state of EmptySpec in a ring: every node has been started, and the
\* first announcement of each has reached the others and is acknowledged.
Settled ==
    LET first(s) == LocalLsa(0, Nbr[s], {})
        hops(n, s) == IF n \in Nbr[s] THEN 1 ELSE 2
        tables == [n \in Node |-> [s \in Node |->
                      IF n = s THEN [first(s) EXCEPT !.seq = 1]
                      ELSE [first(s) EXCEPT !.ttl = MaxTtl - hops(n, s)]]]
    IN  /\ boots = [n \in Node |-> 1]
        /\ files = [n \in Node |-> {}]
        /\ nb    = Nbr
        /\ lsa   = tables
        /\ rt    = [n \in Node |-> RouteInput(n, tables[n], Nbr[n])]
        /\ pft   = [n \in Node |-> [s \in Node |-> {}]]
        /\ outq  = [n \in Node |-> {}]
        /\ pd    = [n \in Node |-> {}]
        /\ wr    = [n \in Node |-> FALSE]
        /\ net   = {}
LiveSpec == Settled /\ [][Next]_vars /\ Fairness
=============================================================================
