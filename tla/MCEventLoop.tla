----------------------------- MODULE MCEventLoop -----------------------------
(***************************************************************************)
(* Instances of EventLoop for TLC: what the clients send.  The requests    *)
(* are what webserver.py sends ("GETRD 1 x", "ADDFILE 1 x 1 y"), and a     *)
(* method name there is none of.                                           *)
(***************************************************************************)
EXTENDS EventLoop

CONSTANTS k1, k2

Get(x, cuts) ==
    [bytes |-> <<"GETRD", "_", "1", "_", x>>, ends |-> {5}, cuts |-> cuts,
     nums |-> <<<<"1">>>>,
     req |-> [meth |-> "GETRD", f1 |-> <<x>>, f2 |-> <<>>]]
Add(x, cuts) ==
    [bytes |-> <<"ADDFILE", "_", "1", "_", x, "_", "1", "_", "y">>, ends |-> {5, 9},
     cuts |-> cuts, nums |-> <<<<"1">>, <<"1">>>>,
     req |-> [meth |-> "ADDFILE", f1 |-> <<x>>, f2 |-> <<"y">>]]
\* Its length has two digits, between which a segment can end, or at the edge of
\* a block, or before the last byte.
Long ==
    [bytes |-> <<"GETRD", "_", "1", "0", "_">> \o [i \in 1..10 |-> "x"], ends |-> {15},
     cuts |-> {3, 4, 6, 7, 13, 14}, nums |-> <<<<"1", "0">>>>,
     req |-> [meth |-> "GETRD", f1 |-> [i \in 1..10 |-> "x"], f2 |-> <<>>]]
Bad == [bytes |-> <<"x", "_">>, ends |-> {}, cuts |-> {1}, nums |-> <<>>, req |-> Malformed]

\* One client whose segments end anywhere, or two that send whole requests.
Alone == {<<Get("x", 1..4), Get("z", 1..4)>>, <<Add("x", 1..8)>>,
          <<Bad, Get("x", 1..4)>>, <<Long>>}
Plans ==
    {[k \in Client |-> IF k = k1 THEN p ELSE <<>>] : p \in Alone} \cup
    {[k \in Client |-> IF k = k1 THEN <<Get("x", {})>> ELSE p] :
        p \in {<<Add("x", {})>>, <<Bad>>}}
NoPlans == {[k \in Client |-> <<>>]}
Junks == {"z", "_"}
TwoFds == {5, 6}
=============================================================================
