---------------------------- MODULE LsaDirectory ----------------------------
(***************************************************************************)
(* What flooding promises while no node restarts: a directory.  Each owner *)
(* publishes versions of its catalogue of objects, 1, 2, ...; each other   *)
(* node has a copy of some published version, which only ever moves        *)
(* forward, and in which no object is taken back.  The directory may be    *)
(* picked up at any point of its life.                                     *)
(***************************************************************************)
EXTENDS Naturals

CONSTANTS Node, Obj

VARIABLES
    pub,    \* pub[s]: the last version s has published, 0 before the first
    cat,    \* cat[s]: the objects in it
    seen,   \* seen[n][s]: the version of s that n has, 0 for none
    copy    \* copy[n][s]: the objects of s that n knows of

Init ==
    /\ pub \in [Node -> Nat] /\ seen \in [Node -> [Node -> Nat]]
    /\ cat \in [Node -> SUBSET Obj] /\ copy \in [Node -> [Node -> SUBSET Obj]]
    /\ \A n, s \in Node :
          n # s => seen[n][s] <= pub[s] /\ copy[n][s] \subseteq cat[s]

Publish(s) ==
    /\ pub' = [pub EXCEPT ![s] = @ + 1]
    /\ \E os \in SUBSET Obj : cat[s] \subseteq os /\ cat' = [cat EXCEPT ![s] = os]
    /\ UNCHANGED <<seen, copy>>

Learn(n, s) ==
    /\ \E v \in seen[n][s] + 1 .. pub[s] : seen' = [seen EXCEPT ![n][s] = v]
    /\ \E os \in SUBSET cat[s] :
          copy[n][s] \subseteq os /\ copy' = [copy EXCEPT ![n][s] = os]
    /\ UNCHANGED <<pub, cat>>

Next ==
    \/ \E s \in Node : Publish(s)
    \/ \E n, s \in Node : n # s /\ Learn(n, s)

Spec == Init /\ [][Next]_<<pub, cat, seen, copy>>
=============================================================================
