---------------------------- MODULE MCObjLookup ----------------------------
(***************************************************************************)
(* Instances of ObjLookup for TLC.                                         *)
(***************************************************************************)
EXTENDS ObjLookup, TLC

CONSTANTS n1, n2, n3

\* "/a/", "/a/b/" and "/a/b/c", as in the example of README.txt.
A   == <<"/", "a/">>
AB  == <<"/", "a/", "b/">>
ABC == <<"/", "a/", "b/", "c">>
ABD == <<"/", "a/", "b/", "d">>

Objects == {A, AB, ABC}
Outer == {A, ABC}
Queries == {A, AB, ABC, ABD}

Symm == Permutations(Node \ {Self})
=============================================================================
