-------------------------------- MODULE MCWeb --------------------------------
(***************************************************************************)
(* Instances of Web for TLC: a chain of four nodes.  In the plans of one   *)
(* kind two users upload to node 1, the same name or content among them,   *)
(* and the daemon crashes; in those of another the ends of the chain have  *)
(* the same object, and a fetch starts between them; in the third kind the *)
(* object asked for has a name that a URL changes into another one's.      *)
(***************************************************************************)
EXTENDS Web

CONSTANTS j1, j2

Nodes == 1..4
Chain == [n \in Nodes |-> [m \in Nodes |-> IF n < m THEN m - n ELSE n - m]]

\* "%41", which stands for "a" here, and "%2541", which stands for "%41"; and
\* "%2F".
Quotes == ("%a" :> "a") @@ ("%%a" :> "%a") @@ ("%/" :> "/")

\* "a", "a b", " ", " a", "/a", "\\a", "a?", "%41", "%2541", "%2Fa", and a name
\* that is too long.
A == <<"a">>
AB == <<"a", " ", "b">>
Blank == <<" ">>
Padded == <<" ", "a">>
SlashA == <<"/", "a">>
Back == <<"\\", "a">>
Query == <<"a", "?">>
Percent == <<"%a">>
Twice == <<"%%a">>
Slash == <<"%/", "a">>
Long == <<"a", "b", "a", "b">>

Uploads(x, n, c, y, m, d) ==
    [j \in Job |-> IF j = j1 THEN [node |-> n, name |-> x, content |-> c]
                   ELSE [node |-> m, name |-> y, content |-> d]]

Crashing ==
    {[upload |-> Uploads(IF y = AB THEN z ELSE A, 1, "c", y, 1, d),
      ask |-> IF d = "d" THEN {<<2, IF y = Padded THEN A ELSE y>>} ELSE {},
      crashes |-> IF d = "c" /\ y = A THEN 2 ELSE 1, failing |-> y = A] :
        y \in {A, AB, Blank, Padded, SlashA, Long}, z \in {A, AB}, d \in {"c", "d"}}
Fetching ==
    {[upload |-> Uploads(p[1], 1, "c", p[1], m, "d"), ask |-> {<<2, p[1]>>, <<3, p[1]>>},
      crashes |-> p[2], failing |-> FALSE] :
        p \in {<<A, 0>>, <<A, 1>>, <<SlashA, 0>>}, m \in {1, 4}}
\* The name of one object is what becomes of the name of another in a URL.
Quoting ==
    {[upload |-> Uploads(p[1], 1, "c", p[2], m, "d"), ask |-> {<<2, p[1]>>},
      crashes |-> 0, failing |-> FALSE] :
        p \in {<<Back, A>>, <<Query, A>>, <<Percent, A>>, <<Twice, Percent>>,
               <<Slash, SlashA>>}, m \in {1, 4}}
Plans == Quoting \cup Crashing \cup Fetching
=============================================================================
