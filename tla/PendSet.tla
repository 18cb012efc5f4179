------------------------------- MODULE PendSet -------------------------------
(***************************************************************************)
(* What the queue and the pending table of a node promise together: an     *)
(* announcement for a neighbour is first queued, then, once sent, pending, *)
(* and queued again when its timer has run out.  Only the answer to it, or *)
(* the end of the neighbour, takes it out.  In LsaFlood the same two sets  *)
(* are outq and pd.                                                        *)
(***************************************************************************)
VARIABLES
    queue,    \* the announcements to be sent; each has a field dst
    pending,  \* those sent and not answered
    answer    \* what the last message answered: no announcement or one

Init == queue = {} /\ pending = {} /\ answer = {}

\* What joins the queue is either new or was pending until now.
Grows(again) == queue \subseteq queue' /\ (queue' \ queue) \cap pending \subseteq again

\* A message is handled: it may answer an announcement, and others be made.
Handle == pending' = pending \ answer' /\ Grows({})

Send == answer' = {} /\ queue' = {} /\ pending' = pending \cup queue

\* A tick: all that is pending for a neighbour that is down is dropped, and
\* some of the rest is to be sent again.
Tick ==
    \E down \in SUBSET {a.dst : a \in pending} :
        LET left == {a \in pending : a.dst \notin down}
        IN  answer' = {} /\ Grows(left) /\ pending' = left \ queue'

Next == Handle \/ Send \/ Tick
Spec == Init /\ [][Next]_<<queue, pending, answer>>
=============================================================================
