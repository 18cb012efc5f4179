------------------------------ MODULE MCPendAck ------------------------------
(***************************************************************************)
(* Node 1 with neighbours 2 and 3; the announcements of 1 and of 2, which  *)
(* it relays to 3, share a chain of the table.                             *)
(***************************************************************************)
EXTENDS PendAck

Neighbours == <<2, 3>>
Senders == {1, 2}
OneChain == [s \in Senders |-> 1]
Seqs == [s \in Senders |-> IF s = 1 THEN 2 ELSE 1]
=============================================================================
