---------------------------- MODULE MCRouteCalc ----------------------------
(***************************************************************************)
(* Instances of RouteCalc for TLC.                                         *)
(***************************************************************************)
EXTENDS RouteCalc

Nodes == 0..3
=============================================================================
