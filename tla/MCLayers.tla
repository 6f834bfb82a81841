------------------------------ MODULE MCLayers ------------------------------
(***************************************************************************)
(* Instances of Layers for TLC: a client that stays and may use a stream,  *)
(* and one that may leave.                                                 *)
(***************************************************************************)
EXTENDS Layers

CONSTANTS c1, c2

TwoClients == {c1, c2}
First      == {c1}
Second     == {c2}
=============================================================================
