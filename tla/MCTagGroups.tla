---------------------------- MODULE MCTagGroups ----------------------------
(***************************************************************************)
(* Instances of TagGroups for TLC: a client that stays and uses datagrams, *)
(* and one that may leave and may use a stream.                            *)
(***************************************************************************)
EXTENDS TagGroups

CONSTANTS c1, c2

TwoClients == {c1, c2}
Second     == {c2}
=============================================================================
