-------------------------- MODULE MCUdpConnection --------------------------
(***************************************************************************)
(* Instances of UdpConnection for TLC: one client, one thread of the       *)
(* server, and the configurations they may have.                           *)
(***************************************************************************)
EXTENDS UdpConnection

OneScale == {0}
TwoScales == {0, 7}
OneMethod == {"FC_NONE"}
TwoMethods == {"FC_NONE", "FC_TCP_LIKE"}
OneCompression == {"CMPR_NONE"}
TwoCompressions == {"CMPR_NONE", "CMPR_ADDR_SHARE"}
=============================================================================
