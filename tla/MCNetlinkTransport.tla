------------------------- MODULE MCNetlinkTransport -------------------------
(* Instances of NetlinkTransport for TLC.                                   *)
EXTENDS NetlinkTransport
=============================================================================
