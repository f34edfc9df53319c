------------------------------ MODULE MCSoftAp ------------------------------
(* Instances of SoftAp for TLC.                                             *)
EXTENDS SoftAp, TLC
=============================================================================
