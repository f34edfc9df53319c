---------------------------- MODULE MCPnoScanner ----------------------------
(* Instances of PnoScanner for TLC.  Two requests tell the current one from *)
(* a stale one; symmetry is sound for the safety runs because no property   *)
(* singles a request out.                                                   *)
EXTENDS PnoScanner, TLC

Symmetry == Permutations(Settings)
=============================================================================
