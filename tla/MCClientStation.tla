-------------------------- MODULE MCClientStation --------------------------
(* Instances of ClientStation for TLC.  Two access points tell the one that *)
(* is left from the one that is joined.                                     *)
EXTENDS ClientStation, TLC

Symmetry == Permutations(BSS) \cup Permutations(Macs)
=============================================================================
