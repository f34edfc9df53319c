----------------------- MODULE MCInterfaceLifecycle -----------------------
(* Instances of InterfaceLifecycle for TLC.                                 *)
EXTENDS InterfaceLifecycle, TLC
=============================================================================
