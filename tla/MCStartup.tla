----------------------------- MODULE MCStartup -----------------------------
(* Instances of Startup. *)
EXTENDS Startup

MCGroups == {"regulatory", "scan", "mlme", "vendor"}
=============================================================================
