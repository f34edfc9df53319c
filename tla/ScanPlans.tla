----------------------------- MODULE ScanPlans -----------------------------
(***************************************************************************)
(* The requests of a PNO scan.  A PnoSettings parcelable (networks,         *)
(* interval, RSSI thresholds) is one member of Settings: the properties     *)
(* only tell one request from another.                                      *)
(***************************************************************************)
CONSTANTS
    Settings,  \* the PnoSettings the framework asks for
    NoScan     \* "no scan"

ASSUME ScanPlansAssumption == NoScan \notin Settings

Plan == Settings \cup {NoScan}
=============================================================================
