------------------------- MODULE OffloadScanManager -------------------------
(***************************************************************************)
(* scanning/offload/offload_scan_manager.cpp: the object that finds the     *)
(* Wi-Fi Offload HAL, keeps its status and starts and stops scans over it,  *)
(* together with the HAL service itself (external: another process).        *)
(*                                                                          *)
(* The module has no Next of its own: OffloadScanManager is driven by       *)
(* ScannerImpl and calls back into it in the middle of its own handlers, so *)
(* PnoScanner composes the two.  An operator whose last parameter is ok is  *)
(* a C++ function: it relates the state before the call, the state after it *)
(* and the value returned.                                                  *)
(***************************************************************************)
EXTENDS ScanPlans, Naturals, Sequences

CONSTANTS
    MaxHal,         \* how many times the HAL service may come up
    MaxHalEvents,   \* bound on the HAL callbacks not yet dispatched
    HalFaults       \* may a call on a live HAL fail?

ASSUME OffloadAssumption ==
    /\ MaxHal \in Nat
    /\ MaxHalEvents \in Nat \ {0}
    /\ HalFaults \in BOOLEAN

NullHal == 0        \* proxies are numbered by the HAL instance they reach

VARIABLES
    wifi_offload_hal,    \* the proxy held, NullHal for a null pointer
    service_available,
    offload_status,
    cached_scan_results, \* has a report been cached?
    hal_service,         \* the HAL instance that runs, NullHal if none does
    hal_count,           \* how many instances have run so far
    hal_linked,          \* is a death recipient linked to wifi_offload_hal?
    hal_callback,        \* does the running instance know our callback?
    hal_plan,            \* what the running instance scans for us, or NoScan
    hal_events,          \* its oneway callbacks, not yet dispatched
    hal_deaths           \* the instances whose death is not yet notified

managerVars == <<wifi_offload_hal, service_available, hal_linked, hal_callback>>
halVars == <<hal_service, hal_count, hal_plan>>
offloadVars == <<managerVars, halVars, offload_status, cached_scan_results,
                 hal_events, hal_deaths>>

(* OffloadScanManager::StatusCode without kNoService, which is never stored *)
(* in offload_status_ but computed by getOffloadStatus.                     *)
StatusCode == {"kNoError", "kTimeOut", "kNotConnected", "kError"}

(* The codes of IOffloadCallback::onError and the status each one becomes.  *)
(* "INVALID" stands for a code outside of the enumeration.                  *)
ErrorCode == {"OK", "TIMEOUT", "NO_CONNECTION", "ERROR", "INVALID"}

StatusOf_Unconverted(code) == code  \* mutant: the HAL's code is stored as is

StatusOf(code) ==
    CASE code = "OK" -> "kNoError"
      [] code = "TIMEOUT" -> "kTimeOut"
      [] code = "NO_CONNECTION" -> "kNotConnected"
      [] code = "ERROR" -> "kError"

HalEvent == {"scan_result"} \cup ErrorCode

OffloadTypeOK ==
    /\ wifi_offload_hal \in 0..MaxHal
    /\ service_available \in BOOLEAN
    /\ offload_status \in StatusCode
    /\ cached_scan_results \in BOOLEAN
    /\ hal_service \in 0..MaxHal
    /\ hal_count \in 0..MaxHal
    /\ hal_linked \in BOOLEAN
    /\ hal_callback \in BOOLEAN
    /\ hal_plan \in Plan
    /\ hal_events \in Seq(HalEvent)
    /\ hal_deaths \in SUBSET (1..MaxHal)

---------------------------------------------------------------------------
(* What InitService returns and the fields it leaves behind.                *)
InitOutcome(ok, hal, linked, callback) ==
    [ok |-> ok, hal |-> hal, linked |-> linked, callback |-> callback]

(* InitService: the outcomes of looking the HAL up, linking to its death    *)
(* and giving it our callback.  Each failing return keeps what was assigned *)
(* before it: a proxy may be held, and even linked, while the service is    *)
(* not available.                                                           *)
InitService ==
    {InitOutcome(FALSE, NullHal, FALSE, hal_callback)}
    \cup IF hal_service = NullHal THEN {} ELSE
         {InitOutcome(FALSE, hal_service, FALSE, hal_callback),
          InitOutcome(FALSE, hal_service, TRUE, hal_callback),
          InitOutcome(TRUE, hal_service, TRUE, TRUE)}

InitServiceIfNeeded(hal) ==
    IF service_available
    THEN {InitOutcome(TRUE, hal, hal_linked, hal_callback)}
    ELSE InitService

(* The manager's fields after InitServiceIfNeeded had outcome init.         *)
Initialised(init) ==
    /\ wifi_offload_hal' = init.hal
    /\ service_available' = init.ok
    /\ hal_linked' = init.linked
    /\ hal_callback' = init.callback

(* getOffloadStatus() = kNoError, evaluated after InitServiceIfNeeded.      *)
Usable(init) == init.ok /\ offload_status = "kNoError"

(* The constructor (OffloadScanManager is built by ScannerImpl's).          *)
OffloadInit ==
    /\ cached_scan_results = FALSE
    /\ hal_plan = NoScan
    /\ hal_events = <<>>
    /\ hal_deaths = {}
    /\ hal_service \in {0, 1} \cap (0..MaxHal)
    /\ hal_count = hal_service
    /\ \/ /\ hal_service # NullHal
          /\ wifi_offload_hal = hal_service
          /\ service_available = TRUE
          /\ hal_linked = TRUE
          /\ hal_callback = TRUE
          /\ offload_status = "kNoError"
       \/ /\ wifi_offload_hal \in {NullHal, hal_service}
          /\ service_available = FALSE
          /\ hal_linked \in BOOLEAN
          /\ hal_linked => wifi_offload_hal # NullHal
          /\ hal_callback = FALSE
          /\ offload_status = "kError"

---------------------------------------------------------------------------
(* A call on proxy hal arrives: the instance behind it still runs.          *)
Reaches(hal) == hal # NullHal /\ hal = hal_service

(* configureScans then subscribeScanResults on the proxy hal.  If the first *)
(* succeeds and the second does not, a HAL that was already subscribed goes *)
(* on with the new configuration.                                           *)
HalStart(hal, s, ok) ==
    \/ /\ ok
       /\ Reaches(hal)
       /\ hal_plan' = s
    \/ /\ ~ok
       /\ ~Reaches(hal) \/ HalFaults
       /\ UNCHANGED hal_plan
    \/ /\ ~ok
       /\ Reaches(hal) /\ HalFaults
       /\ hal_plan # NoScan
       /\ hal_plan' = s

startScan(s, ok) ==
    /\ \E init \in InitServiceIfNeeded(wifi_offload_hal) :
          /\ Initialised(init)
          /\ IF Usable(init)
             THEN HalStart(init.hal, s, ok)
             ELSE ~ok /\ UNCHANGED hal_plan
    /\ UNCHANGED <<hal_service, hal_count, offload_status,
                   cached_scan_results, hal_events, hal_deaths>>

(* unsubscribeScanResults on a proxy that is not null.                      *)
HalStop(hal, ok) ==
    \/ /\ ok
       /\ Reaches(hal)
       /\ hal_plan' = NoScan
    \/ /\ ~ok
       /\ ~Reaches(hal) \/ HalFaults
       /\ UNCHANGED hal_plan

(* stopScan reaches wifi_offload_hal_-> with a null pointer.  hal is the    *)
(* proxy at the time of the call.                                           *)
StopScanDerefsNull(hal) ==
    /\ service_available
    /\ offload_status = "kNoError"
    /\ hal = NullHal

stopScan(ok) ==
    /\ ~StopScanDerefsNull(wifi_offload_hal)
    /\ \E init \in InitServiceIfNeeded(wifi_offload_hal) :
          /\ Initialised(init)
          /\ IF Usable(init)
             THEN HalStop(init.hal, ok)
             ELSE ~ok /\ UNCHANGED hal_plan
    /\ UNCHANGED <<hal_service, hal_count, cached_scan_results, hal_deaths>>

---------------------------------------------------------------------------
(* The HAL process.                                                         *)
HalStarts ==
    /\ hal_service = NullHal
    /\ hal_count < MaxHal
    /\ hal_count' = hal_count + 1
    /\ hal_service' = hal_count + 1
    /\ UNCHANGED <<managerVars, hal_plan, offload_status, cached_scan_results,
                   hal_events, hal_deaths>>

(* Its death is notified to the recipient linked to the proxy we hold, if   *)
(* there is one.  Callbacks it had sent are still dispatched.               *)
HalDies ==
    /\ hal_service # NullHal
    /\ hal_service' = NullHal
    /\ hal_plan' = NoScan
    /\ hal_callback' = FALSE
    /\ hal_deaths' = IF hal_linked /\ wifi_offload_hal = hal_service
                     THEN hal_deaths \cup {hal_service} ELSE hal_deaths
    /\ UNCHANGED <<wifi_offload_hal, service_available, hal_linked, hal_count,
                   offload_status, cached_scan_results, hal_events>>

(* A scan result, or an asynchronous status; with an error status the HAL   *)
(* may have given up scanning.                                              *)
HalReports(e) ==
    /\ hal_callback
    /\ Len(hal_events) < MaxHalEvents
    /\ hal_events' = Append(hal_events, e)
    /\ \/ /\ e = "scan_result" => hal_plan # NoScan
          /\ UNCHANGED hal_plan
       \/ /\ e \in {"TIMEOUT", "NO_CONNECTION", "ERROR"}
          /\ hal_plan' = NoScan
    /\ UNCHANGED <<managerVars, hal_service, hal_count, offload_status,
                   cached_scan_results, hal_deaths>>

=============================================================================
